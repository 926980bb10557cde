----------------------------- MODULE QueueProofs -----------------------------
(***************************************************************************)
(* Proofs about BceQueue for any number of queues, any ring sizes and any  *)
(* payloads, and about CommandQueue, which is built on it, for any number  *)
(* of callers and calls.                                                   *)
(*                                                                         *)
(* The argument: measured from head, the indices of a queue are always in  *)
(* the order head, completion_cidx, completion_tail, devNext, doorbell,    *)
(* tail (IndexOrder), and the completion queue holds, in the order of its  *)
(* positions, exactly the completions between completion_tail and devNext  *)
(* (CqInv).  From the second follows that the entry at cq->index is always *)
(* the one its queue expects, which in turn keeps the first.               *)
(*                                                                         *)
(* What the slots hold (DataInv): the payloads from head on are, in order, *)
(* the submissions that were not handed to a callback yet, and a stored or *)
(* pending completion carries the result of the payload in its slot. From  *)
(* it follows that each queue is a fifo to its users.                      *)
(*                                                                         *)
(* Every step of the command queue is a step of the queue it is built on,  *)
(* so all this holds of it too.  On top of it the entries of tres and the  *)
(* slots between head and tail correspond one to one (RegisteredInv,       *)
(* DistinctInv), and an entry belongs to the current call of a caller that *)
(* has not been woken, except, once its sleeper has been signalled, the    *)
(* one at head (EntryInv).  lck keeps a caller's two accesses and those of *)
(* the callback apart (LockInv).                                           *)
(***************************************************************************)
EXTENDS CommandQueue, SequenceTheorems, TLAPS

-----------------------------------------------------------------------------
(* Ring arithmetic without the modulus.                                    *)
LEMMA IncCases ==
    ASSUME NEW n \in Nat \ {0}, NEW i \in 0..(n - 1)
    PROVE  /\ Inc(i, n) = (IF i = n - 1 THEN 0 ELSE i + 1)
           /\ Inc(i, n) \in 0..(n - 1)
  BY DEF Inc

(* Distances on a ring are indices, and tell positions apart.              *)
LEMMA DistType ==
    ASSUME NEW n \in Nat \ {0}, NEW a \in 0..(n - 1), NEW b \in 0..(n - 1)
    PROVE  /\ Dist(a, b, n) \in 0..(n - 1)
           /\ Dist(a, b, n) = 0 <=> a = b
           /\ \A d \in 0..(n - 1) : Dist(a, d, n) = Dist(a, b, n) => d = b
  <1>1. Dist(a, b, n) \in 0..(n - 1)
    BY DEF Dist
  <1>2. Dist(a, b, n) = 0 <=> a = b
    BY DEF Dist
  <1>3. ASSUME NEW d \in 0..(n - 1), Dist(a, d, n) = Dist(a, b, n)
        PROVE  d = b
    BY <1>3 DEF Dist
  <1> QED
    BY <1>1, <1>2, <1>3

(* Moving the far end one further.                                         *)
LEMMA DistIncRight ==
    ASSUME NEW n \in Nat \ {0}, NEW a \in 0..(n - 1), NEW b \in 0..(n - 1)
    PROVE  Dist(a, Inc(b, n), n) =
             (IF Dist(a, b, n) = n - 1 THEN 0 ELSE Dist(a, b, n) + 1)
  <1>1. Inc(b, n) = IF b = n - 1 THEN 0 ELSE b + 1
    BY IncCases
  <1> QED
    BY <1>1 DEF Dist

(* Moving the near end one further.                                        *)
LEMMA DistIncLeft ==
    ASSUME NEW n \in Nat \ {0}, NEW a \in 0..(n - 1), NEW b \in 0..(n - 1)
    PROVE  Dist(Inc(a, n), b, n) =
             (IF a = b THEN n - 1 ELSE Dist(a, b, n) - 1)
  <1>1. Inc(a, n) = IF a = n - 1 THEN 0 ELSE a + 1
    BY IncCases
  <1> QED
    BY <1>1 DEF Dist

(* The same, for the slots of a submission ring.                           *)
LEMMA AheadFacts ==
    ASSUME NEW a \in Slots, NEW b \in Slots
    PROVE  /\ Inc(a, ElCount) \in Slots
           /\ Ahead(a, b) \in Slots
           /\ Ahead(a, b) = 0 <=> a = b
           /\ \A d \in Slots : Ahead(a, d) = Ahead(a, b) => d = b
           /\ Ahead(a, Inc(b, ElCount)) =
                (IF Ahead(a, b) = ElCount - 1 THEN 0 ELSE Ahead(a, b) + 1)
           /\ Ahead(Inc(a, ElCount), b) =
                (IF a = b THEN ElCount - 1 ELSE Ahead(a, b) - 1)
  BY BceQueueAssumption, IncCases, DistType, DistIncRight, DistIncLeft
     DEF Slots, Ahead

-----------------------------------------------------------------------------
(* The last queue on the list and what remains without it.                 *)
LEMMA LastFront ==
    ASSUME NEW s \in Seq(SQs), s # <<>>
    PROVE  /\ Last(s) \in SQs /\ Last(s) = s[Len(s)] /\ Len(s) \in Nat \ {0}
           /\ Front(s) \in Seq(SQs) /\ Len(Front(s)) = Len(s) - 1
           /\ \A i \in 1..(Len(s) - 1) : Front(s)[i] = s[i]
  <1>1. Len(s) \in Nat \ {0}
    OBVIOUS
  <1>2. Front(s) = SubSeq(s, 1, Len(s) - 1)
    BY DEF Front
  <1>3. \A i \in 1..(Len(s) - 1) : s[i] \in SQs
    BY <1>1
  <1>4. Front(s) = [i \in 1..(Len(s) - 1) |-> s[i]]
    BY <1>1, <1>2
  <1>5. Front(s) \in Seq(SQs) /\ Len(Front(s)) = Len(s) - 1
    BY <1>1, <1>3, <1>4
  <1> QED
    BY <1>1, <1>4, <1>5 DEF Last

-----------------------------------------------------------------------------
(* A callback runs only while its queue is on the list.                    *)
CallbackListed == irq \in {"callback", "notify"} => int_sq_list # <<>>

(* The queue whose callback runs is a queue, the last one on int_sq_list.  *)
LEMMA CurrentQueue ==
    ASSUME TypeOK, CallbackListed, irq \in {"callback", "notify"}
    PROVE  /\ Current \in SQs /\ Current = int_sq_list[Len(int_sq_list)]
           /\ Len(int_sq_list) \in Nat \ {0}
           /\ Front(int_sq_list) \in Seq(SQs)
           /\ Len(Front(int_sq_list)) = Len(int_sq_list) - 1
           /\ \A i \in 1..(Len(int_sq_list) - 1) : Front(int_sq_list)[i] = int_sq_list[i]
  BY LastFront DEF TypeOK, CallbackListed, Current

(* The two outcomes of bce_handle_cq_completion.                           *)
LEMMA DrainCases ==
    ASSUME TypeOK, DrainEntry
    PROVE  LET e == cq[cq_index]
               q == e.qid
           IN  /\ e \in Entries /\ q \in SQs /\ e.completion_index \in Slots
               /\ completion_tail[q] # e.completion_index =>
                    UNCHANGED <<completion_tail, completion_data, int_sq_list,
                                has_pending_completions>>
               /\ completion_tail[q] = e.completion_index =>
                    /\ completion_tail' = [completion_tail EXCEPT ![q] = Inc(@, ElCount)]
                    /\ completion_data' = [completion_data EXCEPT
                                             ![q][e.completion_index] = e.result]
                    /\ has_pending_completions' =
                         [has_pending_completions EXCEPT ![q] = TRUE]
                    /\ int_sq_list' = IF has_pending_completions[q]
                                      THEN int_sq_list ELSE Append(int_sq_list, q)
  BY DEF TypeOK, DrainEntry, HandleCqCompletion, Entries

-----------------------------------------------------------------------------
(* Every index stays on its ring, every slot holds a payload, and the list *)
(* is not empty where the code takes its last element.                     *)
THEOREM TypeCorrect == Spec => [](TypeOK /\ CallbackListed)
  <1> DEFINE T == TypeOK /\ CallbackListed
  <1>1. Init => T
    BY BceQueueAssumption
       DEF Init, TypeOK, CallbackListed, Slots, CqSlots, Results, Places
  <1>2. T /\ [Next]_vars => T'
    <2> SUFFICES ASSUME TypeOK, CallbackListed, [Next]_vars PROVE T'
      OBVIOUS
    <2> USE DEF sqVars, devVars, intVars
    <2>0. \A i \in Slots : Inc(i, ElCount) \in Slots
      BY AheadFacts
    <2>00. \A i \in CqSlots : Inc(i, CqCount) \in CqSlots
      BY IncCases, BceQueueAssumption DEF CqSlots
    <2>1. ASSUME NEW q \in SQs, Reserve(q) PROVE T'
      BY <2>1 DEF Reserve, TypeOK, CallbackListed
    <2>2. ASSUME NEW q \in SQs, CancelReservation(q) PROVE T'
      BY <2>2 DEF CancelReservation, TypeOK, CallbackListed
    <2>3. ASSUME NEW q \in SQs, NEW x \in Payloads, NextSubmission(q, x) PROVE T'
      BY <2>3, <2>0 DEF NextSubmission, TypeOK, CallbackListed, Results
    <2>4. ASSUME NEW q \in SQs, SubmitToDevice(q) PROVE T'
      BY <2>4 DEF SubmitToDevice, TypeOK, CallbackListed
    <2>5. ASSUME NEW q \in SQs, DeviceComplete(q) PROVE T'
      BY <2>5, <2>0, <2>00 DEF DeviceComplete, TypeOK, CallbackListed, Entries
    <2>6. CASE DrainEntry
      <3>1. PICK q, i, r : /\ q \in SQs /\ i \in Slots /\ r \in Results
                           /\ cq[cq_index] = [qid |-> q, completion_index |-> i,
                                              result |-> r]
        BY <2>6, DrainCases DEF Entries
      <3>2. completion_tail' \in [SQs -> Slots]
        BY <2>6, <2>0, <3>1, DrainCases DEF TypeOK
      <3>3. completion_data' \in [SQs -> [Slots -> Results]]
        <4>1. CASE completion_tail[q] # i
          BY <2>6, <3>1, <4>1, DrainCases DEF TypeOK
        <4>2. CASE completion_tail[q] = i
          <5>1. completion_data' = [completion_data EXCEPT ![q][i] = r]
            BY <2>6, <3>1, <4>2, DrainCases
          <5> QED
            BY <3>1, <5>1 DEF TypeOK
        <4> QED
          BY <4>1, <4>2
      <3>4. has_pending_completions' \in [SQs -> BOOLEAN]
        BY <2>6, <3>1, DrainCases DEF TypeOK
      <3>5. int_sq_list' \in Seq(SQs)
        <4>1. int_sq_list' = int_sq_list \/ int_sq_list' = Append(int_sq_list, q)
          BY <2>6, <3>1, DrainCases
        <4>2. Append(int_sq_list, q) \in Seq(SQs)
          BY <3>1, AppendProperties DEF TypeOK
        <4> QED
          BY <4>1, <4>2 DEF TypeOK
      <3> QED
        BY <2>6, <2>00, <3>2, <3>3, <3>4, <3>5
           DEF DrainEntry, TypeOK, CallbackListed, Places
    <2>7. CASE Drained
      BY <2>7 DEF Drained, TypeOK, CallbackListed, Places
    <2>8. CASE NextCompletion
      <3>1. Current \in SQs
        BY <2>8, CurrentQueue DEF NextCompletion
      <3> QED
        BY <2>8, <2>0, <3>1 DEF NextCompletion, TypeOK, CallbackListed, Places
    <2>9. CASE NotifySubmissionComplete
      <3>1. Current \in SQs
        BY <2>9, CurrentQueue DEF NotifySubmissionComplete
      <3> QED
        BY <2>9, <2>0, <3>1
           DEF NotifySubmissionComplete, TypeOK, CallbackListed, Places
    <2>10. CASE CallbackReturns
      <3>1. /\ Current \in SQs /\ Front(int_sq_list) \in Seq(SQs)
            /\ Len(int_sq_list) # 1 => Front(int_sq_list) # <<>>
        BY <2>10, CurrentQueue DEF CallbackReturns
      <3> QED
        BY <2>10, <3>1 DEF CallbackReturns, TypeOK, CallbackListed, Places
    <2>11. CASE UNCHANGED vars
      BY <2>11 DEF vars, TypeOK, CallbackListed
    <2> QED
      BY <2>1, <2>2, <2>3, <2>4, <2>5, <2>6, <2>7, <2>8, <2>9, <2>10, <2>11
         DEF Next, Submitting, Interrupt
  <1> QED
    BY <1>1, <1>2, PTL DEF Spec

-----------------------------------------------------------------------------
(* The list of queues to call.  A queue with an unhandled completion is    *)
(* marked, and an idle handler has nothing on the list.                    *)
ListInv == /\ ListConsistent
           /\ irq = "idle" => int_sq_list = <<>>
           /\ \A q \in SQs : completion_cidx[q] # completion_tail[q]
                                => has_pending_completions[q]

(* Every step of the drain loop and of the callbacks keeps int_sq_list and *)
(* the flags has_pending_completions in agreement.                         *)
LEMMA ListInvStep ==
    ASSUME TypeOK, CallbackListed, ListInv, [Next]_vars
    PROVE  ListInv'
  <1> USE DEF sqVars, devVars, intVars, ListInv, ListConsistent, Range
  <1>1. ASSUME NEW q \in SQs, Reserve(q) PROVE ListInv'
    BY <1>1 DEF Reserve
  <1>2. ASSUME NEW q \in SQs, CancelReservation(q) PROVE ListInv'
    BY <1>2 DEF CancelReservation
  <1>3. ASSUME NEW q \in SQs, NEW x \in Payloads, NextSubmission(q, x) PROVE ListInv'
    BY <1>3 DEF NextSubmission
  <1>4. ASSUME NEW q \in SQs, SubmitToDevice(q) PROVE ListInv'
    BY <1>4 DEF SubmitToDevice
  <1>5. ASSUME NEW q \in SQs, DeviceComplete(q) PROVE ListInv'
    BY <1>5 DEF DeviceComplete
  <1>6. CASE DrainEntry
    <2>1. PICK q, i, r : /\ q \in SQs /\ i \in Slots /\ r \in Results
                         /\ cq[cq_index] = [qid |-> q, completion_index |-> i,
                                            result |-> r]
      BY <1>6, DrainCases DEF Entries
    <2>2. irq' = "drain" /\ UNCHANGED completion_cidx
      BY <1>6 DEF DrainEntry
    <2>3. CASE completion_tail[q] # i
      BY <1>6, <2>1, <2>2, <2>3, DrainCases
    <2>4. CASE completion_tail[q] = i
      <3>1. /\ completion_tail' = [completion_tail EXCEPT ![q] = Inc(@, ElCount)]
            /\ has_pending_completions' = [has_pending_completions EXCEPT ![q] = TRUE]
            /\ int_sq_list' = IF has_pending_completions[q]
                              THEN int_sq_list ELSE Append(int_sq_list, q)
        BY <1>6, <2>1, <2>4, DrainCases
      <3>2. CASE has_pending_completions[q]
        BY <2>1, <2>2, <3>1, <3>2 DEF TypeOK
      <3>3. CASE ~has_pending_completions[q]
        <4>1. /\ Len(int_sq_list') = Len(int_sq_list) + 1
              /\ DOMAIN int_sq_list' = 1..(Len(int_sq_list) + 1)
              /\ DOMAIN int_sq_list = 1..Len(int_sq_list)
              /\ Len(int_sq_list) \in Nat
              /\ \A k \in 1..Len(int_sq_list) : int_sq_list'[k] = int_sq_list[k]
              /\ int_sq_list'[Len(int_sq_list) + 1] = q
          BY <2>1, <3>1, <3>3, AppendProperties, LenProperties DEF TypeOK
        <4>2. \A k \in 1..Len(int_sq_list) : int_sq_list[k] # q
          BY <2>1, <3>3, <4>1
        <4>3. \A k, l \in DOMAIN int_sq_list' : int_sq_list'[k] = int_sq_list'[l] => k = l
          BY <4>1, <4>2
        <4>4. \A s \in SQs : s \in Range(int_sq_list') <=> s \in Range(int_sq_list) \/ s = q
          BY <4>1
        <4> QED
          BY <2>1, <2>2, <3>1, <4>3, <4>4 DEF TypeOK
      <3> QED
        BY <3>2, <3>3
    <2> QED
      BY <2>3, <2>4
  <1>7. CASE Drained
    BY <1>7 DEF Drained
  <1>8. CASE NextCompletion
    <2>1. Current \in SQs /\ has_pending_completions[Current]
      BY <1>8, CurrentQueue DEF NextCompletion
    <2> QED
      BY <1>8, <2>1 DEF NextCompletion, TypeOK
  <1>9. CASE NotifySubmissionComplete
    BY <1>9 DEF NotifySubmissionComplete
  <1>10. CASE CallbackReturns
    <2> DEFINE n == Len(int_sq_list)
    <2>1. /\ Current \in SQs /\ Current = int_sq_list[n] /\ n \in Nat \ {0}
          /\ int_sq_list' = Front(int_sq_list)
          /\ DOMAIN int_sq_list = 1..n /\ DOMAIN int_sq_list' = 1..(n - 1)
          /\ \A k \in 1..(n - 1) : int_sq_list'[k] = int_sq_list[k]
      <3>1. Front(int_sq_list) \in Seq(SQs) /\ int_sq_list' = Front(int_sq_list)
        BY <1>10, CurrentQueue DEF CallbackReturns
      <3>2. DOMAIN Front(int_sq_list) = 1..Len(Front(int_sq_list))
        BY <3>1, LenProperties
      <3> QED
        BY <1>10, <3>1, <3>2, CurrentQueue, LenProperties DEF CallbackReturns, TypeOK
    <2>2. \A k, l \in DOMAIN int_sq_list' : int_sq_list'[k] = int_sq_list'[l] => k = l
      BY <2>1
    <2>3. \A s \in SQs : s \in Range(int_sq_list') <=> s \in Range(int_sq_list) /\ s # Current
      BY <2>1
    <2>4. irq' = "idle" => int_sq_list' = <<>>
      BY <1>10, <2>1, CurrentQueue DEF CallbackReturns
    <2>5. /\ has_pending_completions' = [has_pending_completions EXCEPT ![Current] = FALSE]
          /\ completion_cidx[Current] = completion_tail[Current]
          /\ UNCHANGED <<completion_cidx, completion_tail>>
      BY <1>10 DEF CallbackReturns
    <2> QED
      BY <2>1, <2>2, <2>3, <2>4, <2>5 DEF TypeOK
  <1>11. CASE UNCHANGED vars
    BY <1>11 DEF vars
  <1> QED
    BY <1>1, <1>2, <1>3, <1>4, <1>5, <1>6, <1>7, <1>8, <1>9, <1>10, <1>11
       DEF Next, Submitting, Interrupt

-----------------------------------------------------------------------------
(* Measured from head, each queue's indices are in order, and head itself  *)
(* trails completion_cidx by the one completion a callback is handling.    *)
H(q, x) == Ahead(head[q], x)

InHand(q) == IF irq = "notify" /\ Current = q THEN 1 ELSE 0

IndexOrder(q) == /\ H(q, completion_cidx[q]) = InHand(q)
                 /\ H(q, completion_cidx[q]) <= H(q, completion_tail[q])
                 /\ H(q, completion_tail[q]) <= H(q, devNext[q])
                 /\ H(q, devNext[q]) <= H(q, doorbell[q])
                 /\ H(q, doorbell[q]) <= H(q, tail[q])

(* Slots the device has completed and the handler not yet accepted.        *)
InDevice(q, i) == /\ H(q, completion_tail[q]) <= H(q, i)
                  /\ H(q, i) < H(q, devNext[q])

(* The completion queue's entries, by their distance from cq->index.       *)
Pending(p)  == cq[p] # NoEntry
Position(p) == Dist(cq_index, p, CqCount)

(* They are contiguous, from cq->index to where the device writes next.    *)
CqShape == \/ \A p \in CqSlots : Pending(p) <=> Position(p) < Position(devCq)
           \/ cq_index = devCq /\ \A p \in CqSlots : Pending(p)

(* Each is for a slot the device completed; those of one queue are in the  *)
(* order of its slots; and none is missing.                                *)
CqRange == \A p \in CqSlots :
             Pending(p) => InDevice(cq[p].qid, cq[p].completion_index)
CqOrder == \A p, r \in CqSlots :
             /\ Pending(p) /\ Pending(r) /\ cq[p].qid = cq[r].qid
             /\ Position(p) < Position(r)
             => H(cq[p].qid, cq[p].completion_index)
                  < H(cq[p].qid, cq[r].completion_index)
CqComplete == \A q \in SQs, i \in Slots :
             InDevice(q, i) => \E p \in CqSlots : /\ Pending(p) /\ cq[p].qid = q
                                                 /\ cq[p].completion_index = i

CqInv == CqShape /\ CqRange /\ CqOrder /\ CqComplete

RingInv == (\A q \in SQs : IndexOrder(q)) /\ Conservation /\ CqInv

-----------------------------------------------------------------------------
(* Distances from head, in the current state.                              *)
LEMMA HFacts ==
    ASSUME TypeOK, NEW q \in SQs, NEW x \in Slots
    PROVE  /\ H(q, x) \in 0..(ElCount - 1)
           /\ H(q, x) = 0 <=> x = head[q]
           /\ \A y \in Slots : H(q, y) = H(q, x) => y = x
           /\ Inc(x, ElCount) \in Slots
           /\ H(q, x) # ElCount - 1 => H(q, Inc(x, ElCount)) = H(q, x) + 1
           /\ x # head[q] => Ahead(Inc(head[q], ElCount), x) = H(q, x) - 1
           /\ Ahead(Inc(head[q], ElCount), head[q]) = ElCount - 1
  <1>1. head[q] \in Slots
    BY DEF TypeOK
  <1>2. /\ Inc(x, ElCount) \in Slots /\ Ahead(head[q], x) \in Slots
        /\ Ahead(head[q], x) = 0 <=> head[q] = x
        /\ \A y \in Slots : Ahead(head[q], y) = Ahead(head[q], x) => y = x
    BY <1>1, AheadFacts
  <1>3. /\ Ahead(head[q], Inc(x, ElCount)) =
             (IF Ahead(head[q], x) = ElCount - 1 THEN 0 ELSE Ahead(head[q], x) + 1)
        /\ Ahead(Inc(head[q], ElCount), x) =
             (IF head[q] = x THEN ElCount - 1 ELSE Ahead(head[q], x) - 1)
    BY <1>1, AheadFacts
  <1>4. Ahead(Inc(head[q], ElCount), head[q]) = ElCount - 1
    BY <1>1, AheadFacts
  <1> QED
    BY <1>2, <1>3, <1>4 DEF H, Slots

(* The completion queue's part of the invariant is about these variables.  *)
LEMMA CqFrame ==
    ASSUME CqInv, UNCHANGED <<head, completion_tail, devNext, cq, cq_index, devCq>>
    PROVE  CqInv'
  BY DEF CqInv, CqShape, CqRange, CqOrder, CqComplete, Pending, Position, InDevice, H

(* The entry at cq->index is the first of its queue's entries, so it must  *)
(* be the one at completion_tail: that slot has an entry too, and no entry *)
(* of the queue comes before the first.                                    *)
LEMMA FirstEntryIsNext ==
    ASSUME TypeOK, RingInv
    PROVE  IndexMatch
  <1> SUFFICES ASSUME cq[cq_index] # NoEntry
               PROVE  cq[cq_index].completion_index = completion_tail[cq[cq_index].qid]
    BY DEF IndexMatch
  <1> DEFINE e == cq[cq_index]
             q == e.qid
             i == e.completion_index
             t == completion_tail[q]
  <1>1. q \in SQs /\ i \in Slots /\ t \in Slots /\ cq_index \in CqSlots
    BY DEF TypeOK, Entries
  <1>2. InDevice(q, i)
    BY <1>1 DEF RingInv, CqInv, CqRange, Pending
  <1>3. SUFFICES ASSUME i # t PROVE FALSE
    OBVIOUS
  <1>4. H(q, t) < H(q, i) /\ H(q, t) < H(q, devNext[q])
    BY <1>1, <1>2, <1>3, HFacts DEF InDevice, TypeOK
  <1>5. InDevice(q, t)
    BY <1>1, <1>4, HFacts DEF InDevice
  <1>6. PICK p \in CqSlots : Pending(p) /\ cq[p].qid = q /\ cq[p].completion_index = t
    BY <1>1, <1>5 DEF RingInv, CqInv, CqComplete
  <1>7. p # cq_index
    BY <1>3, <1>6
  <1>8. Position(cq_index) < Position(p)
    BY <1>1, <1>7, DistType, BceQueueAssumption DEF Position, CqSlots
  <1>9. H(q, i) < H(q, t)
    BY <1>1, <1>6, <1>8 DEF RingInv, CqInv, CqOrder, Pending
  <1> QED
    BY <1>1, <1>4, <1>9, HFacts

-----------------------------------------------------------------------------
(* The submitting side: one step of a submitter keeps the ring invariant.  *)
LEMMA SubmitStep ==
    ASSUME TypeOK, RingInv, NEW q \in SQs,
           \/ Reserve(q) \/ CancelReservation(q) \/ SubmitToDevice(q)
           \/ \E x \in Payloads : NextSubmission(q, x)
    PROVE  RingInv'
  <1> USE DEF sqVars, devVars, intVars
  <1>1. /\ UNCHANGED <<head, devNext, devCq, completion_cidx, completion_tail, cq,
                       cq_index, irq, int_sq_list>>
        /\ \A s \in SQs : s # q => /\ available_commands'[s] = available_commands[s]
                                   /\ held'[s] = held[s] /\ tail'[s] = tail[s]
                                   /\ doorbell'[s] = doorbell[s]
    BY DEF Reserve, CancelReservation, SubmitToDevice, NextSubmission, TypeOK
  <1>2. CqInv'
    BY <1>1, CqFrame DEF RingInv
  <1>3. ASSUME NEW s \in SQs, s # q
        PROVE  /\ IndexOrder(s)'
               /\ (available_commands[s] + held[s] + Ahead(head[s], tail[s]) = ElCount - 1)'
    BY <1>1, <1>3 DEF RingInv, IndexOrder, Conservation, H, InHand, Current
  <1>4. /\ available_commands[q] \in Nat /\ held[q] \in Nat
        /\ H(q, tail[q]) \in 0..(ElCount - 1) /\ H(q, doorbell[q]) \in 0..(ElCount - 1)
        /\ H(q, devNext[q]) \in 0..(ElCount - 1)
        /\ available_commands[q] + held[q] + H(q, tail[q]) = ElCount - 1
        /\ IndexOrder(q) /\ ElCount \in Nat
    BY HFacts, BceQueueAssumption DEF TypeOK, RingInv, Conservation, H
  <1>5. /\ InHand(q)' = InHand(q)
        /\ H(q, completion_cidx[q])' = H(q, completion_cidx[q])
        /\ H(q, completion_tail[q])' = H(q, completion_tail[q])
        /\ H(q, devNext[q])' = H(q, devNext[q])
        /\ H(q, doorbell[q])' = Ahead(head[q], doorbell'[q])
        /\ H(q, tail[q])' = Ahead(head[q], tail'[q])
        /\ Ahead(head[q], tail[q])' = Ahead(head[q], tail'[q])
    BY <1>1 DEF H, InHand, Current
  <1>6. /\ IndexOrder(q)'
        /\ (available_commands[q] + held[q] + Ahead(head[q], tail[q]) = ElCount - 1)'
    <2>1. CASE Reserve(q)
      BY <2>1, <1>4, <1>5 DEF Reserve, TypeOK, IndexOrder, H
    <2>2. CASE CancelReservation(q)
      BY <2>2, <1>4, <1>5 DEF CancelReservation, TypeOK, IndexOrder, H
    <2>3. CASE SubmitToDevice(q)
      <3>1. doorbell'[q] = tail[q] /\ UNCHANGED <<available_commands, held, tail>>
        BY <2>3 DEF SubmitToDevice, TypeOK
      <3>2. H(q, doorbell[q])' = H(q, tail[q]) /\ H(q, tail[q])' = H(q, tail[q])
        BY <1>5, <3>1 DEF H
      <3> QED
        BY <1>4, <1>5, <3>1, <3>2 DEF IndexOrder, H
    <2>4. ASSUME NEW x \in Payloads, NextSubmission(q, x)
          PROVE  /\ IndexOrder(q)'
                 /\ (available_commands[q] + held[q] + Ahead(head[q], tail[q])
                        = ElCount - 1)'
      <3>1. H(q, Inc(tail[q], ElCount)) = H(q, tail[q]) + 1
        BY <2>4, <1>4, HFacts DEF NextSubmission, TypeOK
      <3>2. /\ tail'[q] = Inc(tail[q], ElCount) /\ held'[q] = held[q] - 1
            /\ UNCHANGED <<available_commands, doorbell>>
        BY <2>4 DEF NextSubmission, TypeOK
      <3> QED
        BY <1>4, <1>5, <3>1, <3>2 DEF IndexOrder, H
    <2> QED
      BY <2>1, <2>2, <2>3, <2>4
  <1> QED
    BY <1>2, <1>3, <1>6 DEF RingInv, Conservation

-----------------------------------------------------------------------------
(* Distances from cq->index, in the current state.                         *)
LEMMA PositionFacts ==
    ASSUME TypeOK, NEW p \in CqSlots
    PROVE  /\ Position(p) \in 0..(CqCount - 1)
           /\ Position(p) = 0 <=> p = cq_index
           /\ \A r \in CqSlots : Position(r) = Position(p) => r = p
           /\ Dist(cq_index, Inc(p, CqCount), CqCount) =
                (IF Position(p) = CqCount - 1 THEN 0 ELSE Position(p) + 1)
           /\ Dist(Inc(cq_index, CqCount), p, CqCount) =
                (IF p = cq_index THEN CqCount - 1 ELSE Position(p) - 1)
           /\ Inc(p, CqCount) \in CqSlots
  <1>1. cq_index \in 0..(CqCount - 1) /\ p \in 0..(CqCount - 1) /\ CqCount \in Nat \ {0}
    BY BceQueueAssumption DEF TypeOK, CqSlots
  <1>2. /\ Position(p) \in 0..(CqCount - 1)
        /\ Position(p) = 0 <=> p = cq_index
        /\ \A r \in CqSlots : Position(r) = Position(p) => r = p
    BY <1>1, DistType DEF Position, CqSlots
  <1>3. Dist(cq_index, Inc(p, CqCount), CqCount) =
                (IF Position(p) = CqCount - 1 THEN 0 ELSE Position(p) + 1)
    BY <1>1, DistIncRight DEF Position
  <1>4. Dist(Inc(cq_index, CqCount), p, CqCount) =
                (IF p = cq_index THEN CqCount - 1 ELSE Position(p) - 1)
    BY <1>1, DistIncLeft DEF Position
  <1>5. Inc(p, CqCount) \in CqSlots
    BY <1>1, IncCases DEF CqSlots
  <1> QED
    BY <1>2, <1>3, <1>4, <1>5

(* The device completes one more slot of q and writes its entry after all  *)
(* the others.                                                             *)
LEMMA DeviceStep ==
    ASSUME TypeOK, RingInv, NEW q \in SQs, DeviceComplete(q)
    PROVE  RingInv'
  <1> USE DEF sqVars, devVars, intVars
  <1> DEFINE n == devNext[q]
             e == [qid |-> q, completion_index |-> n, result |-> ring[q][n]]
  <1>1. /\ UNCHANGED <<available_commands, held, head, tail, doorbell, completion_cidx,
                       completion_tail, cq_index, irq, int_sq_list>>
        /\ n \in Slots /\ n # doorbell[q] /\ devCq \in CqSlots /\ cq[devCq] = NoEntry
        /\ devNext' = [devNext EXCEPT ![q] = Inc(n, ElCount)]
        /\ devCq' = Inc(devCq, CqCount)
        /\ cq' = [cq EXCEPT ![devCq] = e]
    BY DEF DeviceComplete, TypeOK
  <1>2. e \in Entries /\ e # NoEntry
    BY <1>1, NoEntryAssumption DEF TypeOK, Entries
  <1>3. /\ cq'[devCq] = e
        /\ \A p \in CqSlots : p # devCq => cq'[p] = cq[p]
        /\ \A p \in CqSlots : Pending(p)' <=> p = devCq \/ Pending(p)
        /\ ~Pending(devCq)
    BY <1>1, <1>2 DEF TypeOK, Pending
  <1>4. \A p \in CqSlots : Position(p)' = Position(p)
    BY <1>1 DEF Position
  <1>5. \A p \in CqSlots : Pending(p) <=> Position(p) < Position(devCq)
    BY <1>1, <1>3 DEF RingInv, CqInv, CqShape
  <1>6. /\ H(q, n) < H(q, doorbell[q]) /\ H(q, Inc(n, ElCount)) = H(q, n) + 1
        /\ H(q, n) \in Nat /\ H(q, doorbell[q]) \in Nat
        /\ H(q, completion_tail[q]) \in Nat /\ H(q, completion_tail[q]) <= H(q, n)
    BY <1>1, HFacts, BceQueueAssumption DEF TypeOK, RingInv, IndexOrder
  <1>7. /\ \A s \in SQs, x \in Slots : H(s, x)' = H(s, x)
        /\ \A s \in SQs : s # q => devNext'[s] = devNext[s]
        /\ devNext'[q] = Inc(n, ElCount)
        /\ \A s \in SQs : InHand(s)' = InHand(s)
    BY <1>1 DEF H, InHand, Current, TypeOK
  <1>8. \A s \in SQs : IndexOrder(s)'
    <2>1. ASSUME NEW s \in SQs, s # q PROVE IndexOrder(s)'
      BY <2>1, <1>1, <1>7 DEF RingInv, IndexOrder, H
    <2>2. IndexOrder(q)'
      <3>1. /\ H(q, devNext[q])' = H(q, n) + 1
            /\ H(q, completion_cidx[q])' = H(q, completion_cidx[q])
            /\ H(q, completion_tail[q])' = H(q, completion_tail[q])
            /\ H(q, doorbell[q])' = H(q, doorbell[q])
            /\ H(q, tail[q])' = H(q, tail[q])
        BY <1>1, <1>6, <1>7 DEF H
      <3> QED
        BY <3>1, <1>6, <1>7 DEF RingInv, IndexOrder
    <2> QED
      BY <2>1, <2>2
  <1>9. Conservation'
    BY <1>1 DEF RingInv, Conservation
  <1>10. CqShape'
    <2>1. CASE Position(devCq) = CqCount - 1
      <3>1. Dist(cq_index, devCq', CqCount) = 0 /\ devCq' \in CqSlots
        BY <1>1, <2>1, PositionFacts
      <3>2. devCq' = cq_index
        BY <3>1, <1>1, DistType, BceQueueAssumption DEF Position, CqSlots, TypeOK
      <3>3. \A p \in CqSlots : Pending(p)'
        BY <1>1, <1>3, <1>5, <2>1, PositionFacts, BceQueueAssumption
      <3> QED
        BY <1>1, <3>2, <3>3 DEF CqShape
    <2>2. CASE Position(devCq) # CqCount - 1
      <3>1. Dist(cq_index, devCq', CqCount) = Position(devCq) + 1
        BY <1>1, <2>2, PositionFacts
      <3>2. \A p \in CqSlots : Pending(p)' <=> Position(p) < Position(devCq) + 1
        BY <1>1, <1>3, <1>5, PositionFacts
      <3>3. Position(devCq)' = Position(devCq) + 1
        BY <1>1, <3>1 DEF Position
      <3> QED
        BY <1>4, <3>2, <3>3 DEF CqShape
    <2> QED
      BY <2>1, <2>2
  <1>11. \A s \in SQs, x \in Slots : InDevice(s, x)' <=> InDevice(s, x) \/ (s = q /\ x = n)
    <2>1. ASSUME NEW s \in SQs, NEW x \in Slots, s # q
          PROVE  InDevice(s, x)' <=> InDevice(s, x)
      BY <2>1, <1>1, <1>7 DEF InDevice, H
    <2>2. ASSUME NEW x \in Slots
          PROVE  InDevice(q, x)' <=> InDevice(q, x) \/ x = n
      <3>1. InDevice(q, x)' <=> /\ H(q, completion_tail[q]) <= H(q, x)
                               /\ H(q, x) < H(q, n) + 1
        BY <1>1, <1>6, <1>7 DEF InDevice, H
      <3>2. H(q, x) \in Nat /\ (H(q, x) = H(q, n) <=> x = n)
        BY <1>1, HFacts
      <3> QED
        BY <1>6, <3>1, <3>2 DEF InDevice
    <2> QED
      BY <2>1, <2>2
  <1>12. \A p \in CqSlots : Pending(p) => /\ cq[p].qid \in SQs
                                          /\ cq[p].completion_index \in Slots
    BY DEF Pending, TypeOK, Entries
  <1>13. CqRange'
    BY <1>1, <1>2, <1>3, <1>11, <1>12 DEF RingInv, CqInv, CqRange
  <1>14. CqOrder'
    <2> SUFFICES ASSUME NEW p \in CqSlots, NEW r \in CqSlots, Pending(p)', Pending(r)',
                        cq'[p].qid = cq'[r].qid, Position(p) < Position(r)
                 PROVE  H(cq[p].qid, cq[p].completion_index)'
                          < H(cq[p].qid, cq[r].completion_index)'
      BY <1>4 DEF CqOrder
    <2>1. CASE p # devCq /\ r # devCq
      <3>1. Pending(p) /\ Pending(r) /\ cq'[p] = cq[p] /\ cq'[r] = cq[r]
        BY <1>3, <2>1
      <3> QED
        BY <3>1, <1>7, <1>12 DEF RingInv, CqInv, CqOrder
    <2>2. CASE p # devCq /\ r = devCq
      <3>1. Pending(p) /\ cq'[p] = cq[p] /\ cq'[r] = e /\ cq[p].qid = q
        BY <1>3, <2>2
      <3>2. InDevice(q, cq[p].completion_index)
        BY <3>1 DEF RingInv, CqInv, CqRange
      <3> QED
        BY <3>1, <3>2, <1>1, <1>7, <1>12 DEF InDevice
    <2>3. CASE p = devCq
      <3>1. Pending(r) => Position(r) < Position(p)
        BY <1>5, <2>3
      <3>2. r # devCq
        BY <2>3, PositionFacts
      <3> QED
        BY <3>1, <3>2, <1>3, PositionFacts
    <2> QED
      BY <2>1, <2>2, <2>3
  <1>15. CqComplete'
    <2> SUFFICES ASSUME NEW s \in SQs, NEW x \in Slots, InDevice(s, x)'
                 PROVE  \E p \in CqSlots : /\ Pending(p)' /\ cq'[p].qid = s
                                          /\ cq'[p].completion_index = x
      BY DEF CqComplete
    <2>1. CASE s = q /\ x = n
      BY <2>1, <1>1, <1>3
    <2>2. CASE InDevice(s, x)
      <3>1. PICK p \in CqSlots : Pending(p) /\ cq[p].qid = s /\ cq[p].completion_index = x
        BY <2>2 DEF RingInv, CqInv, CqComplete
      <3> QED
        BY <3>1, <1>3
    <2> QED
      BY <2>1, <2>2, <1>11
  <1> QED
    BY <1>8, <1>9, <1>10, <1>13, <1>14, <1>15 DEF RingInv, CqInv

-----------------------------------------------------------------------------
(* The handler accepts the first entry: completion_tail moves past it, and *)
(* what is left starts one position later.                                 *)
LEMMA DrainStep ==
    ASSUME TypeOK, RingInv, DrainEntry
    PROVE  RingInv'
  <1> USE DEF sqVars, devVars
  <1>1. PICK k \in CqSlots, q \in SQs, t \in Slots :
          /\ k = cq_index /\ q = cq[k].qid /\ t = completion_tail[q]
          /\ cq[k].completion_index = t /\ cq[k] # NoEntry
    <2>1. cq_index \in CqSlots /\ cq[cq_index] # NoEntry /\ cq[cq_index].qid \in SQs
      BY DEF DrainEntry, TypeOK, Entries
    <2> QED
      BY <2>1, FirstEntryIsNext DEF IndexMatch, TypeOK
  <1>2. /\ irq # "notify" /\ irq' = "drain"
        /\ UNCHANGED <<available_commands, held, head, tail, doorbell, devNext, devCq,
                       completion_cidx>>
        /\ cq' = [cq EXCEPT ![k] = NoEntry]
        /\ cq_index' = Inc(k, CqCount)
        /\ devCq \in CqSlots
    BY <1>1 DEF DrainEntry, TypeOK
  <1>3. completion_tail' = [completion_tail EXCEPT ![q] = Inc(t, ElCount)]
    BY <1>1, DrainCases
  <1>4. /\ \A s \in SQs : s # q => completion_tail'[s] = completion_tail[s]
        /\ completion_tail'[q] = Inc(t, ElCount)
        /\ \A s \in SQs, x \in Slots : H(s, x)' = H(s, x)
        /\ \A s \in SQs : InHand(s)' = InHand(s)
    BY <1>1, <1>2, <1>3 DEF TypeOK, H, InHand
  <1>5. InDevice(q, t)
    BY <1>1, <1>2 DEF RingInv, CqInv, CqRange, Pending
  <1>6. /\ H(q, t) \in Nat /\ H(q, devNext[q]) \in 0..(ElCount - 1)
        /\ H(q, t) < H(q, devNext[q])
        /\ H(q, Inc(t, ElCount)) = H(q, t) + 1
        /\ H(q, completion_cidx[q]) \in Nat
    BY <1>2, <1>5, HFacts, BceQueueAssumption DEF InDevice, TypeOK
  <1>7. \A s \in SQs : IndexOrder(s)'
    <2>1. ASSUME NEW s \in SQs, s # q PROVE IndexOrder(s)'
      BY <2>1, <1>1, <1>2, <1>4 DEF RingInv, IndexOrder, H
    <2>2. IndexOrder(q)'
      <3>1. /\ H(q, completion_tail[q])' = H(q, t) + 1
            /\ H(q, completion_cidx[q])' = H(q, completion_cidx[q])
            /\ H(q, devNext[q])' = H(q, devNext[q])
            /\ H(q, doorbell[q])' = H(q, doorbell[q])
            /\ H(q, tail[q])' = H(q, tail[q])
        BY <1>1, <1>2, <1>4, <1>6 DEF H
      <3> QED
        BY <1>1, <1>2, <1>4, <1>6, <3>1, BceQueueAssumption DEF RingInv, IndexOrder
    <2> QED
      BY <2>1, <2>2
  <1>8. Conservation'
    BY <1>1, <1>2 DEF RingInv, Conservation
  <1>9. /\ \A p \in CqSlots : Pending(p)' <=> p # k /\ Pending(p)
        /\ \A p \in CqSlots : p # k => cq'[p] = cq[p]
        /\ \A p \in CqSlots : p # k => Position(p)' = Position(p) - 1
        /\ Position(k)' = CqCount - 1
        /\ \A p \in CqSlots : /\ Position(p) \in 0..(CqCount - 1)
                              /\ Position(p) = 0 <=> p = k
    <2>1. \A p \in CqSlots : Position(p)' = IF p = k THEN CqCount - 1
                                                            ELSE Position(p) - 1
      BY <1>1, <1>2, PositionFacts DEF Position
    <2>2. \A p \in CqSlots : /\ cq'[p] = IF p = k THEN NoEntry ELSE cq[p]
                             /\ Position(p) \in 0..(CqCount - 1)
                             /\ Position(p) = 0 <=> p = k
      BY <1>1, <1>2, PositionFacts DEF TypeOK
    <2> QED
      BY <1>1, <1>2, <2>1, <2>2 DEF Pending
  <1>10. CqShape'
    <2>1. CASE cq_index = devCq /\ \A p \in CqSlots : Pending(p)
      <3>1. Position(devCq)' = CqCount - 1
        BY <1>1, <1>2, <1>9, <2>1 DEF Position
      <3>2. \A p \in CqSlots : Pending(p)' <=> Position(p)' < CqCount - 1
        BY <1>1, <1>9, <2>1, BceQueueAssumption
      <3> QED
        BY <3>1, <3>2 DEF CqShape
    <2>2. CASE \A p \in CqSlots : Pending(p) <=> Position(p) < Position(devCq)
      <3>1. Pending(k) /\ devCq # k
        BY <1>1, <1>2, <1>9, <2>2 DEF Pending
      <3>2. Position(devCq)' = Position(devCq) - 1
        BY <1>1, <1>2, <1>9, <3>1 DEF Position
      <3>3. \A p \in CqSlots : Pending(p)' <=> Position(p)' < Position(devCq) - 1
        <4>1. ASSUME NEW p \in CqSlots, p # k
              PROVE  Pending(p)' <=> Position(p)' < Position(devCq) - 1
          BY <1>2, <1>9, <2>2, <4>1, BceQueueAssumption
        <4>2. Pending(k)' <=> Position(k)' < Position(devCq) - 1
          BY <1>1, <1>2, <1>9, BceQueueAssumption
        <4> QED
          BY <4>1, <4>2
      <3> QED
        BY <3>2, <3>3 DEF CqShape
    <2> QED
      BY <2>1, <2>2 DEF RingInv, CqInv, CqShape
  <1>11. \A s \in SQs, x \in Slots : InDevice(s, x)' <=> InDevice(s, x) /\ ~(s = q /\ x = t)
    <2>1. ASSUME NEW s \in SQs, NEW x \in Slots, s # q
          PROVE  InDevice(s, x)' <=> InDevice(s, x)
      BY <2>1, <1>1, <1>2, <1>4 DEF InDevice, H
    <2>2. ASSUME NEW x \in Slots
          PROVE  InDevice(q, x)' <=> InDevice(q, x) /\ x # t
      <3>1. InDevice(q, x)' <=> /\ H(q, t) + 1 <= H(q, x)
                               /\ H(q, x) < H(q, devNext[q])
        BY <1>1, <1>2, <1>4, <1>6 DEF InDevice, H
      <3>2. H(q, x) \in Nat /\ (H(q, x) = H(q, t) <=> x = t)
        BY <1>2, HFacts
      <3> QED
        BY <1>1, <1>6, <3>1, <3>2, BceQueueAssumption DEF InDevice
    <2> QED
      BY <2>1, <2>2
  <1>12. \A p \in CqSlots : Pending(p) => /\ cq[p].qid \in SQs
                                          /\ cq[p].completion_index \in Slots
    BY DEF Pending, TypeOK, Entries
  <1>13. CqRange'
    <2> SUFFICES ASSUME NEW p \in CqSlots, Pending(p)'
                 PROVE  InDevice(cq[p].qid, cq[p].completion_index)'
      BY DEF CqRange
    <2>1. p # k /\ Pending(p) /\ cq'[p] = cq[p]
      BY <1>9
    <2>2. InDevice(cq[p].qid, cq[p].completion_index)
      BY <2>1 DEF RingInv, CqInv, CqRange
    <2>3. cq[p].qid = q => cq[p].completion_index # t
      <3>1. Position(k) < Position(p)
        BY <1>1, <1>9, <2>1, BceQueueAssumption
      <3>2. cq[p].qid = q => H(q, t) < H(q, cq[p].completion_index)
        BY <1>1, <1>2, <2>1, <3>1 DEF RingInv, CqInv, CqOrder, Pending
      <3> QED
        BY <1>6, <3>2
    <2> QED
      BY <2>1, <2>2, <2>3, <1>11, <1>12
  <1>14. CqOrder'
    <2> SUFFICES ASSUME NEW p \in CqSlots, NEW r \in CqSlots, Pending(p)', Pending(r)',
                        cq'[p].qid = cq'[r].qid, Position(p)' < Position(r)'
                 PROVE  H(cq[p].qid, cq[p].completion_index)'
                          < H(cq[p].qid, cq[r].completion_index)'
      BY DEF CqOrder
    <2>1. Pending(p) /\ Pending(r) /\ cq'[p] = cq[p] /\ cq'[r] = cq[r]
      BY <1>9
    <2>2. Position(p) < Position(r)
      BY <1>9, BceQueueAssumption
    <2> QED
      BY <2>1, <2>2, <1>4, <1>12 DEF RingInv, CqInv, CqOrder
  <1>15. CqComplete'
    <2> SUFFICES ASSUME NEW s \in SQs, NEW x \in Slots, InDevice(s, x)'
                 PROVE  \E p \in CqSlots : /\ Pending(p)' /\ cq'[p].qid = s
                                          /\ cq'[p].completion_index = x
      BY DEF CqComplete
    <2>1. InDevice(s, x) /\ ~(s = q /\ x = t)
      BY <1>11
    <2>2. PICK p \in CqSlots : Pending(p) /\ cq[p].qid = s /\ cq[p].completion_index = x
      BY <2>1 DEF RingInv, CqInv, CqComplete
    <2> QED
      BY <1>1, <1>9, <2>1, <2>2
  <1> QED
    BY <1>7, <1>8, <1>10, <1>13, <1>14, <1>15 DEF RingInv, CqInv

-----------------------------------------------------------------------------
(* Going from draining to the callbacks, and from one callback to the      *)
(* next, moves no index.                                                   *)
LEMMA NextCallbackStep ==
    ASSUME TypeOK, RingInv, Drained \/ CallbackReturns
    PROVE  RingInv'
  <1>1. /\ UNCHANGED <<available_commands, held, head, tail, doorbell, devNext, devCq,
                       completion_cidx, completion_tail, cq, cq_index>>
        /\ irq # "notify" /\ irq' # "notify"
    BY DEF Drained, CallbackReturns, sqVars, devVars
  <1>2. CqInv'
    BY <1>1, CqFrame DEF RingInv
  <1>3. \A q \in SQs : IndexOrder(q)'
    BY <1>1 DEF RingInv, IndexOrder, H, InHand
  <1>4. Conservation'
    BY <1>1 DEF RingInv, Conservation
  <1> QED
    BY <1>2, <1>3, <1>4 DEF RingInv

(* The callback takes a completion: completion_cidx is one past head.      *)
LEMMA NextCompletionStep ==
    ASSUME TypeOK, CallbackListed, RingInv, NextCompletion
    PROVE  RingInv'
  <1>1. PICK q \in SQs : q = Current
    BY CurrentQueue DEF NextCompletion
  <1>2. /\ UNCHANGED <<available_commands, held, head, tail, doorbell, devNext, devCq,
                       completion_tail, cq, cq_index, int_sq_list>>
        /\ irq = "callback" /\ irq' = "notify"
        /\ completion_cidx[q] # completion_tail[q]
        /\ completion_cidx' = [completion_cidx EXCEPT ![q] = Inc(@, ElCount)]
    BY <1>1 DEF NextCompletion, sqVars, devVars
  <1>3. CqInv'
    BY <1>2, CqFrame DEF RingInv
  <1>4. \A s \in SQs : InHand(s) = 0 /\ InHand(s)' = IF s = q THEN 1 ELSE 0
    BY <1>1, <1>2 DEF InHand, Current
  <1>5. ASSUME NEW s \in SQs, s # q PROVE IndexOrder(s)'
    BY <1>2, <1>4, <1>5 DEF RingInv, IndexOrder, H, TypeOK
  <1>6. IndexOrder(q)'
    <2>1. H(q, completion_cidx[q]) = 0 /\ H(q, completion_tail[q]) \in 0..(ElCount - 1)
      BY <1>4, HFacts DEF RingInv, IndexOrder, TypeOK
    <2>2. H(q, completion_tail[q]) # 0
      BY <1>2, <2>1, HFacts DEF TypeOK
    <2>3. H(q, Inc(completion_cidx[q], ElCount)) = 1
      <3>1. completion_cidx[q] \in Slots /\ H(q, completion_cidx[q]) # ElCount - 1
        BY <2>1, BceQueueAssumption DEF TypeOK
      <3>2. H(q, Inc(completion_cidx[q], ElCount)) = H(q, completion_cidx[q]) + 1
        BY <3>1, HFacts
      <3> QED
        BY <2>1, <3>2
    <2>4. /\ H(q, completion_cidx[q])' = 1
          /\ H(q, completion_tail[q])' = H(q, completion_tail[q])
          /\ H(q, devNext[q])' = H(q, devNext[q])
          /\ H(q, doorbell[q])' = H(q, doorbell[q])
          /\ H(q, tail[q])' = H(q, tail[q])
      BY <1>2, <2>3 DEF H, TypeOK
    <2> QED
      BY <1>4, <2>1, <2>2, <2>4, BceQueueAssumption DEF RingInv, IndexOrder
  <1>7. Conservation'
    BY <1>2 DEF RingInv, Conservation
  <1> QED
    BY <1>3, <1>5, <1>6, <1>7 DEF RingInv

(* The callback ends it: head catches up, so that every distance from head *)
(* of the queue shrinks by one.                                            *)
LEMMA NotifyStep ==
    ASSUME TypeOK, CallbackListed, RingInv, NotifySubmissionComplete
    PROVE  RingInv'
  <1>1. PICK q \in SQs : q = Current
    BY CurrentQueue DEF NotifySubmissionComplete
  <1>2. /\ UNCHANGED <<held, tail, doorbell, devNext, devCq, completion_cidx,
                       completion_tail, cq, cq_index, int_sq_list>>
        /\ irq = "notify" /\ irq' = "callback"
        /\ head' = [head EXCEPT ![q] = Inc(@, ElCount)]
        /\ available_commands' = [available_commands EXCEPT ![q] = @ + 1]
    BY <1>1 DEF NotifySubmissionComplete, devVars
  <1>3. \A s \in SQs : InHand(s)' = 0 /\ InHand(s) = IF s = q THEN 1 ELSE 0
    BY <1>1, <1>2 DEF InHand, Current
  <1>4. /\ head[q] \in Slots
        /\ \A x \in Slots : /\ H(q, x) \in 0..(ElCount - 1)
                            /\ H(q, x) = 0 <=> x = head[q]
                            /\ H(q, x)' = IF x = head[q] THEN ElCount - 1
                                                         ELSE H(q, x) - 1
        /\ \A s \in SQs, x \in Slots : s # q => H(s, x)' = H(s, x)
    <2>1. head'[q] = Inc(head[q], ElCount) /\ \A s \in SQs : s # q => head'[s] = head[s]
      BY <1>2 DEF TypeOK
    <2>2. \A x \in Slots : H(q, x)' = Ahead(Inc(head[q], ElCount), x)
      BY <2>1 DEF H
    <2> QED
      BY <2>1, <2>2, HFacts DEF H, TypeOK
  <1>5. /\ H(q, completion_cidx[q]) = 1
        /\ H(q, completion_cidx[q]) <= H(q, completion_tail[q])
        /\ H(q, completion_tail[q]) <= H(q, devNext[q])
        /\ H(q, devNext[q]) <= H(q, doorbell[q]) /\ H(q, doorbell[q]) <= H(q, tail[q])
    BY <1>3 DEF RingInv, IndexOrder
  <1>6. /\ completion_cidx[q] \in Slots /\ completion_tail[q] \in Slots
        /\ devNext[q] \in Slots /\ doorbell[q] \in Slots /\ tail[q] \in Slots
    BY DEF TypeOK
  <1>7. /\ H(q, completion_cidx[q])' = 0
        /\ H(q, completion_tail[q])' = H(q, completion_tail[q]) - 1
        /\ H(q, devNext[q])' = H(q, devNext[q]) - 1
        /\ H(q, doorbell[q])' = H(q, doorbell[q]) - 1
        /\ H(q, tail[q])' = H(q, tail[q]) - 1
    <2>1. /\ H(q, completion_tail[q]) > 0 /\ H(q, devNext[q]) > 0
          /\ H(q, doorbell[q]) > 0 /\ H(q, tail[q]) > 0
      BY <1>4, <1>5, <1>6, BceQueueAssumption
    <2> QED
      BY <1>2, <1>4, <1>5, <1>6, <2>1, BceQueueAssumption DEF H
  <1>8. ASSUME NEW s \in SQs, s # q PROVE IndexOrder(s)'
    BY <1>2, <1>3, <1>8 DEF RingInv, IndexOrder, H, TypeOK
  <1>9. IndexOrder(q)'
    BY <1>3, <1>4, <1>5, <1>6, <1>7, BceQueueAssumption DEF IndexOrder
  <1>10. Conservation'
    <2>1. /\ available_commands'[q] = available_commands[q] + 1 /\ held'[q] = held[q]
          /\ available_commands[q] \in Nat /\ held[q] \in Nat
          /\ \A s \in SQs : s # q => available_commands'[s] = available_commands[s]
      BY <1>2 DEF TypeOK
    <2>2. H(q, tail[q]) \in Int
      BY <1>4, <1>6, BceQueueAssumption
    <2>3. ASSUME NEW s \in SQs
          PROVE  available_commands'[s] + held'[s] + H(s, tail[s])' = ElCount - 1
      <3>1. available_commands[s] + held[s] + H(s, tail[s]) = ElCount - 1
        BY DEF RingInv, Conservation, H
      <3>2. CASE s = q
        BY <1>7, <2>1, <2>2, <3>1, <3>2, BceQueueAssumption
      <3>3. CASE s # q
        BY <1>2, <1>4, <2>1, <3>1, <3>3 DEF H, TypeOK
      <3> QED
        BY <3>2, <3>3
    <2> QED
      BY <2>3 DEF Conservation, H
  <1>11. \A s \in SQs, x \in Slots : InDevice(s, x)' <=> InDevice(s, x)
    <2>1. ASSUME NEW s \in SQs, NEW x \in Slots, s # q
          PROVE  InDevice(s, x)' <=> InDevice(s, x)
      BY <1>2, <1>4, <2>1 DEF InDevice, H, TypeOK
    <2>2. ASSUME NEW x \in Slots PROVE InDevice(q, x)' <=> InDevice(q, x)
      <3>1. InDevice(q, x)' <=> /\ H(q, completion_tail[q]) - 1 <= H(q, x)'
                               /\ H(q, x)' < H(q, devNext[q]) - 1
        BY <1>7 DEF InDevice
      <3> QED
        BY <3>1, <1>4, <1>5, <1>6, BceQueueAssumption DEF InDevice
    <2> QED
      BY <2>1, <2>2
  <1>12. \A p \in CqSlots : Pending(p) => /\ cq[p].qid \in SQs
                                          /\ cq[p].completion_index \in Slots
    BY DEF Pending, TypeOK, Entries
  <1>13. CqShape'
    BY <1>2 DEF RingInv, CqInv, CqShape, Pending, Position
  <1>14. CqRange' /\ CqComplete'
    BY <1>2, <1>11, <1>12 DEF RingInv, CqInv, CqRange, CqComplete, Pending
  <1>15. CqOrder'
    <2> SUFFICES ASSUME NEW p \in CqSlots, NEW r \in CqSlots, Pending(p), Pending(r),
                        cq[p].qid = cq[r].qid, Position(p) < Position(r)
                 PROVE  H(cq[p].qid, cq[p].completion_index)'
                          < H(cq[p].qid, cq[r].completion_index)'
      BY <1>2 DEF CqOrder, Pending, Position
    <2>1. PICK s \in SQs, x \in Slots, y \in Slots :
            s = cq[p].qid /\ x = cq[p].completion_index /\ y = cq[r].completion_index
      BY <1>12
    <2>2. InDevice(s, x) /\ InDevice(s, y) /\ H(s, x) < H(s, y)
      BY <2>1 DEF RingInv, CqInv, CqRange, CqOrder
    <2>3. H(s, x)' < H(s, y)'
      <3>1. CASE s # q
        BY <1>4, <2>2, <3>1
      <3>2. CASE s = q
        BY <1>4, <1>5, <1>6, <2>2, <3>2, BceQueueAssumption DEF InDevice
      <3> QED
        BY <3>1, <3>2
    <2> QED
      BY <1>2, <2>1, <2>3
  <1> QED
    BY <1>8, <1>9, <1>10, <1>13, <1>14, <1>15 DEF RingInv, CqInv

-----------------------------------------------------------------------------
(* The invariant: types, the list of queues to call, the order of every    *)
(* queue's indices and the contents of the completion queue.               *)
Inv == TypeOK /\ CallbackListed /\ ListInv /\ RingInv

(* The conjunction of all of them is an invariant of the queues: it is     *)
(* inductive where none of the properties below is.                        *)
THEOREM Invariant == Spec => []Inv
  <1>1. Init => Inv
    <2> SUFFICES ASSUME Init PROVE ListInv /\ RingInv
      BY BceQueueAssumption
         DEF Init, Inv, TypeOK, CallbackListed, Slots, CqSlots, Results, Places
    <2>1. ListInv
      BY DEF Init, ListInv, ListConsistent, Range
    <2>2. 0 \in Slots /\ 0 \in CqSlots /\ Ahead(0, 0) = 0
      BY BceQueueAssumption DEF Slots, CqSlots, Ahead, Dist
    <2>3. Conservation /\ \A q \in SQs : IndexOrder(q)
      BY <2>2, BceQueueAssumption DEF Init, Conservation, IndexOrder, H, InHand
    <2>4. CqInv
      <3>1. \A p \in CqSlots : ~Pending(p) /\ Position(p) \in 0..(CqCount - 1)
        BY <2>2, DistType, BceQueueAssumption DEF Init, Pending, Position, CqSlots
      <3>2. Position(devCq) = 0
        BY <2>2, BceQueueAssumption DEF Init, Position, Dist
      <3>3. CqShape
        BY <3>1, <3>2, BceQueueAssumption DEF CqShape
      <3>4. \A q \in SQs, i \in Slots : ~InDevice(q, i)
        BY <2>2, AheadFacts, BceQueueAssumption DEF Init, InDevice, H, Slots
      <3> QED
        BY <3>1, <3>3, <3>4 DEF CqInv, CqRange, CqOrder, CqComplete
    <2> QED
      BY <2>1, <2>3, <2>4 DEF RingInv
  <1>2. Inv /\ (TypeOK /\ CallbackListed)' /\ [Next]_vars => Inv'
    <2> SUFFICES ASSUME Inv, (TypeOK /\ CallbackListed)', [Next]_vars
                 PROVE  ListInv' /\ RingInv'
      BY DEF Inv
    <2>1. ListInv'
      BY ListInvStep DEF Inv
    <2>2. RingInv'
      <3>1. CASE Submitting
        BY <3>1, SubmitStep DEF Submitting, Inv
      <3>2. ASSUME NEW q \in SQs, DeviceComplete(q) PROVE RingInv'
        BY <3>2, DeviceStep DEF Inv
      <3>3. CASE Interrupt
        BY <3>3, DrainStep, NextCallbackStep, NextCompletionStep, NotifyStep DEF Interrupt, Inv
      <3>4. CASE UNCHANGED vars
        <4>1. CqInv'
          BY <3>4, CqFrame DEF Inv, RingInv, vars, sqVars, devVars, intVars
        <4> QED
          BY <3>4, <4>1 DEF Inv, RingInv, Conservation, IndexOrder, H, InHand, Current,
                            vars, sqVars, devVars, intVars
      <3> QED
        BY <3>1, <3>2, <3>3, <3>4 DEF Next
    <2> QED
      BY <2>1, <2>2
  <1> QED
    BY <1>1, <1>2, TypeCorrect, PTL DEF Spec

-----------------------------------------------------------------------------
(* No slot is lost or used twice, for any number of queues and any ring    *)
(* size: what bce_reserve_submission counts is what the ring has.          *)
THEOREM SlotsConserved == Spec => []Conservation
  BY Invariant, PTL DEF Inv, RingInv

(* The branch of bce_handle_cq_completion that reports a completion index  *)
(* mismatch, and would leave the queue unusable, is never taken as long as *)
(* the device completes each queue in order.                               *)
THEOREM NoIndexMismatch == Spec => []IndexMatch
  <1>1. Inv => IndexMatch
    BY FirstEntryIsNext DEF Inv
  <1> QED
    BY <1>1, Invariant, PTL

(* int_sq_list and the has_pending_completions flags always agree, so a    *)
(* queue is called back once per interrupt and never forgotten.            *)
THEOREM EachQueueCalledOnce == Spec => []ListConsistent
  BY Invariant, PTL DEF Inv, ListInv

(* Between two interrupts every completion accepted has been handled.      *)
THEOREM IdleMeansDone == Spec => []NothingLeftBehind
  <1>1. Inv => NothingLeftBehind
    <2> SUFFICES ASSUME Inv, irq = "idle", NEW q \in SQs
                 PROVE  /\ completion_cidx[q] = completion_tail[q]
                        /\ head[q] = completion_tail[q]
      BY DEF NothingLeftBehind
    <2>1. completion_cidx[q] = completion_tail[q]
      BY DEF Inv, ListInv, ListConsistent, Range
    <2>2. H(q, completion_cidx[q]) = 0
      BY DEF Inv, RingInv, IndexOrder, InHand
    <2>3. completion_cidx[q] = head[q]
      BY <2>2, HFacts DEF Inv, TypeOK
    <2> QED
      BY <2>1, <2>3
  <1> QED
    BY <1>1, Invariant, PTL

-----------------------------------------------------------------------------
(* Every queue's counter and indices behave as a pool of ElCount - 1 slots *)
(* of which each step moves at most one: what users of a queue may rely on *)
(* when they reserve, submit, cancel and complete.                         *)
THEOREM QueuesImplementPools == Spec => ImplementsPool
  <1> USE DEF Pool!PoolInit, Pool!PoolNext, Pool!poolVars, Pool!Acquire, Pool!Submit,
              Pool!GiveBack, Pool!Release
  <1>1. Init => \A q \in SQs : Pool(q)!PoolInit
    BY BceQueueAssumption DEF Init, Slots, Ahead, Dist
  <1>2. Inv /\ Inv' /\ [Next]_vars
          => \A q \in SQs : [Pool(q)!PoolNext]_(Pool(q)!poolVars)
    <2> SUFFICES ASSUME Inv, Inv', [Next]_vars, NEW q \in SQs
                 PROVE  [Pool(q)!PoolNext]_(Pool(q)!poolVars)
      OBVIOUS
    <2> DEFINE u == Ahead(head[q], tail[q])
               unchanged == UNCHANGED <<available_commands[q], held[q], u>>
    <2>1. /\ available_commands[q] \in Nat /\ held[q] \in Nat
          /\ u \in 0..(ElCount - 1) /\ u' \in 0..(ElCount - 1)
          /\ available_commands[q] + held[q] + u = ElCount - 1
          /\ available_commands'[q] + held'[q] + u' = ElCount - 1
          /\ ElCount \in Nat
      <3>1. ElCount \in Nat /\ ElCount >= 2
        BY BceQueueAssumption
      <3>2. /\ head[q] \in Slots /\ tail[q] \in Slots
            /\ head'[q] \in Slots /\ tail'[q] \in Slots
            /\ available_commands[q] \in Nat /\ held[q] \in Nat
        BY DEF Inv, TypeOK
      <3>3. u \in 0..(ElCount - 1) /\ u' \in 0..(ElCount - 1)
        BY <3>1, <3>2, AheadFacts DEF Slots
      <3>4. /\ available_commands[q] + held[q] + u = ElCount - 1
            /\ available_commands'[q] + held'[q] + u' = ElCount - 1
        BY DEF Inv, RingInv, Conservation
      <3> QED
        BY <3>1, <3>2, <3>3, <3>4
    <2>2. ASSUME NEW s \in SQs, Reserve(s) PROVE Pool(q)!Acquire \/ unchanged
      BY <2>1, <2>2 DEF Reserve, Inv, TypeOK
    <2>3. ASSUME NEW s \in SQs, CancelReservation(s) PROVE Pool(q)!GiveBack \/ unchanged
      BY <2>1, <2>3 DEF CancelReservation, Inv, TypeOK
    <2>4. ASSUME NEW s \in SQs, NEW x \in Payloads, NextSubmission(s, x)
          PROVE  Pool(q)!Submit \/ unchanged
      <3>1. CASE s = q
        <4>1. /\ held[q] > 0 /\ held'[q] = held[q] - 1
              /\ available_commands'[q] = available_commands[q]
          BY <2>4, <3>1 DEF NextSubmission, Inv, TypeOK
        <4>2. u' = u + 1
          BY <2>1, <4>1
        <4> QED
          BY <4>1, <4>2
      <3>2. CASE s # q
        BY <2>4, <3>2 DEF NextSubmission, Inv, TypeOK
      <3> QED
        BY <3>1, <3>2
    <2>5. CASE NotifySubmissionComplete
      <3>1. CASE Current = q
        <4>1. /\ available_commands'[q] = available_commands[q] + 1
              /\ held'[q] = held[q]
          BY <2>5, <3>1 DEF NotifySubmissionComplete, Inv, TypeOK
        <4>2. u' = u - 1
          BY <2>1, <4>1
        <4> QED
          BY <2>1, <4>1, <4>2
      <3>2. CASE Current # q
        BY <2>5, <3>2 DEF NotifySubmissionComplete, Inv, TypeOK
      <3> QED
        BY <3>1, <3>2
    <2>6. ASSUME UNCHANGED <<available_commands, held, head, tail>> PROVE unchanged
      BY <2>6
    <2>7. \/ \E s \in SQs : \/ Reserve(s) \/ CancelReservation(s)
                           \/ \E x \in Payloads : NextSubmission(s, x)
          \/ NotifySubmissionComplete
          \/ UNCHANGED <<available_commands, held, head, tail>>
      BY DEF Next, Submitting, Interrupt, SubmitToDevice, DeviceComplete, DrainEntry,
             Drained, NextCompletion, CallbackReturns, vars, sqVars
    <2> QED
      BY <2>2, <2>3, <2>4, <2>5, <2>6, <2>7
  <1> QED
    BY <1>1, <1>2, Invariant, PTL DEF Spec, ImplementsPool

-----------------------------------------------------------------------------
(* What a slot and an entry hold                                           *)

(* A slot in use holds what was submitted; completion_data holds it again  *)
(* for those accepted and not handed over, and an entry for its own slot;  *)
(* and a callback that has taken a completion has a submission in hand.    *)
SlotData == \A q \in SQs, i \in Slots : H(q, i) < H(q, tail[q]) => ring[q][i] \in Payloads
CompletionData ==
    \A q \in SQs, i \in Slots :
        H(q, completion_cidx[q]) <= H(q, i) /\ H(q, i) < H(q, completion_tail[q])
        => completion_data[q][i] = ring[q][i]
EntryData == \A p \in CqSlots :
                Pending(p) => cq[p].result = ring[cq[p].qid][cq[p].completion_index]
HandedData == irq = "notify" => result \in Payloads

DataInv == SlotData /\ CompletionData /\ EntryData /\ HandedData

(* The order of the indices, for use where only bounds matter.             *)
LEMMA OrderFacts ==
    ASSUME Inv, NEW q \in SQs
    PROVE  /\ H(q, completion_cidx[q]) \in Nat /\ H(q, completion_tail[q]) \in Nat
           /\ H(q, devNext[q]) \in Nat /\ H(q, tail[q]) \in 0..(ElCount - 1)
           /\ H(q, completion_cidx[q]) <= H(q, completion_tail[q])
           /\ H(q, completion_tail[q]) <= H(q, tail[q])
           /\ H(q, devNext[q]) <= H(q, tail[q])
           /\ H(q, completion_cidx[q]) = InHand(q)
           /\ available_commands[q] + held[q] + H(q, tail[q]) = ElCount - 1
           /\ available_commands[q] \in Nat /\ held[q] \in Nat
  <1>1. /\ completion_cidx[q] \in Slots /\ completion_tail[q] \in Slots
        /\ devNext[q] \in Slots /\ doorbell[q] \in Slots /\ tail[q] \in Slots
        /\ available_commands[q] \in Nat /\ held[q] \in Nat
    BY DEF Inv, TypeOK
  <1>2. /\ H(q, completion_cidx[q]) \in 0..(ElCount - 1)
        /\ H(q, completion_tail[q]) \in 0..(ElCount - 1)
        /\ H(q, devNext[q]) \in 0..(ElCount - 1) /\ H(q, doorbell[q]) \in 0..(ElCount - 1)
        /\ H(q, tail[q]) \in 0..(ElCount - 1)
    BY <1>1, HFacts DEF Inv
  <1>3. IndexOrder(q) /\ available_commands[q] + held[q] + H(q, tail[q]) = ElCount - 1
    BY DEF Inv, RingInv, Conservation, H
  <1> QED
    BY <1>1, <1>2, <1>3, BceQueueAssumption DEF IndexOrder

(* A completed submission lies between head and tail.                      *)
LEMMA PendingSlot ==
    ASSUME Inv, NEW p \in CqSlots, Pending(p)
    PROVE  /\ cq[p].qid \in SQs /\ cq[p].completion_index \in Slots
           /\ H(cq[p].qid, cq[p].completion_index) < H(cq[p].qid, tail[cq[p].qid])
  <1>1. cq[p].qid \in SQs /\ cq[p].completion_index \in Slots
    BY DEF Inv, TypeOK, Pending, Entries
  <1>2. InDevice(cq[p].qid, cq[p].completion_index)
    BY DEF Inv, RingInv, CqInv, CqRange
  <1>3. H(cq[p].qid, cq[p].completion_index) \in 0..(ElCount - 1)
    BY <1>1, HFacts DEF Inv
  <1> QED
    BY <1>1, <1>2, <1>3, OrderFacts, BceQueueAssumption DEF InDevice

LEMMA SubmissionData ==
    ASSUME Inv, DataInv, NEW q \in SQs, NEW x \in Payloads, NextSubmission(q, x)
    PROVE  DataInv'
  <1>1. /\ UNCHANGED <<head, completion_cidx, completion_tail, completion_data, cq, irq,
                       result>>
        /\ tail[q] \in Slots
        /\ ring' = [ring EXCEPT ![q][tail[q]] = x]
        /\ tail' = [tail EXCEPT ![q] = Inc(tail[q], ElCount)]
    BY DEF NextSubmission, devVars, intVars, Inv, TypeOK
  <1>2. /\ \A s \in SQs, i \in Slots : H(s, i)' = H(s, i)
        /\ \A s \in SQs : tail'[s] = IF s = q THEN Inc(tail[q], ElCount) ELSE tail[s]
        /\ \A s \in SQs, i \in Slots :
              ring'[s][i] = IF s = q /\ i = tail[q] THEN x ELSE ring[s][i]
    BY <1>1 DEF H, Inv, TypeOK
  <1>3. H(q, Inc(tail[q], ElCount)) = H(q, tail[q]) + 1
    <2>1. H(q, tail[q]) # ElCount - 1
      <3>1. held[q] > 0
        BY DEF NextSubmission
      <3> QED
        BY <3>1, OrderFacts, BceQueueAssumption
    <2> QED
      BY <1>1, <2>1, HFacts DEF Inv
  <1>4. Inc(tail[q], ElCount) \in Slots
    BY <1>1, HFacts DEF Inv
  <1>5. SlotData'
    <2>1. ASSUME NEW s \in SQs, NEW i \in Slots, H(s, i)' < H(s, tail[s])'
          PROVE  ring'[s][i] \in Payloads
      <3>1. CASE s = q /\ i = tail[q]
        BY <1>2, <3>1
      <3>2. CASE s = q /\ i # tail[q]
        <4>1. /\ H(q, i) \in 0..(ElCount - 1) /\ H(q, tail[q]) \in 0..(ElCount - 1)
              /\ H(q, i) # H(q, tail[q])
          BY <1>1, <3>2, HFacts DEF Inv
        <4>2. H(q, i) < H(q, tail[q]) + 1
          BY <1>1, <1>2, <1>3, <1>4, <2>1, <3>2 DEF H
        <4>3. H(q, i) < H(q, tail[q])
          BY <4>1, <4>2, BceQueueAssumption
        <4> QED
          BY <1>2, <3>2, <4>3 DEF DataInv, SlotData
      <3>3. CASE s # q
        <4>1. H(s, i) < H(s, tail[s])
          BY <1>1, <1>2, <2>1, <3>3 DEF H
        <4> QED
          BY <1>2, <3>3, <4>1 DEF DataInv, SlotData
      <3> QED
        BY <3>1, <3>2, <3>3
    <2> QED
      BY <2>1 DEF SlotData
  <1>6. CompletionData'
    <2>1. ASSUME NEW s \in SQs, NEW i \in Slots,
                 H(s, completion_cidx[s]) <= H(s, i), H(s, i) < H(s, completion_tail[s])
          PROVE  completion_data[s][i] = ring'[s][i]
      <3>1. H(s, i) \in 0..(ElCount - 1)
        BY HFacts DEF Inv
      <3>2. ~(s = q /\ i = tail[q])
        BY <2>1, <3>1, OrderFacts, BceQueueAssumption
      <3> QED
        BY <1>2, <2>1, <3>2 DEF DataInv, CompletionData
    <2> QED
      BY <1>1, <2>1 DEF CompletionData, H
  <1>7. EntryData'
    <2>1. ASSUME NEW p \in CqSlots, Pending(p)
          PROVE  cq[p].result = ring'[cq[p].qid][cq[p].completion_index]
      <3>1. ~(cq[p].qid = q /\ cq[p].completion_index = tail[q])
        BY <1>1, <2>1, PendingSlot, OrderFacts, BceQueueAssumption
      <3> QED
        BY <1>2, <2>1, <3>1, PendingSlot DEF DataInv, EntryData
    <2> QED
      BY <1>1, <2>1 DEF EntryData, Pending
  <1>8. HandedData'
    BY <1>1 DEF DataInv, HandedData
  <1> QED
    BY <1>5, <1>6, <1>7, <1>8 DEF DataInv

(* A step that moves neither head nor tail and writes no slot.             *)
LEMMA SlotDataStays ==
    ASSUME DataInv, UNCHANGED <<head, tail, ring>>
    PROVE  SlotData'
  BY DEF DataInv, SlotData, H

LEMMA DeviceData ==
    ASSUME Inv, DataInv, NEW q \in SQs, DeviceComplete(q)
    PROVE  DataInv'
  <1>1. /\ UNCHANGED <<head, tail, ring, completion_cidx, completion_tail,
                       completion_data, irq, result>>
        /\ devCq \in CqSlots
        /\ cq' = [cq EXCEPT ![devCq] = [qid |-> q, completion_index |-> devNext[q],
                                        result |-> ring[q][devNext[q]]]]
    BY DEF DeviceComplete, sqVars, intVars, Inv, TypeOK
  <1>2. EntryData'
    <2>1. ASSUME NEW p \in CqSlots, cq'[p] # NoEntry
          PROVE  cq'[p].result = ring[cq'[p].qid][cq'[p].completion_index]
      <3>1. CASE p = devCq
        BY <1>1, <3>1 DEF Inv, TypeOK
      <3>2. CASE p # devCq
        BY <1>1, <2>1, <3>2 DEF Inv, TypeOK, DataInv, EntryData, Pending
      <3> QED
        BY <3>1, <3>2
    <2> QED
      BY <1>1, <2>1 DEF EntryData, Pending
  <1>3. CompletionData' /\ HandedData'
    BY <1>1 DEF DataInv, CompletionData, HandedData, H
  <1> QED
    BY <1>1, <1>2, <1>3, SlotDataStays DEF DataInv

LEMMA DrainData ==
    ASSUME Inv, DataInv, DrainEntry
    PROVE  DataInv'
  <1> DEFINE q == cq[cq_index].qid
             t == completion_tail[q]
  <1>1. /\ UNCHANGED <<head, tail, ring, completion_cidx, result>>
        /\ irq' = "drain"
        /\ cq_index \in CqSlots /\ Pending(cq_index)
        /\ cq' = [cq EXCEPT ![cq_index] = NoEntry]
    BY DEF DrainEntry, sqVars, devVars, Inv, TypeOK, Pending
  <1>2. /\ q \in SQs /\ t \in Slots /\ cq[cq_index].completion_index = t
        /\ completion_tail' = [completion_tail EXCEPT ![q] = Inc(t, ElCount)]
        /\ completion_data' = [completion_data EXCEPT ![q][t] = cq[cq_index].result]
    <2>1. cq[cq_index].completion_index = t
      BY <1>1, FirstEntryIsNext DEF Inv, IndexMatch, Pending
    <2> QED
      BY <1>1, <2>1, PendingSlot, DrainCases DEF Inv, TypeOK
  <1>3. cq[cq_index].result = ring[q][t]
    BY <1>1, <1>2 DEF DataInv, EntryData
  <1> HIDE DEF q, t
  <1>4. EntryData'
    BY <1>1 DEF DataInv, EntryData, Pending, Inv, TypeOK
  <1>5. ASSUME NEW s \in SQs, NEW i \in Slots,
               H(s, completion_cidx[s]) <= H(s, i), H(s, i) < H(s, completion_tail'[s])
        PROVE  completion_data'[s][i] = ring[s][i]
    <2>0. \A r \in SQs, j \in Slots : completion_data'[r][j] =
              IF r = q /\ j = t THEN cq[cq_index].result ELSE completion_data[r][j]
      BY <1>2 DEF Inv, TypeOK
    <2>1. CASE s = q /\ i = t
      BY <1>3, <2>0, <2>1
    <2>2. CASE s = q /\ i # t
      <3>1. /\ H(q, i) \in 0..(ElCount - 1) /\ H(q, t) \in 0..(ElCount - 1)
            /\ H(q, i) # H(q, t)
        BY <1>2, <2>2, HFacts DEF Inv
      <3>2. completion_tail'[q] = Inc(t, ElCount)
        BY <1>2 DEF Inv, TypeOK
      <3>3. t = completion_tail[q] /\ H(q, t) < H(q, tail[q])
        <4>1. t = completion_tail[q]
          BY DEF t
        <4>2. H(q, t) < H(q, tail[q])
          BY <1>1, <1>2, PendingSlot DEF q
        <4> QED
          BY <4>1, <4>2
      <3>4. H(q, Inc(t, ElCount)) = H(q, t) + 1
        BY <1>2, <3>1, <3>3, OrderFacts, HFacts, BceQueueAssumption DEF Inv
      <3>5. H(q, i) < H(q, completion_tail[q])
        BY <1>5, <2>2, <3>1, <3>2, <3>3, <3>4, BceQueueAssumption
      <3> QED
        BY <1>5, <2>0, <2>2, <3>5 DEF DataInv, CompletionData
    <2>3. CASE s # q
      <3>1. completion_tail'[s] = completion_tail[s]
        BY <1>2, <2>3 DEF Inv, TypeOK
      <3> QED
        BY <1>5, <2>0, <2>3, <3>1 DEF DataInv, CompletionData
    <2> QED
      BY <2>1, <2>2, <2>3
  <1>6. CompletionData'
    BY <1>1, <1>5 DEF CompletionData, H
  <1>7. HandedData'
    BY <1>1 DEF HandedData
  <1> QED
    BY <1>1, <1>4, <1>6, <1>7, SlotDataStays DEF DataInv

(* What the callback is handed is what was submitted.                      *)
LEMMA HandedIsSubmitted ==
    ASSUME Inv, DataInv, NextCompletion
    PROVE  /\ Current \in SQs /\ completion_cidx[Current] \in Slots
           /\ H(Current, completion_cidx[Current]) = 0
           /\ H(Current, tail[Current]) > 0
           /\ result' = ring[Current][completion_cidx[Current]]
           /\ result' \in Payloads
  <1> DEFINE q == Current
             c == completion_cidx[q]
  <1>1. q \in SQs /\ c \in Slots /\ completion_tail[q] \in Slots /\ c # completion_tail[q]
    BY CurrentQueue DEF NextCompletion, Inv, TypeOK
  <1>2. InHand(q) = 0
    BY DEF NextCompletion, InHand
  <1> HIDE DEF q
  <1>3. H(q, c) = 0 /\ H(q, c) < H(q, completion_tail[q]) /\ H(q, c) < H(q, tail[q])
    <2>1. H(q, completion_tail[q]) # H(q, c)
      BY <1>1, HFacts DEF Inv
    <2>2. /\ H(q, c) = 0 /\ H(q, completion_tail[q]) \in Nat
          /\ H(q, completion_tail[q]) <= H(q, tail[q])
          /\ H(q, tail[q]) \in Nat
      BY <1>1, <1>2, OrderFacts, BceQueueAssumption
    <2> QED
      BY <2>1, <2>2
  <1>4. result' = completion_data[q][c]
    BY DEF NextCompletion, q
  <1>5. completion_data[q][c] = ring[q][c] /\ ring[q][c] \in Payloads
    BY <1>1, <1>3, OrderFacts DEF DataInv, CompletionData, SlotData
  <1> QED
    BY <1>1, <1>3, <1>4, <1>5 DEF q

LEMMA HandOverData ==
    ASSUME Inv, DataInv, NextCompletion
    PROVE  DataInv'
  <1>1. UNCHANGED <<head, tail, ring, completion_tail, completion_data, cq>>
    BY DEF NextCompletion, sqVars
  <1>2. PICK q \in SQs :
          /\ completion_cidx' = [completion_cidx EXCEPT ![q] = Inc(completion_cidx[q], ElCount)]
          /\ H(q, completion_cidx[q]) = 0
    BY HandedIsSubmitted DEF NextCompletion
  <1>3. ASSUME NEW s \in SQs, NEW i \in Slots,
               H(s, completion_cidx'[s]) <= H(s, i), H(s, i) < H(s, completion_tail[s])
        PROVE  completion_data[s][i] = ring[s][i]
    <2>1. H(s, completion_cidx[s]) <= H(s, i)
      <3>1. CASE s = q
        BY <1>2, <3>1, HFacts, BceQueueAssumption DEF Inv
      <3>2. CASE s # q
        BY <1>2, <1>3, <3>2 DEF Inv, TypeOK
      <3> QED
        BY <3>1, <3>2
    <2> QED
      BY <1>3, <2>1 DEF DataInv, CompletionData
  <1>4. CompletionData'
    BY <1>1, <1>3 DEF CompletionData, H
  <1>5. EntryData'
    BY <1>1 DEF DataInv, EntryData, Pending
  <1>6. HandedData'
    BY HandedIsSubmitted DEF HandedData
  <1> QED
    BY <1>1, <1>4, <1>5, <1>6, SlotDataStays DEF DataInv

(* Head moves over a slot that is in nobody's range any more.              *)
LEMMA NotifyData ==
    ASSUME Inv, DataInv, NotifySubmissionComplete
    PROVE  DataInv'
  <1>1. /\ UNCHANGED <<tail, ring, completion_cidx, completion_tail, completion_data, cq>>
        /\ irq = "notify" /\ irq' # "notify"
    BY DEF NotifySubmissionComplete
  <1>2. PICK q \in SQs : q = Current /\ head' = [head EXCEPT ![q] = Inc(head[q], ElCount)]
    BY CurrentQueue DEF NotifySubmissionComplete, Inv
  <1>3. /\ head[q] \in Slots /\ completion_cidx[q] \in Slots
        /\ completion_tail[q] \in Slots /\ tail[q] \in Slots
    BY DEF Inv, TypeOK
  <1>4. H(q, completion_cidx[q]) = 1
    BY <1>1, <1>2, OrderFacts DEF InHand
  <1>5. /\ \A x \in Slots : /\ H(q, x) \in 0..(ElCount - 1)
                            /\ H(q, x) = 0 <=> x = head[q]
                            /\ x # head[q] => H(q, x)' = H(q, x) - 1
                            /\ x = head[q] => H(q, x)' = ElCount - 1
        /\ \A s \in SQs, x \in Slots : s # q => H(s, x)' = H(s, x)
    <2>1. head'[q] = Inc(head[q], ElCount) /\ \A s \in SQs : s # q => head'[s] = head[s]
      BY <1>2 DEF Inv, TypeOK
    <2>2. /\ \A x \in Slots : H(q, x)' = Ahead(Inc(head[q], ElCount), x)
          /\ \A r \in SQs, x \in Slots : r # q => H(r, x)' = H(r, x)
      BY <2>1 DEF H
    <2>3. ASSUME NEW x \in Slots
          PROVE  /\ H(q, x) \in 0..(ElCount - 1)
                 /\ H(q, x) = 0 <=> x = head[q]
                 /\ x # head[q] => Ahead(Inc(head[q], ElCount), x) = H(q, x) - 1
                 /\ Ahead(Inc(head[q], ElCount), head[q]) = ElCount - 1
      BY HFacts DEF Inv
    <2> QED
      BY <2>2, <2>3
  <1>6. /\ H(q, completion_tail[q]) >= 1 /\ H(q, completion_tail[q]) <= H(q, tail[q])
        /\ completion_cidx[q] # head[q] /\ completion_tail[q] # head[q] /\ tail[q] # head[q]
    <2>1. /\ H(q, completion_tail[q]) >= 1 /\ H(q, completion_tail[q]) <= H(q, tail[q])
          /\ H(q, tail[q]) >= 1
      BY <1>4, OrderFacts, BceQueueAssumption
    <2> QED
      BY <1>3, <1>4, <1>5, <2>1
  <1>7. /\ H(q, tail[q])' = H(q, tail[q]) - 1
         /\ H(q, completion_cidx[q])' = H(q, completion_cidx[q]) - 1
         /\ H(q, completion_tail[q])' = H(q, completion_tail[q]) - 1
    BY <1>1, <1>3, <1>5, <1>6 DEF H
  <1>8. ASSUME NEW x \in Slots,
               H(q, x)' < H(q, tail[q])' \/ H(q, x)' < H(q, completion_tail[q])'
        PROVE  H(q, x)' = H(q, x) - 1
    <2>1. /\ H(q, tail[q])' \in Int /\ H(q, completion_tail[q])' \in Int
          /\ H(q, tail[q])' < ElCount - 1 /\ H(q, completion_tail[q])' < ElCount - 1
      <3>1. H(q, tail[q]) \in 0..(ElCount - 1) /\ H(q, completion_tail[q]) \in 0..(ElCount - 1)
        BY <1>3, <1>5
      <3> QED
        BY <1>7, <3>1, BceQueueAssumption
    <2>2. CASE x = head[q]
      <3>1. H(q, x)' = ElCount - 1
        BY <1>1, <1>5, <2>2
      <3> QED
        BY <1>8, <2>1, <3>1, BceQueueAssumption
    <2>3. CASE x # head[q]
      BY <1>5, <2>3
    <2> QED
      BY <2>2, <2>3
  <1>9. SlotData'
    <2>1. ASSUME NEW s \in SQs, NEW i \in Slots, H(s, i)' < H(s, tail[s])'
          PROVE  ring[s][i] \in Payloads
      <3>1. CASE s = q
        <4>1. H(q, i)' = H(q, i) - 1
          BY <1>8, <2>1, <3>1
        <4>2. H(q, i) < H(q, tail[q])
          BY <1>3, <1>5, <1>7, <2>1, <3>1, <4>1, BceQueueAssumption
        <4> QED
          BY <3>1, <4>2 DEF DataInv, SlotData
      <3>2. CASE s # q
        <4>1. tail[s] \in Slots
          BY DEF Inv, TypeOK
        <4>2. H(s, tail[s])' = H(s, tail[s])
          BY <1>1, <1>5, <3>2, <4>1 DEF H
        <4> QED
          BY <1>5, <2>1, <3>2, <4>2 DEF DataInv, SlotData
      <3> QED
        BY <3>1, <3>2
    <2> QED
      BY <1>1, <2>1 DEF SlotData
  <1>10. CompletionData'
    <2>1. ASSUME NEW s \in SQs, NEW i \in Slots,
                 H(s, completion_cidx[s])' <= H(s, i)', H(s, i)' < H(s, completion_tail[s])'
          PROVE  completion_data[s][i] = ring[s][i]
      <3>1. CASE s = q
        <4>1. H(q, i)' = H(q, i) - 1
          BY <1>8, <2>1, <3>1
        <4>2. H(q, completion_cidx[q]) <= H(q, i) /\ H(q, i) < H(q, completion_tail[q])
          BY <1>3, <1>5, <1>7, <2>1, <3>1, <4>1, BceQueueAssumption
        <4> QED
          BY <3>1, <4>2 DEF DataInv, CompletionData
      <3>2. CASE s # q
        <4>1. completion_cidx[s] \in Slots /\ completion_tail[s] \in Slots
          BY DEF Inv, TypeOK
        <4>2. /\ H(s, completion_cidx[s])' = H(s, completion_cidx[s])
              /\ H(s, completion_tail[s])' = H(s, completion_tail[s])
          BY <1>1, <1>5, <3>2, <4>1 DEF H
        <4> QED
          BY <1>5, <2>1, <3>2, <4>2 DEF DataInv, CompletionData
      <3> QED
        BY <3>1, <3>2
    <2> QED
      BY <1>1, <2>1 DEF CompletionData
  <1>11. EntryData' /\ HandedData'
    BY <1>1 DEF DataInv, EntryData, Pending, HandedData
  <1> QED
    BY <1>9, <1>10, <1>11 DEF DataInv

LEMMA DataNext ==
    ASSUME Inv, DataInv, [Next]_vars
    PROVE  DataInv'
  <1>1. ASSUME UNCHANGED <<head, tail, ring, completion_cidx, completion_tail,
                           completion_data, cq, result>>,
               irq' = "notify" => irq = "notify"
        PROVE  DataInv'
    BY <1>1 DEF DataInv, SlotData, CompletionData, EntryData, HandedData, Pending, H
  <1>2. ASSUME NEW q \in SQs, Reserve(q) \/ CancelReservation(q) \/ SubmitToDevice(q)
        PROVE  DataInv'
    BY <1>1, <1>2 DEF Reserve, CancelReservation, SubmitToDevice, devVars, intVars
  <1>3. CASE Drained \/ CallbackReturns
    BY <1>1, <1>3 DEF Drained, CallbackReturns, sqVars, devVars
  <1>4. CASE UNCHANGED vars
    BY <1>1, <1>4 DEF vars, sqVars, devVars, intVars
  <1> QED
    BY <1>2, <1>3, <1>4, SubmissionData, DeviceData, DrainData, HandOverData, NotifyData
       DEF Next, Submitting, Interrupt

(* Nothing is lost or mixed up between a slot, the entry the device writes *)
(* for it, completion_data and the callback.                               *)
THEOREM DataInvariant == Spec => []DataInv
  <1>1. Init => DataInv
    <2> SUFFICES ASSUME Init PROVE DataInv
      OBVIOUS
    <2>1. Ahead(0, 0) = 0 /\ \A i \in Slots : Ahead(0, i) \in Nat
      BY BceQueueAssumption, AheadFacts DEF Slots, Ahead, Dist
    <2> QED
      BY <2>1, BceQueueAssumption
         DEF Init, DataInv, SlotData, CompletionData, EntryData, HandedData, Pending, H
  <1>2. Inv /\ DataInv /\ [Next]_vars => DataInv'
    BY DataNext
  <1> QED
    BY <1>1, <1>2, Invariant, PTL DEF Spec

-----------------------------------------------------------------------------
(* Each queue is a fifo                                                    *)

(* The slot k places on from a, counting a itself as the first.            *)
At(a, k) == (a + k - 1) % ElCount

(* Places on the ring, without the modulus.                                *)
LEMMA AtCases ==
    ASSUME NEW a \in Slots, NEW k \in 1..ElCount
    PROVE  /\ At(a, k) = IF a + k <= ElCount THEN a + k - 1 ELSE a + k - 1 - ElCount
           /\ At(a, k) \in Slots
  <1>1. ElCount \in Nat /\ ElCount >= 2 /\ a \in 0..(ElCount - 1)
    BY BceQueueAssumption DEF Slots
  <1>2. At(a, k) = IF a + k <= ElCount THEN a + k - 1 ELSE a + k - 1 - ElCount
    BY <1>1 DEF At
  <1> QED
    BY <1>1, <1>2 DEF Slots

(* At undoes Ahead, and moving the near end one further shifts the places. *)
LEMMA AtFacts ==
    ASSUME NEW a \in Slots, NEW b \in Slots
    PROVE  /\ At(a, 1) = a
           /\ At(a, Ahead(a, b) + 1) = b
           /\ \A k \in 1..ElCount : Ahead(a, At(a, k)) = k - 1
           /\ \A k \in 1..(ElCount - 1) : At(Inc(a, ElCount), k) = At(a, k + 1)
  <1>1. /\ ElCount \in Nat /\ ElCount >= 2
        /\ a \in 0..(ElCount - 1) /\ b \in 0..(ElCount - 1)
    BY BceQueueAssumption DEF Slots
  <1>2. At(a, 1) = a
    BY <1>1, AtCases
  <1>3. At(a, Ahead(a, b) + 1) = b
    <2>1. Ahead(a, b) = IF b >= a THEN b - a ELSE b - a + ElCount
      BY DEF Ahead, Dist
    <2>2. Ahead(a, b) + 1 \in 1..ElCount
      BY <1>1, <2>1
    <2> QED
      BY <1>1, <2>1, <2>2, AtCases
  <1>4. ASSUME NEW k \in 1..ElCount
        PROVE  Ahead(a, At(a, k)) = k - 1
    <2>1. At(a, k) = IF a + k <= ElCount THEN a + k - 1 ELSE a + k - 1 - ElCount
      BY AtCases
    <2>2. Ahead(a, At(a, k)) = IF At(a, k) >= a THEN At(a, k) - a ELSE At(a, k) - a + ElCount
      BY DEF Ahead, Dist
    <2> QED
      BY <1>1, <2>1, <2>2
  <1>5. ASSUME NEW k \in 1..(ElCount - 1)
        PROVE  At(Inc(a, ElCount), k) = At(a, k + 1)
    <2>1. /\ Inc(a, ElCount) = IF a = ElCount - 1 THEN 0 ELSE a + 1
          /\ Inc(a, ElCount) \in Slots
      BY <1>1, IncCases DEF Slots
    <2>2. k \in 1..ElCount /\ k + 1 \in 1..ElCount
      BY <1>1
    <2>3. /\ At(a, k + 1) = IF a + k + 1 <= ElCount THEN a + k ELSE a + k - ElCount
          /\ At(Inc(a, ElCount), k) = IF Inc(a, ElCount) + k <= ElCount
                                      THEN Inc(a, ElCount) + k - 1
                                      ELSE Inc(a, ElCount) + k - 1 - ElCount
      <3>1. At(a, k + 1) = IF a + (k + 1) <= ElCount
                           THEN a + (k + 1) - 1 ELSE a + (k + 1) - 1 - ElCount
        BY <2>2, AtCases
      <3> QED
        BY <1>1, <2>1, <2>2, <3>1, AtCases
    <2> QED
      BY <1>1, <2>1, <2>3
  <1> QED
    BY <1>2, <1>3, <1>4, <1>5

(* Distances from a point on the way add up.                               *)
LEMMA AheadSplit ==
    ASSUME NEW a \in Slots, NEW b \in Slots, NEW c \in Slots, Ahead(a, b) <= Ahead(a, c)
    PROVE  Ahead(b, c) = Ahead(a, c) - Ahead(a, b)
  BY BceQueueAssumption DEF Slots, Ahead, Dist

(* What waits in a queue: as many submissions as lie between head and      *)
(* tail, less the one in the callback's hands.                             *)
LEMMA WaitingFacts ==
    ASSUME Inv, NEW q \in SQs
    PROVE  /\ Waiting(q) \in Seq(Results)
           /\ Len(Waiting(q)) = Ahead(completion_cidx[q], tail[q])
           /\ Len(Waiting(q)) = H(q, tail[q]) - InHand(q)
           /\ Len(Waiting(q)) \in 0..(ElCount - 1)
           /\ \A k \in 1..Len(Waiting(q)) : Waiting(q)[k] = ring[q][At(completion_cidx[q], k)]
  <1> DEFINE c == completion_cidx[q]
             n == Ahead(c, tail[q])
  <1>1. /\ c \in Slots /\ tail[q] \in Slots /\ head[q] \in Slots
        /\ ElCount \in Nat /\ ElCount >= 2
    BY BceQueueAssumption DEF Inv, TypeOK
  <1>2. n \in 0..(ElCount - 1)
    BY <1>1, AheadFacts DEF Slots
  <1>3. n = H(q, tail[q]) - InHand(q)
    <2>1. /\ H(q, c) = InHand(q) /\ H(q, c) \in Nat /\ H(q, tail[q]) \in Nat
          /\ H(q, c) <= H(q, tail[q])
      BY <1>1, OrderFacts
    <2> QED
      BY <1>1, <2>1, AheadSplit DEF H
  <1>4. \A k \in 1..n : ring[q][At(c, k)] \in Results
    BY <1>1, <1>2, AtCases DEF Inv, TypeOK
  <1>5. Waiting(q) = [k \in 1..n |-> ring[q][At(c, k)]]
    BY DEF Waiting, At
  <1> HIDE DEF n, c
  <1>6. Waiting(q) \in Seq(Results) /\ Len(Waiting(q)) = n
    BY <1>2, <1>4, <1>5
  <1> QED
    BY <1>2, <1>3, <1>5, <1>6 DEF n, c

(* The callback has a submission in hand exactly while it handles one.     *)
LEMMA HandedFacts ==
    ASSUME DataInv, NEW q \in SQs
    PROVE  /\ irq = "notify" /\ Current = q => Handed(q) = result /\ Handed(q) # NoData
           /\ ~(irq = "notify" /\ Current = q) => Handed(q) = NoData
  BY BceQueueAssumption DEF DataInv, HandedData, Handed

(* bce_next_submission adds to its own queue's fifo and to no other.       *)
LEMMA PutStep ==
    ASSUME Inv, DataInv, NEW s \in SQs, NEW x \in Payloads,
           NextSubmission(s, x), NEW q \in SQs
    PROVE  [Fifo(q)!FifoNext]_(Fifo(q)!fifoVars)
  <1>1. /\ UNCHANGED <<head, completion_cidx, irq, int_sq_list, result>>
        /\ tail' = [tail EXCEPT ![s] = Inc(tail[s], ElCount)]
        /\ ring' = [ring EXCEPT ![s][tail[s]] = x]
        /\ held[s] > 0
    BY DEF NextSubmission, intVars
  <1>2. Handed(q)' = Handed(q)
    BY <1>1 DEF Handed, Current
  <1>3. CASE s # q
    <2>1. tail'[q] = tail[q] /\ ring'[q] = ring[q]
      BY <1>1, <1>3 DEF Inv, TypeOK
    <2>2. Waiting(q)' = Waiting(q)
      BY <1>1, <2>1 DEF Waiting
    <2> QED
      BY <1>2, <2>2 DEF Fifo!fifoVars
  <1>4. CASE s = q
    <2> DEFINE c == completion_cidx[q]
               n == Len(Waiting(q))
    <2>1. c \in Slots /\ tail[q] \in Slots /\ x \in Results
      BY DEF Inv, TypeOK, Results
    <2>2. /\ H(q, tail[q]) \in Nat /\ H(q, tail[q]) < ElCount - 1
          /\ n = H(q, tail[q]) - InHand(q) /\ n = Ahead(c, tail[q])
          /\ n \in 0..(ElCount - 1)
      <3>1. /\ H(q, tail[q]) \in 0..(ElCount - 1) /\ available_commands[q] \in Nat
            /\ held[q] \in Nat /\ held[q] > 0
            /\ available_commands[q] + held[q] + H(q, tail[q]) = ElCount - 1
        BY <1>1, <1>4, OrderFacts
      <3> QED
        BY <3>1, WaitingFacts, BceQueueAssumption
    <2>3. n < ElCount - 1 /\ Ahead(c, Inc(tail[q], ElCount)) = n + 1 /\ ElCount \in Nat
      <3>1. n < ElCount - 1 /\ ElCount \in Nat
        BY <2>2, BceQueueAssumption DEF InHand
      <3>2. Ahead(c, Inc(tail[q], ElCount)) =
              (IF Ahead(c, tail[q]) = ElCount - 1 THEN 0 ELSE Ahead(c, tail[q]) + 1)
        BY <2>1, AheadFacts
      <3> QED
        BY <2>2, <3>1, <3>2
    <2>4. /\ Waiting(q) \in Seq(Results)
          /\ Waiting(q)' \in Seq(Results) /\ Len(Waiting(q)') = n + 1
          /\ \A k \in 1..(n + 1) : Waiting(q)'[k] = ring'[q][At(c, k)]
      <3>1. Waiting(q)' = [k \in 1..(n + 1) |-> ring'[q][At(c, k)]]
        <4>1. completion_cidx'[q] = c /\ tail'[q] = Inc(tail[q], ElCount)
          BY <1>1, <1>4 DEF Inv, TypeOK
        <4> QED
          BY <2>3, <4>1 DEF Waiting, At
      <3>2. \A k \in 1..(n + 1) : ring'[q][At(c, k)] \in Results
        <4>1. \A i \in Slots : ring'[q][i] \in Results
          BY <1>1, <1>4, <2>1 DEF Inv, TypeOK
        <4>2. \A k \in 1..(n + 1) : k \in 1..ElCount
          BY <2>2, <2>3
        <4>3. \A k \in 1..(n + 1) : At(c, k) \in Slots
          BY <2>1, <4>2, AtCases
        <4> QED
          BY <4>1, <4>3
      <3>3. n + 1 \in Nat
        BY <2>2
      <3>4. Waiting(q)' \in Seq(Results) /\ Len(Waiting(q)') = n + 1
        <4> HIDE DEF n
        <4> QED
          BY <3>1, <3>2, <3>3
      <3>5. \A k \in 1..(n + 1) : Waiting(q)'[k] = ring'[q][At(c, k)]
        <4> HIDE DEF n
        <4> QED
          BY <3>1
      <3> QED
        BY <3>4, <3>5, WaitingFacts
    <2> HIDE DEF n, c
    <2>5. \A k \in 1..n : At(c, k) \in Slots /\ At(c, k) # tail[q]
      <3> SUFFICES ASSUME NEW k \in 1..n
                   PROVE  At(c, k) \in Slots /\ At(c, k) # tail[q]
        OBVIOUS
      <3>1. k \in 1..ElCount
        BY <2>2, <2>3
      <3>2. At(c, k) \in Slots /\ Ahead(c, At(c, k)) = k - 1
        BY <2>1, <3>1, AtCases, AtFacts
      <3> QED
        BY <2>2, <3>1, <3>2
    <2>6. At(c, n + 1) = tail[q]
      BY <2>1, <2>2, AtFacts
    <2>7. /\ \A k \in 1..n : Waiting(q)'[k] = Waiting(q)[k]
          /\ Waiting(q)'[n + 1] = x
      <3>1. /\ \A i \in Slots : i # tail[q] => ring'[q][i] = ring[q][i]
            /\ ring'[q][tail[q]] = x
        BY <1>1, <1>4, <2>1 DEF Inv, TypeOK
      <3>2. \A k \in 1..n : Waiting(q)[k] = ring[q][At(c, k)]
        BY WaitingFacts DEF n, c
      <3>3. n + 1 \in 1..(n + 1) /\ \A k \in 1..n : k \in 1..(n + 1)
        BY <2>2
      <3> QED
        BY <2>4, <2>5, <2>6, <3>1, <3>2, <3>3
    <2>8. Waiting(q)' = Append(Waiting(q), x)
      <3> DEFINE W == Waiting(q)
                 V == Waiting(q)'
                 A == Append(Waiting(q), x)
      <3>1. /\ A \in Seq(Results) /\ Len(A) = n + 1
            /\ \A k \in 1..n : A[k] = W[k]
            /\ A[n + 1] = x
        BY <2>1, <2>4, AppendProperties DEF n
      <3>2. \A k \in 1..(n + 1) : k \in 1..n \/ k = n + 1
        BY <2>2
      <3>3. V \in Seq(Results) /\ Len(V) = Len(A) /\ \A k \in 1..Len(V) : V[k] = A[k]
        BY <2>4, <2>7, <3>1, <3>2
      <3> HIDE DEF V, A
      <3> QED
        BY <3>1, <3>3, SeqEqual DEF V, A
    <2>9. Fifo(q)!Outstanding < ElCount - 1
      <3>1. InHand(q) = (IF Handed(q) = NoData THEN 0 ELSE 1)
        BY HandedFacts DEF InHand
      <3> QED
        BY <2>2, <3>1, BceQueueAssumption DEF Fifo!Outstanding, n, InHand
    <2> QED
      BY <1>2, <2>8, <2>9 DEF Fifo!FifoNext, Fifo!Put
  <1> QED
    BY <1>3, <1>4

(* bce_next_completion takes the oldest submission of the queue whose      *)
(* callback runs, and leaves every other queue alone.                      *)
LEMMA HandStep ==
    ASSUME Inv, DataInv, NextCompletion, NEW q \in SQs
    PROVE  [Fifo(q)!FifoNext]_(Fifo(q)!fifoVars)
  <1>1. /\ UNCHANGED <<head, tail, ring, int_sq_list>>
        /\ Current' = Current /\ irq = "callback" /\ irq' = "notify"
        /\ completion_cidx' = [completion_cidx EXCEPT ![Current] =
                                 Inc(completion_cidx[Current], ElCount)]
    BY DEF NextCompletion, sqVars, Current
  <1>2. CASE Current # q
    <2>1. completion_cidx'[q] = completion_cidx[q]
      BY <1>1, <1>2, HandedIsSubmitted DEF Inv, TypeOK
    <2>2. Waiting(q)' = Waiting(q)
      BY <1>1, <2>1 DEF Waiting
    <2>3. Handed(q)' = Handed(q)
      BY <1>1, <1>2 DEF Handed
    <2> QED
      BY <2>2, <2>3 DEF Fifo!fifoVars
  <1>3. CASE Current = q
    <2> DEFINE c == completion_cidx[q]
               n == Len(Waiting(q))
    <2>1. /\ c \in Slots /\ tail[q] \in Slots /\ head[q] \in Slots
          /\ ElCount \in Nat /\ ElCount >= 2
      BY BceQueueAssumption DEF Inv, TypeOK
    <2>2. n \in 0..(ElCount - 1) /\ n = Ahead(c, tail[q]) /\ n > 0
      <3>1. InHand(q) = 0 /\ H(q, tail[q]) > 0
        BY <1>1, <1>3, HandedIsSubmitted DEF InHand
      <3>2. H(q, tail[q]) \in Nat
        BY OrderFacts
      <3> QED
        BY <3>1, <3>2, WaitingFacts
    <2>3. /\ Waiting(q) \in Seq(Results) /\ Waiting(q) # <<>>
          /\ \A k \in 1..n : Waiting(q)[k] = ring[q][At(c, k)]
      BY <2>2, WaitingFacts, EmptySeq
    <2> HIDE DEF n, c
    <2>4. Ahead(Inc(c, ElCount), tail[q]) = n - 1 /\ Inc(c, ElCount) \in Slots
      <3>1. Ahead(c, tail[q]) # 0
        BY <2>2
      <3> QED
        BY <2>1, <2>2, <3>1, AheadFacts
    <2>5. Waiting(q)' = [k \in 1..(n - 1) |-> ring[q][At(Inc(c, ElCount), k)]]
      <3>1. completion_cidx'[q] = Inc(c, ElCount) /\ tail'[q] = tail[q] /\ ring' = ring
        BY <1>1, <1>3 DEF Inv, TypeOK, c
      <3> QED
        BY <2>4, <3>1 DEF Waiting, At
    <2>6. \A k \in 1..(n - 1) : ring[q][At(Inc(c, ElCount), k)] = Waiting(q)[k + 1]
      <3>1. \A k \in 1..(n - 1) : k \in 1..(ElCount - 1) /\ k + 1 \in 1..n
        BY <2>1, <2>2
      <3> QED
        BY <2>1, <2>3, <3>1, AtFacts
    <2>7. /\ Tail(Waiting(q)) \in Seq(Results) /\ Len(Tail(Waiting(q))) = n - 1
          /\ \A k \in 1..(n - 1) : Tail(Waiting(q))[k] = Waiting(q)[k + 1]
      BY <2>3, HeadTailProperties DEF n
    <2>8. Waiting(q)' = Tail(Waiting(q))
      <3> DEFINE V == Waiting(q)'
                 A == Tail(Waiting(q))
      <3>1. \A k \in 1..(n - 1) : A[k] \in Results
        BY <2>7, ElementOfSeq
      <3>2. V = [k \in 1..(n - 1) |-> A[k]]
        BY <2>5, <2>6, <2>7
      <3>3. A = [k \in 1..(n - 1) |-> A[k]]
        <4>1. A \in [1..Len(A) -> Results]
          BY <2>7, LenProperties
        <4> QED
          BY <2>7, <4>1
      <3> QED
        BY <3>2, <3>3
    <2>9. Handed(q) = NoData /\ Handed(q)' = Head(Waiting(q))
      <3>1. Handed(q)' = result' /\ result' = ring[q][c]
        BY <1>1, <1>3, HandedIsSubmitted DEF Handed, c
      <3>2. Head(Waiting(q)) = Waiting(q)[1] /\ 1 \in 1..n
        BY <2>2, <2>3
      <3>3. Waiting(q)[1] = ring[q][c]
        BY <2>1, <2>3, <3>2, AtFacts
      <3> QED
        BY <1>1, <3>1, <3>2, <3>3 DEF Handed
    <2> QED
      BY <2>3, <2>8, <2>9 DEF Fifo!FifoNext, Fifo!Hand
  <1> QED
    BY <1>2, <1>3

(* bce_notify_submission_complete ends it, and leaves the others alone.    *)
LEMMA FinishStep ==
    ASSUME Inv, DataInv, NotifySubmissionComplete, NEW q \in SQs
    PROVE  [Fifo(q)!FifoNext]_(Fifo(q)!fifoVars)
  <1>1. /\ UNCHANGED <<tail, ring, completion_cidx>>
        /\ irq = "notify" /\ irq' = "callback"
    BY DEF NotifySubmissionComplete
  <1>2. Waiting(q)' = Waiting(q)
    BY <1>1 DEF Waiting
  <1>3. Handed(q)' = NoData
    BY <1>1 DEF Handed
  <1>4. CASE Current = q
    <2>1. Handed(q) # NoData
      BY <1>1, <1>4, HandedFacts
    <2> QED
      BY <1>2, <1>3, <2>1 DEF Fifo!FifoNext, Fifo!Finish
  <1>5. CASE Current # q
    BY <1>2, <1>3, <1>5 DEF Handed, Fifo!fifoVars
  <1> QED
    BY <1>4, <1>5

(* Submissions come back to the callback each exactly once, in the order   *)
(* they were made and with the result the device gave for that very one,   *)
(* whatever the interrupt thread and the submitters do in between.         *)
THEOREM QueuesImplementFifos == Spec => ImplementsFifo
  <1>1. Init => \A q \in SQs : Fifo(q)!FifoInit
    <2> SUFFICES ASSUME Init, NEW q \in SQs
                 PROVE  Waiting(q) = <<>> /\ Handed(q) = NoData
      BY DEF Fifo!FifoInit
    <2>1. Ahead(completion_cidx[q], tail[q]) = 0
      BY DEF Init, Ahead, Dist
    <2> QED
      BY <2>1 DEF Init, Waiting, Handed
  <1>2. Inv /\ DataInv /\ [Next]_vars
          => \A q \in SQs : [Fifo(q)!FifoNext]_(Fifo(q)!fifoVars)
    <2> SUFFICES ASSUME Inv, DataInv, [Next]_vars, NEW q \in SQs
                 PROVE  [Fifo(q)!FifoNext]_(Fifo(q)!fifoVars)
      OBVIOUS
    <2>1. ASSUME UNCHANGED <<completion_cidx, tail, ring>>, Handed(q)' = Handed(q)
          PROVE  UNCHANGED Fifo(q)!fifoVars
      BY <2>1 DEF Waiting, Fifo!fifoVars
    <2>2. ASSUME NEW s \in SQs,
                 Reserve(s) \/ CancelReservation(s) \/ SubmitToDevice(s) \/ DeviceComplete(s)
          PROVE  UNCHANGED Fifo(q)!fifoVars
      BY <2>1, <2>2 DEF Reserve, CancelReservation, SubmitToDevice, DeviceComplete,
                        sqVars, intVars, Handed, Current
    <2>3. CASE DrainEntry \/ Drained \/ CallbackReturns
      BY <2>1, <2>3 DEF DrainEntry, Drained, CallbackReturns, sqVars, Handed
    <2>4. CASE UNCHANGED vars
      BY <2>1, <2>4 DEF vars, sqVars, intVars, Handed, Current
    <2> QED
      BY <2>2, <2>3, <2>4, PutStep, HandStep, FinishStep DEF Next, Submitting, Interrupt
  <1> QED
    BY <1>1, <1>2, Invariant, DataInvariant, PTL DEF Spec, ImplementsFifo

-----------------------------------------------------------------------------
(* The command queue.                                                      *)

CallerPlaces == {"idle", "reserved", "locked", "rung", "waiting"}

(* The types, and that a caller under way has the number of a call.        *)
CallType == /\ lck \in Callers \cup {Nobody, Handler}
            /\ tres \in [Slots -> Calls \cup {Nobody}]
            /\ pc \in [Callers -> CallerPlaces]
            /\ callNo \in [Callers -> 0..MaxCalls]
            /\ cmpl \in [Callers -> BOOLEAN]
            /\ step \in {"none", "taken", "signalled"}
            /\ \A c \in Callers : pc[c] # "idle" => callNo[c] > 0

(* A caller under way makes a call the queue can carry.                    *)
LEMMA CallIsPayload ==
    ASSUME CallType, NEW c \in Callers, pc[c] # "idle"
    PROVE  Call(c) \in Payloads /\ Call(c) \in Calls
  <1>1. callNo[c] \in 1..MaxCalls
    BY CommandQueueAssumption DEF CallType
  <1> QED
    BY <1>1, CommandQueueAssumption DEF Call, Calls

(* What each action does to the queue underneath.                          *)
LEMMA QueueSteps ==
    ASSUME CallType, [CmdNext]_allVars
    PROVE  [Next]_vars
  <1>1. Cmdq \in SQs
    BY CommandQueueAssumption
  <1>2. ASSUME NEW c \in Callers, CmdReserve(c) \/ CmdNoSlot(c)
        PROVE  [Next]_vars
    BY <1>1, <1>2 DEF CmdReserve, CmdNoSlot, Next, Submitting
  <1>3. ASSUME NEW c \in Callers, CmdStart(c)
        PROVE  [Next]_vars
    <2>1. Call(c) \in Payloads /\ NextSubmission(Cmdq, Call(c))
      BY <1>3, CallIsPayload DEF CmdStart
    <2> QED
      BY <1>1, <2>1 DEF Next, Submitting
  <1>4. ASSUME NEW c \in Callers, CmdFinish(c) \/ CmdUnlock(c) \/ CmdReturn(c)
        PROVE  [Next]_vars
    BY <1>1, <1>4 DEF CmdFinish, CmdUnlock, CmdReturn, Next, Submitting
  <1>5. CASE DeviceComplete(Cmdq)
    BY <1>1, <1>5 DEF Next
  <1>6. CASE HandlerStep
    BY <1>6 DEF HandlerStep, Callback, CbLock, CbTake, CbSignal, CbNotify, CbUnlock,
                Next, Interrupt
  <1>7. CASE UNCHANGED allVars
    BY <1>7 DEF allVars
  <1> QED
    BY <1>2, <1>3, <1>4, <1>5, <1>6, <1>7 DEF CmdNext, CallerStep

(* The types hold whatever the queue underneath does.                      *)
LEMMA CallTypes == CmdSpec => []CallType
  <1>1. CmdInit => CallType
    BY CommandQueueAssumption DEF CmdInit, CallType, CallerPlaces
  <1>2. CallType /\ [CmdNext]_allVars => CallType'
    <2> SUFFICES ASSUME CallType, [CmdNext]_allVars PROVE CallType'
      OBVIOUS
    <2> USE DEF CallType, CallerPlaces
    <2>1. ASSUME NEW c \in Callers, CmdReserve(c) PROVE CallType'
      BY <2>1, CommandQueueAssumption DEF CmdReserve
    <2>2. ASSUME NEW c \in Callers, CmdNoSlot(c) PROVE CallType'
      <3>1. /\ callNo[c] \in 0..MaxCalls /\ callNo[c] < MaxCalls
            /\ callNo' = [callNo EXCEPT ![c] = @ + 1]
            /\ UNCHANGED <<lck, tres, pc, cmpl, step>>
        BY <2>2 DEF CmdNoSlot
      <3> QED
        BY <3>1, CommandQueueAssumption
    <2>3. ASSUME NEW c \in Callers, CmdStart(c) PROVE CallType'
      <3>1. Call(c) \in Calls
        BY <2>3, CallIsPayload DEF CmdStart
      <3> QED
        BY <2>3, <3>1 DEF CmdStart
    <2>4. ASSUME NEW c \in Callers, CmdFinish(c) \/ CmdUnlock(c) \/ CmdReturn(c)
          PROVE  CallType'
      BY <2>4 DEF CmdFinish, CmdUnlock, CmdReturn
    <2>5. CASE CbLock \/ CbTake \/ CbUnlock
      BY <2>5 DEF CbLock, CbTake, CbUnlock
    <2>6. CASE CbSignal
      BY <2>6 DEF CbSignal
    <2>7. CASE CbNotify
      BY <2>7 DEF CbNotify
    <2>8. ASSUME UNCHANGED cmdVars PROVE CallType'
      BY <2>8 DEF cmdVars
    <2> QED
      BY <2>1, <2>2, <2>3, <2>4, <2>5, <2>6, <2>7, <2>8
         DEF CmdNext, CallerStep, HandlerStep, Callback, allVars
  <1> QED
    BY <1>1, <1>2, PTL DEF CmdSpec

(* The command queue uses its submission queue as any user must, so every  *)
(* result about BceQueue holds of it.                                      *)
THEOREM CommandQueueIsAQueue == CmdSpec => Spec
  <1>1. CmdInit => Init
    BY DEF CmdInit
  <1> QED
    BY <1>1, CallTypes, QueueSteps, PTL DEF CmdSpec, Spec

(* Commands are answered in the order they were issued, each once and with *)
(* the device's answer to that command.                                    *)
THEOREM CommandsAreAFifo == CmdSpec => ImplementsFifo
  BY CommandQueueIsAQueue, QueuesImplementFifos

(* Every variable of the command queue stays in its type: the results the  *)
(* callback stores are results the device can give.                        *)
THEOREM CmdTypeCorrect == CmdSpec => []CmdTypeOK
  <1> DEFINE R == res \in [Callers -> Results]
  <1>1. CmdInit => R
    BY DEF CmdInit, Results
  <1>2. R /\ Inv /\ [CmdNext]_allVars => R'
    <2> SUFFICES ASSUME R, Inv, [CmdNext]_allVars PROVE R'
      OBVIOUS
    <2>1. result \in Results /\ NoData \in Results
      BY DEF Inv, TypeOK, Results
    <2>2. ASSUME NEW c \in Callers, CmdReserve(c) \/ CmdNoSlot(c) \/ CallerStep(c)
          PROVE  R'
      BY <2>1, <2>2 DEF CmdReserve, CmdNoSlot, CallerStep, CmdStart, CmdFinish,
                        CmdUnlock, CmdReturn
    <2>3. CASE Callback
      BY <2>1, <2>3 DEF Callback, CbLock, CbTake, CbSignal, CbNotify, CbUnlock
    <2>4. ASSUME UNCHANGED cmdVars PROVE R'
      BY <2>4 DEF cmdVars
    <2> QED
      BY <2>2, <2>3, <2>4 DEF CmdNext, HandlerStep, allVars
  <1>3. CmdSpec => []Inv
    BY CommandQueueIsAQueue, Invariant, PTL
  <1>4. CallType /\ Inv /\ R => CmdTypeOK
    BY DEF CallType, CallerPlaces, Inv, CmdTypeOK
  <1> QED
    BY <1>1, <1>2, <1>3, <1>4, CallTypes, PTL DEF CmdSpec

-----------------------------------------------------------------------------
(* The slots between head and tail                                         *)

Used(i) == H(Cmdq, i) < H(Cmdq, tail[Cmdq])

(* Filling a slot adds the one at tail.                                    *)
LEMMA StartUses ==
    ASSUME Inv, NEW x \in Payloads, NextSubmission(Cmdq, x)
    PROVE  /\ tail[Cmdq] \in Slots /\ ~Used(tail[Cmdq])
           /\ \A i \in Slots : Used(i)' <=> Used(i) \/ i = tail[Cmdq]
           /\ \A i \in Slots : ring'[Cmdq][i] = IF i = tail[Cmdq] THEN x ELSE ring[Cmdq][i]
  <1> DEFINE t == tail[Cmdq]
  <1>0. Cmdq \in SQs
    BY CommandQueueAssumption
  <1>1. /\ t \in Slots /\ tail'[Cmdq] = Inc(t, ElCount)
        /\ \A i \in Slots : ring'[Cmdq][i] = IF i = t THEN x ELSE ring[Cmdq][i]
    BY <1>0 DEF NextSubmission, Inv, TypeOK
  <1>2. \A i \in Slots : H(Cmdq, i)' = H(Cmdq, i)
    BY DEF NextSubmission, H
  <1>3. H(Cmdq, t) \in 0..(ElCount - 1) /\ H(Cmdq, Inc(t, ElCount)) = H(Cmdq, t) + 1
    <2>1. H(Cmdq, t) \in 0..(ElCount - 1) /\ H(Cmdq, t) # ElCount - 1
      BY <1>0, OrderFacts, BceQueueAssumption DEF NextSubmission
    <2> QED
      BY <1>0, <1>1, <2>1, HFacts DEF Inv
  <1>4. H(Cmdq, tail[Cmdq])' = H(Cmdq, t) + 1
    BY <1>1, <1>3 DEF H, NextSubmission
  <1>5. ASSUME NEW i \in Slots
        PROVE  Used(i)' <=> Used(i) \/ i = t
    <2>1. H(Cmdq, i) \in 0..(ElCount - 1) /\ (H(Cmdq, i) = H(Cmdq, t) <=> i = t)
      BY <1>0, <1>1, HFacts DEF Inv
    <2>2. Used(i)' <=> H(Cmdq, i) < H(Cmdq, t) + 1
      BY <1>2, <1>4 DEF Used
    <2> QED
      BY <1>3, <2>1, <2>2, BceQueueAssumption DEF Used
  <1> QED
    BY <1>1, <1>3, <1>5, BceQueueAssumption DEF Used

(* Ending a submission removes the one at head.                            *)
LEMMA NotifyFrees ==
    ASSUME Inv, NotifySubmissionComplete
    PROVE  /\ head[Cmdq] \in Slots
           /\ \A i \in Slots : Used(i)' <=> Used(i) /\ i # head[Cmdq]
  <1> DEFINE a == head[Cmdq]
             t == tail[Cmdq]
  <1>0. Cmdq \in SQs /\ Current = Cmdq
    BY CommandQueueAssumption, CurrentQueue DEF NotifySubmissionComplete, Inv
  <1>1. /\ a \in Slots /\ t \in Slots /\ head'[Cmdq] = Inc(a, ElCount) /\ tail' = tail
        /\ irq = "notify"
    BY <1>0 DEF NotifySubmissionComplete, Inv, TypeOK
  <1>2. H(Cmdq, t) \in 0..(ElCount - 1) /\ H(Cmdq, t) >= 1 /\ t # a
    <2>1. /\ H(Cmdq, completion_cidx[Cmdq]) = 1
          /\ H(Cmdq, completion_cidx[Cmdq]) <= H(Cmdq, completion_tail[Cmdq])
          /\ H(Cmdq, completion_tail[Cmdq]) <= H(Cmdq, t)
          /\ H(Cmdq, completion_tail[Cmdq]) \in Nat /\ H(Cmdq, t) \in 0..(ElCount - 1)
      BY <1>0, <1>1, OrderFacts DEF InHand
    <2>2. H(Cmdq, t) >= 1
      BY <2>1, BceQueueAssumption
    <2> QED
      BY <1>0, <1>1, <2>1, <2>2, HFacts DEF Inv
  <1>3. \A i \in Slots : H(Cmdq, i)' = Ahead(Inc(a, ElCount), i)
    BY <1>1 DEF H
  <1>4. H(Cmdq, tail[Cmdq])' = H(Cmdq, t) - 1
    <2>1. H(Cmdq, tail[Cmdq])' = Ahead(Inc(a, ElCount), t)
      BY <1>1 DEF H
    <2> QED
      BY <1>0, <1>1, <1>2, <2>1, HFacts DEF Inv
  <1>5. ASSUME NEW i \in Slots
        PROVE  Used(i)' <=> Used(i) /\ i # a
    <2>1. Used(i)' <=> Ahead(Inc(a, ElCount), i) < H(Cmdq, t) - 1
      BY <1>3, <1>4 DEF Used
    <2>2. H(Cmdq, i) \in 0..(ElCount - 1)
      BY <1>0, HFacts DEF Inv
    <2>3. CASE i = a
      <3>1. Ahead(Inc(a, ElCount), i) = ElCount - 1
        BY <1>0, <1>1, <2>3, HFacts DEF Inv
      <3> QED
        BY <1>2, <2>1, <2>3, <3>1, BceQueueAssumption
    <2>4. CASE i # a
      <3>1. Ahead(Inc(a, ElCount), i) = H(Cmdq, i) - 1
        BY <1>0, <2>4, HFacts DEF Inv
      <3> QED
        BY <1>2, <2>1, <2>2, <2>4, <3>1, BceQueueAssumption DEF Used
    <2> QED
      BY <2>3, <2>4
  <1> QED
    BY <1>1, <1>5

(* The callback takes the completion of the slot at head.                  *)
LEMMA TakenIsHead ==
    ASSUME Inv, DataInv, NextCompletion
    PROVE  /\ head[Cmdq] \in Slots /\ Used(head[Cmdq])
           /\ result' = ring[Cmdq][head[Cmdq]]
  <1>1. Cmdq \in SQs /\ Current = Cmdq
    BY CommandQueueAssumption, HandedIsSubmitted
  <1>2. /\ completion_cidx[Cmdq] \in Slots /\ H(Cmdq, completion_cidx[Cmdq]) = 0
        /\ H(Cmdq, tail[Cmdq]) > 0 /\ result' = ring[Cmdq][completion_cidx[Cmdq]]
    BY <1>1, HandedIsSubmitted
  <1>3. completion_cidx[Cmdq] = head[Cmdq]
    BY <1>1, <1>2, HFacts DEF Inv
  <1> QED
    BY <1>2, <1>3 DEF Used

-----------------------------------------------------------------------------
(* The inductive invariant                                                 *)

(* lck is held by the caller between its unlock and the slot it fills, and *)
(* by the callback for as long as it runs; a completion in hand has got as *)
(* far as step says.                                                       *)
LockInv == /\ \A c \in Callers : pc[c] \in {"locked", "rung"} <=> lck = c
           /\ lck = Handler => irq \in {"callback", "notify"}
           /\ irq = "notify" => lck = Handler
           /\ step # "none" <=> irq = "notify"

(* An entry for every slot in use and for no other, and no two alike.      *)
RegisteredInv == \A i \in Slots : /\ Used(i) => tres[i] = ring[Cmdq][i]
                                  /\ ~Used(i) => tres[i] = Nobody
DistinctInv == \A i, j \in Slots : tres[i] = tres[j] => i = j \/ tres[i] = Nobody

(* The entry whose sleeper has been woken, until bce_cmdq_completion       *)
(* clears it.                                                              *)
Over(i) == step = "signalled" /\ i = head[Cmdq]

(* An entry is for the current call of a caller nobody has woken; the one  *)
(* that is over may be for an earlier call of a caller that has moved on.  *)
LiveEntry(c, n) == n = callNo[c] /\ pc[c] \in {"locked", "rung", "waiting"} /\ ~cmpl[c]
OverEntry(c, n) == n <= callNo[c] /\ (n = callNo[c] => pc[c] \in {"idle", "waiting"})
EntryInv ==
    \A i \in Slots, c \in Callers, n \in 1..MaxCalls :
        tres[i] = <<c, n>> => IF Over(i) THEN OverEntry(c, n) ELSE LiveEntry(c, n)

(* The result in hand is the one of the entry at head.                     *)
ResultInv == irq = "notify" => result = tres[head[Cmdq]] /\ Used(head[Cmdq])

(* Only a sleeper is woken, and with the result of its own call.           *)
WakeInv == \A c \in Callers :
              /\ pc[c] \in {"reserved", "locked", "rung"} => ~cmpl[c]
              /\ pc[c] = "waiting" /\ cmpl[c] => res[c] = Call(c)

TresInv == RegisteredInv /\ DistinctInv /\ EntryInv /\ ResultInv /\ WakeInv

(* The spin lock: callers and callback exclude one another.                *)
LEMMA LockStep ==
    ASSUME CallType, LockInv, [CmdNext]_allVars
    PROVE  LockInv'
  <1> USE CommandQueueAssumption DEF CallType, LockInv
  <1>1. ASSUME NEW c \in Callers, CmdReserve(c) \/ CmdNoSlot(c) \/ CmdFinish(c) \/ CmdReturn(c)
        PROVE  LockInv'
    <2>1. UNCHANGED <<lck, step, irq>>
      BY <1>1 DEF CmdReserve, CmdNoSlot, CmdFinish, CmdReturn, Reserve, SubmitToDevice,
                  intVars, vars
    <2>2. \A d \in Callers : pc'[d] \in {"locked", "rung"} <=> pc[d] \in {"locked", "rung"}
      BY <1>1 DEF CmdReserve, CmdNoSlot, CmdFinish, CmdReturn
    <2> QED
      BY <2>1, <2>2
  <1>2. ASSUME NEW c \in Callers, CmdStart(c) PROVE LockInv'
    BY <1>2 DEF CmdStart, NextSubmission, intVars
  <1>3. ASSUME NEW c \in Callers, CmdUnlock(c) PROVE LockInv'
    <2>1. lck = c /\ lck' = Nobody /\ UNCHANGED <<irq, step>>
      BY <1>3 DEF CmdUnlock, vars, intVars
    <2>2. \A d \in Callers : pc'[d] \notin {"locked", "rung"}
      BY <1>3, <2>1 DEF CmdUnlock
    <2> QED
      BY <2>1, <2>2
  <1>4. CASE CbLock
    BY <1>4 DEF CbLock, vars, intVars
  <1>5. CASE CbTake
    BY <1>5 DEF CbTake, NextCompletion
  <1>6. CASE CbSignal
    BY <1>6 DEF CbSignal, vars, intVars
  <1>7. CASE CbNotify
    BY <1>7 DEF CbNotify, NotifySubmissionComplete
  <1>8. CASE CbUnlock
    <2>1. /\ lck = Handler /\ lck' = Nobody /\ UNCHANGED <<pc, step>>
          /\ irq = "callback" /\ irq' # "notify"
      BY <1>8 DEF CbUnlock, CallbackReturns
    <2> QED
      BY <2>1
  <1>9. ASSUME (DrainEntry \/ Drained) /\ UNCHANGED cmdVars PROVE LockInv'
    BY <1>9 DEF DrainEntry, Drained, cmdVars
  <1>10. ASSUME DeviceComplete(Cmdq) /\ UNCHANGED cmdVars PROVE LockInv'
    BY <1>10 DEF DeviceComplete, intVars, cmdVars
  <1>11. CASE UNCHANGED allVars
    BY <1>11 DEF allVars, vars, intVars, cmdVars
  <1> QED
    BY <1>1, <1>2, <1>3, <1>4, <1>5, <1>6, <1>7, <1>8, <1>9, <1>10, <1>11
       DEF CmdNext, CallerStep, HandlerStep, Callback

(* Steps that touch neither the entries nor what they are compared with.   *)
LEMMA TresFrame ==
    ASSUME TresInv, UNCHANGED <<head, tail, ring, result, tres, pc, callNo, res, cmpl, step>>,
           irq' = "notify" => irq = "notify"
    PROVE  TresInv'
  <1>1. \A i \in Slots : (Used(i)' <=> Used(i)) /\ (Over(i)' <=> Over(i))
    BY DEF Used, Over, H
  <1>2. RegisteredInv' /\ DistinctInv'
    BY <1>1 DEF TresInv, RegisteredInv, DistinctInv
  <1>3. EntryInv'
    BY <1>1 DEF TresInv, EntryInv, LiveEntry, OverEntry
  <1>4. ResultInv' /\ WakeInv'
    BY DEF TresInv, ResultInv, WakeInv, Call, Used, H
  <1> QED
    BY <1>2, <1>3, <1>4 DEF TresInv

(* A caller that moves on, wakes nobody and has no live entry.             *)
LEMMA CallerMoves ==
    ASSUME CmdTypeOK, CallType, TresInv, NEW c \in Callers,
           CmdReserve(c) \/ CmdNoSlot(c) \/ CmdFinish(c) \/ CmdUnlock(c) \/ CmdReturn(c)
    PROVE  TresInv'
  <1>1. /\ UNCHANGED <<head, tail, ring, result, irq, tres, step>>
        /\ \A d \in Callers : d # c => /\ pc'[d] = pc[d] /\ callNo'[d] = callNo[d]
                                       /\ res'[d] = res[d] /\ cmpl'[d] = cmpl[d]
    <2>1. UNCHANGED <<head, tail, ring, result, irq, tres, step>>
      BY DEF CmdReserve, CmdNoSlot, CmdFinish, CmdUnlock, CmdReturn, Reserve,
             SubmitToDevice, vars, sqVars, intVars
    <2>2. \A d \in Callers : d # c => /\ pc'[d] = pc[d] /\ callNo'[d] = callNo[d]
                                       /\ res'[d] = res[d] /\ cmpl'[d] = cmpl[d]
      <3>1. CASE CmdReserve(c)
        BY <3>1 DEF CmdReserve, CmdTypeOK
      <3>2. CASE CmdNoSlot(c)
        BY <3>2 DEF CmdNoSlot, CmdTypeOK
      <3>3. CASE CmdFinish(c) \/ CmdUnlock(c) \/ CmdReturn(c)
        BY <3>3 DEF CmdFinish, CmdUnlock, CmdReturn, CmdTypeOK
      <3> QED
        BY <3>1, <3>2, <3>3
    <2> QED
      BY <2>1, <2>2
  <1>2. \A i \in Slots : (Used(i)' <=> Used(i)) /\ (Over(i)' <=> Over(i))
    BY <1>1 DEF Used, Over, H
  <1>3. RegisteredInv' /\ DistinctInv' /\ ResultInv'
    BY <1>1, <1>2 DEF TresInv, RegisteredInv, DistinctInv, ResultInv, Used, H
  <1>4. callNo[c] \in Int /\ callNo'[c] \in Int /\ callNo[c] <= callNo'[c]
    <2>1. callNo[c] \in 0..MaxCalls /\ MaxCalls \in Nat
      BY CommandQueueAssumption DEF CallType
    <2>2. callNo'[c] = callNo[c] \/ callNo'[c] = callNo[c] + 1
      BY DEF CmdReserve, CmdNoSlot, CmdFinish, CmdUnlock, CmdReturn, CallType
    <2> QED
      BY <2>1, <2>2
  <1>5. ASSUME NEW n \in 1..MaxCalls, LiveEntry(c, n)
        PROVE  LiveEntry(c, n)'
    <2>1. ~CmdReserve(c) /\ ~CmdNoSlot(c)
      BY <1>5 DEF LiveEntry, CmdReserve, CmdNoSlot
    <2>2. ~CmdReturn(c)
      BY <1>5 DEF LiveEntry, CmdReturn
    <2>3. /\ pc' = [pc EXCEPT ![c] = "rung"] \/ pc' = [pc EXCEPT ![c] = "waiting"]
          /\ UNCHANGED <<callNo, cmpl>>
      BY <2>1, <2>2 DEF CmdFinish, CmdUnlock
    <2>4. pc'[c] \in {"rung", "waiting"}
      BY <2>3 DEF CallType
    <2> QED
      BY <1>5, <2>3, <2>4 DEF LiveEntry
  <1>6. ASSUME NEW n \in 1..MaxCalls, OverEntry(c, n)
        PROVE  OverEntry(c, n)'
    <2>1. n \in Int /\ n <= callNo[c] /\ n <= callNo'[c]
      BY <1>4, <1>6, CommandQueueAssumption DEF OverEntry
    <2>2. CASE CmdReserve(c) \/ CmdNoSlot(c)
      <3>1. callNo'[c] = callNo[c] + 1
        BY <2>2 DEF CmdReserve, CmdNoSlot, CallType
      <3> QED
        BY <1>4, <2>1, <3>1 DEF OverEntry
    <2>3. CASE CmdFinish(c) \/ CmdUnlock(c) \/ CmdReturn(c)
      <3>1. callNo' = callNo
        BY <2>3 DEF CmdFinish, CmdUnlock, CmdReturn
      <3>2. n = callNo[c] => pc'[c] \in {"idle", "waiting"}
        BY <1>6, <2>3 DEF OverEntry, CmdFinish, CmdUnlock, CmdReturn, CallType
      <3> QED
        BY <2>1, <3>1, <3>2 DEF OverEntry
    <2> QED
      BY <2>2, <2>3
  <1>7. EntryInv'
    <2> SUFFICES ASSUME NEW i \in Slots, NEW d \in Callers, NEW n \in 1..MaxCalls,
                        tres'[i] = <<d, n>>
                 PROVE  IF Over(i)' THEN OverEntry(d, n)' ELSE LiveEntry(d, n)'
      BY DEF EntryInv
    <2>1. IF Over(i) THEN OverEntry(d, n) ELSE LiveEntry(d, n)
      BY <1>1 DEF TresInv, EntryInv
    <2>2. CASE d = c
      BY <1>2, <1>5, <1>6, <2>1, <2>2
    <2>3. CASE d # c
      BY <1>1, <1>2, <2>1, <2>3 DEF LiveEntry, OverEntry
    <2> QED
      BY <2>2, <2>3
  <1>8. WakeInv'
    <2>1. ASSUME NEW d \in Callers, d # c
          PROVE  /\ pc'[d] \in {"reserved", "locked", "rung"} => ~cmpl'[d]
                 /\ pc'[d] = "waiting" /\ cmpl'[d] => res'[d] = <<d, callNo'[d]>>
      BY <1>1, <2>1 DEF TresInv, WakeInv, Call
    <2>2. /\ pc'[c] \in {"reserved", "locked", "rung"} => ~cmpl'[c]
          /\ pc'[c] = "waiting" => ~cmpl'[c]
      BY DEF TresInv, WakeInv, CmdReserve, CmdNoSlot, CmdFinish, CmdUnlock, CmdReturn,
             CallType
    <2> QED
      BY <2>1, <2>2 DEF WakeInv, Call
  <1> QED
    BY <1>3, <1>7, <1>8 DEF TresInv

(* A command enters tres with its slot.                                    *)
LEMMA StartRegisters ==
    ASSUME Inv, CallType, LockInv, TresInv, NEW c \in Callers, CmdStart(c)
    PROVE  TresInv'
  <1> DEFINE t == tail[Cmdq]
  <1>1. /\ UNCHANGED <<head, result, irq, callNo, res, cmpl, step>>
        /\ pc[c] = "reserved" /\ pc' = [pc EXCEPT ![c] = "locked"]
        /\ tres' = [tres EXCEPT ![t] = Call(c)]
        /\ lck = Nobody /\ irq # "notify" /\ step = "none"
    BY CommandQueueAssumption DEF CmdStart, NextSubmission, intVars, LockInv
  <1>2. Call(c) \in Payloads /\ NextSubmission(Cmdq, Call(c)) /\ Call(c) # Nobody
    BY <1>1, CallIsPayload, CommandQueueAssumption DEF CmdStart
  <1>3. /\ t \in Slots /\ ~Used(t)
        /\ \A i \in Slots : Used(i)' <=> Used(i) \/ i = t
        /\ \A i \in Slots : ring'[Cmdq][i] = IF i = t THEN Call(c) ELSE ring[Cmdq][i]
    BY <1>2, StartUses
  <1>4. \A i \in Slots : tres'[i] = IF i = t THEN Call(c) ELSE tres[i]
    BY <1>1, <1>3 DEF CallType
  <1>5. \A i \in Slots : ~Over(i) /\ ~Over(i)'
    BY <1>1 DEF Over
  <1>6. RegisteredInv'
    BY <1>3, <1>4 DEF TresInv, RegisteredInv
  <1>7. \A i \in Slots : tres[i] # Call(c)
    <2> SUFFICES ASSUME NEW i \in Slots, tres[i] = <<c, callNo[c]>> PROVE FALSE
      BY DEF Call
    <2>1. callNo[c] \in 1..MaxCalls
      BY <1>1, CommandQueueAssumption DEF CallType
    <2>2. LiveEntry(c, callNo[c])
      BY <1>5, <2>1 DEF TresInv, EntryInv
    <2> QED
      BY <1>1, <2>2 DEF LiveEntry
  <1>8. DistinctInv'
    BY <1>4, <1>7 DEF TresInv, DistinctInv
  <1>9. EntryInv'
    <2> SUFFICES ASSUME NEW i \in Slots, NEW d \in Callers, NEW n \in 1..MaxCalls,
                        tres'[i] = <<d, n>>
                 PROVE  LiveEntry(d, n)'
      BY <1>5 DEF EntryInv
    <2>1. CASE i = t
      <3>1. d = c /\ n = callNo[c]
        BY <1>4, <2>1 DEF Call
      <3>2. pc'[c] = "locked" /\ ~cmpl[c]
        BY <1>1 DEF CallType, TresInv, WakeInv
      <3> QED
        BY <1>1, <3>1, <3>2 DEF LiveEntry
    <2>2. CASE i # t
      <3>1. LiveEntry(d, n)
        BY <1>4, <1>5, <2>2 DEF TresInv, EntryInv
      <3>2. d # c
        BY <1>1, <3>1 DEF LiveEntry
      <3> QED
        BY <1>1, <3>1, <3>2 DEF LiveEntry, CallType
    <2> QED
      BY <2>1, <2>2
  <1>10. ResultInv'
    BY <1>1 DEF ResultInv
  <1>11. WakeInv'
    BY <1>1 DEF TresInv, WakeInv, CallType, Call
  <1> QED
    BY <1>6, <1>8, <1>9, <1>10, <1>11 DEF TresInv

(* The callback takes a completion: nothing but the result in hand moves.  *)
LEMMA TakeStep ==
    ASSUME Inv, DataInv, CallType, LockInv, TresInv, CbTake
    PROVE  TresInv'
  <1>1. /\ UNCHANGED <<head, tail, ring, tres, pc, callNo, res, cmpl>>
        /\ irq = "callback" /\ step = "none" /\ step' = "taken" /\ NextCompletion
    BY DEF CbTake, NextCompletion, sqVars, LockInv, CallType
  <1>2. /\ \A i \in Slots : Used(i)' <=> Used(i)
        /\ \A i \in Slots : ~Over(i) /\ ~Over(i)'
    BY <1>1 DEF Used, Over, H
  <1>3. RegisteredInv' /\ DistinctInv' /\ WakeInv'
    BY <1>1, <1>2 DEF TresInv, RegisteredInv, DistinctInv, WakeInv, Call
  <1>4. EntryInv'
    BY <1>1, <1>2 DEF TresInv, EntryInv, LiveEntry
  <1>5. ResultInv'
    <2>1. result' = tres[head[Cmdq]] /\ Used(head[Cmdq])
      BY <1>1, TakenIsHead DEF TresInv, RegisteredInv
    <2> QED
      BY <1>1, <2>1 DEF ResultInv, Used, H
  <1> QED
    BY <1>3, <1>4, <1>5 DEF TresInv

(* The sleeper of the entry at head is woken: it is asleep, in that call,  *)
(* and the result in hand is its own.                                      *)
LEMMA SignalStep ==
    ASSUME Inv, DataInv, CmdTypeOK, CallType, LockInv, TresInv, CbSignal
    PROVE  TresInv'
  <1> DEFINE a == head[Cmdq]
  <1>1. /\ UNCHANGED <<head, tail, ring, result, irq, tres, pc, callNo>>
        /\ irq = "notify" /\ step = "taken" /\ step' = "signalled"
    BY DEF CbSignal, vars, sqVars, intVars
  <1>2. a \in Slots /\ result = tres[a] /\ tres[a] # Nobody
    <2>1. a \in Slots
      BY CommandQueueAssumption DEF Inv, TypeOK
    <2>2. result = tres[a] /\ result \in Calls
      BY <1>1, CommandQueueAssumption DEF TresInv, ResultInv, DataInv, HandedData
    <2> QED
      BY <2>1, <2>2, CommandQueueAssumption
  <1>3. PICK c \in Callers, n \in 1..MaxCalls : tres[a] = <<c, n>>
    BY <1>2 DEF CallType, Calls
  <1>4. /\ res' = [res EXCEPT ![c] = result]
        /\ cmpl' = [cmpl EXCEPT ![c] = TRUE]
    BY <1>2, <1>3 DEF CbSignal
  <1>5. /\ \A i \in Slots : Used(i)' <=> Used(i)
        /\ \A i \in Slots : ~Over(i) /\ (Over(i)' <=> i = a)
    BY <1>1 DEF Used, Over, H
  <1>6. n = callNo[c] /\ pc[c] = "waiting" /\ ~cmpl[c]
    <2>1. LiveEntry(c, n)
      BY <1>2, <1>3, <1>5 DEF TresInv, EntryInv
    <2>2. pc[c] \notin {"locked", "rung"}
      <3>1. lck = Handler
        BY <1>1 DEF LockInv
      <3> QED
        BY <3>1, CommandQueueAssumption DEF LockInv
    <2> QED
      BY <2>1, <2>2 DEF LiveEntry
  <1>7. RegisteredInv' /\ DistinctInv' /\ ResultInv'
    BY <1>1, <1>5 DEF TresInv, RegisteredInv, DistinctInv, ResultInv, Used, H
  <1>8. EntryInv'
    <2> SUFFICES ASSUME NEW i \in Slots, NEW d \in Callers, NEW m \in 1..MaxCalls,
                        tres[i] = <<d, m>>
                 PROVE  IF i = a THEN OverEntry(d, m)' ELSE LiveEntry(d, m)'
      BY <1>1, <1>5 DEF EntryInv
    <2>1. CASE i = a
      <3>1. d = c /\ m = n
        BY <1>3, <2>1
      <3>2. m <= callNo[d] /\ pc'[d] = "waiting" /\ callNo' = callNo
        BY <1>1, <1>6, <3>1
      <3> QED
        BY <2>1, <3>2 DEF OverEntry
    <2>2. CASE i # a
      <3>1. LiveEntry(d, m)
        BY <1>5 DEF TresInv, EntryInv
      <3>2. d # c
        <4>1. tres[i] # tres[a]
          BY <1>2, <2>2 DEF TresInv, DistinctInv
        <4> QED
          BY <1>3, <1>6, <3>1, <4>1 DEF LiveEntry
      <3> QED
        BY <1>1, <1>4, <2>2, <3>1, <3>2 DEF LiveEntry, CallType
    <2> QED
      BY <2>1, <2>2
  <1>9. WakeInv'
    <2>1. \A d \in Callers : d # c => res'[d] = res[d] /\ cmpl'[d] = cmpl[d]
      BY <1>4 DEF CmdTypeOK
    <2>2. res'[c] = Call(c)
      BY <1>2, <1>3, <1>4, <1>6 DEF Call, CmdTypeOK
    <2> QED
      BY <1>1, <1>6, <2>1, <2>2 DEF TresInv, WakeInv, Call
  <1> QED
    BY <1>7, <1>8, <1>9 DEF TresInv

(* The entry goes with its slot.                                           *)
LEMMA NotifyClears ==
    ASSUME Inv, CallType, LockInv, TresInv, CbNotify
    PROVE  TresInv'
  <1> DEFINE a == head[Cmdq]
  <1>1. /\ UNCHANGED <<tail, ring, pc, callNo, res, cmpl>>
        /\ NotifySubmissionComplete /\ irq' = "callback" /\ step' = "none"
        /\ tres' = [tres EXCEPT ![a] = Nobody]
    BY DEF CbNotify, NotifySubmissionComplete
  <1>2. a \in Slots /\ \A i \in Slots : Used(i)' <=> Used(i) /\ i # a
    BY <1>1, NotifyFrees
  <1>3. \A i \in Slots : tres'[i] = IF i = a THEN Nobody ELSE tres[i]
    BY <1>1, <1>2 DEF CallType
  <1>4. RegisteredInv' /\ DistinctInv'
    BY <1>1, <1>2, <1>3 DEF TresInv, RegisteredInv, DistinctInv
  <1>5. EntryInv'
    <2> SUFFICES ASSUME NEW i \in Slots, NEW d \in Callers, NEW n \in 1..MaxCalls,
                        tres'[i] = <<d, n>>
                 PROVE  LiveEntry(d, n)'
      BY <1>1 DEF EntryInv, Over
    <2>1. i # a /\ tres[i] = <<d, n>>
      <3>1. <<d, n>> # Nobody
        BY CommandQueueAssumption DEF Calls
      <3> QED
        BY <1>3, <3>1
    <2>2. LiveEntry(d, n)
      BY <2>1 DEF TresInv, EntryInv, Over
    <2> QED
      BY <1>1, <2>2 DEF LiveEntry
  <1>6. ResultInv' /\ WakeInv'
    BY <1>1 DEF TresInv, ResultInv, WakeInv, Call
  <1> QED
    BY <1>4, <1>5, <1>6 DEF TresInv

LEMMA TresStep ==
    ASSUME Inv, DataInv, CmdTypeOK, CallType, LockInv, TresInv, [CmdNext]_allVars
    PROVE  TresInv'
  <1>1. CASE CbLock \/ CbUnlock
    BY <1>1, TresFrame DEF CbLock, CbUnlock, CallbackReturns, vars, sqVars, intVars
  <1>2. ASSUME (DrainEntry \/ Drained) /\ UNCHANGED cmdVars PROVE TresInv'
    BY <1>2, TresFrame DEF DrainEntry, Drained, sqVars, cmdVars
  <1>3. ASSUME DeviceComplete(Cmdq) /\ UNCHANGED cmdVars PROVE TresInv'
    BY <1>3, TresFrame DEF DeviceComplete, sqVars, intVars, cmdVars
  <1>4. CASE UNCHANGED allVars
    BY <1>4, TresFrame DEF allVars, vars, sqVars, intVars, cmdVars
  <1> QED
    BY <1>1, <1>2, <1>3, <1>4, CallerMoves, StartRegisters, TakeStep, SignalStep,
       NotifyClears DEF CmdNext, CallerStep, HandlerStep, Callback

CmdInv == CallType /\ LockInv /\ TresInv

LEMMA CmdInvariant == CmdSpec => []CmdInv
  <1>1. CmdInit => LockInv /\ TresInv
    <2> SUFFICES ASSUME CmdInit PROVE LockInv /\ TresInv
      OBVIOUS
    <2>1. Cmdq \in SQs /\ 0 \in Slots /\ \A i \in Slots : Ahead(0, i) \in Nat
      BY CommandQueueAssumption, BceQueueAssumption, AheadFacts DEF Slots
    <2>2. \A i \in Slots : ~Used(i)
      <3>1. \A i \in Slots : Used(i) <=> Ahead(0, i) < Ahead(0, 0)
        BY <2>1 DEF CmdInit, Init, Used, H
      <3>2. Ahead(0, 0) = 0
        BY DEF Ahead, Dist
      <3> QED
        BY <2>1, <3>1, <3>2
    <2>3. LockInv
      BY CommandQueueAssumption DEF CmdInit, Init, LockInv
    <2>4. RegisteredInv /\ DistinctInv /\ ResultInv /\ WakeInv
      BY <2>2 DEF CmdInit, Init, RegisteredInv, DistinctInv, ResultInv, WakeInv
    <2>5. EntryInv
      <3> SUFFICES ASSUME NEW i \in Slots, NEW c \in Callers, NEW n \in 1..MaxCalls,
                          tres[i] = <<c, n>>
                   PROVE  FALSE
        BY DEF EntryInv
      <3>1. tres[i] = Nobody
        BY DEF CmdInit
      <3>2. <<c, n>> \in Calls
        BY DEF Calls
      <3> QED
        BY <3>1, <3>2, CommandQueueAssumption
    <2> QED
      BY <2>3, <2>4, <2>5 DEF TresInv
  <1>2. Inv /\ DataInv /\ CmdTypeOK /\ CallType /\ LockInv /\ TresInv /\ [CmdNext]_allVars
          => LockInv' /\ TresInv'
    BY LockStep, TresStep
  <1>3. CmdSpec => [](Inv /\ DataInv)
    BY CommandQueueIsAQueue, Invariant, DataInvariant, PTL
  <1> QED
    BY <1>1, <1>2, <1>3, CallTypes, CmdTypeCorrect, PTL DEF CmdSpec, CmdInv

-----------------------------------------------------------------------------
(* A woken caller reads the result of the command it issued, with any      *)
(* number of callers and rings of any size.                                *)
THEOREM CallersGetOwnResult == CmdSpec => []OwnResult
  <1>1. CmdInv => OwnResult
    BY DEF CmdInv, TresInv, WakeInv, OwnResult
  <1> QED
    BY <1>1, CmdInvariant, PTL

(* tres holds no pointer into the stack of a call that is over, save for   *)
(* the entry bce_cmdq_completion is about to clear.                        *)
THEOREM NoResultDangles == CmdSpec => []NoDanglingResult
  <1>1. CmdInv => NoDanglingResult
    <2> SUFFICES ASSUME CmdInv, NEW i \in Slots, tres[i] # Nobody
                 PROVE  \/ \E c \in Callers : /\ tres[i] = Call(c)
                                              /\ pc[c] \in {"locked", "rung", "waiting"}
                        \/ step = "signalled" /\ i = head[Cmdq]
      BY DEF NoDanglingResult
    <2>1. PICK c \in Callers, n \in 1..MaxCalls : tres[i] = <<c, n>>
      BY DEF CmdInv, CallType, Calls
    <2>2. CASE Over(i)
      BY <2>2 DEF Over
    <2>3. CASE ~Over(i)
      <3>1. LiveEntry(c, n)
        BY <2>1, <2>3 DEF CmdInv, TresInv, EntryInv
      <3> QED
        BY <2>1, <3>1 DEF LiveEntry, Call
    <2> QED
      BY <2>2, <2>3
  <1> QED
    BY <1>1, CmdInvariant, PTL

(* Callers and the callback are never in their critical sections together. *)
LckExcludes == \A c \in Callers : pc[c] \in {"locked", "rung"} =>
                  step = "none" /\ \A d \in Callers \ {c} : pc[d] \notin {"locked", "rung"}
THEOREM LockExcludes == CmdSpec => []LckExcludes
  <1>1. CmdInv => LckExcludes
    BY CommandQueueAssumption DEF CmdInv, LockInv, LckExcludes
  <1> QED
    BY <1>1, CmdInvariant, PTL

=============================================================================
