------------------------------ MODULE BceQueue ------------------------------
(***************************************************************************)
(* Submission queues sharing one completion queue (src/queue.c, queue.h).  *)
(*                                                                         *)
(* Each submission queue is a ring of ElCount slots with the driver's      *)
(* indices head, tail, completion_cidx and completion_tail.  The device    *)
(* takes submissions up to the doorbell and writes one completion entry    *)
(* per submission into the completion queue, a ring of CqCount entries     *)
(* whose PENDING flag tells the driver's entries from the device's.  The   *)
(* interrupt handler first drains the completion queue into the per-queue  *)
(* completion_data rings, then calls the completion callback of every      *)
(* queue that got something, last one first; a callback takes completions  *)
(* with bce_next_completion and ends each with                             *)
(* bce_notify_submission_complete.                                         *)
(*                                                                         *)
(* bce_reserve_submission is one step here; Reservation.tla shows that its *)
(* interleaved atomic operations amount to that.  The result the device    *)
(* reports for a submission is the payload of the submission, so that a    *)
(* result handed to the wrong submission is visible.                       *)
(***************************************************************************)
EXTENDS Integers, Sequences, SequencesExt

CONSTANTS SQs,        \* the submission queues (their qids)
          ElCount,    \* el_count of every submission queue
          CqCount,    \* el_count of the completion queue
          Payloads,   \* what a submission can carry
          NoData,     \* contents of a slot that was never written
          NoEntry     \* completion queue entry without the PENDING flag

ASSUME BceQueueAssumption == /\ ElCount \in Nat /\ ElCount >= 2
                             /\ CqCount \in Nat \ {0}
                             /\ NoData \notin Payloads

VARIABLES available_commands,  \* free slots, as the reservation counts them
          held,                \* slots reserved and neither submitted nor cancelled
          head,                \* oldest slot whose completion is not handled
          tail,                \* next slot to fill
          ring,                \* slot contents
          doorbell,            \* tail as last written to the device
          devNext,             \* device: next slot to complete
          completion_cidx,     \* next completion to hand to the callback
          completion_tail,     \* next completion expected from the device
          completion_data,     \* results by slot
          has_pending_completions,
          cq,                  \* completion queue entries
          cq_index,            \* cq->index: next entry to look at
          devCq,               \* device: next entry to write
          irq,                 \* where the interrupt handler is
          int_sq_list,         \* queues whose callback is to be called
          result               \* what bce_next_completion last returned

sqVars  == <<available_commands, held, head, tail, ring, doorbell>>
devVars == <<devNext, devCq>>
intVars == <<completion_cidx, completion_tail, completion_data,
             has_pending_completions, cq_index, irq, int_sq_list, result>>
vars == <<sqVars, devVars, intVars, cq>>

Slots   == 0..(ElCount - 1)
CqSlots == 0..(CqCount - 1)
Results == Payloads \cup {NoData}
Entries == [qid : SQs, completion_index : Slots, result : Results]

ASSUME NoEntryAssumption == NoEntry \notin Entries

Places == {"idle", "drain", "callback", "notify"}

TypeOK == /\ available_commands \in [SQs -> Nat]
          /\ held \in [SQs -> Nat]
          /\ head \in [SQs -> Slots] /\ tail \in [SQs -> Slots]
          /\ ring \in [SQs -> [Slots -> Results]]
          /\ doorbell \in [SQs -> Slots] /\ devNext \in [SQs -> Slots]
          /\ completion_cidx \in [SQs -> Slots]
          /\ completion_tail \in [SQs -> Slots]
          /\ completion_data \in [SQs -> [Slots -> Results]]
          /\ has_pending_completions \in [SQs -> BOOLEAN]
          /\ cq \in [CqSlots -> Entries \cup {NoEntry}]
          /\ cq_index \in CqSlots /\ devCq \in CqSlots
          /\ irq \in Places
          /\ int_sq_list \in Seq(SQs)
          /\ result \in Results

Init == /\ available_commands = [q \in SQs |-> ElCount - 1]
        /\ held = [q \in SQs |-> 0]
        /\ head = [q \in SQs |-> 0] /\ tail = [q \in SQs |-> 0]
        /\ ring = [q \in SQs |-> [i \in Slots |-> NoData]]
        /\ doorbell = [q \in SQs |-> 0] /\ devNext = [q \in SQs |-> 0]
        /\ completion_cidx = [q \in SQs |-> 0]
        /\ completion_tail = [q \in SQs |-> 0]
        /\ completion_data = [q \in SQs |-> [i \in Slots |-> NoData]]
        /\ has_pending_completions = [q \in SQs |-> FALSE]
        /\ cq = [i \in CqSlots |-> NoEntry]
        /\ cq_index = 0 /\ devCq = 0
        /\ irq = "idle"
        /\ int_sq_list = <<>>
        /\ result = NoData

(* Ring arithmetic: the next index, and the way from a to b going forward. *)
Inc(i, n) == (i + 1) % n
Dist(a, b, n) == IF b >= a THEN b - a ELSE b - a + n
Ahead(a, b) == Dist(a, b, ElCount)

(***************************************************************************)
(* The submitting side                                                     *)
(***************************************************************************)

(* bce_reserve_submission returning 0.                                     *)
Reserve(q) ==
    /\ available_commands[q] > 0
    /\ available_commands' = [available_commands EXCEPT ![q] = @ - 1]
    /\ held' = [held EXCEPT ![q] = @ + 1]
    /\ UNCHANGED <<head, tail, ring, doorbell, devVars, intVars, cq>>

(* A mutant: the reservation is dropped and the counter not restored.      *)
CancelLeaks(q) ==
    /\ held[q] > 0
    /\ held' = [held EXCEPT ![q] = @ - 1]
    /\ UNCHANGED <<available_commands, head, tail, ring, doorbell, devVars, intVars, cq>>

(* bce_cancel_submission_reservation.                                      *)
CancelReservation(q) ==
    /\ held[q] > 0
    /\ available_commands' = [available_commands EXCEPT ![q] = @ + 1]
    /\ held' = [held EXCEPT ![q] = @ - 1]
    /\ UNCHANGED <<head, tail, ring, doorbell, devVars, intVars, cq>>

(* bce_next_submission, and the caller filling the slot it returns.        *)
NextSubmission(q, x) ==
    /\ held[q] > 0
    /\ held' = [held EXCEPT ![q] = @ - 1]
    /\ ring' = [ring EXCEPT ![q][tail[q]] = x]
    /\ tail' = [tail EXCEPT ![q] = Inc(@, ElCount)]
    /\ UNCHANGED <<available_commands, head, doorbell, devVars, intVars, cq>>

(* bce_submit_to_device: everything filled so far becomes visible.         *)
SubmitToDevice(q) ==
    /\ doorbell[q] # tail[q]
    /\ doorbell' = [doorbell EXCEPT ![q] = tail[q]]
    /\ UNCHANGED <<available_commands, held, head, tail, ring, devVars, intVars, cq>>

(***************************************************************************)
(* The device: completes the submissions of a queue in order, one entry    *)
(* each, and only into an entry the driver has finished with.              *)
(***************************************************************************)
DeviceComplete(q) ==
    /\ devNext[q] # doorbell[q]
    /\ cq[devCq] = NoEntry
    /\ cq' = [cq EXCEPT ![devCq] = [qid |-> q,
                                    completion_index |-> devNext[q],
                                    result |-> ring[q][devNext[q]]]]
    /\ devNext' = [devNext EXCEPT ![q] = Inc(@, ElCount)]
    /\ devCq' = Inc(devCq, CqCount)
    /\ UNCHANGED <<sqVars, intVars>>

(***************************************************************************)
(* bce_handle_cq_completions, in the interrupt thread                      *)
(***************************************************************************)

(* A mutant: completion_tail moves only with a queue's first entry.        *)
HandleFirstOnly(e) ==
    LET q == e.qid
        i == e.completion_index
    IN IF completion_tail[q] # i
       THEN UNCHANGED <<completion_tail, completion_data, int_sq_list,
                        has_pending_completions>>
       ELSE /\ int_sq_list' = IF has_pending_completions[q]
                              THEN int_sq_list ELSE Append(int_sq_list, q)
            /\ has_pending_completions' = [has_pending_completions EXCEPT ![q] = TRUE]
            /\ completion_data' = [completion_data EXCEPT ![q][i] = e.result]
            /\ completion_tail' = IF has_pending_completions[q]
                                  THEN completion_tail
                                  ELSE [completion_tail EXCEPT ![q] = Inc(@, ElCount)]

(* bce_handle_cq_completion: an entry that is not the next one expected of *)
(* its queue is dropped; a queue's first entry puts it on the list.        *)
HandleCqCompletion(e) ==
    LET q == e.qid
        i == e.completion_index
    IN IF completion_tail[q] # i
       THEN UNCHANGED <<completion_tail, completion_data, int_sq_list,
                        has_pending_completions>>
       ELSE /\ int_sq_list' = IF has_pending_completions[q]
                              THEN int_sq_list ELSE Append(int_sq_list, q)
            /\ has_pending_completions' = [has_pending_completions EXCEPT ![q] = TRUE]
            /\ completion_data' = [completion_data EXCEPT ![q][i] = e.result]
            /\ completion_tail' = [completion_tail EXCEPT ![q] = Inc(@, ElCount)]

(* One round of the drain loop; the first round starts the handler.        *)
DrainEntry ==
    /\ irq \in {"idle", "drain"}
    /\ cq[cq_index] # NoEntry
    /\ HandleCqCompletion(cq[cq_index])
    /\ cq' = [cq EXCEPT ![cq_index] = NoEntry]
    /\ cq_index' = Inc(cq_index, CqCount)
    /\ irq' = "drain"
    /\ UNCHANGED <<sqVars, devVars, completion_cidx, result>>

(* No entry left: on to the callbacks.                                     *)
Drained ==
    /\ irq = "drain"
    /\ cq[cq_index] = NoEntry
    /\ irq' = IF int_sq_list = <<>> THEN "idle" ELSE "callback"
    /\ UNCHANGED <<sqVars, devVars, completion_cidx, completion_tail, cq, cq_index,
                   completion_data, has_pending_completions, int_sq_list, result>>

(* The queue whose callback is running.                                    *)
Current == Last(int_sq_list)

(* A mutant: the index is advanced before the result is read.              *)
NextCompletionLate ==
    /\ irq = "callback"
    /\ completion_cidx[Current] # completion_tail[Current]
    /\ completion_cidx' = [completion_cidx EXCEPT ![Current] = Inc(@, ElCount)]
    /\ result' = completion_data[Current][completion_cidx'[Current]]
    /\ irq' = "notify"
    /\ UNCHANGED <<sqVars, devVars, completion_tail, completion_data, cq, cq_index,
                   has_pending_completions, int_sq_list>>

(* The callback takes a completion: bce_next_completion.                   *)
NextCompletion ==
    /\ irq = "callback"
    /\ completion_cidx[Current] # completion_tail[Current]
    /\ result' = completion_data[Current][completion_cidx[Current]]
    /\ completion_cidx' = [completion_cidx EXCEPT ![Current] = Inc(@, ElCount)]
    /\ irq' = "notify"
    /\ UNCHANGED <<sqVars, devVars, completion_tail, completion_data, cq, cq_index,
                   has_pending_completions, int_sq_list>>

(* A mutant: head moves and the slot is not made available.                *)
NotifyHeadOnly ==
    /\ irq = "notify"
    /\ head' = [head EXCEPT ![Current] = Inc(@, ElCount)]
    /\ irq' = "callback"
    /\ UNCHANGED <<available_commands, held, tail, ring, doorbell, devVars,
                   completion_cidx, completion_tail, completion_data, cq, cq_index,
                   has_pending_completions, int_sq_list, result>>

(* ... and ends it: bce_notify_submission_complete.                        *)
NotifySubmissionComplete ==
    /\ irq = "notify"
    /\ head' = [head EXCEPT ![Current] = Inc(@, ElCount)]
    /\ available_commands' = [available_commands EXCEPT ![Current] = @ + 1]
    /\ irq' = "callback"
    /\ UNCHANGED <<held, tail, ring, doorbell, devVars, completion_cidx, completion_tail,
                   completion_data, cq, cq_index, has_pending_completions,
                   int_sq_list, result>>

(* A mutant: the callback may return with completions left (an if where    *)
(* the callbacks have a while).                                            *)
CallbackReturnsEarly ==
    /\ irq = "callback"
    /\ has_pending_completions' = [has_pending_completions EXCEPT ![Current] = FALSE]
    /\ int_sq_list' = Front(int_sq_list)
    /\ irq' = IF Len(int_sq_list) = 1 THEN "idle" ELSE "callback"
    /\ UNCHANGED <<sqVars, devVars, completion_cidx, completion_tail, completion_data,
                   cq, cq_index, result>>

(* The callback finds no further completion and returns.                   *)
CallbackReturns ==
    /\ irq = "callback"
    /\ completion_cidx[Current] = completion_tail[Current]
    /\ has_pending_completions' = [has_pending_completions EXCEPT ![Current] = FALSE]
    /\ int_sq_list' = Front(int_sq_list)
    /\ irq' = IF Len(int_sq_list) = 1 THEN "idle" ELSE "callback"
    /\ UNCHANGED <<sqVars, devVars, completion_cidx, completion_tail, completion_data,
                   cq, cq_index, result>>

Submitting == \E q \in SQs : \/ Reserve(q) \/ CancelReservation(q)
                             \/ \E x \in Payloads : NextSubmission(q, x)
                             \/ SubmitToDevice(q)

Interrupt == DrainEntry \/ Drained \/ NextCompletion
             \/ NotifySubmissionComplete \/ CallbackReturns

Next == Submitting \/ (\E q \in SQs : DeviceComplete(q)) \/ Interrupt

Spec == Init /\ [][Next]_vars

(* The device interrupts for every entry it writes, so the interrupt       *)
(* thread runs while there is one; nothing is assumed of the submitters or *)
(* of the device.                                                          *)
FairSpec == Spec /\ WF_vars(Interrupt)

(***************************************************************************)
(* Properties                                                              *)
(***************************************************************************)

(* Each slot is free, reserved or between head and tail, on every queue    *)
(* and at every instant.                                                   *)
Conservation ==
    \A q \in SQs : available_commands[q] + held[q] + Ahead(head[q], tail[q]) = ElCount - 1

(* The entry at cq->index is the next completion its queue expects, so the *)
(* handler never reports a completion index mismatch and never drops an    *)
(* entry.                                                                  *)
IndexMatch ==
    cq[cq_index] # NoEntry =>
        cq[cq_index].completion_index = completion_tail[cq[cq_index].qid]

(* int_sq_list holds exactly the queues marked has_pending_completions,    *)
(* each once, so it cannot outgrow its array and no callback is called     *)
(* twice or skipped.                                                       *)
ListConsistent ==
    /\ \A i, j \in DOMAIN int_sq_list : int_sq_list[i] = int_sq_list[j] => i = j
    /\ \A q \in SQs : has_pending_completions[q] <=> q \in Range(int_sq_list)

(* When the handler is not running, every completion it accepted has been  *)
(* handed to its callback and has given its slot back: nothing is left     *)
(* behind for an interrupt that may never come.                            *)
NothingLeftBehind ==
    irq = "idle" =>
        \A q \in SQs : /\ completion_cidx[q] = completion_tail[q]
                       /\ head[q] = completion_tail[q]

(* A slot the device has completed is handled and given back.              *)
Completed(q, i) == Ahead(head[q], i) < Ahead(head[q], devNext[q])
EveryCompletionHandled ==
    \A q \in SQs, i \in Slots : Completed(q, i) ~> ~Completed(q, i)

(* Each queue implements the fifo its users rely on: what lies between     *)
(* completion_cidx and tail, in order, is what will be handed back.        *)
Waiting(q) == [k \in 1..Ahead(completion_cidx[q], tail[q]) |->
                  ring[q][(completion_cidx[q] + k - 1) % ElCount]]
Handed(q) == IF irq = "notify" /\ Current = q THEN result ELSE NoData

Fifo(q) == INSTANCE SubmissionFifo WITH fifo <- Waiting(q), handed <- Handed(q),
                                        Capacity <- ElCount - 1
ImplementsFifo ==
    /\ \A q \in SQs : Fifo(q)!FifoInit
    /\ [][\A q \in SQs : [Fifo(q)!FifoNext]_(Fifo(q)!fifoVars)]_vars

(* Each queue's counter and indices implement the slot pool.               *)
Pool(q) == INSTANCE SlotPool WITH Capacity <- ElCount - 1,
                                  free <- available_commands[q],
                                  reserved <- held[q],
                                  used <- Ahead(head[q], tail[q])
ImplementsPool ==
    /\ \A q \in SQs : Pool(q)!PoolInit
    /\ [][\A q \in SQs : [Pool(q)!PoolNext]_(Pool(q)!poolVars)]_vars
=============================================================================
