----------------------------- MODULE EventQueue -----------------------------
(***************************************************************************)
(* An event queue of the USB host controller (src/vhci/queue.c and         *)
(* vhci.c): the driver keeps Pending message buffers posted; the device    *)
(* fills them in order, one per event; the consumer reads each one at      *)
(* sq->head, gives its slot back and posts as many buffers as it used.     *)
(*                                                                         *)
(* The consumer of four of the queues is the completion callback itself,   *)
(* in the interrupt thread (bce_vhci_event_queue_completion). Firmware     *)
(* commands are deferred to a work item, which runs concurrently with the  *)
(* interrupt thread and looks one event ahead, for a cancellation of the   *)
(* event it is about to handle (bce_vhci_handle_firmware_events_w).        *)
(***************************************************************************)
EXTENDS Naturals

CONSTANTS ElCount,    \* VHCI_EVENT_QUEUE_EL_COUNT
          Pending,    \* VHCI_EVENT_PENDING_COUNT
          Cancels,    \* whether the firmware may cancel the event it sent
                      \* before: {FALSE}, {TRUE} or both
          MaxEvents,  \* bound: events sent
          NoSlot      \* msg2 = NULL

ASSUME EventQueueAssumption == /\ ElCount \in Nat /\ Pending \in 1..(ElCount - 1)
                               /\ Cancels \subseteq BOOLEAN /\ MaxEvents \in Nat

Slots == 0..(ElCount - 1)
Ids == 1..MaxEvents

(* A message: its number, and that of the event it cancels; 0 if none.     *)
Events == [id : 0..MaxEvents, of : 0..MaxEvents]
NoEvent == [id |-> 0, of |-> 0]

ASSUME NoSlotAssumption == NoSlot \notin Slots

VARIABLES cancels,          \* the firmware may cancel events; never changes
          deferred,         \* the queue of firmware commands; never changes
          available_commands, head, tail,
          completion_cidx, completion_tail,
          data,             \* the message buffers
          doorbell,         \* tail as the device knows it
          devNext,          \* device: next buffer to fill
          sent,             \* device: events sent (bound)
          irq,              \* where the interrupt thread is
          queued,           \* w_fw_events is queued
          worker,           \* where the consumer is
          msg, msg2,        \* its local variables: slots of the messages
          cnt,              \* buffers used in this run
          consumed,         \* completions taken so far
          handled           \* how often each event has been handled

setup == <<cancels, deferred>>
sqVars == <<available_commands, head, tail, doorbell>>
devVars == <<data, devNext, sent>>
locals == <<msg, msg2, cnt>>
logs == <<consumed, handled>>
eventVars == <<setup, sqVars, completion_cidx, completion_tail, devVars, irq, queued,
          worker, locals, logs>>

Inc(i) == (i + 1) % ElCount
Ahead(a, b) == IF b >= a THEN b - a ELSE b - a + ElCount

EventTypeOK == /\ cancels \in Cancels
               /\ deferred \in BOOLEAN
               /\ available_commands \in Nat
               /\ head \in Slots /\ tail \in Slots /\ doorbell \in Slots
               /\ completion_cidx \in Slots /\ completion_tail \in Slots
               /\ data \in [Slots -> Events]
               /\ devNext \in Slots /\ sent \in 0..MaxEvents
               /\ irq \in {"idle", "drain", "callback"}
               /\ queued \in BOOLEAN
               /\ worker \in {"idle", "loop", "peek", "pair", "handle", "refill"}
               /\ msg \in Slots /\ msg2 \in Slots \cup {NoSlot}
               /\ cnt \in Nat
               /\ consumed \in 0..MaxEvents
               /\ handled \in [Ids -> Nat]

(* Created, with the first buffers posted.                                 *)
EventInit == /\ cancels \in Cancels
             /\ deferred \in BOOLEAN
             /\ available_commands = ElCount - 1 - Pending
             /\ head = 0 /\ tail = Pending /\ doorbell = Pending
             /\ completion_cidx = 0 /\ completion_tail = 0
             /\ data = [i \in Slots |-> NoEvent]
             /\ devNext = 0 /\ sent = 0
             /\ irq = "idle" /\ queued = FALSE /\ worker = "idle"
             /\ msg = 0 /\ msg2 = NoSlot /\ cnt = 0
             /\ consumed = 0 /\ handled = [n \in Ids |-> 0]

(***************************************************************************)
(* The firmware                                                            *)
(***************************************************************************)
FirmwareEvent(of) ==
    /\ devNext # doorbell /\ sent < MaxEvents
    /\ data' = [data EXCEPT ![devNext] = [id |-> sent + 1, of |-> of]]
    /\ devNext' = Inc(devNext)
    /\ sent' = sent + 1
    /\ UNCHANGED <<setup, sqVars, completion_cidx, completion_tail, irq, queued,
                   worker, locals, logs>>

(***************************************************************************)
(* The interrupt thread                                                    *)
(***************************************************************************)

(* The drain loop accepts a completion of this queue ...                   *)
Accept ==
    /\ irq \in {"idle", "drain"}
    /\ completion_tail # devNext
    /\ completion_tail' = Inc(completion_tail)
    /\ irq' = "drain"
    /\ UNCHANGED <<setup, sqVars, completion_cidx, devVars, queued, worker, locals, logs>>

(* ... and, when there is no other, calls its callback.                    *)
Drained ==
    /\ irq = "drain"
    /\ completion_tail = devNext
    /\ irq' = "callback"
    /\ UNCHANGED <<setup, sqVars, completion_cidx, completion_tail, devVars, queued,
                   worker, locals, logs>>

(* A mutant: the work is queued only when it is not running.               *)
QueueWorkIfIdle ==
    /\ irq = "callback" /\ deferred
    /\ queued' = (queued \/ worker = "idle")
    /\ irq' = "idle"
    /\ UNCHANGED <<setup, sqVars, completion_cidx, completion_tail, devVars,
                   worker, locals, logs>>

(* bce_vhci_firmware_event_completion: queue_work, which queues the item   *)
(* again if it is running.                                                 *)
QueueWork ==
    /\ irq = "callback" /\ deferred
    /\ queued' = TRUE
    /\ irq' = "idle"
    /\ UNCHANGED <<setup, sqVars, completion_cidx, completion_tail, devVars,
                   worker, locals, logs>>

(***************************************************************************)
(* The consumer                                                            *)
(***************************************************************************)

(* The work item starts; or bce_vhci_event_queue_completion is called.     *)
Start ==
    /\ worker = "idle"
    /\ IF deferred THEN queued /\ queued' = FALSE
                   ELSE irq = "callback" /\ UNCHANGED queued
    /\ worker' = "loop"
    /\ msg2' = NoSlot /\ cnt' = 0
    /\ UNCHANGED <<setup, sqVars, completion_cidx, completion_tail, devVars, irq,
                   msg, logs>>

NextCompletion == /\ completion_cidx # completion_tail
                  /\ completion_cidx' = Inc(completion_cidx)
                  /\ consumed' = consumed + 1

(* The event looked at before comes first.                                 *)
TakeKept ==
    /\ worker = "loop" /\ msg2 # NoSlot
    /\ msg' = msg2 /\ msg2' = NoSlot
    /\ worker' = "peek"
    /\ UNCHANGED <<setup, sqVars, completion_cidx, completion_tail, devVars, irq,
                   queued, cnt, logs>>

TakeNext ==
    /\ worker = "loop" /\ msg2 = NoSlot
    /\ NextCompletion
    /\ msg' = head
    /\ worker' = IF deferred THEN "peek" ELSE "handle"
    /\ UNCHANGED <<setup, sqVars, completion_tail, devVars, irq, queued, msg2, cnt, handled>>

TakeNone ==
    /\ worker = "loop" /\ msg2 = NoSlot
    /\ completion_cidx = completion_tail
    /\ worker' = "refill"
    /\ UNCHANGED <<setup, sqVars, completion_cidx, completion_tail, devVars, irq,
                   queued, locals, logs>>

(* A mutant: the second event is looked for in the first one's slot.       *)
PeekSame ==
    /\ worker = "peek"
    /\ NextCompletion
    /\ msg2' = head
    /\ worker' = IF data[msg2'].of # 0 /\ data[msg2'].of = data[msg].id THEN "pair" ELSE "handle"
    /\ UNCHANGED <<setup, sqVars, completion_tail, devVars, irq, queued, msg, cnt, handled>>

(* A second event: is it the cancellation of the first?                    *)
PeekSecond ==
    /\ worker = "peek"
    /\ NextCompletion
    /\ msg2' = Inc(head)
    /\ worker' = IF data[msg2'].of # 0 /\ data[msg2'].of = data[msg].id THEN "pair" ELSE "handle"
    /\ UNCHANGED <<setup, sqVars, completion_tail, devVars, irq, queued, msg, cnt, handled>>

PeekNone ==
    /\ worker = "peek"
    /\ completion_cidx = completion_tail
    /\ worker' = "handle"
    /\ UNCHANGED <<setup, sqVars, completion_cidx, completion_tail, devVars, irq,
                   queued, locals, logs>>

HandleSlots(S) == handled' = [n \in Ids |-> IF n \in {data[i].id : i \in S}
                                            THEN handled[n] + 1 ELSE handled[n]]

(* "Take two elements": both are answered by one response and both slots   *)
(* given back; msg2 keeps pointing to the second.                          *)
TakeTwo ==
    /\ worker = "pair"
    /\ HandleSlots({msg, msg2})
    /\ head' = Inc(Inc(head))
    /\ available_commands' = available_commands + 2
    /\ cnt' = cnt + 2
    /\ worker' = "loop"
    /\ UNCHANGED <<setup, tail, doorbell, completion_cidx, completion_tail, devVars,
                   irq, queued, msg, msg2, consumed>>

(* The event is handled and answered, and its slot given back.             *)
Handle ==
    /\ worker = "handle"
    /\ HandleSlots({msg})
    /\ head' = Inc(head)
    /\ available_commands' = available_commands + 1
    /\ cnt' = cnt + 1
    /\ worker' = "loop"
    /\ UNCHANGED <<setup, tail, doorbell, completion_cidx, completion_tail, devVars,
                   irq, queued, msg, msg2, consumed>>

(* bce_vhci_event_queue_submit_pending, as far as slots can be reserved.   *)
SubmitPending ==
    /\ worker = "refill"
    /\ LET n == IF cnt <= available_commands THEN cnt ELSE available_commands
       IN /\ available_commands' = available_commands - n
          /\ tail' = (tail + n) % ElCount
    /\ doorbell' = tail'
    /\ worker' = "idle"
    /\ irq' = IF deferred THEN irq ELSE "idle"
    /\ UNCHANGED <<setup, head, completion_cidx, completion_tail, devVars, queued,
                   locals, logs>>

Consumer == \/ Start \/ TakeKept \/ TakeNext \/ TakeNone \/ PeekSecond \/ PeekNone
            \/ TakeTwo \/ Handle \/ SubmitPending

Interrupt == Accept \/ Drained \/ QueueWork

EventNext == \/ FirmwareEvent(0)
             \/ cancels /\ sent > 0 /\ FirmwareEvent(sent)
             \/ Interrupt \/ Consumer

EventSpec == EventInit /\ [][EventNext]_eventVars

(* The interrupt thread and the workqueue run.                             *)
FairSpec == EventSpec /\ WF_eventVars(Interrupt) /\ WF_eventVars(Consumer)

(***************************************************************************)
(* Properties                                                              *)
(***************************************************************************)

(* What the next three promise holds of every queue whose events are not   *)
(* cancelled, or whose consumer does not look for cancellations.           *)
NoPairs == cancels => ~deferred

(* The message handled is the one of the completion taken: head, which     *)
(* finds the message, keeps in step with completion_cidx, which finds the  *)
(* completion.                                                             *)
RightMessage ==
    NoPairs /\ worker = "handle" =>
        data[msg].id = IF msg2 = NoSlot THEN consumed ELSE consumed - 1

(* No event is handled twice, and when the consumer rests each one it has  *)
(* taken has been handled.                                                 *)
HandledOnce ==
    NoPairs => \A n \in Ids : /\ handled[n] <= 1
                             /\ worker = "idle" /\ n <= consumed => handled[n] = 1

(* "Take two elements": at rest, as many slots have been given back as     *)
(* completions have been taken.                                            *)
SlotPerCompletion == worker = "idle" => head = completion_cidx

(* Every event the firmware sends is taken, cancelled or not: a completion *)
(* that arrives while the worker is deciding that there are no more is not *)
(* left behind.                                                            *)
EveryEventTaken == \A n \in Ids : sent >= n ~> consumed >= n
=============================================================================
