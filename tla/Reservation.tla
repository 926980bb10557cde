---------------------------- MODULE Reservation ----------------------------
(***************************************************************************)
(* The reservation protocol of one submission queue (src/queue.c): the     *)
(* atomic counter available_commands, the completion callers sleep on and  *)
(* the count of sleepers, at the granularity of the individual atomic      *)
(* operations, so that every interleaving of callers and of the completion *)
(* handler is a behaviour.                                                 *)
(*                                                                         *)
(* A caller runs bce_reserve_submission, possibly with a timeout           *)
(* (left[c]: time remains), and then either submits what it reserved or    *)
(* cancels.  One context per queue runs bce_notify_submission_complete.    *)
(* IrqCallers are the calls made from that same context, as the USB        *)
(* transfer and audio timestamp callbacks do; while one of them is inside  *)
(* the reservation, nothing can be notified.                               *)
(***************************************************************************)
EXTENDS Integers, FiniteSets

CONSTANTS Callers,      \* the contexts that reserve
          IrqCallers,   \* those among them that run in the completion handler
          Capacity,     \* el_count - 1
          MaxCalls      \* bound: calls of bce_reserve_submission per caller

ASSUME ReservationAssumption == /\ IsFiniteSet(Callers)
                                /\ IrqCallers \subseteq Callers
                                /\ Capacity \in Nat \ {0}
                                /\ MaxCalls \in Nat

VARIABLES available_commands,  \* atomic_t available_commands
          waiting_count,       \* atomic_t available_command_completion_waiting_count
          done,                \* available_command_completion.done
          pc,                  \* where each caller is
          left,                \* *timeout # 0, as the caller sees it
          used,                \* submissions whose completion is not handled yet
          notifier,            \* where bce_notify_submission_complete is
          calls                \* calls made so far (bound)

reserveVars == <<available_commands, waiting_count, done, pc, left, used, notifier, calls>>

PCs == {"idle", "try", "arm", "wait", "expired", "steal", "held"}

ReserveTypeOK == /\ available_commands \in Nat
                 /\ waiting_count \in Nat
                 /\ done \in Nat
                 /\ pc \in [Callers -> PCs]
                 /\ left \in [Callers -> BOOLEAN]
                 /\ used \in Nat
                 /\ notifier \in {"idle", "freed", "signal"}
                 /\ calls \in [Callers -> 0..MaxCalls]

ReserveInit == /\ available_commands = Capacity
               /\ waiting_count = 0
               /\ done = 0
               /\ pc = [c \in Callers |-> "idle"]
               /\ left = [c \in Callers |-> FALSE]
               /\ used = 0
               /\ notifier = "idle"
               /\ calls = [c \in Callers |-> 0]

Among(P, f) == {c \in Callers : f[c] \in P}

(* Callers that hold a reservation they have neither used nor cancelled.   *)
Holders == Among({"held"}, pc)

(* Callers that have announced themselves and not been woken or withdrawn. *)
Parked == Among({"wait", "expired", "steal"}, pc)

(* No call of the completion handler's own is under way. *)
HandlerFree == \A c \in IrqCallers : pc[c] = "idle"

Goto(c, place) == pc' = [pc EXCEPT ![c] = place]

(***************************************************************************)
(* bce_reserve_submission                                                  *)
(***************************************************************************)

(* Entry.  patient: the caller passed a timeout that is not 0. A caller in *)
(* the completion handler runs only while the handler is not itself inside *)
(* a notification.                                                         *)
Call(c, patient) ==
    /\ pc[c] = "idle"
    /\ calls[c] < MaxCalls
    /\ c \in IrqCallers => notifier = "idle" /\ HandlerFree
    /\ Goto(c, "try")
    /\ left' = [left EXCEPT ![c] = patient]
    /\ calls' = [calls EXCEPT ![c] = @ + 1]
    /\ UNCHANGED <<available_commands, waiting_count, done, used, notifier>>

(* The loop head: atomic_dec_if_positive(&available_commands) succeeded.   *)
TryReserve(c) ==
    /\ pc[c] = "try"
    /\ available_commands > 0
    /\ available_commands' = available_commands - 1
    /\ Goto(c, "held")
    /\ UNCHANGED <<waiting_count, done, left, used, notifier, calls>>

(* It failed and no time is left: -EAGAIN.                                 *)
GiveUp(c) ==
    /\ pc[c] = "try"
    /\ available_commands = 0
    /\ ~left[c]
    /\ Goto(c, "idle")
    /\ UNCHANGED <<available_commands, waiting_count, done, left, used, notifier, calls>>

(* It failed and time is left: on to the wait.                             *)
TryFails(c) ==
    /\ pc[c] = "try"
    /\ available_commands = 0
    /\ left[c]
    /\ Goto(c, "arm")
    /\ UNCHANGED <<available_commands, waiting_count, done, left, used, notifier, calls>>

Arm(c) ==
    /\ pc[c] = "arm"
    /\ waiting_count' = waiting_count + 1
    /\ Goto(c, "wait")
    /\ UNCHANGED <<available_commands, done, left, used, notifier, calls>>

(* wait_for_completion_timeout took a token; it returns at least 1.        *)
Wake(c) ==
    /\ pc[c] = "wait"
    /\ done > 0
    /\ done' = done - 1
    /\ Goto(c, "try")
    /\ UNCHANGED <<available_commands, waiting_count, left, used, notifier, calls>>

(* A mutant: the wait has no timeout.                                      *)
TimeoutNever(c) == pc[c] = "wait" /\ FALSE /\ UNCHANGED reserveVars

(* It returned 0, which it does only when there is no token to take.       *)
Timeout(c) ==
    /\ pc[c] = "wait"
    /\ done = 0
    /\ left' = [left EXCEPT ![c] = FALSE]
    /\ Goto(c, "expired")
    /\ UNCHANGED <<available_commands, waiting_count, done, used, notifier, calls>>

(* atomic_dec_if_positive(&waiting_count): the caller withdraws, unless a  *)
(* notification has already counted it out.                                *)
Withdraw(c) ==
    /\ pc[c] = "expired"
    /\ IF waiting_count > 0
       THEN waiting_count' = waiting_count - 1 /\ Goto(c, "try")
       ELSE UNCHANGED waiting_count /\ Goto(c, "steal")
    /\ UNCHANGED <<available_commands, done, left, used, notifier, calls>>

(* try_wait_for_completion: takes a token if there is one.                 *)
Steal(c) ==
    /\ pc[c] = "steal"
    /\ done' = IF done > 0 THEN done - 1 ELSE done
    /\ Goto(c, "try")
    /\ UNCHANGED <<available_commands, waiting_count, left, used, notifier, calls>>

(***************************************************************************)
(* What the caller does with the reservation                               *)
(***************************************************************************)

(* bce_next_submission and bce_submit_to_device.                           *)
SubmitHeld(c) ==
    /\ pc[c] = "held"
    /\ used' = used + 1
    /\ Goto(c, "idle")
    /\ UNCHANGED <<available_commands, waiting_count, done, left, notifier, calls>>

(* bce_cancel_submission_reservation: the counter only; nobody is woken.   *)
CancelReservation(c) ==
    /\ pc[c] = "held"
    /\ available_commands' = available_commands + 1
    /\ Goto(c, "idle")
    /\ UNCHANGED <<waiting_count, done, left, used, notifier, calls>>

(***************************************************************************)
(* bce_notify_submission_complete, in the completion handler               *)
(***************************************************************************)
(* A mutant: the slot is freed and stays in use.                           *)
NotifyFreeKeepsUsed ==
    /\ notifier = "idle"
    /\ HandlerFree
    /\ used > 0
    /\ available_commands' = available_commands + 1
    /\ notifier' = "freed"
    /\ UNCHANGED <<waiting_count, done, pc, left, used, calls>>

NotifyFree ==
    /\ notifier = "idle"
    /\ HandlerFree
    /\ used > 0
    /\ used' = used - 1
    /\ available_commands' = available_commands + 1
    /\ notifier' = "freed"
    /\ UNCHANGED <<waiting_count, done, pc, left, calls>>

(* A mutant: a waiter is counted out and not signalled.                    *)
NotifyCheckSilent ==
    /\ notifier = "freed"
    /\ waiting_count' = IF waiting_count > 0 THEN waiting_count - 1 ELSE waiting_count
    /\ notifier' = "idle"
    /\ UNCHANGED <<available_commands, done, pc, left, used, calls>>

NotifyCheck ==
    /\ notifier = "freed"
    /\ IF waiting_count > 0
       THEN waiting_count' = waiting_count - 1 /\ notifier' = "signal"
       ELSE UNCHANGED waiting_count /\ notifier' = "idle"
    /\ UNCHANGED <<available_commands, done, pc, left, used, calls>>

NotifySignal ==
    /\ notifier = "signal"
    /\ done' = done + 1
    /\ notifier' = "idle"
    /\ UNCHANGED <<available_commands, waiting_count, pc, left, used, calls>>

Reserving(c) == \/ TryReserve(c) \/ GiveUp(c) \/ TryFails(c) \/ Arm(c)
                \/ Wake(c) \/ Timeout(c) \/ Withdraw(c) \/ Steal(c)

ReserveNext == \/ \E c \in Callers : \/ \E patient \in BOOLEAN : Call(c, patient)
                                     \/ Reserving(c)
                                     \/ SubmitHeld(c)
                                     \/ CancelReservation(c)
               \/ NotifyFree \/ NotifyCheck \/ NotifySignal

ReserveSpec == ReserveInit /\ [][ReserveNext]_reserveVars

(* The scheduler runs a caller that can run, time passes, and a            *)
(* notification that has begun ends. Nothing is assumed of the device:     *)
(* NotifyFree may never happen, and a caller may keep what it holds.       *)
Fairness == /\ \A c \in Callers : WF_reserveVars(Reserving(c))
            /\ WF_reserveVars(NotifyCheck)
            /\ WF_reserveVars(NotifySignal)

ReserveFairSpec == ReserveSpec /\ Fairness

(***************************************************************************)
(* Properties                                                              *)
(***************************************************************************)
Signalling == IF notifier = "signal" THEN 1 ELSE 0

(* Every slot is accounted for at every instant: whatever the callers and  *)
(* the completion handler interleave, the counter plus the reservations    *)
(* held plus the submissions in flight is the ring's capacity.             *)
Conservation == available_commands + Cardinality(Holders) + used = Capacity

(* No sleeper is forgotten: every caller that is asleep, or that timed out *)
(* and has not yet withdrawn, is still counted in waiting_count or is      *)
(* matched by a token that is there or about to be given.                  *)
TokenCover == Cardinality(Parked) <= waiting_count + done + Signalling

(* A caller whose time has run out never goes to sleep again: the retry    *)
(* after the timeout takes a slot or returns -EAGAIN.                      *)
OneTimeout == [][\A c \in Callers :
                    ~left[c] /\ pc[c] # "idle" => pc'[c] \notin {"arm", "wait"}]_reserveVars

(* Every call of bce_reserve_submission returns, with a slot or -EAGAIN,   *)
(* even the ones made in the handler whose own progress would free a slot. *)
EveryCallReturns ==
    \A c \in Callers : pc[c] = "try" ~> pc[c] \in {"idle", "held"}

(* The counters implement the slot pool the rest of the driver relies on.  *)
Pool == INSTANCE SlotPool WITH free <- available_commands,
                               reserved <- Cardinality(Holders)
ImplementsPool == Pool!PoolSpec
=============================================================================
