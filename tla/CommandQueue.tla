---------------------------- MODULE CommandQueue ----------------------------
(***************************************************************************)
(* The command queue (struct bce_queue_cmdq in src/queue.c): callers issue *)
(* register, unregister and flush commands and sleep, with no timeout, on  *)
(* a result element of their own stack; tres[] remembers which element     *)
(* belongs to which slot, and the completion callback finds it there.      *)
(* Callers and callback serialise on the spin lock lck.                    *)
(*                                                                         *)
(* Built on BceQueue with a single submission queue, Cmdq. A command       *)
(* carries the call that issued it, and its result is the command, so that *)
(* a result given to another call is visible.                              *)
(***************************************************************************)
EXTENDS BceQueue

CONSTANTS Cmdq,       \* the command queue's qid
          Callers,    \* threads that issue commands
          Nobody,     \* lck is free; a tres entry that is NULL
          Handler,    \* the interrupt thread, as the holder of lck
          MaxCalls    \* bound: commands issued per caller

Calls == Callers \X (1..MaxCalls)

ASSUME CommandQueueAssumption == /\ SQs = {Cmdq}
                                 /\ Payloads = Calls
                                 /\ MaxCalls \in Nat
                                 /\ Nobody \notin Calls /\ Nobody \notin Callers
                                 /\ Handler \notin Callers /\ Handler # Nobody

VARIABLES lck,        \* who holds cmdq->lck
          tres,       \* by slot: the call whose result element is registered
          pc,         \* where each caller is
          callNo,     \* number of the caller's current or last call
          res,        \* the result element of the caller's current call
          cmpl,       \* its completion
          step        \* the callback: what it has done with the completion

cmdVars == <<lck, tres, pc, callNo, res, cmpl, step>>
allVars == <<vars, cmdVars>>

CmdTypeOK == /\ TypeOK
             /\ lck \in Callers \cup {Nobody, Handler}
             /\ tres \in [Slots -> Calls \cup {Nobody}]
             /\ pc \in [Callers -> {"idle", "reserved", "locked", "rung", "waiting"}]
             /\ callNo \in [Callers -> 0..MaxCalls]
             /\ res \in [Callers -> Results]
             /\ cmpl \in [Callers -> BOOLEAN]
             /\ step \in {"none", "taken", "signalled"}

CmdInit == /\ Init
           /\ lck = Nobody
           /\ tres = [i \in Slots |-> Nobody]
           /\ pc = [c \in Callers |-> "idle"]
           /\ callNo = [c \in Callers |-> 0]
           /\ res = [c \in Callers |-> NoData]
           /\ cmpl = [c \in Callers |-> FALSE]
           /\ step = "none"

Call(c) == <<c, callNo[c]>>

(***************************************************************************)
(* bce_cmd_start, bce_cmd_finish                                           *)
(***************************************************************************)

(* A new result element; bce_reserve_submission got a slot.                *)
CmdReserve(c) ==
    /\ pc[c] = "idle"
    /\ callNo[c] < MaxCalls
    /\ Reserve(Cmdq)
    /\ callNo' = [callNo EXCEPT ![c] = @ + 1]
    /\ res' = [res EXCEPT ![c] = NoData]
    /\ cmpl' = [cmpl EXCEPT ![c] = FALSE]
    /\ pc' = [pc EXCEPT ![c] = "reserved"]
    /\ UNCHANGED <<lck, tres, step>>

(* No slot within five minutes: the command returns -1.                    *)
CmdNoSlot(c) ==
    /\ pc[c] = "idle"
    /\ callNo[c] < MaxCalls
    /\ available_commands[Cmdq] = 0
    /\ callNo' = [callNo EXCEPT ![c] = @ + 1]
    /\ UNCHANGED <<vars, lck, tres, pc, res, cmpl, step>>

(* Under the lock: register the result element, fill the slot.             *)
CmdStart(c) ==
    /\ pc[c] = "reserved"
    /\ lck = Nobody
    /\ lck' = c
    /\ tres' = [tres EXCEPT ![tail[Cmdq]] = Call(c)]
    /\ NextSubmission(Cmdq, Call(c))
    /\ pc' = [pc EXCEPT ![c] = "locked"]
    /\ UNCHANGED <<callNo, res, cmpl, step>>

(* Ring the doorbell: from here on the command may complete.               *)
CmdFinish(c) ==
    /\ pc[c] = "locked"
    /\ SubmitToDevice(Cmdq)
    /\ pc' = [pc EXCEPT ![c] = "rung"]
    /\ UNCHANGED <<lck, tres, callNo, res, cmpl, step>>

(* A mutant: goes to sleep with the lock held.                             *)
CmdSleepLocked(c) ==
    /\ pc[c] = "rung"
    /\ pc' = [pc EXCEPT ![c] = "waiting"]
    /\ UNCHANGED <<vars, lck, tres, callNo, res, cmpl, step>>

(* Unlock, and sleep.                                                      *)
CmdUnlock(c) ==
    /\ pc[c] = "rung"
    /\ lck' = Nobody
    /\ pc' = [pc EXCEPT ![c] = "waiting"]
    /\ UNCHANGED <<vars, tres, callNo, res, cmpl, step>>

(* wait_for_completion returns; res.status is the command's result, and    *)
(* the element goes out of scope.                                          *)
CmdReturn(c) ==
    /\ pc[c] = "waiting"
    /\ cmpl[c]
    /\ pc' = [pc EXCEPT ![c] = "idle"]
    /\ UNCHANGED <<vars, lck, tres, callNo, res, cmpl, step>>

(***************************************************************************)
(* bce_cmdq_completion                                                     *)
(***************************************************************************)
CbLock ==
    /\ irq = "callback"
    /\ lck = Nobody
    /\ lck' = Handler
    /\ UNCHANGED <<vars, tres, pc, callNo, res, cmpl, step>>

CbTake ==
    /\ lck = Handler
    /\ NextCompletion
    /\ step' = "taken"
    /\ UNCHANGED <<lck, tres, pc, callNo, res, cmpl>>

(* A mutant: looks the element up at completion_cidx, which                *)
(* bce_next_completion has already moved on.                               *)
CbSignalAtCidx ==
    /\ irq = "notify" /\ step = "taken"
    /\ LET el == tres[completion_cidx[Cmdq]]
       IN IF el = Nobody
          THEN UNCHANGED <<res, cmpl>>
          ELSE /\ res' = [res EXCEPT ![el[1]] = result]
               /\ cmpl' = [cmpl EXCEPT ![el[1]] = TRUE]
    /\ step' = "signalled"
    /\ UNCHANGED <<vars, lck, tres, pc, callNo>>

(* The element registered for the slot gets the result and its sleeper is  *)
(* woken; with no element registered the completion is only reported.      *)
CbSignal ==
    /\ irq = "notify" /\ step = "taken"
    /\ LET el == tres[head[Cmdq]]
       IN IF el = Nobody
          THEN UNCHANGED <<res, cmpl>>
          ELSE /\ res' = [res EXCEPT ![el[1]] = result]
               /\ cmpl' = [cmpl EXCEPT ![el[1]] = TRUE]
    /\ step' = "signalled"
    /\ UNCHANGED <<vars, lck, tres, pc, callNo>>

(* A mutant: leaves the entry in place.                                    *)
CbNotifyKeepsEntry ==
    /\ step = "signalled"
    /\ NotifySubmissionComplete
    /\ step' = "none"
    /\ UNCHANGED <<lck, tres, pc, callNo, res, cmpl>>

(* The entry is cleared and the slot given back.                           *)
CbNotify ==
    /\ step = "signalled"
    /\ tres' = [tres EXCEPT ![head[Cmdq]] = Nobody]
    /\ NotifySubmissionComplete
    /\ step' = "none"
    /\ UNCHANGED <<lck, pc, callNo, res, cmpl>>

CbUnlock ==
    /\ lck = Handler
    /\ CallbackReturns
    /\ lck' = Nobody
    /\ UNCHANGED <<tres, pc, callNo, res, cmpl, step>>

CallerStep(c) == CmdStart(c) \/ CmdFinish(c) \/ CmdUnlock(c) \/ CmdReturn(c)

Callback == CbLock \/ CbTake \/ CbSignal \/ CbNotify \/ CbUnlock

HandlerStep == Callback \/ ((DrainEntry \/ Drained) /\ UNCHANGED cmdVars)

CmdNext == \/ \E c \in Callers : CmdReserve(c) \/ CmdNoSlot(c) \/ CallerStep(c)
           \/ DeviceComplete(Cmdq) /\ UNCHANGED cmdVars
           \/ HandlerStep

CmdSpec == CmdInit /\ [][CmdNext]_allVars

(* Callers and the interrupt thread are scheduled; spin locks are granted  *)
(* in turn. Nothing is assumed of the device.                              *)
CmdFairSpec == /\ CmdSpec
               /\ SF_allVars(HandlerStep)
               /\ \A c \in Callers : SF_allVars(CallerStep(c))

(***************************************************************************)
(* Properties                                                              *)
(***************************************************************************)

(* A command that has been woken has the result of that very command,      *)
(* however many callers and however the ring has wrapped.                  *)
OwnResult == \A c \in Callers : pc[c] = "waiting" /\ cmpl[c] => res[c] = Call(c)

(* tres never points to the stack of a call that is over: an entry the     *)
(* callback may still write through belongs to a caller that is asleep in  *)
(* that call or about to be.                                               *)
NoDanglingResult ==
    \A i \in Slots : tres[i] # Nobody =>
        \/ \E c \in Callers : tres[i] = Call(c) /\ pc[c] \in {"locked", "rung", "waiting"}
        \/ step = "signalled" /\ i = head[Cmdq]

(* A command the device has answered returns.                              *)
Answered(c) == /\ pc[c] \in {"rung", "waiting"}
               /\ \E i \in Slots : tres[i] = Call(c) /\ Completed(Cmdq, i)
AnsweredCallReturns == \A c \in Callers : Answered(c) ~> pc[c] = "idle"
=============================================================================
