-------------------------- MODULE VhciCommandQueue --------------------------
(***************************************************************************)
(* The command queue of the USB host controller (src/vhci/queue.c).        *)
(* bce_vhci_command_queue_execute runs one command at a time, under a      *)
(* mutex: it registers the caller's reply buffer, writes the command to    *)
(* the message queue and waits. The reply is an event, which the interrupt *)
(* thread copies into the registered buffer. A command that runs out of    *)
(* time is cancelled: the same command again, with the flag 0x4000, into   *)
(* the same buffer.                                                        *)
(*                                                                         *)
(* The device takes the messages in order, answers each command once, or   *)
(* never, and honours a cancellation as long as it has not answered.  A    *)
(* slot of the message queue is free again when the device has taken the   *)
(* message.                                                                *)
(***************************************************************************)
EXTENDS Naturals, Sequences, FiniteSets

CONSTANTS Callers,    \* threads that run commands
          Nobody,     \* no caller; a result pointer that is NULL
          Cmds,       \* command codes
          NoCmd,      \* a code that is no command's: zero, or never written
          MaxCalls,   \* bound: commands per caller
          Slots,      \* slots of the message queue
          Late        \* whether an answer may come too late: after the
                      \* cancellation timed out, or when the queues are being
                      \* destroyed: {FALSE}, {TRUE} or both

(* No command has the code zero. The three slots (there are 255) are for   *)
(* what may be left of an earlier call, a command and its cancellation.    *)
ASSUME VhciCommandQueueAssumption ==
    /\ Nobody \notin Callers /\ NoCmd \notin Cmds
    /\ MaxCalls \in Nat /\ Slots \in Nat /\ Slots >= 3
    /\ Late \subseteq BOOLEAN

Calls == Callers \X (1..MaxCalls)
Requests == [from : Calls, cmd : Cmds, cancel : BOOLEAN]
Replies == [to : Calls \cup {Nobody}, cmd : Cmds \cup {NoCmd}, aborted : BOOLEAN,
            status : {"success", "error"}]

(* The reply buffer is a local variable of the caller: never written, or   *)
(* zeroed by bce_vhci_command_queue_destroy.                               *)
Unset == [to |-> Nobody, cmd |-> NoCmd, aborted |-> FALSE, status |-> "error"]
Zeroed == Unset

VARIABLES late,       \* answers may come too late; never changes
          mutex,      \* holder of cq->mutex
          result,     \* completion.result: whose buffer is registered
          done,       \* completion.completion.done
          pc,         \* where each caller is
          callNo,     \* number of its current or last command
          cmd,        \* req->cmd
          cancelling, \* inside bce_vhci_command_queue_cancel
          res,        \* its reply buffer
          ret,        \* what its last execute returned
          closing,    \* where bce_vhci_command_queue_destroy is
          msgs,       \* messages in the queue
          working,    \* device: commands taken and not answered
          events,     \* replies the interrupt thread has not delivered
          executed    \* device: commands it has carried out

cqVars == <<mutex, result, done>>
callVars == <<pc, callNo, cmd, cancelling, res, ret>>
device == <<msgs, working, events, executed>>
vars == <<late, cqVars, callVars, closing, device>>

InExecute == {"reserve", "register", "write", "wait", "cleanup", "check"}
Returns == {"success", "error", "EIO", "ETIMEDOUT", "EAGAIN"}

TypeOK == /\ late \in Late
          /\ mutex \in Callers \cup {Nobody}
          /\ result \in Callers \cup {Nobody}
          /\ done \in 0..1
          /\ pc \in [Callers -> InExecute \cup {"idle", "mutex"}]
          /\ callNo \in [Callers -> 0..MaxCalls]
          /\ cmd \in [Callers -> Cmds \cup {NoCmd}]
          /\ cancelling \in [Callers -> BOOLEAN]
          /\ res \in [Callers -> Replies]
          /\ ret \in [Callers -> Returns]
          /\ closing \in {"no", "aborted", "destroyed"}
          /\ msgs \in Seq(Requests) /\ Len(msgs) <= Slots
          /\ working \in SUBSET Requests
          /\ events \in Seq(Replies)
          /\ executed \in SUBSET Calls

Init == /\ late \in Late
        /\ mutex = Nobody /\ result = Nobody /\ done = 0
        /\ pc = [c \in Callers |-> "idle"]
        /\ callNo = [c \in Callers |-> 0]
        /\ cmd = [c \in Callers |-> NoCmd]
        /\ cancelling = [c \in Callers |-> FALSE]
        /\ res = [c \in Callers |-> Unset]
        /\ ret = [c \in Callers |-> "error"]
        /\ closing = "no"
        /\ msgs = <<>> /\ working = {} /\ events = <<>> /\ executed = {}

Call(c) == <<c, callNo[c]>>
Goto(c, place) == pc' = [pc EXCEPT ![c] = place]

(* bce_vhci_command_queue_execute returns and unlocks the mutex.           *)
Return(c, r) == /\ Goto(c, "idle")
                /\ ret' = [ret EXCEPT ![c] = r]
                /\ mutex' = Nobody

(***************************************************************************)
(* bce_vhci_command_queue_execute                                          *)
(***************************************************************************)
(* Until the mutex is destroyed: a worker may begin a command when the     *)
(* destruction has begun.                                                  *)
Begin(c, x) ==
    /\ pc[c] = "idle" /\ callNo[c] < MaxCalls
    /\ closing # "destroyed"
    /\ callNo' = [callNo EXCEPT ![c] = @ + 1]
    /\ cmd' = [cmd EXCEPT ![c] = x]
    /\ cancelling' = [cancelling EXCEPT ![c] = FALSE]
    /\ res' = [res EXCEPT ![c] = Unset]
    /\ Goto(c, "mutex")
    /\ UNCHANGED <<late, cqVars, ret, closing, device>>

LockMutex(c) ==
    /\ pc[c] = "mutex" /\ mutex = Nobody
    /\ mutex' = c
    /\ Goto(c, "reserve")
    /\ UNCHANGED <<late, result, done, callNo, cmd, cancelling, res, ret, closing, device>>

(* bce_reserve_submission.                                                 *)
ReserveSlot(c) ==
    /\ pc[c] = "reserve"
    /\ Len(msgs) < Slots
    /\ Goto(c, "register")
    /\ UNCHANGED <<late, cqVars, callNo, cmd, cancelling, res, ret, closing, device>>

(* No slot in time. bce_vhci_command_queue_cancel goes on to look at a     *)
(* reply buffer that may never have been written, so that either of its    *)
(* error codes is possible.                                                *)
ReserveFails(c) ==
    /\ pc[c] = "reserve"
    /\ Len(msgs) = Slots
    /\ \E r \in IF cancelling[c] THEN {"EAGAIN", "ETIMEDOUT"} ELSE {"EAGAIN"} :
           Return(c, r)
    /\ UNCHANGED <<late, result, done, callNo, cmd, cancelling, res, closing, device>>

(* Under completion_lock: the buffer is registered, the completion reset.  *)
Register(c) ==
    /\ pc[c] = "register"
    /\ result' = c /\ done' = 0
    /\ Goto(c, "write")
    /\ UNCHANGED <<late, mutex, callNo, cmd, cancelling, res, ret, closing, device>>

(* bce_vhci_message_queue_write.                                           *)
WriteMessage(c) ==
    /\ pc[c] = "write"
    /\ msgs' = Append(msgs, [from |-> Call(c), cmd |-> cmd[c],
                             cancel |-> cancelling[c]])
    /\ Goto(c, "wait")
    /\ UNCHANGED <<late, cqVars, callNo, cmd, cancelling, res, ret, closing,
                   working, events, executed>>

Woken(c) ==
    /\ pc[c] = "wait" /\ done > 0
    /\ done' = done - 1
    /\ Goto(c, "check")
    /\ UNCHANGED <<late, mutex, result, callNo, cmd, cancelling, res, ret, closing, device>>

(* The device may still answer call x.                                     *)
Outstanding(x) == \/ \E i \in DOMAIN msgs : msgs[i].from = x
                  \/ \E r \in working : r.from = x
                  \/ \E i \in DOMAIN events : events[i].to = x

(* A mutant: a wait without a timeout.                                     *)
TimedOutNever(c) == pc[c] = "wait" /\ FALSE /\ UNCHANGED vars

(* The wait runs out of time. Unless the device may be late, a             *)
(* cancellation does so only when no answer is on its way.                 *)
TimedOut(c) ==
    /\ pc[c] = "wait" /\ done = 0
    /\ cancelling[c] => late \/ ~Outstanding(Call(c))
    /\ Goto(c, "cleanup")
    /\ UNCHANGED <<late, cqVars, callNo, cmd, cancelling, res, ret, closing, device>>

(* A mutant: the buffer stays registered.                                  *)
CleanupKeepsResult(c) ==
    /\ pc[c] = "cleanup"
    /\ IF cancelling[c]
       THEN Return(c, "ETIMEDOUT") /\ UNCHANGED cancelling
       ELSE /\ cancelling' = [cancelling EXCEPT ![c] = TRUE]
            /\ Goto(c, "reserve")
            /\ UNCHANGED <<late, mutex, ret>>
    /\ UNCHANGED <<late, result, done, callNo, cmd, res, closing, device>>

(* Under completion_lock: the buffer is withdrawn. A command is then       *)
(* cancelled; a cancellation gives up.                                     *)
Cleanup(c) ==
    /\ pc[c] = "cleanup"
    /\ result' = Nobody
    /\ IF cancelling[c]
       THEN Return(c, "ETIMEDOUT") /\ UNCHANGED cancelling
       ELSE /\ cancelling' = [cancelling EXCEPT ![c] = TRUE]
            /\ Goto(c, "reserve")
            /\ UNCHANGED <<late, mutex, ret>>
    /\ UNCHANGED <<late, done, callNo, cmd, res, closing, device>>

(* A mutant: the reply to a cancellation is taken for the command's.       *)
CheckIgnoresAbort(c) ==
    /\ pc[c] = "check"
    /\ Return(c, IF res[c].cmd # cmd[c] THEN "EIO" ELSE res[c].status)
    /\ UNCHANGED <<late, result, done, callNo, cmd, cancelling, res, closing, device>>

(* The reply must be to the same command, cancelled or not; a cancellation *)
(* that got through is a timeout, one that did not has the real reply.     *)
Check(c) ==
    /\ pc[c] = "check"
    /\ Return(c, IF cancelling[c] /\ res[c].aborted THEN "ETIMEDOUT"
                 ELSE IF res[c].cmd # cmd[c] THEN "EIO"
                 ELSE res[c].status)
    /\ UNCHANGED <<late, result, done, callNo, cmd, cancelling, res, closing, device>>

(***************************************************************************)
(* bce_vhci_command_queue_deliver_completion, for the next event.  The     *)
(* event queues are destroyed before this one (vhci.c:71); an interrupt    *)
(* thread that is late may still be going through one of them.             *)
(***************************************************************************)
Deliver ==
    /\ events # <<>>
    /\ closing = "no" \/ late
    /\ events' = Tail(events)
    /\ IF result = Nobody
       THEN UNCHANGED <<late, result, done, res>>
       ELSE /\ res' = [res EXCEPT ![result] = Head(events)]
            /\ done' = done + 1
            /\ result' = Nobody
    /\ UNCHANGED <<late, mutex, pc, callNo, cmd, cancelling, ret, closing, msgs, working, executed>>

(***************************************************************************)
(* bce_vhci_command_queue_destroy. The host controller is gone; workers    *)
(* may still be inside a command, queue for the mutex, or begin another    *)
(* command. One that gets the mutex only after mutex_destroy still has it: *)
(* mutex_destroy does nothing unless mutexes are debugged.                 *)
(***************************************************************************)
DestroyAbort ==
    /\ closing = "no"
    /\ closing' = "aborted"
    /\ IF result = Nobody
       THEN UNCHANGED <<late, result, done, res>>
       ELSE /\ res' = [res EXCEPT ![result] = Zeroed]
            /\ done' = done + 1
            /\ result' = Nobody
    /\ UNCHANGED <<late, mutex, pc, callNo, cmd, cancelling, ret, device>>

(* mutex_lock, mutex_unlock, mutex_destroy.                                *)
DestroyMutex ==
    /\ closing = "aborted" /\ mutex = Nobody
    /\ closing' = "destroyed"
    /\ UNCHANGED <<late, cqVars, callVars, device>>

(***************************************************************************)
(* The device                                                              *)
(***************************************************************************)
Reply(r, aborted, status) == [to |-> r.from, cmd |-> r.cmd, aborted |-> aborted,
                              status |-> status]

(* It takes a command, or a cancellation that comes too late.              *)
TakeMessage ==
    /\ msgs # <<>>
    /\ msgs' = Tail(msgs)
    /\ working' = IF Head(msgs).cancel THEN working ELSE working \cup {Head(msgs)}
    /\ UNCHANGED <<late, cqVars, callVars, closing, events, executed>>

(* It honours a cancellation: one reply, for both messages.                *)
TakeCancellation ==
    /\ msgs # <<>> /\ Head(msgs).cancel
    /\ \E r \in working : /\ r.from = Head(msgs).from
                          /\ working' = working \ {r}
                          /\ events' = Append(events, Reply(r, TRUE, "success"))
    /\ msgs' = Tail(msgs)
    /\ UNCHANGED <<late, cqVars, callVars, closing, executed>>

(* It carries out a command, or fails to, and says so.                     *)
Execute(status) ==
    \E r \in working : /\ working' = working \ {r}
                       /\ events' = Append(events, Reply(r, FALSE, status))
                       /\ executed' = IF status = "success" THEN executed \cup {r.from}
                                      ELSE executed
                       /\ UNCHANGED <<late, cqVars, callVars, closing, msgs>>

Forget ==
    \E r \in working : /\ working' = working \ {r}
                       /\ UNCHANGED <<late, cqVars, callVars, closing, msgs, events, executed>>

Device == TakeMessage \/ TakeCancellation \/ Forget
          \/ \E status \in {"success", "error"} : Execute(status)

CallerStep(c) == \/ LockMutex(c) \/ ReserveSlot(c) \/ ReserveFails(c) \/ Register(c)
                 \/ WriteMessage(c) \/ Woken(c) \/ TimedOut(c) \/ Cleanup(c) \/ Check(c)

Next == \/ \E c \in Callers : CallerStep(c) \/ \E x \in Cmds : Begin(c, x)
        \/ Deliver \/ DestroyAbort \/ DestroyMutex \/ Device

Spec == Init /\ [][Next]_vars

(* Threads run, their timers expire, the mutex is handed on in turn; the   *)
(* device need not do anything.                                            *)
FairSpec == /\ Spec
            /\ \A c \in Callers : SF_vars(CallerStep(c))
            /\ SF_vars(DestroyMutex)

(***************************************************************************)
(* Properties                                                              *)
(***************************************************************************)
Succeeded(c) == pc[c] = "idle" /\ ret[c] = "success"

(* A command that succeeds was carried out by the device, provided that it *)
(* does not answer a command after its cancellation timed out: this very   *)
(* command and not an earlier one that timed out, was cancelled or lost    *)
(* its reply.                                                              *)
SuccessIsReal == ~late => \A c \in Callers : Succeeded(c) => Call(c) \in executed

(* The registered buffer is that of the caller that holds the mutex and is *)
(* between registering it and withdrawing it: the interrupt thread never   *)
(* writes to the stack of a call that is over.                             *)
NoDanglingResult ==
    result # Nobody => mutex = result /\ pc[result] \in {"write", "wait", "cleanup"}

(* Every command returns, and so does the destruction of the queue, with a *)
(* device that may do anything at any time or nothing at all.              *)
EveryCallReturns ==
    /\ \A c \in Callers : late /\ pc[c] = "mutex" ~> pc[c] = "idle"
    /\ late /\ closing = "aborted" ~> closing = "destroyed"
=============================================================================
