----------------------- MODULE VhciCommandQueueProofs -----------------------
(***************************************************************************)
(* Proofs about VhciCommandQueue for any set of callers, any command codes,*)
(* any number of calls and any ring of three slots or more.                *)
(*                                                                         *)
(* The safety of the reply buffer rests on the mutex and on the completion *)
(* being armed only while the buffer is registered.  That a success is     *)
(* real rests on a token: while the device is not late there is at most    *)
(* one command in flight, that of the call that holds the mutex, be it in  *)
(* the message queue, with the device or on its way back; and the message  *)
(* queue holds no more than one cancellation left over from the call       *)
(* before, that command and its own cancellation, so that a cancellation   *)
(* always finds a slot.                                                    *)
(***************************************************************************)
EXTENDS VhciCommandQueue, SequenceTheorems, TLAPS

-----------------------------------------------------------------------------
(* The mutex and the completion                                            *)

(* The holder of the mutex is the one caller inside execute.               *)
Owner == \A c \in Callers : pc[c] \in InExecute <=> mutex = c

(* A registered buffer has not been filled yet.                            *)
Armed == result # Nobody => done = 0

(* The slot that was reserved is still there when the message is written.  *)
Room == \A c \in Callers : pc[c] \in {"register", "write"} => Len(msgs) < Slots

(* A call under way has a number and a command.                            *)
Numbered == \A c \in Callers :
                pc[c] # "idle" => callNo[c] \in 1..MaxCalls /\ cmd[c] \in Cmds

SafeInv == TypeOK /\ Owner /\ Armed /\ Room /\ Numbered /\ NoDanglingResult

-----------------------------------------------------------------------------
(* The command in flight                                                   *)

Command(c) == [from |-> Call(c), cmd |-> cmd[c], cancel |-> FALSE]

(* Nothing is in flight; a cancellation may be left in the message queue.  *)
Quiet == /\ Len(msgs) <= 1 /\ \A i \in DOMAIN msgs : msgs[i].cancel
         /\ working = {} /\ events = <<>>

(* The first n messages are the command of c, which the device has not     *)
(* seen, perhaps behind one cancellation; or there are none.               *)
Sent(c, n) ==
    n = 0 \/ /\ n <= 2 /\ msgs[n] = Command(c)
             /\ \A i \in 1..(n - 1) : msgs[i].cancel
             /\ working = {} /\ events = <<>>

(* After them comes the cancellation of c; or there is no message at all.  *)
Cancelled(c) ==
    msgs = <<>> \/ /\ msgs[Len(msgs)].cancel
                   /\ msgs[Len(msgs)].from = Call(c)
                   /\ Sent(c, Len(msgs) - 1)

(* What the device has, or has answered, is the command of c.              *)
Answering(c) ==
    /\ working \subseteq {Command(c)}
    /\ working # {} => events = <<>>
    /\ Len(events) <= 1
    /\ \A i \in DOMAIN events :
          /\ events[i].to = Call(c)
          /\ events[i].aborted => cancelling[c]
          /\ events[i].status = "success" /\ ~events[i].aborted => Call(c) \in executed

Waiting == {"wait", "cleanup", "check"}

InFlight(c) ==
    /\ ~cancelling[c] /\ pc[c] \notin Waiting => Quiet
    /\ cancelling[c] \/ pc[c] \in Waiting => Answering(c)
    /\ ~cancelling[c] /\ pc[c] \in Waiting => Sent(c, Len(msgs))
    /\ cancelling[c] /\ pc[c] \notin Waiting => Sent(c, Len(msgs))
    /\ cancelling[c] /\ pc[c] \in Waiting => Cancelled(c)
    /\ cancelling[c] /\ pc[c] = "cleanup" => Quiet
    /\ pc[c] = "check" => Quiet
    /\ done > 0 /\ (cancelling[c] \/ pc[c] \in Waiting) => Quiet
    /\ ~cancelling[c] /\ pc[c] = "write" => done = 0

(* Nothing is delivered any more once the queue is being destroyed.        *)
Flight(c) == closing = "no" => InFlight(c)

(* A reply that is not a destroyed queue's says what became of the command.*)
Honest(c) ==
    res[c].cmd # NoCmd =>
        /\ res[c].aborted => cancelling[c]
        /\ res[c].status = "success" /\ ~res[c].aborted => Call(c) \in executed

TokenInv ==
    /\ \A c \in Callers : pc[c] = "mutex" => res[c] = Unset /\ ~cancelling[c]
    /\ mutex = Nobody /\ closing = "no" => Quiet
    /\ mutex # Nobody => Flight(mutex) /\ Honest(mutex)
    /\ \A c \in Callers : Succeeded(c) => Call(c) \in executed

IInv == SafeInv /\ (~late => TokenInv)

-----------------------------------------------------------------------------
(* Requests and replies are well formed.                                   *)
LEMMA RequestType ==
    ASSUME TypeOK, Numbered, NEW c \in Callers, pc[c] # "idle"
    PROVE  /\ Call(c) \in Calls
           /\ \A b \in BOOLEAN : [from |-> Call(c), cmd |-> cmd[c], cancel |-> b] \in Requests
BY DEF TypeOK, Numbered, Call, Calls, Requests

LEMMA ReplyType ==
    ASSUME NEW r \in Requests, NEW aborted \in BOOLEAN, NEW status \in {"success", "error"}
    PROVE  Reply(r, aborted, status) \in Replies
BY DEF Reply, Replies, Requests

LEMMA UnsetType == Unset \in Replies
BY DEF Unset, Replies

LEMMA SafeInit == Init => SafeInv
BY VhciCommandQueueAssumption, UnsetType
   DEF Init, SafeInv, TypeOK, Owner, Armed, Room, Numbered, NoDanglingResult,
       InExecute, Returns

(* Before the message is written, and once the wait is over.               *)
LEMMA CallerSafe ==
    ASSUME SafeInv, NEW c \in Callers,
           \/ LockMutex(c) \/ ReserveSlot(c) \/ ReserveFails(c) \/ Register(c)
           \/ Woken(c) \/ TimedOut(c) \/ Cleanup(c) \/ Check(c)
    PROVE  SafeInv'
<1> USE VhciCommandQueueAssumption
    DEF SafeInv, TypeOK, Owner, Armed, Room, Numbered, NoDanglingResult,
        InExecute, Returns, Goto
<1>1. CASE LockMutex(c)
  BY <1>1 DEF LockMutex, device
<1>2. CASE ReserveSlot(c)
  BY <1>2 DEF ReserveSlot, cqVars, device
<1>3. CASE ReserveFails(c)
  BY <1>3 DEF ReserveFails, Return, device
<1>4. CASE Register(c)
  BY <1>4 DEF Register, device
<1>5. CASE Woken(c)
  BY <1>5 DEF Woken, device
<1>6. CASE TimedOut(c)
  BY <1>6 DEF TimedOut, cqVars, device
<1>7. CASE Cleanup(c)
  <2>1. TypeOK'
    BY <1>7 DEF Cleanup, Return, device
  <2>2. Owner' /\ Armed' /\ NoDanglingResult'
    BY <1>7 DEF Cleanup, Return, device
  <2>3. Room' /\ Numbered'
    BY <1>7 DEF Cleanup, Return, device
  <2> QED
    BY <2>1, <2>2, <2>3
<1>8. CASE Check(c)
  BY <1>8 DEF Check, Return, device, Replies
<1> QED
  BY <1>1, <1>2, <1>3, <1>4, <1>5, <1>6, <1>7, <1>8

LEMMA BeginSafe ==
    ASSUME SafeInv, NEW c \in Callers, NEW x \in Cmds, Begin(c, x)
    PROVE  SafeInv'
<1> USE VhciCommandQueueAssumption, UnsetType
    DEF SafeInv, TypeOK, InExecute, Returns, Goto, Begin, cqVars, device
<1>1. callNo[c] + 1 \in 1..MaxCalls
  OBVIOUS
<1>2. TypeOK'
  BY <1>1
<1>3. Owner' /\ Armed' /\ Room' /\ NoDanglingResult'
  BY DEF Owner, Armed, Room, NoDanglingResult
<1>4. Numbered'
  BY <1>1 DEF Numbered
<1> QED
  BY <1>2, <1>3, <1>4

LEMMA WriteSafe ==
    ASSUME SafeInv, NEW c \in Callers, WriteMessage(c)
    PROVE  SafeInv'
<1> DEFINE m == [from |-> Call(c), cmd |-> cmd[c], cancel |-> cancelling[c]]
<1>1. m \in Requests
  BY RequestType DEF SafeInv, WriteMessage, TypeOK
<1>2. msgs' \in Seq(Requests) /\ Len(msgs') = Len(msgs) + 1
  BY <1>1, AppendProperties DEF SafeInv, TypeOK, WriteMessage
<1>3. Len(msgs) < Slots /\ Len(msgs) \in Nat
  BY DEF SafeInv, Room, WriteMessage, TypeOK
<1>4. TypeOK'
  BY <1>2, <1>3, VhciCommandQueueAssumption
     DEF SafeInv, TypeOK, WriteMessage, Goto, cqVars, InExecute
<1>5. Owner' /\ Armed' /\ Numbered' /\ NoDanglingResult'
  BY DEF SafeInv, TypeOK, Owner, Armed, Numbered, NoDanglingResult, InExecute,
         WriteMessage, Goto, cqVars
<1>6. Room'
  BY VhciCommandQueueAssumption
     DEF SafeInv, TypeOK, Owner, Room, InExecute, WriteMessage, Goto, cqVars
<1> QED
  BY <1>4, <1>5, <1>6 DEF SafeInv

(* The two functions that fill the registered buffer.                      *)
LEMMA FillSafe ==
    ASSUME SafeInv, Deliver \/ DestroyAbort \/ DestroyMutex
    PROVE  SafeInv'
<1> USE VhciCommandQueueAssumption DEF SafeInv
<1>1. CASE Deliver
  <2>1. Head(events) \in Replies /\ events' \in Seq(Replies)
    BY <1>1, HeadTailProperties DEF Deliver, TypeOK
  <2>2. done' \in 0..1 /\ result' = Nobody
    BY <1>1 DEF Deliver, TypeOK, Armed
  <2>3. res' \in [Callers -> Replies]
    BY <1>1, <2>1 DEF Deliver, TypeOK
  <2>4. UNCHANGED <<late, mutex, pc, callNo, cmd, cancelling, ret, closing, msgs,
                    working, executed>>
    BY <1>1 DEF Deliver
  <2> QED
    BY <2>1, <2>2, <2>3, <2>4 DEF TypeOK, Owner, Armed, Room, Numbered, NoDanglingResult
<1>2. CASE DestroyAbort
  <2>1. done' \in 0..1 /\ result' = Nobody
    BY <1>2 DEF DestroyAbort, TypeOK, Armed
  <2>3. res' \in [Callers -> Replies]
    BY <1>2, UnsetType DEF DestroyAbort, Zeroed, TypeOK
  <2>2. /\ UNCHANGED <<late, mutex, pc, callNo, cmd, cancelling, ret, device>>
        /\ closing' = "aborted"
    BY <1>2 DEF DestroyAbort
  <2> QED
    BY <2>1, <2>2, <2>3
       DEF TypeOK, Owner, Armed, Room, Numbered, NoDanglingResult, device
<1>3. CASE DestroyMutex
  BY <1>3 DEF DestroyMutex, cqVars, callVars, device, TypeOK, Owner, Armed, Room,
              Numbered, NoDanglingResult
<1> QED
  BY <1>1, <1>2, <1>3

(* The device changes only the sequences.                                  *)
LEMMA DeviceSafe ==
    ASSUME SafeInv, Device
    PROVE  SafeInv'
<1>1. /\ UNCHANGED <<late, cqVars, callVars, closing>>
  BY DEF Device, TakeMessage, TakeCancellation, Execute, Forget
<1>2. /\ msgs' \in Seq(Requests) /\ Len(msgs') <= Len(msgs)
      /\ working' \in SUBSET Requests /\ events' \in Seq(Replies)
      /\ executed' \in SUBSET Calls
  <2> USE DEF SafeInv, TypeOK
  <2>1. CASE TakeMessage
    BY <2>1, HeadTailProperties DEF TakeMessage
  <2>2. CASE TakeCancellation
    <3>1. PICK r \in working : events' = Append(events, Reply(r, TRUE, "success"))
                               /\ working' = working \ {r}
      BY <2>2 DEF TakeCancellation
    <3>2. Reply(r, TRUE, "success") \in Replies
      BY ReplyType
    <3>3. events' \in Seq(Replies)
      BY <3>1, <3>2, AppendProperties
    <3>4. msgs' \in Seq(Requests) /\ Len(msgs') <= Len(msgs)
      BY <2>2, HeadTailProperties, LenProperties DEF TakeCancellation
    <3> QED
      BY <2>2, <3>1, <3>3, <3>4 DEF TakeCancellation
  <2>3. ASSUME NEW status \in {"success", "error"}, Execute(status)
        PROVE  /\ msgs' = msgs /\ working' \in SUBSET Requests
               /\ events' \in Seq(Replies) /\ executed' \in SUBSET Calls
    <3>1. PICK r \in working : /\ events' = Append(events, Reply(r, FALSE, status))
                               /\ working' = working \ {r} /\ msgs' = msgs
                               /\ executed' = IF status = "success"
                                              THEN executed \cup {r.from} ELSE executed
      BY <2>3 DEF Execute
    <3>2. r.from \in Calls
      BY <3>1 DEF Requests
    <3> QED
      BY <3>1, <3>2, ReplyType, AppendProperties
  <2>4. CASE Forget
    BY <2>4 DEF Forget
  <2> QED
    BY <2>1, <2>2, <2>3, <2>4, LenProperties DEF Device
<1>3. TypeOK'
  BY <1>1, <1>2, VhciCommandQueueAssumption, LenProperties
     DEF SafeInv, TypeOK, cqVars, callVars
<1>4. Owner' /\ Armed' /\ Numbered' /\ NoDanglingResult'
  BY <1>1 DEF SafeInv, Owner, Armed, Numbered, NoDanglingResult, cqVars, callVars
<1>5. Room'
  BY <1>1, <1>2, VhciCommandQueueAssumption, LenProperties
     DEF SafeInv, TypeOK, Room, callVars
<1> QED
  BY <1>3, <1>4, <1>5 DEF SafeInv

LEMMA SafeNext == SafeInv /\ [Next]_vars => SafeInv'
<1> SUFFICES ASSUME SafeInv, [Next]_vars PROVE SafeInv'
  OBVIOUS
<1>1. ASSUME NEW c \in Callers, CallerStep(c) PROVE SafeInv'
  BY <1>1, CallerSafe, WriteSafe DEF CallerStep
<1>2. ASSUME NEW c \in Callers, NEW x \in Cmds, Begin(c, x) PROVE SafeInv'
  BY <1>2, BeginSafe
<1>3. CASE Deliver \/ DestroyAbort \/ DestroyMutex
  BY <1>3, FillSafe
<1>4. CASE Device
  BY <1>4, DeviceSafe
<1>5. CASE UNCHANGED vars
  BY <1>5 DEF vars, cqVars, callVars, device, SafeInv, TypeOK, Owner, Armed, Room,
              Numbered, NoDanglingResult
<1> QED
  BY <1>1, <1>2, <1>3, <1>4, <1>5 DEF Next

-----------------------------------------------------------------------------
LEMMA TokenInit == Init => TokenInv
BY DEF Init, TokenInv, Quiet, Succeeded

(* Steps of a caller that leave the device and the mutex alone.            *)
LEMMA WalkToken ==
    ASSUME SafeInv, TokenInv, ~late, NEW c \in Callers,
           \/ ReserveSlot(c) \/ Register(c) \/ Woken(c)
    PROVE  TokenInv'
<1>1. /\ mutex = c /\ mutex # Nobody /\ Flight(c) /\ Honest(c)
      /\ pc \in [Callers -> InExecute \cup {"idle", "mutex"}]
  BY VhciCommandQueueAssumption
     DEF SafeInv, TypeOK, Owner, InExecute, TokenInv, ReserveSlot, Register, Woken
<1>2. /\ UNCHANGED <<mutex, callNo, cmd, cancelling, res, ret, closing, device>>
      /\ pc' \in [Callers -> InExecute \cup {"idle", "mutex"}]
      /\ pc'[c] \in {"register", "write", "check"}
      /\ \A d \in Callers : d # c => pc'[d] = pc[d]
  BY <1>1 DEF ReserveSlot, Register, Woken, Goto, cqVars, InExecute
<1>3. Flight(c)'
  <2> USE <1>1, <1>2 DEF Flight, InFlight, Quiet, Answering, Sent, Cancelled, Command, Call,
                         Waiting, device, Goto
  <2>1. CASE ReserveSlot(c)
    BY <2>1 DEF ReserveSlot, cqVars
  <2>2. CASE Register(c)
    BY <2>2 DEF Register
  <2>3. CASE Woken(c)
    BY <2>3 DEF Woken, SafeInv, TypeOK
  <2> QED
    BY <2>1, <2>2, <2>3
<1>4. Honest(c)'
  BY <1>1, <1>2 DEF Honest, Call, device
<1> QED
  BY <1>1, <1>2, <1>3, <1>4 DEF TokenInv, Succeeded, Call, device

(* A cancellation times out when nothing of its call is left anywhere.     *)
LEMMA TimedOutToken ==
    ASSUME SafeInv, TokenInv, ~late, NEW c \in Callers, TimedOut(c)
    PROVE  TokenInv'
<1>1. /\ mutex = c /\ mutex # Nobody /\ Flight(c) /\ Honest(c)
      /\ pc \in [Callers -> InExecute \cup {"idle", "mutex"}]
      /\ msgs \in Seq(Requests) /\ events \in Seq(Replies)
  BY VhciCommandQueueAssumption
     DEF SafeInv, TypeOK, Owner, InExecute, TokenInv, TimedOut
<1>2. /\ UNCHANGED <<mutex, done, callNo, cmd, cancelling, res, ret, closing, device>>
      /\ pc[c] = "wait" /\ pc' = [pc EXCEPT ![c] = "cleanup"]
  BY DEF TimedOut, cqVars, Goto
<1>3. ASSUME cancelling[c], closing = "no" PROVE Quiet
  <2>1. ~Outstanding(Call(c)) /\ Answering(c) /\ Cancelled(c)
    BY <1>1, <1>2, <1>3 DEF TimedOut, Flight, InFlight, Waiting
  <2>2. msgs = <<>>
    BY <1>1, <2>1, EmptySeq, LenProperties DEF Outstanding, Cancelled
  <2>3. working = {}
    BY <2>1 DEF Outstanding, Answering, Command
  <2>4. events = <<>>
    BY <1>1, <2>1, EmptySeq, LenProperties DEF Outstanding, Answering
  <2> QED
    BY <2>2, <2>3, <2>4 DEF Quiet
<1>4. Flight(c)'
  BY <1>1, <1>2, <1>3 DEF Flight, InFlight, Quiet, Answering, Sent, Cancelled, Command, Call,
                          Waiting, device
<1>5. Honest(c)'
  BY <1>1, <1>2 DEF Honest, Call, device
<1> QED
  BY <1>1, <1>2, <1>4, <1>5 DEF TokenInv, Succeeded, Call, device

LEMMA BeginToken ==
    ASSUME SafeInv, TokenInv, ~late, NEW c \in Callers, NEW x \in Cmds, Begin(c, x)
    PROVE  TokenInv'
<1>1. /\ pc[c] = "idle" /\ c # mutex
      /\ UNCHANGED <<mutex, result, done, ret, closing, device>>
      /\ pc' = [pc EXCEPT ![c] = "mutex"] /\ res' = [res EXCEPT ![c] = Unset]
      /\ callNo' = [callNo EXCEPT ![c] = @ + 1] /\ cmd' = [cmd EXCEPT ![c] = x]
      /\ cancelling' = [cancelling EXCEPT ![c] = FALSE]
  BY DEF Begin, SafeInv, Owner, InExecute, Goto, cqVars
<1>2. ASSUME NEW h \in Callers, mutex = h, mutex # Nobody
      PROVE  Flight(h)' /\ Honest(h)'
  <2>1. Flight(h) /\ Honest(h) /\ h # c
    BY <1>1, <1>2 DEF TokenInv
  <2>2. /\ pc'[h] = pc[h] /\ callNo'[h] = callNo[h] /\ cmd'[h] = cmd[h]
        /\ cancelling'[h] = cancelling[h] /\ res'[h] = res[h]
    BY <1>1, <2>1 DEF SafeInv, TypeOK
  <2>3. Call(h)' = Call(h) /\ Command(h)' = Command(h)
    BY <2>2 DEF Call, Command
  <2>4. /\ Quiet' <=> Quiet
        /\ Answering(h)' <=> Answering(h)
        /\ Sent(h, Len(msgs))' <=> Sent(h, Len(msgs))
        /\ Cancelled(h)' <=> Cancelled(h)
    BY <1>1, <2>2, <2>3 DEF Quiet, Answering, Sent, Cancelled, device
  <2>5. Flight(h)'
    BY <1>1, <2>1, <2>2, <2>4 DEF Flight, InFlight
  <2>6. Honest(h)'
    BY <1>1, <2>1, <2>2, <2>3 DEF Honest, device
  <2> QED
    BY <2>5, <2>6
<1>3. \A d \in Callers : pc'[d] = "mutex" => res'[d] = Unset /\ ~cancelling'[d]
  BY <1>1 DEF SafeInv, TypeOK, TokenInv
<1>4. \A d \in Callers : Succeeded(d)' => Call(d)' \in executed'
  BY <1>1 DEF SafeInv, TypeOK, TokenInv, Succeeded, Call, device
<1>5. mutex' # Nobody => Flight(mutex)' /\ Honest(mutex)'
  BY <1>1, <1>2 DEF SafeInv, TypeOK
<1> QED
  BY <1>1, <1>3, <1>4, <1>5 DEF TokenInv, Quiet, device

LEMMA LockToken ==
    ASSUME SafeInv, TokenInv, ~late, NEW c \in Callers, LockMutex(c)
    PROVE  TokenInv'
<1>1. /\ mutex = Nobody /\ mutex' = c /\ (closing = "no" => Quiet)
      /\ UNCHANGED <<result, done, callNo, cmd, cancelling, res, ret, closing, device>>
      /\ pc' = [pc EXCEPT ![c] = "reserve"]
      /\ res[c] = Unset /\ ~cancelling[c]
  BY DEF LockMutex, TokenInv, Goto
<1>2. Flight(c)' /\ Honest(c)'
  BY <1>1 DEF SafeInv, TypeOK, Flight, InFlight, Waiting, Honest, Unset, Quiet, device
<1>3. pc' \in [Callers -> InExecute \cup {"idle", "mutex"}]
      /\ \A d \in Callers : d # c => pc'[d] = pc[d]
  BY <1>1 DEF SafeInv, TypeOK, InExecute
<1>4. /\ \A d \in Callers : pc'[d] = "mutex" => res'[d] = Unset /\ ~cancelling'[d]
      /\ \A d \in Callers : Succeeded(d)' => Call(d)' \in executed'
  BY <1>1, <1>3 DEF SafeInv, TypeOK, TokenInv, Succeeded, Call, device
<1>5. mutex' = c /\ c # Nobody
  BY <1>1, VhciCommandQueueAssumption
<1> QED
  BY <1>2, <1>4, <1>5 DEF TokenInv

(* A caller that leaves execute has nothing in flight, unless the queue is *)
(* closed; if it succeeds, its reply was honest.                           *)
LEMMA LeaveToken ==
    ASSUME SafeInv, TokenInv, ~late, NEW c \in Callers,
           \/ ReserveFails(c) \/ Check(c) \/ (Cleanup(c) /\ cancelling[c])
    PROVE  TokenInv'
<1>1. /\ mutex = c /\ mutex # Nobody /\ Flight(c) /\ Honest(c)
      /\ pc[c] \in InExecute
  BY VhciCommandQueueAssumption
     DEF SafeInv, TypeOK, Owner, InExecute, TokenInv, ReserveFails, Check, Cleanup
<1>2. PICK r : Return(c, r)
  BY DEF ReserveFails, Check, Cleanup
<1>3. UNCHANGED <<callNo, cmd, cancelling, res, closing, device>>
  BY DEF ReserveFails, Check, Cleanup
<1>4. closing = "no" => Quiet
  <2> SUFFICES ASSUME closing = "no"
               PROVE  Quiet
    OBVIOUS
  <2>1. CASE ReserveFails(c)
    <3>1. pc[c] = "reserve" /\ Len(msgs) = Slots
      BY <2>1 DEF ReserveFails
    <3>2. ~cancelling[c]
      BY <1>1, <3>1, VhciCommandQueueAssumption DEF Flight, InFlight, Sent, Waiting
    <3> QED
      BY <1>1, <3>1, <3>2 DEF Flight, InFlight, Waiting
  <2>2. CASE Check(c)
    BY <1>1, <2>2 DEF Check, Flight, InFlight, InFlight
  <2>3. CASE Cleanup(c) /\ cancelling[c]
    BY <1>1, <2>3 DEF Cleanup, Flight, InFlight, InFlight
  <2> QED
    BY <2>1, <2>2, <2>3
<1>5. r = "success" => Call(c) \in executed
  <2>1. CASE ReserveFails(c)
    BY <1>2, <2>1 DEF ReserveFails, Return, SafeInv, TypeOK
  <2>2. CASE Check(c)
    <3>1. cmd[c] # NoCmd
      BY <1>1, VhciCommandQueueAssumption DEF SafeInv, Numbered, InExecute
    <3>2. r = IF cancelling[c] /\ res[c].aborted THEN "ETIMEDOUT"
              ELSE IF res[c].cmd # cmd[c] THEN "EIO" ELSE res[c].status
      BY <1>2, <2>2 DEF Check, Return, SafeInv, TypeOK
    <3> QED
      BY <1>1, <3>1, <3>2 DEF Honest
  <2>3. CASE Cleanup(c) /\ cancelling[c]
    BY <1>2, <2>3 DEF Cleanup, Return, SafeInv, TypeOK
  <2> QED
    BY <2>1, <2>2, <2>3
<1> QED
  BY <1>1, <1>2, <1>3, <1>4, <1>5
     DEF Return, Goto, SafeInv, TypeOK, TokenInv, Succeeded, Call, device, Quiet

(* The command is cancelled.                                               *)
LEMMA CancelToken ==
    ASSUME SafeInv, TokenInv, ~late, NEW c \in Callers, Cleanup(c), ~cancelling[c]
    PROVE  TokenInv'
<1>1. /\ mutex = c /\ mutex # Nobody /\ Flight(c) /\ Honest(c) /\ pc[c] = "cleanup"
      /\ pc \in [Callers -> InExecute \cup {"idle", "mutex"}]
      /\ cancelling \in [Callers -> BOOLEAN]
  BY VhciCommandQueueAssumption
     DEF SafeInv, TypeOK, Owner, InExecute, TokenInv, Cleanup
<1>2. /\ UNCHANGED <<mutex, done, callNo, cmd, res, ret, closing, device>>
      /\ cancelling' = [cancelling EXCEPT ![c] = TRUE]
      /\ pc' = [pc EXCEPT ![c] = "reserve"]
  BY DEF Cleanup, Goto
<1>3. Flight(c)'
  BY <1>1, <1>2 DEF Flight, InFlight, Quiet, Answering, Sent, Command, Call, Waiting, device
<1>4. Honest(c)'
  BY <1>1, <1>2 DEF Honest, Call, device
<1> QED
  BY <1>1, <1>2, <1>3, <1>4 DEF TokenInv, Succeeded, Call, device

LEMMA WriteToken ==
    ASSUME SafeInv, TokenInv, ~late, NEW c \in Callers, WriteMessage(c)
    PROVE  TokenInv'
<1> DEFINE m == [from |-> Call(c), cmd |-> cmd[c], cancel |-> cancelling[c]]
<1>1. /\ mutex = c /\ mutex # Nobody /\ Flight(c) /\ Honest(c) /\ pc[c] = "write"
      /\ pc \in [Callers -> InExecute \cup {"idle", "mutex"}]
      /\ cancelling \in [Callers -> BOOLEAN]
  BY VhciCommandQueueAssumption
     DEF SafeInv, TypeOK, Owner, InExecute, TokenInv, WriteMessage
<1>2. /\ UNCHANGED <<mutex, done, callNo, cmd, cancelling, res, ret, closing,
                      working, events, executed>>
      /\ pc' = [pc EXCEPT ![c] = "wait"] /\ msgs' = Append(msgs, m)
  BY DEF WriteMessage, Goto, cqVars
<1>3. msgs \in Seq(Requests) /\ m \in Requests
  BY <1>1, RequestType DEF SafeInv, TypeOK
<1>4. /\ Len(msgs) \in Nat /\ Len(msgs') = Len(msgs) + 1 /\ msgs' # <<>>
      /\ \A i \in 1..Len(msgs) : msgs'[i] = msgs[i]
      /\ msgs'[Len(msgs) + 1] = m
      /\ DOMAIN msgs = 1..Len(msgs) /\ DOMAIN msgs' = 1..(Len(msgs) + 1)
  BY <1>2, <1>3, AppendProperties, LenProperties
<1>5. CASE closing # "no"
  BY <1>1, <1>2, <1>5 DEF TokenInv, Flight, Honest, Succeeded, Call
<1>6. CASE closing = "no"
  <2>1. InFlight(c)
    BY <1>1, <1>6 DEF Flight
  <2>2. Answering(c)'
    <3>1. CASE ~cancelling[c]
      <4>1. Quiet
        BY <1>1, <2>1, <3>1 DEF InFlight, Waiting
      <4>2. working' = {} /\ events' = <<>>
        BY <1>2, <4>1 DEF Quiet
      <4> QED
        BY <4>2, EmptySeq DEF Answering
    <3>2. CASE cancelling[c]
      BY <1>1, <1>2, <2>1, <3>2 DEF InFlight, Answering, Command, Call
    <3> QED
      BY <3>1, <3>2
  <2>3. ASSUME ~cancelling[c] PROVE InFlight(c)'
    <3>1. Quiet /\ done = 0
      BY <1>1, <2>1, <2>3 DEF InFlight, Waiting
    <3>2. m = Command(c)
      BY <2>3, <1>1 DEF Command
    <3>3. Sent(c, Len(msgs))'
      BY <1>2, <1>4, <3>1, <3>2 DEF Sent, Quiet, Command, Call
    <3> QED
      BY <1>1, <1>2, <2>2, <2>3, <3>1, <3>3 DEF InFlight, Waiting
  <2>4. ASSUME cancelling[c] PROVE InFlight(c)'
    <3>1. Sent(c, Len(msgs))
      BY <1>1, <2>1, <2>4 DEF InFlight, Waiting
    <3>2. Cancelled(c)'
      <4>1. msgs'[Len(msgs')].cancel /\ msgs'[Len(msgs')].from = Call(c)'
        BY <1>2, <1>4, <2>4 DEF Call
      <4>2. CASE Len(msgs) = 0
        BY <1>4, <4>1, <4>2 DEF Cancelled, Sent
      <4>3. CASE Len(msgs) # 0
        <5>1. /\ Len(msgs) <= 2 /\ msgs'[Len(msgs)] = Command(c)
              /\ \A i \in 1..(Len(msgs) - 1) : msgs'[i].cancel
              /\ working = {} /\ events = <<>>
          BY <1>4, <3>1, <4>3 DEF Sent
        <5>2. Len(msgs') - 1 = Len(msgs) /\ Command(c)' = Command(c)
          BY <1>2, <1>4 DEF Command, Call
        <5> QED
          BY <1>2, <4>1, <5>1, <5>2 DEF Cancelled, Sent
      <4> QED
        BY <4>2, <4>3
    <3>3. Quiet => Quiet'
      BY <1>2, <1>4, <2>4, <3>1 DEF Quiet, Sent, Command
    <3> QED
      BY <1>1, <1>2, <2>1, <2>2, <2>4, <3>2, <3>3 DEF InFlight, Waiting
  <2>5. InFlight(c)'
    BY <2>3, <2>4
  <2> QED
    BY <1>1, <1>2, <2>5 DEF TokenInv, Flight, Honest, Succeeded, Call
<1> QED
  BY <1>5, <1>6

(* A reply can only be delivered to the call that holds the mutex, and     *)
(* leaves nothing in flight.                                               *)
LEMMA DeliverToken ==
    ASSUME SafeInv, TokenInv, ~late, Deliver
    PROVE  TokenInv'
<1>1. /\ events # <<>> /\ events \in Seq(Replies) /\ msgs \in Seq(Requests)
      /\ events' = Tail(events)
      /\ UNCHANGED <<mutex, pc, callNo, cmd, cancelling, ret, closing, msgs, working,
                      executed>>
  BY DEF Deliver, SafeInv, TypeOK
<1>2. ~Quiet /\ closing = "no"
  BY <1>1 DEF Quiet, Deliver
<1>3. ASSUME NEW h \in Callers, mutex = h, mutex # Nobody
      PROVE  Flight(h)' /\ Honest(h)'
  <2>1. InFlight(h) /\ Honest(h)
    BY <1>2, <1>3 DEF TokenInv, Flight
  <2>2. Answering(h) /\ (cancelling[h] \/ pc[h] \in Waiting)
    BY <1>2, <2>1 DEF Flight, InFlight
  <2>3. Len(events) = 1 /\ DOMAIN events = {1} /\ Head(events) = events[1]
    <3>1. Len(events) \in Nat \ {0} /\ DOMAIN events = 1..Len(events)
      BY <1>1, LenProperties, EmptySeq
    <3>2. Len(events) <= 1
      BY <2>2 DEF Answering
    <3> QED
      BY <1>1, <3>1, <3>2
  <2>4. events' = <<>>
    BY <1>1, <2>3, HeadTailProperties, EmptySeq
  <2>5. working = {}
    BY <1>1, <2>2 DEF Answering
  <2>6. Len(msgs) = 0 \/ Cancelled(h)
    BY <1>1, <2>1, <2>2 DEF Flight, InFlight, Sent
  <2>7. Len(msgs) <= 1 /\ \A i \in DOMAIN msgs : msgs[i].cancel
    BY <1>1, <2>6, LenProperties DEF Cancelled, Sent
  <2>8. Quiet'
    BY <1>1, <2>4, <2>5, <2>7 DEF Quiet
  <2>9. Answering(h)'
    BY <1>1, <2>4, <2>5 DEF Answering
  <2>10. /\ Sent(h, Len(msgs)) => Sent(h, Len(msgs))'
         /\ Cancelled(h) => Cancelled(h)'
    BY <1>1, <2>4 DEF Sent, Cancelled, Command, Call
  <2>11. Flight(h)'
    BY <1>1, <1>2, <2>1, <2>2, <2>8, <2>9, <2>10 DEF Flight, InFlight, Waiting
  <2>12. CASE result = Nobody
    BY <1>1, <2>1, <2>11, <2>12 DEF Deliver, Honest, Call
  <2>13. CASE result # Nobody
    <3>1. result = h
      BY <1>3, <2>13 DEF SafeInv, NoDanglingResult
    <3>2. res'[h] = events[1]
      BY <2>3, <2>13, <3>1 DEF Deliver, SafeInv, TypeOK
    <3>3. Honest(h)'
      BY <1>1, <2>2, <2>3, <3>2 DEF Honest, Answering, Call
    <3> QED
      BY <2>11, <3>3
  <2> QED
    BY <2>12, <2>13
<1>4. mutex' # Nobody => Flight(mutex)' /\ Honest(mutex)'
  BY <1>1, <1>3 DEF SafeInv, TypeOK
<1>5. \A d \in Callers : pc'[d] = "mutex" => res'[d] = res[d]
  BY <1>1 DEF Deliver, SafeInv, TypeOK, NoDanglingResult
<1>6. \A d \in Callers : pc'[d] = "mutex" => res'[d] = Unset /\ ~cancelling'[d]
  BY <1>1, <1>5 DEF TokenInv
<1> QED
  BY <1>1, <1>2, <1>4, <1>6 DEF TokenInv, Succeeded, Call

(* The reply made up by a queue that is destroyed says nothing.            *)
LEMMA DestroyToken ==
    ASSUME SafeInv, TokenInv, ~late, DestroyAbort \/ DestroyMutex
    PROVE  TokenInv'
<1>1. /\ closing' # "no"
      /\ UNCHANGED <<mutex, pc, callNo, cmd, cancelling, ret, device>>
      /\ \A c \in Callers : pc[c] = "mutex" => res'[c] = res[c]
  BY DEF DestroyAbort, DestroyMutex, cqVars, callVars, SafeInv, TypeOK, NoDanglingResult
<1>2. ASSUME NEW h \in Callers, mutex = h, mutex # Nobody
      PROVE  Flight(h)' /\ Honest(h)'
  <2>1. Flight(h) /\ Honest(h)
    BY <1>2 DEF TokenInv
  <2>2. Flight(h)'
    BY <1>1, <2>1 DEF Flight, InFlight, Quiet, Answering, Sent, Cancelled, Command, Call, device
  <2>3. res'[h] = res[h] \/ res'[h] = Unset
    BY DEF DestroyAbort, DestroyMutex, Zeroed, callVars, SafeInv, TypeOK
  <2>4. Honest(h)'
    BY <1>1, <2>1, <2>3 DEF Honest, Call, Unset, device
  <2> QED
    BY <2>2, <2>4
<1>3. mutex' # Nobody => Flight(mutex)' /\ Honest(mutex)'
  BY <1>1, <1>2 DEF SafeInv, TypeOK
<1> QED
  BY <1>1, <1>3 DEF TokenInv, Succeeded, Call, device

-----------------------------------------------------------------------------
(* The device                                                              *)

(* What the caller must see unchanged while the device takes a step.       *)
Still == UNCHANGED <<late, cqVars, callVars, closing>>

(* A step of the device preserves the invariant if it keeps the shape of   *)
(* what is in flight.                                                      *)
LEMMA StillToken ==
    ASSUME SafeInv, TokenInv, Still, executed \subseteq executed',
           Quiet => Quiet',
           \A h \in Callers : Answering(h) =>
               /\ Sent(h, Len(msgs)) => Answering(h)' /\ Sent(h, Len(msgs))'
               /\ Cancelled(h) /\ cancelling[h] => Answering(h)' /\ Cancelled(h)'
    PROVE  TokenInv'
<1>1. UNCHANGED <<mutex, result, done, pc, callNo, cmd, cancelling, res, ret, closing>>
  BY DEF Still, cqVars, callVars
<1>2. ASSUME NEW h \in Callers, mutex = h, mutex # Nobody
      PROVE  Flight(h)' /\ Honest(h)'
  <2>1. Flight(h) /\ Honest(h)
    BY <1>2 DEF TokenInv
  <2>2. Flight(h)'
    BY <1>1, <2>1 DEF Flight, InFlight
  <2>3. Honest(h)'
    BY <1>1, <2>1 DEF Honest, Call
  <2> QED
    BY <2>2, <2>3
<1>3. mutex' # Nobody => Flight(mutex)' /\ Honest(mutex)'
  BY <1>1, <1>2 DEF SafeInv, TypeOK
<1> QED
  BY <1>1, <1>3 DEF TokenInv, Succeeded, Call

(* The device takes the first message: a cancellation that finds nothing   *)
(* to cancel, or the command.                                              *)
LEMMA TakeToken ==
    ASSUME SafeInv, TokenInv, TakeMessage
    PROVE  TokenInv'
<1>1. /\ msgs # <<>> /\ msgs' = Tail(msgs) /\ msgs \in Seq(Requests)
      /\ working' = IF msgs[1].cancel THEN working ELSE working \cup {msgs[1]}
      /\ events' = events /\ executed' = executed
      /\ Still
  BY DEF TakeMessage, SafeInv, TypeOK, Still
<1>2. /\ Len(msgs) \in Nat \ {0} /\ Len(msgs') = Len(msgs) - 1
      /\ DOMAIN msgs = 1..Len(msgs) /\ DOMAIN msgs' = 1..(Len(msgs) - 1)
      /\ \A i \in 1..(Len(msgs) - 1) : msgs'[i] = msgs[i + 1]
      /\ Len(msgs) = 1 => msgs' = <<>>
  BY <1>1, HeadTailProperties, LenProperties, EmptySeq
<1>3. Quiet => Quiet'
  BY <1>1, <1>2 DEF Quiet
<1>4. ASSUME NEW h \in Callers, Answering(h), Sent(h, Len(msgs))
      PROVE  Answering(h)' /\ Sent(h, Len(msgs))'
  <2>1. /\ Len(msgs) <= 2 /\ msgs[Len(msgs)] = Command(h)
        /\ \A i \in 1..(Len(msgs) - 1) : msgs[i].cancel
        /\ working = {} /\ events = <<>>
    BY <1>2, <1>4 DEF Sent
  <2>2. Call(h)' = Call(h) /\ Command(h)' = Command(h) /\ ~Command(h).cancel
    BY <1>1 DEF Still, callVars, Call, Command
  <2>3. CASE Len(msgs) = 1
    <3>1. working' = {Command(h)} /\ Len(msgs') = 0 /\ events' = <<>>
      BY <1>1, <1>2, <2>1, <2>2, <2>3
    <3> QED
      BY <2>2, <3>1 DEF Answering, Sent
  <2>4. CASE Len(msgs) = 2
    <3>1. working' = {} /\ Len(msgs') = 1 /\ msgs'[1] = Command(h) /\ events' = <<>>
      BY <1>1, <1>2, <2>1, <2>4
    <3> QED
      BY <2>2, <3>1 DEF Answering, Sent
  <2> QED
    BY <1>2, <2>1, <2>3, <2>4
<1>5. ASSUME NEW h \in Callers, Answering(h), Cancelled(h), cancelling[h]
      PROVE  Answering(h)' /\ Cancelled(h)'
  <2>1. /\ msgs[Len(msgs)].cancel /\ msgs[Len(msgs)].from = Call(h)
        /\ Sent(h, Len(msgs) - 1)
    BY <1>1, <1>5 DEF Cancelled
  <2>2. /\ Call(h)' = Call(h) /\ Command(h)' = Command(h) /\ ~Command(h).cancel
        /\ cancelling' = cancelling
    BY <1>1 DEF Still, callVars, Call, Command
  <2>3. CASE Len(msgs) = 1
    <3>1. working' = working /\ msgs' = <<>>
      BY <1>1, <1>2, <2>1, <2>3
    <3> QED
      BY <1>1, <1>5, <2>2, <3>1 DEF Answering, Cancelled
  <2>4. CASE Len(msgs) # 1
    <3>1. /\ Len(msgs) \in {2, 3} /\ msgs[Len(msgs) - 1] = Command(h)
          /\ \A i \in 1..(Len(msgs) - 2) : msgs[i].cancel
          /\ working = {} /\ events = <<>>
      BY <1>2, <2>1, <2>4 DEF Sent
    <3>2. /\ msgs'[Len(msgs')].cancel /\ msgs'[Len(msgs')].from = Call(h)
      BY <1>2, <2>1, <3>1
    <3>3. CASE Len(msgs) = 2
      <4>1. working' = {Command(h)} /\ Len(msgs') = 1 /\ events' = <<>>
        BY <1>1, <1>2, <2>2, <3>1, <3>3
      <4> QED
        BY <2>2, <3>2, <4>1 DEF Answering, Cancelled, Sent
    <3>4. CASE Len(msgs) = 3
      <4>1. working' = {} /\ Len(msgs') = 2 /\ msgs'[1] = Command(h) /\ events' = <<>>
        BY <1>1, <1>2, <3>1, <3>4
      <4> QED
        BY <2>2, <3>2, <4>1 DEF Answering, Cancelled, Sent
    <3> QED
      BY <3>1, <3>3, <3>4
  <2> QED
    BY <2>3, <2>4
<1> QED
  BY <1>1, <1>3, <1>4, <1>5, StillToken

(* A step that takes the one command from the device, and says so or not.  *)
(* Nothing else is in flight then but its own cancellation.                *)
LEMMA AnswerToken ==
    ASSUME SafeInv, TokenInv, Still, NEW r \in working,
           working' = working \ {r}, executed \subseteq executed',
           \/ msgs' = msgs
           \/ msgs' = Tail(msgs) /\ msgs # <<>> /\ Head(msgs).from = r.from,
           \/ events' = events
           \/ \E aborted \in BOOLEAN, status \in {"success", "error"} :
                 /\ events' = Append(events, Reply(r, aborted, status))
                 /\ aborted => msgs # <<>>
                 /\ status = "success" /\ ~aborted => r.from \in executed'
    PROVE  TokenInv'
<1>1. ~Quiet
  BY DEF Quiet
<1>2. msgs \in Seq(Requests) /\ r \in Requests
  BY DEF SafeInv, TypeOK
<1>3. ASSUME NEW h \in Callers, Answering(h)
      PROVE  /\ r = Command(h) /\ r.from = Call(h) /\ working' = {} /\ events = <<>>
             /\ Call(h)' = Call(h) /\ Command(h)' = Command(h)
             /\ cancelling' = cancelling
  <2>1. working \subseteq {Command(h)} /\ working # {}
    BY <1>3 DEF Answering
  <2>2. r = Command(h) /\ working' = {}
    BY <2>1
  <2>3. events = <<>>
    BY <1>3, <2>1 DEF Answering
  <2>4. UNCHANGED <<callNo, cmd, cancelling>>
    BY DEF Still, callVars
  <2> QED
    BY <2>2, <2>3, <2>4 DEF Command, Call
<1>4. ASSUME NEW h \in Callers, Answering(h), msgs # <<>> => cancelling[h]
      PROVE  Answering(h)'
  <2>1. CASE events' = events
    BY <1>3, <1>4, <2>1 DEF Answering
  <2>2. CASE events' # events
    <3>1. PICK aborted \in BOOLEAN, status \in {"success", "error"} :
                 /\ events' = Append(events, Reply(r, aborted, status))
                 /\ aborted => msgs # <<>>
                 /\ status = "success" /\ ~aborted => r.from \in executed'
      BY <2>2
    <3>2. events = <<>> /\ events \in Seq(Replies) /\ Reply(r, aborted, status) \in Replies
      BY <1>2, <1>3, <1>4, ReplyType DEF SafeInv, TypeOK
    <3>3. /\ events' \in Seq(Replies) /\ Len(events') = 1
          /\ events'[1] = Reply(r, aborted, status)
      BY <3>1, <3>2, AppendProperties, EmptySeq
    <3>4. DOMAIN events' = {1}
      BY <3>3, LenProperties
    <3>5. /\ events'[1].to = Call(h) /\ events'[1].aborted = aborted
          /\ events'[1].status = status
      BY <1>3, <1>4, <3>3 DEF Reply
    <3> QED
      BY <1>3, <1>4, <3>1, <3>3, <3>4, <3>5 DEF Answering
  <2> QED
    BY <2>1, <2>2
<1>5. ASSUME NEW h \in Callers, Answering(h), Sent(h, Len(msgs))
      PROVE  Answering(h)' /\ Sent(h, Len(msgs))'
  <2>1. msgs = <<>>
    BY <1>2, <1>5, EmptySeq DEF Sent
  <2>2. msgs' = msgs
    BY <2>1
  <2> QED
    BY <1>4, <1>5, <2>1, <2>2 DEF Sent
<1>6. ASSUME NEW h \in Callers, Answering(h), Cancelled(h), cancelling[h]
      PROVE  Answering(h)' /\ Cancelled(h)'
  <2>1. msgs = <<>> \/ Len(msgs) = 1
    BY <1>2, <1>6, LenProperties DEF Cancelled, Sent
  <2>2. msgs' = msgs \/ msgs' = <<>>
    BY <1>2, <2>1, HeadTailProperties, EmptySeq
  <2>3. Cancelled(h)'
    BY <1>3, <1>6, <2>1, <2>2 DEF Cancelled, Sent
  <2> QED
    BY <1>4, <1>6, <2>3
<1> QED
  BY <1>1, <1>5, <1>6, StillToken

LEMMA DeviceToken ==
    ASSUME SafeInv, TokenInv, Device
    PROVE  TokenInv'
<1>1. CASE TakeMessage
  BY <1>1, TakeToken
<1>2. CASE TakeCancellation
  <2>1. Still /\ msgs # <<>> /\ msgs' = Tail(msgs) /\ executed' = executed
    BY <1>2 DEF TakeCancellation, Still
  <2>2. PICK r \in working : /\ r.from = Head(msgs).from /\ working' = working \ {r}
                             /\ events' = Append(events, Reply(r, TRUE, "success"))
    BY <1>2 DEF TakeCancellation
  <2> QED
    BY <2>1, <2>2, AnswerToken
<1>3. ASSUME NEW status \in {"success", "error"}, Execute(status) PROVE TokenInv'
  <2>1. PICK r \in working : /\ working' = working \ {r}
                             /\ events' = Append(events, Reply(r, FALSE, status))
                             /\ executed' = IF status = "success"
                                            THEN executed \cup {r.from} ELSE executed
                             /\ UNCHANGED <<late, cqVars, callVars, closing, msgs>>
    BY <1>3 DEF Execute
  <2>2. Still /\ msgs' = msgs /\ executed \subseteq executed'
    BY <2>1 DEF Still
  <2>3. status = "success" => r.from \in executed'
    BY <2>1
  <2> QED
    BY <2>1, <2>2, <2>3, AnswerToken
<1>4. CASE Forget
  <2>1. PICK r \in working : working' = working \ {r}
    BY <1>4 DEF Forget
  <2>2. Still /\ UNCHANGED <<msgs, events, executed>>
    BY <1>4 DEF Forget, Still
  <2> QED
    BY <2>1, <2>2, AnswerToken
<1> QED
  BY <1>1, <1>2, <1>3, <1>4 DEF Device

-----------------------------------------------------------------------------
LEMMA TokenNext == SafeInv /\ TokenInv /\ ~late /\ [Next]_vars => TokenInv'
<1> SUFFICES ASSUME SafeInv, TokenInv, ~late, [Next]_vars PROVE TokenInv'
  OBVIOUS
<1>1. ASSUME NEW c \in Callers, CallerStep(c) PROVE TokenInv'
  <2>1. CASE LockMutex(c)
    BY <2>1, LockToken
  <2>2. CASE ReserveSlot(c) \/ Register(c) \/ Woken(c)
    BY <2>2, WalkToken
  <2>3. CASE ReserveFails(c)
    BY <2>3, LeaveToken
  <2>4. CASE WriteMessage(c)
    BY <2>4, WriteToken
  <2>5. CASE TimedOut(c)
    BY <2>5, TimedOutToken
  <2>6. CASE Check(c)
    BY <2>6, LeaveToken
  <2>7. CASE Cleanup(c) /\ cancelling[c]
    BY <2>7, LeaveToken
  <2>8. CASE Cleanup(c) /\ ~cancelling[c]
    BY <2>8, CancelToken
  <2> QED
    BY <1>1, <2>1, <2>2, <2>3, <2>4, <2>5, <2>6, <2>7, <2>8 DEF CallerStep
<1>2. ASSUME NEW c \in Callers, NEW x \in Cmds, Begin(c, x) PROVE TokenInv'
  BY <1>2, BeginToken
<1>3. CASE Deliver \/ DestroyAbort \/ DestroyMutex
  BY <1>3, DeliverToken, DestroyToken
<1>4. CASE Device
  BY <1>4, DeviceToken
<1>5. CASE UNCHANGED vars
  BY <1>5 DEF vars, cqVars, callVars, device, TokenInv, Flight, InFlight, Honest, Quiet, Answering,
              Sent, Cancelled, Command, Call, Succeeded
<1> QED
  BY <1>1, <1>2, <1>3, <1>4, <1>5 DEF Next

(* Whether the device may be late never changes.                           *)
LEMMA LateNext == SafeInv /\ [Next]_vars => late' = late
BY DEF Next, CallerStep, Begin, LockMutex, ReserveSlot, ReserveFails, Register,
       WriteMessage, Woken, TimedOut, Cleanup, Check, Deliver, DestroyAbort,
       DestroyMutex, Device, TakeMessage, TakeCancellation, Execute, Forget, vars

-----------------------------------------------------------------------------
(* Every variable keeps its type; in particular the message queue never    *)
(* holds more messages than it has slots, though a slot is reserved well   *)
(* before bce_vhci_message_queue_write uses it, and completion.done never  *)
(* exceeds one.                                                            *)
THEOREM TypeCorrect == Spec => []TypeOK
<1>1. SafeInv => TypeOK
  BY DEF SafeInv
<1> QED
  BY SafeInit, SafeNext, <1>1, PTL DEF Spec

(* bce_vhci_command_queue_deliver_completion and the destruction of the    *)
(* queue write only into the buffer of a call that is still inside         *)
(* __bce_vhci_command_queue_execute and holds the mutex.                   *)
THEOREM BufferIsLive == Spec => []NoDanglingResult
<1>1. SafeInv => NoDanglingResult
  BY DEF SafeInv
<1> QED
  BY SafeInit, SafeNext, <1>1, PTL DEF Spec

(* A command that succeeds was carried out, though replies carry no        *)
(* identity but the command code, in whatever way commands, cancellations  *)
(* and lost replies follow one another: as long as the device does not     *)
(* answer after a cancellation has timed out.                              *)
THEOREM NoFalseSuccess == Spec => []SuccessIsReal
<1>1. Init => IInv
  BY SafeInit, TokenInit DEF IInv
<1>2. IInv /\ [Next]_vars => IInv'
  BY SafeNext, TokenNext, LateNext DEF IInv
<1>3. IInv => SuccessIsReal
  BY DEF IInv, TokenInv, SuccessIsReal
<1> QED
  BY <1>1, <1>2, <1>3, PTL DEF Spec

=============================================================================
