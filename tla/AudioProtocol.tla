---------------------------- MODULE AudioProtocol ----------------------------
(***************************************************************************)
(* The message transport of the audio device (src/audio/protocol_bce.c).   *)
(*                                                                         *)
(* Callers send a command in the next buffer of the out queue, under a     *)
(* spin lock held from __aaudio_send_prepare to __aaudio_send, and wait    *)
(* for a reply with the tag they put in it.  The interrupt thread gives    *)
(* out slots back, finds the caller of each reply in pending_entries, and  *)
(* sends messages of its own when the device asks for one; it gives the    *)
(* buffers of the in queue back to the device when it has read them all.   *)
(*                                                                         *)
(* Calls are numbered as their tags are created: the tag of call n is      *)
(* n % Tags.                                                               *)
(***************************************************************************)
EXTENDS Naturals, Sequences, FiniteSets

CONSTANTS Callers,
          Bufs,       \* AAUDIO_BCE_QUEUE_ELEMENT_COUNT
          Tags,       \* AAUDIO_BCE_QUEUE_TAG_COUNT
          MaxCalls,   \* bound: tags the callers create
          MaxAsks,    \* bound: messages the device sends on its own
          Handler,    \* the interrupt thread
          Nobody      \* a spin lock that is free, an entry that is NULL

ASSUME AudioProtocolAssumption ==
    /\ Bufs \in Nat \ {0} /\ Tags \in Nat \ {0}
    /\ MaxCalls \in Nat /\ MaxAsks \in Nat
    /\ Handler \notin Callers /\ Nobody \notin Callers \cup {Handler}
    /\ IsFiniteSet(Callers)

Slots == 0..(Bufs - 1)
Inc(i) == (i + 1) % Bufs

(* What a buffer of either queue holds: a command of the given number or   *)
(* the reply to it; or, of number 0, a message without a waiting caller:   *)
(* a response or notification sent, a command or boot notification got.    *)
Messages == [type : {"call", "command", "boot"}, n : Nat]
Sent(n) == [type |-> "call", n |-> n]
Ask(type) == [type |-> type, n |-> 0]

VARIABLES available,   \* the slots of the out queue that can be reserved
          spinlock,
          count,       \* tags created; tag_num is count % Tags
          pending_entries,
          out_tail,    \* qout.data_tail
          out_data,    \* the buffers of the out queue
          ring,        \* what has been submitted and not read by the device
          confirmed,   \* what the device has read and is not handled yet
          in_head,     \* qin.data_head
          in_data,     \* the buffers of the in queue
          in_next,     \* the one the device fills next
          posted,      \* how many of them the device has,
          in_done,     \* how many it has filled since the last interrupt,
          in_ready,    \* and how many completions the callback has to handle
          cnt,         \* messages handled by this run of the callback
          handler,     \* where the interrupt thread is
          pc,          \* where each caller is
          call,        \* and the number of its command
          got,         \* the command its reply answers; 0 if none came
          asked,       \* device: commands it has not replied to
          asks         \* device: messages sent on its own (bound)

qout == <<available, out_tail, out_data, ring, confirmed>>
qin == <<in_head, in_data, in_next, posted, in_done, in_ready, cnt>>
callers == <<pc, call, got>>
device == <<asked, asks>>
vars == <<qout, qin, spinlock, count, pending_entries, handler, callers, device>>

TypeOK == /\ available \in 0..Bufs
          /\ spinlock \in Callers \cup {Handler, Nobody}
          /\ count \in Nat
          /\ pending_entries \in [0..(Tags - 1) -> Callers \cup {Nobody}]
          /\ out_tail \in Slots /\ out_data \in [Slots -> Messages]
          /\ ring \in Seq([buf : Slots, msg : Messages]) /\ confirmed \in 0..Bufs
          /\ in_head \in Slots /\ in_data \in [Slots -> Messages]
          /\ in_next \in Slots /\ posted \in 0..Bufs /\ in_done \in 0..Bufs
          /\ in_ready \in 0..Bufs /\ cnt \in 0..Bufs
          /\ handler \in {"idle", "in", "reply", "reserve", "prepare", "send"}
          /\ pc \in [Callers -> {"idle", "reserve", "prepare", "send", "wait", "expired"}]
          /\ call \in [Callers -> Nat] /\ got \in [Callers -> Nat]
          /\ asked \subseteq 1..count
          /\ asks \in 0..MaxAsks

InitWith(slots) ==
    /\ available = slots
    /\ spinlock = Nobody
    /\ count = 0
    /\ pending_entries = [t \in 0..(Tags - 1) |-> Nobody]
    /\ out_tail = 0 /\ out_data = [i \in Slots |-> Sent(0)]
    /\ ring = <<>> /\ confirmed = 0
    /\ in_head = 0 /\ in_data = [i \in Slots |-> Sent(0)] /\ in_next = 0
    /\ posted = Bufs /\ in_done = 0 /\ in_ready = 0 /\ cnt = 0
    /\ handler = "idle"
    /\ pc = [c \in Callers |-> "idle"]
    /\ call = [c \in Callers |-> 0] /\ got = [c \in Callers |-> 0]
    /\ asked = {} /\ asks = 0

(* A mutant: a ring of one element more.                                   *)
InitLarger == InitWith(Bufs + 1)

(* After aaudio_bce_init: a ring of Bufs + 1 elements has Bufs slots, and  *)
(* all the buffers of the in queue are posted.                             *)
Init == InitWith(Bufs)

Goto(c, place) == pc' = [pc EXCEPT ![c] = place]

(* The call is over, and its stack frame gone.                             *)
Return(c) == /\ Goto(c, "idle")
             /\ call' = [call EXCEPT ![c] = 0]
             /\ got' = [got EXCEPT ![c] = 0]

(***************************************************************************)
(* __aaudio_send_prepare and __aaudio_send, for a caller or the handler.   *)
(***************************************************************************)

(* The header and then the body are written into the buffer at the tail.   *)
Prepare(who, msg) ==
    /\ spinlock = Nobody
    /\ spinlock' = who
    /\ out_data' = [out_data EXCEPT ![out_tail] = msg]

Submit ==
    /\ ring' = Append(ring, [buf |-> out_tail, msg |-> out_data[out_tail]])
    /\ out_tail' = Inc(out_tail)
    /\ spinlock' = Nobody

(***************************************************************************)
(* A command of a caller: aaudio_send_cmd_sync.                            *)
(***************************************************************************)
Preparing == {c \in Callers : pc[c] \in {"reserve", "prepare"}}

Begin(c) ==
    /\ pc[c] = "idle" /\ count + Cardinality(Preparing) < MaxCalls
    /\ Goto(c, "reserve")
    /\ UNCHANGED <<qout, qin, spinlock, count, pending_entries, handler, call, got, device>>

Reserve(c) ==
    /\ pc[c] = "reserve" /\ available > 0
    /\ available' = available - 1
    /\ Goto(c, "prepare")
    /\ UNCHANGED <<out_tail, out_data, ring, confirmed, qin, spinlock, count,
                   pending_entries, handler, call, got, device>>

(* No slot in 500 ms.                                                      *)
ReserveFails(c) ==
    /\ pc[c] = "reserve" /\ available = 0
    /\ Return(c)
    /\ UNCHANGED <<qout, qin, spinlock, count, pending_entries, handler, device>>

PrepareCall(c) ==
    /\ pc[c] = "prepare"
    /\ Prepare(c, Sent(count + 1))
    /\ count' = count + 1
    /\ call' = [call EXCEPT ![c] = count']
    /\ Goto(c, "send")
    /\ UNCHANGED <<available, out_tail, ring, confirmed, qin, pending_entries, handler,
                   got, device>>

SendCall(c) ==
    /\ pc[c] = "send"
    /\ pending_entries' = [pending_entries EXCEPT ![call[c] % Tags] = c]
    /\ Submit
    /\ Goto(c, "wait")
    /\ UNCHANGED <<available, out_data, confirmed, qin, count, handler, call, got, device>>

Woken(c) ==
    /\ pc[c] = "wait" /\ got[c] # 0
    /\ Return(c)
    /\ UNCHANGED <<qout, qin, spinlock, count, pending_entries, handler, device>>

(* A mutant: a wait without a timeout.                                     *)
TimedOutNever(c) == pc[c] = "wait" /\ FALSE /\ UNCHANGED vars

TimedOut(c) ==
    /\ pc[c] = "wait" /\ got[c] = 0
    /\ Goto(c, "expired")
    /\ UNCHANGED <<qout, qin, spinlock, count, pending_entries, handler, call, got, device>>

(* A mutant: the entry is left to the next call of the same tag.           *)
RemoveNothing(c) ==
    /\ pc[c] = "expired" /\ spinlock = Nobody
    /\ Return(c)
    /\ UNCHANGED <<qout, qin, spinlock, count, pending_entries, handler, device>>

(* -ETIMEDOUT, also when the reply has come in the meantime.               *)
Remove(c) ==
    /\ pc[c] = "expired" /\ spinlock = Nobody
    /\ pending_entries' = [pending_entries EXCEPT
                           ![call[c] % Tags] = IF @ = c THEN Nobody ELSE @]
    /\ Return(c)
    /\ UNCHANGED <<qout, qin, spinlock, count, handler, device>>

(***************************************************************************)
(* The interrupt thread                                                    *)
(***************************************************************************)

(* aaudio_bce_out_queue_completion: all the slots there are completions of *)
(* are given back.                                                         *)
OutCompletion ==
    /\ handler = "idle" /\ confirmed > 0
    /\ available' = available + confirmed
    /\ confirmed' = 0
    /\ UNCHANGED <<out_tail, out_data, ring, qin, spinlock, count, pending_entries,
                   handler, callers, device>>

(* aaudio_bce_in_queue_completion, for the completions there are now.      *)
InCompletion ==
    /\ handler = "idle" /\ in_done > 0
    /\ in_ready' = in_done /\ in_done' = 0
    /\ handler' = "in"
    /\ UNCHANGED <<qout, in_head, in_data, in_next, posted, cnt, spinlock, count,
                   pending_entries, callers, device>>

(* The message is done with: on to the next one.                           *)
Advance == /\ in_head' = Inc(in_head)
           /\ in_ready' = in_ready - 1
           /\ cnt' = cnt + 1
           /\ handler' = "in"

Msg == in_data[in_head]
Entry == pending_entries[Msg.n % Tags]

(* aaudio_handle_reply copies the reply and wakes its caller ...           *)
HandleReply ==
    /\ handler = "in" /\ in_ready > 0 /\ Msg.type = "call"
    /\ spinlock = Nobody
    /\ Entry # Nobody
    /\ got' = [got EXCEPT ![Entry] = Msg.n]
    /\ spinlock' = Handler
    /\ handler' = "reply"
    /\ UNCHANGED <<qout, qin, count, pending_entries, pc, call, device>>

(* A mutant: the entry is not cleared.                                     *)
ReplyKept ==
    /\ handler = "reply"
    /\ spinlock' = Nobody
    /\ Advance
    /\ UNCHANGED <<qout, in_data, in_next, posted, in_done, count, pending_entries,
                   callers, device>>

(* ... and then clears the entry, which may be gone by now.                *)
ReplyDone ==
    /\ handler = "reply"
    /\ pending_entries' = [pending_entries EXCEPT ![Msg.n % Tags] = Nobody]
    /\ spinlock' = Nobody
    /\ Advance
    /\ UNCHANGED <<qout, in_data, in_next, posted, in_done, count, callers, device>>

(* "No queued item found": nobody waits for this reply any more.           *)
DropReply ==
    /\ handler = "in" /\ in_ready > 0 /\ Msg.type = "call"
    /\ spinlock = Nobody
    /\ Entry = Nobody
    /\ Advance
    /\ UNCHANGED <<qout, in_data, in_next, posted, in_done, spinlock, count, pending_entries, callers, device>>

(* aaudio_handle_command and aaudio_handle_notification answer the device. *)
HandleAsk ==
    /\ handler = "in" /\ in_ready > 0 /\ Msg.type # "call"
    /\ handler' = "reserve"
    /\ UNCHANGED <<qout, qin, spinlock, count, pending_entries, callers, device>>

AskReserve ==
    /\ handler = "reserve" /\ available > 0
    /\ available' = available - 1
    /\ handler' = "prepare"
    /\ UNCHANGED <<out_tail, out_data, ring, confirmed, qin, spinlock, count,
                   pending_entries, callers, device>>

(* No slot in 500 ms: none can be given back while this thread waits.      *)
AskReserveFails ==
    /\ handler = "reserve" /\ available = 0
    /\ Advance
    /\ UNCHANGED <<qout, in_data, in_next, posted, in_done, spinlock, count, pending_entries, callers, device>>

(* A response has the tag of the command; the alive notification takes a   *)
(* new one.                                                                *)
AskPrepare ==
    /\ handler = "prepare"
    /\ Prepare(Handler, Sent(0))
    /\ count' = IF Msg.type = "boot" THEN count + 1 ELSE count
    /\ handler' = "send"
    /\ UNCHANGED <<available, out_tail, ring, confirmed, qin, pending_entries, callers, device>>

AskSend ==
    /\ handler = "send"
    /\ Submit
    /\ Advance
    /\ UNCHANGED <<available, out_data, confirmed, in_data, in_next, posted, in_done, count,
                   pending_entries, callers, device>>

(* aaudio_bce_in_queue_submit_pending, for the messages handled.           *)
SubmitPending ==
    /\ handler = "in" /\ in_ready = 0
    /\ posted' = posted + cnt
    /\ cnt' = 0
    /\ handler' = "idle"
    /\ UNCHANGED <<qout, in_head, in_data, in_next, in_done, in_ready, spinlock, count,
                   pending_entries, callers, device>>

(***************************************************************************)
(* The device                                                              *)
(***************************************************************************)

(* It reads the buffer of the oldest submission and completes it.          *)
DeviceRead ==
    /\ ring # <<>>
    /\ LET msg == out_data[Head(ring).buf]
       IN asked' = IF msg.n = 0 THEN asked ELSE asked \cup {msg.n}
    /\ ring' = Tail(ring)
    /\ confirmed' = confirmed + 1
    /\ UNCHANGED <<available, out_tail, out_data, qin, spinlock, count,
                   pending_entries, handler, callers, asks>>

(* It fills the next buffer of the in queue.                               *)
Fill(msg) ==
    /\ posted > 0
    /\ in_data' = [in_data EXCEPT ![in_next] = msg]
    /\ in_next' = Inc(in_next)
    /\ in_done' = in_done + 1
    /\ posted' = posted - 1
    /\ UNCHANGED <<qout, in_head, in_ready, cnt, spinlock, count, pending_entries, handler, callers>>

DeviceReply(n) ==
    /\ n \in asked
    /\ Fill(Sent(n))
    /\ asked' = asked \ {n}
    /\ UNCHANGED asks

DeviceAsk(type) ==
    /\ asks < MaxAsks
    /\ Fill(Ask(type))
    /\ asks' = asks + 1
    /\ UNCHANGED asked

CallerStep(c) == \/ Begin(c) \/ Reserve(c) \/ ReserveFails(c) \/ PrepareCall(c)
                 \/ SendCall(c) \/ Woken(c) \/ TimedOut(c) \/ Remove(c)

HandlerStep == \/ OutCompletion \/ InCompletion \/ HandleReply \/ ReplyDone
               \/ DropReply \/ HandleAsk \/ AskReserve \/ AskReserveFails
               \/ AskPrepare \/ AskSend \/ SubmitPending

Next == \/ \E c \in Callers : CallerStep(c)
        \/ HandlerStep
        \/ DeviceRead
        \/ \E n \in asked : DeviceReply(n)
        \/ \E type \in {"command", "boot"} : DeviceAsk(type)

Spec == Init /\ [][Next]_vars

(* Threads run and timers expire. Nothing is assumed of the device.        *)
FairSpec == /\ Spec
            /\ \A c \in Callers : WF_vars(CallerStep(c))
            /\ WF_vars(HandlerStep)

(***************************************************************************)
(* Properties                                                              *)
(***************************************************************************)

(* The reply that wakes a caller is the reply to its command; or it comes  *)
(* so late that the tag has gone round.                                    *)
OwnReply ==
    \A c \in Callers : pc[c] = "wait" /\ got[c] # 0 =>
        got[c] = call[c] \/ call[c] >= got[c] + Tags

(* "we use 21 (in fact 20) to simplify the impl": because the ring has one *)
(* element more than there are buffers, the buffer at the tail is never    *)
(* one that the device has yet to read.                                    *)
BufferIntact == \A i \in DOMAIN ring : out_data[ring[i].buf] = ring[i].msg

(* An entry is on the stack of a call that has not returned, except while  *)
(* the interrupt thread that has just woken it still holds the lock.       *)
NoDanglingEntry ==
    \A t \in DOMAIN pending_entries :
        \/ pending_entries[t] = Nobody
        \/ pc[pending_entries[t]] \in {"wait", "expired"}
        \/ spinlock = Handler

(* Every command returns, whatever the device does.                        *)
EveryCallReturns == \A c \in Callers : pc[c] # "idle" ~> pc[c] = "idle"
=============================================================================
