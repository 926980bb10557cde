------------------------- MODULE AudioProtocolProofs -------------------------
(***************************************************************************)
(* Proofs about AudioProtocol for any set of callers, any number of        *)
(* buffers and tags and any number of messages.                            *)
(*                                                                         *)
(* Three arguments meet.  The slots of the out queue are conserved, so     *)
(* that whoever may write the buffer at the tail finds it outside the part *)
(* of the ring that the device has yet to read.  The in queue is a ring as *)
(* well, so that the device never fills the buffer being handled.  And an  *)
(* entry is that of the youngest command with its tag, so that the reply   *)
(* it receives is to its own command or to one that is a round of tags     *)
(* older.                                                                  *)
(***************************************************************************)
EXTENDS AudioProtocol, FiniteSetTheorems, SequenceTheorems, TLAPS

(* Who has a slot and has not submitted it.                                *)
Holders == {c \in Callers : pc[c] \in {"prepare", "send"}}
Held == Cardinality(Holders) + IF handler \in {"prepare", "send"} THEN 1 ELSE 0

(* Every slot is free, held, with the device, or waiting to be given back. *)
SlotsConserved == available + Held + Len(ring) + confirmed = Bufs

(* So is every buffer of the in queue, and the callback handles one of the *)
(* messages there are.                                                     *)
PostsConserved ==
    /\ posted + in_done + in_ready + cnt = Bufs
    /\ handler = "idle" => in_ready = 0
    /\ handler \notin {"idle", "in"} => in_ready > 0

(* The spin lock is held while a message is written and a caller woken.    *)
Locked == /\ \A c \in Callers : pc[c] = "send" <=> spinlock = c
          /\ handler \in {"reply", "send"} <=> spinlock = Handler

(* Behind is n places before position i of a ring of buffers.              *)
Behind(i, n) == IF i >= n THEN i - n ELSE i + Bufs - n

InRing == in_head = Behind(in_next, in_ready + in_done)

OutRing == \A i \in 1..Len(ring) : ring[i].buf = Behind(out_tail, Len(ring) + 1 - i)

(* What is about to be submitted.                                          *)
Prepared == /\ \A c \in Callers : pc[c] = "send" =>
                  call[c] = count /\ out_data[out_tail] = Sent(call[c])
            /\ handler = "send" => out_data[out_tail] = Sent(0)

(* No message has a number that has not been created, and the device knows *)
(* only numbers that have been sent.                                       *)
Known == asked \cup {ring[i].msg.n : i \in 1..Len(ring)} \cup {in_data[i].n : i \in Slots}
Numbers == Known \subseteq 0..count

Waking(t) == handler = "reply" /\ t = Msg.n % Tags

(* An entry belongs to a call that waits and has not been woken, and no    *)
(* message with its tag is younger than that call; or the interrupt thread *)
(* is about to clear it.                                                   *)
Entries ==
    \A t \in 0..(Tags - 1) : \A c \in Callers :
        pending_entries[t] = c /\ ~Waking(t) =>
            /\ pc[c] \in {"wait", "expired"} /\ got[c] = 0
            /\ t = call[c] % Tags
            /\ \A n \in Known : n % Tags = t => n <= call[c]

Unwoken == \A c \in Callers : pc[c] \notin {"wait", "expired"} => got[c] = 0

(* The types, without the limits that follow from what is conserved.       *)
Types == /\ available \in Nat /\ confirmed \in Nat
         /\ spinlock \in Callers \cup {Handler, Nobody}
         /\ count \in Nat
         /\ pending_entries \in [0..(Tags - 1) -> Callers \cup {Nobody}]
         /\ out_tail \in Slots /\ out_data \in [Slots -> Messages]
         /\ ring \in Seq([buf : Slots, msg : Messages])
         /\ in_head \in Slots /\ in_data \in [Slots -> Messages]
         /\ in_next \in Slots
         /\ posted \in Nat /\ in_done \in Nat /\ in_ready \in Nat /\ cnt \in Nat
         /\ handler \in {"idle", "in", "reply", "reserve", "prepare", "send"}
         /\ pc \in [Callers -> {"idle", "reserve", "prepare", "send", "wait", "expired"}]
         /\ call \in [Callers -> Nat] /\ got \in [Callers -> Nat]
         /\ asked \subseteq Nat \ {0}
         /\ asks \in 0..MaxAsks

IInv == /\ Types /\ SlotsConserved /\ PostsConserved /\ Locked
        /\ InRing /\ OutRing /\ BufferIntact
        /\ Prepared /\ Numbers /\ Entries /\ Unwoken /\ OwnReply

-----------------------------------------------------------------------------
(* Positions of a ring                                                     *)

LEMMA IncValue ==
    \A i \in Slots : Inc(i) \in Slots /\ Inc(i) = IF i = Bufs - 1 THEN 0 ELSE i + 1
BY AudioProtocolAssumption DEF Slots, Inc

LEMMA BehindMoves ==
    ASSUME NEW i \in Slots, NEW n \in Nat
    PROVE  /\ n < Bufs => Behind(Inc(i), n + 1) = Behind(i, n)
           /\ 0 < n /\ n <= Bufs => Inc(Behind(i, n)) = Behind(i, n - 1)
           /\ 0 < n /\ n < Bufs => Behind(i, n) # i
           /\ n <= Bufs => Behind(i, n) \in Slots
           /\ Behind(i, 0) = i
BY IncValue, AudioProtocolAssumption DEF Behind, Slots

(* Two numbers with the same tag are the same or a round of tags apart.    *)
LEMMA RoundOfTags ==
    ASSUME NEW m \in Nat, NEW n \in Nat, m % Tags = n % Tags, m <= n
    PROVE  n = m \/ n >= m + Tags
<1> DEFINE p == m \div Tags
           q == n \div Tags
<1>1. Tags \in Nat /\ Tags > 0
  BY AudioProtocolAssumption
<1>2. /\ p \in Int /\ q \in Int
      /\ m = Tags * p + (m % Tags) /\ n = Tags * q + (n % Tags)
  BY <1>1
<1> HIDE DEF p, q
<1>3. n - m = Tags * (q - p)
  BY <1>1, <1>2
<1>4. CASE q <= p
  <2>1. Tags * (q - p) <= 0
    BY <1>1, <1>2, <1>4
  <2> QED
    BY <1>3, <2>1
<1>5. CASE q >= p + 1
  <2>1. Tags * (q - p) >= Tags
    BY <1>1, <1>2, <1>5
  <2> QED
    BY <1>1, <1>3, <2>1
<1> QED
  BY <1>2, <1>4, <1>5

LEMMA TagType == \A n \in Nat : n % Tags \in 0..(Tags - 1)
BY AudioProtocolAssumption

LEMMA SentType == \A n \in Nat : Sent(n) \in Messages /\ Sent(n).n = n
BY DEF Sent, Messages

LEMMA AskType == \A type \in {"command", "boot"} : Ask(type) \in Messages /\ Ask(type).n = 0
BY DEF Ask, Messages

-----------------------------------------------------------------------------
(* Types                                                                   *)
LEMMA TypesNext ==
    ASSUME IInv, [Next]_vars
    PROVE  Types'
<1> USE AudioProtocolAssumption, SentType, AskType, IncValue
    DEF IInv, Types, Goto, Return, Prepare, Submit, Advance,
        qout, qin, callers, device
<1>1. ASSUME NEW c \in Callers, CallerStep(c) PROVE Types'
  <2>1. CASE Begin(c)
    BY <2>1 DEF Begin
  <2>2. CASE Reserve(c)
    BY <2>2 DEF Reserve
  <2>3. CASE ReserveFails(c)
    BY <2>3 DEF ReserveFails
  <2>4. CASE PrepareCall(c)
    BY <2>4 DEF PrepareCall
  <2>5. CASE SendCall(c)
    <3>1. [buf |-> out_tail, msg |-> out_data[out_tail]] \in [buf : Slots, msg : Messages]
      OBVIOUS
    <3>2. ring' \in Seq([buf : Slots, msg : Messages])
      BY <2>5, <3>1, AppendProperties DEF SendCall
    <3>3. pending_entries' \in [0..(Tags - 1) -> Callers \cup {Nobody}]
      BY <2>5 DEF SendCall
    <3> QED
      BY <2>5, <3>2, <3>3 DEF SendCall
  <2>6. CASE Woken(c)
    BY <2>6 DEF Woken
  <2>7. CASE TimedOut(c)
    BY <2>7 DEF TimedOut
  <2>8. CASE Remove(c)
    BY <2>8 DEF Remove
  <2> QED
    BY <1>1, <2>1, <2>2, <2>3, <2>4, <2>5, <2>6, <2>7, <2>8 DEF CallerStep
<1>2. CASE OutCompletion
  BY <1>2 DEF OutCompletion
<1>3. CASE InCompletion
  BY <1>3 DEF InCompletion
<1>4. CASE HandleReply
  <2>1. Msg.n \in Nat
    BY DEF Msg, Messages
  <2>2. got' \in [Callers -> Nat]
    BY <1>4, <2>1 DEF HandleReply
  <2> QED
    BY <1>4, <2>2 DEF HandleReply
<1>5. CASE ReplyDone
  <2>1. pending_entries' \in [0..(Tags - 1) -> Callers \cup {Nobody}]
    BY <1>5 DEF ReplyDone
  <2>2. in_head' \in Slots /\ in_ready' \in Nat /\ cnt' \in Nat
    BY <1>5 DEF ReplyDone, PostsConserved
  <2>3. spinlock' = Nobody /\ handler' = "in"
    BY <1>5 DEF ReplyDone
  <2>4. UNCHANGED <<qout, in_data, in_next, posted, in_done, count, callers, device>>
    BY <1>5 DEF ReplyDone
  <2> QED
    BY <2>1, <2>2, <2>3, <2>4
<1>6. CASE DropReply
  BY <1>6 DEF DropReply
<1>7. CASE HandleAsk
  BY <1>7 DEF HandleAsk
<1>8. CASE AskReserve
  BY <1>8 DEF AskReserve
<1>9. CASE AskReserveFails
  BY <1>9 DEF AskReserveFails, PostsConserved
<1>10. CASE AskPrepare
  BY <1>10 DEF AskPrepare
<1>11. CASE AskSend
  <2>1. [buf |-> out_tail, msg |-> out_data[out_tail]] \in [buf : Slots, msg : Messages]
    OBVIOUS
  <2>2. ring' \in Seq([buf : Slots, msg : Messages])
    BY <1>11, <2>1, AppendProperties DEF AskSend
  <2> QED
    BY <1>11, <2>2 DEF AskSend, PostsConserved
<1>12. CASE SubmitPending
  BY <1>12 DEF SubmitPending
<1>13. CASE DeviceRead
  <2>1. Head(ring) \in [buf : Slots, msg : Messages]
        /\ ring' \in Seq([buf : Slots, msg : Messages])
    BY <1>13, HeadTailProperties DEF DeviceRead
  <2>2. out_data[Head(ring).buf].n \in Nat
    BY <2>1 DEF Messages
  <2>3. asked' \subseteq Nat \ {0}
    BY <1>13, <2>2 DEF DeviceRead
  <2> QED
    BY <1>13, <2>1, <2>3 DEF DeviceRead
<1>14. ASSUME NEW n \in asked, DeviceReply(n) PROVE Types'
  BY <1>14 DEF DeviceReply, Fill
<1>15. ASSUME NEW type \in {"command", "boot"}, DeviceAsk(type) PROVE Types'
  BY <1>15 DEF DeviceAsk, Fill
<1>16. CASE UNCHANGED vars
  BY <1>16 DEF vars
<1> QED
  BY <1>1, <1>2, <1>3, <1>4, <1>5, <1>6, <1>7, <1>8, <1>9, <1>10, <1>11, <1>12, <1>13,
     <1>14, <1>15, <1>16 DEF Next, HandlerStep

-----------------------------------------------------------------------------
(* The slots of the out queue                                              *)

(* What moving one caller does to the number of callers that hold a slot.  *)
LEMMA HoldersMove ==
    ASSUME IInv, NEW c \in Callers, NEW place \in {"idle", "reserve", "prepare", "send",
                                                  "wait", "expired"},
           Goto(c, place)
    PROVE  /\ Cardinality(Holders) \in Nat
           /\ Cardinality(Holders') = Cardinality(Holders)
                + (IF place \in {"prepare", "send"} THEN 1 ELSE 0)
                - (IF pc[c] \in {"prepare", "send"} THEN 1 ELSE 0)
<1>1. pc' = [pc EXCEPT ![c] = place] /\ c \in DOMAIN pc
  BY DEF Goto, IInv, Types
<1>2. IsFiniteSet(Holders) /\ IsFiniteSet(Holders \ {c})
  BY AudioProtocolAssumption, FS_Subset DEF Holders
<1>3. Cardinality(Holders) \in Nat /\ Cardinality(Holders \ {c}) \in Nat
  BY <1>2, FS_CardinalityType
<1>4. Holders' = IF place \in {"prepare", "send"} THEN (Holders \ {c}) \cup {c}
                 ELSE Holders \ {c}
  BY <1>1 DEF Holders, IInv, Types
<1>5. Cardinality(Holders \ {c}) = Cardinality(Holders)
                - (IF pc[c] \in {"prepare", "send"} THEN 1 ELSE 0)
  <2>1. CASE c \in Holders
    BY <1>2, <2>1, FS_RemoveElement DEF Holders
  <2>2. CASE c \notin Holders
    <3>1. Holders \ {c} = Holders
      BY <2>2
    <3> QED
      BY <1>3, <2>2, <3>1 DEF Holders
  <2> QED
    BY <2>1, <2>2
<1>6. Cardinality((Holders \ {c}) \cup {c}) = Cardinality(Holders \ {c}) + 1
  BY <1>2, FS_AddElement
<1> QED
  BY <1>3, <1>4, <1>5, <1>6

LEMMA HoldersStay ==
    ASSUME IInv, UNCHANGED pc
    PROVE  /\ Cardinality(Holders) \in Nat
           /\ Cardinality(Holders') = Cardinality(Holders)
<1>1. IsFiniteSet(Holders) /\ Holders' = Holders
  BY AudioProtocolAssumption, FS_Subset DEF Holders
<1> QED
  BY <1>1, FS_CardinalityType

LEMMA SlotsNext ==
    ASSUME IInv, [Next]_vars
    PROVE  SlotsConserved'
<1> USE DEF Held, Return, Submit, Advance, qout, qin, callers, device
<1>0. /\ available \in Nat /\ confirmed \in Nat /\ Len(ring) \in Nat
      /\ pc \in [Callers -> {"idle", "reserve", "prepare", "send", "wait", "expired"}]
      /\ ring \in Seq([buf : Slots, msg : Messages])
      /\ SlotsConserved
  BY LenProperties DEF IInv, Types
<1>1. ASSUME NEW c \in Callers, CallerStep(c) PROVE SlotsConserved'
  <2>1. PICK place \in {"idle", "reserve", "prepare", "send", "wait", "expired"} :
            Goto(c, place)
    BY <1>1 DEF CallerStep, Begin, Reserve, ReserveFails, PrepareCall, SendCall, Woken,
                TimedOut, Remove
  <2>2. pc'[c] = place
    BY <1>0, <2>1 DEF Goto
  <2>3. /\ Cardinality(Holders) \in Nat
        /\ Cardinality(Holders') = Cardinality(Holders)
             + (IF pc'[c] \in {"prepare", "send"} THEN 1 ELSE 0)
             - (IF pc[c] \in {"prepare", "send"} THEN 1 ELSE 0)
    BY <2>1, <2>2, HoldersMove
  <2>4. handler' = handler /\ confirmed' = confirmed
    BY <1>1 DEF CallerStep, Begin, Reserve, ReserveFails, PrepareCall, SendCall, Woken,
                TimedOut, Remove
  <2>5. CASE Reserve(c)
    <3>1. /\ pc[c] = "reserve" /\ pc'[c] = "prepare" /\ ring' = ring
          /\ available' = available - 1
      BY <1>0, <2>5 DEF Reserve, Goto
    <3> QED
      BY <1>0, <2>3, <2>4, <3>1 DEF SlotsConserved
  <2>6. CASE SendCall(c)
    <3>1. /\ pc[c] = "send" /\ pc'[c] = "wait" /\ Len(ring') = Len(ring) + 1
          /\ available' = available
      BY <1>0, <2>6, AppendProperties DEF SendCall, Goto
    <3>2. Held' = Held - 1
      BY <1>0, <2>3, <2>4, <3>1
    <3>3. Held \in Nat /\ Held' \in Int
      BY <1>0, <2>3, <3>2
    <3> QED
      BY <1>0, <2>4, <3>1, <3>2, <3>3 DEF SlotsConserved
  <2>7. CASE Begin(c) \/ ReserveFails(c) \/ PrepareCall(c) \/ Woken(c) \/ TimedOut(c)
             \/ Remove(c)
    <3>1. pc'[c] \in {"prepare", "send"} <=> pc[c] \in {"prepare", "send"}
      BY <1>0, <2>7 DEF Begin, ReserveFails, PrepareCall, Woken, TimedOut, Remove, Goto
    <3>2. available' = available /\ ring' = ring
      BY <2>7 DEF Begin, ReserveFails, PrepareCall, Woken, TimedOut, Remove
    <3> QED
      BY <1>0, <2>3, <2>4, <3>1, <3>2 DEF SlotsConserved
  <2> QED
    BY <1>1, <2>5, <2>6, <2>7 DEF CallerStep
<1>2. CASE OutCompletion
  BY <1>0, <1>2, HoldersStay DEF SlotsConserved, OutCompletion
<1>3. CASE InCompletion \/ HandleReply \/ ReplyDone \/ DropReply \/ HandleAsk
           \/ AskReserveFails \/ SubmitPending
  <2>1. UNCHANGED <<available, confirmed, ring, pc>>
    BY <1>3 DEF InCompletion, HandleReply, ReplyDone, DropReply, HandleAsk,
                AskReserveFails, SubmitPending
  <2>2. handler \notin {"prepare", "send"} /\ handler' \notin {"prepare", "send"}
    BY <1>3 DEF InCompletion, HandleReply, ReplyDone, DropReply, HandleAsk,
                AskReserveFails, SubmitPending
  <2> QED
    BY <1>0, <2>1, <2>2, HoldersStay DEF SlotsConserved
<1>4. CASE AskReserve
  BY <1>0, <1>4, HoldersStay DEF SlotsConserved, AskReserve
<1>5. CASE AskPrepare
  BY <1>0, <1>5, HoldersStay DEF SlotsConserved, AskPrepare
<1>6. CASE AskSend
  <2>1. Len(ring') = Len(ring) + 1
    BY <1>0, <1>6 DEF AskSend
  <2>2. /\ available' = available /\ confirmed' = confirmed /\ pc' = pc
        /\ handler = "send" /\ handler' = "in"
    BY <1>6 DEF AskSend
  <2>3. Held' = Held - 1
    BY <1>0, <2>2, HoldersStay
  <2>4. Held \in Nat /\ Held' \in Int
    BY <1>0, <2>3, <2>2, HoldersStay
  <2> QED
    BY <1>0, <2>1, <2>2, <2>3, <2>4 DEF SlotsConserved
<1>7. CASE DeviceRead
  <2>1. Len(ring') = Len(ring) - 1 /\ Len(ring) \in Nat /\ Len(ring') \in Int
    BY <1>0, <1>7, HeadTailProperties, LenProperties DEF DeviceRead
  <2>2. /\ available' = available /\ confirmed' = confirmed + 1 /\ pc' = pc
        /\ handler' = handler
    BY <1>7 DEF DeviceRead
  <2>3. Held' = Held /\ Held \in Nat
    BY <1>0, <2>2, HoldersStay
  <2> QED
    <3>1. Len(ring') + confirmed' = Len(ring) + confirmed
      BY <1>0, <2>1, <2>2
    <3> HIDE DEF Held
    <3> QED
      BY <1>0, <2>1, <2>2, <2>3, <3>1 DEF SlotsConserved
<1>8. ASSUME NEW n \in asked, DeviceReply(n) PROVE SlotsConserved'
  BY <1>0, <1>8, HoldersStay DEF SlotsConserved, DeviceReply, Fill
<1>9. ASSUME NEW type \in {"command", "boot"}, DeviceAsk(type) PROVE SlotsConserved'
  BY <1>0, <1>9, HoldersStay DEF SlotsConserved, DeviceAsk, Fill
<1>10. CASE UNCHANGED vars
  BY <1>0, <1>10, HoldersStay DEF SlotsConserved, vars
<1> QED
  BY <1>1, <1>2, <1>3, <1>4, <1>5, <1>6, <1>7, <1>8, <1>9, <1>10 DEF Next, HandlerStep

-----------------------------------------------------------------------------
(* The buffers of the in queue                                             *)
LEMMA PostsNext ==
    ASSUME IInv, [Next]_vars
    PROVE  PostsConserved' /\ InRing'
<1> USE DEF IInv, Types, PostsConserved, InRing, Advance, qout, qin, callers, device
<1>1. CASE \/ \E c \in Callers : CallerStep(c)
           \/ OutCompletion \/ DeviceRead \/ UNCHANGED vars
  <2>1. UNCHANGED <<posted, in_done, in_ready, cnt, in_head, in_next, handler>>
    BY <1>1 DEF CallerStep, Begin, Reserve, ReserveFails, PrepareCall, SendCall, Woken,
                TimedOut, Remove, OutCompletion, DeviceRead, vars
  <2> QED
    BY <2>1 DEF Behind
<1>2. CASE HandleReply \/ HandleAsk \/ AskReserve \/ AskPrepare
  <2>1. UNCHANGED <<posted, in_done, in_ready, cnt, in_head, in_next>>
    BY <1>2 DEF HandleReply, HandleAsk, AskReserve, AskPrepare
  <2>2. in_ready > 0 /\ handler' # "idle"
    BY <1>2 DEF HandleReply, HandleAsk, AskReserve, AskPrepare
  <2> QED
    BY <2>1, <2>2 DEF Behind
<1>3. CASE ReplyDone \/ DropReply \/ AskReserveFails \/ AskSend
  <2>1. in_ready > 0 /\ Advance /\ UNCHANGED <<posted, in_done, in_next>>
    BY <1>3 DEF ReplyDone, DropReply, AskReserveFails, AskSend
  <2>2. /\ in_ready + in_done \in Nat /\ in_ready + in_done > 0 /\ in_ready + in_done <= Bufs
        /\ in_ready' + in_done' = in_ready + in_done - 1
    BY <2>1
  <2>3. in_head' = Behind(in_next, in_ready + in_done - 1)
    BY <2>1, <2>2, BehindMoves
  <2>4. InRing'
    BY <2>1, <2>2, <2>3 DEF Behind
  <2> QED
    BY <2>1, <2>4
<1>4. CASE InCompletion
  <2>1. in_ready' + in_done' = in_ready + in_done
    BY <1>4 DEF InCompletion
  <2> QED
    BY <1>4, <2>1 DEF InCompletion, Behind
<1>5. CASE SubmitPending
  BY <1>5 DEF SubmitPending, Behind
<1>6. ASSUME NEW msg, Fill(msg) PROVE PostsConserved' /\ InRing'
  <2>1. in_ready + in_done \in Nat /\ in_ready + in_done < Bufs
        /\ in_ready' + in_done' = (in_ready + in_done) + 1
    BY <1>6 DEF Fill
  <2>2. Behind(Inc(in_next), (in_ready + in_done) + 1) = Behind(in_next, in_ready + in_done)
    BY <2>1, BehindMoves
  <2>3. InRing'
    BY <1>6, <2>1, <2>2 DEF Fill, Behind
  <2> QED
    BY <1>6, <2>3 DEF Fill
<1> QED
  BY <1>1, <1>2, <1>3, <1>4, <1>5, <1>6 DEF Next, HandlerStep, DeviceReply, DeviceAsk

(* The device does not write the message that is being handled.            *)
LEMMA MsgStays ==
    ASSUME IInv, in_ready > 0, NEW msg, Fill(msg)
    PROVE  Msg' = Msg
<1>1. /\ in_ready + in_done \in Nat /\ 0 < in_ready + in_done
      /\ in_ready + in_done < Bufs
  BY DEF IInv, Types, PostsConserved, Fill
<1>2. in_head # in_next
  BY <1>1, BehindMoves DEF IInv, Types, InRing
<1> QED
  BY <1>2 DEF Fill, qout, Msg, IInv, Types

-----------------------------------------------------------------------------
(* The spin lock                                                           *)
LEMMA LockedNext ==
    ASSUME IInv, [Next]_vars
    PROVE  Locked'
<1> USE AudioProtocolAssumption
    DEF IInv, Types, Locked, Goto, Return, Prepare, Submit, Advance, qout, qin, callers, device
<1>1. ASSUME NEW c \in Callers, CallerStep(c) PROVE Locked'
  <2>1. CASE Begin(c) \/ Reserve(c) \/ ReserveFails(c) \/ Woken(c) \/ TimedOut(c) \/ Remove(c)
    <3>1. /\ UNCHANGED <<spinlock, handler>>
          /\ \A d \in Callers : pc'[d] = "send" <=> pc[d] = "send"
      BY <2>1 DEF Begin, Reserve, ReserveFails, Woken, TimedOut, Remove
    <3> QED
      BY <3>1
  <2>2. CASE PrepareCall(c)
    BY <2>2 DEF PrepareCall
  <2>3. CASE SendCall(c)
    BY <2>3 DEF SendCall
  <2> QED
    BY <1>1, <2>1, <2>2, <2>3 DEF CallerStep
<1>2. CASE OutCompletion \/ InCompletion \/ DropReply \/ HandleAsk \/ AskReserve
           \/ AskReserveFails \/ SubmitPending
  BY <1>2 DEF OutCompletion, InCompletion, DropReply, HandleAsk, AskReserve,
              AskReserveFails, SubmitPending
<1>3. CASE HandleReply
  BY <1>3 DEF HandleReply
<1>4. CASE ReplyDone
  BY <1>4 DEF ReplyDone
<1>5. CASE AskPrepare
  BY <1>5 DEF AskPrepare
<1>6. CASE AskSend
  BY <1>6 DEF AskSend
<1>7. CASE DeviceRead \/ UNCHANGED vars
  BY <1>7 DEF DeviceRead, vars
<1>8. ASSUME NEW msg, Fill(msg) PROVE Locked'
  BY <1>8 DEF Fill
<1> QED
  BY <1>1, <1>2, <1>3, <1>4, <1>5, <1>6, <1>7, <1>8
  DEF Next, HandlerStep, DeviceReply, DeviceAsk

-----------------------------------------------------------------------------
(* The ring of the out queue                                               *)

LEMMA FromTheEnd ==
    \A m \in Nat : \A i \in 1..m :
        /\ m + 1 - i \in Nat /\ 0 < m + 1 - i /\ m + 1 - i <= m
        /\ (m + 1) + 1 - i = (m + 1 - i) + 1
OBVIOUS

(* Whoever has a slot leaves one fewer in the ring.                        *)
LEMMA RoomForHolder ==
    ASSUME IInv, Holders # {} \/ handler \in {"prepare", "send"}
    PROVE  Len(ring) \in Nat /\ Len(ring) < Bufs
<1>1. /\ IsFiniteSet(Holders) /\ Cardinality(Holders) \in Nat
      /\ Holders # {} => Cardinality(Holders) > 0
  <2>1. IsFiniteSet(Holders)
    BY AudioProtocolAssumption, FS_Subset DEF Holders
  <2>2. Cardinality(Holders) \in Nat /\ (Cardinality(Holders) = 0 <=> Holders = {})
    BY <2>1, FS_CardinalityType, FS_EmptySet
  <2> QED
    BY <2>1, <2>2
<1>2. Held \in Nat /\ Held > 0
  BY <1>1 DEF Held
<1>3. available \in Nat /\ confirmed \in Nat /\ Len(ring) \in Nat /\ SlotsConserved
  BY LenProperties DEF IInv, Types
<1> HIDE DEF Held
<1> QED
  BY <1>2, <1>3, AudioProtocolAssumption DEF SlotsConserved

LEMMA RingFits ==
    ASSUME IInv
    PROVE  Len(ring) \in Nat /\ Len(ring) <= Bufs
<1>1. IsFiniteSet(Holders) /\ Cardinality(Holders) \in Nat
  BY AudioProtocolAssumption, FS_Subset, FS_CardinalityType DEF Holders
<1>2. Held \in Nat
  BY <1>1 DEF Held
<1>3. available \in Nat /\ confirmed \in Nat /\ Len(ring) \in Nat /\ SlotsConserved
  BY LenProperties DEF IInv, Types
<1> HIDE DEF Held
<1> QED
  BY <1>2, <1>3, AudioProtocolAssumption DEF SlotsConserved

(* The buffer at the tail is written: none in the ring is that one.        *)
LEMMA WriteKeepsRing ==
    ASSUME IInv, Holders # {} \/ handler \in {"prepare", "send"},
           UNCHANGED <<ring, out_tail>>, NEW msg,
           out_data' = [out_data EXCEPT ![out_tail] = msg]
    PROVE  OutRing' /\ BufferIntact'
<1>1. Len(ring) \in Nat /\ Len(ring) < Bufs
  BY RoomForHolder
<1>2. OutRing'
  BY DEF IInv, OutRing, Behind
<1>3. ASSUME NEW i \in DOMAIN ring
      PROVE  out_data'[ring[i].buf] = ring[i].msg
  <2>1. i \in 1..Len(ring)
    BY <1>3, LenProperties DEF IInv, Types
  <2>2. /\ Len(ring) + 1 - i \in Nat /\ 0 < Len(ring) + 1 - i /\ Len(ring) + 1 - i < Bufs
    BY <1>1, <2>1, FromTheEnd, AudioProtocolAssumption
  <2>3. ring[i].buf # out_tail
    BY <2>1, <2>2, BehindMoves DEF IInv, Types, OutRing
  <2>4. ring[i].buf \in Slots
    <3>1. ring \in Seq([buf : Slots, msg : Messages])
      BY DEF IInv, Types
    <3>2. ring[i] \in [buf : Slots, msg : Messages]
      BY <2>1, <3>1, ElementOfSeq
    <3> QED
      BY <3>2
  <2>5. out_data[ring[i].buf] = ring[i].msg
    BY <1>3 DEF IInv, BufferIntact
  <2> QED
    BY <2>3, <2>4, <2>5 DEF IInv, Types
<1>4. BufferIntact'
  BY <1>3 DEF BufferIntact
<1> QED
  BY <1>2, <1>4

LEMMA SubmitKeepsRing ==
    ASSUME IInv, Holders # {} \/ handler \in {"prepare", "send"},
           Submit, UNCHANGED out_data
    PROVE  OutRing' /\ BufferIntact'
<1> DEFINE new == [buf |-> out_tail, msg |-> out_data[out_tail]]
<1>1. Len(ring) \in Nat /\ Len(ring) < Bufs
  BY RoomForHolder
<1>2. /\ ring \in Seq([buf : Slots, msg : Messages])
      /\ new \in [buf : Slots, msg : Messages]
      /\ ring' = Append(ring, new)
  BY DEF IInv, Types, Submit
<1>3. /\ Len(ring') = Len(ring) + 1 /\ DOMAIN ring' = 1..(Len(ring) + 1)
      /\ DOMAIN ring = 1..Len(ring)
      /\ \A i \in 1..Len(ring) : ring'[i] = ring[i]
      /\ ring'[Len(ring) + 1] = new
  BY <1>2, AppendProperties, LenProperties
<1>4. new.buf = out_tail /\ new.msg = out_data[out_tail]
  OBVIOUS
<1> HIDE DEF new
<1>5. out_tail \in Slots /\ out_tail' = Inc(out_tail)
  BY DEF IInv, Types, Submit
<1>6. ASSUME NEW i \in 1..Len(ring')
      PROVE  ring'[i].buf = Behind(out_tail', Len(ring') + 1 - i)
  <2> DEFINE n == Len(ring) + 1 - i
  <2>1. n \in Nat /\ n < Bufs /\ Len(ring') + 1 - i = n + 1
    BY <1>1, <1>3, FromTheEnd, AudioProtocolAssumption
  <2>2. Behind(Inc(out_tail), n + 1) = Behind(out_tail, n)
    BY <1>5, <2>1, BehindMoves
  <2>3. CASE i \in 1..Len(ring)
    <3>1. ring[i].buf = Behind(out_tail, n)
      BY <2>3 DEF IInv, OutRing
    <3> QED
      BY <1>3, <1>5, <2>1, <2>2, <2>3, <3>1
  <2>4. CASE i = Len(ring) + 1
    <3>1. n = 0
      BY <1>1, <2>4
    <3>2. Behind(out_tail, 0) = out_tail
      BY <1>5, BehindMoves
    <3> QED
      BY <1>3, <1>4, <1>5, <2>1, <2>2, <2>4, <3>1, <3>2
  <2> QED
    BY <1>1, <1>3, <2>3, <2>4
<1>7. OutRing'
  BY <1>6 DEF OutRing, Behind
<1>8. BufferIntact'
  BY <1>1, <1>3, <1>4 DEF IInv, BufferIntact
<1> QED
  BY <1>7, <1>8

LEMMA RingNext ==
    ASSUME IInv, [Next]_vars
    PROVE  OutRing' /\ BufferIntact'
<1> USE DEF Return, Advance, qout, qin, callers, device
<1>1. ASSUME UNCHANGED <<ring, out_tail, out_data>>
      PROVE  OutRing' /\ BufferIntact'
  BY <1>1 DEF IInv, OutRing, BufferIntact, Behind
<1>2. ASSUME NEW c \in Callers, CallerStep(c)
      PROVE  OutRing' /\ BufferIntact'
  <2>1. CASE PrepareCall(c)
    <3>1. c \in Holders
      BY <2>1 DEF PrepareCall, Holders
    <3> QED
      BY <2>1, <3>1, WriteKeepsRing DEF PrepareCall, Prepare
  <2>2. CASE SendCall(c)
    <3>1. c \in Holders
      BY <2>2 DEF SendCall, Holders
    <3> QED
      BY <2>2, <3>1, SubmitKeepsRing DEF SendCall
  <2>3. CASE Begin(c) \/ Reserve(c) \/ ReserveFails(c) \/ Woken(c) \/ TimedOut(c) \/ Remove(c)
    BY <1>1, <2>3 DEF Begin, Reserve, ReserveFails, Woken, TimedOut, Remove
  <2> QED
    BY <1>2, <2>1, <2>2, <2>3 DEF CallerStep
<1>3. CASE OutCompletion \/ InCompletion \/ HandleReply \/ ReplyDone \/ DropReply \/ HandleAsk
           \/ AskReserve \/ AskReserveFails \/ SubmitPending \/ UNCHANGED vars
  BY <1>1, <1>3 DEF OutCompletion, InCompletion, HandleReply, ReplyDone, DropReply, HandleAsk,
              AskReserve, AskReserveFails, SubmitPending, vars
<1>4. CASE AskPrepare
  BY <1>4, WriteKeepsRing DEF AskPrepare, Prepare
<1>5. CASE AskSend
  BY <1>5, SubmitKeepsRing DEF AskSend
<1>6. CASE DeviceRead
  <2>1. Len(ring) \in Nat /\ Len(ring) <= Bufs
    BY RingFits
  <2>2. /\ Len(ring') = Len(ring) - 1 /\ DOMAIN ring' = 1..(Len(ring) - 1)
        /\ DOMAIN ring = 1..Len(ring)
        /\ \A i \in 1..(Len(ring) - 1) : ring'[i] = ring[i + 1]
    BY <1>6, HeadTailProperties, LenProperties DEF DeviceRead, IInv, Types
  <2>3. UNCHANGED <<out_tail, out_data>>
    BY <1>6 DEF DeviceRead
  <2>4. ASSUME NEW i \in 1..Len(ring')
        PROVE  ring'[i].buf = Behind(out_tail, Len(ring') + 1 - i)
    <3>1. i + 1 \in 1..Len(ring) /\ Len(ring) + 1 - (i + 1) = Len(ring') + 1 - i
      BY <2>1, <2>2
    <3>2. ring[i + 1].buf = Behind(out_tail, Len(ring) + 1 - (i + 1))
      BY <3>1 DEF IInv, OutRing
    <3> QED
      BY <2>1, <2>2, <3>1, <3>2
  <2>5. BufferIntact'
    <3>1. ASSUME NEW i \in DOMAIN ring'
          PROVE  out_data[ring'[i].buf] = ring'[i].msg
      <4>1. i + 1 \in DOMAIN ring /\ ring'[i] = ring[i + 1]
        BY <2>1, <2>2, <3>1
      <4> QED
        BY <4>1 DEF IInv, BufferIntact
    <3> QED
      BY <2>3, <3>1 DEF BufferIntact
  <2> QED
    BY <2>3, <2>4, <2>5 DEF OutRing, Behind
<1>7. ASSUME NEW msg, Fill(msg) PROVE OutRing' /\ BufferIntact'
  BY <1>1, <1>7 DEF Fill
<1> QED
  BY <1>2, <1>3, <1>4, <1>5, <1>6, <1>7
  DEF Next, HandlerStep, DeviceReply, DeviceAsk

-----------------------------------------------------------------------------
(* What is submitted                                                       *)
LEMMA PreparedNext ==
    ASSUME IInv, [Next]_vars
    PROVE  Prepared'
<1> USE AudioProtocolAssumption
    DEF Prepared, Goto, Return, Prepare, Submit, Advance, qout, qin, callers, device
<1>0. /\ Locked /\ Prepared /\ Locked'
      /\ pc \in [Callers -> {"idle", "reserve", "prepare", "send", "wait", "expired"}]
      /\ call \in [Callers -> Nat] /\ count \in Nat
      /\ out_tail \in Slots /\ out_data \in [Slots -> Messages]
  BY LockedNext DEF IInv, Types
<1>1. ASSUME NEW c \in Callers, CallerStep(c) PROVE Prepared'
  <2>1. CASE Begin(c) \/ Reserve(c) \/ ReserveFails(c) \/ Woken(c) \/ TimedOut(c) \/ Remove(c)
    <3>1. /\ UNCHANGED <<handler, count, out_data, out_tail>>
          /\ \A d \in Callers : pc'[d] = "send" => pc[d] = "send" /\ call'[d] = call[d]
      BY <1>0, <2>1 DEF Begin, Reserve, ReserveFails, Woken, TimedOut, Remove
    <3> QED
      BY <1>0, <3>1
  <2>2. CASE PrepareCall(c)
    <3>1. /\ spinlock' = c /\ call'[c] = count' /\ count' = count + 1
          /\ out_data'[out_tail'] = Sent(count + 1)
      BY <1>0, <2>2 DEF PrepareCall
    <3>2. \A d \in Callers : pc'[d] = "send" => d = c
      BY <1>0, <3>1 DEF Locked
    <3>3. handler' # "send"
      BY <1>0, <3>1 DEF Locked
    <3> QED
      BY <3>1, <3>2, <3>3
  <2>3. CASE SendCall(c)
    BY <1>0, <2>3 DEF SendCall, Locked
  <2> QED
    BY <1>1, <2>1, <2>2, <2>3 DEF CallerStep
<1>2. CASE OutCompletion \/ InCompletion \/ DropReply \/ HandleAsk \/ AskReserve
           \/ AskReserveFails \/ SubmitPending \/ HandleReply \/ ReplyDone
  <2>1. UNCHANGED <<count, out_data, out_tail, pc, call>> /\ handler' # "send"
    BY <1>2 DEF OutCompletion, InCompletion, DropReply, HandleAsk, AskReserve,
              AskReserveFails, SubmitPending, HandleReply, ReplyDone
  <2> QED
    BY <1>0, <2>1
<1>3. CASE AskPrepare
  <2>1. spinlock' = Handler /\ out_data'[out_tail'] = Sent(0)
    BY <1>0, <1>3 DEF AskPrepare
  <2> QED
    BY <1>0, <2>1 DEF Locked
<1>4. CASE AskSend
  BY <1>0, <1>4 DEF AskSend, Locked
<1>5. CASE DeviceRead \/ UNCHANGED vars
  BY <1>0, <1>5 DEF DeviceRead, vars
<1>6. ASSUME NEW msg, Fill(msg) PROVE Prepared'
  BY <1>0, <1>6 DEF Fill
<1> QED
  BY <1>1, <1>2, <1>3, <1>4, <1>5, <1>6
  DEF Next, HandlerStep, DeviceReply, DeviceAsk

-----------------------------------------------------------------------------
(* Numbers                                                                 *)

LEMMA KnownIsNat ==
    ASSUME IInv
    PROVE  Known \subseteq Nat
BY DEF IInv, Types, Numbers

(* A number becomes known when its command is submitted.                   *)
LEMMA KnownNext ==
    ASSUME IInv, [Next]_vars
    PROVE  \/ Known' \subseteq Known \cup {0}
           \/ \E c \in Callers : SendCall(c) /\ Known' \subseteq Known \cup {call[c]}
<1> USE DEF Return, Advance, qout, qin, callers, device
<1>0. /\ ring \in Seq([buf : Slots, msg : Messages])
      /\ in_data \in [Slots -> Messages] /\ in_next \in Slots
      /\ Len(ring) \in Nat
  BY LenProperties DEF IInv, Types
<1>1. ASSUME UNCHANGED <<asked, ring, in_data>> PROVE Known' \subseteq Known
  BY <1>1 DEF Known
<1>2. ASSUME Submit, NEW n, out_data[out_tail] = Sent(n), UNCHANGED <<asked, in_data>>
      PROVE  Known' \subseteq Known \cup {n}
  <2> DEFINE new == [buf |-> out_tail, msg |-> out_data[out_tail]]
  <2>1. new \in [buf : Slots, msg : Messages] /\ new.msg.n = n
    BY <1>2 DEF IInv, Types, Sent
  <2>2. ring' = Append(ring, new)
    BY <1>2 DEF Submit
  <2> HIDE DEF new
  <2>3. /\ Len(ring') = Len(ring) + 1
        /\ \A i \in 1..Len(ring) : ring'[i] = ring[i]
        /\ ring'[Len(ring) + 1] = new
    BY <1>0, <2>1, <2>2, AppendProperties
  <2>4. ASSUME NEW i \in 1..Len(ring')
        PROVE  ring'[i].msg.n \in Known \cup {n}
    <3>1. CASE i \in 1..Len(ring)
      BY <2>3, <3>1 DEF Known
    <3>2. CASE i = Len(ring) + 1
      BY <2>1, <2>3, <3>2
    <3> QED
      BY <1>0, <2>3, <2>4, <3>1, <3>2
  <2> QED
    BY <1>2, <2>4 DEF Known
<1>3. ASSUME NEW c \in Callers, CallerStep(c)
      PROVE  Known' \subseteq Known \/ (SendCall(c) /\ Known' \subseteq Known \cup {call[c]})
  <2>1. CASE SendCall(c)
    <3>1. out_data[out_tail] = Sent(call[c])
      BY <2>1 DEF SendCall, IInv, Prepared
    <3> QED
      BY <1>2, <2>1, <3>1 DEF SendCall
  <2>2. CASE Begin(c) \/ Reserve(c) \/ ReserveFails(c) \/ PrepareCall(c) \/ Woken(c)
             \/ TimedOut(c) \/ Remove(c)
    BY <1>1, <2>2 DEF Begin, Reserve, ReserveFails, PrepareCall, Prepare, Woken, TimedOut,
                      Remove
  <2> QED
    BY <1>3, <2>1, <2>2 DEF CallerStep
<1>4. CASE OutCompletion \/ InCompletion \/ HandleReply \/ ReplyDone \/ DropReply \/ HandleAsk
           \/ AskReserve \/ AskReserveFails \/ AskPrepare \/ SubmitPending \/ UNCHANGED vars
  BY <1>1, <1>4 DEF OutCompletion, InCompletion, HandleReply, ReplyDone, DropReply, HandleAsk,
              AskReserve, AskReserveFails, AskPrepare, Prepare, SubmitPending, vars
<1>5. CASE AskSend
  <2>1. out_data[out_tail] = Sent(0)
    BY <1>5 DEF AskSend, IInv, Prepared
  <2> QED
    BY <1>2, <1>5, <2>1 DEF AskSend
<1>6. CASE DeviceRead
  <2>1. /\ Len(ring) > 0 /\ ring[1] = Head(ring)
        /\ Len(ring') = Len(ring) - 1
        /\ \A i \in 1..Len(ring') : ring'[i] = ring[i + 1]
    BY <1>0, <1>6, HeadTailProperties, LenProperties, EmptySeq DEF DeviceRead
  <2>2. out_data[Head(ring).buf] = ring[1].msg
    BY <1>0, <2>1, LenProperties DEF IInv, BufferIntact
  <2>3. asked' \subseteq asked \cup {ring[1].msg.n}
    BY <1>6, <2>2 DEF DeviceRead
  <2>4. ring[1].msg.n \in Known
    BY <1>0, <2>1 DEF Known
  <2>5. ASSUME NEW i \in 1..Len(ring') PROVE ring'[i].msg.n \in Known
    <3>1. i + 1 \in 1..Len(ring)
      BY <1>0, <2>1
    <3> QED
      BY <2>1, <3>1 DEF Known
  <2>6. in_data' = in_data
    BY <1>6 DEF DeviceRead
  <2> QED
    BY <2>3, <2>4, <2>5, <2>6 DEF Known
<1>7. ASSUME NEW msg, Fill(msg), asked' \subseteq asked, msg.n \in Known \cup {0}
      PROVE  Known' \subseteq Known \cup {0}
  <2>1. ring' = ring /\ in_data' = [in_data EXCEPT ![in_next] = msg]
    BY <1>7 DEF Fill
  <2>2. \A i \in Slots : in_data'[i].n \in Known \cup {0}
    BY <1>0, <1>7, <2>1 DEF Known
  <2> QED
    BY <1>7, <2>1, <2>2 DEF Known
<1>8. ASSUME NEW n \in asked, DeviceReply(n) PROVE Known' \subseteq Known \cup {0}
  <2>1. Sent(n).n = n /\ n \in Known
    BY DEF Sent, Known
  <2> QED
    BY <1>7, <1>8, <2>1 DEF DeviceReply
<1>9. ASSUME NEW type \in {"command", "boot"}, DeviceAsk(type)
      PROVE  Known' \subseteq Known \cup {0}
  BY <1>7, <1>9, AskType DEF DeviceAsk
<1> QED
  BY <1>3, <1>4, <1>5, <1>6, <1>8, <1>9 DEF Next, HandlerStep

LEMMA NumbersNext ==
    ASSUME IInv, [Next]_vars
    PROVE  Numbers'
<1>1. count \in Nat /\ count' \in Nat /\ count <= count'
  <2>1. count' = count \/ count' = count + 1
    BY DEF Next, CallerStep, Begin, Reserve, ReserveFails, PrepareCall, SendCall, Woken,
           TimedOut, Remove, HandlerStep, OutCompletion, InCompletion, HandleReply,
           ReplyDone, DropReply, HandleAsk, AskReserve, AskReserveFails, AskPrepare,
           AskSend, SubmitPending, DeviceRead, DeviceReply, DeviceAsk, Fill, vars
  <2> QED
    BY <2>1 DEF IInv, Types
<1>2. CASE Known' \subseteq Known \cup {0}
  BY <1>1, <1>2 DEF IInv, Numbers
<1>3. ASSUME NEW c \in Callers, SendCall(c), Known' \subseteq Known \cup {call[c]}
      PROVE  Numbers'
  <2>1. call[c] = count
    BY <1>3 DEF IInv, Prepared, SendCall
  <2> QED
    BY <1>1, <1>3, <2>1 DEF IInv, Numbers
<1> QED
  BY <1>2, <1>3, KnownNext

-----------------------------------------------------------------------------
(* The entries                                                             *)

Places == {"idle", "reserve", "prepare", "send", "wait", "expired"}

EntryIsGood(t, c) == /\ pc[c] \in {"wait", "expired"} /\ got[c] = 0
                     /\ t = call[c] % Tags
                     /\ \A n \in Known : n % Tags = t => n <= call[c]

(* An entry of before is good for as long as its call is left alone.       *)
LEMMA EntryStays ==
    ASSUME IInv, NEW t \in 0..(Tags - 1), NEW c \in Callers,
           pending_entries[t] = c, ~Waking(t),
           pc'[c] \in {"wait", "expired"}, got'[c] = got[c], call'[c] = call[c],
           NEW n \in Nat, Known' \subseteq Known \cup {0, n}, n = 0 \/ n % Tags # t
    PROVE  EntryIsGood(t, c)'
<1>1. EntryIsGood(t, c)
  BY DEF IInv, Entries, EntryIsGood
<1>2. call[c] \in Nat
  BY DEF IInv, Types
<1> QED
  BY <1>1, <1>2 DEF EntryIsGood

(* A step that creates no entry, disturbs no call that has one, and clears *)
(* the one whose caller has been woken.                                    *)
LEMMA EntriesStay ==
    ASSUME IInv, Known' \subseteq Known \cup {0},
           \A t \in 0..(Tags - 1) : \A c \in Callers :
               pending_entries'[t] = c /\ ~Waking(t)' =>
                   pending_entries[t] = c /\ ~Waking(t)
                   /\ pc'[c] \in {"wait", "expired"} /\ got'[c] = got[c] /\ call'[c] = call[c]
    PROVE  Entries'
<1>1. ASSUME NEW t \in 0..(Tags - 1), NEW c \in Callers,
             pending_entries'[t] = c, ~Waking(t)'
      PROVE  EntryIsGood(t, c)'
  BY <1>1, EntryStays
<1> QED
  BY <1>1 DEF Entries, EntryIsGood

(* The caller of an entry, unless it is being woken.                       *)
LEMMA EntryCaller ==
    ASSUME IInv, NEW t \in 0..(Tags - 1), NEW c \in Callers,
           pending_entries[t] = c, ~Waking(t)
    PROVE  EntryIsGood(t, c)
BY DEF IInv, Entries, EntryIsGood

LEMMA EntriesNext ==
    ASSUME IInv, [Next]_vars
    PROVE  Entries'
<1> USE AudioProtocolAssumption
    DEF Goto, Return, Prepare, Advance, qout, qin, callers, device
<1>0. /\ pc \in [Callers -> Places]
      /\ call \in [Callers -> Nat] /\ got \in [Callers -> Nat]
      /\ pending_entries \in [0..(Tags - 1) -> Callers \cup {Nobody}]
      /\ Locked /\ Prepared /\ Unwoken /\ Numbers
      /\ Msg.n \in Nat
  BY DEF IInv, Types, Places, Msg, Messages
<1> DEFINE Step == \A t \in 0..(Tags - 1) : \A c \in Callers :
               pending_entries'[t] = c /\ ~Waking(t)' =>
                   pending_entries[t] = c /\ ~Waking(t)
                   /\ pc'[c] \in {"wait", "expired"} /\ got'[c] = got[c] /\ call'[c] = call[c]
<1>1. ASSUME Step, Known' \subseteq Known \cup {0} PROVE Entries'
  BY <1>1, EntriesStay
<1>2. ASSUME NEW d \in Callers, CallerStep(d) PROVE Step \/ SendCall(d)
  <2>1. Waking(0)' = Waking(0) /\ \A t : Waking(t)' = Waking(t)
    BY <1>2 DEF CallerStep, Begin, Reserve, ReserveFails, PrepareCall, SendCall, Woken,
                TimedOut, Remove, Waking, Msg
  <2>2. CASE Begin(d) \/ Reserve(d) \/ ReserveFails(d) \/ PrepareCall(d)
    <3>1. /\ pc[d] \notin {"wait", "expired"} /\ pending_entries' = pending_entries
          /\ \A c \in Callers \ {d} : /\ pc'[c] = pc[c] /\ got'[c] = got[c]
                                      /\ call'[c] = call[c]
      BY <1>0, <2>2 DEF Begin, Reserve, ReserveFails, PrepareCall
    <3> QED
      BY <2>1, <3>1, EntryCaller DEF EntryIsGood
  <2>3. CASE Woken(d)
    <3>1. /\ got[d] # 0 /\ pending_entries' = pending_entries
          /\ \A c \in Callers \ {d} : /\ pc'[c] = pc[c] /\ got'[c] = got[c]
                                      /\ call'[c] = call[c]
      BY <1>0, <2>3 DEF Woken
    <3> QED
      BY <2>1, <3>1, EntryCaller DEF EntryIsGood
  <2>4. CASE TimedOut(d)
    <3>1. /\ UNCHANGED <<got, call, pending_entries>>
          /\ \A c \in Callers : pc[c] \in {"wait", "expired"} => pc'[c] \in {"wait", "expired"}
      BY <1>0, <2>4 DEF TimedOut
    <3> QED
      BY <2>1, <3>1, EntryCaller DEF EntryIsGood
  <2>5. CASE Remove(d)
    <3>1. /\ pc[d] = "expired" /\ spinlock = Nobody
          /\ \A c \in Callers \ {d} : /\ pc'[c] = pc[c] /\ got'[c] = got[c]
                                      /\ call'[c] = call[c]
      BY <1>0, <2>5 DEF Remove
    <3>2. handler # "reply"
      BY <1>0, <3>1 DEF Locked
    <3>3. ASSUME NEW t \in 0..(Tags - 1), NEW c \in Callers, pending_entries'[t] = c
          PROVE  c # d /\ pending_entries[t] = c
      <4>1. pending_entries[t] = c /\ (t = call[d] % Tags => c # d)
        BY <1>0, <2>5, <3>3 DEF Remove
      <4>2. t = call[c] % Tags
        BY <3>2, <4>1, EntryCaller DEF EntryIsGood, Waking
      <4> QED
        BY <4>1, <4>2
    <3> QED
      BY <2>1, <3>1, <3>3, EntryCaller DEF EntryIsGood
  <2> QED
    BY <1>2, <2>2, <2>3, <2>4, <2>5 DEF CallerStep
<1>3. ASSUME NEW d \in Callers, SendCall(d), Known' \subseteq Known \cup {0, call[d]}
      PROVE  Entries'
  <2>1. /\ pc[d] = "send" /\ pc' = [pc EXCEPT ![d] = "wait"]
        /\ pending_entries' = [pending_entries EXCEPT ![call[d] % Tags] = d]
        /\ UNCHANGED <<handler, call, got>>
    BY <1>3 DEF SendCall
  <2>2. handler # "reply" /\ call[d] = count /\ got[d] = 0
    BY <1>0, <2>1 DEF Locked, Prepared, Unwoken
  <2>3. ASSUME NEW t \in 0..(Tags - 1), NEW c \in Callers, pending_entries'[t] = c
        PROVE  EntryIsGood(t, c)'
    <3>1. CASE t = call[d] % Tags
      <4>1. c = d
        BY <1>0, <2>1, <2>3, <3>1
      <4>2. \A n \in Known' : n <= call[d]
        BY <1>0, <1>3, <2>2 DEF Numbers
      <4> QED
        BY <1>0, <2>1, <2>2, <3>1, <4>1, <4>2 DEF EntryIsGood
    <3>2. CASE t # call[d] % Tags
      <4>1. pending_entries[t] = c /\ ~Waking(t)
        BY <1>0, <2>1, <2>2, <2>3, <3>2 DEF Waking
      <4>2. c # d /\ pc[c] \in {"wait", "expired"}
        BY <2>1, <4>1, EntryCaller DEF EntryIsGood
      <4>3. pc'[c] \in {"wait", "expired"} /\ got'[c] = got[c] /\ call'[c] = call[c]
        BY <1>0, <2>1, <4>2
      <4> QED
        BY <1>0, <1>3, <3>2, <4>1, <4>3, EntryStays
    <3> QED
      BY <3>1, <3>2
  <2> QED
    BY <2>3 DEF Entries, EntryIsGood
<1>4. CASE HandleReply
  <2>1. /\ handler = "in" /\ handler' = "reply" /\ Msg' = Msg
        /\ UNCHANGED <<pending_entries, pc, call>>
        /\ Entry \in Callers /\ got' = [got EXCEPT ![Entry] = Msg.n]
    BY <1>0, <1>4, TagType DEF HandleReply, Entry, Msg
  <2>2. ASSUME NEW t \in 0..(Tags - 1), NEW c \in Callers,
               pending_entries'[t] = c, ~Waking(t)'
        PROVE  /\ pending_entries[t] = c /\ ~Waking(t)
               /\ pc'[c] \in {"wait", "expired"} /\ got'[c] = got[c] /\ call'[c] = call[c]
    <3>1. t # Msg.n % Tags /\ ~Waking(t) /\ ~Waking(Msg.n % Tags)
      BY <2>1, <2>2 DEF Waking
    <3>2. EntryIsGood(t, c)
      BY <2>1, <2>2, <3>1, EntryCaller
    <3>3. Entry # c
      BY <1>0, <3>1, <3>2, TagType, EntryCaller DEF Entry, EntryIsGood
    <3> QED
      BY <1>0, <2>1, <2>2, <3>1, <3>2, <3>3 DEF EntryIsGood
  <2> QED
    BY <1>1, <1>4, <2>2, KnownNext DEF HandleReply, SendCall
<1>5. CASE ReplyDone
  <2>1. /\ handler = "reply" /\ handler' = "in"
        /\ pending_entries' = [pending_entries EXCEPT ![Msg.n % Tags] = Nobody]
        /\ UNCHANGED <<pc, call, got>>
    BY <1>5 DEF ReplyDone
  <2>2. ASSUME NEW t \in 0..(Tags - 1), NEW c \in Callers, pending_entries'[t] = c
        PROVE  pending_entries[t] = c /\ ~Waking(t)
    BY <1>0, <2>1, <2>2 DEF Waking
  <2> QED
    BY <2>1, <2>2, EntryCaller, <1>1, <1>5, KnownNext DEF ReplyDone, SendCall, EntryIsGood
<1>6. CASE OutCompletion \/ InCompletion \/ DropReply \/ HandleAsk \/ AskReserve
           \/ AskReserveFails \/ AskPrepare \/ AskSend \/ SubmitPending
  <2>1. /\ handler # "reply" /\ handler' # "reply"
        /\ UNCHANGED <<pc, call, got, pending_entries>>
    BY <1>6 DEF OutCompletion, InCompletion, DropReply, HandleAsk, AskReserve,
                AskReserveFails, AskPrepare, AskSend, SubmitPending
  <2>2. Step
    BY <2>1, EntryCaller DEF Waking, EntryIsGood
  <2>3. ~ \E c \in Callers : pc[c] = "send" /\ pc' = [pc EXCEPT ![c] = "wait"]
    BY <1>0, <2>1
  <2>4. Known' \subseteq Known \cup {0}
    BY <2>3, KnownNext DEF SendCall
  <2> QED
    BY <1>1, <2>2, <2>4
<1>7. CASE DeviceRead \/ UNCHANGED vars
  <2>1. UNCHANGED <<handler, in_head, in_data, pc, call, got, pending_entries>>
    BY <1>7 DEF DeviceRead, vars
  <2>2. Step
    BY <2>1, EntryCaller DEF Waking, Msg, EntryIsGood
  <2>3. ~ \E c \in Callers : pc[c] = "send" /\ pc' = [pc EXCEPT ![c] = "wait"]
    BY <1>0, <2>1
  <2>4. Known' \subseteq Known \cup {0}
    BY <2>3, KnownNext DEF SendCall
  <2> QED
    BY <1>1, <2>2, <2>4
<1>8. ASSUME NEW msg, Fill(msg) PROVE Entries'
  <2>1. UNCHANGED <<handler, pc, call, got, pending_entries>>
    BY <1>8 DEF Fill
  <2>2. handler = "reply" => Msg' = Msg
    BY <1>8, MsgStays DEF IInv, PostsConserved
  <2>3. Step
    BY <2>1, <2>2, EntryCaller DEF Waking, EntryIsGood
  <2>4. ~ \E c \in Callers : pc[c] = "send" /\ pc' = [pc EXCEPT ![c] = "wait"]
    BY <1>0, <2>1
  <2>5. Known' \subseteq Known \cup {0}
    BY <2>4, KnownNext DEF SendCall
  <2> QED
    BY <1>1, <2>3, <2>5
<1>9. ASSUME NEW d \in Callers, CallerStep(d) PROVE Entries'
  <2>1. CASE \E c \in Callers : SendCall(c) /\ Known' \subseteq Known \cup {call[c]}
    BY <1>3, <2>1
  <2>2. CASE Known' \subseteq Known \cup {0} /\ ~SendCall(d)
    BY <1>1, <1>2, <1>9, <2>2
  <2>3. CASE Known' \subseteq Known \cup {0} /\ SendCall(d)
    BY <1>3, <2>3
  <2> QED
    BY <2>1, <2>2, <2>3, KnownNext
<1> QED
  BY <1>6, <1>4, <1>5, <1>7, <1>8, <1>9
  DEF Next, HandlerStep, DeviceReply, DeviceAsk

-----------------------------------------------------------------------------
(* What a reply finds                                                      *)
LEMMA UnwokenNext ==
    ASSUME IInv, [Next]_vars
    PROVE  Unwoken'
<1> USE DEF Unwoken, Goto, Return, Prepare, Advance, qout, qin, callers, device
<1>0. /\ pc \in [Callers -> Places] /\ got \in [Callers -> Nat] /\ Unwoken
      /\ pending_entries \in [0..(Tags - 1) -> Callers \cup {Nobody}]
      /\ Msg.n \in Nat
  BY DEF IInv, Types, Places, Msg, Messages
<1>1. ASSUME NEW c \in Callers, CallerStep(c) PROVE Unwoken'
  <2>1. \A d \in Callers \ {c} : pc'[d] = pc[d] /\ got'[d] = got[d]
    BY <1>0, <1>1 DEF CallerStep, Begin, Reserve, ReserveFails, PrepareCall, SendCall, Woken,
                      TimedOut, Remove
  <2>2. pc'[c] \notin {"wait", "expired"} => got'[c] = 0
    BY <1>0, <1>1 DEF CallerStep, Begin, Reserve, ReserveFails, PrepareCall, SendCall, Woken,
                      TimedOut, Remove
  <2> QED
    BY <1>0, <2>1, <2>2
<1>2. CASE HandleReply
  <2>1. /\ handler = "in" /\ Entry \in Callers /\ pc' = pc
        /\ got' = [got EXCEPT ![Entry] = Msg.n]
    BY <1>0, <1>2, TagType DEF HandleReply, Entry
  <2>2. pc[Entry] \in {"wait", "expired"}
    BY <1>0, <2>1, TagType, EntryCaller DEF Waking, EntryIsGood, Entry
  <2> QED
    BY <1>0, <2>1, <2>2
<1>3. CASE OutCompletion \/ InCompletion \/ ReplyDone \/ DropReply \/ HandleAsk
           \/ AskReserve \/ AskReserveFails \/ AskPrepare \/ AskSend \/ SubmitPending
           \/ DeviceRead \/ UNCHANGED vars
  <2>1. UNCHANGED <<pc, got>>
    BY <1>3 DEF OutCompletion, InCompletion, ReplyDone, DropReply, HandleAsk, AskReserve,
                AskReserveFails, AskPrepare, AskSend, SubmitPending, DeviceRead, vars
  <2> QED
    BY <1>0, <2>1
<1>4. ASSUME NEW msg, Fill(msg) PROVE Unwoken'
  BY <1>0, <1>4 DEF Fill
<1> QED
  BY <1>1, <1>2, <1>3, <1>4 DEF Next, HandlerStep, DeviceReply, DeviceAsk

LEMMA OwnReplyNext ==
    ASSUME IInv, [Next]_vars
    PROVE  OwnReply'
<1> USE DEF OwnReply, Goto, Return, Prepare, Advance, qout, qin, callers, device
<1>0. /\ pc \in [Callers -> Places] /\ got \in [Callers -> Nat] /\ call \in [Callers -> Nat]
      /\ pending_entries \in [0..(Tags - 1) -> Callers \cup {Nobody}]
      /\ OwnReply /\ Unwoken
  BY DEF IInv, Types, Places
<1>1. ASSUME NEW c \in Callers, CallerStep(c) PROVE OwnReply'
  <2>1. \A d \in Callers \ {c} : pc'[d] = pc[d] /\ got'[d] = got[d] /\ call'[d] = call[d]
    BY <1>0, <1>1 DEF CallerStep, Begin, Reserve, ReserveFails, PrepareCall, SendCall, Woken,
                      TimedOut, Remove
  <2>2. pc'[c] = "wait" => got'[c] = 0
    BY <1>0, <1>1 DEF CallerStep, Begin, Reserve, ReserveFails, PrepareCall, SendCall, Woken,
                      TimedOut, Remove, Unwoken
  <2> QED
    BY <1>0, <2>1, <2>2
<1>2. CASE HandleReply
  <2>1. /\ handler = "in" /\ Entry \in Callers /\ UNCHANGED <<pc, call>>
        /\ in_head \in Slots /\ Msg.n \in Nat
        /\ got' = [got EXCEPT ![Entry] = Msg.n]
    <3>1. in_head \in Slots /\ Msg.n \in Nat
      BY DEF IInv, Types, Msg, Messages
    <3> QED
      BY <1>0, <1>2, <3>1, TagType DEF HandleReply, Entry
  <2>2. EntryIsGood(Msg.n % Tags, Entry)
    BY <2>1, TagType, EntryCaller DEF Waking, Entry
  <2>3. Msg.n \in Known
    BY <2>1 DEF Msg, Known
  <2>4. Msg.n <= call[Entry] /\ Msg.n % Tags = call[Entry] % Tags
    BY <2>2, <2>3 DEF EntryIsGood
  <2>5. call[Entry] = Msg.n \/ call[Entry] >= Msg.n + Tags
    BY <1>0, <2>1, <2>4, RoundOfTags
  <2> QED
    BY <1>0, <2>1, <2>5
<1>3. CASE OutCompletion \/ InCompletion \/ ReplyDone \/ DropReply \/ HandleAsk
           \/ AskReserve \/ AskReserveFails \/ AskPrepare \/ AskSend \/ SubmitPending
           \/ DeviceRead \/ UNCHANGED vars
  <2>1. UNCHANGED <<pc, got, call>>
    BY <1>3 DEF OutCompletion, InCompletion, ReplyDone, DropReply, HandleAsk, AskReserve,
                AskReserveFails, AskPrepare, AskSend, SubmitPending, DeviceRead, vars
  <2> QED
    BY <1>0, <2>1
<1>4. ASSUME NEW msg, Fill(msg) PROVE OwnReply'
  BY <1>0, <1>4 DEF Fill
<1> QED
  BY <1>1, <1>2, <1>3, <1>4 DEF Next, HandlerStep, DeviceReply, DeviceAsk

-----------------------------------------------------------------------------
LEMMA InitInvariant == Init => IInv
<1> SUFFICES ASSUME Init PROVE IInv
  OBVIOUS
<1> USE AudioProtocolAssumption DEF Init, InitWith
<1>1. Sent(0) \in Messages /\ Sent(0).n = 0 /\ 0 \in Slots /\ Bufs \in Nat /\ Bufs > 0
  BY SentType DEF Slots
<1>2. ring = <<>> /\ Len(ring) = 0 /\ ring \in Seq([buf : Slots, msg : Messages])
      /\ DOMAIN ring = {}
  BY EmptySeq
<1>3. Types
  BY <1>1, <1>2 DEF Types
<1>4. SlotsConserved
  <2>1. Holders = {} /\ Cardinality({}) = 0
    BY FS_EmptySet DEF Holders
  <2>2. Held = 0
    BY <2>1 DEF Held
  <2> QED
    BY <1>1, <1>2, <2>2 DEF SlotsConserved
<1>5. PostsConserved
  BY <1>1 DEF PostsConserved
<1>6. Locked
  BY DEF Locked
<1>7. InRing
  BY <1>1 DEF InRing, Behind
<1>8. OutRing /\ BufferIntact
  BY <1>2 DEF OutRing, BufferIntact
<1>9. Prepared
  BY DEF Prepared
<1>10. Numbers
  BY <1>1, <1>2 DEF Numbers, Known
<1>11. Entries
  BY DEF Entries
<1>12. Unwoken /\ OwnReply
  BY DEF Unwoken, OwnReply
<1> QED
  BY <1>3, <1>4, <1>5, <1>6, <1>7, <1>8, <1>9, <1>10, <1>11, <1>12 DEF IInv

LEMMA NextInvariant == IInv /\ [Next]_vars => IInv'
BY TypesNext, SlotsNext, PostsNext, LockedNext, RingNext, PreparedNext, NumbersNext,
   EntriesNext, UnwokenNext, OwnReplyNext DEF IInv

LEMMA Invariance == Spec => []IInv
BY InitInvariant, NextInvariant, PTL DEF Spec

-----------------------------------------------------------------------------
(* A slot, a buffer and a number stay within what there is of them: no     *)
(* more slots are given back than were reserved, and no more buffers       *)
(* posted than the in queue has.                                           *)
THEOREM TypeCorrect == Spec => []TypeOK
<1>1. IInv => TypeOK
  <2> SUFFICES ASSUME IInv PROVE TypeOK
    OBVIOUS
  <2>1. Cardinality(Holders) \in Nat
    BY AudioProtocolAssumption, FS_Subset, FS_CardinalityType DEF Holders
  <2>2. Held \in Nat
    BY <2>1 DEF Held
  <2>3. available \in 0..Bufs /\ confirmed \in 0..Bufs
    <3>1. available \in Nat /\ confirmed \in Nat /\ Len(ring) \in Nat /\ SlotsConserved
      BY LenProperties DEF IInv, Types
    <3> HIDE DEF Held
    <3> QED
      BY <2>2, <3>1, AudioProtocolAssumption DEF SlotsConserved
  <2>4. /\ posted \in 0..Bufs /\ in_done \in 0..Bufs /\ in_ready \in 0..Bufs
        /\ cnt \in 0..Bufs
    BY AudioProtocolAssumption DEF IInv, Types, PostsConserved
  <2>5. asked \subseteq 1..count
    BY DEF IInv, Types, Numbers, Known
  <2> QED
    BY <2>3, <2>4, <2>5 DEF TypeOK, IInv, Types
<1> QED
  BY <1>1, Invariance, PTL

(* A command whose buffer the device has yet to read is not overwritten:   *)
(* __aaudio_send_prepare writes the buffer at the tail, which is outside   *)
(* the part of the ring that is in use.                                    *)
THEOREM BuffersStayIntact == Spec => []BufferIntact
<1>1. IInv => BufferIntact
  BY DEF IInv
<1> QED
  BY <1>1, Invariance, PTL

(* A caller is woken by the reply to its own command, or by one that is at *)
(* least a round of tags late: aaudio_handle_reply never copies a buffer   *)
(* that the device has filled again.                                       *)
THEOREM RepliesAreOwn == Spec => []OwnReply
<1>1. IInv => OwnReply
  BY DEF IInv
<1> QED
  BY <1>1, Invariance, PTL

(* aaudio_handle_reply never finds the stack frame of a call that has      *)
(* returned: a timed out call removes its entry under the lock, and a      *)
(* woken one is not forgotten before the entry is cleared.                 *)
THEOREM EntriesAreLive == Spec => []NoDanglingEntry
<1>1. IInv => NoDanglingEntry
  <2> SUFFICES ASSUME IInv, NEW t \in DOMAIN pending_entries,
                      pending_entries[t] # Nobody, spinlock # Handler
               PROVE  pc[pending_entries[t]] \in {"wait", "expired"}
    BY DEF NoDanglingEntry
  <2>1. t \in 0..(Tags - 1) /\ pending_entries[t] \in Callers
    BY DEF IInv, Types
  <2>2. ~Waking(t)
    BY DEF IInv, Locked, Waking
  <2> QED
    BY <2>1, <2>2, EntryCaller DEF EntryIsGood
<1> QED
  BY <1>1, Invariance, PTL

=============================================================================
