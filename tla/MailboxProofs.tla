---------------------------- MODULE MailboxProofs ----------------------------
(***************************************************************************)
(* Proofs about Mailbox for any number of probes, any of which may meet    *)
(* late answers.                                                           *)
(*                                                                         *)
(* The argument: while no earlier probe can have left a reply behind, at   *)
(* most one message is on its way, the one that bce_mailbox_send waits     *)
(* for, and mb_status is 2 only after its reply was stored.  A probe whose *)
(* device is never late leaves nothing on its way and no interrupt running *)
(* whenever it does not wait, so that the next probe starts like the       *)
(* first.                                                                  *)
(***************************************************************************)
EXTENDS Mailbox, SequenceTheorems, TLAPS

Late == bind \in LateProbes

(* Nothing is on its way, and mb_status will not be set to 2.              *)
Quiet == asked = <<>> /\ replies = <<>> /\ irq # "retrieved"

Mine(r) == r # NoReply /\ r.to = Msg

(* The message that is waited for is with the device, or its reply is in   *)
(* the registers or in mb_result.                                          *)
InFlight ==
    \/ irq # "retrieved" /\ replies = <<>> /\ asked = <<Msg>>
    \/ irq # "retrieved" /\ asked = <<>> /\ \E r \in Replies : replies = <<r>> /\ r.to = Msg
    \/ irq = "retrieved" /\ asked = <<>> /\ replies = <<>> /\ Mine(mb_result)

Answered == Quiet /\ mb_status = 2 /\ Mine(mb_result)

SendInv ==
    /\ pc \in {"claim", "reinit", "write", "read", "clear", "examine", "bound"} => Quiet
    /\ pc \in {"reinit", "write"} => mb_status = 1
    /\ pc \in {"wait", "check"} => (mb_status # 2 /\ (InFlight \/ Quiet)) \/ Answered
    /\ pc = "read" => Answered
    /\ pc \in {"clear", "examine"} => Mine(recv)

(* A device that is not late is done before the wait is over.              *)
Punctual ==
    ~Late => /\ pc # "wait" => Quiet /\ irq = "idle"
             /\ pc = "write" => done = 0
             /\ pc = "wait" /\ irq = "status" => Answered
             /\ pc = "wait" /\ done > 0 => Answered /\ irq = "idle"

(* The probe has come as far as the device has agreed to.                  *)
Steps == /\ pc # "unbound" => \A n \in 1..(k - 1) : <<bind, n>> \in granted
         /\ pc = "bound" => k = 3 /\ <<bind, 3>> \in granted

(* A reply that says what is hoped for was given by a device that agreed.  *)
Granted(r) == r.type = Expected[r.to[2]] => r.to \in granted
Honest == /\ \A i \in DOMAIN replies : Granted(replies[i])
          /\ mb_result # NoReply => Granted(mb_result)
          /\ recv # NoReply => Granted(recv)

IInv == /\ TypeOK /\ Honest
        /\ pc # "unbound" => bind # 0
        /\ Undisturbed => SendInv /\ Punctual /\ Steps

LEMMA Single ==
    ASSUME NEW S, NEW x \in S
    PROVE  /\ Append(<<>>, x) = <<x>> /\ Head(<<x>>) = x /\ Tail(<<x>>) = <<>>
           /\ Last(<<x>>) = x /\ <<x>> # <<>>
BY DEF Last

LEMMA ExpectedLength == DOMAIN Expected = 1..3 /\ Len(Expected) = 3
BY DEF Expected

LEMMA MsgType == ASSUME TypeOK, bind # 0 PROVE Msg \in Messages /\ Msg[2] = k
BY DEF TypeOK, Msg, Messages

(* The steps of the probe that send nothing to the device.                 *)
LEMMA CallerStep ==
    ASSUME IInv,
           \/ Claim \/ Busy \/ Reinit \/ Woken \/ TimedOut \/ CheckStatus
           \/ GiveUp \/ ReadResult \/ Clear \/ Unbind
    PROVE  IInv'
<1>1. /\ UNCHANGED <<mb_result, bind, k, irq, asked, replies, granted>>
      /\ recv' \in {recv, mb_result}
  BY DEF Claim, Busy, Reinit, Woken, TimedOut, CheckStatus, GiveUp, ReadResult, Clear, Unbind,
         device
<1>2. TypeOK'
  BY <1>1 DEF IInv, TypeOK, Claim, Busy, Reinit, Woken, TimedOut, CheckStatus, GiveUp, ReadResult,
              Clear, Unbind, Goto, Places, Sending
<1>3. Honest' /\ (pc' # "unbound" => bind' # 0)
  <2>1. Honest'
    BY <1>1 DEF IInv, Honest, Granted
  <2>2. pc' # "unbound" => pc # "unbound"
    BY DEF Claim, Busy, Reinit, Woken, TimedOut, CheckStatus, GiveUp, ReadResult, Clear, Unbind
  <2> QED
    BY <1>1, <2>1, <2>2 DEF IInv
<1>4. ASSUME Undisturbed
      PROVE  SendInv' /\ Punctual' /\ Steps'
  <2>1. SendInv /\ Punctual /\ Steps
    BY <1>4 DEF IInv
  <2>2. /\ Quiet' <=> Quiet
        /\ InFlight' <=> InFlight
        /\ Late' <=> Late
        /\ Answered' <=> (Quiet /\ mb_status' = 2 /\ Mine(mb_result))
    BY <1>1 DEF Quiet, InFlight, Late, Mine, Msg, Answered
  <2>3. Steps'
    BY <1>1, <2>1 DEF Steps, Claim, Busy, Reinit, Woken, TimedOut, CheckStatus, GiveUp, ReadResult,
                      Clear, Unbind, Goto
  <2>4. CASE Claim
    BY <1>1, <2>1, <2>2, <2>3, <2>4 DEF Claim, Goto, SendInv, Punctual
  <2>5. CASE Busy
    BY <1>1, <2>1, <2>2, <2>3, <2>5 DEF Busy, Goto, SendInv, Punctual
  <2>6. CASE Reinit
    BY <1>1, <2>1, <2>2, <2>3, <2>6 DEF Reinit, Goto, SendInv, Punctual
  <2>7. CASE Woken
    <3>1. /\ pc = "wait" /\ pc' = "check" /\ mb_status' = mb_status /\ irq' = irq
          /\ done > 0
      BY <1>1, <2>7 DEF Woken, Goto
    <3>2. (Answered' <=> Answered) /\ (Answered => Quiet)
      BY <2>2, <3>1 DEF Answered
    <3> QED
      BY <2>1, <2>2, <2>3, <3>1, <3>2 DEF SendInv, Punctual
  <2>8. CASE TimedOut
    <3>1. pc = "wait" /\ pc' = "check" /\ mb_status' = mb_status /\ irq' = irq
      BY <1>1, <2>8 DEF TimedOut, Goto
    <3>2. ASSUME ~Late PROVE Quiet /\ irq = "idle"
      BY <2>8, <3>2 DEF TimedOut, Late, Quiet
    <3>3. Answered' <=> Answered
      BY <2>2, <3>1 DEF Answered
    <3> QED
      BY <2>1, <2>2, <2>3, <3>1, <3>2, <3>3 DEF SendInv, Punctual
  <2>9. CASE CheckStatus
    <3>1. /\ pc = "check" /\ pc' = (IF mb_status = 2 THEN "read" ELSE "give_up")
          /\ mb_status' = mb_status /\ irq' = irq
      BY <1>1, <2>9 DEF CheckStatus, Goto
    <3>2. Answered' <=> Answered
      BY <2>2, <3>1 DEF Answered
    <3> QED
      BY <2>1, <2>2, <2>3, <3>1, <3>2 DEF SendInv, Punctual
  <2>10. CASE GiveUp
    BY <1>1, <2>1, <2>2, <2>3, <2>10 DEF GiveUp, Goto, SendInv, Punctual
  <2>11. CASE ReadResult
    BY <1>1, <2>1, <2>2, <2>3, <2>11 DEF ReadResult, Goto, SendInv, Punctual, Answered, Mine, Msg
  <2>12. CASE Clear
    BY <1>1, <2>1, <2>2, <2>3, <2>12 DEF Clear, Goto, SendInv, Punctual, Mine, Msg
  <2>13. CASE Unbind
    BY <1>1, <2>1, <2>2, <2>3, <2>13 DEF Unbind, Goto, SendInv, Punctual
  <2> QED
    BY <2>3, <2>4, <2>5, <2>6, <2>7, <2>8, <2>9, <2>10, <2>11, <2>12, <2>13
<1>5. Undisturbed' => Undisturbed
  BY <1>1 DEF Undisturbed
<1> QED
  BY <1>2, <1>3, <1>4, <1>5 DEF IInv
LEMMA WriteStep ==
    ASSUME IInv, WriteMessage
    PROVE  IInv'
<1>1. /\ UNCHANGED <<mb_status, done, mb_result, recv, bind, k, irq, replies, granted>>
      /\ pc = "write" /\ pc' = "wait" /\ asked' = Append(asked, Msg)
  BY DEF WriteMessage, Goto
<1>2. Msg \in Messages
  BY <1>1, MsgType DEF IInv
<1>3. TypeOK'
  BY <1>1, <1>2 DEF IInv, TypeOK, Places, Sending
<1>4. Honest' /\ (pc' # "unbound" => bind' # 0)
  BY <1>1 DEF IInv, Honest, Granted
<1>5. ASSUME Undisturbed
      PROVE  SendInv' /\ Punctual' /\ Steps'
  <2>1. SendInv /\ Punctual /\ Steps
    BY <1>5 DEF IInv
  <2>2. Quiet /\ mb_status = 1 /\ (~Late => irq = "idle" /\ done = 0)
    BY <1>1, <2>1 DEF SendInv, Punctual
  <2>3. asked' = <<Msg>>
    BY <1>1, <1>2, <2>2, Single DEF Quiet
  <2>4. InFlight'
    BY <1>1, <2>2, <2>3 DEF InFlight, Quiet, Msg
  <2>5. Steps'
    BY <1>1, <2>1 DEF Steps
  <2> QED
    BY <1>1, <2>2, <2>4, <2>5 DEF SendInv, Punctual, Late
<1>6. Undisturbed' => Undisturbed
  BY <1>1 DEF Undisturbed
<1> QED
  BY <1>3, <1>4, <1>5, <1>6 DEF IInv

LEMMA BindStep ==
    ASSUME IInv, Bind
    PROVE  IInv'
<1>1. /\ UNCHANGED <<irq, asked, replies, granted>>
      /\ pc = "unbound" /\ pc' = "claim" /\ bind < MaxBinds /\ bind' = bind + 1 /\ k' = 1
      /\ mb_status' = 0 /\ done' = 0 /\ mb_result' = NoReply /\ recv' = NoReply
  BY DEF Bind, Goto, device
<1>2. bind \in Nat /\ bind' \in 1..MaxBinds
  BY <1>1, MailboxAssumption DEF IInv, TypeOK
<1>3. TypeOK'
  BY <1>1, <1>2, MailboxAssumption, ExpectedLength DEF IInv, TypeOK, Places, Sending
<1>4. Honest' /\ bind' # 0
  BY <1>1, <1>2 DEF IInv, Honest, Granted
<1>5. ASSUME Undisturbed'
      PROVE  SendInv' /\ Punctual' /\ Steps'
  <2>1. Undisturbed /\ ~Late
    BY <1>1, <1>2, <1>5, MailboxAssumption DEF Undisturbed, Late
  <2>2. Quiet /\ irq = "idle"
    BY <1>1, <2>1 DEF IInv, Punctual
  <2>3. Quiet'
    BY <1>1, <2>2 DEF Quiet
  <2>4. Steps'
    BY <1>1 DEF Steps
  <2> QED
    BY <1>1, <2>2, <2>3, <2>4 DEF SendInv, Punctual
<1> QED
  BY <1>3, <1>4, <1>5 DEF IInv

(* The reply is the device's to this very message, so that a reply of the  *)
(* type that is hoped for means that the device has agreed.                *)
LEMMA ExamineStep ==
    ASSUME IInv, Examine
    PROVE  IInv'
<1>1. /\ UNCHANGED <<mb_status, done, mb_result, recv, bind, irq, asked, replies, granted>>
      /\ pc = "examine" /\ pc' \in {"unwind", "claim", "bound"}
      /\ k \in 1..3 /\ k' \in 1..3 /\ bind # 0
  BY ExpectedLength DEF Examine, Goto, device, IInv, TypeOK
<1>2. TypeOK'
  BY <1>1, ExpectedLength DEF IInv, TypeOK, Places, Sending
<1>3. Honest' /\ (pc' # "unbound" => bind' # 0)
  BY <1>1 DEF IInv, Honest, Granted
<1>4. ASSUME Undisturbed
      PROVE  SendInv' /\ Punctual' /\ Steps'
  <2>1. SendInv /\ Punctual /\ Steps
    BY <1>4 DEF IInv
  <2>2. Quiet /\ Mine(recv) /\ (~Late => irq = "idle")
    BY <1>1, <2>1 DEF SendInv, Punctual
  <2>3. Quiet' /\ (Late' <=> Late)
    BY <1>1, <2>2 DEF Quiet, Late
  <2>4. SendInv'
    BY <1>1, <2>3 DEF SendInv
  <2>5. Punctual'
    BY <1>1, <2>2, <2>3 DEF Punctual
  <2>6. recv.type = Expected[k] => <<bind, k>> \in granted
    BY <2>2 DEF IInv, Honest, Granted, Mine, Msg
  <2>7. \A n \in 1..(k - 1) : <<bind, n>> \in granted
    BY <1>1, <2>1 DEF Steps
  <2>8. Steps'
    <3>1. CASE recv.type # Expected[k]
      BY <1>1, <2>7, <3>1 DEF Steps, Examine, Goto
    <3>2. CASE recv.type = Expected[k] /\ k < 3
      BY <1>1, <2>6, <2>7, <3>2, ExpectedLength DEF Steps, Examine, Goto
    <3>3. CASE recv.type = Expected[k] /\ ~(k < 3)
      BY <1>1, <2>6, <2>7, <3>3, ExpectedLength DEF Steps, Examine, Goto
    <3> QED
      BY <3>1, <3>2, <3>3
  <2> QED
    BY <2>4, <2>5, <2>8
<1>5. Undisturbed' => Undisturbed
  BY <1>1 DEF Undisturbed
<1> QED
  BY <1>2, <1>3, <1>4, <1>5 DEF IInv
(* The interrupt reads the replies: without an earlier probe's there is    *)
(* one at most, and it is waited for.                                      *)
LEMMA RetrieveStep ==
    ASSUME IInv, Retrieve
    PROVE  IInv'
<1>1. /\ UNCHANGED <<mb_status, done, recv, pc, bind, k, asked, granted>>
      /\ irq = "idle" /\ irq' = "retrieved" /\ pc # "unbound"
      /\ replies # <<>> /\ replies' = <<>> /\ mb_result' = Last(replies)
  BY DEF Retrieve
<1>2. replies \in Seq(Replies) /\ Len(replies) \in DOMAIN replies
  BY <1>1, EmptySeq DEF IInv, TypeOK
<1>3. mb_result' = replies[Len(replies)] /\ mb_result' \in Replies
  BY <1>1, <1>2 DEF Last
<1>4. TypeOK'
  BY <1>1, <1>3 DEF IInv, TypeOK
<1>5. Honest' /\ (pc' # "unbound" => bind' # 0)
  BY <1>1, <1>2, <1>3 DEF IInv, Honest, Granted
<1>6. ASSUME Undisturbed
      PROVE  SendInv' /\ Punctual' /\ Steps'
  <2>1. SendInv /\ Punctual /\ Steps
    BY <1>6 DEF IInv
  <2>2. ~Quiet /\ ~Answered
    BY <1>1 DEF Quiet, Answered
  <2>3. /\ pc \in {"wait", "check", "give_up", "unwind"}
        /\ ~Late => (pc = "wait" /\ ~(done > 0))
    BY <1>1, <2>1, <2>2 DEF SendInv, Punctual, IInv, TypeOK, Places, Sending
  <2>4. Steps'
    BY <1>1, <2>1 DEF Steps
  <2>5. Late' <=> Late
    BY <1>1 DEF Late
  <2>6. CASE pc \in {"wait", "check"}
    <3>1. mb_status # 2 /\ InFlight
      BY <2>1, <2>2, <2>6 DEF SendInv
    <3>2. asked = <<>> /\ \E r \in Replies : replies = <<r>> /\ r.to = Msg
      BY <1>1, <3>1 DEF InFlight
    <3>3. mb_result'.to = Msg
      BY <1>1, <3>2, Single
    <3>4. InFlight'
      BY <1>1, <1>3, <3>2, <3>3, NoReplyAssumption DEF InFlight, Mine, Msg
    <3> QED
      BY <1>1, <2>3, <2>4, <2>5, <2>6, <3>1, <3>4 DEF SendInv, Punctual
  <2>7. CASE pc \in {"give_up", "unwind"}
    BY <1>1, <2>3, <2>4, <2>5, <2>7 DEF SendInv, Punctual
  <2> QED
    BY <2>3, <2>6, <2>7
<1>7. Undisturbed' => Undisturbed
  BY <1>1 DEF Undisturbed
<1> QED
  BY <1>4, <1>5, <1>6, <1>7 DEF IInv
(* The reply is in mb_result by the time mb_status says so.                *)
LEMMA SetStatusStep ==
    ASSUME IInv, SetStatus
    PROVE  IInv'
<1>1. /\ UNCHANGED <<done, mb_result, recv, pc, bind, k, asked, replies, granted>>
      /\ irq = "retrieved" /\ irq' = "status" /\ mb_status' = 2
  BY DEF SetStatus, device
<1>2. TypeOK'
  BY <1>1 DEF IInv, TypeOK
<1>3. Honest' /\ (pc' # "unbound" => bind' # 0)
  BY <1>1 DEF IInv, Honest, Granted
<1>4. ASSUME Undisturbed
      PROVE  SendInv' /\ Punctual' /\ Steps'
  <2>1. SendInv /\ Punctual /\ Steps
    BY <1>4 DEF IInv
  <2>2. ~Quiet /\ ~Answered
    BY <1>1 DEF Quiet, Answered
  <2>3. /\ pc \in {"wait", "check", "give_up", "unwind", "unbound"}
        /\ ~Late => (pc = "wait" /\ ~(done > 0))
    BY <1>1, <2>1, <2>2 DEF SendInv, Punctual, IInv, TypeOK, Places, Sending
  <2>4. Steps'
    BY <1>1, <2>1 DEF Steps
  <2>5. Late' <=> Late
    BY <1>1 DEF Late
  <2>6. CASE pc \in {"wait", "check"}
    <3>1. InFlight
      BY <2>1, <2>2, <2>6 DEF SendInv
    <3>2. Answered'
      BY <1>1, <3>1 DEF InFlight, Answered, Quiet, Mine, Msg
    <3> QED
      BY <1>1, <2>3, <2>4, <2>5, <2>6, <3>2 DEF SendInv, Punctual
  <2>7. CASE pc \in {"give_up", "unwind", "unbound"}
    BY <1>1, <2>3, <2>4, <2>5, <2>7 DEF SendInv, Punctual
  <2> QED
    BY <2>3, <2>6, <2>7
<1>5. Undisturbed' => Undisturbed
  BY <1>1 DEF Undisturbed
<1> QED
  BY <1>2, <1>3, <1>4, <1>5 DEF IInv

LEMMA CompleteStep ==
    ASSUME IInv, Complete
    PROVE  IInv'
<1>1. /\ UNCHANGED <<mb_status, mb_result, recv, pc, bind, k, asked, replies, granted>>
      /\ irq = "status" /\ irq' = "idle" /\ done' = done + 1
  BY DEF Complete, device
<1>2. TypeOK'
  BY <1>1 DEF IInv, TypeOK
<1>3. Honest' /\ (pc' # "unbound" => bind' # 0)
  BY <1>1 DEF IInv, Honest, Granted
<1>4. ASSUME Undisturbed
      PROVE  SendInv' /\ Punctual' /\ Steps'
  <2>1. SendInv /\ Punctual /\ Steps
    BY <1>4 DEF IInv
  <2>2. /\ Quiet' <=> Quiet
        /\ InFlight' <=> InFlight
        /\ Late' <=> Late
        /\ Answered' <=> Answered
    BY <1>1 DEF Quiet, InFlight, Late, Mine, Msg, Answered
  <2>3. Steps'
    BY <1>1, <2>1 DEF Steps
  <2>4. SendInv'
    <3>1. Mine(recv)' <=> Mine(recv)
      BY <1>1 DEF Mine, Msg
    <3> QED
      BY <1>1, <2>1, <2>2, <3>1 DEF SendInv
  <2>5. Punctual'
    BY <1>1, <2>1, <2>2 DEF Punctual
  <2> QED
    BY <2>3, <2>4, <2>5
<1>5. Undisturbed' => Undisturbed
  BY <1>1 DEF Undisturbed
<1> QED
  BY <1>2, <1>3, <1>4, <1>5 DEF IInv

(* The device answers the message that is waited for, if there is one.     *)
LEMMA AnswerStep ==
    ASSUME IInv, NEW type \in Types, Answer(type)
    PROVE  IInv'
<1>1. /\ UNCHANGED <<mb_status, done, mb_result, recv, pc, bind, k, irq>>
      /\ asked # <<>> /\ asked' = Tail(asked)
      /\ replies' = Append(replies, [to |-> Head(asked), type |-> type])
  BY DEF Answer
<1>2. PICK m \in Messages : m = Head(asked)
  BY <1>1, HeadTailProperties DEF IInv, TypeOK
<1>3. PICK r \in Replies : r = [to |-> m, type |-> type]
  BY <1>2 DEF Replies
<1>4. /\ replies' = Append(replies, r)
      /\ granted' = IF type = Expected[m[2]] THEN granted \cup {m} ELSE granted
      /\ r.to = m /\ r.type = type
  BY <1>1, <1>2, <1>3 DEF Answer
<1>5. TypeOK'
  <2>1. asked' \in Seq(Messages)
    BY <1>1, HeadTailProperties DEF IInv, TypeOK
  <2>2. replies' \in Seq(Replies) /\ granted' \in SUBSET Messages
    BY <1>2, <1>3, <1>4 DEF IInv, TypeOK
  <2> QED
    BY <1>1, <2>1, <2>2 DEF IInv, TypeOK
<1>6. Honest' /\ (pc' # "unbound" => bind' # 0)
  <2>1. granted \subseteq granted' /\ (r.type = Expected[r.to[2]] => r.to \in granted')
    BY <1>4
  <2>2. \A i \in DOMAIN replies' : replies'[i] = r \/ (i \in DOMAIN replies /\ replies'[i] = replies[i])
    BY <1>3, <1>4, AppendProperties DEF IInv, TypeOK
  <2> QED
    BY <1>1, <2>1, <2>2 DEF IInv, Honest, Granted
<1>7. ASSUME Undisturbed
      PROVE  SendInv' /\ Punctual' /\ Steps'
  <2>1. SendInv /\ Punctual /\ Steps
    BY <1>7 DEF IInv
  <2>2. ~Quiet /\ ~Answered
    BY <1>1 DEF Quiet, Answered
  <2>3. /\ pc \in {"wait", "check", "give_up", "unwind", "unbound"}
        /\ ~Late => (pc = "wait" /\ ~(done > 0))
    BY <1>1, <2>1, <2>2 DEF SendInv, Punctual, IInv, TypeOK, Places, Sending
  <2>4. Steps'
    BY <1>1, <1>4, <2>1 DEF Steps
  <2>5. Late' <=> Late
    BY <1>1 DEF Late
  <2>6. CASE pc \in {"wait", "check"}
    <3>1. mb_status # 2 /\ InFlight
      BY <2>1, <2>2, <2>6 DEF SendInv
    <3>2. irq # "retrieved" /\ replies = <<>> /\ asked = <<Msg>>
      BY <1>1, <3>1 DEF InFlight
    <3>3. m = Msg /\ asked' = <<>> /\ replies' = <<r>>
      BY <1>1, <1>2, <1>3, <1>4, <3>2, Single
    <3>4. InFlight'
      BY <1>1, <1>4, <3>2, <3>3 DEF InFlight, Msg
    <3>5. ~Late => ~(irq = "status")
      BY <2>1, <2>2, <2>3 DEF Punctual
    <3> QED
      BY <1>1, <2>3, <2>4, <2>5, <2>6, <3>1, <3>4, <3>5 DEF SendInv, Punctual
  <2>7. CASE pc \in {"give_up", "unwind", "unbound"}
    BY <1>1, <2>3, <2>4, <2>5, <2>7 DEF SendInv, Punctual
  <2> QED
    BY <2>3, <2>6, <2>7
<1>8. Undisturbed' => Undisturbed
  BY <1>1 DEF Undisturbed
<1> QED
  BY <1>5, <1>6, <1>7, <1>8 DEF IInv
LEMMA LoseStep ==
    ASSUME IInv, Lose
    PROVE  IInv'
<1>1. /\ UNCHANGED <<mb_status, done, mb_result, recv, pc, bind, k, irq, replies, granted>>
      /\ asked # <<>> /\ asked' = Tail(asked)
  BY DEF Lose
<1>2. TypeOK'
  BY <1>1, HeadTailProperties DEF IInv, TypeOK
<1>3. Honest' /\ (pc' # "unbound" => bind' # 0)
  BY <1>1 DEF IInv, Honest, Granted
<1>4. ASSUME Undisturbed
      PROVE  SendInv' /\ Punctual' /\ Steps'
  <2>1. SendInv /\ Punctual /\ Steps
    BY <1>4 DEF IInv
  <2>2. ~Quiet /\ ~Answered
    BY <1>1 DEF Quiet, Answered
  <2>3. /\ pc \in {"wait", "check", "give_up", "unwind", "unbound"}
        /\ ~Late => (pc = "wait" /\ ~(done > 0) /\ ~(irq = "status"))
    BY <1>1, <2>1, <2>2 DEF SendInv, Punctual, IInv, TypeOK, Places, Sending
  <2>4. Steps'
    BY <1>1, <2>1 DEF Steps
  <2>5. Late' <=> Late
    BY <1>1 DEF Late
  <2>6. CASE pc \in {"wait", "check"}
    <3>1. mb_status # 2 /\ InFlight
      BY <2>1, <2>2, <2>6 DEF SendInv
    <3>2. irq # "retrieved" /\ replies = <<>> /\ asked = <<Msg>>
      BY <1>1, <3>1 DEF InFlight
    <3>3. Quiet'
      BY <1>1, <3>2, Single DEF Quiet
    <3> QED
      BY <1>1, <2>3, <2>4, <2>5, <2>6, <3>1, <3>3 DEF SendInv, Punctual
  <2>7. CASE pc \in {"give_up", "unwind", "unbound"}
    BY <1>1, <2>3, <2>4, <2>5, <2>7 DEF SendInv, Punctual
  <2> QED
    BY <2>3, <2>6, <2>7
<1>5. Undisturbed' => Undisturbed
  BY <1>1 DEF Undisturbed
<1> QED
  BY <1>2, <1>3, <1>4, <1>5 DEF IInv

LEMMA InitIInv == Init => IInv
<1> SUFFICES ASSUME Init PROVE IInv
  OBVIOUS
<1>1. TypeOK
  BY ExpectedLength, MailboxAssumption DEF Init, TypeOK, Places
<1>2. Honest
  BY DEF Init, Honest
<1>3. SendInv /\ Punctual /\ Steps
  BY DEF Init, SendInv, Punctual, Steps, Quiet
<1> QED
  BY <1>1, <1>2, <1>3 DEF Init, IInv

LEMMA StutterStep == IInv /\ UNCHANGED vars => IInv'
<1> SUFFICES ASSUME IInv, UNCHANGED vars PROVE IInv'
  OBVIOUS
<1>1. TypeOK' /\ Honest' /\ (pc' # "unbound" => bind' # 0)
  BY DEF IInv, TypeOK, Honest, Granted, vars
<1>2. ASSUME SendInv, Punctual, Steps
      PROVE  SendInv' /\ Punctual' /\ Steps'
  BY <1>2 DEF vars, SendInv, Punctual, Steps, Quiet, InFlight, Answered, Mine, Late, Msg
<1>3. Undisturbed' => Undisturbed
  BY DEF Undisturbed, vars
<1> QED
  BY <1>1, <1>2, <1>3 DEF IInv

LEMMA StepIInv == IInv /\ [Next]_vars => IInv'
<1> SUFFICES ASSUME IInv, [Next]_vars PROVE IInv'
  OBVIOUS
<1>1. CASE Probe
  BY <1>1, CallerStep, WriteStep, ExamineStep DEF Probe, Send
<1>2. CASE Bind \/ Unbind
  BY <1>2, BindStep, CallerStep
<1>3. CASE Interrupt
  BY <1>3, RetrieveStep, SetStatusStep, CompleteStep DEF Interrupt
<1>4. CASE Lose \/ \E type \in Types : Answer(type)
  BY <1>4, LoseStep, AnswerStep
<1>5. CASE UNCHANGED vars
  BY <1>5, StutterStep
<1> QED
  BY <1>1, <1>2, <1>3, <1>4, <1>5 DEF Next

THEOREM MailboxInvariant == Spec => []IInv
BY InitIInv, StepIInv, PTL DEF Spec

(* The mailbox, the probe and the device stay in their types.              *)
THEOREM MailboxTypeCorrect == Spec => []TypeOK
<1>1. IInv => TypeOK
  BY DEF IInv
<1> QED
  BY <1>1, MailboxInvariant, PTL

(* bce_mailbox_send hands out the reply to its own message, however many   *)
(* probes came before, as long as the device was late for none of them.    *)
THEOREM OwnReplyHolds == Spec => []OwnReply
<1>1. IInv => OwnReply
  BY DEF IInv, OwnReply, SendInv, Mine
<1> QED
  BY <1>1, MailboxInvariant, PTL

(* apple_bce_probe succeeds only with a device that has accepted the       *)
(* protocol version and registered both command queues in this probe.      *)
THEOREM BoundMeansRegisteredHolds == Spec => []BoundMeansRegistered
<1>1. ASSUME IInv, pc = "bound", Undisturbed, NEW n \in DOMAIN Expected
      PROVE  <<bind, n>> \in granted
  <2>1. Steps
    BY <1>1 DEF IInv
  <2>2. k = 3 /\ <<bind, 3>> \in granted /\ \A i \in 1..2 : <<bind, i>> \in granted
    BY <1>1, <2>1 DEF Steps
  <2> QED
    BY <2>2, ExpectedLength
<1>2. IInv => BoundMeansRegistered
  BY <1>1 DEF BoundMeansRegistered
<1> QED
  BY <1>2, MailboxInvariant, PTL
=============================================================================
