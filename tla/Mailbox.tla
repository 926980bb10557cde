------------------------------- MODULE Mailbox -------------------------------
(***************************************************************************)
(* The mailbox (src/mailbox.c) and the part of apple_bce_probe that talks  *)
(* through it (src/apple_bce.c): the firmware version handshake, then the  *)
(* registration of the command completion queue and of the command         *)
(* submission queue.  One word, mb_status, ties bce_mailbox_send, which    *)
(* gives up after 200 ms, to the mailbox interrupt, which may run on       *)
(* another processor between any two of its steps.                         *)
(*                                                                         *)
(* A failed probe releases everything; the driver may then be bound again, *)
(* with a fresh struct bce_mailbox but the same device, whose unread       *)
(* replies are still in its registers.                                     *)
(***************************************************************************)
EXTENDS Naturals, Sequences, SequencesExt

CONSTANTS MaxBinds,   \* bound: number of probes
          LateProbes, \* probes whose messages the device may answer late: after
                      \* bce_mailbox_send gave up
          NoReply     \* mb_result before the first reply

ASSUME MailboxAssumption == MaxBinds \in Nat /\ LateProbes \subseteq 1..MaxBinds

(* The messages of a probe, by number, and the reply type each must get.   *)
Expected == <<"SET_FW_PROTOCOL_VERSION", "REGISTER_COMMAND_QUEUE_REPLY",
              "REGISTER_COMMAND_QUEUE_REPLY">>
Types == Range(Expected) \cup {"refused"}

Messages == (1..MaxBinds) \X DOMAIN Expected
Replies == [to : Messages, type : Types]

ASSUME NoReplyAssumption == NoReply \notin Replies

VARIABLES mb_status,  \* 0, 1 or 2
          done,       \* mb_completion.done
          mb_result,
          recv,       \* the caller's *recv
          pc,         \* where the probe is
          bind,       \* number of the current probe
          k,          \* number of its current message
          irq,        \* where the mailbox interrupt is
          asked,      \* device: messages it has not dealt with
          replies,    \* device: replies not read yet
          granted     \* device: messages it has answered as the driver hopes

vars == <<mb_status, done, mb_result, recv, pc, bind, k, irq, asked, replies, granted>>

device == <<asked, replies, granted>>

Sending == {"reinit", "write", "wait", "check", "give_up", "read", "clear"}
Places == Sending \cup {"unbound", "claim", "examine", "unwind", "bound"}

TypeOK == /\ mb_status \in 0..2
          /\ done \in Nat
          /\ mb_result \in Replies \cup {NoReply}
          /\ recv \in Replies \cup {NoReply}
          /\ pc \in Places
          /\ bind \in 0..MaxBinds /\ k \in DOMAIN Expected
          /\ irq \in {"idle", "retrieved", "status"}
          /\ asked \in Seq(Messages) /\ replies \in Seq(Replies)
          /\ granted \in SUBSET Messages

Init == /\ mb_status = 0 /\ done = 0
        /\ mb_result = NoReply /\ recv = NoReply
        /\ pc = "unbound" /\ bind = 0 /\ k = 1
        /\ irq = "idle"
        /\ asked = <<>> /\ replies = <<>> /\ granted = {}

Msg == <<bind, k>>
Goto(place) == pc' = place

(***************************************************************************)
(* bce_mailbox_send                                                        *)
(***************************************************************************)

(* atomic_cmpxchg(&mb->mb_status, 0, 1): the mailbox is free.              *)
Claim ==
    /\ pc = "claim" /\ mb_status = 0
    /\ mb_status' = 1
    /\ Goto("reinit")
    /\ UNCHANGED <<done, mb_result, recv, bind, k, irq, device>>

(* It is not: -EEXIST, and the probe fails.                                *)
Busy ==
    /\ pc = "claim" /\ mb_status # 0
    /\ Goto("unwind")
    /\ UNCHANGED <<mb_status, done, mb_result, recv, bind, k, irq, device>>

Reinit ==
    /\ pc = "reinit"
    /\ done' = 0
    /\ Goto("write")
    /\ UNCHANGED <<mb_status, mb_result, recv, bind, k, irq, device>>

WriteMessage ==
    /\ pc = "write"
    /\ asked' = Append(asked, Msg)
    /\ Goto("wait")
    /\ UNCHANGED <<mb_status, done, mb_result, recv, bind, k, irq, replies, granted>>

Woken ==
    /\ pc = "wait" /\ done > 0
    /\ done' = done - 1
    /\ Goto("check")
    /\ UNCHANGED <<mb_status, mb_result, recv, bind, k, irq, device>>

(* 200 ms are over. Where the device is never late, that means that no     *)
(* reply is on its way.                                                    *)
TimedOut ==
    /\ pc = "wait" /\ done = 0
    /\ bind \in LateProbes \/ (asked = <<>> /\ replies = <<>> /\ irq = "idle")
    /\ Goto("check")
    /\ UNCHANGED <<mb_status, done, mb_result, recv, bind, k, irq, device>>

(* A mutant: the status is not looked at after the wait.                   *)
CheckNothing ==
    /\ pc = "check"
    /\ Goto("read")
    /\ UNCHANGED <<mb_status, done, mb_result, recv, bind, k, irq, device>>

(* Whether the reply came is read off mb_status, not off the wait.         *)
CheckStatus ==
    /\ pc = "check"
    /\ Goto(IF mb_status = 2 THEN "read" ELSE "give_up")
    /\ UNCHANGED <<mb_status, done, mb_result, recv, bind, k, irq, device>>

(* -ETIMEDOUT, and the probe fails.                                        *)
GiveUp ==
    /\ pc = "give_up"
    /\ mb_status' = 0
    /\ Goto("unwind")
    /\ UNCHANGED <<done, mb_result, recv, bind, k, irq, device>>

ReadResult ==
    /\ pc = "read"
    /\ recv' = mb_result
    /\ Goto("clear")
    /\ UNCHANGED <<mb_status, done, mb_result, bind, k, irq, device>>

Clear ==
    /\ pc = "clear"
    /\ mb_status' = 0
    /\ Goto("examine")
    /\ UNCHANGED <<done, mb_result, recv, bind, k, irq, device>>

(***************************************************************************)
(* apple_bce_probe                                                         *)
(***************************************************************************)

(* Up to pci_request_irq: struct bce_mailbox is zeroed, and interrupts may *)
(* come from here on.                                                      *)
Bind ==
    /\ pc = "unbound" /\ bind < MaxBinds
    /\ bind' = bind + 1 /\ k' = 1
    /\ mb_status' = 0 /\ done' = 0 /\ mb_result' = NoReply /\ recv' = NoReply
    /\ Goto("claim")
    /\ UNCHANGED <<irq, device>>

(* A mutant: only the return value of bce_mailbox_send is checked.         *)
ExamineNothing ==
    /\ pc = "examine"
    /\ IF k < Len(Expected) THEN k' = k + 1 /\ Goto("claim")
                            ELSE Goto("bound") /\ UNCHANGED k
    /\ UNCHANGED <<mb_status, done, mb_result, recv, bind, irq, device>>

(* bce_fw_version_handshake and bce_register_command_queue look at the     *)
(* type of the reply, and the probe goes on to its next message or fails.  *)
Examine ==
    /\ pc = "examine"
    /\ IF recv.type # Expected[k] THEN Goto("unwind") /\ UNCHANGED k
       ELSE IF k < Len(Expected) THEN k' = k + 1 /\ Goto("claim")
       ELSE Goto("bound") /\ UNCHANGED k
    /\ UNCHANGED <<mb_status, done, mb_result, recv, bind, irq, device>>

(* fail_ts, or apple_bce_remove: free_irq waits for a running handler.     *)
Unbind ==
    /\ pc \in {"unwind", "bound"}
    /\ irq = "idle"
    /\ Goto("unbound")
    /\ UNCHANGED <<mb_status, done, mb_result, recv, bind, k, irq, device>>

(***************************************************************************)
(* bce_mailbox_handle_interrupt                                            *)
(***************************************************************************)

(* bce_mailbox_retrive_response reads all the replies there are, and keeps *)
(* the last one.                                                           *)
Retrieve ==
    /\ irq = "idle" /\ pc # "unbound"
    /\ replies # <<>>
    /\ mb_result' = Last(replies)
    /\ replies' = <<>>
    /\ irq' = "retrieved"
    /\ UNCHANGED <<mb_status, done, recv, pc, bind, k, asked, granted>>

SetStatus ==
    /\ irq = "retrieved"
    /\ mb_status' = 2
    /\ irq' = "status"
    /\ UNCHANGED <<done, mb_result, recv, pc, bind, k, device>>

Complete ==
    /\ irq = "status"
    /\ done' = done + 1
    /\ irq' = "idle"
    /\ UNCHANGED <<mb_status, mb_result, recv, pc, bind, k, device>>

(***************************************************************************)
(* The device: answers its messages in order, or loses one.                *)
(***************************************************************************)
Answer(type) ==
    /\ asked # <<>>
    /\ replies' = Append(replies, [to |-> Head(asked), type |-> type])
    /\ granted' = IF type = Expected[Head(asked)[2]]
                  THEN granted \cup {Head(asked)} ELSE granted
    /\ asked' = Tail(asked)
    /\ UNCHANGED <<mb_status, done, mb_result, recv, pc, bind, k, irq>>

Lose ==
    /\ asked # <<>>
    /\ asked' = Tail(asked)
    /\ UNCHANGED <<mb_status, done, mb_result, recv, pc, bind, k, irq, replies, granted>>

Send == \/ Claim \/ Busy \/ Reinit \/ WriteMessage \/ Woken \/ TimedOut
        \/ CheckStatus \/ GiveUp \/ ReadResult \/ Clear

Probe == Send \/ Examine

Interrupt == Retrieve \/ SetStatus \/ Complete

Next == \/ Probe \/ Bind \/ Unbind \/ Interrupt \/ Lose
        \/ \E type \in Types : Answer(type)

Spec == Init /\ [][Next]_vars

(***************************************************************************)
(* Properties                                                              *)
(***************************************************************************)

(* No reply to an earlier probe can still be on its way.                   *)
Undisturbed == \A b \in LateProbes : bind <= b

(* A send that succeeds returns the device's reply to its own message, not *)
(* a reply to an earlier one, as long as the device answered the earlier   *)
(* probes while they waited: replies carry no identity.                    *)
OwnReply ==
    pc \in {"clear", "examine"} /\ Undisturbed
        => recv # NoReply /\ recv.to = Msg

(* A probe that succeeds leaves a device that has accepted the protocol    *)
(* version and registered both command queues, in this very probe; with    *)
(* the same proviso.                                                       *)
BoundMeansRegistered ==
    pc = "bound" /\ Undisturbed
        => \A n \in DOMAIN Expected : <<bind, n>> \in granted
=============================================================================
