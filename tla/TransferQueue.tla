---------------------------- MODULE TransferQueue ----------------------------
(***************************************************************************)
(* The transfer queue of one USB endpoint (src/vhci/transfer.c): requests  *)
(* (URBs) of class drivers, the transfers the device asks for, completions,*)
(* cancellation, and the pausing, stalling and resetting of the endpoint.  *)
(*                                                                         *)
(* Four contexts share it: class drivers enqueue and dequeue; the          *)
(* interrupt thread handles completions and events and gives URBs back;    *)
(* one ordered workqueue runs cancellations, resets and the requests of    *)
(* the firmware, one after the other, each with waits for the device.      *)
(* q->urb_lock makes most of their steps atomic: ep is what it protects,   *)
(* and an operator from ep to ep is a function that runs under it.         *)
(***************************************************************************)
EXTENDS Naturals, Sequences, SequencesExt

CONSTANTS Urbs,
          Kinds,        \* endpoints to look at, among "in", "out", "control"
          Modes,        \* among "calm", "pieces", "disturbed": see mode
          MaxSubmits,   \* bound: URBs enqueued
          MaxTroubles   \* bound, for an endpoint of each kind: failing
                        \* transfers, cancellations, pauses and the like

ASSUME TransferQueueAssumption ==
    /\ Kinds \subseteq {"in", "out", "control"}
    /\ Modes \subseteq {"calm", "pieces", "disturbed"}
    /\ MaxSubmits \in Nat /\ MaxTroubles \in [Kinds -> Nat]
    /\ Urbs # {}
    /\ \A item \in {"reset", "fw_pause", "fw_resume", "fw_stall"} : item \notin Urbs

Ids == 1..MaxSubmits

VARIABLES kind,       \* of endpoint; never changes
          mode,       \* what happens to it besides transfers, some of which
                      \* fail; never changes.  "calm": nothing; the device
                      \* asks for all that an URB has for it, and the rings
                      \* have room.  "pieces": the same, but URBs have more
                      \* for the device than it asks for at a time.
                      \* "disturbed": URBs are cancelled, the firmware
                      \* pauses, resumes and stalls it, commands fail, rings
                      \* run full, the interrupt thread may be so late that
                      \* completions outlive a flush, and the device may ask
                      \* for what an URB waits for between the command that
                      \* makes it active again and its effect here
          full,       \* where no slot can be reserved: "in" for sq_in or
                      \* msg_asynchronous, "out" for sq_out
          ep,         \* what q->urb_lock protects, see EpType
          comps,      \* completions not yet handled, of sq_in and of sq_out
          events,     \* events not yet handled
          irq,        \* where the interrupt thread is
          todo,       \* what is left of the running work item
          target,     \* and the URB it cancels
          fw_paused,
          dev,        \* the endpoint as the device sees it, see DevType
          submits, troubles  \* counted for their bounds

setup == <<kind, mode, full>>
worker == <<todo, target>>
bounds == <<submits, troubles>>
vars == <<setup, ep, comps, events, irq, worker, fw_paused, dev, bounds>>

Dirs == CASE kind = "in" -> {"in"}
          [] kind = "out" -> {"out"}
          [] kind = "control" -> {"in", "out", "none"}

UrbStates == {"none", "paused", "setup_request", "setup_completion",
              "transfer_request", "completion", "complete"}
Submission == [id : Ids, what : {"in", "out", "setup"}, dir : {"in", "out", "none"}]

EpType == [list : Seq(Urbs),         \* endp->urb_list
           state : [Urbs -> UrbStates],
           status : [Urbs -> {"none", "ok", "fail"}],  \* received_status
           dir : [Urbs -> {"in", "out", "none"}],
           id : [Urbs -> 0..MaxSubmits],  \* number of the URB's submission
           evq : Nat,                \* deferred transfer requests
           in : Seq(Submission), out : Seq(Submission),  \* with the device
           giveback : Seq([urb : Urbs, id : Ids, status : {"ok", "fail"}]),
           active : BOOLEAN, stalled : BOOLEAN,
           work : Seq({"reset", "fw_pause", "fw_resume", "fw_stall"} \cup Urbs)]
                                     \* queued; a URB is its cancellation

DevType == [on : BOOLEAN,            \* it is active
            halted : BOOLEAN,        \* a transfer failed; waits for a reset
            stage : {"idle", "asked", "data", "asked_data", "status"},
            dir : {"in", "out", "none"},
            id : 0..MaxSubmits,      \* the transfer it is in
            served : SUBSET Ids]     \* transfers done as they should

TypeOK == /\ kind \in Kinds /\ mode \in Modes /\ full \subseteq {"in", "out"}
          /\ ep \in EpType
          /\ comps \in [{"in", "out"} -> Seq([id : Ids, aborted : BOOLEAN])]
          /\ events \in Seq({"request", "ok", "fail"})
          /\ irq \in {"idle", "in", "out", "giveback"}
          /\ todo \in Seq(STRING)
          /\ target \in Urbs
          /\ fw_paused \in BOOLEAN
          /\ dev \in DevType
          /\ submits \in 0..MaxSubmits
          /\ troubles \in 0..MaxTroubles[kind]

(* bce_vhci_create_transfer_queue                                          *)
Init == /\ kind \in Kinds
        /\ mode \in Modes
        /\ kind = "out" => mode # "disturbed"
        /\ kind = "in" => mode # "pieces"
        /\ full = {}
        /\ ep = [list |-> <<>>,
                 state |-> [u \in Urbs |-> "none"],
                 status |-> [u \in Urbs |-> "none"],
                 dir |-> [u \in Urbs |-> "in"],
                 id |-> [u \in Urbs |-> 0],
                 evq |-> 0, in |-> <<>>, out |-> <<>>, giveback |-> <<>>,
                 active |-> TRUE, stalled |-> FALSE, work |-> <<>>]
        /\ comps = [sq \in {"in", "out"} |-> <<>>]
        /\ events = <<>>
        /\ irq = "idle"
        /\ todo = <<>> /\ target = CHOOSE u \in Urbs : TRUE
        /\ fw_paused = FALSE
        /\ dev = [on |-> TRUE, halted |-> FALSE, stage |-> "idle",
                  dir |-> "in", id |-> 0, served |-> {}]
        /\ submits = 0 /\ troubles = 0

(***************************************************************************)
(* Functions under q->urb_lock                                             *)
(***************************************************************************)

(* queue_work: w_reset is a single work item.                              *)
RequestReset(e) ==
    IF Contains(e.work, "reset") THEN e ELSE [e EXCEPT !.work = Append(@, "reset")]

Forget(e, u) == [e EXCEPT !.list = RemoveFirst(@, u),
                          !.state[u] = "none", !.status[u] = "none",
                          !.dir[u] = "in", !.id[u] = 0]

(* bce_vhci_urb_complete                                                   *)
Complete(e, u, status) ==
    [Forget(e, u) EXCEPT
        !.giveback = Append(@, [urb |-> u, id |-> e.id[u], status |-> status])]

Submit(e, u, what) == [id |-> e.id[u], what |-> what, dir |-> e.dir[u]]

(* A slot of the ring cannot be reserved.  (What fills a ring is left      *)
(* open: other URBs, other queues, or the slots that are lost because an   *)
(* aborted completion is not notified, transfer.c:139.)                    *)
Full(ring) == mode = "disturbed" /\ ring \in full

(* bce_vhci_urb_data_transfer_in, which returns -ENOMEM when Full("in").   *)
TransferIn(e, u) ==
    IF Full("in") THEN e
    ELSE [e EXCEPT !.in = Append(@, Submit(e, u, "in")), !.state[u] = "completion"]

(* bce_vhci_urb_send_out_data, which returns -EPIPE when Full("out"): the  *)
(* transfer request is gone, the URB waits for another one.                *)
SendOut(e, u, what, state) ==
    IF Full("out") THEN e
    ELSE [e EXCEPT !.out = Append(@, Submit(e, u, what)), !.state[u] = state]

(* bce_vhci_urb_data_start                                                 *)
DataStart(e, u) ==
    CASE e.dir[u] = "in" -> TransferIn(e, u)
      [] e.dir[u] = "out" -> [e EXCEPT !.state[u] = "transfer_request"]
      [] e.dir[u] = "none" -> [e EXCEPT !.state[u] = "complete"]

(* bce_vhci_urb_init                                                       *)
UrbInit(e, u) ==
    IF kind = "control" THEN [e EXCEPT !.state[u] = "setup_request"]
                        ELSE DataStart(e, u)

(* Mutants: any status ends the transfer well once its data has been       *)
(* transferred; and the URBs that are left do not make the queue reset.    *)
StatusIgnored(e, u) ==
    IF e.status[u] # "none" /\ e.state[u] = "complete" THEN Complete(e, u, "ok") ELSE e

NoResetAsked(e, u) ==
    CASE e.status[u] = "ok" /\ e.state[u] = "complete" -> Complete(e, u, "ok")
      [] e.status[u] = "fail" /\ e.state[u] \notin {"setup_request", "setup_completion"} ->
            Complete([e EXCEPT !.active = FALSE, !.stalled = TRUE], u, "fail")
      [] OTHER -> e

(* bce_vhci_urb_control_check_status                                       *)
CheckStatus(e, u) ==
    CASE e.status[u] = "ok" /\ e.state[u] = "complete" -> Complete(e, u, "ok")
      [] /\ e.status[u] = "fail"
         /\ e.state[u] \notin {"setup_request", "setup_completion"} ->
            LET f == Complete([e EXCEPT !.active = FALSE, !.stalled = TRUE], u, "fail")
            IN IF f.list = <<>> THEN f ELSE RequestReset(f)
      [] OTHER -> e

(* bce_vhci_urb_update of a transfer request: -EAGAIN, or what it does. It *)
(* sends as much as the URB has and the request asks for.                  *)
Again(e, u) == e.state[u] \notin {"setup_request", "transfer_request"}

TransferRequest(e, u) ==
    IF e.state[u] = "setup_request"
    THEN SendOut(e, u, "setup", "setup_completion")
    ELSE LET f == SendOut(e, u, "out", "completion")
         IN IF kind = "control" /\ ~Full("out") THEN CheckStatus(f, u) ELSE f

(* bce_vhci_transfer_queue_deliver_pending                                 *)
Deliverable(e) == e.list # <<>> /\ e.evq > 0 /\ ~Again(e, Head(e.list))

Deliver(e) ==
    LET After[n \in 0..e.evq] ==
            IF n = 0 THEN e
            ELSE IF ~Deliverable(After[n - 1]) THEN After[n - 1]
            ELSE [TransferRequest(After[n - 1], Head(After[n - 1].list))
                  EXCEPT !.evq = @ - 1]
    IN After[e.evq]

(* bce_vhci_transfer_queue_event                                           *)
Event(e, event) ==
    LET d == Deliver(e)
        u == Head(d.list)
    IN CASE event = "request" ->
              IF d.evq > 0 \/ d.list = <<>> \/ Again(d, u)
              THEN [d EXCEPT !.evq = @ + 1]
              ELSE TransferRequest(d, u)
         [] event # "request" ->
              IF d.list = <<>> THEN d
              ELSE CheckStatus([d EXCEPT !.status[u] = event], u)

(* A mutant: whatever has been transferred is all there was.               *)
PartCompletes(e, u) ==
    CASE e.state[u] # "completion" -> e
      [] e.state[u] = "completion" /\ kind = "control" ->
            [e EXCEPT !.state[u] = "complete"]
      [] e.state[u] = "completion" /\ kind # "control" -> Complete(e, u, "ok")

(* receive_offset < transfer_buffer_length: the device asked for a part.   *)
Partly(e, u) == mode = "pieces" /\ e.dir[u] = "out"

(* bce_vhci_urb_data_transfer_completion.  After a part the URB goes on    *)
(* waiting for a completion, not for the request of the rest.              *)
DataCompletion(e, u) ==
    CASE e.state[u] # "completion" \/ Partly(e, u) -> e
      [] e.state[u] = "completion" /\ ~Partly(e, u) /\ kind = "control" ->
            [e EXCEPT !.state[u] = "complete"]
      [] e.state[u] = "completion" /\ ~Partly(e, u) /\ kind # "control" ->
            Complete(e, u, "ok")

(* bce_vhci_urb_control_transfer_completion                                *)
ControlCompletion(e, u) ==
    CASE e.state[u] = "setup_completion" ->
            IF e.dir[u] = "in" /\ Full("in") THEN Complete(e, u, "fail") ELSE DataStart(e, u)
      [] e.state[u] \in {"transfer_request", "completion"} ->
            CheckStatus(DataCompletion(e, u), u)
      [] OTHER -> e

(* One turn of the loop of bce_vhci_transfer_queue_completion.  The slot   *)
(* that a completion gives back, or does not, is part of what full leaves  *)
(* open.                                                                   *)
Completion(e, c) ==
    IF c.aborted \/ e.list = <<>> THEN e
    ELSE IF kind = "control" THEN ControlCompletion(e, Head(e.list))
    ELSE DataCompletion(e, Head(e.list))

(* bce_vhci_urb_resume, for the URBs of the list in turn. A paused URB     *)
(* that finds the ring full stays paused; one that is completed is given   *)
(* back only by the next interrupt.                                        *)
UrbResume(e, u) ==
    CASE e.state[u] = "paused" -> UrbInit(e, u)
      [] e.state[u] = "completion" ->
            IF Full("in") THEN Complete(e, u, "fail") ELSE TransferIn(e, u)
      [] OTHER -> e

(* Resumed[n]: the endpoint when the first n URBs of the list have been.   *)
Activate(e) ==
    LET Resumed[n \in 0..Len(e.list)] ==
            IF n = 0 THEN [e EXCEPT !.active = TRUE]
            ELSE UrbResume(Resumed[n - 1], e.list[n])
    IN Deliver(Resumed[Len(e.list)])

(***************************************************************************)
(* Class drivers                                                           *)
(***************************************************************************)

(* The interrupt thread holds q->urb_lock only in its loop of completions. *)
Unlocked == irq \notin {"in", "out"}

Held(u) == ep.id[u] # 0 \/ \E i \in DOMAIN ep.giveback : ep.giveback[i].urb = u

(* bce_vhci_urb_create, once the URB is linked to the endpoint. One that   *)
(* fails unlinks it and leaves nothing.                                    *)
CreateFails(dir) == ep.active /\ kind # "control" /\ dir = "in" /\ Full("in")

Create(u, dir) ==
    /\ Unlocked /\ ~Held(u) /\ submits < MaxSubmits
    /\ submits' = submits + 1
    /\ ~CreateFails(dir)
    /\ LET linked == [ep EXCEPT !.list = Append(@, u), !.dir[u] = dir,
                                !.id[u] = submits', !.state[u] = "paused"]
           begun == CASE ep.active -> UrbInit(linked, u)
                      [] ~ep.active /\ ep.stalled -> RequestReset(linked)
                      [] ~ep.active /\ ~ep.stalled -> linked
       IN ep' = Deliver(begun)
    /\ UNCHANGED <<setup, comps, events, irq, worker, fw_paused, dev, troubles>>

Trouble == troubles < MaxTroubles[kind] /\ troubles' = troubles + 1
Disturb == mode = "disturbed" /\ Trouble

(* A ring runs full, or has room again.                                    *)
RingFills(ring) ==
    /\ Disturb
    /\ full' = full \cup {ring}
    /\ UNCHANGED <<kind, mode, ep, comps, events, irq, worker, fw_paused, dev, submits>>

RingsDrain ==
    /\ full # {}
    /\ full' = {}
    /\ UNCHANGED <<kind, mode, ep, comps, events, irq, worker, fw_paused, dev, bounds>>

(* bce_vhci_urb_request_cancel of an URB that is still linked; nothing     *)
(* marks it.                                                               *)
RequestCancel(u) ==
    /\ Disturb
    /\ Unlocked /\ ep.id[u] # 0
    /\ ep' = [ep EXCEPT !.work = Append(@, u)]
    /\ UNCHANGED <<setup, comps, events, irq, worker, fw_paused, dev, submits>>

(* bce_vhci_endpoint_reset, for the USB core.                              *)
EndpointReset ==
    /\ Disturb
    /\ ep' = RequestReset(ep)
    /\ UNCHANGED <<setup, comps, events, irq, worker, fw_paused, dev, submits>>

(***************************************************************************)
(* The interrupt thread                                                    *)
(***************************************************************************)
TakeCompletion(sq) ==
    /\ irq \in {"idle", sq} /\ comps[sq] # <<>>
    /\ ep' = Completion(ep, Head(comps[sq]))
    /\ comps' = [comps EXCEPT ![sq] = Tail(@)]
    /\ irq' = sq
    /\ UNCHANGED <<setup, events, worker, fw_paused, dev, bounds>>

(* A mutant: requests deferred while the first URB was busy stay deferred. *)
NothingDelivered ==
    /\ irq \in {"in", "out"}
    /\ irq' = "giveback"
    /\ UNCHANGED <<setup, ep, comps, events, worker, fw_paused, dev, bounds>>

(* No more of those that were there when the loop began.                   *)
CompletionsTaken ==
    /\ irq \in {"in", "out"}
    /\ ep' = Deliver(ep)
    /\ irq' = "giveback"
    /\ UNCHANGED <<setup, comps, events, worker, fw_paused, dev, bounds>>

TakeEvent ==
    /\ irq = "idle" /\ events # <<>>
    /\ ep' = Event(ep, Head(events))
    /\ events' = Tail(events)
    /\ irq' = "giveback"
    /\ UNCHANGED <<setup, comps, worker, fw_paused, dev, bounds>>

(* bce_vhci_transfer_queue_giveback                                        *)
Giveback ==
    /\ irq = "giveback" /\ ep.giveback # <<>>
    /\ ep' = [ep EXCEPT !.giveback = Tail(@)]
    /\ UNCHANGED <<setup, comps, events, irq, worker, fw_paused, dev, bounds>>

GivenBack ==
    /\ irq = "giveback" /\ ep.giveback = <<>>
    /\ irq' = "idle"
    /\ UNCHANGED <<setup, ep, comps, events, worker, fw_paused, dev, bounds>>

(***************************************************************************)
(* The workqueue                                                           *)
(***************************************************************************)
FlushStep == [in |-> "flush in", out |-> "flush out"]
FlushedStep == [in |-> "flushed in", out |-> "flushed out"]
FlushOne(sq) == <<FlushStep[sq], FlushedStep[sq]>>
Flush == IF kind = "control" THEN FlushOne("in") \o FlushOne("out") ELSE FlushOne(kind)
Pause == <<"deactivate", "drop", "set paused">> \o Flush
Resume == <<"set active", "activate">>
(* A mutant: what the device has of the failed transfer stays with it.     *)
ResetUnflushed == <<"check", "drop", "reset", "unstall">> \o Resume

Reset == <<"check", "drop">> \o Flush \o <<"reset", "unstall">> \o Resume

Program(item) ==
    CASE item = "reset" -> Reset
      [] item = "fw_pause" -> <<"fw pause">> \o Pause
      [] item = "fw_resume" -> Resume \o <<"fw resume">>
      [] item = "fw_stall" -> <<"stall">>
      [] item \in Urbs -> Pause \o <<"remove">> \o Resume

TakeWork ==
    /\ todo = <<>> /\ ep.work # <<>>
    /\ todo' = Program(Head(ep.work))
    /\ target' = IF Head(ep.work) \in Urbs THEN Head(ep.work) ELSE target
    /\ ep' = [ep EXCEPT !.work = Tail(@)]
    /\ UNCHANGED <<setup, comps, events, irq, fw_paused, dev, bounds>>

At(step) == todo # <<>> /\ Head(todo) = step
Continue == todo' = Tail(todo) /\ UNCHANGED target
Skip(n) == todo' = SubSeq(todo, n + 2, Len(todo)) /\ UNCHANGED target

(* Steps under the lock.                                                   *)
Locked(step, e) ==
    /\ At(step) /\ Unlocked
    /\ ep' = e
    /\ Continue
    /\ UNCHANGED <<setup, comps, events, irq, fw_paused, dev, bounds>>

Deactivate == Locked("deactivate", [ep EXCEPT !.active = FALSE])

(* bce_vhci_transfer_queue_remove_pending                                  *)
Drop == Locked("drop", [ep EXCEPT !.evq = 0])

Stall == Locked("stall", [ep EXCEPT !.active = FALSE, !.stalled = TRUE])

Unstall == Locked("unstall", [ep EXCEPT !.stalled = FALSE])

ActivateQueue == Locked("activate", Activate(ep))

(* bce_vhci_transfer_queue_reset_w: nothing to do.                         *)
CheckStalled ==
    /\ At("check") /\ Unlocked
    /\ IF ep.stalled THEN Continue ELSE todo' = <<>> /\ UNCHANGED target
    /\ UNCHANGED <<setup, ep, comps, events, irq, fw_paused, dev, bounds>>

SetFwPaused ==
    /\ At("fw pause") \/ At("fw resume")
    /\ fw_paused' = At("fw pause")
    /\ Continue
    /\ UNCHANGED <<setup, ep, comps, events, irq, dev, bounds>>

(* bce_vhci_urb_remove in bce_vhci_urb_cancel_w: the URB is given back     *)
(* unless it has been in the meantime; then the queue is resumed, unless   *)
(* the firmware wants it paused.                                           *)
UrbRemove ==
    /\ At("remove") /\ Unlocked
    /\ ep' = IF ep.id[target] = 0 THEN ep ELSE Deliver(Forget(ep, target))
    /\ IF fw_paused THEN Skip(2) ELSE Continue
    /\ UNCHANGED <<setup, comps, events, irq, fw_paused, dev, bounds>>

(* bce_vhci_cmd_endpoint_set_state: it may fail whether the device does it *)
(* or not; what depends on it is skipped then.                             *)
SetPaused ==
    /\ At("set paused")
    /\ dev' = [dev EXCEPT !.on = FALSE]
    /\ Continue
    /\ UNCHANGED <<setup, ep, comps, events, irq, fw_paused, bounds>>

(* A mutant: a cancellation is given up when the endpoint does not pause.  *)
CancelGivenUp(done) ==
    /\ At("set paused") /\ mode = "disturbed"
    /\ dev' = [dev EXCEPT !.on = @ /\ ~done]
    /\ todo' = <<>> /\ UNCHANGED target
    /\ UNCHANGED <<setup, ep, comps, events, irq, fw_paused, bounds>>

SetPausedFails(done) ==
    /\ At("set paused") /\ mode = "disturbed"
    /\ dev' = [dev EXCEPT !.on = @ /\ ~done]
    /\ Skip(Len(Flush))
    /\ UNCHANGED <<setup, ep, comps, events, irq, fw_paused, bounds>>

(* Once active again the device asks again for what it was waiting for.    *)
On == [dev EXCEPT !.on = TRUE,
                  !.stage = CASE @ = "asked" -> "idle"
                              [] @ = "asked_data" -> (IF kind = "out" THEN "idle" ELSE "data")
                              [] OTHER -> @]

SetActive ==
    /\ At("set active") /\ ~dev.halted
    /\ dev' = On
    /\ Continue
    /\ UNCHANGED <<setup, ep, comps, events, irq, fw_paused, bounds>>

SetActiveFails(done) ==
    /\ At("set active") /\ (mode = "disturbed" \/ dev.halted)
    /\ dev' = IF done /\ ~dev.halted THEN On ELSE dev
    /\ Skip(1)
    /\ UNCHANGED <<setup, ep, comps, events, irq, fw_paused, bounds>>

(* bce_cmd_flush_memory_queue: the device aborts what has been submitted.  *)
FlushQueue(sq) ==
    /\ At(FlushStep[sq])
    /\ comps' = [comps EXCEPT ![sq] = @ \o [i \in DOMAIN ep[sq] |->
                                          [id |-> ep[sq][i].id, aborted |-> TRUE]]]
    /\ ep' = [ep EXCEPT ![sq] = <<>>]
    /\ dev' = [dev EXCEPT !.stage = IF ep[sq] = <<>> THEN @ ELSE "idle"]
    /\ Continue
    /\ UNCHANGED <<setup, events, irq, fw_paused, bounds>>

Flushed(sq) ==
    /\ At(FlushedStep[sq])
    /\ mode = "disturbed" \/ comps[sq] = <<>>
    /\ Continue
    /\ UNCHANGED <<setup, ep, comps, events, irq, fw_paused, dev, bounds>>

(* bce_vhci_cmd_endpoint_reset                                             *)
ResetEndpoint ==
    /\ At("reset")
    /\ dev' = [dev EXCEPT !.on = FALSE, !.halted = FALSE, !.stage = "idle"]
    /\ fw_paused' = FALSE
    /\ Continue
    /\ UNCHANGED <<setup, ep, comps, events, irq, bounds>>

(* It may fail; nobody looks at the result.                                *)
ResetEndpointFails ==
    /\ At("reset") /\ mode = "disturbed"
    /\ fw_paused' = FALSE
    /\ Continue
    /\ UNCHANGED <<setup, ep, comps, events, irq, dev, bounds>>

(***************************************************************************)
(* The device: it serves submissions in order.  A control transfer is a    *)
(* setup packet, the data it announces, and a status; the device asks for  *)
(* what it is to be sent, again and again if it does so in pieces, and may *)
(* fail a transfer once it has its setup.                                  *)
(***************************************************************************)
Serving == dev.on /\ ~dev.halted /\ (mode = "disturbed" \/ ~At("activate"))

DevAsk ==
    /\ Serving /\ kind # "in"
    /\ \/ dev.stage = "idle"
       \/ dev.stage = "data" /\ dev.dir = "out"
    /\ events' = Append(events, "request")
    /\ dev' = [dev EXCEPT !.stage = IF kind = "control" /\ @ = "idle" THEN "asked"
                                    ELSE "asked_data"]
    /\ UNCHANGED <<setup, ep, comps, irq, worker, fw_paused, bounds>>

Finish(sq) ==
    /\ comps' = [comps EXCEPT ![sq] = Append(@, [id |-> Head(ep[sq]).id, aborted |-> FALSE])]
    /\ ep' = [ep EXCEPT ![sq] = Tail(@)]
    /\ UNCHANGED <<setup, events, irq, worker, fw_paused, bounds>>

DevSetup ==
    /\ Serving /\ ep.out # <<>> /\ Head(ep.out).what = "setup"
    /\ dev.stage = "asked"
    /\ dev' = [dev EXCEPT !.stage = IF Head(ep.out).dir = "none" THEN "status" ELSE "data",
                          !.dir = Head(ep.out).dir, !.id = Head(ep.out).id]
    /\ Finish("out")

DevOut ==
    /\ Serving /\ ep.out # <<>> /\ Head(ep.out).what = "out"
    /\ dev.stage = "asked_data"
    /\ dev' = CASE kind = "control" ->
                      [dev EXCEPT !.stage = IF mode = "pieces" THEN "data" ELSE "status"]
                [] kind # "control" /\ mode # "pieces" ->
                      [dev EXCEPT !.stage = "idle", !.served = @ \cup {Head(ep.out).id}]
                [] kind # "control" /\ mode = "pieces" -> [dev EXCEPT !.stage = "idle"]
    /\ Finish("out")

DevIn ==
    /\ Serving /\ ep.in # <<>>
    /\ kind = "control" => dev.stage = "data" /\ dev.dir = "in"
    /\ dev' = IF kind = "control" THEN [dev EXCEPT !.stage = "status"]
              ELSE [dev EXCEPT !.served = @ \cup {Head(ep.in).id}]
    /\ Finish("in")

DevStatus ==
    /\ Serving /\ dev.stage = "status"
    /\ events' = Append(events, "ok")
    /\ dev' = [dev EXCEPT !.stage = "idle", !.served = @ \cup {dev.id}]
    /\ UNCHANGED <<setup, ep, comps, irq, worker, fw_paused, bounds>>

DevFail ==
    /\ Serving /\ kind = "control" /\ dev.stage \notin {"idle", "asked"}
    /\ Trouble
    /\ events' = Append(events, "fail")
    /\ dev' = [dev EXCEPT !.stage = "idle", !.halted = TRUE]
    /\ UNCHANGED <<setup, ep, comps, irq, worker, fw_paused, submits>>

(* bce_vhci_handle_firmware_event: the firmware wants the endpoint paused  *)
(* or active again, or has stalled it.                                     *)
FirmwareRequest(item) ==
    /\ Disturb
    /\ ep' = [ep EXCEPT !.work = Append(@, item)]
    /\ dev' = IF item = "fw_stall" THEN [dev EXCEPT !.halted = TRUE] ELSE dev
    /\ UNCHANGED <<setup, comps, events, irq, worker, fw_paused, submits>>

Interrupt == \/ \E sq \in {"in", "out"} : TakeCompletion(sq)
             \/ CompletionsTaken \/ TakeEvent \/ Giveback \/ GivenBack

Worker == \/ TakeWork \/ Deactivate \/ Drop \/ Stall \/ Unstall \/ ActivateQueue
          \/ CheckStalled \/ SetFwPaused \/ UrbRemove \/ SetPaused \/ SetActive
          \/ \E done \in BOOLEAN : SetPausedFails(done) \/ SetActiveFails(done)
          \/ \E sq \in {"in", "out"} : FlushQueue(sq) \/ Flushed(sq)
          \/ ResetEndpoint \/ ResetEndpointFails

Device == DevAsk \/ DevSetup \/ DevOut \/ DevIn \/ DevStatus

Next == \/ \E u \in Urbs : RequestCancel(u) \/ \E dir \in Dirs : Create(u, dir)
        \/ EndpointReset \/ RingsDrain \/ \E ring \in {"in", "out"} : RingFills(ring)
        \/ Interrupt \/ Worker \/ Device \/ DevFail
        \/ \E item \in {"fw_pause", "fw_resume", "fw_stall"} : FirmwareRequest(item)

Spec == Init /\ [][Next]_vars

(* The interrupt thread and the workqueue run, the commands they wait for  *)
(* end, and a calm device serves what it is given.                         *)
FairSpec == /\ Spec
            /\ WF_vars(Interrupt) /\ WF_vars(Worker)
            /\ WF_vars(mode = "calm" /\ Device)

(***************************************************************************)
(* Properties                                                              *)
(***************************************************************************)

(* A completion that would take the first URB a step further is that of    *)
(* its own submission. (Not so when the interrupt thread is late: the      *)
(* completion of an URB that has been cancelled, or was flushed and        *)
(* submitted again, is then taken for that of the next one.)               *)
OwnCompletion ==
    mode = "calm" => \A sq \in {"in", "out"} :
        LET c == Head(comps[sq])
            u == Head(ep.list)
        IN /\ comps[sq] # <<>> /\ ep.list # <<>>
           /\ ~c.aborted
           /\ ep.state[u] \in {"setup_completion", "completion"}
           => c.id = ep.id[u]

(* An URB is reported to have succeeded only when the device has done the  *)
(* transfer, data and status, through stalls and resets.                   *)
SuccessIsReal ==
    mode = "calm" => \A i \in DOMAIN ep.giveback :
        ep.giveback[i].status = "ok" => ep.giveback[i].id \in dev.served

(* No transfer request stays deferred while the first URB waits for one.   *)
(* (A disturbed device may ask twice, and bce_vhci_transfer_queue_event    *)
(* does not look again when a status makes the next URB the first.)        *)
NoStuckRequest == mode = "calm" /\ Unlocked => ~Deliverable(ep)

(* An URB whose cancellation has been accepted leaves the endpoint's list, *)
(* whether the pause succeeds or fails and whatever else happens           *)
(* meanwhile: bce_vhci_urb_remove gives it back, or it has been completed  *)
(* before (for its giveback see EveryUrbGivenBack: an URB that a resumption *)
(* completes, transfer.c:585, waits for some later interrupt).             *)
CancelEnds ==
    \A u \in Urbs, n \in Ids :
        ep.id[u] = n /\ Contains(ep.work, u) ~> ep.id[u] # n

(* The status of a control transfer is handled before the completion of    *)
(* its setup packet, which then starts the data stage and does not look at *)
(* the status received (transfer.c:547): the URB waits for another one.    *)
StatusOvertakesSetup ==
    \E u \in Urbs : ep.status[u] # "none" /\ ep.state[u] = "setup_completion"

(* The URB of a submission is linked, or not yet handed back to its class  *)
(* driver (usb_hcd_giveback_urb).                                          *)
Outstanding(n) ==
    \/ \E u \in Urbs : ep.id[u] = n
    \/ \E i \in DOMAIN ep.giveback : ep.giveback[i].id = n

(* Every URB is given back to its class driver by a calm device that       *)
(* serves the endpoint, also when it fails transfers and the endpoint has  *)
(* to be reset.  A calm device asks for OUT data whole and finds room in   *)
(* the rings: an URB of which it asks for a part waits for ever            *)
(* (transfer.c:442, 460; mode "pieces"), and so may one that meets a full  *)
(* ring (transfer.c:421, 511, 585; mode "disturbed").                      *)
EveryUrbGivenBack ==
    mode = "calm" /\ []~StatusOvertakesSetup =>
        \A n \in Ids : submits >= n ~> ~Outstanding(n)

(* The completion of a part of an OUT transfer does not make it a success, *)
(* nor that of an URB that comes after it, through failures and resets.    *)
PartIsNoSuccess ==
    mode = "pieces" => \A i \in DOMAIN ep.giveback :
        ep.giveback[i].status = "ok" => ep.giveback[i].id \in dev.served
=============================================================================
