# A model of the T2 bridge driver

The driver in `src/` talks to the T2 chip of a 2018 MacBook Pro: over a PCI
device it runs shared-memory queues (the *BCE*, buffer copy engine), and on top
of them a USB host controller (*VHCI*) and an audio device. This directory holds
TLA+ modules of its concurrent parts, TLC configurations that check them, and
proofs that TLAPS checks. `PROJECT.json` lists components, runs, mutants, the
source lines of every definition, findings, hazards and theorems.

    tlc -workers 2 -config Reservation.cfg MCReservation.tla
    tlapm QueueProofs.tla

## 1. Inventory

### Threads

| context | runs |
|---|---|
| mailbox interrupt (vector 0) | `bce_handle_mb_irq` -> `bce_mailbox_handle_interrupt` |
| DMA interrupt thread (vector 4) | `bce_handle_dma_irq`: drains every completion queue, then every submission queue's callback; all callbacks of the driver run here, one after the other |
| workqueue `tq_state_wq` (ordered) | cancellations, endpoint resets, firmware events |
| a timer | writes the timestamp registers every 150 ms |
| callers | probe, USB core (hub control, URBs), ALSA, class drivers |

### Components

| component | state | operations | modules |
|---|---|---|---|
| submission reservation (`queue.c`) | `available_commands`, `available_command_completion`, its count of waiters | reserve (with or without a timeout), cancel, notify complete | Reservation |
| submission and completion queues (`queue.c`) | ring indices `head`, `tail`, `completion_cidx`, `completion_tail`; `int_sq_list`; the completion ring | next submission, submit, handle completions, next completion | BceQueue |
| command queue (`queue.c`) | `lck`, `tres[]`, results on the callers' stacks | register, unregister, flush, completion | CommandQueue |
| mailbox (`mailbox.c`), handshake in the probe (`apple_bce.c`) | `mb_status`, `mb_result`, a completion | send, interrupt | Mailbox |
| timestamp timer (`mailbox.c`) | the timer; no lock and no flag | start, stop (`del_timer_sync`), callback | VhciHost |
| VHCI command queue (`vhci/queue.c`) | mutex, completion under a spin lock, result pointer | execute, deliver completion, destroy | VhciCommandQueue |
| VHCI event queues, firmware worker (`vhci/queue.c`, `vhci/vhci.c`) | message buffers posted to the device | completion, submit pending, work item | EventQueue |
| USB transfer queues (`vhci/transfer.c`) | URB list and the state of each URB, deferred requests, `active`, `stalled`, `fw_paused` | enqueue, dequeue, reset, completion, event, pause, resume | TransferQueue |
| USB hub, devices, endpoints (`vhci/vhci.c`) | port masks, port and device tables, `tq_mask`, `hcpriv` | hub control, enable device, add and drop endpoint | VhciHub |
| audio transport (`audio/protocol_bce.c`) | out and in rings, buffers, tags, `pending_entries` | send, send and wait, reply, completions | AudioProtocol |
| audio messages, devices, PCM (`audio/protocol.c`, `audio.c`, `pcm.c`) | subdevices, streams, start-io completion, last timestamp | probe and handshake, notifications, timestamps, open, close, pointer | AudioDevice (messages as such: AudioProtocol) |
| DMA segment lists (`queue_dma.c`) | none shared | map, unmap, set submission buffer | - |
| life cycle (`apple_bce.c`, `queue.c:318-382`, `vhci.c:17-74`, `:327-383`) | `queues[]`, `queue_ida`, pointers to queues in each structure | probe, remove, create and destroy queues | QueueRegistry, VhciHost |

Dependencies: every user of a submission queue reserves a slot (Reservation),
writes and submits it, and is called back from the interrupt thread (BceQueue).
The command queue is a user with results; the VHCI message and event queues and
the audio rings are users with buffers. The transfer queues use VHCI commands,
events and two submission queues of their own. Only the handshake and the
registration of the two command queues go over the mailbox.

### What is hard, and what makes each part correct

- *Reservation*: a counter, a counter of waiters and a completion, each atomic
  and none of them atomic together. A slot must not be lost or made up, and no
  waiter may be forgotten, at a timeout in particular.
- *Queues*: the driver has four indices per ring where the device has its own;
  completions of all queues come through one ring which the device refills while
  it is drained. Index mismatch is an error without recovery.
- *Command queue, VHCI command queue, audio transport*: the interrupt thread
  writes to the stack of a caller that may have timed out. Each must hand a
  reply to the call it answers and to nobody after that call has returned.
- *Mailbox*: no lock; a reply that is late meets the next message.
- *Event queue*: the index that finds a completion and the index that finds its
  message must stay in step; a work item runs concurrently with the interrupt
  that queues it.
- *Transfer queues*: completions and events come through different queues in no
  fixed order and say nothing of the URB they belong to; failure, reset, pause,
  cancellation and new URBs overlap.
- *Life cycle*: no lock covers the creation or destruction of a queue, so that
  threads use one id after another while an earlier destruction is still going on;
  the error paths of the host controller are nested and decide by pointers what to
  destroy, and the timer must not outlive the registers it writes.
- *Hub*: a command may time out although the device obeyed it, and the USB core
  tries again; the device may name an endpoint in an event before the call that
  creates it has returned. The tables must be right for both sides all the time.
- *Audio devices*: the wait for the first timestamp is armed before the command
  that causes it and ends after it; old timestamps may still be on their way. The
  two sides wait for each other's announcement, and either may come up first.

## 2. Modules

| module | contents |
|---|---|
| `SlotPool` | abstract: a fixed number of slots, free, reserved or used |
| `SubmissionFifo` | abstract: submissions come back once, in order, with their own result |
| `Reservation` | `bce_reserve_submission` and its counterparts, atomic operation by atomic operation; implements `SlotPool` |
| `BceQueue` | submission queues over a completion queue, reservation as one step; implements `SlotPool` and `SubmissionFifo` per queue |
| `CommandQueue` | EXTENDS `BceQueue`: composes callers, `tres[]` and the callback with the queue and its interrupt handler |
| `Mailbox` | send, interrupt, and the probe that uses them, with repeated probes |
| `VhciCommandQueue` | execute, its timeout and cancellation, deliver completion, destroy |
| `EventQueue` | posted buffers, the callback or the deferred worker |
| `TransferQueue` | one endpoint |
| `AudioProtocol` | callers, tags, both rings, the messages of the interrupt thread |
| `QueueRegistry` | creation and destruction of queues: ids, the table, what the device knows; both the abstract rules and the steps of the code |
| `VhciHost` | EXTENDS `QueueRegistry`: the life of the driver, with three threads creating queues, every error path, the timer; implements `QueueRegistry`'s specification |
| `VhciHub` | ports, devices, endpoints and the lookups of URBs and events |
| `AudioDevice` | probe and handshake, opening and closing streams, timestamps |
| `TransferProofs` (`Reservation` and `TransferQueue`), `QueueProofs`, `MailboxProofs`, `VhciHostProofs`, `VhciProofs`, `AudioDeviceProofs`, `VhciCommandQueueProofs`, `AudioProtocolProofs` | theorems |
| `MC*` | the instances TLC checks |

Conventions. A variable has the name of the field it stands for. An action is
what one context does between two points at which another can observe it: one
atomic operation in `Reservation` and `Mailbox`, what happens under a lock
elsewhere. The place of a context in the code is `pc` or has a name of its own
(`irq`, `handler`, `worker`, `todo`). Definitions that say "mutant" are plausible
bugs that `PROJECT.json` uses to show that each property can fail.

Data are numbers or model values. A command or a message is the identity of the
call that made it, and so is its result, so that a result given to somebody else
is visible. Time is only the fact that a timeout has passed, which may happen at
any moment at which the code waits with one.

### Correspondence, module by module

**Reservation.** `TryReserve` and `TryFails` are the test-and-decrement of
`available_commands`; `Arm` counts a waiter, `Wake` and `Timeout` end its wait,
`Withdraw` is `atomic_dec_if_positive` on the waiters after a timeout and
`Steal` the `try_wait_for_completion` if it fails. `NotifyFree`, `NotifyCheck`
and `NotifySignal` are the three atomic steps of
`bce_notify_submission_complete`. Callers in `IrqCallers` run in the context
that notifies, so that no notification happens while they wait.

**BceQueue.** The device completes submissions in order, per queue, and writes
their entries into the completion queue (external definitions). `DrainEntry` and
`Drained` are the loop over the completion queue (`HandleCqCompletion` is
`bce_handle_cq_completion`), after which the callbacks run, last queue first;
`NextCompletion` and `NotifySubmissionComplete` are the body of any callback.

**CommandQueue.** A caller reserves before it takes `lck`, as the code does, and
sleeps without a timeout; the callback takes `lck` for all completions.

**Mailbox.** `mb_status` 0, 1, 2 as in the code; the interrupt reads all words it
finds and then sets the status. The device may answer, refuse, lose, or (in the
probes of `LateProbes`) answer when the sender has given up.

**VhciCommandQueue.** The mutex, the spin-locked completion, the flag 0x4000 of a
cancellation and the second wait are each a step. The device honours a
cancellation if it has not answered; with `late` it may answer after the
cancellation has timed out too. The destruction drains nobody
(`vhci/queue.c:150-163`): until `mutex_destroy` a worker may begin a command, with or
without the abort seen. The event queues are gone by then (`vhci.c:71`), so that an
answer is delivered only by an interrupt thread that is late.

**EventQueue.** `deferred` chooses between the callback and the firmware worker;
`cancels` whether the firmware cancels events.

**TransferQueue.** `ep` is the state under `urb_lock`, and functions on it are
the functions of `transfer.c` of the same name. `full` says which rings have no
slot left, at any moment of a disturbed endpoint; each reservation then fails as the
code has it: a request or a setup is swallowed, an URB stays paused, is refused by
`Create`, fails after its setup, or is completed by a resumption without a giveback.
`mode` is an endpoint's: calm; *pieces*, where the device asks for less than an URB
has and the URB then waits for ever for a completion (`Partly`); or disturbed. The workqueue runs *programs*,
sequences of steps separated where the lock is free or a command is awaited; a
failing command skips the steps the code skips. The device is a USB endpoint:
setup, data, status; it asks for what it is to be sent.

**AudioProtocol.** The spin lock is held from prepare to submit; `handler` is the
place of the interrupt thread in its three jobs.

**QueueRegistry.** `bce_create_cq` and `bce_create_sq` are `Get` (the id and the
memory), `Register` (the command) and `Store` (the table), with `NoId`,
`AllocFails` and `RegisterFails` as their early returns; `bce_destroy_*` is
`Unregister`, `Release` (the id) and `Free` (the memory). Between the last two another
thread may take the id. `Release` leaves the pointer in `queues[]`, as the code
does, and `AllocFails` loses the id, as the code does (`leaked`). `kept` holds the
queues the device was not told to leave: the command failed, or
`is_being_removed` was set.

**VhciHost.** What a thread has yet to do is a list, `todo`: create a queue,
allocate its buffers, add the host controller, destroy a queue. `CreateVhci` is the
list of `bce_vhci_create`, `TeardownOrder` the order of its destructors, and
`Unwind` what the nested error paths make of the pointers that are left (`field`).
The thread "hub" creates the transfer queue of endpoint 0 and looks at no result;
"audio" is `aaudio_bce_init`. The hub thread may start before `usb_add_hcd` has
returned. A thread is `Finished` when its list is empty and it frees nothing any more.
A queue structure is a name such as `Msg(1, "sq")`.

**VhciHub.** `RecordDevice`, `CreateQueue` and `EndpointCreate` are the steps of
`bce_vhci_enable_device` and `bce_vhci_add_endpoint` between the commands they
wait for. A queue (`NewQueue`) is the device and address it was made for, so that a
lookup that finds another one is visible, and `endp`, the structure in whose list it
looks for URBs: a structure is a udev of a port with a number, direction and
alternate setting. Every command has one of three `Outcomes`: `ok`,
`refused`, `lost` (obeyed, with the answer too late). `hcpriv` belongs to the
structures of the port's udev. A new udev (`NewUdev`) has none; `AddEndpoint` of
another setting points its structure to the queue there is, which keeps its `endp`.

**AudioDevice.** `Open` to `OpenReturns` are the steps of `aaudio_pcm_open` around
`start_io_sl`, the command and the wait; `HandleTimestamp`, `WakeOpen` and
`WriteTimestamp` those of the interrupt thread. Messages are in two fifos.
`session` numbers the opens and is carried by what belongs to one; `starts`, how
often the device started, is the clock that both sides read. A reply that nobody
waits for is dropped.

## 3. Runs

| run | question | states |
|---|---|---|
| `reservation` | The lock-free reservation counter, its sleepers and its tokens: no slot is lost or made up, no sleeper is forgotten, every call returns, under every interleaving of callers and completion handler. (TokenCover, EveryCallReturns, ImplementsPool) | 55,488 |
| `bce_queue` | Two submission queues share a completion queue: indices stay in step with the device, every completion is handled, and each queue keeps its slots. (IndexMatch, EveryCompletionHandled, ImplementsPool) | 86,952 |
| `command_queue` | Three callers on a command queue with two slots: each gets the result of its own command, no pointer to a finished call survives, and the queue below is a fifo. (OwnResult, NoDanglingResult, AnsweredCallReturns, ImplementsFifo) | 74,182 |
| `mailbox` | Three probes of a device that may lose or refuse messages and, from the second on, answer late: while no earlier reply is left over a send gets its own reply or fails, and a probe that succeeds has registered everything. (OwnReply, BoundMeansRegistered) | 79,978 |
| `vhci_commands` | Commands that time out, are cancelled in time or too late, lose their reply or get it after everybody gave up, on a queue that may be full or whose destruction has begun: success means the device did it, no stack is written to after the call, every call ends. (SuccessIsReal, NoDanglingResult, EveryCallReturns) | 141,762 |
| `event_queue` | A direct and a deferred queue, firmware that cancels events and firmware that does not: each event is taken, and where no cancellation is looked for it is read from its own buffer. (RightMessage, EveryEventTaken) | 84,242 |
| `event_queue_pair` | After a cancelled event the worker handles the cancellation a second time and gives back a third slot. (SlotPerCompletion, violated) | - |
| `audio_protocol` | Two callers and the interrupt thread share two out buffers and two tags, with replies that come late or never: a caller gets its own reply, no buffer is overwritten before the device has read it, no pointer to a finished call survives, every call returns. (OwnReply, BufferIntact, NoDanglingEntry, EveryCallReturns) | 428,213 |
| `transfer_queue` | Two URBs on a bulk IN, a bulk OUT and a control endpoint, calm, asked for OUT data in pieces, and disturbed (full rings among it): on a calm endpoint completions go to the URB they belong to, success is what the device did, deferred requests are not forgotten and every URB is given back, through stalls and resets; a part of a transfer is no success; on any endpoint cancellations end. (OwnCompletion, SuccessIsReal, NoStuckRequest, PartIsNoSuccess, CancelEnds, EveryUrbGivenBack) | 298,316 |
| `host_life` | The host controller is created, fails at any step or is removed, while the hub thread and the audio probe create queues of their own, with ids given back before their queue is freed, and the timestamp timer runs: the registry is right, nothing is destroyed twice or left behind, removal ends, and every thread keeps to the rules the registry's proofs assume. (LiveIsRegistered, DestroyedOnce, CqOutlivesSq, CleanFailure, RegistersMapped, RemovalEnds, ImplementsRegistry) | 473,576 |
| `vhci_hub` | Two ports and devices, endpoints in several settings, every command refused or lost and tried again: events find the queue of their endpoint from the moment the device may send them, URBs a queue of their endpoint that looks at the list of their own structure (after a change of settings: of one of the same udev). (EventFindsOwnQueue, UrbFindsOwnQueue) | 1,535,330 |
| `audio_device` | An audio device is probed while the remote side boots, and its stream opened three times over commands that may be given up: the first timestamp wakes its open wherever it comes, an old one does not, the time base is of this start, and the handshake cannot wait on itself. (NoLostStart, WokenByOwnStart, TimeBaseFresh, HandshakeGoesOn) | 5,080,434 |

Each property is stated in a comment above its definition. Each property of a passing run has a mutant:
a definition changed as a plausible bug would, under which the same run fails.

### Bounds

Rings have two to four slots and the calls or events are enough to go round them
at least once, since every index comparison in the code is modulo the ring. Two
callers (three where one must wait for a slot, or one runs in the interrupt) are
the fewest for which each can meet another in any of its steps. The completion
queue (two entries) is smaller than what two queues can complete, so that the
device refills it while it is drained. `Reservation` has one slot: every
contended path is taken. `Mailbox` has three probes: an undisturbed one, one whose replies can be late, and one which meets them. `TransferQueue` has two URBs on each
endpoint: the second is enqueued before, while and after the first fails, is
cancelled or completes; one trouble on a control endpoint, two on the others (a ring
that runs full is one; that it has room again is none).
`VhciHost` has one message queue and two event queues for the code's five and
five: the second event queue that fails has queues of both kinds before it;
six ids (2 to 7) for eleven queues, so that ids run out and are used again; and one
mishap (`MaxMishaps`), at any step, besides those. `VhciHub` has two ports,
three endpoints (0, and IN and OUT with the same number), the IN one with structures of
two settings, three udevs in all and two devices (`MaxUdevs`, `MaxDevices`): an attempt
that was lost can be followed by one that succeeds, or find no room, while the other
port has one too. `AudioDevice` has two devices,
three opens in all (`MaxOpens`), so that one device can be opened again twice,
and two messages of the remote side on their way at once (`MaxInFlight`). What
is proved (below) does not depend on bounds.

Deadlock is not checked where the system may stop: the callers have made all
their calls, or the device has nothing to say.

### Fairness

Weak fairness of a caller's own steps: the scheduler runs what can run, and
timers expire. Weak fairness of the interrupt thread and of work items: the
device interrupts for each entry it writes, and the kernel runs queued work.
`VhciCommandQueue` assumes strong fairness of a caller and of the destruction, because
the kernel's mutex is handed on in turn. `VhciHost` assumes that threads go on with
their lists (whichever can; the lists are finite), that the callback ends, that removal goes on, and strong fairness of
`TimestampStop`: `del_timer_sync` tries until it finds the callback not running,
and the callback runs only every 150 ms. Nothing is checked of liveness in
`Mailbox`, `VhciHub` and `AudioDevice`, where every wait has a timeout. Nothing
is assumed of the device, which may never answer, with one exception:
`TransferQueue` needs a device that serves a calm endpoint for
`EveryUrbGivenBack`, an URB having no timeout of its own.

### Preconditions in the properties

Some hold only in part, and say so rather than leave a case out of the model:

- Replies in the mailbox carry no identity. `OwnReply` and `BoundMeansRegistered`
  of `Mailbox` hold for probes that no late reply can meet (`Undisturbed`).
- A VHCI reply is matched by its command code. `SuccessIsReal` of
  `VhciCommandQueue` needs a device that does not answer after its cancellation
  timed out, nor is delivered during the destruction (`~late`); for that device it is
  a theorem.
- An audio reply is matched by its tag, of which there are finitely many:
  `OwnReply` of `AudioProtocol` excepts a reply so late that the tag has gone round.
- `NoPairs` of `EventQueue` excepts a worker that looks for cancellations with
  firmware that sends them: see the finding.
- In `TransferQueue`, `mode = "calm"` is an endpoint that is not cancelled, paused
  or stalled by the firmware, whose rings have room, whose interrupt thread has handled
  aborted completions when a flush returns, and whose device asks for all the OUT data an
  URB has, and not between the command that resumes it and its effect on the queue.
  `EveryUrbGivenBack` is about such an endpoint, up to `usb_hcd_giveback_urb`, and its comment
  names the URBs of others that wait for ever. `StatusOvertakesSetup`
  names one more order that the code gets wrong. Of an endpoint asked for data in pieces,
  `PartIsNoSuccess` holds. `CancelEnds` holds in any mode, of leaving the endpoint's list.
- `CqOutlivesSq` and `CleanFailure` of `VhciHost` except queues that the device did
  not agree to leave (`kept`): the code frees their memory all the same. A removal is
  modelled of a driver that has a host controller; see below.
- `UrbFindsOwnQueue` of `VhciHub` says that the queue of an URB looks for URBs in the list of
  a structure of the same endpoint and the same udev. This is the URB's own structure when only
  one has been added for that endpoint; with several settings the queue stays with the
  first (section 4). It promises an endpoint 0 to the first udev of a port
  that was enabled: `bce_vhci_enable_device` returns early for a later one.
- `WokenByOwnStart` of `AudioDevice` needs the `stop_io` before to have been answered,
  `TimeBaseFresh` the `start_io`: what was given up may be obeyed at any later time.

## 4. Findings

`event_queue_pair` (`vhci.c:468-475`): an event and its cancellation are taken as
a pair ("Take two elements"), but `msg2` is kept and handled again: three slots are
given back for two completions, and every later message is read from the wrong
slot.

Two more comments say more than the code does; no run is spent on them. A caller
of `bce_reserve_submission` that timed out and finds itself counted out does not
always "consume the pending completion" (`queue.c:150`): the notifier has counted
it out but not completed yet, and the stale token wakes a later waiter for
nothing. `TokenCover` and `EveryCallReturns` hold all the same, since every wake-up
tries again. And `-EEXIST`, "two messages at once" (`mailbox.c:23`), is also returned
when a late reply has set the status (`mailbox.c:72`) and no message is there.

Other places that need care, seen while modelling:

- After a change of alternate setting (`vhci.c:289-291`) the new endpoint structure gets the
  old queue, whose `endp` remains the old structure. An URB is linked to the new
  structure's list (`transfer.c:254`), and the queue looks at the old one's (`:80`, `:117`,
  `:143`, `:148`): such an URB is never found. `VhciHub` has the state, and `UrbFindsOwnQueue`
  says exactly how far the promise goes.
- A device that asks for less OUT data than an URB has gets the first part
  (`transfer.c:438-442`); its completion leaves the URB waiting for a completion (`:460`), the
  request for the rest is deferred, and nothing moves any more.
- With a full ring `transfer.c:421` and `:511` swallow a request ("TODO: fail the URB?"), the
  first URB then waits for another one; `:585` completes an URB that only the next interrupt
  gives back.

- `bce_handle_dma_irq` walks `queues[]` (`apple_bce.c:175`), where the pointer of a
  destroyed queue stays until its id is used again.
- The probe ignores the result of `bce_vhci_create` (`apple_bce.c:89`); after a
  failure `apple_bce_remove` destroys the same queues again.
- A failing `aaudio_probe` and `aaudio_remove` free the structure that is the
  `userdata` of queues that stay registered (`audio.c:117`, `:151`).
- A udev that is enabled again finds its port's device and gets no `hcpriv` for
  endpoint 0 (`vhci.c:210`); a device id of 16 or more is outside `devices[]`
  (`vhci.c:221`); results of `endpoint_create` are ignored (`vhci.c:227`, `:299`).
- `aaudio_pcm_open` reads through `alsa_hw_desc`, which may be NULL (`pcm.c:117`), and
  ignores the result of `start_io`; capture substreams have no operations
  (`pcm.c:239`). A timestamp for a device that is not in the list is used as if it
  were (`audio.c:453`).
- A reply buffer that is used again keeps the smaller size of the last reply
  (`protocol_bce.c:136`), and a command that fails does not free it (`protocol.c:206`).

The disturbed mode of `TransferQueue` contains further races, listed as hazards
with a note: the status of a control transfer that is handled before the
completion of its setup (`transfer.c:547`) leaves the URB waiting; data
submitted twice when the device asks during a resume (`transfer.c:200`); a
completion of a cancelled URB taken for the next one's (`transfer.c:149`); a
deferred request nobody delivers after a status (`transfer.c:122`).

## 5. Proofs

All theorems are for every value of the constants, under the assumptions named
`ReservationAssumption` (finitely many callers, a capacity of at least one),
`BceQueueAssumption` (rings of at least two slots, a completion queue that is not
empty; for `CommandQueue`, a number of calls), `QueueRegistryAssumption` (the null pointer is no queue and no id),
`VhciHostAssumption` (any numbers of message and event queues, ids that are numbers),
`VhciHostParts` (the three threads, and all the queues they create),
`VhciHubAssumption` (endpoint structures have numbers of four bits, endpoint 0 has exactly one, the
null pointer is neither a number nor a queue), `VhciCommandQueueAssumption` (a message
queue of at least three slots; the driver's has 255) and `AudioProtocolAssumption`
(at least one buffer and one tag, finitely many callers), `MailboxAssumption` (the late
probes are probes), `EventQueueAssumption` (at least one buffer posted, and one slot
fewer at most than there are), `NoSlotAssumption` (the null pointer is no slot), `NoReplyAssumption` ("no reply" is none)
and `TransferQueueAssumption` (there is a URB, and the four kinds of work items that are not
cancellations are not URBs). `AudioDevice` needs none. TLC has checked each formula on the instances above.

**TransferProofs, the reservation.** `Move` and `MoveCounts` say what moving one caller does to
the cardinalities of `Holders` and `Parked`; every other proof is one case per action.

- `CountersTyped`: inductive as it stands; in particular `available_commands >= 0`.
- `SlotsConserved`: `Conservation` is inductive with the types.
- `NoSleeperForgotten`: `TokenCover` likewise; a notification in its second half counts as a token (`Signalling`).
- `TimeoutIsFinal`: needs `WaitersHaveTime`, that a caller on its way into the wait
  has time left, which is proved invariant first.
- `ReservationImplementsPool`: the mapping takes `Holders` for the reserved slots.
  Initial states map to initial states by an empty set of holders; each action
  maps to acquiring, submitting, giving back or releasing a slot, or to a stutter.

**QueueProofs, `BceQueue`.** The properties are not inductive. `Inv` is their strengthening:

- `TypeOK` and `CallbackListed`: a callback runs only while its queue is listed;
- `ListInv`: the interrupt's list and the flags agree, the list is empty when idle,
  and an unhandled completion means a marked queue;
- `RingInv`: in distances from `head`, `completion_cidx`, `completion_tail`, the
  device's index and `tail` follow each other in this order (`IndexOrder`); the
  slots add up (`Conservation`); and the completion queue from `cq_index` holds one
  entry for each slot between `completion_tail` and the device's index, in ring
  order (`CqInv`). The last is what makes the entry at `cq_index` the one its queue
  expects (`FirstEntryIsNext`), whatever the interleaving of queues in the ring.

Distances on rings are handled by a few lemmas (`DistType`, `DistIncLeft`,
`DistIncRight`, `AheadFacts`), after which no proof mentions the modulus. One
lemma per kind of step (`SubmitStep`, `DeviceStep`, `DrainStep`,
`NextCompletionStep`, `NotifyStep`, `NextCallbackStep`, `ListInvStep`) shows that it keeps
`Inv`; `Invariant` puts them together, and `SlotsConserved`, `NoIndexMismatch`,
`EachQueueCalledOnce`, `IdleMeansDone` and `QueuesImplementPools` follow from it.

`DataInv` adds what the slots hold. Every slot in use holds the payload of its
submission; a stored completion (`completion_data`), one in the ring and one in hand
carry the result of the payload of their slot. It is inductive over `Inv`, since
`Inv` says that the entry at `cq_index` belongs to the slot its queue expects.
`QueuesImplementFifos` is the refinement of `SubmissionFifo`: the payloads from
`completion_cidx` to `tail` in ring order are the fifo (`Waiting`), submission appends to it
(`PutStep`), the device and the drain stutter, and a callback takes its head with that
payload's result (`HandStep`, `FinishStep`).

**QueueProofs, `CommandQueue`.** Every step of `CommandQueue` is one of `BceQueue` or leaves
its variables alone (`QueueSteps`), so that it inherits all of the above
(`CommandQueueIsAQueue`, `CommandsAreAFifo`). On top of it, `CmdInv`: the lock is held
by at most one (`LockInv`); `tres[]` names the submitted call at every slot in use and
nobody elsewhere (`RegisteredInv`, `DistinctInv`); the call an entry names is
submitted and not woken, or over with its result taken (`EntryInv`); the result in the
callback's hand is the call at `head` (`ResultInv`); and who is woken has its own
(`WakeInv`). `CallersGetOwnResult`, `NoResultDangles` and `LockExcludes` follow.

The types, `Conservation`, `OneTimeout`, `ListConsistent` and `NothingLeftBehind` of the
two modules are theorems only: the runs check the properties that rest on them.

**MailboxProofs.** Both properties are about a probe that no earlier one can have left
a reply to (`Undisturbed`). For such a probe `IInv` says where its message is: with the
device, in the registers or in `mb_result` (`InFlight`), read and announced by
`mb_status` (`Answered`), lost, or not written yet (`Quiet`), in agreement with the place in
`bce_mailbox_send` (`SendInv`). That the next probe starts as cleanly as the first is
`Punctual`: with a device that is not late nothing is on its way, and no interrupt is
running, outside the wait. A reply of the type that is hoped for was given by a device
that has agreed (`Honest`), so that a probe has come only as far as the device has
(`Steps`). `OwnReplyHolds` and `BoundMeansRegisteredHolds` follow, for any number of
probes and any set of late ones.

**VhciHostProofs, the registry.** `LiveIsRegistered` alone is not inductive: a step of one
thread must not be able to touch the queue or the id another has in hand. `IInv`
adds that (`HandInv`: whoever is inside a creation or destruction has a queue
of its own, live, or released but not yet freed, and then without an id; `IdInv`: ids of live queues differ, are in use and not lost;
`DeviceInv`: what the device has under an id has that id, and what it knows of a
queue at each place of the code). `LiveQueuesAreFound`, `NoFreedQueueInUse` and
`NoIdLost` follow for every set of threads that keeps to the rules.

**VhciHostProofs, the driver.** `HostImplementsRegistry` shows that the driver's threads do, for
any number of message and event queues. `HostInv` says what makes it so:

- `ThreadInv`: a thread has to do only with queues of its own (`Own`), and what it has
  in hand is the first thing in its list; so no thread finds a queue in the hands
  of another (`NotBusy`), and each of its steps is one of the registry's
  (`StepImplements`);
- `DriverInv`, `HubInv`, `AudioInv`: the list of each thread agrees with the queues there
  are. During `bce_vhci_create` some n of the operations of `CreateVhci` are to
  come, and those before it have made exactly the queues that exist (`Created`);
  after a failure, or in the removal, the list names every queue that exists once,
  a completion queue behind its submission queues (`Destroys`); before that the
  queues that exist have theirs (`WithCqs`);
- a thread whose list has not begun, or is over, has nothing in hand either (`Finished`): what it
  frees last is freed after the list has become empty;
- `LifeInv`: what is over before `life` moves on, and that the timer is stopped before
  the registers are unmapped.

Each action has its lemma. What an action does to its own thread is the work; that it leaves
the rest of `HostInv` alone is stated once (`ThreadFrame`, `DriverFrame`, `HubFrame`,
`AudioFrame`, put together by `Alone` and `Rest`). `QueuesDestroyedOnce`,
`CompletionsHaveAPlace`, `FailureIsClean` and `TimerRegistersMapped` follow, and by the
refinement `HostQueuesAreFound`.

The lists themselves are put together by folding (`CreateVhci`, `Teardown`), so what
they contain for every number of queues takes induction. The library's induction
theorems have operators as parameters; `SetInduction` states it of sets of numbers, by
the least number that is not in the set. From it come `FlattenBlocks` (what stands
where in sequences of one length put end to end) and `TeardownPicks`, and from these
`CreateFacts` (each queue is created once, after its completion queue and before
its buffers), `TeardownFacts` and `TwoTeardowns` (each queue once, the completion
queues last).

**VhciProofs, the hub.** `IInv` joins the two lookups with `TableInv` (what a table names
exists and was made for that port, device and endpoint), `ArgInv` (what the threads
carry between their steps agrees with the tables; the hub thread has endpoint 0,
the other one the rest; the `endp` of a queue in use is a structure of the very udev that has
been added, since only the first udev that is enabled gets queues), `EnabledInv` and `ResetInv`. The one fact about data is
`IndexInjective`: `bce_vhci_endpoint_index` gives different endpoints different
places. `EventsFindTheirQueue` and `UrbsFindTheirQueue` follow, and `PortsResetOnce`, the
driver's promise that the device sees one reset of a port, which is a theorem only.

**VhciProofs, the event queues.** Measured from `head`, `completion_cidx`,
`completion_tail`, the device's index and `tail` follow each other, and the slots add
up (`RingInv`); the events from `head` on are the last ones sent, in order (`DataInv`);
what is before it has been handled once (`HandledInv`). What ties the two ends
together is `WorkerInv`: by the place of the consumer, `completion_cidx` is 0, 1 or 2 ahead
of `head`, and `msg` and `msg2` are the slots in between. It needs `NoPairs`, since
taking two at once breaks it (the finding). `RightMessageHandled`, `EventsHandledOnce` and
`SlotsGivenBack` follow, for rings of any size and any number of buffers posted.
`HandledOnce` is a theorem only.

**AudioDeviceProofs.** `NoLostStart` needs that between arming and the end of the
wait the completion is armed or complete (`Armed`), and that no message, handler,
or running device is of an open whose `start_io` has not been sent (`Old`, `Sent`,
and the types of messages): otherwise an early timestamp could use up the arming.
`ArmedOrComplete` is the invariant, `NoStartIsLost` the property, for any number of
devices and messages on their way.

`WokenByOwnStart` and `TimeBaseFresh` rest on the order of messages. Starts are in the
order of their opens (`OutOrder`), a timestamp behind the reply to a stop is of a later
open (`InOrder`), and a reply on its way means that its command has been read
(`ReplyInv`). So a stop that was answered leaves the device *quiet* up to its open
(`Quiet`: no start to be read, not running, no timestamp under way or in the
interrupt thread's hands; `CleanInv`), and a start that was answered cannot happen
again, which makes any time read from then on a fresh one (`AnsweredInv`). `OfMoves`
and `OrderMoves` say what taking or adding one message does to positions in a
channel; with them most steps need only show what they do not add (`QuietSafe`).
`WokenByTheOwnStart` and `TimeBaseIsFresh` follow from `ChannelsInOrder`.

`HandshakeGoesOn` becomes inductive when what the remote side has said holds at every
place of the probe and not only in its wait (`Heard`, `Answered`):
`HandshakeNeverStalls`.

**VhciCommandQueueProofs.** `SafeInv` relates the mutex, the spin-locked completion
and where the one caller inside is (`Owner`, `Armed`, `Room`, `Numbered`): the
result pointer is that of a call which has not returned, which is `BufferIsLive`.
`NoFalseSuccess` needs `TokenInv`, for a device that is not late: at most one
command is under way, that of the mutex's holder, in the message queue, in the
device or on its way back (`Flight`, as long as nobody has begun to destroy the queue), and a caller that leaves without an answer
leaves nothing behind but a cancellation that is not answered (`Quiet`). That
cancellation, the next command and its own cancellation are the three messages
there must be room for.

**AudioProtocolProofs.** Three arguments meet in `IInv`. The slots of the out queue
add up (`SlotsConserved`: free, held, in the ring, waiting to be given back), so
whoever writes the buffer at the tail leaves one place of the ring unused, and that
buffer is not among those submitted (`RoomForHolder`, `WriteKeepsRing`):
`BuffersStayIntact`. The in queue is a ring too (`PostsConserved`, `InRing`), so the
device does not fill the buffer being handled (`MsgStays`). And a number is known
only once it is sent, under the lock that created it (`Prepared`, `Numbers`), so that
an entry belongs to the youngest command of its tag (`Entries`): `EntriesAreLive`,
and with `RoundOfTags` (two numbers of one tag are equal or a round apart)
`RepliesAreOwn`.

**TransferProofs, the transfer queue.** `OwnCompletion`, `SuccessIsReal` and
`NoStuckRequest` speak of a calm endpoint (section 3) and hold there for any number of
URBs and submissions. No ring is full and no URB is asked for a part there (`RoomAndWhole`), so that
the failing reservations drop out of the proof. `CalmInv` is the one inductive invariant behind them. Besides the
types it says that each URB is in the list once (`Linked`), that a success waiting to be
given back is one (`Successful`), that a deferred request and a URB ready for it do not
meet outside the interrupt thread (`NotStuck`), and what is on its way:

- on an IN endpoint (`InInv`), the URBs of the list are, in order, those of the
  completions not yet handled and those of the submissions the device has;
- on an OUT endpoint (`OutInv`), only the first URB has anything under way, and what it
  has agrees with whether the device has asked;
- on a control endpoint (`ControlInv`), first URB, queues, events and device are in one of
  five phases: no packet sent (`Waiting`), the setup packet under way
  (`SettingUp`), with the device (`Serves`), over and reported (`Ended`), failed and not
  yet handled (`Failing`). `Serves`, `Ended` and `Failing` list the orders in which
  completion, request and status can come. After a failure the endpoint is inactive
  and a reset has been asked for (`Failed`); `ResetStep(k)` says what is cleared when k steps of
  it are left, in the order in which `bce_vhci_transfer_queue_reset_w` clears it.

The argument goes through three layers. The first says field by field what the functions
under `urb_lock` make of an endpoint (`CompleteFields`, `CheckStatusFields`,
`DeliverFields`, ...); a deferred request is delivered once at most, and resuming the
URBs of the list one after the other is an induction over its length, by the least
number for which it fails (`SetInduction`, `ActivateDef`). The second says which
steps leave the first URB, the queues or the rest of the list alone (`HeadLinked`,
`MovesOthers`, `LinksOthers`, `CommonSame`). The third has a lemma for each action
(`CreateStep`, `TakeCompletionStep`, `TakeEventStep`, `DevStatusStep`, ...), put together by
`CalmNext`. What a disturbed endpoint does is left to TLC: there the three properties
do not hold, see section 4.

**Only model-checked.** Liveness, which is out of the reach of the prover: `RemovalEnds`,
`EveryCallReturns`, `EveryUrbGivenBack`, `CancelEnds` and their like. Of the invariants the
runs check, all but `PartIsNoSuccess` are theorems.

## 6. What is not modelled

- *Life cycle*: the probe's own memory, PCI resources and their error path, which
  are sequential; the command queues' memory; module init and exit; the removal of a
  driver whose host controller was not created, and of the audio device, whose
  queues stay behind.
- *DMA segment lists*: sequential, and not called from anywhere in the driver.
- *Hub*: requests that only send a command or return a constant; `bce_vhci_start`.
- *Audio*: the encoding of messages; what properties and stream descriptions say;
  streams without a hardware description; the position computed from the last
  timestamp (`pcm.c:199`), for which the repository states no expectation.
- *In the transfer queues*: the count of slots (a ring of a disturbed endpoint may be full at any
  time, for whatever reason; the slots that aborted completions keep, `transfer.c:139-146`, are
  one), zero-length OUT on bulk endpoints, paused OUT endpoints ("Not
  implemented", `transfer.c:166`), sleeping reservations under the lock.
- *Steps and branches that cannot be told apart or reached*:
  `RegisterFails` frees the queue and gives its id back in one step, in that order in the code, when
  nobody else has seen the queue; `HandleCqCompletion` leaves out the checks of the id's range
  and of a missing queue (`queue.c:44-52`), since no queue comes or goes in `BceQueue`; `Drained`
  leaves out the doorbell (`queue.c:89`), which gives the device more room than it has
  (its completions are bounded by the entries handled, not by those announced as handled);
  `Examine` of `Mailbox` takes a reply with a wrong value (`apple_bce.c:189`) as refused;
  `HandleSlots` of `EventQueue` leaves out the response's own reservation (`vhci.c:394-397`), on
  which no variable of the model depends; `ReserveFails` of `AudioProtocol` happens while no
  slot is free, since a timeout that comes after a slot was freed changes nothing but
  the caller's own place and may as well come just before; the boot handler of `AudioDevice` does
  not fail to send, and what the remote side does is an assumption about the device.
- *Layout of messages, DMA mapping, logging, module parameters*; `Makefile`.

## 7. Plan

Done, in this order: `SlotPool`, `Reservation` and its proofs; `SubmissionFifo`,
`BceQueue` and its proofs; `CommandQueue` and its proofs; `Mailbox` and its proofs; `VhciCommandQueue` and its
proofs; `EventQueue` and its proofs; `AudioProtocol` and its proofs; `TransferQueue` and its proofs;
`QueueRegistry`, `VhciHost` and their proofs; `VhciHub` and its proofs; `AudioDevice`
and its proofs.

Next, models:

1. `TransferQueue` with counted slots instead of `full`, refined to `SlotPool`, and with those
   that aborted completions keep.
2. `BceQueue` with queues that come and go (`QueueRegistry`), for the pointers that
   stay in `queues[]`.
3. The memory of probe and remove.

Next, proofs:

1. What holds of a disturbed endpoint of `TransferQueue` too: that a URB is in the list
   once and given back once, and that the slots of its queues add up (with the bounded
   ring above).
