------------------------------ MODULE VhciHost -------------------------------
(***************************************************************************)
(* The life of the driver: the end of apple_bce_probe, the creation of the *)
(* host controller and its queues with all their error paths, and          *)
(* apple_bce_remove (src/apple_bce.c, src/vhci/vhci.c, src/vhci/queue.c),  *)
(* while the hub thread creates a transfer queue for a device it finds and *)
(* the probe of the audio device creates its own queues, all of them       *)
(* clients of QueueRegistry; and the timestamp timer, which runs meanwhile *)
(* (src/mailbox.c).                                                        *)
(*                                                                         *)
(* A thread works through a list of what it has to do; a failure replaces  *)
(* the list by what the error path does.                                   *)
(***************************************************************************)
EXTENDS QueueRegistry, Sequences, SequencesExt, FiniteSets

CONSTANTS MsgQueues, EvQueues   \* how many of each (the code has five)

ASSUME VhciHostAssumption ==
    /\ MsgQueues \in Nat /\ EvQueues \in Nat
    /\ Qids \subseteq Nat

VARIABLES life,    \* how far probe or remove is
          todo,    \* by thread: what it has yet to do
          field,   \* queues whose pointer in its structure is not NULL
          timer,   \* the timestamp timer
          mapped,  \* the registers
          started  \* threads that have had their one occasion

hostVars == <<life, todo, field, timer, mapped, started>>
vars == <<regVars, hostVars>>

Msg(i, kind) == <<"msg", i, kind>>
Ev(i) == <<"ev", i, "sq">>
EvCq == <<"ev", 0, "cq">>
Tq(kind) == <<"tq", 0, kind>>
Audio(kind) == <<"audio", 0, kind>>
Hcd == <<"hcd", 0, "hcd">>

(* One message queue, one event queue, one transfer queue structure.       *)
Group(q) == <<q[1], q[2]>>

AllQueues == {Msg(i, k) : i \in 1..MsgQueues, k \in {"cq", "sq"}}
             \cup {Ev(i) : i \in 1..EvQueues} \cup {EvCq}
             \cup {Tq(k) : k \in {"cq", "in", "out"}}
             \cup {Audio(k) : k \in {"cq", "in", "out"}}

(* There are these three threads, and the queues are all they may create.  *)
ASSUME VhciHostParts == Threads = {"driver", "hub", "audio"} /\ Queues = AllQueues

Create(q) == <<"create", q>>    \* bce_create_cq, bce_create_sq
Dma(q) == <<"dma", q>>          \* dma_alloc_coherent for its elements
Add == <<"add", Hcd>>           \* usb_create_hcd, usb_add_hcd
Destroy(q) == <<"destroy", q>>  \* bce_destroy_cq, bce_destroy_sq

(***************************************************************************)
(* What each thread does when all goes well                                *)
(***************************************************************************)

(* bce_vhci_create_message_queues, bce_vhci_create_event_queues.            *)
CreateVhci ==
    FlattenSeq([i \in 1..MsgQueues |->
                  <<Create(Msg(i, "cq")), Create(Msg(i, "sq")), Dma(Msg(i, "sq"))>>])
    \o <<Create(EvCq)>>
    \o FlattenSeq([i \in 1..EvQueues |-> <<Create(Ev(i)), Dma(Ev(i))>>])
    \o <<Add>>

(* bce_create_transfer_queue for endpoint 0, which has both directions.    *)
CreateTransferQueue == <<Create(Tq("cq")), Create(Tq("in")), Create(Tq("out"))>>

(* aaudio_bce_init.                                                        *)
CreateAudio == <<Create(Audio("cq")), Create(Audio("out")), Dma(Audio("out")),
                 Create(Audio("in")), Dma(Audio("in"))>>

(* A mutant: a completion queue goes before its submission queue.          *)
TeardownCqFirst ==
    [i \in 1..EvQueues |-> Ev(i)] \o <<EvCq>>
    \o FlattenSeq([i \in 1..MsgQueues |-> <<Msg(i, "cq"), Msg(i, "sq")>>])

(* The order in which bce_vhci_destroy_event_queues, then                  *)
(* bce_vhci_destroy_message_queues, destroy what is there.                 *)
TeardownOrder ==
    [i \in 1..EvQueues |-> Ev(i)] \o <<EvCq>>
    \o FlattenSeq([i \in 1..MsgQueues |-> <<Msg(i, "sq"), Msg(i, "cq")>>])

Teardown(there) ==
    LET first[n \in 0..Len(TeardownOrder)] ==  \* what the first n steps destroy
          IF n = 0 THEN << >>
          ELSE IF TeardownOrder[n] \in there
          THEN Append(first[n - 1], Destroy(TeardownOrder[n]))
          ELSE first[n - 1]
    IN  first[Len(TeardownOrder)]

HostTypeOK ==
    /\ TypeOK
    /\ life \in {"probing", "creating", "failed", "bound", "removing",
                 "destroying", "closing", "stopped", "gone"}
    /\ todo \in [Threads -> Seq({"create", "dma", "add", "destroy"} \X (Queues \cup {Hcd}))]
    /\ field \subseteq Queues
    /\ timer \in {"off", "armed", "running"}
    /\ mapped \in BOOLEAN
    /\ started \subseteq Threads

HostInit == /\ Init
            /\ life = "probing"
            /\ todo = [t \in Threads |-> << >>]
            /\ field = {}
            /\ timer = "armed"
            /\ mapped = TRUE
            /\ started = {}

(* What thread t does next, if it is not in the middle of something.       *)
Op(t) == IF pc[t] = "idle" /\ todo[t] # << >> THEN Head(todo[t]) ELSE <<"none", None>>

Become(t, list) == todo' = [todo EXCEPT ![t] = list]

(***************************************************************************)
(* A step that succeeds                                                    *)
(***************************************************************************)
LowestFree(i) == i \notin queue_ida /\ \A j \in Qids \ queue_ida : i <= j

(* The transfer queue's submission queues need its completion queue.       *)
CqMissing(q) == Group(q) = Group(Tq("in")) /\ q # Tq("cq") /\ Tq("cq") \notin field

CreateStep(t) ==
    \/ /\ Op(t)[1] = "create" /\ ~CqMissing(Op(t)[2])
       /\ \E i \in Qids : LowestFree(i) /\ Get(t, Op(t)[2], i)
       /\ UNCHANGED hostVars
    \/ Register(t) /\ UNCHANGED hostVars
    \/ /\ Store(t)
       /\ field' = field \cup {cur[t]}
       /\ Become(t, Tail(todo[t]))
       /\ UNCHANGED <<life, timer, mapped, started>>

DmaStep(t) == /\ Op(t)[1] = "dma"
              /\ Become(t, Tail(todo[t]))
              /\ UNCHANGED <<regVars, life, field, timer, mapped, started>>

AddStep(t) == /\ Op(t)[1] = "add"
              /\ Become(t, Tail(todo[t]))
              /\ life' = "bound"
              /\ UNCHANGED <<regVars, field, timer, mapped, started>>

(* A mutant: an error path calls bce_free_sq instead of bce_destroy_sq.    *)
FreeStep(t) ==
    /\ Op(t)[1] = "destroy"
    /\ mem' = [mem EXCEPT ![Op(t)[2]] = "freed"]
    /\ Become(t, Tail(todo[t]))
    /\ UNCHANGED <<queue_ida, qid, queues, registered, kept, leaked, threadVars>>
    /\ UNCHANGED <<is_being_removed, mishaps, life, field, timer, mapped, started>>

DestroyStep(t) ==
    \/ Op(t)[1] = "destroy" /\ Unregister(t, Op(t)[2]) /\ UNCHANGED hostVars
    \/ /\ Release(t)
       /\ Become(t, Tail(todo[t]))
       /\ UNCHANGED <<life, field, timer, mapped, started>>
    \/ Free(t) /\ UNCHANGED hostVars

(* It has nothing left to do.                                              *)
Finished(t) == pc[t] = "idle" /\ todo[t] = << >>

(***************************************************************************)
(* A step that fails, at queue q                                           *)
(***************************************************************************)
OwnGroup(q) == {p \in field : Group(p) = Group(q)}

(* A mutant: the structure keeps the pointers of what it destroyed.        *)
UnwindTwice(q) ==
    /\ Become("driver", Teardown(OwnGroup(q)) \o Teardown(field))
    /\ life' = "failed"
    /\ UNCHANGED field

(* A mutant: the error path of the event queues leaves out the message     *)
(* queues.                                                                 *)
UnwindShort(q) ==
    /\ Become("driver", Teardown(OwnGroup(q))
                        \o Teardown({p \in field \ OwnGroup(q) : p[1] = q[1]}))
    /\ field' = field \ OwnGroup(q)
    /\ life' = "failed"

(* The driver: the queue structure that fails undoes itself and forgets    *)
(* its pointers, then everything else is destroyed; those pointers stay.   *)
Unwind(q) ==
    /\ Become("driver", Teardown(OwnGroup(q)) \o Teardown(field \ OwnGroup(q)))
    /\ field' = field \ OwnGroup(q)
    /\ life' = "failed"

(* A mutant: the hub thread tries again.                                   *)
FailAgain(t, q) ==
    \/ t = "driver" /\ Unwind(q)
    \/ t = "hub" /\ UNCHANGED <<todo, field, life>>
    \/ t = "audio" /\ Become(t, << >>) /\ UNCHANGED <<field, life>>

(* The hub thread looks at no result; the probe of the audio device gives  *)
(* up, and destroys a submission queue for which it gets no buffers.       *)
Fail(t, q) ==
    \/ t = "driver" /\ Unwind(q)
    \/ t = "hub" /\ Become(t, Tail(todo[t])) /\ UNCHANGED <<field, life>>
    \/ /\ t = "audio"
       /\ Become(t, IF q \in field THEN <<Destroy(q)>> ELSE << >>)
       /\ UNCHANGED <<field, life>>

CreateFails(t) ==
    /\ \/ /\ Op(t)[1] = "create"
          /\ IF CqMissing(Op(t)[2])
             THEN UNCHANGED regVars
             ELSE NoId(t) \/ \E i \in Qids : LowestFree(i) /\ AllocFails(t, i)
          /\ Fail(t, Op(t)[2])
       \/ RegisterFails(t) /\ Fail(t, cur[t])
    /\ UNCHANGED <<timer, mapped, started>>

(* No buffers, or no host controller: then there is no root hub either.    *)
OtherFails(t) ==
    /\ Op(t)[1] \in {"dma", "add"}
    /\ Op(t)[1] = "add" => "hub" \notin started
    /\ Fail(t, Op(t)[2])
    /\ UNCHANGED <<regVars, timer, mapped, started>>

(***************************************************************************)
(* Probe and remove                                                        *)
(***************************************************************************)

(* bce_fw_version_handshake and bce_create_command_queues (Mailbox) end    *)
(* well, or the probe fails.                                               *)
Handshake ==
    /\ life = "probing"
    /\ \/ life' = "creating" /\ Become("driver", CreateVhci)
       \/ life' = "closing" /\ UNCHANGED todo
    /\ UNCHANGED <<regVars, field, timer, mapped, started>>

(* The audio device is probed, with the device that global_bce names.      *)
AudioProbe ==
    /\ life \in {"creating", "failed", "bound"}
    /\ "audio" \notin started /\ started' = started \cup {"audio"}
    /\ Become("audio", CreateAudio)
    /\ UNCHANGED <<regVars, life, field, timer, mapped>>

(* bce_vhci_enable_device, the first time: perhaps before usb_add_hcd has  *)
(* returned.                                                               *)
EnableDevice ==
    /\ life \in {"bound", "removing"} \/ Op("driver")[1] = "add"
    /\ "hub" \notin started /\ started' = started \cup {"hub"}
    /\ Become("hub", CreateTransferQueue)
    /\ UNCHANGED <<regVars, life, field, timer, mapped>>

(* apple_bce_remove, of a driver that has a host controller. The audio     *)
(* driver was removed before (apple_bce_module_exit).                      *)
AppleBceRemove ==
    /\ life = "bound" /\ Finished("audio")
    /\ StartRemoval
    /\ life' = "removing"
    /\ UNCHANGED <<todo, field, timer, mapped, started>>

(* usb_remove_hcd waits for the hub thread; then the queues go. Transfer   *)
(* queues stay.                                                            *)
RemoveHcd ==
    /\ life = "removing" /\ Finished("hub")
    /\ life' = "destroying"
    /\ Become("driver", Teardown(field))
    /\ UNCHANGED <<regVars, field, timer, mapped, started>>

QueuesGone ==
    /\ life = "destroying" /\ Finished("driver")
    /\ life' = "closing"
    /\ UNCHANGED <<regVars, todo, field, timer, mapped, started>>

(* A mutant: del_timer, which does not wait.                               *)
TimestampStopNow ==
    /\ life = "closing"
    /\ timer' = IF timer = "running" THEN "running" ELSE "off"
    /\ life' = "stopped"
    /\ UNCHANGED <<regVars, todo, field, mapped, started>>

(* bce_timestamp_stop: del_timer_sync waits for a running callback, and    *)
(* stops the timer also when that has just set it again.                   *)
TimestampStop ==
    /\ life = "closing" /\ timer # "running"
    /\ timer' = "off"
    /\ life' = "stopped"
    /\ UNCHANGED <<regVars, todo, field, mapped, started>>

(* The interrupts, the command queues and the registers.                   *)
Unmap == /\ life = "stopped"
         /\ life' = "gone"
         /\ mapped' = FALSE
         /\ UNCHANGED <<regVars, todo, field, timer, started>>

(* bc_send_timestamp: runs, writes the registers, sets the timer again.    *)
SendTimestamp ==
    /\ \/ timer = "armed" /\ timer' = "running"
       \/ timer = "running" /\ timer' = "armed"
    /\ UNCHANGED <<regVars, life, todo, field, mapped, started>>

HostNext ==
    \/ \E t \in Threads : \/ CreateStep(t) \/ DmaStep(t) \/ AddStep(t) \/ DestroyStep(t)
                          \/ CreateFails(t) \/ OtherFails(t)
    \/ Handshake \/ AudioProbe \/ EnableDevice
    \/ AppleBceRemove \/ RemoveHcd \/ QueuesGone \/ TimestampStop \/ Unmap
    \/ SendTimestamp

Spec == HostInit /\ [][HostNext]_vars

(* Threads go on with what they have to do, a removal goes on, a callback  *)
(* ends, and del_timer_sync, which tries until the callback is not         *)
(* running, succeeds.                                                      *)
FairSpec == /\ Spec
            /\ WF_vars(\E t \in Threads : CreateStep(t) \/ DmaStep(t) \/ AddStep(t)
                                          \/ DestroyStep(t) \/ CreateFails(t))
            /\ WF_vars(RemoveHcd \/ QueuesGone \/ Unmap)
            /\ WF_vars(SendTimestamp) /\ SF_vars(TimestampStop)

(***************************************************************************)
(* Properties                                                              *)
(***************************************************************************)

(* Every creation and destruction follows the rules of the registry, so    *)
(* that its theorems (VhciHostProofs) hold here: a thread destroys         *)
(* only queues that no other thread is creating or destroying, and does    *)
(* nothing to them but by bce_destroy_cq and bce_destroy_sq.               *)
ImplementsRegistry == RegSpec

(* A queue is destroyed that exists, and once: no error path comes across  *)
(* a queue that an earlier part of it has destroyed.                       *)
DestroyedOnce ==
    \A t \in Threads : Op(t)[1] = "destroy" => mem[Op(t)[2]] = "live"

(* A submission queue never outlives its completion queue: while the device *)
(* may complete submissions of a queue it has a place for them.            *)
Cq(q) == CASE q[1] = "ev" -> EvCq
           [] q[1] = "msg" -> Msg(q[2], "cq")
           [] OTHER -> <<q[1], q[2], "cq">>

CqOutlivesSq ==
    \A q \in Queues : (\E i \in Qids : registered[i] = q) /\ q \notin kept
                      => mem[Cq(q)] = "live"

(* After the creation of the host controller has failed, at whichever      *)
(* step, none of its queues is left, nor does the device use any, except   *)
(* those it refused to leave.                                              *)
CleanFailure ==
    life = "failed" /\ Finished("driver") =>
        \A q \in Queues : q[1] \in {"msg", "ev"} =>
            /\ mem[q] \in {"none", "freed"}
            /\ (\E i \in Qids : registered[i] = q) => q \in kept

(* The timer's callback writes no register that is not mapped any more.    *)
RegistersMapped == timer = "running" => mapped

(* A removal that has begun ends.                                          *)
RemovalEnds == life = "removing" ~> life = "gone"
=============================================================================
