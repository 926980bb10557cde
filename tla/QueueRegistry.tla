---------------------------- MODULE QueueRegistry ----------------------------
(***************************************************************************)
(* The registry of queues (bce_create_cq, bce_create_sq, bce_destroy_cq    *)
(* and bce_destroy_sq in src/queue.c): an id allocator, the table          *)
(* queues[] by which the interrupt thread and the completions find a       *)
(* queue, and the device, which is told of each queue by a command.        *)
(*                                                                         *)
(* No lock covers a creation or a destruction: threads go through them     *)
(* side by side, and an id that one gives back may be the next one that    *)
(* another gets.  Each step below is atomic in the code: the allocator and *)
(* the command queue have locks of their own (CommandQueue.tla shows that  *)
(* a command returns the device's answer to that very command).            *)
(*                                                                         *)
(* A member of Queues is one queue structure from its allocation on: it is *)
(* created once and freed once.                                            *)
(***************************************************************************)
EXTENDS Naturals

CONSTANTS Threads,
          Queues,      \* queue structures
          Qids,        \* BCE_QUEUE_USER_MIN .. BCE_QUEUE_USER_MAX - 1
          None,
          MaxMishaps   \* bound: allocations and commands that fail

ASSUME QueueRegistryAssumption ==
    /\ None \notin Queues /\ None \notin Qids
    /\ MaxMishaps \in Nat

VARIABLES queue_ida,   \* ids in use
          qid,         \* by queue: its id
          mem,         \* by queue: whether its memory is allocated; when it is
                       \* "released" the queue has no id any more
          queues,      \* the table: by id, a queue or NULL
          registered,  \* device: by id, the queue whose memory it uses
          leaked,      \* ids that nobody can give back
          kept,        \* queues it was not, or not successfully, told to leave
          pc, cur,     \* by thread: where it is, and with which queue
          is_being_removed,
          mishaps      \* counted for its bound

driverVars == <<queue_ida, qid, mem, queues>>
threadVars == <<pc, cur>>
regVars == <<driverVars, registered, kept, leaked, threadVars, is_being_removed, mishaps>>

TypeOK == /\ queue_ida \subseteq Qids
          /\ qid \in [Queues -> Qids \cup {None}]
          /\ mem \in [Queues -> {"none", "live", "released", "freed"}]
          /\ queues \in [Qids -> Queues \cup {None}]
          /\ registered \in [Qids -> Queues \cup {None}]
          /\ kept \subseteq Queues
          /\ leaked \subseteq Qids
          /\ pc \in [Threads -> {"idle", "register", "store", "release", "free"}]
          /\ cur \in [Threads -> Queues \cup {None}]
          /\ is_being_removed \in BOOLEAN
          /\ mishaps \in 0..MaxMishaps

Init == /\ queue_ida = {}
        /\ qid = [q \in Queues |-> None]
        /\ mem = [q \in Queues |-> "none"]
        /\ queues = [i \in Qids |-> None]
        /\ registered = [i \in Qids |-> None]
        /\ kept = {} /\ leaked = {}
        /\ pc = [t \in Threads |-> "idle"] /\ cur = [t \in Threads |-> None]
        /\ is_being_removed = FALSE
        /\ mishaps = 0

Goto(t, place, q) == /\ pc' = [pc EXCEPT ![t] = place]
                     /\ cur' = [cur EXCEPT ![t] = q]
Done(t) == Goto(t, "idle", None)

Mishap == mishaps < MaxMishaps /\ mishaps' = mishaps + 1

(***************************************************************************)
(* bce_create_cq, bce_create_sq                                            *)
(***************************************************************************)

(* ida_simple_get: an id i that is free, and the memory.                    *)
Get(t, q, i) ==
    /\ pc[t] = "idle" /\ mem[q] = "none"
    /\ i \notin queue_ida
    /\ queue_ida' = queue_ida \cup {i}
    /\ qid' = [qid EXCEPT ![q] = i]
    /\ mem' = [mem EXCEPT ![q] = "live"]
    /\ Goto(t, "register", q)
    /\ UNCHANGED <<queues, registered, kept, leaked, is_being_removed, mishaps>>

(* No id is free: NULL is returned.                                        *)
NoId(t) == /\ pc[t] = "idle" /\ Qids \subseteq queue_ida
           /\ UNCHANGED regVars

(* bce_alloc_cq or bce_alloc_sq fails: NULL is returned and the id stays   *)
(* in use for ever.                                                        *)
AllocFails(t, i) ==
    /\ pc[t] = "idle" /\ i \notin queue_ida
    /\ Mishap
    /\ queue_ida' = queue_ida \cup {i}
    /\ leaked' = leaked \cup {i}
    /\ UNCHANGED <<qid, mem, queues, registered, kept, threadVars, is_being_removed>>

(* The command to register the queue succeeds.                             *)
Register(t) ==
    /\ pc[t] = "register"
    /\ registered' = [registered EXCEPT ![qid[cur[t]]] = cur[t]]
    /\ Goto(t, "store", cur[t])
    /\ UNCHANGED <<driverVars, kept, leaked, is_being_removed, mishaps>>

(* It fails, as it may when the device has a queue with that id: the queue, *)
(* which nobody else knows, is freed, then its id given back, and NULL     *)
(* returned.                                                               *)
RegisterFails(t) ==
    /\ pc[t] = "register"
    /\ \/ registered[qid[cur[t]]] # None /\ UNCHANGED mishaps
       \/ registered[qid[cur[t]]] = None /\ Mishap
    /\ mem' = [mem EXCEPT ![cur[t]] = "freed"]
    /\ queue_ida' = queue_ida \ {qid[cur[t]]}
    /\ Done(t)
    /\ UNCHANGED <<qid, queues, registered, kept, leaked, is_being_removed>>

(* Only a queue the device knows is entered in the table.                  *)
Store(t) ==
    /\ pc[t] = "store"
    /\ queues' = [queues EXCEPT ![qid[cur[t]]] = cur[t]]
    /\ Done(t)
    /\ UNCHANGED <<queue_ida, qid, mem, registered, kept, leaked, is_being_removed, mishaps>>

(***************************************************************************)
(* bce_destroy_cq, bce_destroy_sq                                          *)
(***************************************************************************)

(* A mutant: gives the id back at once, and again in the end.              *)
UnregisterIdToo(t, q) ==
    /\ pc[t] = "idle" /\ mem[q] = "live"
    /\ registered' = [registered EXCEPT ![qid[q]] = None]
    /\ queue_ida' = queue_ida \ {qid[q]}
    /\ Goto(t, "release", q)
    /\ UNCHANGED <<qid, mem, queues, kept, leaked, is_being_removed, mishaps>>

(* Unless the device is gone it is told to leave the queue alone; when     *)
(* that fails it is only reported.                                         *)
Unregister(t, q) ==
    /\ pc[t] = "idle" /\ mem[q] = "live"
    /\ \/ /\ ~is_being_removed
          /\ registered' = [registered EXCEPT ![qid[q]] = None]
          /\ UNCHANGED <<kept, mishaps>>
       \/ /\ \/ is_being_removed /\ UNCHANGED mishaps
             \/ ~is_being_removed /\ Mishap
          /\ kept' = kept \cup {q}
          /\ UNCHANGED registered
    /\ Goto(t, "release", q)
    /\ UNCHANGED <<driverVars, leaked, is_being_removed>>

(* The id is given back, and anybody may have it from now on. The table    *)
(* keeps the pointer until the id is used again.                           *)
Release(t) ==
    /\ pc[t] = "release"
    /\ queue_ida' = queue_ida \ {qid[cur[t]]}
    /\ mem' = [mem EXCEPT ![cur[t]] = "released"]
    /\ Goto(t, "free", cur[t])
    /\ UNCHANGED <<qid, queues, registered, kept, leaked, is_being_removed, mishaps>>

(* bce_free_cq, bce_free_sq                                                *)
Free(t) ==
    /\ pc[t] = "free"
    /\ mem' = [mem EXCEPT ![cur[t]] = "freed"]
    /\ Done(t)
    /\ UNCHANGED <<queue_ida, qid, queues, registered, kept, leaked, is_being_removed, mishaps>>

(* apple_bce_remove.                                                       *)
StartRemoval == /\ ~is_being_removed
                /\ is_being_removed' = TRUE
                /\ UNCHANGED <<driverVars, registered, kept, leaked, threadVars, mishaps>>

(***************************************************************************)
(* Any thread creates queues and destroys those that nobody is busy with.  *)
(***************************************************************************)
Busy(q) == \E t \in Threads : cur[t] = q

RegNext == \/ \E t \in Threads :
                \/ NoId(t) \/ Register(t) \/ RegisterFails(t) \/ Store(t)
                \/ Release(t) \/ Free(t)
                \/ \E i \in Qids : AllocFails(t, i)
                \/ \E q \in Queues : ~Busy(q) /\ Unregister(t, q)
                \/ \E q \in Queues, i \in Qids : Get(t, q, i)
           \/ StartRemoval

RegSpec == Init /\ [][RegNext]_regVars

(***************************************************************************)
(* Properties                                                              *)
(***************************************************************************)

(* A queue between its creation and its destruction is the one the table   *)
(* has under its id and the one the device uses under that id, whatever    *)
(* other threads create, fail to create and destroy meanwhile, with ids    *)
(* that are used again at once: its completions and its interrupts find it.*)
LiveIsRegistered ==
    \A q \in Queues : mem[q] = "live" /\ ~Busy(q) =>
        queues[qid[q]] = q /\ registered[qid[q]] = q

(* The device uses no memory that has been freed, except that of queues    *)
(* it was not told to leave, or refused to.                                *)
RegisteredIsLive ==
    \A i \in Qids : registered[i] # None =>
        mem[registered[i]] = "live" \/ registered[i] \in kept

(* No id is lost but by an allocation that fails, and none is given back   *)
(* while its queue is there: the ids in use are those of the queues there  *)
(* are and the lost ones.                                                  *)
IdsAccounted == queue_ida = {qid[q] : q \in {r \in Queues : mem[r] = "live"}} \cup leaked
=============================================================================
