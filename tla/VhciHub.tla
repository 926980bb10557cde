------------------------------- MODULE VhciHub -------------------------------
(***************************************************************************)
(* Ports, devices and endpoints of the USB host controller                 *)
(* (src/vhci/vhci.c, src/vhci/command.h): hub control requests, enabling   *)
(* devices, adding endpoints, and the tables by which URBs, transfer       *)
(* requests and firmware events find their queue.                          *)
(*                                                                         *)
(* The USB core makes one hub request or enable_device call at a time      *)
(* (thread "hub") and one add_endpoint call at a time (thread "core"), the *)
(* latter for a device whose endpoint 0 works. Meanwhile the interrupt     *)
(* thread and the firmware event worker look up what the device names.     *)
(* Every command may succeed, be refused, or time out although the device  *)
(* has obeyed (VhciCommandQueue).                                          *)
(***************************************************************************)
EXTENDS Naturals, Sequences
LOCAL INSTANCE Functions

CONSTANTS Ports,
          Endps,       \* endpoint structures: [num |-> n, in |-> whether IN,
                       \* setting |-> the alternate setting it is of]
          None,
          MaxUdevs,    \* bound: udevs that the USB core allocates, for all ports
          MaxDevices,  \* bound: devices created (the code has room for 16)
          MaxRequests  \* bound: power and reset requests

Ep0 == [num |-> 0, in |-> FALSE, setting |-> 0]

(* bEndpointAddress. Structures of different settings share it, and it is  *)
(* all that the device is told; endpoint 0 has one structure, udev->ep0.   *)
addr(endp) == [num |-> endp.num, in |-> endp.in]

Addrs == {addr(e) : e \in Endps}

(* bce_vhci_transfer_queue: dev_addr, endp_addr, and endp, which is a      *)
(* structure of the udev with a number on a port.                          *)
Queues == [dev : 1..MaxDevices, addr : Addrs, endp : Ports \X Nat \X Endps]

ASSUME VhciHubAssumption ==
    /\ Endps \subseteq [num : 0..15, in : BOOLEAN, setting : Nat] /\ Ep0 \in Endps
    /\ \A e \in Endps : addr(e) = addr(Ep0) => e = Ep0
    /\ None \notin Nat /\ None \notin Nat \X Nat /\ None \notin Queues
    /\ MaxUdevs \in Nat /\ MaxDevices \in Nat

VARIABLES port_power_mask, port_reset_mask,
          port_to_device,  \* by port: a device id, 0 for none
          devices,         \* by device id: whether there is a structure
          tq_mask, tq,     \* by device id: endpoint indices, and by index a queue
          udev,            \* by port: how many udevs the USB core has made
          hcpriv,          \* by port: the queues of its udev's endpoint structures
          enabled,         \* by port: the first udev that was enabled with success
          pc, arg,         \* by thread: where it is, and with what
          made,            \* device: by device id, the port
          endpoints,       \* device: endpoints it was told of
          resets,          \* device: by port, the resets it saw
          requests         \* power and reset requests so far, for the bound

tables == <<port_to_device, devices, tq_mask, tq>>
core == <<udev, hcpriv, enabled>>
masks == <<port_power_mask, port_reset_mask>>
device == <<made, endpoints, resets>>
threads == <<pc, arg>>
vars == <<tables, core, masks, device, threads, requests>>

DevIds == 1..MaxDevices
Threads == {"hub", "core"}

(* bce_vhci_endpoint_index: OUT endpoints first, then IN.                  *)
endpoint_index(a) == IF a.in THEN 16 + a.num ELSE a.num

Indices == {endpoint_index(a) : a \in Addrs}

Init == /\ port_power_mask = {} /\ port_reset_mask = {}
        /\ port_to_device = [p \in Ports |-> 0]
        /\ devices = {}
        /\ tq_mask = [d \in DevIds |-> {}]
        /\ tq = [d \in DevIds |-> [i \in Indices |-> None]]
        /\ udev = [p \in Ports |-> 0]
        /\ hcpriv = [p \in Ports |-> [e \in Endps |-> None]]
        /\ enabled = [p \in Ports |-> None]
        /\ pc = [t \in Threads |-> "idle"] /\ arg = [t \in Threads |-> None]
        /\ made = << >>
        /\ endpoints = {}
        /\ resets = [p \in Ports |-> 0]
        /\ requests = 0

Goto(t, place, x) == /\ pc' = [pc EXCEPT ![t] = place]
                     /\ arg' = [arg EXCEPT ![t] = x]

Return(t) == Goto(t, "idle", None)

Outcomes == {"ok", "refused", "lost"}
Obeyed(outcome) == outcome # "refused"
Success(outcome) == outcome = "ok"

(***************************************************************************)
(* bce_vhci_hub_control                                                    *)
(***************************************************************************)

Request == pc["hub"] = "idle" /\ requests < MaxRequests /\ requests' = requests + 1

(* SetPortFeature and ClearPortFeature of USB_PORT_FEAT_POWER. The status  *)
(* of a port does not tell the power, so the driver keeps it.              *)
SetPower(p, outcome) ==
    /\ Request
    /\ \/ ~Success(outcome) /\ UNCHANGED port_power_mask
       \/ /\ Success(outcome)
          /\ port_power_mask' \in {port_power_mask \cup {p}, port_power_mask \ {p}}
    /\ UNCHANGED <<tables, core, threads, port_reset_mask, device>>

PortReset(p, outcome) ==
    resets' = [resets EXCEPT ![p] = IF Obeyed(outcome) THEN @ + 1 ELSE @]

(* SetPortFeature of USB_PORT_FEAT_RESET: only the first request for a port *)
(* reaches the device.                                                     *)
ResetPort(p, outcome) ==
    /\ Request
    /\ IF p \in port_reset_mask
       THEN UNCHANGED <<port_reset_mask, resets>>
       ELSE /\ PortReset(p, outcome)
            /\ port_reset_mask' = port_reset_mask \cup {p}
    /\ UNCHANGED <<tables, core, threads, port_power_mask, made, endpoints>>

(***************************************************************************)
(* bce_vhci_enable_device                                                  *)
(***************************************************************************)

(* The USB core has a new udev for the port: the first one, or another try *)
(* after the last one failed.                                              *)
NewUdev(p) ==
    /\ pc["hub"] = "idle" /\ ~(pc["core"] # "idle" /\ arg["core"].port = p)
    /\ FoldFunction(+, 0, udev) < MaxUdevs
    /\ udev' = [udev EXCEPT ![p] = @ + 1]
    /\ hcpriv' = [hcpriv EXCEPT ![p] = [e \in Endps |-> None]]
    /\ UNCHANGED <<tables, enabled, masks, device, threads, requests>>

EnabledNow(p) == enabled' = [enabled EXCEPT ![p] = IF @ = None THEN udev[p] ELSE @]

(* A mutant: the new udev gets the queue that the port has.                *)
EnableAgainPoints(p) ==
    /\ pc["hub"] = "idle" /\ udev[p] # 0
    /\ port_to_device[p] # 0
    /\ EnabledNow(p)
    /\ hcpriv' = [hcpriv EXCEPT ![p][Ep0] = <<port_to_device[p], endpoint_index(Ep0)>>]
    /\ UNCHANGED <<tables, udev, masks, device, threads, requests>>

(* The port has a device already: nothing to do.                           *)
EnableAgain(p) ==
    /\ pc["hub"] = "idle" /\ udev[p] # 0
    /\ port_to_device[p] # 0
    /\ EnabledNow(p)
    /\ UNCHANGED <<tables, udev, hcpriv, masks, device, threads, requests>>

(* bce_vhci_cmd_device_create. The device gives ids from 1 on.             *)
NextId == Len(made) + 1

(* Without success -EIO is returned and nothing is remembered, even if the *)
(* device has made one.                                                    *)
DeviceCreate(p, outcome) ==
    /\ pc["hub"] = "idle" /\ udev[p] # 0
    /\ port_to_device[p] = 0
    /\ NextId \in DevIds
    /\ made' = IF Obeyed(outcome) THEN Append(made, p) ELSE made
    /\ IF Success(outcome) THEN Goto("hub", "record", [port |-> p, dev |-> NextId])
                           ELSE UNCHANGED threads
    /\ UNCHANGED <<tables, core, masks, endpoints, resets, requests>>

RecordDevice ==
    /\ pc["hub"] = "record"
    /\ port_to_device' = [port_to_device EXCEPT ![arg["hub"].port] = arg["hub"].dev]
    /\ devices' = devices \cup {arg["hub"].dev}
    /\ Goto("hub", "queue", [port |-> arg["hub"].port, dev |-> arg["hub"].dev, endp |-> Ep0])
    /\ UNCHANGED <<tq_mask, tq, core, masks, device, requests>>

(***************************************************************************)
(* bce_vhci_add_endpoint, and the end of bce_vhci_enable_device            *)
(***************************************************************************)
SetHcpriv(p, d, e) == hcpriv' = [hcpriv EXCEPT ![p][e] = <<d, endpoint_index(e)>>]

(* What bce_vhci_create_transfer_queue makes for the structure e of the    *)
(* udev that the port has now.                                             *)
NewQueue(p, d, e) == [dev |-> d, addr |-> addr(e), endp |-> <<p, udev[p], e>>]

(* The core selects a setting, for the first time or again, and adds the   *)
(* structure that the setting has for the endpoint. A queue that is there  *)
(* stays as it is, with the structure it was made for as its endp. The     *)
(* structures of the setting that is left keep their pointers:             *)
(* bce_vhci_drop_endpoint does nothing.                                    *)
AddEndpoint(p, e) ==
    /\ pc["core"] = "idle" /\ e # Ep0
    /\ hcpriv[p][Ep0] # None
    /\ LET d == port_to_device[p] IN
       /\ d \in devices
       /\ IF endpoint_index(e) \in tq_mask[d]
          THEN SetHcpriv(p, d, e) /\ UNCHANGED threads
          ELSE Goto("core", "queue", [port |-> p, dev |-> d, endp |-> e]) /\ UNCHANGED hcpriv
    /\ UNCHANGED <<tables, udev, enabled, masks, device, requests>>

(* A mutant: the endpoint is marked when the device has been told of it.   *)
CreateQueueUnmarked(t) ==
    /\ pc[t] = "queue"
    /\ LET p == arg[t].port  d == arg[t].dev  e == arg[t].endp IN
       /\ IF tq[d][endpoint_index(e)] = None
          THEN /\ tq' = [tq EXCEPT ![d][endpoint_index(e)] = NewQueue(p, d, e)]
               /\ endpoints' = endpoints \cup {<<d, addr(e)>>}
               /\ UNCHANGED <<hcpriv, tq_mask, threads>>
          ELSE /\ SetHcpriv(p, d, e)
               /\ tq_mask' = [tq_mask EXCEPT ![d] = @ \cup {endpoint_index(e)}]
               /\ Goto(t, "tell", arg[t])
               /\ UNCHANGED <<tq, endpoints>>
    /\ UNCHANGED <<port_to_device, devices, udev, enabled, masks, made, resets, requests>>

(* bce_vhci_create_transfer_queue, whose result nobody looks at, then the  *)
(* udev's pointer, then the mark by which events find the queue.           *)
CreateQueue(t) ==
    /\ pc[t] = "queue"
    /\ LET p == arg[t].port  d == arg[t].dev  e == arg[t].endp IN
       /\ tq' = [tq EXCEPT ![d][endpoint_index(e)] = NewQueue(p, d, e)]
       /\ SetHcpriv(p, d, e)
       /\ tq_mask' = [tq_mask EXCEPT ![d] = @ \cup {endpoint_index(e)}]
    /\ Goto(t, "tell", arg[t])
    /\ UNCHANGED <<port_to_device, devices, udev, enabled, masks, device, requests>>

(* bce_vhci_cmd_endpoint_create; whatever its result the call succeeds.    *)
EndpointCreate(t, outcome) ==
    /\ pc[t] = "tell"
    /\ endpoints' = IF Obeyed(outcome) THEN endpoints \cup {<<arg[t].dev, addr(arg[t].endp)>>}
                                       ELSE endpoints
    /\ IF arg[t].endp = Ep0 THEN EnabledNow(arg[t].port) ELSE UNCHANGED enabled
    /\ Return(t)
    /\ UNCHANGED <<tables, udev, hcpriv, masks, made, resets, requests>>

Next == \/ \E p \in Ports :
              \/ NewUdev(p) \/ EnableAgain(p)
              \/ \E o \in Outcomes : SetPower(p, o) \/ ResetPort(p, o) \/ DeviceCreate(p, o)
              \/ \E e \in Endps : AddEndpoint(p, e)
        \/ RecordDevice
        \/ \E t \in Threads :
              CreateQueue(t) \/ \E o \in Outcomes : EndpointCreate(t, o)

Spec == Init /\ [][Next]_vars

(***************************************************************************)
(* Properties                                                              *)
(***************************************************************************)

IsQueueOf(q, d, a) == q # None /\ q.dev = d /\ q.addr = a

(* Whatever the device may name in an event, from the moment it has heard  *)
(* of the endpoint, be the answer to the command on its way, late or lost: *)
(* bce_vhci_handle_usb_event and bce_vhci_handle_firmware_event find the   *)
(* queue that was made for that endpoint of that device.                   *)
EventFindsOwnQueue ==
    \A x \in endpoints :
        LET d == x[1]  i == endpoint_index(x[2])
        IN  d \in devices /\ i \in tq_mask[d] /\ IsQueueOf(tq[d][i], d, x[2])

(* The structures of the udev of the port that were added for an address.  *)
AddedFor(p, a) == {e \in Endps : hcpriv[p][e] # None /\ addr(e) = a}

(* An URB is linked to the list of its endpoint structure, and its queue   *)
(* looks for URBs in the list of its endp (transfer.c:80, 117, 143, 148).  *)
(* The queue that urb_enqueue takes is that of the URB's endpoint of the   *)
(* device on its port; its endp is a structure of that endpoint of the     *)
(* very udev, never of one that failed before, and is the URB's own one    *)
(* unless structures of other settings have been added for the endpoint as *)
(* well (vhci.c:289 then leaves endp with the first of them, so that the   *)
(* URBs of the others are in a list that nobody looks at). And the first   *)
(* udev of a port to be enabled has a queue for endpoint 0, whatever       *)
(* attempts failed. (A later udev of the same port has none: enable_device *)
(* returns early.)                                                         *)
UrbFindsOwnQueue ==
    \A p \in Ports :
        /\ \A a \in Addrs : \A e \in AddedFor(p, a) :
              LET d == hcpriv[p][e][1]  q == tq[d][hcpriv[p][e][2]]
              IN  /\ d \in DOMAIN made /\ made[d] = p /\ IsQueueOf(q, d, a)
                  /\ \E f \in AddedFor(p, a) : q.endp = <<p, udev[p], f>>
        /\ enabled[p] = udev[p] => hcpriv[p][Ep0] # None

(* "The device does not support being reset more than once": it sees at    *)
(* most one reset of a port, also when the first one failed, or timed out  *)
(* and was obeyed.                                                         *)
ResetOnce == \A p \in Ports : resets[p] <= 1
=============================================================================
