----------------------------- MODULE VhciProofs ------------------------------
(***************************************************************************)
(* What holds of the tables of the host controller for any number of       *)
(* ports, devices and endpoints, and whatever commands fail; and of the    *)
(* event queues, through which the firmware asks for transfers and         *)
(* changes, for rings of any size and any number of events.                *)
(***************************************************************************)
EXTENDS VhciHub, EventQueue, TLAPS

Queue(d, a) == IsQueueOf(tq[d][endpoint_index(a)], d, a)

TypeOK == /\ port_reset_mask \subseteq Ports
          /\ port_to_device \in [Ports -> 0..MaxDevices]
          /\ devices \subseteq DevIds
          /\ tq_mask \in [DevIds -> SUBSET Nat]
          /\ tq \in [DevIds -> [Indices -> {None} \cup Queues]]
          /\ udev \in [Ports -> Nat]
          /\ hcpriv \in [Ports -> [Endps -> {None} \cup (DevIds \X Nat)]]
          /\ enabled \in [Ports -> {None} \cup Nat]
          /\ pc \in [Threads -> {"idle", "record", "queue", "tell"}]
          /\ DOMAIN arg = Threads
          /\ made \in Seq(Ports)
          /\ endpoints \subseteq DevIds \X Addrs
          /\ resets \in [Ports -> Nat]

(* What a thread has in hand is a device of the port; the thread "hub"     *)
(* works on endpoint 0, "core" on the others.                              *)
ArgInv ==
    /\ \A t \in Threads : pc[t] # "idle" =>
          /\ arg[t].port \in Ports
          /\ arg[t].dev \in DevIds /\ arg[t].dev \in 1..Len(made)
          /\ made[arg[t].dev] = arg[t].port
    /\ pc["core"] # "record"
    /\ \A t \in Threads : pc[t] \in {"queue", "tell"} =>
          /\ arg[t].dev \in devices
          /\ arg[t].endp \in Endps
          /\ arg[t].endp = Ep0 <=> t = "hub"
    /\ \A t \in Threads : pc[t] = "tell" =>
          /\ endpoint_index(arg[t].endp) \in tq_mask[arg[t].dev]
          /\ Queue(arg[t].dev, addr(arg[t].endp))

(* The endpoint that "core" adds is of a udev whose endpoint 0 works and   *)
(* has no queue until "core" makes it; the device that "hub" enables has   *)
(* no queue at all before that of endpoint 0.                              *)
HandInv ==
    /\ pc["core"] # "idle" =>
          /\ hcpriv[arg["core"].port][Ep0] # None
          /\ port_to_device[arg["core"].port] = arg["core"].dev
    /\ pc["core"] = "queue" =>
          endpoint_index(arg["core"].endp) \notin tq_mask[arg["core"].dev]
    /\ pc["hub"] \in {"record", "queue"} => tq_mask[arg["hub"].dev] = {}
    /\ pc["hub"] = "record" => port_to_device[arg["hub"].port] = 0
    /\ pc["hub"] \in {"queue", "tell"} =>
          port_to_device[arg["hub"].port] = arg["hub"].dev
    /\ pc["hub"] = "tell" => hcpriv[arg["hub"].port][Ep0] # None

(* What the tables name is there, and a device has queues only when it was *)
(* made.                                                                   *)
TableInv ==
    /\ \A p \in Ports : port_to_device[p] # 0 =>
          port_to_device[p] \in 1..Len(made) /\ made[port_to_device[p]] = p
    /\ \A d \in DevIds, a \in Addrs : endpoint_index(a) \in tq_mask[d] => Queue(d, a)
    /\ \A d \in DevIds : tq_mask[d] # {} => d \in 1..Len(made)

(* A structure that was added points to a marked queue of the device of    *)
(* its port, and was added to a udev whose endpoint 0 has a queue.         *)
UrbInv ==
    \A p \in Ports, e \in Endps : hcpriv[p][e] # None =>
        /\ port_to_device[p] # 0
        /\ hcpriv[p][e] = <<port_to_device[p], endpoint_index(e)>>
        /\ endpoint_index(e) \in tq_mask[port_to_device[p]]
        /\ hcpriv[p][Ep0] # None

(* The endp of such a queue is a structure of the udev of the port that    *)
(* was added for the same address.                                         *)
EndpInv ==
    \A p \in Ports, e \in Endps :
        /\ hcpriv[p][Ep0] # None
        /\ endpoint_index(e) \in tq_mask[port_to_device[p]]
        => \E f \in Endps :
              /\ hcpriv[p][f] # None /\ addr(f) = addr(e)
              /\ tq[port_to_device[p]][endpoint_index(e)].endp = <<p, udev[p], f>>

(* A port with a device has had a udev enabled, or one is being enabled;   *)
(* and while the first udev that was enabled is there its endpoint 0 has a *)
(* queue.                                                                  *)
EnabledInv ==
    \A p \in Ports :
        /\ enabled[p] # None => enabled[p] <= udev[p]
        /\ port_to_device[p] # 0 /\ enabled[p] = None =>
              pc["hub"] \in {"queue", "tell"} /\ arg["hub"].port = p
        /\ enabled[p] = udev[p] => hcpriv[p][Ep0] # None

ResetInv == \A p \in Ports : resets[p] <= IF p \in port_reset_mask THEN 1 ELSE 0

IInv == TypeOK /\ ArgInv /\ HandInv /\ TableInv /\ UrbInv /\ EndpInv /\ EnabledInv /\ ResetInv
        /\ EventFindsOwnQueue

LEMMA ConstantTypes ==
    Ep0 \in Endps /\ None \notin Nat /\ None \notin Nat \X Nat /\ MaxDevices \in Nat
BY VhciHubAssumption DEF VhciHubAssumption

USE ConstantTypes DEF DevIds, Threads

(* An endpoint structure has the index of its address.                     *)
LEMMA IndexType ==
    /\ \A a \in Addrs : endpoint_index(a) \in Nat /\ endpoint_index(a) \in Indices
    /\ \A e \in Endps : addr(e) \in Addrs /\ endpoint_index(e) = endpoint_index(addr(e))
BY VhciHubAssumption DEF VhciHubAssumption, endpoint_index, Indices, Addrs, addr

(* bce_vhci_endpoint_index gives different endpoints different places.     *)
LEMMA IndexInjective ==
    ASSUME NEW a \in Addrs, NEW b \in Addrs, endpoint_index(a) = endpoint_index(b)
    PROVE  a = b
<1>1. /\ a \in [num : 0..15, in : BOOLEAN]
      /\ b \in [num : 0..15, in : BOOLEAN]
  BY VhciHubAssumption DEF VhciHubAssumption, Addrs, addr
<1> QED
  BY <1>1 DEF endpoint_index

LEMMA Ep0Type == Ep0 \in Endps
OBVIOUS

LEMMA PairNotNone == \A d \in DevIds, e \in Endps : <<d, endpoint_index(e)>> # None
BY IndexType

LEMMA InitIInv == Init => IInv
<1> SUFFICES ASSUME Init PROVE IInv
  OBVIOUS
<1>1. TypeOK
  BY DEF Init, TypeOK
<1>2. ArgInv /\ HandInv
  BY DEF Init, ArgInv, HandInv
<1>3. TableInv /\ EnabledInv /\ ResetInv
  BY DEF Init, TableInv, EnabledInv, ResetInv
<1>4. EventFindsOwnQueue /\ UrbInv /\ EndpInv
  BY Ep0Type DEF Init, EventFindsOwnQueue, UrbInv, EndpInv
<1> QED
  BY <1>1, <1>2, <1>3, <1>4 DEF IInv

(* The tables are right for as long as they are left alone, whatever is    *)
(* made in the meantime.                                                   *)
LEMMA TableStays ==
    ASSUME IInv, UNCHANGED <<port_to_device, tq, tq_mask, hcpriv, udev>>,
           \A d \in 1..Len(made) : d \in 1..Len(made') /\ made'[d] = made[d]
    PROVE  TableInv' /\ UrbInv' /\ EndpInv'
<1>1. TableInv'
  BY DEF IInv, TableInv, Queue
<1>2. UrbInv' /\ EndpInv'
  BY DEF IInv, UrbInv, EndpInv
<1> QED
  BY <1>1, <1>2

(* An action that leaves the tables, the threads and what the core knows   *)
(* alone disturbs only the resets.                                         *)
LEMMA RequestStep ==
    ASSUME IInv, NEW p \in Ports, NEW o \in Outcomes, SetPower(p, o) \/ ResetPort(p, o)
    PROVE  IInv'
<1>1. UNCHANGED <<tables, core, threads, made, endpoints>>
  BY DEF SetPower, ResetPort, device
<1> USE <1>1 DEF IInv, tables, core, threads
<1>2. TypeOK' /\ ResetInv'
  <2>1. CASE SetPower(p, o)
    BY <2>1 DEF SetPower, device, TypeOK, ResetInv
  <2>2. CASE ResetPort(p, o)
    <3>1. CASE p \in port_reset_mask
      BY <2>2, <3>1 DEF ResetPort, TypeOK, ResetInv
    <3>2. CASE p \notin port_reset_mask
      <4>1. resets[p] = 0
        BY <3>2 DEF TypeOK, ResetInv
      <4>2. /\ port_reset_mask' = port_reset_mask \cup {p}
            /\ \/ resets' = [resets EXCEPT ![p] = @ + 1]
               \/ resets' = [resets EXCEPT ![p] = @]
        BY <2>2, <3>2 DEF ResetPort, PortReset
      <4>3. resets \in [Ports -> Nat] /\ port_reset_mask \subseteq Ports
        BY DEF TypeOK
      <4>4. resets' \in [Ports -> Nat] /\ port_reset_mask' \subseteq Ports
        BY <4>2, <4>3
      <4>5. TypeOK'
        BY <4>4 DEF TypeOK
      <4>6. ResetInv'
        BY <4>1, <4>2, <4>3 DEF ResetInv
      <4> QED
        BY <4>5, <4>6
    <3> QED
      BY <3>1, <3>2
  <2> QED
    BY <2>1, <2>2
<1>3. ArgInv' /\ HandInv' /\ EnabledInv'
  BY DEF ArgInv, HandInv, EnabledInv, Queue
<1>4. TableInv' /\ UrbInv' /\ EndpInv'
  BY DEF TableInv, UrbInv, EndpInv, Queue
<1>5. EventFindsOwnQueue'
  BY DEF EventFindsOwnQueue
<1> QED
  BY <1>2, <1>3, <1>4, <1>5

(* A new udev has no endpoints; neither thread works on its port.          *)
LEMMA NewUdevStep ==
    ASSUME IInv, NEW p \in Ports, NewUdev(p)
    PROVE  IInv'
<1>1. /\ hcpriv' = [hcpriv EXCEPT ![p] = [e \in Endps |-> None]]
      /\ udev' = [udev EXCEPT ![p] = @ + 1]
      /\ UNCHANGED <<port_to_device, devices, tq_mask, tq, enabled, port_reset_mask, made,
                     endpoints, resets, pc, arg>>
      /\ pc["hub"] = "idle" /\ ~(pc["core"] # "idle" /\ arg["core"].port = p)
  BY DEF NewUdev, tables, masks, device, threads
<1> USE DEF IInv
<1>2. TypeOK'
  BY <1>1 DEF TypeOK
<1>3. /\ \A e \in Endps : hcpriv'[p][e] = None
      /\ \A q \in Ports \ {p} : hcpriv'[q] = hcpriv[q] /\ udev'[q] = udev[q]
      /\ udev[p] \in Nat /\ udev'[p] = udev[p] + 1
      /\ hcpriv'[p][Ep0] = None
  BY <1>1, Ep0Type DEF TypeOK
<1>4. ArgInv' /\ TableInv' /\ ResetInv' /\ EventFindsOwnQueue'
  BY <1>1 DEF ArgInv, TableInv, ResetInv, EventFindsOwnQueue, Queue
<1>5. HandInv'
  <2>1. pc["core"] # "idle" => arg["core"].port \in Ports \ {p}
    BY <1>1 DEF ArgInv
  <2> QED
    BY <1>1, <1>3, <2>1 DEF HandInv
<1>6. EnabledInv'
  <2> SUFFICES ASSUME NEW q \in Ports
               PROVE  /\ enabled[q] # None => enabled[q] <= udev'[q]
                      /\ ~(port_to_device[q] # 0 /\ enabled[q] = None)
                      /\ enabled[q] = udev'[q] => hcpriv'[q][Ep0] # None
    BY <1>1 DEF EnabledInv
  <2>1. ~(port_to_device[q] # 0 /\ enabled[q] = None)
    BY <1>1 DEF EnabledInv
  <2>2. enabled[q] \in {None} \cup Nat
    BY DEF TypeOK
  <2>3. /\ enabled[q] # None => enabled[q] <= udev[q]
        /\ enabled[q] = udev[q] => hcpriv[q][Ep0] # None
    BY DEF EnabledInv
  <2>4. CASE q = p
    BY <1>3, <2>1, <2>2, <2>3, <2>4
  <2>5. CASE q # p
    BY <1>3, <2>1, <2>3, <2>5
  <2> QED
    BY <2>4, <2>5
<1>7. UrbInv'
  BY <1>1, <1>3 DEF UrbInv
<1>8. EndpInv'
  BY <1>1, <1>3 DEF EndpInv
<1> QED
  BY <1>2, <1>4, <1>5, <1>6, <1>7, <1>8

(* The hub is idle, so a udev of that port has been enabled before.        *)
LEMMA EnableAgainStep ==
    ASSUME IInv, NEW p \in Ports, EnableAgain(p)
    PROVE  IInv'
<1> USE DEF IInv, EnableAgain, tables, masks, device, threads
<1>1. enabled[p] # None
  BY DEF EnabledInv
<1>2. enabled' = enabled
  BY <1>1 DEF EnabledNow, TypeOK
<1>3. TypeOK' /\ EnabledInv' /\ HandInv'
  BY <1>2 DEF TypeOK, EnabledInv, HandInv
<1>4. ArgInv' /\ TableInv' /\ ResetInv'
  BY DEF ArgInv, TableInv, ResetInv, Queue
<1>5. EventFindsOwnQueue' /\ UrbInv' /\ EndpInv'
  BY <1>2 DEF EventFindsOwnQueue, UrbInv, EndpInv
<1> QED
  BY <1>3, <1>4, <1>5

(* A device that is made has no queues yet.                                *)
LEMMA DeviceCreateStep ==
    ASSUME IInv, NEW p \in Ports, NEW o \in Outcomes, DeviceCreate(p, o)
    PROVE  IInv'
<1> USE DEF IInv
<1>0. /\ UNCHANGED <<port_to_device, devices, tq_mask, tq, udev, hcpriv, enabled,
                     port_reset_mask, endpoints, resets>>
      /\ pc["hub"] = "idle" /\ port_to_device[p] = 0 /\ NextId \in DevIds
      /\ made' = Append(made, p) \/ made' = made
      /\ Success(o) => made' = Append(made, p)
      /\ IF Success(o) THEN Goto("hub", "record", [port |-> p, dev |-> NextId])
                       ELSE UNCHANGED <<pc, arg>>
  BY DEF DeviceCreate, tables, core, masks, threads, Success, Obeyed
<1>1. /\ made' \in Seq(Ports) /\ Len(made') \in Nat /\ Len(made) \in Nat
      /\ Len(made) <= Len(made')
      /\ \A d \in 1..Len(made) : d \in 1..Len(made') /\ made'[d] = made[d]
  <2>1. made \in Seq(Ports)
    BY DEF TypeOK
  <2> QED
    BY <1>0, <2>1
<1>2. TableInv' /\ UrbInv' /\ EndpInv'
  <2> HIDE DEF IInv
  <2> QED
    BY <1>0, <1>1, TableStays
<1>3. EventFindsOwnQueue' /\ ResetInv'
  BY <1>0 DEF EventFindsOwnQueue, ResetInv
<1>4. CASE ~Success(o)
  <2>1. TypeOK' /\ EnabledInv' /\ HandInv'
    BY <1>0, <1>1, <1>4 DEF TypeOK, EnabledInv, HandInv
  <2>2. ArgInv'
    BY <1>0, <1>1, <1>4 DEF ArgInv, Queue
  <2> QED
    BY <1>2, <1>3, <2>1, <2>2
<1>5. CASE Success(o)
  <2>1. /\ pc' = [pc EXCEPT !["hub"] = "record"]
        /\ arg' = [arg EXCEPT !["hub"] = [port |-> p, dev |-> NextId]]
    BY <1>0, <1>5 DEF Goto
  <2>2. NextId \in DevIds /\ NextId \in 1..Len(made') /\ made'[NextId] = p
    BY <1>0, <1>1, <1>5 DEF NextId, TypeOK
  <2>3. TypeOK'
    BY <1>0, <1>1, <2>1 DEF TypeOK
  <2>4. /\ arg'["hub"].port = p /\ arg'["hub"].dev = NextId
        /\ pc'["hub"] = "record" /\ pc'["core"] = pc["core"] /\ arg'["core"] = arg["core"]
    BY <2>1 DEF TypeOK
  <2>5. ArgInv'
    BY <1>0, <1>1, <2>2, <2>4 DEF ArgInv, Queue
  <2>6. EnabledInv'
    BY <1>0, <2>4 DEF EnabledInv
  <2>7. tq_mask[NextId] = {}
    <3>1. NextId \notin 1..Len(made)
      BY <1>1 DEF NextId
    <3> QED
      BY <1>0, <3>1 DEF TableInv
  <2>8. HandInv'
    BY <1>0, <2>4, <2>7 DEF HandInv
  <2> QED
    BY <1>2, <1>3, <2>3, <2>5, <2>6, <2>8
<1> QED
  BY <1>4, <1>5

(* The port had no device, so no endpoint of its udev points to a queue.   *)
LEMMA RecordDeviceStep ==
    ASSUME IInv, RecordDevice
    PROVE  IInv'
<1> DEFINE p == arg["hub"].port
           d == arg["hub"].dev
<1> USE DEF IInv
<1>1. /\ p \in Ports /\ d \in DevIds /\ d \in 1..Len(made) /\ made[d] = p
      /\ port_to_device[p] = 0 /\ tq_mask[d] = {}
  BY DEF RecordDevice, ArgInv, HandInv
<1>2. /\ port_to_device' = [port_to_device EXCEPT ![p] = d]
      /\ devices' = devices \cup {d}
      /\ pc' = [pc EXCEPT !["hub"] = "queue"]
      /\ arg' = [arg EXCEPT !["hub"] = [port |-> p, dev |-> d, endp |-> Ep0]]
      /\ UNCHANGED <<tq_mask, tq, udev, hcpriv, enabled, port_reset_mask, made, endpoints, resets>>
      /\ pc["hub"] = "record"
  BY DEF RecordDevice, Goto, core, masks, device
<1>3. /\ arg'["hub"].port = p /\ arg'["hub"].dev = d /\ arg'["hub"].endp = Ep0
      /\ pc'["hub"] = "queue" /\ pc'["core"] = pc["core"] /\ arg'["core"] = arg["core"]
  <2>1. /\ "hub" \in DOMAIN arg /\ "core" \in DOMAIN arg
        /\ "hub" \in DOMAIN pc /\ "core" \in DOMAIN pc
    BY DEF TypeOK
  <2> HIDE DEF p, d, IInv
  <2> QED
    BY <1>2, <2>1
<1>4. TypeOK'
  <2>1. port_to_device' \in [Ports -> 0..MaxDevices] /\ devices' \subseteq DevIds
    <3>1. /\ port_to_device \in [Ports -> 0..MaxDevices] /\ devices \subseteq DevIds
          /\ d \in 0..MaxDevices
      <4>1. port_to_device \in [Ports -> 0..MaxDevices] /\ devices \subseteq DevIds
        BY DEF TypeOK
      <4>2. d \in 0..MaxDevices
        <5> HIDE DEF d, IInv
        <5> QED
          BY <1>1
      <4> QED
        BY <4>1, <4>2
    <3> HIDE DEF p, d
    <3> QED
      BY ONLY <1>1, <1>2, <3>1
  <2>2. /\ pc' \in [Threads -> {"idle", "record", "queue", "tell"}]
        /\ DOMAIN arg' = Threads
    BY <1>2 DEF TypeOK
  <2> QED
    BY <1>2, <2>1, <2>2 DEF TypeOK
<1>5. ArgInv'
  BY <1>1, <1>2, <1>3, Ep0Type DEF ArgInv, Queue
<1>6. \A q \in Ports : port_to_device'[q] = IF q = p THEN d ELSE port_to_device[q]
  BY <1>2 DEF TypeOK
<1>7. \A e \in Endps : hcpriv[p][e] = None
  BY <1>1 DEF UrbInv
<1>8. HandInv'
  <2>1. pc["core"] # "idle" => arg["core"].port \in Ports /\ arg["core"].port # p
    BY <1>1, <1>7, Ep0Type DEF ArgInv, HandInv
  <2> QED
    BY <1>1, <1>2, <1>3, <1>6, <2>1 DEF HandInv
<1>9. TableInv'
  <2>2. \A q \in Ports : port_to_device'[q] # 0 =>
           port_to_device'[q] \in 1..Len(made) /\ made[port_to_device'[q]] = q
    BY <1>1, <1>6 DEF TableInv
  <2> QED
    BY <1>2, <2>2 DEF TableInv, Queue
<1>10. UrbInv'
  BY <1>2, <1>6, <1>7 DEF UrbInv
<1>11. EndpInv'
  BY <1>2, <1>6, <1>7, Ep0Type DEF EndpInv
<1>12. EnabledInv'
  BY <1>2, <1>3, <1>6 DEF EnabledInv
<1>13. ResetInv' /\ EventFindsOwnQueue'
  BY <1>2 DEF ResetInv, EventFindsOwnQueue
<1> QED
  BY <1>4, <1>5, <1>8, <1>9, <1>10, <1>11, <1>12, <1>13

(* The device of the port has the queue that the mark says it has, made    *)
(* for a structure of the same udev.                                       *)
LEMMA AddEndpointStep ==
    ASSUME IInv, NEW p \in Ports, NEW e \in Endps, AddEndpoint(p, e)
    PROVE  IInv'
<1> DEFINE d == port_to_device[p]
<1> USE DEF IInv
<1>1. /\ d \in devices /\ d \in DevIds /\ d # 0 /\ e # Ep0 /\ pc["core"] = "idle"
      /\ d \in 1..Len(made) /\ made[d] = p /\ hcpriv[p][Ep0] # None
  BY DEF AddEndpoint, TypeOK, TableInv
<1>2. UNCHANGED <<port_to_device, devices, tq_mask, tq, udev, enabled, port_reset_mask, made,
                  endpoints, resets>>
  BY DEF AddEndpoint, tables, masks, device
<1>3. EventFindsOwnQueue' /\ ResetInv' /\ TableInv'
  BY <1>2 DEF EventFindsOwnQueue, ResetInv, TableInv, Queue
<1>4. CASE endpoint_index(e) \in tq_mask[d]
  <2>1. /\ UNCHANGED <<pc, arg>>
        /\ hcpriv' = [hcpriv EXCEPT ![p][e] = <<d, endpoint_index(e)>>]
    BY <1>4 DEF AddEndpoint, SetHcpriv, threads
  <2>2. /\ hcpriv' \in [Ports -> [Endps -> {None} \cup (DevIds \X Nat)]]
        /\ \A q \in Ports, f \in Endps :
              hcpriv'[q][f] = IF q = p /\ f = e THEN <<d, endpoint_index(e)>> ELSE hcpriv[q][f]
    BY <1>1, <2>1, IndexType DEF TypeOK
  <2>3. \A q \in Ports : hcpriv'[q][Ep0] = hcpriv[q][Ep0]
    BY <1>1, <2>2, Ep0Type
  <2>4. TypeOK'
    BY <1>2, <2>1, <2>2 DEF TypeOK
  <2>5. ArgInv' /\ HandInv'
    BY <1>1, <1>2, <2>1, <2>3 DEF ArgInv, HandInv, Queue
  <2>6. EnabledInv'
    BY <1>2, <2>1, <2>3 DEF EnabledInv
  <2>7. UrbInv'
    <3> SUFFICES ASSUME NEW q \in Ports, NEW f \in Endps, hcpriv'[q][f] # None
                 PROVE  /\ port_to_device[q] # 0
                        /\ hcpriv'[q][f] = <<port_to_device[q], endpoint_index(f)>>
                        /\ endpoint_index(f) \in tq_mask[port_to_device[q]]
                        /\ hcpriv'[q][Ep0] # None
      BY <1>2 DEF UrbInv
    <3>1. CASE q = p /\ f = e
      BY <1>1, <1>4, <2>2, <2>3, <3>1
    <3>2. CASE ~(q = p /\ f = e)
      BY <2>2, <2>3, <3>2 DEF UrbInv
    <3> QED
      BY <3>1, <3>2
  <2>8. EndpInv'
    <3> SUFFICES ASSUME NEW q \in Ports, NEW x \in Endps, hcpriv'[q][Ep0] # None,
                        endpoint_index(x) \in tq_mask[port_to_device[q]]
                 PROVE  \E f \in Endps :
                           /\ hcpriv'[q][f] # None /\ addr(f) = addr(x)
                           /\ tq[port_to_device[q]][endpoint_index(x)].endp = <<q, udev[q], f>>
      BY <1>2 DEF EndpInv
    <3>1. PICK f \in Endps :
             /\ hcpriv[q][f] # None /\ addr(f) = addr(x)
             /\ tq[port_to_device[q]][endpoint_index(x)].endp = <<q, udev[q], f>>
      BY <2>3 DEF EndpInv
    <3>2. hcpriv'[q][f] # None
      BY <1>1, <2>2, <3>1, PairNotNone
    <3> QED
      BY <3>1, <3>2
  <2> QED
    BY <1>3, <2>4, <2>5, <2>6, <2>7, <2>8
<1>5. CASE endpoint_index(e) \notin tq_mask[d]
  <2>1. /\ pc' = [pc EXCEPT !["core"] = "queue"]
        /\ arg' = [arg EXCEPT !["core"] = [port |-> p, dev |-> d, endp |-> e]]
        /\ UNCHANGED hcpriv
    BY <1>5 DEF AddEndpoint, Goto
  <2>2. /\ arg'["core"].port = p /\ arg'["core"].dev = d /\ arg'["core"].endp = e
        /\ pc'["core"] = "queue" /\ pc'["hub"] = pc["hub"] /\ arg'["hub"] = arg["hub"]
    BY <2>1 DEF TypeOK
  <2>3. TypeOK'
    BY <1>2, <2>1 DEF TypeOK
  <2>4. ArgInv'
    <3>1. /\ pc["core"] # "record" /\ pc'["core"] # "record"
          /\ \A t \in Threads : t = "hub" \/ t = "core"
      BY <2>2 DEF ArgInv
    <3>2. Queue(arg["hub"].dev, addr(arg["hub"].endp))'
             = Queue(arg["hub"].dev, addr(arg["hub"].endp))
      BY <1>2, <2>2 DEF Queue
    <3> QED
      BY <1>1, <1>2, <2>2, <3>1, <3>2 DEF ArgInv
  <2>5. HandInv'
    <3>1. /\ hcpriv'[p][Ep0] # None /\ port_to_device'[p] = d
          /\ endpoint_index(e) \notin tq_mask'[d]
      BY <1>1, <1>2, <1>5, <2>1
    <3>2. /\ pc["hub"] \in {"record", "queue"} => tq_mask'[arg["hub"].dev] = {}
          /\ pc["hub"] = "record" => port_to_device'[arg["hub"].port] = 0
          /\ pc["hub"] \in {"queue", "tell"} =>
                port_to_device'[arg["hub"].port] = arg["hub"].dev
          /\ pc["hub"] = "tell" => hcpriv'[arg["hub"].port][Ep0] # None
      BY <1>2, <2>1 DEF HandInv
    <3> HIDE DEF d, IInv
    <3> QED
      BY <2>2, <3>1, <3>2 DEF HandInv
  <2>6. EnabledInv'
    BY <1>2, <2>1, <2>2 DEF EnabledInv
  <2>7. UrbInv' /\ EndpInv'
    BY <1>2, <2>1 DEF UrbInv, EndpInv
  <2> QED
    BY <1>3, <2>3, <2>4, <2>5, <2>6, <2>7
<1> QED
  BY <1>4, <1>5

(* Writing the queue of one endpoint leaves the queues of the others; no   *)
(* other structure points to the one that is written.                      *)
LEMMA CreateQueueStep ==
    ASSUME IInv, NEW t \in Threads, CreateQueue(t)
    PROVE  IInv'
<1> DEFINE p == arg[t].port
           d == arg[t].dev
           x == arg[t].endp
           i == endpoint_index(x)
<1> USE DEF IInv
<1>1. /\ p \in Ports /\ d \in DevIds /\ d \in 1..Len(made) /\ made[d] = p
      /\ d \in devices /\ x \in Endps /\ (x = Ep0 <=> t = "hub")
      /\ port_to_device[p] = d /\ pc[t] = "queue"
      /\ t = "core" => hcpriv[p][Ep0] # None /\ i \notin tq_mask[d]
      /\ t = "hub" => tq_mask[d] = {}
  BY DEF CreateQueue, ArgInv, HandInv
<1>2. /\ tq' = [tq EXCEPT ![d][i] = NewQueue(p, d, x)]
      /\ hcpriv' = [hcpriv EXCEPT ![p][x] = <<d, i>>]
      /\ tq_mask' = [tq_mask EXCEPT ![d] = @ \cup {i}]
      /\ pc' = [pc EXCEPT ![t] = "tell"]
      /\ arg' = [arg EXCEPT ![t] = arg[t]]
      /\ UNCHANGED <<port_to_device, devices, udev, enabled, made, endpoints, resets,
                     port_reset_mask>>
  BY DEF CreateQueue, SetHcpriv, Goto, masks, device
<1>3. /\ i \in Indices /\ i \in Nat /\ i \notin tq_mask[d] /\ addr(x) \in Addrs
      /\ i = endpoint_index(addr(x))
      /\ NewQueue(p, d, x) \in Queues /\ IsQueueOf(NewQueue(p, d, x), d, addr(x))
      /\ NewQueue(p, d, x).endp = <<p, udev[p], x>>
      /\ <<d, i>> \in DevIds \X Nat
  <2>1. i \in Indices /\ i \in Nat /\ addr(x) \in Addrs /\ i = endpoint_index(addr(x))
    BY <1>1, IndexType
  <2>2. i \notin tq_mask[d]
    BY <1>1
  <2>3. NewQueue(p, d, x) \in Queues
    BY <1>1, <2>1 DEF NewQueue, Queues, TypeOK
  <2>4. NewQueue(p, d, x) # None
    BY <2>3, VhciHubAssumption DEF VhciHubAssumption
  <2> HIDE DEF i, p, d, x
  <2> QED
    BY <1>1, <2>1, <2>2, <2>3, <2>4 DEF IsQueueOf, NewQueue
<1> HIDE DEF i
<1>4. /\ tq' \in [DevIds -> [Indices -> {None} \cup Queues]]
      /\ tq_mask' \in [DevIds -> SUBSET Nat]
      /\ hcpriv' \in [Ports -> [Endps -> {None} \cup (DevIds \X Nat)]]
  <2>1. tq' \in [DevIds -> [Indices -> {None} \cup Queues]]
    BY <1>1, <1>2, <1>3 DEF TypeOK
  <2>2. tq_mask' \in [DevIds -> SUBSET Nat]
    BY <1>1, <1>2, <1>3 DEF TypeOK
  <2>3. hcpriv' \in [Ports -> [Endps -> {None} \cup (DevIds \X Nat)]]
    BY <1>1, <1>2, <1>3 DEF TypeOK
  <2> QED
    BY <2>1, <2>2, <2>3
<1>5. /\ \A c \in DevIds, j \in Indices :
            tq'[c][j] = IF c = d /\ j = i THEN NewQueue(p, d, x) ELSE tq[c][j]
      /\ \A c \in DevIds : tq_mask'[c] = IF c = d THEN tq_mask[c] \cup {i} ELSE tq_mask[c]
      /\ \A q \in Ports, f \in Endps :
            hcpriv'[q][f] = IF q = p /\ f = x THEN <<d, i>> ELSE hcpriv[q][f]
  <2>1. \A c \in DevIds, j \in Indices :
           tq'[c][j] = IF c = d /\ j = i THEN NewQueue(p, d, x) ELSE tq[c][j]
    <3>1. tq \in [DevIds -> [Indices -> {None} \cup Queues]]
      BY DEF TypeOK
    <3> QED
      BY <1>1, <1>2, <1>3, <3>1
  <2>2. \A c \in DevIds : tq_mask'[c] = IF c = d THEN tq_mask[c] \cup {i} ELSE tq_mask[c]
    BY <1>1, <1>2 DEF TypeOK
  <2>3. \A q \in Ports, f \in Endps :
           hcpriv'[q][f] = IF q = p /\ f = x THEN <<d, i>> ELSE hcpriv[q][f]
    BY <1>1, <1>2 DEF TypeOK
  <2> QED
    BY <2>1, <2>2, <2>3
<1>6. /\ DOMAIN arg' = Threads /\ \A s \in Threads : arg'[s] = arg[s]
      /\ pc'[t] = "tell" /\ \A s \in Threads \ {t} : pc'[s] = pc[s]
  BY <1>2 DEF TypeOK
<1>7. TypeOK'
  BY <1>2, <1>4, <1>6 DEF TypeOK
<1>8. \A c \in DevIds, b \in Addrs : endpoint_index(b) \in tq_mask'[c] => Queue(c, b)'
  <2> SUFFICES ASSUME NEW c \in DevIds, NEW b \in Addrs, endpoint_index(b) \in tq_mask'[c]
               PROVE  IsQueueOf(tq'[c][endpoint_index(b)], c, b)
    BY DEF Queue, IsQueueOf
  <2>1. endpoint_index(b) \in Indices
    BY IndexType
  <2>2. CASE c = d /\ endpoint_index(b) = i
    <3>1. b = addr(x)
      BY <1>3, <2>2, IndexInjective
    <3>2. tq'[c][endpoint_index(b)] = NewQueue(p, d, x)
      BY <1>5, <2>1, <2>2
    <3> HIDE DEF p, d, x
    <3> QED
      BY <1>3, <2>2, <3>1, <3>2
  <2>3. CASE ~(c = d /\ endpoint_index(b) = i)
    <3>1. endpoint_index(b) \in tq_mask[c]
      <4>1. tq_mask'[c] = IF c = d THEN tq_mask[c] \cup {i} ELSE tq_mask[c]
        BY <1>5
      <4> HIDE DEF p, d, x
      <4> QED
        BY <2>3, <4>1
    <3>2. tq'[c][endpoint_index(b)] = tq[c][endpoint_index(b)]
      BY <1>5, <2>1, <2>3
    <3> QED
      BY <3>1, <3>2 DEF TableInv, Queue
  <2> QED
    BY <2>2, <2>3
<1>9. TableInv'
  <2>1. \A c \in DevIds : tq_mask'[c] # {} => c \in 1..Len(made)
    BY <1>1, <1>5 DEF TableInv
  <2> QED
    BY <1>2, <1>8, <2>1 DEF TableInv
<1>10. ArgInv'
  <2>1. \A s \in Threads : pc'[s] # "idle" =>
           /\ arg[s].port \in Ports
           /\ arg[s].dev \in DevIds /\ arg[s].dev \in 1..Len(made)
           /\ made[arg[s].dev] = arg[s].port
    BY <1>1, <1>6 DEF ArgInv
  <2>2. pc'["core"] # "record"
    BY <1>6 DEF ArgInv
  <2>3. \A s \in Threads : pc'[s] \in {"queue", "tell"} =>
           /\ arg[s].dev \in devices
           /\ arg[s].endp \in Endps
           /\ arg[s].endp = Ep0 <=> s = "hub"
    BY <1>1, <1>6 DEF ArgInv
  <2>4. \A s \in Threads : pc'[s] = "tell" =>
           endpoint_index(arg[s].endp) \in tq_mask'[arg[s].dev]
    <3> SUFFICES ASSUME NEW s \in Threads, pc'[s] = "tell"
                 PROVE  endpoint_index(arg[s].endp) \in tq_mask'[arg[s].dev]
      OBVIOUS
    <3>1. CASE s = t
      BY <1>1, <1>5, <3>1 DEF i
    <3>2. CASE s # t
      <4>1. endpoint_index(arg[s].endp) \in tq_mask[arg[s].dev] /\ arg[s].dev \in DevIds
        BY <1>6, <3>2 DEF ArgInv
      <4> QED
        BY <1>5, <4>1
    <3> QED
      BY <3>1, <3>2
  <2>5. \A s \in Threads : pc'[s] = "tell" => Queue(arg[s].dev, addr(arg[s].endp))'
    <3> SUFFICES ASSUME NEW s \in Threads, pc'[s] = "tell"
                 PROVE  Queue(arg[s].dev, addr(arg[s].endp))'
      OBVIOUS
    <3>1. arg[s].dev \in DevIds /\ arg[s].endp \in Endps
      BY <2>1, <2>3
    <3>2. /\ addr(arg[s].endp) \in Addrs
          /\ endpoint_index(arg[s].endp) = endpoint_index(addr(arg[s].endp))
      BY <3>1, IndexType
    <3> QED
      BY <1>6, <1>8, <2>4, <3>1, <3>2
  <2> QED
    BY <1>2, <1>6, <2>1, <2>2, <2>3, <2>4, <2>5 DEF ArgInv
<1>11. \A q \in Ports : hcpriv[q][Ep0] # None => hcpriv'[q][Ep0] # None
  <2>1. <<d, i>> # None
    BY <1>1, PairNotNone DEF i
  <2> QED
    BY <1>5, <2>1, Ep0Type
<1>12. HandInv'
  <2>1. CASE t = "hub"
    <3>1. hcpriv'[p][Ep0] # None
      <4>1. hcpriv'[p][x] = <<d, i>> /\ <<d, i>> # None
        BY <1>1, <1>5, PairNotNone DEF i
      <4> QED
        BY <1>1, <2>1, <4>1
    <3>2. pc["core"] # "idle" => arg["core"].port \in Ports /\ arg["core"].dev \in DevIds
      BY DEF ArgInv
    <3>3. pc["core"] = "queue" =>
             endpoint_index(arg["core"].endp) \notin tq_mask'[arg["core"].dev]
      <4> SUFFICES ASSUME pc["core"] = "queue"
                   PROVE  endpoint_index(arg["core"].endp) \notin tq_mask'[arg["core"].dev]
        OBVIOUS
      <4>1. /\ endpoint_index(arg["core"].endp) \notin tq_mask[arg["core"].dev]
            /\ hcpriv[arg["core"].port][Ep0] # None
            /\ port_to_device[arg["core"].port] = arg["core"].dev
        BY DEF HandInv
      <4>2. arg["core"].dev # d
        <5>1. tq_mask[arg["core"].dev] # {}
          BY <3>2, <4>1, Ep0Type DEF UrbInv
        <5> QED
          BY <1>1, <2>1, <5>1
      <4> QED
        BY <1>5, <3>2, <4>1, <4>2
    <3> QED
      BY <1>1, <1>2, <1>6, <1>11, <2>1, <3>1, <3>2, <3>3 DEF HandInv
  <2>2. CASE t = "core"
    <3>1. pc["hub"] \in {"record", "queue"} => tq_mask'[arg["hub"].dev] = {}
      <4> SUFFICES ASSUME pc["hub"] \in {"record", "queue"}
                   PROVE  tq_mask'[arg["hub"].dev] = {}
        OBVIOUS
      <4>1. tq_mask[arg["hub"].dev] = {} /\ arg["hub"].dev \in DevIds
        BY DEF HandInv, ArgInv
      <4>2. tq_mask[d] # {}
        BY <1>1, <2>2, Ep0Type DEF UrbInv
      <4> QED
        BY <1>5, <4>1, <4>2
    <3>2. pc["hub"] = "tell" => arg["hub"].port \in Ports
      BY DEF ArgInv
    <3> QED
      BY <1>1, <1>2, <1>6, <1>11, <2>2, <3>1, <3>2 DEF HandInv
  <2> QED
    BY <2>1, <2>2
<1>13. EnabledInv' /\ ResetInv'
  BY <1>2, <1>6, <1>11 DEF EnabledInv, ResetInv
<1>14. EventFindsOwnQueue'
  <2> SUFFICES ASSUME NEW y \in endpoints
               PROVE  /\ y[1] \in devices /\ endpoint_index(y[2]) \in tq_mask'[y[1]]
                      /\ IsQueueOf(tq'[y[1]][endpoint_index(y[2])], y[1], y[2])
    BY <1>2 DEF EventFindsOwnQueue
  <2>1. y[1] \in DevIds /\ y[2] \in Addrs
    BY DEF TypeOK
  <2>2. y[1] \in devices /\ endpoint_index(y[2]) \in tq_mask[y[1]]
    BY DEF EventFindsOwnQueue
  <2>3. endpoint_index(y[2]) \in tq_mask'[y[1]]
    BY <1>5, <2>1, <2>2
  <2>4. Queue(y[1], y[2])'
    BY <1>8, <2>1, <2>3
  <2> QED
    BY <2>2, <2>3, <2>4 DEF Queue, IsQueueOf
<1>15. \A q \in Ports : q # p /\ port_to_device[q] # 0 => port_to_device[q] # d
  BY <1>1 DEF TableInv
<1>16. UrbInv'
  <2> SUFFICES ASSUME NEW q \in Ports, NEW f \in Endps, hcpriv'[q][f] # None
               PROVE  /\ port_to_device[q] # 0
                      /\ hcpriv'[q][f] = <<port_to_device[q], endpoint_index(f)>>
                      /\ endpoint_index(f) \in tq_mask'[port_to_device[q]]
                      /\ hcpriv'[q][Ep0] # None
    BY <1>2 DEF UrbInv
  <2>1. CASE q = p /\ f = x
    <3>1. hcpriv'[p][Ep0] # None
      <4>1. CASE t = "hub"
        BY <1>1, <2>1, <4>1
      <4>2. CASE t = "core"
        BY <1>1, <1>11, <4>2
      <4> QED
        BY <4>1, <4>2
    <3>2. hcpriv'[p][x] = <<d, i>> /\ i \in tq_mask'[d] /\ d # 0
      <4>1. tq_mask'[d] = tq_mask[d] \cup {i}
        BY <1>1, <1>5
      <4>3. d # 0
        BY <1>1
      <4>2. hcpriv'[p][x] = <<d, i>>
        BY <1>1, <1>5
      <4> HIDE DEF p, d, x
      <4> QED
        BY <4>1, <4>2, <4>3
    <3> HIDE DEF p, d, x
    <3> QED
      BY <1>1, <2>1, <3>1, <3>2 DEF i
  <2>2. CASE ~(q = p /\ f = x)
    <3>1. hcpriv[q][f] # None /\ hcpriv'[q][f] = hcpriv[q][f]
      BY <1>5, <2>2
    <3>2. /\ port_to_device[q] # 0
          /\ hcpriv[q][f] = <<port_to_device[q], endpoint_index(f)>>
          /\ endpoint_index(f) \in tq_mask[port_to_device[q]]
          /\ hcpriv[q][Ep0] # None
      BY <3>1 DEF UrbInv
    <3>3. port_to_device[q] \in DevIds
      BY <3>2 DEF TypeOK
    <3> QED
      BY <1>5, <1>11, <3>1, <3>2, <3>3
  <2> QED
    BY <2>1, <2>2
<1>17. EndpInv'
  <2> SUFFICES ASSUME NEW q \in Ports, NEW e \in Endps, hcpriv'[q][Ep0] # None,
                      endpoint_index(e) \in tq_mask'[port_to_device[q]]
               PROVE  \E f \in Endps :
                         /\ hcpriv'[q][f] # None /\ addr(f) = addr(e)
                         /\ tq'[port_to_device[q]][endpoint_index(e)].endp = <<q, udev[q], f>>
    <3>1. UNCHANGED <<port_to_device, udev>>
      BY <1>2
    <3> HIDE DEF IInv, p, d, x, i
    <3> QED
      BY <3>1 DEF EndpInv
  <2>1. port_to_device[q] \in DevIds
    <3>1. port_to_device[q] # 0
      BY <1>2, <1>16, Ep0Type DEF UrbInv
    <3> QED
      BY <3>1 DEF TypeOK
  <2>2. /\ endpoint_index(e) \in Indices /\ endpoint_index(e) = endpoint_index(addr(e))
        /\ addr(e) \in Addrs
    BY IndexType
  <2>3. CASE port_to_device[q] = d /\ endpoint_index(e) = i
    <3>1. q = p
      BY <1>1, <1>15, <2>1, <2>3
    <3>2. addr(e) = addr(x)
      BY <1>3, <2>2, <2>3, IndexInjective
    <3>3. hcpriv'[p][x] = <<d, i>> /\ <<d, i>> # None
      BY <1>1, <1>5, PairNotNone DEF i
    <3>4. tq'[d][i] = NewQueue(p, d, x)
      BY <1>1, <1>3, <1>5
    <3> HIDE DEF p, d, x
    <3> QED
      BY <1>1, <1>3, <2>3, <3>1, <3>2, <3>3, <3>4
  <2>4. CASE ~(port_to_device[q] = d /\ endpoint_index(e) = i)
    <3>1. endpoint_index(e) \in tq_mask[port_to_device[q]]
      <4> DEFINE c == port_to_device[q]
      <4>1. tq_mask'[c] = IF c = d THEN tq_mask[c] \cup {i} ELSE tq_mask[c]
        BY <1>5, <2>1
      <4> HIDE DEF p, d, x
      <4> QED
        BY <2>4, <4>1
    <3>2. tq'[port_to_device[q]][endpoint_index(e)] = tq[port_to_device[q]][endpoint_index(e)]
      BY <1>5, <2>1, <2>2, <2>4
    <3>3. hcpriv[q][Ep0] # None
      <4>1. CASE q = p /\ t = "hub"
        BY <1>1, <3>1, <4>1
      <4>2. CASE q = p /\ t = "core"
        BY <1>1, <4>2
      <4>3. CASE q # p
        BY <1>5, <4>3, Ep0Type
      <4> QED
        BY <4>1, <4>2, <4>3
    <3>4. PICK f \in Endps :
             /\ hcpriv[q][f] # None /\ addr(f) = addr(e)
             /\ tq[port_to_device[q]][endpoint_index(e)].endp = <<q, udev[q], f>>
      BY <3>1, <3>3 DEF EndpInv
    <3>5. hcpriv'[q][f] # None
      <4>1. <<d, i>> # None
        BY <1>1, PairNotNone DEF i
      <4> QED
        BY <1>5, <3>4, <4>1
    <3> QED
      BY <3>2, <3>4, <3>5
  <2> QED
    BY <2>3, <2>4
<1> QED
  BY <1>7, <1>9, <1>10, <1>12, <1>13, <1>14, <1>16, <1>17

(* Whatever the device answers, the endpoint it now may know has a queue.  *)
LEMMA EndpointCreateStep ==
    ASSUME IInv, NEW t \in Threads, NEW o \in Outcomes, EndpointCreate(t, o)
    PROVE  IInv'
<1> DEFINE p == arg[t].port
           d == arg[t].dev
           x == addr(arg[t].endp)
<1> USE DEF IInv
<1>1. /\ p \in Ports /\ d \in DevIds /\ d \in devices /\ arg[t].endp \in Endps
      /\ (arg[t].endp = Ep0 <=> t = "hub")
      /\ endpoint_index(arg[t].endp) \in tq_mask[d] /\ Queue(d, x)
  BY DEF EndpointCreate, ArgInv
<1>2. /\ pc' = [pc EXCEPT ![t] = "idle"] /\ arg' = [arg EXCEPT ![t] = None]
      /\ endpoints' \subseteq endpoints \cup {<<d, x>>}
      /\ IF arg[t].endp = Ep0 THEN EnabledNow(p) ELSE UNCHANGED enabled
  BY DEF EndpointCreate, Return, Goto
<1>3. /\ pc'[t] = "idle"
      /\ \A s \in Threads \ {t} : pc'[s] = pc[s] /\ arg'[s] = arg[s]
  BY <1>2 DEF TypeOK
<1>4. /\ t = "core" => enabled' = enabled
      /\ t = "hub" => enabled' = [enabled EXCEPT ![p] = IF @ = None THEN udev[p] ELSE @]
  BY <1>1, <1>2 DEF EnabledNow
<1>5. \A q \in Ports :
         enabled'[q] = IF t = "hub" /\ q = p /\ enabled[q] = None THEN udev[q] ELSE enabled[q]
  BY <1>4 DEF TypeOK
<1>6. UNCHANGED <<port_to_device, devices, tq_mask, tq, udev, hcpriv, port_reset_mask, made, resets>>
  BY DEF EndpointCreate, tables, masks
<1>7. x \in Addrs /\ endpoint_index(arg[t].endp) = endpoint_index(x)
  BY <1>1, IndexType
<1>8. TypeOK'
  <2>1. enabled' \in [Ports -> {None} \cup Nat]
    BY <1>4 DEF TypeOK
  <2>2. pc' \in [Threads -> {"idle", "record", "queue", "tell"}] /\ DOMAIN arg' = Threads
    BY <1>2 DEF TypeOK
  <2>3. endpoints' \subseteq DevIds \X Addrs
    BY <1>1, <1>2, <1>7 DEF TypeOK
  <2> QED
    BY <1>6, <2>1, <2>2, <2>3 DEF TypeOK
<1>9. ArgInv' /\ HandInv'
  BY <1>3, <1>6 DEF ArgInv, HandInv, Queue
<1>10. TableInv' /\ ResetInv' /\ UrbInv' /\ EndpInv'
  BY <1>6 DEF TableInv, ResetInv, Queue, UrbInv, EndpInv
<1>11. EnabledInv'
  <2> SUFFICES ASSUME NEW q \in Ports
               PROVE  /\ enabled'[q] # None => enabled'[q] <= udev[q]
                      /\ port_to_device[q] # 0 /\ enabled'[q] = None =>
                            pc'["hub"] \in {"queue", "tell"} /\ arg'["hub"].port = q
                      /\ enabled'[q] = udev[q] => hcpriv[q][Ep0] # None
    BY <1>6 DEF EnabledInv
  <2>1. udev[q] \in Nat
    BY DEF TypeOK
  <2>2. t = "hub" => hcpriv[p][Ep0] # None
    BY DEF EndpointCreate, HandInv
  <2>3. CASE t = "hub" /\ q = p /\ enabled[q] = None
    BY <1>5, <2>1, <2>2, <2>3
  <2>4. CASE ~(t = "hub" /\ q = p /\ enabled[q] = None)
    <3>1. enabled'[q] = enabled[q]
      BY <1>5, <2>4
    <3>2. CASE t = "hub"
      BY <2>4, <3>1, <3>2 DEF EnabledInv
    <3>3. CASE t # "hub"
      BY <1>3, <3>1, <3>3 DEF EnabledInv
    <3> QED
      BY <3>2, <3>3
  <2> QED
    BY <2>3, <2>4
<1>12. EventFindsOwnQueue'
  <2> SUFFICES ASSUME NEW e \in endpoints'
               PROVE  LET i == endpoint_index(e[2])
                      IN  /\ e[1] \in devices /\ i \in tq_mask[e[1]]
                          /\ IsQueueOf(tq[e[1]][i], e[1], e[2])
    BY <1>6 DEF EventFindsOwnQueue
  <2>1. CASE e \in endpoints
    BY <2>1 DEF EventFindsOwnQueue
  <2>2. CASE e = <<d, x>>
    BY <1>1, <1>7, <2>2 DEF Queue
  <2> QED
    BY <1>2, <2>1, <2>2
<1> QED
  BY <1>8, <1>9, <1>10, <1>11, <1>12

LEMMA StepIInv == IInv /\ [Next]_vars => IInv'
<1> SUFFICES ASSUME IInv, [Next]_vars PROVE IInv'
  OBVIOUS
<1>1. CASE UNCHANGED vars
  <2>1. UNCHANGED <<port_reset_mask, port_to_device, devices, tq_mask, tq, udev, hcpriv,
                    enabled, pc, arg, made, endpoints, resets>>
    BY <1>1 DEF vars, tables, core, masks, device, threads
  <2>2. TypeOK' /\ ArgInv' /\ HandInv' /\ TableInv'
    BY <2>1 DEF IInv, TypeOK, ArgInv, HandInv, TableInv, Queue
  <2>3. EnabledInv' /\ ResetInv' /\ EventFindsOwnQueue'
    BY <2>1 DEF IInv, EnabledInv, ResetInv, EventFindsOwnQueue
  <2>4. UrbInv'
    BY <2>1 DEF IInv, UrbInv
  <2>5. EndpInv'
    BY <2>1 DEF IInv, EndpInv
  <2> QED
    BY <2>2, <2>3, <2>4, <2>5 DEF IInv
<1>2. ASSUME NEW p \in Ports, NewUdev(p) PROVE IInv'
  BY <1>2, NewUdevStep
<1>3. ASSUME NEW p \in Ports, EnableAgain(p) PROVE IInv'
  BY <1>3, EnableAgainStep
<1>4. ASSUME NEW p \in Ports, NEW o \in Outcomes, SetPower(p, o) \/ ResetPort(p, o) PROVE IInv'
  BY <1>4, RequestStep
<1>5. ASSUME NEW p \in Ports, NEW o \in Outcomes, DeviceCreate(p, o) PROVE IInv'
  BY <1>5, DeviceCreateStep
<1>6. ASSUME NEW p \in Ports, NEW e \in Endps, AddEndpoint(p, e) PROVE IInv'
  BY <1>6, AddEndpointStep
<1>7. CASE RecordDevice
  BY <1>7, RecordDeviceStep
<1>8. ASSUME NEW t \in Threads, CreateQueue(t) PROVE IInv'
  BY <1>8, CreateQueueStep
<1>9. ASSUME NEW t \in Threads, NEW o \in Outcomes, EndpointCreate(t, o) PROVE IInv'
  BY <1>9, EndpointCreateStep
<1> QED
  BY <1>1, <1>2, <1>3, <1>4, <1>5, <1>6, <1>7, <1>8, <1>9 DEF Next

(* Whatever commands fail and however the hub requests, the enabling of    *)
(* devices and the adding of endpoints interleave, the tables of vhci.c    *)
(* agree with each other and with what the two threads have in hand.       *)
THEOREM TablesAgree == Spec => []IInv
BY InitIInv, StepIInv, PTL DEF Spec

(* bce_vhci_handle_usb_event and bce_vhci_handle_firmware_event find the   *)
(* queue that was made for the endpoint the device names.                  *)
THEOREM EventsFindTheirQueue == Spec => []EventFindsOwnQueue
<1>1. IInv => EventFindsOwnQueue
  BY DEF IInv
<1> QED
  BY TablesAgree, <1>1, PTL

(* bce_vhci_urb_enqueue puts an URB into the queue of its own endpoint,    *)
(* and that queue looks for URBs in the list of a structure that was added *)
(* for the endpoint by the same udev, the URB's own one if only one was.   *)
THEOREM UrbsFindTheirQueue == Spec => []UrbFindsOwnQueue
<1>1. IInv => UrbFindsOwnQueue
  <2> SUFFICES ASSUME IInv PROVE UrbFindsOwnQueue
    OBVIOUS
  <2>1. \A p \in Ports : enabled[p] = udev[p] => hcpriv[p][Ep0] # None
    BY DEF IInv, EnabledInv
  <2>2. ASSUME NEW p \in Ports, NEW a \in Addrs, NEW e \in AddedFor(p, a)
        PROVE  LET d == hcpriv[p][e][1]  q == tq[d][hcpriv[p][e][2]]
               IN  /\ d \in DOMAIN made /\ made[d] = p /\ IsQueueOf(q, d, a)
                   /\ \E f \in AddedFor(p, a) : q.endp = <<p, udev[p], f>>
    <3> DEFINE d == port_to_device[p]
               i == endpoint_index(e)
    <3>1. e \in Endps /\ hcpriv[p][e] # None /\ addr(e) = a
      BY DEF AddedFor
    <3>2. /\ d # 0 /\ hcpriv[p][e] = <<d, i>>
          /\ i \in tq_mask[d] /\ hcpriv[p][Ep0] # None
      BY <3>1 DEF IInv, UrbInv
    <3>3. d \in DevIds /\ DOMAIN made = 1..Len(made)
      BY <3>2 DEF IInv, TypeOK
    <3>4. d \in DOMAIN made /\ made[d] = p
      BY <3>2, <3>3 DEF IInv, TableInv
    <3>5. i = endpoint_index(a)
      BY <3>1, IndexType
    <3>6. IsQueueOf(tq[d][i], d, a)
      BY <3>2, <3>3, <3>5 DEF IInv, TableInv, Queue
    <3>7. PICK f \in Endps : /\ hcpriv[p][f] # None /\ addr(f) = addr(e)
                             /\ tq[d][i].endp = <<p, udev[p], f>>
      BY <3>1, <3>2 DEF IInv, EndpInv
    <3>8. f \in AddedFor(p, a)
      BY <3>1, <3>7 DEF AddedFor
    <3>9. hcpriv[p][e][1] = d /\ hcpriv[p][e][2] = i
      BY <3>2
    <3> HIDE DEF d, i
    <3> QED
      BY <3>4, <3>6, <3>7, <3>8, <3>9
  <2> QED
    BY <2>1, <2>2 DEF UrbFindsOwnQueue
<1> QED
  BY TablesAgree, <1>1, PTL

(* port_reset_mask: the device never sees a second reset of a port.        *)
THEOREM PortsResetOnce == Spec => []ResetOnce
<1>1. IInv => ResetOnce
  <2> SUFFICES ASSUME IInv, NEW p \in Ports PROVE resets[p] <= 1
    BY DEF ResetOnce
  <2>1. resets[p] \in Nat /\ resets[p] <= IF p \in port_reset_mask THEN 1 ELSE 0
    BY DEF IInv, TypeOK, ResetInv
  <2> QED
    BY <2>1
<1> QED
  BY TablesAgree, <1>1, PTL
-----------------------------------------------------------------------------
(***************************************************************************)
(* The event queues.  Measured from head, completion_cidx,                 *)
(* completion_tail, devNext and tail follow each other (RingInv), the      *)
(* events from head on are the last ones sent (DataInv), and how far       *)
(* completion_cidx is ahead of head is a matter of where the consumer is   *)
(* (WorkerInv); what is before head has been handled (HandledInv).         *)
(***************************************************************************)

(* Distances on the ring.                                                  *)
LEMMA AheadFacts ==
    ASSUME NEW a \in Slots, NEW b \in Slots
    PROVE  /\ Inc(a) \in Slots
           /\ Ahead(a, b) \in Slots
           /\ Ahead(a, b) = 0 <=> a = b
           /\ \A d \in Slots : Ahead(a, d) = Ahead(a, b) => d = b
           /\ Ahead(a, Inc(b)) = (IF Ahead(a, b) = ElCount - 1 THEN 0 ELSE Ahead(a, b) + 1)
           /\ Ahead(Inc(a), b) = (IF a = b THEN ElCount - 1 ELSE Ahead(a, b) - 1)
<1>0. ElCount \in Nat /\ ElCount > 0
  BY EventQueueAssumption
<1>1. \A i \in Slots : Inc(i) = (IF i = ElCount - 1 THEN 0 ELSE i + 1) /\ Inc(i) \in Slots
  BY <1>0 DEF Inc, Slots
<1>2. /\ Ahead(a, b) \in Slots
      /\ Ahead(a, b) = 0 <=> a = b
      /\ \A d \in Slots : Ahead(a, d) = Ahead(a, b) => d = b
  BY <1>0 DEF Ahead, Slots
<1>3. Ahead(a, Inc(b)) = (IF Ahead(a, b) = ElCount - 1 THEN 0 ELSE Ahead(a, b) + 1)
  BY <1>0, <1>1 DEF Ahead, Slots
<1>4. Ahead(Inc(a), b) = (IF a = b THEN ElCount - 1 ELSE Ahead(a, b) - 1)
  BY <1>0, <1>1 DEF Ahead, Slots
<1> QED
  BY <1>1, <1>2, <1>3, <1>4

(* Posting n buffers at once.                                              *)
LEMMA AheadMove ==
    ASSUME NEW a \in Slots, NEW b \in Slots, NEW n \in Nat, Ahead(a, b) + n <= ElCount - 1
    PROVE  /\ (b + n) % ElCount \in Slots
           /\ Ahead(a, (b + n) % ElCount) = Ahead(a, b) + n
<1>0. ElCount \in Nat /\ ElCount > 0
  BY EventQueueAssumption
<1>1. n <= ElCount - 1
  BY <1>0, AheadFacts DEF Slots
<1>2. (b + n) % ElCount = IF b + n < ElCount THEN b + n ELSE b + n - ElCount
  BY <1>0, <1>1 DEF Slots
<1> QED
  BY <1>0, <1>1, <1>2 DEF Ahead, Slots


(***************************************************************************)
(* The invariant of a queue whose consumer never takes two.                *)
(***************************************************************************)

(* From head on: the slots of the events taken, of those completed, of     *)
(* those sent, and of the buffers still empty; the rest can be reserved.   *)
RingInv == /\ doorbell = tail
           /\ available_commands + Ahead(head, tail) = ElCount - 1
           /\ Ahead(head, completion_cidx) <= Ahead(head, completion_tail)
           /\ Ahead(head, completion_tail) <= Ahead(head, devNext)
           /\ Ahead(head, devNext) <= Ahead(head, tail)
           /\ consumed + Ahead(head, devNext) = sent + Ahead(head, completion_cidx)

(* The events from head on are the last ones sent, in order.               *)
DataInv == /\ \A i \in Slots : Ahead(head, i) < Ahead(head, devNext) =>
                  data[i].id + Ahead(head, devNext) = sent + Ahead(head, i) + 1
           /\ ~cancels => \A i \in Slots : data[i].of = 0

(* How many events have been taken, by where the consumer is, and where    *)
(* it holds them.                                                          *)
WorkerInv ==
    /\ worker # "pair"
    /\ msg2 # NoSlot => deferred
    /\ worker \in {"idle", "refill"} => msg2 = NoSlot /\ Ahead(head, completion_cidx) = 0
    /\ worker = "loop" /\ msg2 = NoSlot => Ahead(head, completion_cidx) = 0
    /\ worker = "loop" /\ msg2 # NoSlot => msg2 = head /\ Ahead(head, completion_cidx) = 1
    /\ worker = "peek" => deferred /\ msg = head /\ msg2 = NoSlot
                          /\ Ahead(head, completion_cidx) = 1
    /\ worker = "handle" /\ msg2 = NoSlot => msg = head /\ Ahead(head, completion_cidx) = 1
    /\ worker = "handle" /\ msg2 # NoSlot => /\ msg = head /\ msg2 = Inc(head)
                                             /\ Ahead(head, completion_cidx) = 2

(* The events before head have been handled, each of them once.            *)
HandledInv == \A n \in Ids : handled[n] = IF n + Ahead(head, devNext) <= sent THEN 1 ELSE 0

EventInv == EventTypeOK /\ RingInv /\ DataInv /\ WorkerInv /\ HandledInv

(* What is measured is a number.                                           *)
LEMMA Offsets ==
    ASSUME EventTypeOK
    PROVE  /\ ElCount \in Nat /\ ElCount > 1
           /\ available_commands \in Nat /\ consumed \in Nat /\ sent \in Nat
           /\ head \in Slots /\ tail \in Slots /\ devNext \in Slots
           /\ completion_cidx \in Slots /\ completion_tail \in Slots
           /\ \A i \in Slots : Ahead(head, i) \in Nat /\ Ahead(head, i) < ElCount
<1>1. head \in Slots
  BY DEF EventTypeOK
<1>2. \A i \in Slots : Ahead(head, i) \in Slots
  BY <1>1, AheadFacts
<1>3. \A i \in Slots : i \in Nat /\ i < ElCount
  BY EventQueueAssumption DEF Slots
<1>4. consumed \in Nat /\ sent \in Nat
  BY EventQueueAssumption DEF EventTypeOK
<1>5. ElCount \in Nat /\ ElCount > 1
  BY EventQueueAssumption
<1> QED
  BY <1>1, <1>2, <1>3, <1>4, <1>5 DEF EventTypeOK

LEMMA InitEventInv == EventInit => EventInv
<1> SUFFICES ASSUME EventInit PROVE EventInv
  OBVIOUS
<1>1. /\ ElCount \in Nat /\ Pending \in Nat /\ Pending > 0 /\ Pending < ElCount
      /\ 0 \in Slots /\ Pending \in Slots /\ Ahead(0, 0) = 0 /\ Ahead(0, Pending) = Pending
  BY EventQueueAssumption DEF Slots, Ahead
<1>2. data \in [Slots -> Events] /\ \A i \in Slots : data[i].of = 0
  BY EventQueueAssumption DEF EventInit, Events, NoEvent
<1>3. EventTypeOK
  <2>1. ElCount - 1 - Pending \in Nat
    BY <1>1
  <2>2. 0 \in 0..MaxEvents
    BY EventQueueAssumption
  <2>3. handled \in [Ids -> Nat]
    BY DEF EventInit
  <2> QED
    BY <1>1, <1>2, <2>1, <2>2, <2>3 DEF EventInit, EventTypeOK
<1>4. RingInv
  BY <1>1 DEF EventInit, RingInv
<1>5. DataInv
  <2>1. \A i \in Slots : ~(Ahead(0, i) < 0)
    BY <1>1, AheadFacts DEF Slots
  <2>2. head = 0 /\ devNext = 0
    BY DEF EventInit
  <2> QED
    BY <1>1, <1>2, <2>1, <2>2 DEF DataInv
<1>6. WorkerInv
  BY <1>1 DEF EventInit, WorkerInv
<1>7. HandledInv
  <2>1. \A n \in Ids : ~(n + 0 <= 0)
    BY EventQueueAssumption DEF Ids
  <2> QED
    BY <1>1, <2>1 DEF EventInit, HandledInv
<1> QED
  BY <1>3, <1>4, <1>5, <1>6, <1>7 DEF EventInv

(* A buffer that is posted holds no event that is still to be read.        *)
LEMMA FirmwareKeeps ==
    ASSUME EventInv, NEW of \in 0..MaxEvents, FirmwareEvent(of), ~cancels => of = 0
    PROVE  EventInv'
<1> USE DEF EventInv
<1>0. /\ ElCount \in Nat /\ ElCount > 0 /\ sent + 1 \in 0..MaxEvents
      /\ devNext' = Inc(devNext) /\ sent' = sent + 1
      /\ data' = [data EXCEPT ![devNext] = [id |-> sent + 1, of |-> of]]
      /\ head \in Slots /\ devNext \in Slots /\ tail \in Slots
      /\ UNCHANGED <<setup, sqVars, completion_cidx, completion_tail, irq, queued, worker,
                     locals, logs>>
  BY EventQueueAssumption DEF FirmwareEvent, EventTypeOK
<1>1. [id |-> sent + 1, of |-> of] \in Events
  BY <1>0 DEF Events
<1>2. EventTypeOK'
  BY <1>0, <1>1, AheadFacts DEF EventTypeOK, setup, sqVars, locals, logs
<1>3. /\ Ahead(head, devNext) < Ahead(head, tail) /\ Ahead(head, tail) \in Slots
      /\ Ahead(head, devNext) \in Slots
  <2>1. devNext # tail
    BY DEF FirmwareEvent, RingInv
  <2>2. Ahead(head, devNext) # Ahead(head, tail)
    BY <1>0, <2>1, AheadFacts
  <2>3. Ahead(head, devNext) <= Ahead(head, tail)
    BY DEF RingInv
  <2>4. Ahead(head, devNext) \in Nat /\ Ahead(head, tail) \in Nat
    BY <1>0, Offsets
  <2>5. Ahead(head, devNext) \in Slots /\ Ahead(head, tail) \in Slots
    BY <1>0, AheadFacts
  <2> QED
    BY <1>0, <2>2, <2>3, <2>4, <2>5
<1>4. Ahead(head, devNext') = Ahead(head, devNext) + 1
  BY <1>0, <1>3, AheadFacts DEF Slots
<1>5. RingInv'
  <2>1. /\ Ahead(head, completion_cidx) \in Nat /\ Ahead(head, completion_tail) \in Nat
        /\ Ahead(head, devNext) \in Nat /\ Ahead(head, tail) \in Nat
        /\ available_commands \in Nat /\ consumed \in Nat /\ sent \in Nat
    BY Offsets
  <2>2. /\ UNCHANGED <<available_commands, head, tail, doorbell>>
        /\ UNCHANGED <<completion_cidx, completion_tail, consumed>>
    BY <1>0 DEF sqVars, logs
  <2> QED
    BY <1>0, <1>3, <1>4, <2>1, <2>2 DEF RingInv
<1>6. DataInv'
  <2>1. ASSUME NEW i \in Slots, Ahead(head, i) < Ahead(head, devNext) + 1
        PROVE  data'[i].id + (Ahead(head, devNext) + 1) = sent + 1 + Ahead(head, i) + 1
    <3>1. CASE i = devNext
      BY <1>0, <1>3, <3>1 DEF EventTypeOK, Slots
    <3>2. CASE i # devNext
      <4>1. Ahead(head, i) # Ahead(head, devNext) /\ Ahead(head, i) \in Slots
        BY <1>0, <3>2, AheadFacts
      <4>2. Ahead(head, i) < Ahead(head, devNext)
        BY <1>3, <2>1, <4>1 DEF Slots
      <4>3. data'[i] = data[i] /\ data[i].id \in Nat
        BY <1>0, <3>2 DEF EventTypeOK, Events
      <4>4. data[i].id + Ahead(head, devNext) = sent + Ahead(head, i) + 1
        BY <1>0, <4>2 DEF DataInv
      <4>5. Ahead(head, devNext) \in Nat /\ Ahead(head, i) \in Nat /\ sent \in Nat
        BY <1>0, <1>3, <4>1 DEF Slots, EventTypeOK
      <4> QED
        BY <4>3, <4>4, <4>5
    <3> QED
      BY <3>1, <3>2
  <2>2. ~cancels => \A i \in Slots : data'[i].of = 0
    BY <1>0 DEF DataInv, EventTypeOK
  <2>3. head' = head /\ cancels' = cancels /\ Slots' = Slots
    BY <1>0 DEF sqVars, setup
  <2> QED
    BY <1>0, <1>4, <2>1, <2>2, <2>3 DEF DataInv
<1>7. WorkerInv'
  BY <1>0 DEF WorkerInv, sqVars, setup, locals
<1>8. HandledInv'
  <2>1. \A n \in Ids : n \in Nat
    BY EventQueueAssumption DEF Ids
  <2>2. \A n \in Ids : (n + (Ahead(head, devNext) + 1) <= sent + 1) <=> (n + Ahead(head, devNext) <= sent)
    BY <2>1, Offsets
  <2>3. head' = head /\ handled' = handled
    BY <1>0 DEF sqVars, logs
  <2> QED
    BY <1>0, <1>4, <2>2, <2>3 DEF HandledInv
<1> QED
  BY <1>2, <1>5, <1>6, <1>7, <1>8

(* The interrupt thread moves completion_tail only.                        *)
LEMMA InterruptKeeps ==
    ASSUME EventInv, Interrupt
    PROVE  EventInv'
<1> USE DEF EventInv
<1>1. CASE Accept
  <2>0. /\ ElCount \in Nat /\ completion_tail' = Inc(completion_tail)
        /\ head \in Slots /\ devNext \in Slots /\ tail \in Slots /\ completion_tail \in Slots
        /\ UNCHANGED <<setup, sqVars, completion_cidx, devVars, queued, worker, locals, logs>>
    BY <1>1, EventQueueAssumption DEF Accept, EventTypeOK
  <2>1. EventTypeOK'
    <3>1. completion_tail' \in Slots /\ irq' = "drain"
      BY <1>1, <2>0, AheadFacts DEF Accept
    <3> QED
      BY <2>0, <3>1 DEF EventTypeOK, setup, sqVars, devVars, locals, logs
  <2>2. Ahead(head, completion_tail) < Ahead(head, devNext)
    BY <1>1, <2>0, AheadFacts DEF Accept, RingInv, Slots
  <2>3. Ahead(head, completion_tail') = Ahead(head, completion_tail) + 1
    BY <2>0, <2>2, AheadFacts DEF Slots
  <2>4. RingInv'
    <3>1. /\ Ahead(head, completion_cidx) \in Nat /\ Ahead(head, completion_tail) \in Nat
          /\ Ahead(head, devNext) \in Nat
      BY Offsets
    <3>2. UNCHANGED <<available_commands, head, tail, doorbell, completion_cidx, devNext,
                      consumed, sent>>
      BY <2>0 DEF sqVars, devVars, logs
    <3> QED
      BY <2>0, <2>2, <2>3, <3>1, <3>2 DEF RingInv
  <2>5. DataInv'
    BY <2>0 DEF DataInv, sqVars, devVars, setup
  <2>6. WorkerInv'
    BY <2>0 DEF WorkerInv, sqVars, setup, locals
  <2>7. HandledInv'
    BY <2>0 DEF HandledInv, sqVars, devVars, logs
  <2> QED
    BY <2>1, <2>4, <2>5, <2>6, <2>7
<1>2. CASE Drained \/ QueueWork
  <2>0. /\ UNCHANGED <<setup, sqVars, completion_cidx, completion_tail, devVars, worker,
                       locals, logs>>
        /\ irq' \in {"idle", "callback"} /\ queued' \in BOOLEAN
    BY <1>2 DEF Drained, QueueWork, EventTypeOK
  <2>1. EventTypeOK'
    BY <2>0 DEF EventTypeOK, setup, sqVars, devVars, locals, logs
  <2>2. RingInv' /\ DataInv' /\ WorkerInv' /\ HandledInv'
    BY <2>0 DEF RingInv, DataInv, WorkerInv, HandledInv, setup, sqVars, devVars, locals, logs
  <2> QED
    BY <2>1, <2>2
<1> QED
  BY <1>1, <1>2 DEF Interrupt

(* A completion is taken from what is between completion_cidx and          *)
(* completion_tail.                                                        *)
LEMMA NextCompletionStep ==
    ASSUME EventTypeOK, RingInv, NextCompletion,
           UNCHANGED <<sqVars, completion_tail, devVars>>
    PROVE  /\ RingInv'
           /\ completion_cidx' \in Slots /\ consumed' \in 0..MaxEvents
           /\ Ahead(head', completion_cidx') = Ahead(head, completion_cidx) + 1
<1>0. /\ completion_cidx' = Inc(completion_cidx) /\ consumed' = consumed + 1
      /\ UNCHANGED <<available_commands, head, tail, doorbell, completion_tail, devNext, sent>>
  BY DEF NextCompletion, sqVars, devVars
<1>1. Ahead(head, completion_cidx) < Ahead(head, completion_tail)
  <2>1. Ahead(head, completion_cidx) # Ahead(head, completion_tail)
    BY Offsets, AheadFacts DEF NextCompletion
  <2> QED
    BY <2>1, Offsets DEF RingInv
<1>2. Ahead(head, Inc(completion_cidx)) = Ahead(head, completion_cidx) + 1
  <2>1. Ahead(head, completion_cidx) # ElCount - 1
    BY <1>1, Offsets
  <2> QED
    BY <2>1, Offsets, AheadFacts
<1>3. RingInv'
  BY <1>0, <1>1, <1>2, Offsets DEF RingInv
<1>4. consumed + 1 \in 0..MaxEvents
  <2>1. sent <= MaxEvents
    BY EventQueueAssumption DEF EventTypeOK
  <2>2. consumed + 1 <= sent
    BY <1>1, Offsets DEF RingInv
  <2> QED
    BY <2>1, <2>2, Offsets, EventQueueAssumption
<1> QED
  BY <1>0, <1>2, <1>3, <1>4, Offsets, AheadFacts

(* One slot is given back: everything is one nearer to head.               *)
LEMMA GiveBackStep ==
    ASSUME EventTypeOK, RingInv, DataInv, Ahead(head, completion_cidx) > 0,
           head' = Inc(head), available_commands' = available_commands + 1,
           UNCHANGED <<tail, doorbell, completion_cidx, completion_tail, devVars, consumed, cancels>>
    PROVE  /\ RingInv' /\ DataInv'
           /\ head' \in Slots /\ available_commands' \in Nat
           /\ Ahead(head', completion_cidx') = Ahead(head, completion_cidx) - 1
<1>1. \A i \in Slots : Ahead(head', i) = IF i = head THEN ElCount - 1 ELSE Ahead(head, i) - 1
  BY Offsets, AheadFacts
<1>2. \A i \in Slots : Ahead(head, i) > 0 => Ahead(head', i) = Ahead(head, i) - 1
  BY <1>1, Offsets, AheadFacts
<1>3. /\ Ahead(head', completion_cidx) = Ahead(head, completion_cidx) - 1
      /\ Ahead(head', completion_tail) = Ahead(head, completion_tail) - 1
      /\ Ahead(head', devNext) = Ahead(head, devNext) - 1
      /\ Ahead(head', tail) = Ahead(head, tail) - 1
  BY <1>2, Offsets DEF RingInv
<1>4. UNCHANGED <<data, devNext, sent>>
  BY DEF devVars
<1>5. RingInv'
  BY <1>3, <1>4, Offsets DEF RingInv
<1>6. DataInv'
  <2>1. ASSUME NEW i \in Slots, Ahead(head', i) < Ahead(head', devNext)
        PROVE  data[i].id + Ahead(head', devNext) = sent + Ahead(head', i) + 1
    <3>1. Ahead(head', i) = Ahead(head, i) - 1
      <4>1. Ahead(head, devNext) < ElCount
        BY Offsets
      <4>2. Ahead(head', i) # ElCount - 1
        BY <1>3, <2>1, <4>1, Offsets
      <4> QED
        BY <1>1, <4>2
    <3>2. data[i].id + Ahead(head, devNext) = sent + Ahead(head, i) + 1
      BY <1>3, <2>1, <3>1, Offsets DEF DataInv
    <3>3. data[i].id \in Nat
      BY <2>1, EventQueueAssumption DEF EventTypeOK, Events
    <3> QED
      BY <1>3, <3>1, <3>2, <3>3, Offsets
  <2> QED
    BY <1>4, <2>1 DEF DataInv
<1> QED
  BY <1>3, <1>5, <1>6, Offsets, AheadFacts

(* What nothing is handled in but counted.                                 *)
LEMMA HandledType ==
    ASSUME EventTypeOK, NEW S \in SUBSET Slots, HandleSlots(S)
    PROVE  handled' \in [Ids -> Nat]
BY DEF EventTypeOK, HandleSlots

(* The event about to be handled is the one at head.                       *)
LEMMA FirstUnhandled ==
    ASSUME EventTypeOK, RingInv, DataInv, WorkerInv, worker = "handle"
    PROVE  /\ msg = head /\ Ahead(head, devNext) > 0
           /\ data[head].id + Ahead(head, devNext) = sent + 1
<1>1. msg = head /\ Ahead(head, completion_cidx) = IF msg2 = NoSlot THEN 1 ELSE 2
  BY DEF WorkerInv
<1>2. Ahead(head, head) = 0
  BY Offsets, AheadFacts
<1>3. Ahead(head, devNext) > 0
  BY <1>1, Offsets DEF RingInv
<1> QED
  BY <1>1, <1>2, <1>3, Offsets DEF DataInv

LEMMA ConsumerKeeps ==
    ASSUME EventInv, Consumer, NoPairs
    PROVE  EventInv'
<1> USE DEF EventInv
<1>1. CASE Start
  <2>1. EventTypeOK'
    BY <1>1 DEF Start, EventTypeOK, setup, sqVars, devVars, locals, logs
  <2>2. RingInv' /\ DataInv' /\ HandledInv'
    BY <1>1 DEF Start, RingInv, DataInv, HandledInv, setup, sqVars, devVars, logs
  <2>3. WorkerInv'
    BY <1>1 DEF Start, WorkerInv, setup, sqVars
  <2> QED
    BY <2>1, <2>2, <2>3
<1>2. CASE TakeKept
  <2>1. EventTypeOK'
    BY <1>2, NoSlotAssumption DEF TakeKept, EventTypeOK, setup, sqVars, devVars, locals, logs
  <2>2. RingInv' /\ DataInv' /\ HandledInv'
    BY <1>2 DEF TakeKept, RingInv, DataInv, HandledInv, setup, sqVars, devVars, logs
  <2>3. deferred
    BY <1>2 DEF TakeKept, WorkerInv
  <2>4. WorkerInv'
    BY <1>2, <2>3 DEF TakeKept, WorkerInv, setup, sqVars
  <2> QED
    BY <2>1, <2>2, <2>4
<1>3. CASE TakeNext
  <2>1. /\ RingInv' /\ completion_cidx' \in Slots /\ consumed' \in 0..MaxEvents
        /\ Ahead(head', completion_cidx') = Ahead(head, completion_cidx) + 1
    BY <1>3, NextCompletionStep DEF TakeNext
  <2>2. EventTypeOK'
    BY <1>3, <2>1 DEF TakeNext, EventTypeOK, setup, sqVars, devVars
  <2>3. DataInv' /\ HandledInv'
    BY <1>3 DEF TakeNext, DataInv, HandledInv, setup, sqVars, devVars
  <2>4. WorkerInv'
    BY <1>3, <2>1 DEF TakeNext, WorkerInv, setup, sqVars
  <2> QED
    BY <2>1, <2>2, <2>3, <2>4
<1>4. CASE TakeNone \/ PeekNone
  <2>0. /\ UNCHANGED <<setup, sqVars, completion_cidx, completion_tail, devVars, irq,
                       queued, locals, logs>>
        /\ \/ worker = "loop" /\ msg2 = NoSlot /\ worker' = "refill"
           \/ worker = "peek" /\ worker' = "handle"
    BY <1>4 DEF TakeNone, PeekNone
  <2>1. EventTypeOK'
    BY <2>0 DEF EventTypeOK, setup, sqVars, devVars, locals, logs
  <2>2. RingInv' /\ DataInv' /\ HandledInv'
    BY <2>0 DEF RingInv, DataInv, HandledInv, setup, sqVars, devVars, logs
  <2>3. WorkerInv'
    BY <2>0 DEF WorkerInv, setup, sqVars, locals
  <2> QED
    BY <2>1, <2>2, <2>3
<1>5. CASE PeekSecond
  <2>1. /\ RingInv' /\ completion_cidx' \in Slots /\ consumed' \in 0..MaxEvents
        /\ Ahead(head', completion_cidx') = Ahead(head, completion_cidx) + 1
    BY <1>5, NextCompletionStep DEF PeekSecond
  <2>2. Inc(head) \in Slots /\ msg2' = Inc(head)
    BY <1>5, Offsets, AheadFacts DEF PeekSecond
  <2>3. worker' = "handle"
    <3>1. ~cancels
      BY <1>5 DEF PeekSecond, WorkerInv, NoPairs
    <3>2. data[msg2'].of = 0
      BY <2>2, <3>1 DEF DataInv
    <3> QED
      BY <1>5, <3>2 DEF PeekSecond
  <2>4. EventTypeOK'
    BY <1>5, <2>1, <2>2, <2>3 DEF PeekSecond, EventTypeOK, setup, sqVars, devVars
  <2>5. DataInv' /\ HandledInv'
    BY <1>5 DEF PeekSecond, DataInv, HandledInv, setup, sqVars, devVars
  <2>6. WorkerInv'
    BY <1>5, <2>1, <2>2, <2>3, NoSlotAssumption DEF PeekSecond, WorkerInv, setup, sqVars
  <2> QED
    BY <2>1, <2>4, <2>5, <2>6
<1>6. CASE TakeTwo
  BY <1>6 DEF TakeTwo, WorkerInv
<1>7. CASE Handle
  <2>0. /\ worker = "handle" /\ worker' = "loop" /\ head' = Inc(head)
        /\ available_commands' = available_commands + 1 /\ cnt' = cnt + 1
        /\ HandleSlots({msg})
        /\ UNCHANGED <<setup, tail, doorbell, completion_cidx, completion_tail, devVars,
                       irq, queued, msg, msg2, consumed>>
    BY <1>7 DEF Handle
  <2>1. /\ RingInv' /\ DataInv'
        /\ head' \in Slots /\ available_commands' \in Nat
        /\ Ahead(head', completion_cidx') = Ahead(head, completion_cidx) - 1
    BY <2>0, GiveBackStep DEF WorkerInv, setup
  <2>2. handled' \in [Ids -> Nat]
    BY <2>0, HandledType DEF EventTypeOK
  <2>3. EventTypeOK'
    BY <2>0, <2>1, <2>2 DEF EventTypeOK, setup, devVars
  <2>4. WorkerInv'
    <3>1. Ahead(head, completion_cidx) = IF msg2 = NoSlot THEN 1 ELSE 2
      BY <2>0 DEF WorkerInv
    <3> QED
      BY <2>0, <2>1, <3>1 DEF WorkerInv, setup
  <2>5. HandledInv'
    <3>1. \A n \in Ids : n \in Nat
      BY EventQueueAssumption DEF Ids
    <3>2. msg = head /\ Ahead(head, devNext) > 0 /\ data[head].id + Ahead(head, devNext) = sent + 1
      BY <2>0, FirstUnhandled
    <3>3. data[head].id \in Nat
      BY Offsets, EventQueueAssumption DEF EventTypeOK, Events
    <3>4. Ahead(head', devNext) = Ahead(head, devNext) - 1
      <4>1. head # devNext
        BY <3>2, Offsets, AheadFacts
      <4> QED
        BY <2>0, <4>1, Offsets, AheadFacts
    <3>5. ASSUME NEW n \in Ids
          PROVE  handled'[n] = IF n + (Ahead(head, devNext) - 1) <= sent THEN 1 ELSE 0
      <4>1. handled'[n] = IF n = data[head].id THEN handled[n] + 1 ELSE handled[n]
        BY <2>0, <3>2 DEF HandleSlots
      <4>2. handled[n] = IF n + Ahead(head, devNext) <= sent THEN 1 ELSE 0
        BY DEF HandledInv
      <4>3. n = data[head].id => n + Ahead(head, devNext) = sent + 1
        BY <3>2
      <4>4. n # data[head].id => n + Ahead(head, devNext) # sent + 1
        BY <3>1, <3>2, <3>3, Offsets
      <4> QED
        BY <3>1, <4>1, <4>2, <4>3, <4>4, Offsets
    <3>6. devNext' = devNext /\ sent' = sent
      BY <2>0 DEF devVars
    <3> QED
      BY <3>4, <3>5, <3>6 DEF HandledInv
  <2> QED
    BY <2>1, <2>3, <2>4, <2>5
<1>8. CASE SubmitPending
  <2> DEFINE n == IF cnt <= available_commands THEN cnt ELSE available_commands
  <2>1. /\ n \in Nat /\ n <= available_commands
        /\ worker = "refill" /\ worker' = "idle"
        /\ available_commands' = available_commands - n /\ tail' = (tail + n) % ElCount
        /\ doorbell' = tail' /\ irq' \in {irq, "idle"}
        /\ UNCHANGED <<setup, head, completion_cidx, completion_tail, devVars, queued,
                       locals, logs>>
    BY <1>8 DEF SubmitPending, EventTypeOK
  <2> HIDE DEF n
  <2>2. Ahead(head, tail) + n <= ElCount - 1
    BY <2>1, Offsets DEF RingInv
  <2>3. tail' \in Slots /\ Ahead(head, tail') = Ahead(head, tail) + n
    BY <2>1, <2>2, Offsets, AheadMove
  <2>4. available_commands' \in Nat
    BY <2>1, Offsets
  <2>5. EventTypeOK'
    BY <2>1, <2>3, <2>4 DEF EventTypeOK, setup, devVars, locals, logs
  <2>6. RingInv'
    <3>1. UNCHANGED <<head, completion_cidx, completion_tail, devNext, sent, consumed>>
      BY <2>1 DEF devVars, logs
    <3>2. /\ doorbell' = tail' /\ Ahead(head, tail') = Ahead(head, tail) + n
          /\ available_commands' = available_commands - n /\ n \in Nat
      BY <2>1, <2>3
    <3> QED
      BY <3>1, <3>2, Offsets DEF RingInv
  <2>7. DataInv' /\ WorkerInv' /\ HandledInv'
    BY <2>1 DEF DataInv, WorkerInv, HandledInv, setup, devVars, locals, logs
  <2> QED
    BY <2>5, <2>6, <2>7
<1> QED
  BY <1>1, <1>2, <1>3, <1>4, <1>5, <1>6, <1>7, <1>8 DEF Consumer

LEMMA StepEventInv ==
    ASSUME NoPairs => EventInv, [EventNext]_eventVars
    PROVE  (NoPairs => EventInv)'
<1>1. NoPairs' => NoPairs
  BY DEF NoPairs, EventNext, eventVars, setup, FirmwareEvent, Interrupt, Accept, Drained, QueueWork,
         Consumer, Start, TakeKept, TakeNext, TakeNone, PeekSecond, PeekNone, TakeTwo,
         Handle, SubmitPending
<1> SUFFICES ASSUME NoPairs, EventInv PROVE EventInv'
  BY <1>1
<1>2. CASE FirmwareEvent(0)
  BY <1>2, FirmwareKeeps, EventQueueAssumption
<1>3. CASE cancels /\ sent > 0 /\ FirmwareEvent(sent)
  BY <1>3, FirmwareKeeps DEF EventInv, EventTypeOK
<1>4. CASE Interrupt
  BY <1>4, InterruptKeeps
<1>5. CASE Consumer
  BY <1>5, ConsumerKeeps
<1>6. CASE UNCHANGED eventVars
  <2>1. EventTypeOK'
    BY <1>6 DEF eventVars, EventInv, EventTypeOK, setup, sqVars, devVars, locals, logs
  <2>2. RingInv' /\ DataInv' /\ WorkerInv' /\ HandledInv'
    BY <1>6 DEF EventInv, RingInv, DataInv, WorkerInv, HandledInv, eventVars, setup, sqVars, devVars, locals, logs
  <2> QED
    BY <2>1, <2>2 DEF EventInv
<1> QED
  BY <1>2, <1>3, <1>4, <1>5, <1>6 DEF EventNext

(* While bce_vhci_event_queue_completion and the worker give back one slot *)
(* for each completion, events stand in the ring as they were sent, from   *)
(* head on, and posting buffers overwrites none of them.                   *)
THEOREM EventsInOrder == EventSpec => [](NoPairs => EventInv)
<1>1. EventInit => (NoPairs => EventInv)
  BY InitEventInv
<1> QED
  BY <1>1, StepEventInv, PTL DEF EventSpec

(* The message at sq->head is that of the completion taken.                *)
THEOREM RightMessageHandled == EventSpec => []RightMessage
<1>1. (NoPairs => EventInv) => RightMessage
  <2> SUFFICES ASSUME NoPairs, EventInv, worker = "handle"
               PROVE  data[msg].id = IF msg2 = NoSlot THEN consumed ELSE consumed - 1
    BY DEF RightMessage
  <2> USE DEF EventInv
  <2>1. Ahead(head, completion_cidx) = IF msg2 = NoSlot THEN 1 ELSE 2
    BY DEF WorkerInv
  <2>2. msg = head /\ data[head].id + Ahead(head, devNext) = sent + 1
    BY FirstUnhandled
  <2>4. data[head].id \in Nat
    BY Offsets, EventQueueAssumption DEF EventTypeOK, Events
  <2> QED
    BY <2>1, <2>2, <2>4, Offsets DEF RingInv
<1> QED
  BY <1>1, EventsInOrder, PTL

(* Every completion taken has its slot given back when the consumer rests, *)
(* if none are taken two at a time.                                        *)
THEOREM SlotsGivenBack == EventSpec => [](NoPairs => SlotPerCompletion)
<1>1. (NoPairs => EventInv) => (NoPairs => SlotPerCompletion)
  BY Offsets, AheadFacts DEF EventInv, WorkerInv, SlotPerCompletion
<1> QED
  BY <1>1, EventsInOrder, PTL

(* No event is handled twice, and none that was taken is passed over.      *)
THEOREM EventsHandledOnce == EventSpec => []HandledOnce
<1>1. (NoPairs => EventInv) => HandledOnce
  <2> SUFFICES ASSUME NoPairs, EventInv, NEW n \in Ids
               PROVE  /\ handled[n] <= 1
                      /\ worker = "idle" /\ n <= consumed => handled[n] = 1
    BY DEF HandledOnce
  <2>1. handled[n] = IF n + Ahead(head, devNext) <= sent THEN 1 ELSE 0
    BY DEF EventInv, HandledInv
  <2>2. worker = "idle" => Ahead(head, completion_cidx) = 0
    BY DEF EventInv, WorkerInv
  <2>3. worker = "idle" => consumed + Ahead(head, devNext) = sent
    BY <2>2, Offsets DEF EventInv, RingInv
  <2>4. n \in Nat
    BY EventQueueAssumption DEF Ids
  <2>5. worker = "idle" /\ n <= consumed => n + Ahead(head, devNext) <= sent
    BY <2>3, <2>4, Offsets DEF EventInv
  <2> QED
    BY <2>1, <2>5
<1> QED
  BY <1>1, EventsInOrder, PTL
=============================================================================
