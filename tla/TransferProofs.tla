--------------------------- MODULE TransferProofs ---------------------------
(***************************************************************************)
(* Proofs about Reservation, which every transfer goes through, and about  *)
(* TransferQueue.                                                          *)
(*                                                                         *)
(* Those about Reservation are for any set of callers, any capacity and    *)
(* any number of calls.  The counting arguments rest on one lemma: moving  *)
(* one caller from one pc to another changes the cardinality of a set of   *)
(* pcs by one, or not at all.                                              *)
(*                                                                         *)
(* Those about TransferQueue are for any set of URBs and any number of     *)
(* submissions on a calm endpoint of each kind.  They rest on one          *)
(* inductive invariant, CalmInv, which relates the URB at the head of the  *)
(* list to what the device does and to what is on its way between the two. *)
(* It is proved in three steps: what the functions under q->urb_lock do to *)
(* the endpoint, which parts of the invariant a step does not disturb, and *)
(* one lemma for each action, which cites the two.                         *)
(***************************************************************************)
EXTENDS Reservation, TransferQueue, FiniteSetTheorems, SequenceTheorems, TLAPS

-----------------------------------------------------------------------------
(***************************************************************************)
(* Reservation                                                             *)
(***************************************************************************)

(* What moving caller c to the pc "place" does to the number of callers    *)
(* whose pc lies in P.                                                     *)
LEMMA Move ==
    ASSUME NEW P, NEW f, NEW g, NEW c \in Callers,
           \A d \in Callers : d # c => g[d] = f[d]
    PROVE  /\ Cardinality(Among(P, f)) \in Nat
           /\ Cardinality(Among(P, g)) =
                Cardinality(Among(P, f)) + (IF g[c] \in P THEN 1 ELSE 0)
                                         - (IF f[c] \in P THEN 1 ELSE 0)
           /\ f[c] \in P => Cardinality(Among(P, f)) > 0
  <1> DEFINE Before == Among(P, f)
             After  == Among(P, g)
  <1>0. Before \subseteq Callers /\ After \subseteq Callers
    BY DEF Among
  <1>1. IsFiniteSet(Before) /\ IsFiniteSet(After)
    BY <1>0, FS_Subset, ReservationAssumption
  <1>2. Cardinality(Before) \in Nat /\ Cardinality(After) \in Nat
    BY <1>1, FS_CardinalityType
  <1>3. CASE f[c] \in P /\ g[c] \in P
    <2>1. After = Before
      BY <1>3 DEF Among
    <2>2. Cardinality(Before \ {c}) = Cardinality(Before) - 1
      BY <1>1, <1>3, FS_RemoveElement DEF Among
    <2>3. Cardinality(Before \ {c}) \in Nat
      BY <1>1, FS_Subset, FS_CardinalityType
    <2> QED
      BY <2>1, <2>2, <2>3, <1>2, <1>3
  <1>4. CASE f[c] \in P /\ g[c] \notin P
    <2>1. After = Before \ {c}
      BY <1>4 DEF Among
    <2>2. Cardinality(After) = Cardinality(Before) - 1
      BY <1>1, <1>4, <2>1, FS_RemoveElement DEF Among
    <2> QED
      BY <2>2, <1>2, <1>4
  <1>5. CASE f[c] \notin P /\ g[c] \in P
    <2>1. After = Before \cup {c}
      BY <1>5 DEF Among
    <2>2. Cardinality(After) = Cardinality(Before) + 1
      BY <1>1, <1>5, <2>1, FS_AddElement DEF Among
    <2> QED
      BY <2>2, <1>2, <1>5
  <1>6. CASE f[c] \notin P /\ g[c] \notin P
    <2>1. After = Before
      BY <1>6 DEF Among
    <2> QED
      BY <2>1, <1>2, <1>6
  <1> QED
    BY <1>3, <1>4, <1>5, <1>6

-----------------------------------------------------------------------------
(* The counters never go negative and every pc is one the code has.        *)
THEOREM CountersTyped == ReserveSpec => []ReserveTypeOK
  <1>1. ReserveInit => ReserveTypeOK
    BY ReservationAssumption DEF ReserveInit, ReserveTypeOK, PCs
  <1>2. ReserveTypeOK /\ [ReserveNext]_reserveVars => ReserveTypeOK'
    <2> SUFFICES ASSUME ReserveTypeOK, [ReserveNext]_reserveVars PROVE ReserveTypeOK'
      OBVIOUS
    <2> USE ReservationAssumption DEF ReserveTypeOK, PCs, Goto
    <2>1. ASSUME NEW c \in Callers, NEW patient \in BOOLEAN, Call(c, patient)
          PROVE  ReserveTypeOK'
      BY <2>1 DEF Call
    <2>2. ASSUME NEW c \in Callers, TryReserve(c) PROVE ReserveTypeOK'
      BY <2>2 DEF TryReserve
    <2>3. ASSUME NEW c \in Callers, GiveUp(c) PROVE ReserveTypeOK'
      BY <2>3 DEF GiveUp
    <2>4. ASSUME NEW c \in Callers, TryFails(c) PROVE ReserveTypeOK'
      BY <2>4 DEF TryFails
    <2>5. ASSUME NEW c \in Callers, Arm(c) PROVE ReserveTypeOK'
      BY <2>5 DEF Arm
    <2>6. ASSUME NEW c \in Callers, Wake(c) PROVE ReserveTypeOK'
      BY <2>6 DEF Wake
    <2>7. ASSUME NEW c \in Callers, Timeout(c) PROVE ReserveTypeOK'
      BY <2>7 DEF Timeout
    <2>8. ASSUME NEW c \in Callers, Withdraw(c) PROVE ReserveTypeOK'
      BY <2>8 DEF Withdraw
    <2>9. ASSUME NEW c \in Callers, Steal(c) PROVE ReserveTypeOK'
      BY <2>9 DEF Steal
    <2>10. ASSUME NEW c \in Callers, SubmitHeld(c) PROVE ReserveTypeOK'
      BY <2>10 DEF SubmitHeld
    <2>11. ASSUME NEW c \in Callers, CancelReservation(c) PROVE ReserveTypeOK'
      BY <2>11 DEF CancelReservation
    <2>12. CASE NotifyFree
      BY <2>12 DEF NotifyFree
    <2>13. CASE NotifyCheck
      BY <2>13 DEF NotifyCheck
    <2>14. CASE NotifySignal
      BY <2>14 DEF NotifySignal
    <2>15. CASE UNCHANGED reserveVars
      BY <2>15 DEF reserveVars
    <2> QED
      BY <2>1, <2>2, <2>3, <2>4, <2>5, <2>6, <2>7, <2>8, <2>9, <2>10, <2>11,
         <2>12, <2>13, <2>14, <2>15 DEF ReserveNext, Reserving
  <1> QED
    BY <1>1, <1>2, PTL DEF ReserveSpec

-----------------------------------------------------------------------------
(* A step that moves one caller changes the two counts by one each, or     *)
(* leaves them alone; a step that moves nobody leaves them alone.          *)
LEMMA MoveCounts ==
    ASSUME ReserveTypeOK, NEW c \in Callers, NEW place \in PCs, Goto(c, place)
    PROVE  /\ Cardinality(Holders) \in Nat /\ Cardinality(Parked) \in Nat
           /\ Cardinality(Holders') = Cardinality(Holders)
                + (IF place = "held" THEN 1 ELSE 0)
                - (IF pc[c] = "held" THEN 1 ELSE 0)
           /\ Cardinality(Parked') = Cardinality(Parked)
                + (IF place \in {"wait", "expired", "steal"} THEN 1 ELSE 0)
                - (IF pc[c] \in {"wait", "expired", "steal"} THEN 1 ELSE 0)
           /\ pc[c] = "held" => Cardinality(Holders) > 0
           /\ pc[c] \in {"wait", "expired", "steal"} => Cardinality(Parked) > 0
  <1>1. pc \in [Callers -> PCs] /\ pc' \in [Callers -> PCs] /\ pc' = [pc EXCEPT ![c] = place]
    BY DEF ReserveTypeOK, Goto
  <1>2. /\ Holders = Among({"held"}, pc) /\ Holders' = Among({"held"}, pc')
        /\ Parked = Among({"wait", "expired", "steal"}, pc)
        /\ Parked' = Among({"wait", "expired", "steal"}, pc')
    BY DEF Holders, Parked, Among
  <1>3. pc'[c] = place /\ \A d \in Callers : d # c => pc'[d] = pc[d]
    BY <1>1
  <1>4. ASSUME NEW P
        PROVE  /\ Cardinality(Among(P, pc)) \in Nat
               /\ Cardinality(Among(P, pc')) = Cardinality(Among(P, pc))
                    + (IF place \in P THEN 1 ELSE 0) - (IF pc[c] \in P THEN 1 ELSE 0)
               /\ pc[c] \in P => Cardinality(Among(P, pc)) > 0
    BY <1>3, Move
  <1> QED
    BY <1>2, <1>4

(* A step that moves no caller keeps the two counts.                      *)
LEMMA SameCounts ==
    ASSUME ReserveTypeOK, UNCHANGED pc
    PROVE  /\ Cardinality(Holders) \in Nat /\ Cardinality(Parked) \in Nat
           /\ Cardinality(Holders') = Cardinality(Holders)
           /\ Cardinality(Parked') = Cardinality(Parked)
  <1>1. IsFiniteSet(Holders) /\ IsFiniteSet(Parked)
    BY ReservationAssumption, FS_Subset DEF Holders, Parked, Among
  <1> QED
    BY <1>1, FS_CardinalityType DEF Holders, Parked, Among

(* Before the first call nobody holds a slot and nobody is parked.         *)
LEMMA CountsInit ==
    ASSUME ReserveInit
    PROVE  Cardinality(Holders) = 0 /\ Cardinality(Parked) = 0
  BY FS_EmptySet DEF ReserveInit, Holders, Parked, Among

(* No interleaving of reservations, cancellations, submissions and         *)
(* notifications loses or duplicates a slot.                               *)
THEOREM SlotsConserved == ReserveSpec => []Conservation
  <1>1. ReserveInit => Conservation
    BY CountsInit, ReservationAssumption DEF ReserveInit, Conservation
  <1>2. ReserveTypeOK /\ Conservation /\ [ReserveNext]_reserveVars => Conservation'
    <2> SUFFICES ASSUME ReserveTypeOK, Conservation, [ReserveNext]_reserveVars PROVE Conservation'
      OBVIOUS
    <2> USE ReservationAssumption DEF ReserveTypeOK, Conservation, PCs
    <2>1. ASSUME NEW c \in Callers, NEW patient \in BOOLEAN, Call(c, patient)
          PROVE  Conservation'
      BY <2>1, MoveCounts DEF Call
    <2>2. ASSUME NEW c \in Callers, TryReserve(c) PROVE Conservation'
      BY <2>2, MoveCounts DEF TryReserve
    <2>3. ASSUME NEW c \in Callers, GiveUp(c) PROVE Conservation'
      BY <2>3, MoveCounts DEF GiveUp
    <2>4. ASSUME NEW c \in Callers, TryFails(c) PROVE Conservation'
      BY <2>4, MoveCounts DEF TryFails
    <2>5. ASSUME NEW c \in Callers, Arm(c) PROVE Conservation'
      BY <2>5, MoveCounts DEF Arm
    <2>6. ASSUME NEW c \in Callers, Wake(c) PROVE Conservation'
      BY <2>6, MoveCounts DEF Wake
    <2>7. ASSUME NEW c \in Callers, Timeout(c) PROVE Conservation'
      BY <2>7, MoveCounts DEF Timeout
    <2>8. ASSUME NEW c \in Callers, Withdraw(c) PROVE Conservation'
      BY <2>8, MoveCounts DEF Withdraw
    <2>9. ASSUME NEW c \in Callers, Steal(c) PROVE Conservation'
      BY <2>9, MoveCounts DEF Steal
    <2>10. ASSUME NEW c \in Callers, SubmitHeld(c) PROVE Conservation'
      BY <2>10, MoveCounts DEF SubmitHeld
    <2>11. ASSUME NEW c \in Callers, CancelReservation(c) PROVE Conservation'
      BY <2>11, MoveCounts DEF CancelReservation
    <2>12. CASE NotifyFree
      BY <2>12, SameCounts DEF NotifyFree
    <2>13. CASE NotifyCheck
      BY <2>13, SameCounts DEF NotifyCheck
    <2>14. CASE NotifySignal
      BY <2>14, SameCounts DEF NotifySignal
    <2>15. CASE UNCHANGED reserveVars
      BY <2>15, SameCounts DEF reserveVars
    <2> QED
      BY <2>1, <2>2, <2>3, <2>4, <2>5, <2>6, <2>7, <2>8, <2>9, <2>10, <2>11, <2>12, <2>13, <2>14, <2>15 DEF ReserveNext, Reserving
  <1> QED
    BY <1>1, <1>2, CountersTyped, PTL DEF ReserveSpec

(* No caller that sleeps for a slot drops out of the accounting that wakes *)
(* it: with this, every notification that finds a sleeper counted gives a  *)
(* token to somebody.                                                      *)
THEOREM NoSleeperForgotten == ReserveSpec => []TokenCover
  <1>1. ReserveInit => TokenCover
    BY CountsInit, ReservationAssumption DEF ReserveInit, TokenCover, Signalling
  <1>2. ReserveTypeOK /\ TokenCover /\ [ReserveNext]_reserveVars => TokenCover'
    <2> SUFFICES ASSUME ReserveTypeOK, TokenCover, [ReserveNext]_reserveVars PROVE TokenCover'
      OBVIOUS
    <2> USE ReservationAssumption DEF ReserveTypeOK, TokenCover, Signalling, PCs
    <2>1. ASSUME NEW c \in Callers, NEW patient \in BOOLEAN, Call(c, patient)
          PROVE  TokenCover'
      BY <2>1, MoveCounts DEF Call
    <2>2. ASSUME NEW c \in Callers, TryReserve(c) PROVE TokenCover'
      BY <2>2, MoveCounts DEF TryReserve
    <2>3. ASSUME NEW c \in Callers, GiveUp(c) PROVE TokenCover'
      BY <2>3, MoveCounts DEF GiveUp
    <2>4. ASSUME NEW c \in Callers, TryFails(c) PROVE TokenCover'
      BY <2>4, MoveCounts DEF TryFails
    <2>5. ASSUME NEW c \in Callers, Arm(c) PROVE TokenCover'
      BY <2>5, MoveCounts DEF Arm
    <2>6. ASSUME NEW c \in Callers, Wake(c) PROVE TokenCover'
      BY <2>6, MoveCounts DEF Wake
    <2>7. ASSUME NEW c \in Callers, Timeout(c) PROVE TokenCover'
      BY <2>7, MoveCounts DEF Timeout
    <2>8. ASSUME NEW c \in Callers, Withdraw(c) PROVE TokenCover'
      BY <2>8, MoveCounts DEF Withdraw
    <2>9. ASSUME NEW c \in Callers, Steal(c) PROVE TokenCover'
      BY <2>9, MoveCounts DEF Steal
    <2>10. ASSUME NEW c \in Callers, SubmitHeld(c) PROVE TokenCover'
      BY <2>10, MoveCounts DEF SubmitHeld
    <2>11. ASSUME NEW c \in Callers, CancelReservation(c) PROVE TokenCover'
      BY <2>11, MoveCounts DEF CancelReservation
    <2>12. CASE NotifyFree
      BY <2>12, SameCounts DEF NotifyFree
    <2>13. CASE NotifyCheck
      BY <2>13, SameCounts DEF NotifyCheck
    <2>14. CASE NotifySignal
      BY <2>14, SameCounts DEF NotifySignal
    <2>15. CASE UNCHANGED reserveVars
      BY <2>15, SameCounts DEF reserveVars
    <2> QED
      BY <2>1, <2>2, <2>3, <2>4, <2>5, <2>6, <2>7, <2>8, <2>9, <2>10, <2>11, <2>12, <2>13, <2>14, <2>15 DEF ReserveNext, Reserving
  <1> QED
    BY <1>1, <1>2, CountersTyped, PTL DEF ReserveSpec

-----------------------------------------------------------------------------
(* A caller on its way into the wait still has time left.                  *)
WaitersHaveTime == \A c \in Callers : pc[c] \in {"arm", "wait"} => left[c]

(* It is an invariant: a caller without time left returns (queue.c:149).   *)
LEMMA WaitersHaveTimeInvariant == ReserveSpec => []WaitersHaveTime
  <1>1. ReserveInit => WaitersHaveTime
    BY DEF ReserveInit, WaitersHaveTime
  <1>2. ReserveTypeOK /\ WaitersHaveTime /\ [ReserveNext]_reserveVars => WaitersHaveTime'
    BY DEF ReserveTypeOK, WaitersHaveTime, ReserveNext, Reserving, reserveVars, Goto, Call, TryReserve,
           GiveUp, TryFails, Arm, Wake, Timeout, Withdraw, Steal, SubmitHeld,
           CancelReservation, NotifyFree, NotifyCheck, NotifySignal
  <1> QED
    BY <1>1, <1>2, CountersTyped, PTL DEF ReserveSpec

(* A caller that has run out of time does not go back to sleep: every call *)
(* with a timeout waits that long at most and then returns.                *)
THEOREM TimeoutIsFinal == ReserveSpec => OneTimeout
  <1> DEFINE Step == \A c \in Callers :
                    ~left[c] /\ pc[c] # "idle" => pc'[c] \notin {"arm", "wait"}
  <1>1. ReserveTypeOK /\ WaitersHaveTime /\ [ReserveNext]_reserveVars => [Step]_reserveVars
    BY DEF ReserveTypeOK, WaitersHaveTime, ReserveNext, Reserving, reserveVars, Goto, Call, TryReserve,
           GiveUp, TryFails, Arm, Wake, Timeout, Withdraw, Steal, SubmitHeld,
           CancelReservation, NotifyFree, NotifyCheck, NotifySignal
  <1> QED
    BY <1>1, CountersTyped, WaitersHaveTimeInvariant, PTL DEF ReserveSpec, OneTimeout

-----------------------------------------------------------------------------
(* The atomic counters, with every interleaving of their users, behave as  *)
(* a pool of slots: each step acquires, submits, gives back or releases    *)
(* one slot, or is invisible.                                              *)
THEOREM ReservationImplementsPool == ReserveSpec => ImplementsPool
  <1>1. ReserveInit => Pool!PoolInit
    BY CountsInit DEF ReserveInit, Pool!PoolInit
  <1>2. ReserveTypeOK /\ [ReserveNext]_reserveVars => [Pool!PoolNext]_(Pool!poolVars)
    <2> SUFFICES ASSUME ReserveTypeOK, [ReserveNext]_reserveVars PROVE [Pool!PoolNext]_(Pool!poolVars)
      OBVIOUS
    <2> USE DEF Pool!PoolNext, Pool!poolVars, Pool!Acquire, Pool!Submit,
                Pool!GiveBack, Pool!Release
    <2>1. ASSUME NEW c \in Callers, NEW patient \in BOOLEAN, Call(c, patient)
          PROVE  UNCHANGED Pool!poolVars
      BY <2>1, MoveCounts DEF Call, PCs
    <2>2. ASSUME NEW c \in Callers, TryReserve(c) PROVE Pool!Acquire
      BY <2>2, MoveCounts DEF TryReserve, PCs
    <2>3. ASSUME NEW c \in Callers, GiveUp(c) PROVE UNCHANGED Pool!poolVars
      BY <2>3, MoveCounts DEF GiveUp, PCs
    <2>4. ASSUME NEW c \in Callers, TryFails(c) PROVE UNCHANGED Pool!poolVars
      BY <2>4, MoveCounts DEF TryFails, PCs
    <2>5. ASSUME NEW c \in Callers, Arm(c) PROVE UNCHANGED Pool!poolVars
      BY <2>5, MoveCounts DEF Arm, PCs
    <2>6. ASSUME NEW c \in Callers, Wake(c) PROVE UNCHANGED Pool!poolVars
      BY <2>6, MoveCounts DEF Wake, PCs
    <2>7. ASSUME NEW c \in Callers, Timeout(c) PROVE UNCHANGED Pool!poolVars
      BY <2>7, MoveCounts DEF Timeout, PCs
    <2>8. ASSUME NEW c \in Callers, Withdraw(c) PROVE UNCHANGED Pool!poolVars
      BY <2>8, MoveCounts DEF Withdraw, PCs
    <2>9. ASSUME NEW c \in Callers, Steal(c) PROVE UNCHANGED Pool!poolVars
      BY <2>9, MoveCounts DEF Steal, PCs
    <2>10. ASSUME NEW c \in Callers, SubmitHeld(c) PROVE Pool!Submit
      BY <2>10, MoveCounts DEF SubmitHeld, PCs
    <2>11. ASSUME NEW c \in Callers, CancelReservation(c) PROVE Pool!GiveBack
      BY <2>11, MoveCounts DEF CancelReservation, PCs
    <2>12. CASE NotifyFree
      <3>1. Pool!Release
        BY <2>12, SameCounts DEF NotifyFree
      <3> QED
        BY <3>1
    <2>13. CASE NotifyCheck \/ NotifySignal \/ UNCHANGED reserveVars
      BY <2>13, SameCounts DEF NotifyCheck, NotifySignal, reserveVars
    <2> QED
      BY <2>1, <2>2, <2>3, <2>4, <2>5, <2>6, <2>7, <2>8, <2>9, <2>10, <2>11,
         <2>12, <2>13 DEF ReserveNext, Reserving
  <1> QED
    BY <1>1, <1>2, CountersTyped, PTL DEF ReserveSpec, ImplementsPool, Pool!PoolSpec

-----------------------------------------------------------------------------
(***************************************************************************)
(* TransferQueue: the inductive invariant                                  *)
(***************************************************************************)
(***************************************************************************)
(* What is typed                                                           *)
(***************************************************************************)
Fields == {"list", "state", "status", "dir", "id", "evq", "in", "out", "giveback",
           "active", "stalled", "work"}
Givebacks == [urb : Urbs, id : Nat, status : {"ok", "fail"}]

EpTypes(e) ==
    /\ e = [f \in Fields |-> e[f]]
    /\ e.list \in Seq(Urbs)
    /\ e.state \in [Urbs -> UrbStates]
    /\ e.status \in [Urbs -> {"none", "ok", "fail"}]
    /\ e.dir \in [Urbs -> {"in", "out", "none"}]
    /\ e.id \in [Urbs -> Nat]
    /\ e.evq \in {0, 1}
    /\ e.giveback \in Seq(Givebacks)
    /\ e.active \in BOOLEAN /\ e.stalled \in BOOLEAN
    /\ e.work \in Seq({"reset"})

DevFields == {"on", "halted", "stage", "dir", "id", "served"}

CalmTypes ==
    /\ kind \in {"in", "out", "control"} /\ mode = "calm" /\ full = {}
    /\ EpTypes(ep)
    /\ comps = [sq \in {"in", "out"} |-> comps[sq]]
    /\ dev = [f \in DevFields |-> dev[f]]
    /\ dev.on \in BOOLEAN /\ dev.halted \in BOOLEAN
    /\ irq \in {"idle", "in", "out", "giveback"}
    /\ submits \in Nat

-----------------------------------------------------------------------------
(***************************************************************************)
(* The first URB of the list, as the invariant sees it                     *)
(***************************************************************************)
StateOf(e) == IF e.list = <<>> THEN "empty" ELSE e.state[Head(e.list)]

Busy == StateOf(ep)
Status == ep.status[Head(ep.list)]
Dir == ep.dir[Head(ep.list)]
Id == ep.id[Head(ep.list)]

(* Its completion, and its submission.                                     *)
Done == <<[id |-> Id, aborted |-> FALSE]>>
Sub(what) == <<[id |-> Id, what |-> what, dir |-> Dir]>>

In == ep.in
Out == ep.out
Evq == ep.evq
DoneIn == comps["in"]
DoneOut == comps["out"]
Stage == dev.stage
Halted == dev.halted
Served == Id \in dev.served

-----------------------------------------------------------------------------
(***************************************************************************)
(* The invariant, for the kinds of endpoints                               *)
(***************************************************************************)

(* Each URB is in the list once, and those that are not have no status.    *)
Linked(e) ==
    /\ \A i, j \in DOMAIN e.list : e.list[i] = e.list[j] => i = j
    /\ \A i \in DOMAIN e.list : e.id[e.list[i]] # 0
    /\ \A u \in Urbs : e.id[u] = 0 => e.status[u] = "none"

(* The URBs after the first are in one of these states.                    *)
Rest(e, states) ==
    \A i \in 2..Len(e.list) : e.state[e.list[i]] \in states /\ e.status[e.list[i]] = "none"

Successful == \A i \in DOMAIN ep.giveback :
                 ep.giveback[i].status = "ok" => ep.giveback[i].id \in dev.served

NotStuck == irq \notin {"in", "out"} /\ Evq # 0 =>
                Busy \notin {"setup_request", "transfer_request"}

Undisturbed == /\ ep.active /\ ~ep.stalled /\ ep.work = <<>> /\ todo = <<>>
               /\ dev.on /\ ~Halted

InInv ==
    /\ Undisturbed /\ Stage = "idle"
    /\ Out = <<>> /\ DoneOut = <<>> /\ events = <<>> /\ Evq = 0
    /\ In \in Seq([id : Nat, what : {"in", "out", "setup"}, dir : {"in", "out", "none"}])
    /\ DoneIn \in Seq([id : Nat, aborted : BOOLEAN])
    /\ Len(ep.list) = Len(DoneIn) + Len(In)
    /\ \A i \in DOMAIN ep.list : ep.state[ep.list[i]] = "completion"
    /\ \A i \in DOMAIN DoneIn : /\ DoneIn[i] = [id |-> ep.id[ep.list[i]], aborted |-> FALSE]
                                /\ DoneIn[i].id \in dev.served
    /\ \A i \in DOMAIN In : In[i].id = ep.id[ep.list[Len(DoneIn) + i]]

(* The device's requests that have not been answered: none, and one.       *)
Requested(n) == \/ Evq = n /\ events = <<>>
                \/ n = 1 /\ Evq = 0 /\ events = <<"request">>

OutInv ==
    /\ Undisturbed
    /\ In = <<>> /\ DoneIn = <<>>
    /\ Rest(ep, {"transfer_request"})
    /\ \/ /\ Busy \in {"empty", "transfer_request"}
          /\ Out = <<>> /\ DoneOut = <<>>
          /\ \/ Stage = "idle" /\ Requested(0)
             \/ Stage = "asked_data" /\ Requested(1)
       \/ /\ Busy = "completion" /\ DoneOut = <<>> /\ Out = Sub("out")
          /\ Stage = "asked_data" /\ Requested(0)
       \/ /\ Busy = "completion" /\ Out = <<>> /\ DoneOut = Done /\ Served
          /\ \/ Stage = "idle" /\ Requested(0)
             \/ Stage = "asked_data" /\ Requested(1)

Still == In = <<>> /\ Out = <<>>
NoComps == DoneIn = <<>> /\ DoneOut = <<>>

(* Where the completions and submissions of the first URB are in the       *)
(* states it can be in between its setup packet and its status.            *)
SetupDone == Busy = "setup_completion" /\ Still /\ DoneIn = <<>> /\ DoneOut = Done
InSent == /\ Busy = "completion" /\ Dir = "in" /\ Out = <<>> /\ DoneOut = <<>>
          /\ In = Sub("in") /\ DoneIn = <<>>
InDone == /\ Busy = "completion" /\ Dir = "in" /\ Out = <<>> /\ DoneOut = <<>>
          /\ In = <<>> /\ DoneIn = Done
OutAwaited == Busy = "transfer_request" /\ Dir = "out" /\ Still /\ NoComps
OutSent == /\ Busy = "completion" /\ Dir = "out" /\ In = <<>> /\ DoneIn = <<>>
           /\ Out = Sub("out") /\ DoneOut = <<>>
OutDone == /\ Busy = "completion" /\ Dir = "out" /\ In = <<>> /\ DoneIn = <<>>
           /\ Out = <<>> /\ DoneOut = Done
DataDone == Busy = "complete" /\ Still /\ NoComps

(* No URB has been sent to the device.                                     *)
Waiting ==
    /\ Busy \in {"empty", "setup_request"} /\ (Busy = "empty" \/ Status = "none")
    /\ ~Halted /\ Still /\ NoComps
    /\ \/ Stage = "idle" /\ Requested(0)
       \/ Stage = "asked" /\ Requested(1)

(* The setup packet has.                                                   *)
SettingUp ==
    /\ Busy = "setup_completion" /\ Status = "none"
    /\ ~Halted /\ NoComps /\ In = <<>> /\ Out = Sub("setup")
    /\ Stage = "asked" /\ Requested(0)

(* The device has it.                                                      *)
Serves ==
    /\ Status = "none" /\ ~Halted /\ dev.id = Id /\ dev.dir = Dir
    /\ \/ SetupDone /\ Dir = "none" /\ Stage = "status" /\ Requested(0)
       \/ SetupDone /\ Dir \in {"in", "out"} /\ Stage = "data" /\ Requested(0)
       \/ SetupDone /\ Dir = "out" /\ Stage = "asked_data" /\ Requested(1)
       \/ InSent /\ Stage = "data" /\ Requested(0)
       \/ OutAwaited /\ Stage = "data" /\ Requested(0)
       \/ OutAwaited /\ Stage = "asked_data" /\ Requested(1)
       \/ OutSent /\ Stage = "asked_data" /\ Requested(0)
       \/ (InDone \/ OutDone \/ DataDone) /\ Stage = "status" /\ Requested(0)

(* It has done what it asks, and says so.                                  *)
Ended ==
    /\ (SetupDone /\ Dir = "none") \/ InDone \/ OutDone \/ DataDone
    /\ ~Halted /\ Served
    /\ \/ /\ Status = "none" /\ Evq = 0
          /\ \/ Stage = "idle" /\ events = <<"ok">>
             \/ Stage = "asked" /\ events = <<"ok", "request">>
       \/ /\ Status = "ok"
          /\ \/ Stage = "idle" /\ Requested(0)
             \/ Stage = "asked" /\ Requested(1)

(* It has not, and says so: the failure is still to be handled, maybe      *)
(* after a request; or it was handled before the setup packet's completion.*)
Failing ==
    /\ Halted /\ Stage = "idle"
    /\ \/ /\ Status = "none"
          /\ \/ Evq = 0 /\ events = <<"fail">>
             \/ /\ \/ Evq = 1 /\ events = <<"fail">>
                   \/ Evq = 0 /\ events = <<"request", "fail">>
                /\ (SetupDone /\ Dir = "out") \/ OutAwaited
          /\ SetupDone \/ InSent \/ InDone \/ OutAwaited \/ OutSent \/ OutDone \/ DataDone
       \/ /\ Status = "fail" /\ events = <<>> /\ (Evq = 1 => Dir = "out")
          /\ \/ SetupDone
             \/ Busy = "completion" /\ Dir = "in" /\ NoComps /\ Evq = 0
             \/ Busy = "transfer_request" /\ Dir = "out" /\ NoComps
             \/ Busy = "complete" /\ Dir = "none" /\ NoComps

(* A transfer has failed: the URBs that are left wait for the reset.  Left *)
(* of it are k steps; none when it has not begun, or has not been asked for*)
ResetSteps == <<"check", "drop", "flush in", "flushed in", "flush out", "flushed out",
                "reset", "unstall", "set active", "activate">>
LastSteps(k) == [i \in 1..k |-> ResetSteps[10 - k + i]]
ResetStep(k) ==
    /\ todo = LastSteps(k)
    /\ Halted <=> k \notin 1..3
    /\ ep.stalled <=> k \notin {1, 2}
    /\ dev.on <=> k \notin {2, 3}
    /\ k \in 1..7 => In = <<>>
    /\ k \in 1..6 => DoneIn = <<>>
    /\ k \in 1..5 => Out = <<>>
    /\ k \in 1..4 => DoneOut = <<>>
Quiet ==
    /\ Busy \in {"empty", "setup_request", "paused"} /\ (Busy = "empty" \/ Status = "none")
    /\ events = <<>> /\ Evq = 0 /\ Stage = "idle"
Failed == Quiet /\ \E k \in 0..10 : ResetStep(k)

Works ==
    /\ ep.active /\ ~ep.stalled /\ dev.on /\ todo \in {<<>>, ResetSteps}
    /\ Rest(ep, {"setup_request"})
Phase == Waiting \/ SettingUp \/ Serves \/ Ended \/ Failing
Stops == ~ep.active /\ Rest(ep, {"setup_request", "paused"})

ControlInv ==
    \/ Works /\ Phase
    \/ Stops /\ Failed

CalmInv ==
    /\ CalmTypes /\ Linked(ep) /\ Successful /\ NotStuck
    /\ kind = "in" => InInv
    /\ kind = "out" => OutInv
    /\ kind = "control" => ControlInv
-----------------------------------------------------------------------------
(***************************************************************************)
(* What the functions under q->urb_lock do                                 *)
(***************************************************************************)

(* Only the first URB and the device's submissions may change, and how     *)
(* many requests are deferred.                                             *)
OnlyFirst(e, f) ==
    /\ f.list = e.list /\ f.dir = e.dir /\ f.id = e.id /\ f.giveback = e.giveback
    /\ f.work = e.work /\ f.active = e.active /\ f.stalled = e.stalled
    /\ \A u \in Urbs : e.list = <<>> \/ u # Head(e.list) =>
            f.state[u] = e.state[u] /\ f.status[u] = e.status[u]

(* The first URB gets another state; status and requests stay.             *)
Moves(e, f, state) ==
    /\ EpTypes(f) /\ OnlyFirst(e, f)
    /\ f.state[Head(e.list)] = state
    /\ f.status[Head(e.list)] = e.status[Head(e.list)]
    /\ f.evq = e.evq

(* The first URB is taken off the list, to be given back.                  *)
Completes(e, f, status) ==
    LET u == Head(e.list)
    IN /\ EpTypes(f)
       /\ f.list = Tail(e.list)
       /\ \A v \in Urbs \ {u} : /\ f.state[v] = e.state[v] /\ f.status[v] = e.status[v]
                                /\ f.dir[v] = e.dir[v] /\ f.id[v] = e.id[v]
       /\ f.id[u] = 0 /\ f.status[u] = "none"
       /\ f.evq = e.evq /\ f.in = e.in /\ f.out = e.out
       /\ f.giveback = Append(e.giveback, [urb |-> u, id |-> e.id[u], status |-> status])

(* A function changed in one place keeps its type.                         *)
LEMMA ExceptType ==
    ASSUME NEW S, NEW T, NEW g \in [S -> T], NEW x, NEW y \in T
    PROVE  [g EXCEPT ![x] = y] \in [S -> T]
OBVIOUS

(* list_del of the first entry leaves the tail of the list.                *)
LEMMA RemoveHead ==
    ASSUME NEW S, NEW s \in Seq(S), s # <<>>
    PROVE  RemoveFirst(s, Head(s)) = Tail(s)
<1> DEFINE I == {i \in 1..Len(s) : s[i] = Head(s)}
<1>1. 1 \in I /\ \A i \in I : 1 <= i
  OBVIOUS
<1>2. Min(I) = 1
  <2>1. \E x \in I : \A y \in I : x <= y
    BY <1>1
  <2>2. Min(I) \in I /\ \A y \in I : Min(I) <= y
    <3> HIDE DEF I
    <3> QED
      BY <2>1 DEF Min
  <2> QED
    BY <1>1, <2>2
<1>3. SelectInSeq(s, LAMBDA v : v = Head(s)) = 1
  <2> HIDE DEF I
  <2> QED
    BY <1>1, <1>2 DEF SelectInSeq, I
<1>4. RemoveAt(s, 1) = Tail(s)
  BY DEF RemoveAt
<1> QED
  BY <1>1, <1>3, <1>4 DEF RemoveFirst

(* The first entry of the list is a URB.                                   *)
LEMMA HeadOfList ==
    ASSUME NEW e, EpTypes(e), e.list # <<>>
    PROVE  Head(e.list) \in Urbs /\ Tail(e.list) \in Seq(Urbs)
BY DEF EpTypes

(* bce_vhci_urb_complete of the first URB.                                 *)
LEMMA CompleteFields ==
    ASSUME NEW e, EpTypes(e), e.list # <<>>, NEW status \in {"ok", "fail"}
    PROVE  LET f == Complete(e, Head(e.list), status)
           IN  /\ Completes(e, f, status)
               /\ f.active = e.active /\ f.stalled = e.stalled /\ f.work = e.work
<1> DEFINE u == Head(e.list)
           f == Complete(e, u, status)
           g == [urb |-> u, id |-> e.id[u], status |-> status]
<1>1. u \in Urbs /\ Tail(e.list) \in Seq(Urbs)
  BY HeadOfList
<1>2. RemoveFirst(e.list, u) = Tail(e.list)
  BY RemoveHead DEF EpTypes
<1> HIDE DEF u
<1>3. /\ f = [h \in Fields |-> f[h]]
      /\ f.list = RemoveFirst(e.list, u)
      /\ f.state = [e.state EXCEPT ![u] = "none"] /\ f.status = [e.status EXCEPT ![u] = "none"]
      /\ f.dir = [e.dir EXCEPT ![u] = "in"] /\ f.id = [e.id EXCEPT ![u] = 0]
      /\ f.evq = e.evq /\ f.in = e.in /\ f.out = e.out
      /\ f.giveback = Append(e.giveback, g)
      /\ f.active = e.active /\ f.stalled = e.stalled /\ f.work = e.work
  <2> QED
    BY ZenonT(40) DEF EpTypes, Fields, Complete, Forget
<1>4. Append(e.giveback, g) \in Seq(Givebacks)
  BY <1>1 DEF EpTypes, Givebacks
<1> HIDE DEF f, g
<1>5. EpTypes(f)
  <2>1. f.state \in [Urbs -> UrbStates]
    <3>1. e.state \in [Urbs -> UrbStates] /\ "none" \in UrbStates
      BY DEF EpTypes, UrbStates
    <3>2. f.state = [e.state EXCEPT ![u] = "none"]
      BY <1>3
    <3> QED
      BY <3>1, <3>2, ExceptType
  <2>2. f.status \in [Urbs -> {"none", "ok", "fail"}]
    <3>1. e.status \in [Urbs -> {"none", "ok", "fail"}]
      BY DEF EpTypes
    <3>2. f.status = [e.status EXCEPT ![u] = "none"]
      BY <1>3
    <3> QED
      BY <3>1, <3>2, ExceptType
  <2>4. f.dir \in [Urbs -> {"in", "out", "none"}]
    <3>1. e.dir \in [Urbs -> {"in", "out", "none"}]
      BY DEF EpTypes
    <3>2. f.dir = [e.dir EXCEPT ![u] = "in"]
      BY <1>3
    <3> QED
      BY <3>1, <3>2, ExceptType
  <2>5. f.id \in [Urbs -> Nat]
    <3>1. e.id \in [Urbs -> Nat]
      BY DEF EpTypes
    <3>2. f.id = [e.id EXCEPT ![u] = 0]
      BY <1>3
    <3> QED
      BY <3>1, <3>2, ExceptType
  <2>3. /\ f.list \in Seq(Urbs) /\ f.evq \in {0, 1} /\ f.giveback \in Seq(Givebacks)
        /\ f.active \in BOOLEAN /\ f.stalled \in BOOLEAN /\ f.work \in Seq({"reset"})
    <3>1. /\ e.evq \in {0, 1} /\ e.active \in BOOLEAN /\ e.stalled \in BOOLEAN
          /\ e.work \in Seq({"reset"})
      BY DEF EpTypes
    <3>2. f.list \in Seq(Urbs) /\ f.giveback \in Seq(Givebacks)
      BY <1>1, <1>2, <1>3, <1>4
    <3> QED
      BY <1>3, <3>1, <3>2
  <2> QED
    BY <1>3, <2>1, <2>2, <2>3, <2>4, <2>5 DEF EpTypes
<1>6. \A v \in Urbs \ {u} : /\ f.state[v] = e.state[v] /\ f.status[v] = e.status[v]
                            /\ f.dir[v] = e.dir[v] /\ f.id[v] = e.id[v]
  BY <1>3 DEF EpTypes
<1>7. f.id[u] = 0 /\ f.status[u] = "none"
  BY <1>1, <1>3 DEF EpTypes
<1>8. f.list = Tail(e.list) /\ f.giveback = Append(e.giveback, g)
      /\ f.evq = e.evq /\ f.in = e.in /\ f.out = e.out
  BY <1>2, <1>3
<1>9. f.active = e.active /\ f.stalled = e.stalled /\ f.work = e.work
  BY <1>3
<1>10. Completes(e, f, status)
  <2> USE DEF u, g
  <2> QED
    BY <1>5, <1>6, <1>7, <1>8 DEF Completes
<1> QED
  BY <1>9, <1>10 DEF f, u

(* The rings have room, and transfers are asked for whole.                 *)
LEMMA RoomAndWhole ==
    ASSUME mode = "calm"
    PROVE  /\ ~Full("in") /\ ~Full("out")
           /\ \A e, u : ~Partly(e, u)
BY DEF Full, Partly

(* bce_vhci_urb_data_transfer_in of the first URB.                         *)
LEMMA TransferInFields ==
    ASSUME NEW e, EpTypes(e), e.list # <<>>, mode = "calm"
    PROVE  LET u == Head(e.list)
               f == TransferIn(e, u)
           IN  /\ Moves(e, f, "completion") /\ f.out = e.out
               /\ f.in = Append(e.in, [id |-> e.id[u], what |-> "in", dir |-> e.dir[u]])
BY HeadOfList, RoomAndWhole DEF EpTypes, Fields, TransferIn, Moves, OnlyFirst, Submit, UrbStates

(* bce_vhci_urb_send_out_data of the first URB, and the setup packet.      *)
LEMMA SendOutFields ==
    ASSUME NEW e, EpTypes(e), e.list # <<>>, mode = "calm", NEW what, NEW state \in UrbStates
    PROVE  LET u == Head(e.list)
               f == SendOut(e, u, what, state)
           IN  /\ Moves(e, f, state) /\ f.in = e.in
               /\ f.out = Append(e.out, [id |-> e.id[u], what |-> what, dir |-> e.dir[u]])
BY HeadOfList, RoomAndWhole DEF EpTypes, Fields, SendOut, Moves, OnlyFirst, Submit

(* A change of the state of the first URB that sends nothing.              *)
LEMMA StateFields ==
    ASSUME NEW e, EpTypes(e), e.list # <<>>, NEW state \in UrbStates
    PROVE  LET f == [e EXCEPT !.state[Head(e.list)] = state]
           IN  Moves(e, f, state) /\ f.in = e.in /\ f.out = e.out
BY HeadOfList DEF EpTypes, Fields, Moves, OnlyFirst

(* The functions that put these together.                                  *)
LEMMA DataStartFields ==
    ASSUME NEW e, EpTypes(e), e.list # <<>>, mode = "calm"
    PROVE  LET u == Head(e.list)
               f == DataStart(e, u)
           IN  /\ f.out = e.out
               /\ e.dir[u] = "in" =>
                     /\ Moves(e, f, "completion")
                     /\ f.in = Append(e.in, [id |-> e.id[u], what |-> "in", dir |-> e.dir[u]])
               /\ e.dir[u] = "out" => Moves(e, f, "transfer_request") /\ f.in = e.in
               /\ e.dir[u] = "none" => Moves(e, f, "complete") /\ f.in = e.in
<1> DEFINE u == Head(e.list)
<1>1. e.dir[u] \in {"in", "out", "none"}
  BY HeadOfList DEF EpTypes
<1>2. CASE e.dir[u] = "in"
  BY <1>2, TransferInFields DEF DataStart
<1>3. CASE e.dir[u] = "out"
  <2>1. "transfer_request" \in UrbStates
    BY DEF UrbStates
  <2> QED
    BY <1>3, <2>1, StateFields DEF DataStart
<1>4. CASE e.dir[u] = "none"
  <2>1. "complete" \in UrbStates
    BY DEF UrbStates
  <2> QED
    BY <1>4, <2>1, StateFields DEF DataStart
<1> QED
  BY <1>1, <1>2, <1>3, <1>4

(* bce_vhci_urb_control_check_status: a success ends an URB that is        *)
(* complete, a failure any that has begun, and asks for a reset.           *)
LEMMA CheckStatusFields ==
    ASSUME NEW e, EpTypes(e), e.list # <<>>
    PROVE  LET u == Head(e.list)
               f == CheckStatus(e, u)
           IN  /\ e.status[u] = "ok" /\ e.state[u] = "complete" =>
                     /\ Completes(e, f, "ok")
                     /\ f.active = e.active /\ f.stalled = e.stalled /\ f.work = e.work
               /\ /\ e.status[u] = "fail"
                  /\ e.state[u] \notin {"setup_request", "setup_completion"}
                  => Completes(e, f, "fail") /\ f.active = FALSE /\ f.stalled = TRUE
               /\ e.status[u] = "none" => f = e
               /\ e.state[u] \in {"setup_request", "setup_completion"} => f = e
<1> DEFINE u == Head(e.list)
           f == CheckStatus(e, u)
           s == [e EXCEPT !.active = FALSE, !.stalled = TRUE]
           c == Complete(s, u, "fail")
<1>1. CASE e.status[u] = "ok" /\ e.state[u] = "complete"
  <2>1. f = Complete(e, u, "ok")
    BY <1>1 DEF CheckStatus
  <2> QED
    BY <1>1, <2>1, CompleteFields
<1>2. CASE e.status[u] = "fail" /\ e.state[u] \notin {"setup_request", "setup_completion"}
  <2>1. f = IF c.list = <<>> THEN c ELSE RequestReset(c)
    BY <1>2 DEF CheckStatus
  <2>2. /\ EpTypes(s) /\ s.list = e.list /\ s.state = e.state /\ s.status = e.status
        /\ s.dir = e.dir /\ s.id = e.id /\ s.evq = e.evq /\ s.in = e.in /\ s.out = e.out
        /\ s.giveback = e.giveback /\ s.active = FALSE /\ s.stalled = TRUE
    BY DEF EpTypes, Fields
  <2> HIDE DEF s, f
  <2>3. Completes(s, c, "fail") /\ c.active = FALSE /\ c.stalled = TRUE
    BY <2>2, CompleteFields
  <2>4. Completes(e, c, "fail")
    BY <2>2, <2>3 DEF Completes
  <2> HIDE DEF c
  <2>5. ASSUME f = [c EXCEPT !.work = Append(@, "reset")]
        PROVE  Completes(e, f, "fail") /\ f.active = FALSE /\ f.stalled = TRUE
    <3>1. EpTypes(c)
      BY <2>4 DEF Completes
    <3>2. Append(c.work, "reset") \in Seq({"reset"})
      BY <3>1 DEF EpTypes
    <3>3. /\ EpTypes(f)
          /\ f.list = c.list /\ f.state = c.state /\ f.status = c.status
          /\ f.dir = c.dir /\ f.id = c.id /\ f.evq = c.evq /\ f.in = c.in /\ f.out = c.out
          /\ f.giveback = c.giveback /\ f.active = c.active /\ f.stalled = c.stalled
      BY <2>5, <3>1, <3>2 DEF EpTypes, Fields
    <3>4. Completes(e, f, "fail")
      BY <2>4, <3>3 DEF Completes
    <3> QED
      BY <2>3, <3>3, <3>4
  <2>6. Completes(e, f, "fail") /\ f.active = FALSE /\ f.stalled = TRUE
    BY <2>1, <2>3, <2>4, <2>5 DEF RequestReset
  <2> QED
    BY <1>2, <2>6 DEF f
<1>3. e.status[u] = "none" \/ e.state[u] \in {"setup_request", "setup_completion"} => f = e
  BY DEF CheckStatus
<1> QED
  BY <1>1, <1>2, <1>3

(* A data stage ends; the status may have been received before.            *)
LEMMA DataDoneFields ==
    ASSUME NEW e, EpTypes(e), e.list # <<>>, kind = "control", mode = "calm",
           e.state[Head(e.list)] = "completion"
    PROVE  LET u == Head(e.list)
               f == ControlCompletion(e, u)
           IN  /\ e.status[u] = "none" =>
                     Moves(e, f, "complete") /\ f.in = e.in /\ f.out = e.out
               /\ e.status[u] = "ok" =>
                     /\ Completes(e, f, "ok")
                     /\ f.active = e.active /\ f.stalled = e.stalled /\ f.work = e.work
<1> DEFINE u == Head(e.list)
           g == [e EXCEPT !.state[u] = "complete"]
<1>1. ControlCompletion(e, u) = CheckStatus(g, u)
  BY RoomAndWhole DEF ControlCompletion, DataCompletion
<1>2. Moves(e, g, "complete") /\ g.in = e.in /\ g.out = e.out
  BY StateFields DEF UrbStates
<1> HIDE DEF g
<1>3. /\ EpTypes(g) /\ g.list = e.list /\ Head(g.list) = u /\ g.list # <<>>
      /\ g.state[u] = "complete" /\ g.status[u] = e.status[u]
      /\ g.active = e.active /\ g.stalled = e.stalled /\ g.work = e.work
  BY <1>2 DEF Moves, OnlyFirst
<1>4. CASE e.status[u] = "none"
  BY <1>1, <1>2, <1>3, <1>4, CheckStatusFields
<1>5. CASE e.status[u] = "ok"
  <2> DEFINE f == CheckStatus(g, u)
  <2>1. /\ Completes(g, f, "ok")
        /\ f.active = g.active /\ f.stalled = g.stalled /\ f.work = g.work
    BY <1>3, <1>5, CheckStatusFields
  <2> HIDE DEF f
  <2>2. Completes(e, f, "ok")
    BY <1>2, <1>3, <2>1 DEF Completes, Moves, OnlyFirst
  <2> QED
    BY <1>1, <1>3, <1>5, <2>1, <2>2 DEF f
<1> QED
  BY <1>4, <1>5

(* bce_vhci_urb_transfer_request of the first URB: what it sends, and the  *)
(* state it leaves it in.                                                  *)
LEMMA TransferRequestFields ==
    ASSUME NEW e, EpTypes(e), e.list # <<>>, mode = "calm",
           kind = "control" => e.status[Head(e.list)] = "none"
    PROVE  LET u == Head(e.list)
               f == TransferRequest(e, u)
           IN  /\ e.state[u] = "setup_request" =>
                     /\ Moves(e, f, "setup_completion") /\ f.in = e.in
                     /\ f.out = Append(e.out, [id |-> e.id[u], what |-> "setup", dir |-> e.dir[u]])
               /\ e.state[u] # "setup_request" =>
                     /\ Moves(e, f, "completion") /\ f.in = e.in
                     /\ f.out = Append(e.out, [id |-> e.id[u], what |-> "out", dir |-> e.dir[u]])
<1> DEFINE u == Head(e.list)
<1>1. {"setup_completion", "completion"} \subseteq UrbStates
  BY DEF UrbStates
<1>2. CASE e.state[u] = "setup_request"
  BY <1>1, <1>2, SendOutFields DEF TransferRequest
<1>3. CASE e.state[u] # "setup_request"
  <2> DEFINE g == SendOut(e, u, "out", "completion")
  <2>1. /\ Moves(e, g, "completion") /\ g.in = e.in
        /\ g.out = Append(e.out, [id |-> e.id[u], what |-> "out", dir |-> e.dir[u]])
    BY <1>1, SendOutFields
  <2> HIDE DEF g
  <2>2. EpTypes(g) /\ g.list # <<>> /\ Head(g.list) = u /\ g.status[u] = e.status[u]
    BY <2>1 DEF Moves, OnlyFirst
  <2>3. kind = "control" => CheckStatus(g, u) = g
    <3>1. ASSUME g.status[Head(g.list)] = "none"
          PROVE  CheckStatus(g, Head(g.list)) = g
      BY <2>2, <3>1, CheckStatusFields
    <3> QED
      BY <2>2, <3>1
  <2>4. TransferRequest(e, u) = g
    BY <1>3, <2>3 DEF TransferRequest, g
  <2> QED
    BY <1>3, <2>1, <2>4
<1> QED
  BY <1>2, <1>3

(* There is at most one deferred request, so one turn at most.             *)
DeliverOne(e) == IF ~Deliverable(e) THEN e
                 ELSE [TransferRequest(e, Head(e.list)) EXCEPT !.evq = @ - 1]

(* bce_vhci_transfer_queue_deliver_pending goes round its loop once at     *)
(* most.                                                                   *)
LEMMA DeliverFields ==
    ASSUME NEW e, EpTypes(e)
    PROVE  Deliver(e) = DeliverOne(e)
<1> DEFINE Is(f) == f = [n \in 0..e.evq |-> IF n = 0 THEN e ELSE DeliverOne(f[n - 1])]
           g == [n \in 0..e.evq |-> IF n = 0 THEN e ELSE DeliverOne(e)]
<1>1. e.evq \in {0, 1}
  BY DEF EpTypes
<1>2. Is(g)
  <2>1. ASSUME NEW n \in 0..e.evq
        PROVE  g[n] = IF n = 0 THEN e ELSE DeliverOne(g[n - 1])
    <3>1. n = 0 \/ (n = 1 /\ 0 \in 0..e.evq)
      BY <1>1
    <3> QED
      BY <3>1
  <2> QED
    BY <2>1
<1>3. Deliver(e) = (CHOOSE f : Is(f))[e.evq]
  BY DEF Deliver, DeliverOne
<1>4. PICK f : f = (CHOOSE h : Is(h))
  OBVIOUS
<1>5. Is(f)
  <2> HIDE DEF Is, g
  <2> QED
    BY <1>2, <1>4
<1>6. f[e.evq] = IF e.evq = 0 THEN e ELSE DeliverOne(e)
  BY <1>1, <1>5
<1>7. e.evq = 0 => DeliverOne(e) = e
  BY DEF DeliverOne, Deliverable
<1> QED
  BY <1>3, <1>4, <1>6, <1>7

(* Induction, as a fact about sets.                                        *)
LEMMA SetInduction ==
    ASSUME NEW S \in SUBSET Nat, 0 \in S, \A n \in S : n + 1 \in S
    PROVE  S = Nat
<1> DEFINE R == OpToRel(<, Nat)
           T == Nat \ S
<1>1. \A x, y \in Nat : x < y => <<x, y>> \in R
  BY DEF OpToRel
<1>2. IsWellFoundedOn(R, Nat)
  BY NatLessThanWellFounded
<1>3. SUFFICES ASSUME T # {} PROVE FALSE
  OBVIOUS
<1> HIDE DEF R
<1>4. PICK x \in T : \A y \in T : ~(<<y, x>> \in R)
  <2>1. T \subseteq Nat
    OBVIOUS
  <2> HIDE DEF T
  <2> QED
    BY <1>2, <1>3, <2>1, WFMin
<1>5. x \in Nat \ {0} /\ x - 1 \in Nat /\ x - 1 < x /\ x - 1 + 1 = x
  OBVIOUS
<1>6. x - 1 \in T
  BY <1>5
<1> QED
  BY <1>1, <1>4, <1>5, <1>6

(* The URBs up to position n have been resumed, those of a control         *)
(* endpoint that wait for nothing of the device's.                         *)
ResumedTo(e, n, f) ==
    /\ EpTypes(f)
    /\ f.list = e.list /\ f.status = e.status /\ f.dir = e.dir /\ f.id = e.id
    /\ f.evq = e.evq /\ f.in = e.in /\ f.out = e.out /\ f.giveback = e.giveback
    /\ f.stalled = e.stalled /\ f.work = e.work /\ f.active = TRUE
    /\ \A i \in DOMAIN e.list :
           f.state[e.list[i]] = IF i <= n THEN "setup_request" ELSE e.state[e.list[i]]

(* One more URB of the list is resumed.                                    *)
LEMMA ResumedStep ==
    ASSUME NEW e, EpTypes(e), kind = "control",
           \A i, j \in DOMAIN e.list : e.list[i] = e.list[j] => i = j,
           \A i \in DOMAIN e.list : e.state[e.list[i]] \in {"setup_request", "paused"},
           NEW n \in Nat, n + 1 \in DOMAIN e.list, NEW f, ResumedTo(e, n, f)
    PROVE  ResumedTo(e, n + 1, UrbResume(f, e.list[n + 1]))
<1> DEFINE u == e.list[n + 1]
           g == UrbResume(f, u)
<1>1. u \in Urbs /\ f.state[u] \in {"setup_request", "paused"}
  <2>1. e.list[n + 1] \in Urbs
    BY DEF EpTypes
  <2>2. f.state[e.list[n + 1]] = IF n + 1 <= n THEN "setup_request" ELSE e.state[e.list[n + 1]]
    BY DEF ResumedTo
  <2> QED
    BY <2>1, <2>2
<1> HIDE DEF u
<1>2. g = IF f.state[u] = "paused" THEN [f EXCEPT !.state[u] = "setup_request"] ELSE f
  BY <1>1 DEF UrbResume, UrbInit
<1>3. CASE f.state[u] = "paused"
  <2>1. /\ EpTypes(g) /\ g.list = f.list /\ g.status = f.status /\ g.dir = f.dir /\ g.id = f.id
        /\ g.evq = f.evq /\ g.in = f.in /\ g.out = f.out /\ g.giveback = f.giveback
        /\ g.stalled = f.stalled /\ g.work = f.work /\ g.active = f.active
        /\ g.state = [f.state EXCEPT ![u] = "setup_request"]
    <3>1. g = [f EXCEPT !.state[u] = "setup_request"] /\ EpTypes(f)
      BY <1>2, <1>3 DEF ResumedTo
    <3> HIDE DEF g
    <3> QED
      BY <1>1, <3>1 DEF EpTypes, Fields, UrbStates
  <2> HIDE DEF g
  <2>2. ASSUME NEW i \in DOMAIN e.list
        PROVE  g.state[e.list[i]] = IF i <= n + 1 THEN "setup_request" ELSE e.state[e.list[i]]
    <3>1. e.list[i] \in Urbs /\ f.state \in [Urbs -> UrbStates] /\ i \in Nat
      BY DEF EpTypes, ResumedTo
    <3>2. e.list[i] = u <=> i = n + 1
      BY DEF u
    <3>3. f.state[e.list[i]] = IF i <= n THEN "setup_request" ELSE e.state[e.list[i]]
      BY DEF ResumedTo
    <3>4. g.state[e.list[i]] = IF e.list[i] = u THEN "setup_request" ELSE f.state[e.list[i]]
      BY <2>1, <3>1
    <3> QED
      BY <3>1, <3>2, <3>3, <3>4
  <2> QED
    BY <2>1, <2>2 DEF ResumedTo, u, g
<1>4. CASE f.state[u] # "paused"
  <2>1. g = f /\ f.state[u] = "setup_request"
    BY <1>1, <1>2, <1>4
  <2>2. ASSUME NEW i \in DOMAIN e.list
        PROVE  f.state[e.list[i]] = IF i <= n + 1 THEN "setup_request" ELSE e.state[e.list[i]]
    <3>1. i \in Nat
      BY DEF EpTypes
    <3>2. f.state[e.list[i]] = IF i <= n THEN "setup_request" ELSE e.state[e.list[i]]
      BY DEF ResumedTo
    <3>3. i = n + 1 => f.state[e.list[i]] = "setup_request"
      BY <2>1 DEF u
    <3> QED
      BY <3>1, <3>2, <3>3
  <2> QED
    BY <2>1, <2>2 DEF ResumedTo, u, g
<1> QED
  BY <1>3, <1>4

(* The function that Activate is defined by, on the first n URBs.          *)
ResumesTo(e, n, f) ==
    /\ DOMAIN f = 0..n
    /\ \A i \in 0..n : f[i] = IF i = 0 THEN [e EXCEPT !.active = TRUE]
                              ELSE UrbResume(f[i - 1], e.list[i])

ResumesExists(e, n) == \E f : ResumesTo(e, n, f)

(* The list of the URBs resumed so far can be continued by one.            *)
LEMMA ResumesStep ==
    ASSUME NEW n \in Nat, NEW e, ResumesExists(e, n)
    PROVE  ResumesExists(e, n + 1)
<1>1. PICK f : ResumesTo(e, n, f)
  BY DEF ResumesExists
<1> DEFINE g == [i \in 0..(n + 1) |-> IF i = n + 1 THEN UrbResume(f[n], e.list[n + 1]) ELSE f[i]]
<1>2. ASSUME NEW i \in 0..(n + 1)
      PROVE  g[i] = IF i = 0 THEN [e EXCEPT !.active = TRUE] ELSE UrbResume(g[i - 1], e.list[i])
  <2>1. CASE i = n + 1
    BY <2>1
  <2>2. CASE i # n + 1
    <3>1. i \in 0..n /\ i - 1 # n + 1 /\ (i # 0 => i - 1 \in 0..n)
      BY <2>2
    <3> QED
      BY <1>1, <2>2, <3>1 DEF ResumesTo
  <2> QED
    BY <2>1, <2>2
<1>3. ResumesTo(e, n + 1, g)
  BY <1>2 DEF ResumesTo
<1> QED
  BY <1>3 DEF ResumesExists

(* Resuming the list is resuming its URBs one after the other.             *)
LEMMA ActivateDef ==
    ASSUME NEW e, NEW N \in Nat, Len(e.list) = N
    PROVE  \E f : ResumesTo(e, N, f) /\ Activate(e) = Deliver(f[N])
<1> DEFINE P == {n \in Nat : ResumesExists(e, n)}
<1>1. 0 \in P
  <2>1. ResumesTo(e, 0, [i \in 0..0 |-> [e EXCEPT !.active = TRUE]])
    BY DEF ResumesTo
  <2> QED
    BY <2>1 DEF ResumesExists
<1>2. \A n \in P : n + 1 \in P
  BY ResumesStep
<1>3. P = Nat
  <2>1. P \in SUBSET Nat
    OBVIOUS
  <2> HIDE DEF P
  <2> QED
    BY <1>1, <1>2, <2>1, SetInduction
<1>4. ResumesExists(e, N)
  <2>1. N \in P
    <3> HIDE DEF P
    <3> QED
      BY <1>3
  <2> QED
    BY <2>1
<1> DEFINE Is(f) == f = [i \in 0..N |-> IF i = 0 THEN [e EXCEPT !.active = TRUE]
                                        ELSE UrbResume(f[i - 1], e.list[i])]
<1>5. PICK g : ResumesTo(e, N, g)
  BY <1>4 DEF ResumesExists
<1> DEFINE h == [i \in 0..N |-> g[i]]
<1>6. Is(h)
  <2>1. ASSUME NEW i \in 0..N
        PROVE  h[i] = IF i = 0 THEN [e EXCEPT !.active = TRUE] ELSE UrbResume(h[i - 1], e.list[i])
    BY <1>5 DEF ResumesTo
  <2> QED
    BY <2>1
<1>7. PICK c : c = (CHOOSE f : Is(f))
  OBVIOUS
<1>8. Activate(e) = Deliver(c[N])
  BY <1>7 DEF Activate
<1>9. Is(c)
  <2> HIDE DEF Is, h
  <2> QED
    BY <1>6, <1>7
<1>10. ResumesTo(e, N, c)
  BY <1>9 DEF ResumesTo
<1> QED
  BY <1>8, <1>10

(* The URBs of a control endpoint all wait for their setup packet again.   *)
LEMMA ActivateFields ==
    ASSUME NEW e, EpTypes(e), kind = "control", e.evq = 0,
           \A i, j \in DOMAIN e.list : e.list[i] = e.list[j] => i = j,
           \A i \in DOMAIN e.list : e.state[e.list[i]] \in {"setup_request", "paused"}
    PROVE  ResumedTo(e, Len(e.list), Activate(e))
<1> DEFINE N == Len(e.list)
<1>1. N \in Nat /\ DOMAIN e.list = 1..N
  BY DEF EpTypes
<1>2. PICK f : ResumesTo(e, N, f) /\ Activate(e) = Deliver(f[N])
  BY <1>1, ActivateDef
<1> DEFINE P == {n \in Nat : n <= N => ResumedTo(e, n, f[n])}
<1>3. 0 \in P
  <2>1. f[0] = [e EXCEPT !.active = TRUE]
    <3>1. 0 \in 0..N
      BY <1>1
    <3> QED
      BY <1>2, <3>1 DEF ResumesTo
  <2>2. /\ EpTypes(f[0]) /\ f[0].list = e.list /\ f[0].status = e.status /\ f[0].dir = e.dir
        /\ f[0].id = e.id /\ f[0].evq = e.evq /\ f[0].in = e.in /\ f[0].out = e.out
        /\ f[0].giveback = e.giveback /\ f[0].stalled = e.stalled /\ f[0].work = e.work
        /\ f[0].active = TRUE /\ f[0].state = e.state
    BY <2>1 DEF EpTypes, Fields
  <2>3. \A i \in DOMAIN e.list : ~(i <= 0)
    BY <1>1
  <2> QED
    BY <2>2, <2>3 DEF ResumedTo
<1>4. ASSUME NEW n \in P
      PROVE  n + 1 \in P
  <2> SUFFICES ASSUME n + 1 <= N
               PROVE  ResumedTo(e, n + 1, f[n + 1])
    OBVIOUS
  <2>1. n \in Nat /\ n <= N /\ n + 1 \in 0..N /\ n + 1 # 0 /\ n + 1 \in 1..N /\ n + 1 - 1 = n
    BY <1>1
  <2>2. f[n + 1] = UrbResume(f[n], e.list[n + 1])
    BY <1>2, <2>1 DEF ResumesTo
  <2>3. ResumedTo(e, n, f[n])
    BY <2>1
  <2> QED
    BY <1>1, <2>1, <2>2, <2>3, ResumedStep
<1>5. P = Nat
  <2>1. P \in SUBSET Nat
    OBVIOUS
  <2> HIDE DEF P
  <2> QED
    BY <1>3, <1>4, <2>1, SetInduction
<1>6. ResumedTo(e, N, f[N])
  <2>1. N \in P
    <3> HIDE DEF P
    <3> QED
      BY <1>1, <1>5
  <2> QED
    BY <1>1, <2>1
<1>7. Deliver(f[N]) = f[N]
  BY <1>6, DeliverFields DEF ResumedTo, DeliverOne, Deliverable
<1> QED
  BY <1>2, <1>6, <1>7
-----------------------------------------------------------------------------
(***************************************************************************)
(* What a step does to the first URB and to the others                     *)
(***************************************************************************)

(* What the proofs need of the first entry and the rest of a sequence.     *)
LEMMA ListFacts ==
    ASSUME NEW S, NEW s \in Seq(S)
    PROVE  /\ Len(s) \in Nat /\ DOMAIN s = 1..Len(s)
           /\ \A i \in 1..Len(s) : s[i] \in S
           /\ s # <<>> => /\ Len(s) >= 1 /\ Head(s) = s[1]
                          /\ Tail(s) \in Seq(S) /\ Len(Tail(s)) = Len(s) - 1
                          /\ \A i \in 1..(Len(s) - 1) : Tail(s)[i] = s[i + 1]
OBVIOUS

(* What they need of a sequence with one more entry.                       *)
LEMMA AppendFacts ==
    ASSUME NEW S, NEW s \in Seq(S), NEW x \in S
    PROVE  /\ Append(s, x) \in Seq(S) /\ Append(s, x) # <<>>
           /\ Len(Append(s, x)) = Len(s) + 1 /\ Append(s, x)[Len(s) + 1] = x
           /\ \A i \in 1..Len(s) : Append(s, x)[i] = s[i]
OBVIOUS

(* The list stays, and all of its URBs but the first.                      *)
LEMMA OthersStay ==
    ASSUME NEW e, NEW f, EpTypes(e), EpTypes(f), Linked(e), f.list = e.list, f.id = e.id,
           \A u \in Urbs : e.list = <<>> \/ u # Head(e.list) =>
                f.state[u] = e.state[u] /\ f.status[u] = e.status[u]
    PROVE  /\ Linked(f) \/ e.list = <<>> \/ e.id[Head(e.list)] = 0
           /\ \A S : Rest(e, S) => Rest(f, S)
<1>1. CASE e.list = <<>>
  BY <1>1 DEF EpTypes, Rest
<1>2. CASE e.list # <<>>
  <2>1. Head(e.list) = e.list[1] /\ Len(e.list) \in Nat /\ DOMAIN e.list = 1..Len(e.list)
        /\ e.list[1] \in Urbs /\ 1 \in DOMAIN e.list
    BY <1>2 DEF EpTypes
  <2>2. ASSUME NEW i \in 2..Len(e.list)
        PROVE  e.list[i] \in Urbs /\ e.list[i] # Head(e.list)
    <3>1. i \in DOMAIN e.list /\ i # 1
      BY <2>1
    <3>2. e.list[i] # e.list[1]
      BY <2>1, <3>1 DEF Linked
    <3>3. e.list[i] \in Urbs
      BY <3>1 DEF EpTypes
    <3> QED
      BY <2>1, <3>2, <3>3
  <2>3. \A S : Rest(e, S) => Rest(f, S)
    BY <1>2, <2>2 DEF Rest
  <2>4. Linked(f)
    <3>1. e.id[Head(e.list)] # 0
      BY <2>1 DEF Linked
    <3> QED
      BY <1>2, <3>1 DEF Linked
  <2> QED
    BY <2>3, <2>4
<1> QED
  BY <1>1, <1>2

(* The first URB of a well-formed list, and the types of its fields.       *)
LEMMA HeadLinked ==
    ASSUME NEW e, EpTypes(e), Linked(e), e.list # <<>>
    PROVE  Head(e.list) \in Urbs /\ e.id[Head(e.list)] # 0 /\ e.id[Head(e.list)] \in Nat
           /\ e.state[Head(e.list)] \in UrbStates
           /\ e.status[Head(e.list)] \in {"none", "ok", "fail"}
           /\ e.dir[Head(e.list)] \in {"in", "out", "none"}
<1>1. Head(e.list) = e.list[1] /\ 1 \in DOMAIN e.list /\ e.list[1] \in Urbs
  BY DEF EpTypes
<1> QED
  BY <1>1 DEF EpTypes, Linked

(* A change of the state of the first URB leaves the others alone.         *)
LEMMA MovesOthers ==
    ASSUME NEW e, NEW f, NEW state, EpTypes(e), Linked(e), e.list # <<>>, Moves(e, f, state)
    PROVE  Linked(f) /\ \A S : Rest(e, S) => Rest(f, S)
BY HeadLinked, OthersStay DEF Moves, OnlyFirst

(* The next URB becomes the first.                                         *)
LEMMA CompletesOthers ==
    ASSUME NEW e, NEW f, NEW status, EpTypes(e), Linked(e), e.list # <<>>,
           Completes(e, f, status)
    PROVE  /\ Linked(f)
           /\ \A S : Rest(e, S) =>
                 /\ Rest(f, S)
                 /\ StateOf(f) = "empty" \/ (StateOf(f) \in S /\ f.status[Head(f.list)] = "none")
<1> DEFINE u == Head(e.list)
           N == Len(e.list)
<1>1. /\ u = e.list[1] /\ N \in Nat /\ N >= 1 /\ DOMAIN e.list = 1..N
      /\ u \in Urbs /\ Len(Tail(e.list)) = N - 1
      /\ \A i \in 1..N : e.list[i] \in Urbs
      /\ \A i \in 1..(N - 1) : Tail(e.list)[i] = e.list[i + 1]
  <2>1. e.list \in Seq(Urbs)
    BY DEF EpTypes
  <2> QED
    BY <2>1, ListFacts
<1>2. /\ f.list = Tail(e.list) /\ Len(f.list) = N - 1 /\ f.list \in Seq(Urbs)
      /\ DOMAIN f.list = 1..(N - 1)
  <2>1. f.list = Tail(e.list) /\ f.list \in Seq(Urbs)
    BY DEF Completes, EpTypes
  <2> QED
    BY <1>1, <2>1, ListFacts
<1>3. ASSUME NEW i \in 1..(N - 1)
      PROVE  /\ i + 1 \in 1..N /\ f.list[i] = e.list[i + 1] /\ f.list[i] \in Urbs \ {u}
             /\ f.state[f.list[i]] = e.state[e.list[i + 1]]
             /\ f.status[f.list[i]] = e.status[e.list[i + 1]]
             /\ f.id[f.list[i]] = e.id[e.list[i + 1]]
  <2>1. i + 1 \in 1..N /\ i + 1 # 1 /\ 1 \in 1..N
    BY <1>1
  <2>2. f.list[i] = e.list[i + 1]
    BY <1>1, <1>2
  <2>3. f.list[i] \in Urbs \ {u}
    BY <1>1, <2>1, <2>2 DEF Linked
  <2> QED
    BY <2>1, <2>2, <2>3 DEF Completes
<1>4. Linked(f)
  <2>1. \A i, j \in 1..(N - 1) : f.list[i] = f.list[j] => i = j
    <3> SUFFICES ASSUME NEW i \in 1..(N - 1), NEW j \in 1..(N - 1), f.list[i] = f.list[j]
                 PROVE  i = j
      OBVIOUS
    <3>1. i + 1 \in DOMAIN e.list /\ j + 1 \in DOMAIN e.list /\ e.list[i + 1] = e.list[j + 1]
      BY <1>1, <1>3
    <3>2. i + 1 = j + 1
      BY <3>1 DEF Linked
    <3> QED
      BY <1>1, <3>2
  <2>2. \A i \in 1..(N - 1) : f.id[f.list[i]] # 0
    BY <1>1, <1>3 DEF Linked
  <2>3. \A v \in Urbs : f.id[v] = 0 => f.status[v] = "none"
    BY DEF Linked, Completes
  <2> QED
    BY <1>2, <2>1, <2>2, <2>3 DEF Linked
<1>5. ASSUME NEW S, Rest(e, S)
      PROVE  /\ Rest(f, S)
             /\ StateOf(f) = "empty" \/ (StateOf(f) \in S /\ f.status[Head(f.list)] = "none")
  <2>1. \A i \in 1..(N - 1) : f.state[f.list[i]] \in S /\ f.status[f.list[i]] = "none"
    <3> SUFFICES ASSUME NEW i \in 1..(N - 1)
                 PROVE  f.state[f.list[i]] \in S /\ f.status[f.list[i]] = "none"
      OBVIOUS
    <3>1. i + 1 \in 2..N
      BY <1>1
    <3> QED
      BY <1>3, <1>5, <3>1 DEF Rest
  <2>2. Rest(f, S)
    BY <1>1, <1>2, <2>1 DEF Rest
  <2>3. f.list # <<>> => Head(f.list) = f.list[1] /\ 1 \in 1..(N - 1)
    BY <1>2
  <2> QED
    BY <2>1, <2>2, <2>3 DEF StateOf
<1> QED
  BY <1>4, <1>5

(* An URB is linked behind the others.                                     *)
Links(e, f, u, dir, id, state) ==
    /\ EpTypes(f)
    /\ f.list = Append(e.list, u)
    /\ \A v \in Urbs \ {u} : f.state[v] = e.state[v] /\ f.dir[v] = e.dir[v] /\ f.id[v] = e.id[v]
    /\ f.state[u] = state /\ f.dir[u] = dir /\ f.id[u] = id
    /\ f.status = e.status /\ f.evq = e.evq /\ f.out = e.out /\ f.giveback = e.giveback
    /\ f.active = e.active /\ f.stalled = e.stalled

(* So does a new URB at the end; it is the first if there was none.        *)
LEMMA LinksOthers ==
    ASSUME NEW e, NEW f, EpTypes(e), Linked(e), NEW u \in Urbs, e.id[u] = 0,
           NEW dir, NEW id \in Nat \ {0}, NEW state, Links(e, f, u, dir, id, state)
    PROVE  /\ Linked(f) /\ f.list # <<>>
           /\ e.list = <<>> =>
                 /\ Head(f.list) = u /\ StateOf(f) = state /\ f.status[Head(f.list)] = "none"
                 /\ \A S : Rest(f, S)
           /\ e.list # <<>> =>
                 /\ Head(f.list) = Head(e.list) /\ StateOf(f) = StateOf(e)
                 /\ f.status[Head(f.list)] = e.status[Head(e.list)]
                 /\ f.dir[Head(f.list)] = e.dir[Head(e.list)]
                 /\ f.id[Head(f.list)] = e.id[Head(e.list)]
                 /\ \A S : Rest(e, S) /\ state \in S => Rest(f, S)
<1> DEFINE N == Len(e.list)
<1>1. /\ N \in Nat /\ DOMAIN e.list = 1..N /\ Len(f.list) = N + 1 /\ DOMAIN f.list = 1..(N + 1)
      /\ f.list \in Seq(Urbs) /\ f.list[N + 1] = u
      /\ \A i \in 1..N : f.list[i] = e.list[i] /\ e.list[i] \in Urbs
  <2>1. e.list \in Seq(Urbs) /\ f.list = Append(e.list, u)
    BY DEF EpTypes, Links
  <2>2. f.list \in Seq(Urbs) /\ Len(f.list) = N + 1
    BY <2>1, AppendFacts
  <2> QED
    BY <2>1, <2>2, ListFacts, AppendFacts
<1>2. \A i \in 1..N : e.list[i] # u
  BY <1>1 DEF Linked
<1>3. \A i \in 1..N : /\ f.state[f.list[i]] = e.state[e.list[i]]
                      /\ f.status[f.list[i]] = e.status[e.list[i]]
                      /\ f.dir[f.list[i]] = e.dir[e.list[i]]
                      /\ f.id[f.list[i]] = e.id[e.list[i]]
  BY <1>1, <1>2 DEF Links
<1>4. e.status[u] = "none" /\ f.status[u] = "none"
  BY DEF Linked, Links
<1>5. ASSUME NEW i \in 1..(N + 1)
      PROVE  i \in 1..N \/ i = N + 1
  BY <1>1
<1>6. Linked(f)
  <2>1. \A i, j \in 1..(N + 1) : f.list[i] = f.list[j] => i = j
    <3> SUFFICES ASSUME NEW i \in 1..(N + 1), NEW j \in 1..(N + 1), f.list[i] = f.list[j]
                 PROVE  i = j
      OBVIOUS
    <3>1. CASE i \in 1..N /\ j \in 1..N
      BY <1>1, <3>1 DEF Linked
    <3>2. CASE i = N + 1 \/ j = N + 1
      BY <1>1, <1>2, <1>5, <3>2
    <3> QED
      BY <1>5, <3>1, <3>2
  <2>2. \A i \in 1..(N + 1) : f.id[f.list[i]] # 0
    BY <1>1, <1>3, <1>5 DEF Linked, Links
  <2>3. \A v \in Urbs : f.id[v] = 0 => f.status[v] = "none"
    BY DEF Linked, Links
  <2> QED
    BY <1>1, <2>1, <2>2, <2>3 DEF Linked
<1>7. f.list # <<>> /\ Head(f.list) = f.list[1]
  BY <1>1
<1>8. CASE e.list = <<>>
  <2>1. N = 0 /\ f.list[1] = u
    BY <1>1, <1>8
  <2>2. \A S : Rest(f, S)
    BY <1>1, <2>1 DEF Rest
  <2> QED
    BY <1>4, <1>6, <1>7, <1>8, <2>1, <2>2 DEF StateOf, Links
<1>9. CASE e.list # <<>>
  <2>1. 1 \in 1..N /\ Head(e.list) = e.list[1] /\ Head(f.list) = Head(e.list)
    <3>1. e.list \in Seq(Urbs)
      BY DEF EpTypes
    <3>2. N >= 1 /\ Head(e.list) = e.list[1]
      BY <1>9, <3>1, ListFacts
    <3> QED
      BY <1>1, <1>7, <3>2
  <2>2. ASSUME NEW S, Rest(e, S), state \in S
        PROVE  Rest(f, S)
    <3> SUFFICES ASSUME NEW i \in 2..(N + 1)
                 PROVE  f.state[f.list[i]] \in S /\ f.status[f.list[i]] = "none"
      BY <1>1 DEF Rest
    <3>1. CASE i \in 1..N
      BY <1>1, <1>3, <2>2, <3>1 DEF Rest
    <3>2. CASE i = N + 1
      BY <1>1, <1>4, <2>2, <3>2 DEF Links
    <3> QED
      BY <1>1, <3>1, <3>2
  <2> QED
    BY <1>3, <1>6, <1>7, <1>9, <2>1, <2>2 DEF StateOf
<1> QED
  BY <1>8, <1>9
-----------------------------------------------------------------------------
(***************************************************************************)
(* Steps that leave the URBs alone                                         *)
(***************************************************************************)
ListSame(e, f) == /\ f.list = e.list /\ f.state = e.state /\ f.status = e.status
                  /\ f.dir = e.dir /\ f.id = e.id
UrbsSame(e, f) == ListSame(e, f) /\ f.giveback = e.giveback

Common == CalmTypes /\ Linked(ep) /\ Successful

(* What the invariant says of the first URB, its submissions and its       *)
(* completions, of the device and of the events.                           *)
urbView == <<Busy, Status, Dir, Id>>
lineView == <<In, Out, DoneIn, DoneOut>>
devView == <<Stage, Halted, dev.on, dev.id, dev.dir, dev.served>>

(* While nothing in the list changes, the invariant sees the same URBs.    *)
LEMMA ListSameView ==
    ASSUME ListSame(ep, ep')
    PROVE  /\ UNCHANGED urbView
           /\ Linked(ep) => Linked(ep')
           /\ \A S : Rest(ep, S) => Rest(ep', S)
<1>1. UNCHANGED urbView
  BY DEF ListSame, urbView, Busy, StateOf, Status, Dir, Id
<1>2. Linked(ep) => Linked(ep')
  BY DEF ListSame, Linked
<1>3. \A S : Rest(ep, S) => Rest(ep', S)
  BY DEF ListSame, Rest
<1> QED
  BY <1>1, <1>2, <1>3

(* A step that changes none of the URBs keeps what holds of every kind.    *)
LEMMA CommonSame ==
    ASSUME Common, UrbsSame(ep, ep'), EpTypes(ep'), UNCHANGED setup,
           comps' = [sq \in {"in", "out"} |-> comps'[sq]],
           dev' = [f \in DevFields |-> dev'[f]], dev'.on \in BOOLEAN, dev'.halted \in BOOLEAN,
           dev.served \subseteq dev'.served,
           irq' \in {"idle", "in", "out", "giveback"}, submits' = submits
    PROVE  Common'
<1>1. CalmTypes'
  BY DEF Common, CalmTypes, setup
<1>2. Linked(ep)'
  BY ListSameView DEF Common, UrbsSame
<1>3. Successful'
  BY DEF Common, Successful, UrbsSame
<1> QED
  BY <1>1, <1>2, <1>3 DEF Common

(* The program of a reset.                                                 *)
LEMMA StepNames ==
    /\ ResetSteps[1] = "check" /\ ResetSteps[2] = "drop" /\ ResetSteps[3] = "flush in"
    /\ ResetSteps[4] = "flushed in" /\ ResetSteps[5] = "flush out"
    /\ ResetSteps[6] = "flushed out" /\ ResetSteps[7] = "reset" /\ ResetSteps[8] = "unstall"
    /\ ResetSteps[9] = "set active" /\ ResetSteps[10] = "activate"
BY DEF ResetSteps

(* The first of the last k steps of a reset, and what is left after it.    *)
LEMMA LastStepsFacts ==
    ASSUME NEW k \in 1..10
    PROVE  /\ LastSteps(k) # <<>> /\ Head(LastSteps(k)) = ResetSteps[11 - k]
           /\ Tail(LastSteps(k)) = LastSteps(k - 1)
<1> DEFINE s == LastSteps(k)
<1>1. s = [i \in 1..k |-> ResetSteps[10 - k + i]]
  BY DEF LastSteps
<1>2. \A n \in 0..10 : LastSteps(n) \in Seq({ResetSteps[j] : j \in 1..10}) /\ Len(LastSteps(n)) = n
  <2> SUFFICES ASSUME NEW n \in 0..10
               PROVE  LastSteps(n) \in Seq({ResetSteps[j] : j \in 1..10}) /\ Len(LastSteps(n)) = n
    OBVIOUS
  <2>1. \A i \in 1..n : ResetSteps[10 - n + i] \in {ResetSteps[j] : j \in 1..10}
    OBVIOUS
  <2> QED
    BY <2>1, IsASeq DEF LastSteps
<1>3. s \in Seq({ResetSteps[j] : j \in 1..10}) /\ Len(s) = k /\ s # <<>>
  <2>1. k \in 0..10 /\ k # 0
    OBVIOUS
  <2>2. s \in Seq({ResetSteps[j] : j \in 1..10}) /\ Len(s) = k
    BY <1>2, <2>1
  <2> QED
    BY <2>1, <2>2
<1> HIDE DEF s
<1>4. Head(s) = ResetSteps[11 - k]
  <2>1. Head(s) = s[1] /\ 1 \in 1..k /\ 10 - k + 1 = 11 - k
    BY <1>3
  <2> QED
    BY <1>1, <2>1
<1>5. Tail(s) = LastSteps(k - 1)
  <2>1. /\ Tail(s) \in Seq({ResetSteps[j] : j \in 1..10}) /\ Len(Tail(s)) = k - 1
        /\ \A i \in 1..(k - 1) : Tail(s)[i] = s[i + 1]
    BY <1>3, ListFacts
  <2>2. /\ LastSteps(k - 1) \in Seq({ResetSteps[j] : j \in 1..10})
        /\ Len(LastSteps(k - 1)) = k - 1
    <3>1. k - 1 \in 0..10
      OBVIOUS
    <3> QED
      BY <1>2, <3>1
  <2>3. ASSUME NEW i \in 1..(k - 1)
        PROVE  Tail(s)[i] = LastSteps(k - 1)[i]
    <3>1. i + 1 \in 1..k /\ 10 - k + (i + 1) = 10 - (k - 1) + i
      OBVIOUS
    <3> QED
      BY <1>1, <2>1, <3>1 DEF LastSteps
  <2> QED
    BY <2>1, <2>2, <2>3, SeqEqual
<1> QED
  BY <1>3, <1>4, <1>5 DEF s

(* No step, and all of them.                                               *)
LEMMA LastStepsEnds ==
    LastSteps(0) = <<>> /\ LastSteps(10) = ResetSteps
<1>1. LastSteps(0) = <<>>
  BY DEF LastSteps
<1>2. LastSteps(10) = ResetSteps
  <2>1. \A i \in 1..10 : 10 - 10 + i = i
    OBVIOUS
  <2>2. ResetSteps = [i \in 1..10 |-> ResetSteps[i]]
    BY DEF ResetSteps
  <2> QED
    BY <2>1, <2>2 DEF LastSteps
<1> QED
  BY <1>1, <1>2

(* Its beginning, to which two steps are added.                            *)
Steps == {ResetSteps[i] : i \in 1..10}
FirstSteps(n) == [i \in 1..n |-> ResetSteps[i]]

Cat(s, t) == s \o t

(* Putting sequences end to end is associative.                            *)
LEMMA CatAssociative ==
    ASSUME NEW S, NEW s \in Seq(S), NEW t \in Seq(S), NEW u \in Seq(S)
    PROVE  Cat(s, Cat(t, u)) = Cat(Cat(s, t), u)
BY ConcatAssociative DEF Cat

(* The first n steps of a reset are a sequence of n steps.                 *)
LEMMA FirstStepsSeq ==
    ASSUME NEW n \in Nat, n <= 10
    PROVE  FirstSteps(n) \in Seq(Steps) /\ Len(FirstSteps(n)) = n
<1>1. \A i \in 1..n : ResetSteps[i] \in Steps
  BY DEF Steps
<1> QED
  BY <1>1, IsASeq DEF FirstSteps

(* A pair is a sequence of two.                                            *)
LEMMA PairSeq ==
    ASSUME NEW S, NEW x \in S, NEW y \in S
    PROVE  <<x, y>> \in Seq(S) /\ Len(<<x, y>>) = 2 /\ <<x, y>>[1] = x /\ <<x, y>>[2] = y
OBVIOUS

(* The first n steps and the next two are the first n + 2.                 *)
LEMMA FirstStepsPair ==
    ASSUME NEW n \in Nat, NEW k \in Nat, NEW m \in Nat, k = n + 1, m = n + 2, m <= 10,
           NEW p \in Seq(Steps), Len(p) = 2, p[1] = ResetSteps[k], p[2] = ResetSteps[m]
    PROVE  Cat(FirstSteps(n), p) = FirstSteps(m)
<1> DEFINE s == FirstSteps(n)
           t == FirstSteps(m)
           c == s \o p
<1>1. s \in Seq(Steps) /\ Len(s) = n
  <2>1. n <= 10
    OBVIOUS
  <2> QED
    BY <2>1, FirstStepsSeq
<1>2. t \in Seq(Steps) /\ Len(t) = n + 2
  BY FirstStepsSeq
<1>3. \A i \in 1..n : s[i] = ResetSteps[i]
  BY DEF FirstSteps
<1>4. \A i \in 1..(n + 2) : t[i] = ResetSteps[i]
  BY DEF FirstSteps
<1> HIDE DEF s, t
<1>5. /\ c \in Seq(Steps) /\ Len(c) = Len(s) + Len(p)
      /\ \A i \in 1..(Len(s) + Len(p)) : c[i] = IF i <= Len(s) THEN s[i] ELSE p[i - Len(s)]
  BY <1>1, ConcatProperties
<1> HIDE DEF c
<1>6. ASSUME NEW i \in 1..(n + 2)
      PROVE  c[i] = t[i]
  <2>1. c[i] = IF i <= n THEN s[i] ELSE p[i - n]
    BY <1>1, <1>5
  <2>2. CASE i <= n
    BY <1>3, <1>4, <2>1, <2>2
  <2>3. CASE i = n + 1
    <3>1. i - n = 1 /\ ~(i <= n)
      BY <2>3
    <3> QED
      BY <1>4, <2>1, <2>3, <3>1
  <2>4. CASE i = n + 2
    <3>1. i - n = 2 /\ ~(i <= n)
      BY <2>4
    <3> QED
      BY <1>4, <2>1, <2>4, <3>1
  <2>5. i <= n \/ i = n + 1 \/ i = n + 2
    OBVIOUS
  <2> QED
    BY <2>2, <2>3, <2>4, <2>5
<1>7. Len(c) = n + 2
  BY <1>1, <1>5
<1> QED
  BY <1>2, <1>5, <1>6, <1>7, SeqEqual DEF c, s, t, Cat

(* On a control endpoint bce_vhci_transfer_queue_reset_w flushes both      *)
(* queues: these are its ten steps.                                        *)
LEMMA ResetProgram ==
    ASSUME kind = "control"
    PROVE  Program("reset") = ResetSteps
<1> DEFINE a == <<"check", "drop">>
           b == <<"flush in", "flushed in">>
           c == <<"flush out", "flushed out">>
           d == <<"reset", "unstall">>
           e == <<"set active", "activate">>
<1>1. Reset = ((a \o (b \o c)) \o d) \o e
  BY DEF Reset, Resume, Flush, FlushOne, FlushStep, FlushedStep
<1>2. {"check", "drop", "flush in", "flushed in", "flush out", "flushed out",
       "reset", "unstall", "set active", "activate"} \subseteq Steps
  <2>1. /\ ResetSteps[1] \in Steps /\ ResetSteps[2] \in Steps /\ ResetSteps[3] \in Steps
        /\ ResetSteps[4] \in Steps /\ ResetSteps[5] \in Steps /\ ResetSteps[6] \in Steps
        /\ ResetSteps[7] \in Steps /\ ResetSteps[8] \in Steps /\ ResetSteps[9] \in Steps
        /\ ResetSteps[10] \in Steps
    BY DEF Steps
  <2> QED
    BY <2>1, StepNames
<1>3. /\ a \in Seq(Steps) /\ Len(a) = 2 /\ a[1] = ResetSteps[1] /\ a[2] = ResetSteps[2]
  BY <1>2, StepNames, PairSeq
<1>4. /\ b \in Seq(Steps) /\ Len(b) = 2 /\ b[1] = ResetSteps[3] /\ b[2] = ResetSteps[4]
  BY <1>2, StepNames, PairSeq
<1>5. /\ c \in Seq(Steps) /\ Len(c) = 2 /\ c[1] = ResetSteps[5] /\ c[2] = ResetSteps[6]
  BY <1>2, StepNames, PairSeq
<1>6. /\ d \in Seq(Steps) /\ Len(d) = 2 /\ d[1] = ResetSteps[7] /\ d[2] = ResetSteps[8]
  BY <1>2, StepNames, PairSeq
<1>7. /\ e \in Seq(Steps) /\ Len(e) = 2 /\ e[1] = ResetSteps[9] /\ e[2] = ResetSteps[10]
  BY <1>2, StepNames, PairSeq
<1>8. Reset = Cat(Cat(Cat(a, Cat(b, c)), d), e)
  BY <1>1 DEF Cat
<1> HIDE DEF a, b, c, d, e
<1>9. Cat(a, Cat(b, c)) = Cat(Cat(a, b), c)
  BY <1>3, <1>4, <1>5, CatAssociative
<1>10. a = FirstSteps(2)
  <2>1. FirstSteps(0) = <<>>
    BY DEF FirstSteps
  <2>2. Cat(<<>>, a) = a
    BY <1>3, ConcatEmptySeq DEF Cat
  <2>3. Cat(FirstSteps(0), a) = FirstSteps(2)
    BY <1>3, FirstStepsPair
  <2> QED
    BY <2>1, <2>2, <2>3
<1>11. Cat(FirstSteps(2), b) = FirstSteps(4)
  BY <1>4, FirstStepsPair
<1>12. Cat(FirstSteps(4), c) = FirstSteps(6)
  BY <1>5, FirstStepsPair
<1>13. Cat(FirstSteps(6), d) = FirstSteps(8)
  BY <1>6, FirstStepsPair
<1>14. Cat(FirstSteps(8), e) = FirstSteps(10)
  BY <1>7, FirstStepsPair
<1>15. Reset = FirstSteps(10)
  BY <1>8, <1>9, <1>10, <1>11, <1>12, <1>13, <1>14
<1>16. FirstSteps(10) = ResetSteps
  BY DEF FirstSteps, ResetSteps
<1>17. Program("reset") = Reset
  BY TransferQueueAssumption DEF Program, TransferQueueAssumption
<1> QED
  BY <1>15, <1>16, <1>17

(* Where the workqueue is.                                                 *)
LEMMA StepsDiffer ==
    \A i, j \in 1..10 : ResetSteps[i] = ResetSteps[j] => i = j
<1> SUFFICES ASSUME NEW i \in 1..10, NEW j \in 1..10, ResetSteps[i] = ResetSteps[j]
             PROVE  i = j
  OBVIOUS
<1>1. \A n \in 1..10 : n = 1 \/ n = 2 \/ n = 3 \/ n = 4 \/ n = 5
                       \/ n = 6 \/ n = 7 \/ n = 8 \/ n = 9 \/ n = 10
  OBVIOUS
<1> QED
  BY <1>1, StepNames

(* Which step is next tells how many are left.                             *)
LEMMA AtStep ==
    ASSUME NEW k \in 0..10, todo = LastSteps(k), NEW step, At(step)
    PROVE  k \in 1..10 /\ step = ResetSteps[11 - k] /\ Tail(todo) = LastSteps(k - 1)
<1>1. k # 0
  BY LastStepsEnds DEF At
<1>2. k \in 1..10
  BY <1>1
<1> QED
  BY <1>2, LastStepsFacts DEF At

(* A worker that is at a step is about to check whether the endpoint is    *)
(* stalled, or is somewhere in the reset after a failure.                  *)
LEMMA AtCheckOrStopped ==
    ASSUME CalmInv, NEW step, At(step)
    PROVE  /\ kind = "control"
           /\ \/ Works /\ step = "check" /\ todo = ResetSteps
              \/ /\ Stops /\ Quiet
                 /\ \E k \in 1..10 : /\ ResetStep(k) /\ step = ResetSteps[11 - k]
                                     /\ Tail(todo) = LastSteps(k - 1)
<1>1. todo # <<>> /\ step = Head(todo)
  BY DEF At
<1>2. kind = "control"
  BY <1>1 DEF CalmInv, CalmTypes, InInv, OutInv, Undisturbed
<1>3. CASE Works
  <2>1. todo = ResetSteps
    BY <1>1, <1>3 DEF Works
  <2>2. Head(LastSteps(10)) = ResetSteps[11 - 10]
    <3>1. 10 \in 1..10
      OBVIOUS
    <3> QED
      BY <3>1, LastStepsFacts
  <2>3. Head(ResetSteps) = ResetSteps[1]
    <3>1. 11 - 10 = 1
      OBVIOUS
    <3> QED
      BY <2>2, <3>1, LastStepsEnds
  <2>4. step = "check"
    BY <1>1, <2>1, <2>3, StepNames
  <2> QED
    BY <1>2, <1>3, <2>1, <2>4
<1>4. CASE Stops /\ Failed
  <2>1. PICK k \in 0..10 : ResetStep(k)
    BY <1>4 DEF Failed
  <2>2. k \in 1..10 /\ step = ResetSteps[11 - k] /\ Tail(todo) = LastSteps(k - 1)
    BY <2>1, AtStep DEF ResetStep
  <2> QED
    BY <1>2, <1>4, <2>1, <2>2 DEF Failed
<1> QED
  BY <1>2, <1>3, <1>4 DEF CalmInv, ControlInv

(* The k last steps of a reset are left, l after the next.                 *)
Reached(k, l) == /\ kind = "control" /\ Stops /\ Quiet /\ ResetStep(k)
                 /\ Tail(todo) = LastSteps(l)

(* At any step but the first it is in that reset.                          *)
LEMMA AtFailed ==
    ASSUME CalmInv, NEW j \in 2..10, NEW k \in 1..9, NEW l \in 0..8, k = 11 - j, l = k - 1,
           At(ResetSteps[j])
    PROVE  Reached(k, l)
<1>1. ResetSteps[j] # "check"
  <2>1. j \in 1..10 /\ 1 \in 1..10 /\ j # 1
    OBVIOUS
  <2> QED
    BY <2>1, StepNames, StepsDiffer
<1>2. PICK i \in 1..10 : /\ ResetStep(i) /\ ResetSteps[j] = ResetSteps[11 - i]
                         /\ Tail(todo) = LastSteps(i - 1)
  BY <1>1, AtCheckOrStopped
<1>3. i = k
  <2>1. j \in 1..10 /\ 11 - i \in 1..10
    OBVIOUS
  <2>2. j = 11 - i
    BY <1>2, <2>1, StepsDiffer
  <2> QED
    BY <2>2
<1>4. kind = "control" /\ Stops /\ Quiet
  BY <1>1, AtCheckOrStopped
<1> QED
  BY <1>2, <1>3, <1>4 DEF Reached

(* The steps of the reset by name, with the number that is left.           *)
LEMMA Positions ==
    ASSUME CalmInv
    PROVE  /\ At("drop") => Reached(9, 8)
           /\ At("flush in") => Reached(8, 7)
           /\ At("flushed in") => Reached(7, 6)
           /\ At("flush out") => Reached(6, 5)
           /\ At("flushed out") => Reached(5, 4)
           /\ At("reset") => Reached(4, 3)
           /\ At("unstall") => Reached(3, 2)
           /\ At("set active") => Reached(2, 1)
           /\ At("activate") => Reached(1, 0)
<1>1. At("drop") => Reached(9, 8)
  <2>1. 2 \in 2..10 /\ 9 \in 1..9 /\ 8 \in 0..8 /\ 9 = 11 - 2 /\ 8 = 9 - 1
    OBVIOUS
  <2>2. ResetSteps[2] = "drop"
    BY StepNames
  <2>3. At(ResetSteps[2]) => Reached(9, 8)
    BY <2>1, AtFailed
  <2> QED
    BY <2>2, <2>3
<1>2. At("flush in") => Reached(8, 7)
  <2>1. 3 \in 2..10 /\ 8 \in 1..9 /\ 7 \in 0..8 /\ 8 = 11 - 3 /\ 7 = 8 - 1
    OBVIOUS
  <2>2. ResetSteps[3] = "flush in"
    BY StepNames
  <2>3. At(ResetSteps[3]) => Reached(8, 7)
    BY <2>1, AtFailed
  <2> QED
    BY <2>2, <2>3
<1>3. At("flushed in") => Reached(7, 6)
  <2>1. 4 \in 2..10 /\ 7 \in 1..9 /\ 6 \in 0..8 /\ 7 = 11 - 4 /\ 6 = 7 - 1
    OBVIOUS
  <2>2. ResetSteps[4] = "flushed in"
    BY StepNames
  <2>3. At(ResetSteps[4]) => Reached(7, 6)
    BY <2>1, AtFailed
  <2> QED
    BY <2>2, <2>3
<1>4. At("flush out") => Reached(6, 5)
  <2>1. 5 \in 2..10 /\ 6 \in 1..9 /\ 5 \in 0..8 /\ 6 = 11 - 5 /\ 5 = 6 - 1
    OBVIOUS
  <2>2. ResetSteps[5] = "flush out"
    BY StepNames
  <2>3. At(ResetSteps[5]) => Reached(6, 5)
    BY <2>1, AtFailed
  <2> QED
    BY <2>2, <2>3
<1>5. At("flushed out") => Reached(5, 4)
  <2>1. 6 \in 2..10 /\ 5 \in 1..9 /\ 4 \in 0..8 /\ 5 = 11 - 6 /\ 4 = 5 - 1
    OBVIOUS
  <2>2. ResetSteps[6] = "flushed out"
    BY StepNames
  <2>3. At(ResetSteps[6]) => Reached(5, 4)
    BY <2>1, AtFailed
  <2> QED
    BY <2>2, <2>3
<1>6. At("reset") => Reached(4, 3)
  <2>1. 7 \in 2..10 /\ 4 \in 1..9 /\ 3 \in 0..8 /\ 4 = 11 - 7 /\ 3 = 4 - 1
    OBVIOUS
  <2>2. ResetSteps[7] = "reset"
    BY StepNames
  <2>3. At(ResetSteps[7]) => Reached(4, 3)
    BY <2>1, AtFailed
  <2> QED
    BY <2>2, <2>3
<1>7. At("unstall") => Reached(3, 2)
  <2>1. 8 \in 2..10 /\ 3 \in 1..9 /\ 2 \in 0..8 /\ 3 = 11 - 8 /\ 2 = 3 - 1
    OBVIOUS
  <2>2. ResetSteps[8] = "unstall"
    BY StepNames
  <2>3. At(ResetSteps[8]) => Reached(3, 2)
    BY <2>1, AtFailed
  <2> QED
    BY <2>2, <2>3
<1>8. At("set active") => Reached(2, 1)
  <2>1. 9 \in 2..10 /\ 2 \in 1..9 /\ 1 \in 0..8 /\ 2 = 11 - 9 /\ 1 = 2 - 1
    OBVIOUS
  <2>2. ResetSteps[9] = "set active"
    BY StepNames
  <2>3. At(ResetSteps[9]) => Reached(2, 1)
    BY <2>1, AtFailed
  <2> QED
    BY <2>2, <2>3
<1>9. At("activate") => Reached(1, 0)
  <2>1. 10 \in 2..10 /\ 1 \in 1..9 /\ 0 \in 0..8 /\ 1 = 11 - 10 /\ 0 = 1 - 1
    OBVIOUS
  <2>2. ResetSteps[10] = "activate"
    BY StepNames
  <2>3. At(ResetSteps[10]) => Reached(1, 0)
    BY <2>1, AtFailed
  <2> QED
    BY <2>2, <2>3
<1> QED
  BY <1>1, <1>2, <1>3, <1>4, <1>5, <1>6, <1>7, <1>8, <1>9

(* No other program runs.                                                  *)
LEMMA AtResetStep ==
    ASSUME CalmInv, NEW step, At(step)
    PROVE  step \in Steps /\ kind = "control"
<1>1. "check" \in Steps
  <2>1. ResetSteps[1] \in Steps
    BY DEF Steps
  <2> QED
    BY <2>1, StepNames
<1>2. \A k \in 1..10 : ResetSteps[11 - k] \in Steps
  <2>1. \A k \in 1..10 : 11 - k \in 1..10
    OBVIOUS
  <2> QED
    BY <2>1 DEF Steps
<1> QED
  BY <1>1, <1>2, AtCheckOrStopped

(* A reset has none of the steps of the other programs.                    *)
LEMMA OtherSteps ==
    Steps \cap {"fw pause", "fw resume", "deactivate", "set paused", "stall", "remove"} = {}
<1> SUFFICES ASSUME NEW i \in 1..10
             PROVE  ResetSteps[i] \notin {"fw pause", "fw resume", "deactivate", "set paused",
                                          "stall", "remove"}
  BY DEF Steps
<1>1. i = 1 \/ i = 2 \/ i = 3 \/ i = 4 \/ i = 5 \/ i = 6 \/ i = 7 \/ i = 8 \/ i = 9 \/ i = 10
  OBVIOUS
<1> QED
  BY <1>1, StepNames

(* A reset goes one step further.                                          *)
LEMMA ResetContinues ==
    ASSUME Common, Common', kind = "control", kind' = kind, Stops, Quiet, UrbsSame(ep, ep'),
           ep'.active = ep.active, Evq' = 0, events' = events, Stage' = "idle",
           NEW k \in 0..10, ResetStep(k)'
    PROVE  CalmInv'
<1>1. /\ UNCHANGED urbView
      /\ \A S : Rest(ep, S) => Rest(ep', S)
  BY ListSameView DEF UrbsSame
<1>2. Stops'
  BY <1>1 DEF Stops
<1>3. Quiet'
  BY <1>1 DEF Quiet, urbView
<1>4. ControlInv'
  BY <1>2, <1>3 DEF ControlInv, Failed
<1>5. NotStuck'
  BY DEF NotStuck
<1> QED
  BY <1>4, <1>5 DEF CalmInv, Common

(* The deferred requests are dropped: there are none.                      *)
LEMMA DropStep ==
    ASSUME CalmInv, Drop
    PROVE  CalmInv'
<1>1. At("drop")
  BY DEF Drop, Locked
<1>2. Reached(9, 8)
  BY <1>1, Positions
<1>3. /\ ep' = [ep EXCEPT !.evq = 0] /\ todo' = Tail(todo)
      /\ UNCHANGED <<setup, comps, events, irq, dev, bounds>>
  BY DEF Drop, Locked, Continue
<1>4. /\ UrbsSame(ep, ep') /\ EpTypes(ep') /\ ep'.in = ep.in /\ ep'.out = ep.out
      /\ ep'.evq = 0 /\ ep'.active = ep.active /\ ep'.stalled = ep.stalled
  BY <1>3 DEF CalmInv, CalmTypes, EpTypes, Fields, UrbsSame, ListSame
<1>5. Common'
  BY <1>3, <1>4, CommonSame DEF CalmInv, Common, CalmTypes, bounds
<1>6. ResetStep(8)'
  BY <1>2, <1>3, <1>4 DEF Reached, ResetStep, In, Out, DoneIn, DoneOut, Halted
<1> QED
  BY <1>2, <1>3, <1>4, <1>5, <1>6, ResetContinues DEF Reached, CalmInv, Common, Quiet, Evq, Stage, setup

(* q->stalled is cleared.                                                  *)
LEMMA UnstallStep ==
    ASSUME CalmInv, Unstall
    PROVE  CalmInv'
<1>1. At("unstall")
  BY DEF Unstall, Locked
<1>2. Reached(3, 2)
  BY <1>1, Positions
<1>3. /\ ep' = [ep EXCEPT !.stalled = FALSE] /\ todo' = Tail(todo)
      /\ UNCHANGED <<setup, comps, events, irq, dev, bounds>>
  BY DEF Unstall, Locked, Continue
<1>4. /\ UrbsSame(ep, ep') /\ EpTypes(ep') /\ ep'.in = ep.in /\ ep'.out = ep.out
      /\ ep'.evq = ep.evq /\ ep'.active = ep.active /\ ep'.stalled = FALSE
  BY <1>3 DEF CalmInv, CalmTypes, EpTypes, Fields, UrbsSame, ListSame
<1>5. Common'
  BY <1>3, <1>4, CommonSame DEF CalmInv, Common, CalmTypes, bounds
<1>6. ResetStep(2)'
  BY <1>2, <1>3, <1>4 DEF Reached, ResetStep, In, Out, DoneIn, DoneOut, Halted
<1> QED
  BY <1>2, <1>3, <1>4, <1>5, <1>6, ResetContinues DEF Reached, CalmInv, Common, Quiet, Evq, Stage, setup

(* The endpoint in the device is reset, and not halted any more.           *)
LEMMA ResetEndpointStep ==
    ASSUME CalmInv, ResetEndpoint
    PROVE  CalmInv'
<1>1. At("reset")
  BY DEF ResetEndpoint
<1>2. Reached(4, 3)
  BY <1>1, Positions
<1>3. /\ ep' = ep /\ todo' = Tail(todo)
      /\ dev' = [dev EXCEPT !.on = FALSE, !.halted = FALSE, !.stage = "idle"]
      /\ UNCHANGED <<setup, comps, events, irq, bounds>>
  BY DEF ResetEndpoint, Continue
<1>4. UrbsSame(ep, ep') /\ EpTypes(ep')
  BY <1>3 DEF CalmInv, CalmTypes, UrbsSame, ListSame
<1>5. /\ dev' = [f \in DevFields |-> dev'[f]] /\ dev'.served = dev.served
      /\ dev'.on = FALSE /\ dev'.halted = FALSE /\ dev'.stage = "idle"
  BY <1>3 DEF CalmInv, CalmTypes, DevFields
<1>6. Common'
  BY <1>3, <1>4, <1>5, CommonSame DEF CalmInv, Common, CalmTypes, bounds
<1>7. ResetStep(3)'
  BY <1>2, <1>3, <1>5 DEF Reached, ResetStep, In, Out, DoneIn, DoneOut, Halted
<1> QED
  BY <1>2, <1>3, <1>4, <1>5, <1>6, <1>7, ResetContinues DEF Reached, CalmInv, Common, Quiet, Evq, Stage, setup

(* The device is made active again, with nothing to be asked for.          *)
LEMMA SetActiveStep ==
    ASSUME CalmInv, SetActive
    PROVE  CalmInv'
<1>1. At("set active")
  BY DEF SetActive
<1>2. Reached(2, 1)
  BY <1>1, Positions
<1>3. /\ ep' = ep /\ todo' = Tail(todo) /\ dev' = On
      /\ UNCHANGED <<setup, comps, events, irq, bounds>>
  BY DEF SetActive, Continue
<1>4. UrbsSame(ep, ep') /\ EpTypes(ep')
  BY <1>3 DEF CalmInv, CalmTypes, UrbsSame, ListSame
<1>5. /\ dev' = [f \in DevFields |-> dev'[f]] /\ dev'.served = dev.served
      /\ dev'.on = TRUE /\ dev'.halted = dev.halted /\ dev'.stage = dev.stage
  <2>1. dev = [f \in DevFields |-> dev[f]] /\ dev.stage = "idle"
    BY <1>2 DEF CalmInv, CalmTypes, Reached, Quiet, Stage
  <2>2. On = [dev EXCEPT !.on = TRUE, !.stage = "idle"]
    BY <2>1 DEF On
  <2> QED
    BY <1>3, <2>1, <2>2 DEF DevFields
<1>6. Common'
  BY <1>3, <1>4, <1>5, CommonSame DEF CalmInv, Common, CalmTypes, bounds
<1>7. ResetStep(1)'
  BY <1>2, <1>3, <1>5 DEF Reached, ResetStep, In, Out, DoneIn, DoneOut, Halted
<1> QED
  BY <1>2, <1>3, <1>4, <1>5, <1>6, <1>7, ResetContinues DEF Reached, CalmInv, Common, Quiet, Evq, Stage, setup

(* An endpoint that has been reset is not halted.                          *)
LEMMA SetActiveSucceeds ==
    ASSUME CalmInv, NEW took, SetActiveFails(took)
    PROVE  FALSE
<1>1. At("set active")
  BY DEF SetActiveFails
<1>2. Reached(2, 1)
  BY <1>1, Positions
<1>3. dev.halted
  BY DEF SetActiveFails, CalmInv, CalmTypes
<1>4. ~dev.halted
  BY <1>2 DEF Reached, ResetStep, Halted
<1> QED
  BY <1>3, <1>4

(* bce_cmd_flush_memory_queue aborts what is submitted in one queue and    *)
(* does nothing else.                                                      *)
LEMMA FlushStepSame ==
    ASSUME CalmInv, NEW sq \in {"in", "out"}, FlushQueue(sq)
    PROVE  /\ UrbsSame(ep, ep') /\ EpTypes(ep') /\ ep'[sq] = <<>>
           /\ \A q \in {"in", "out"} \ {sq} : ep'[q] = ep[q] /\ comps'[q] = comps[q]
           /\ ep'.evq = ep.evq /\ ep'.active = ep.active /\ ep'.stalled = ep.stalled
           /\ comps' = [q \in {"in", "out"} |-> comps'[q]]
           /\ dev' = [f \in DevFields |-> dev'[f]] /\ dev'.served = dev.served
           /\ dev'.on = dev.on /\ dev'.halted = dev.halted
           /\ dev.stage = "idle" => dev'.stage = "idle"
           /\ todo' = Tail(todo)
           /\ UNCHANGED <<setup, events, irq, bounds>>
<1> DEFINE c == comps[sq] \o [i \in DOMAIN ep[sq] |-> [id |-> ep[sq][i].id, aborted |-> TRUE]]
           st == IF ep[sq] = <<>> THEN dev.stage ELSE "idle"
<1>1. /\ ep' = [ep EXCEPT ![sq] = <<>>] /\ comps' = [comps EXCEPT ![sq] = c]
      /\ dev' = [dev EXCEPT !.stage = st]
      /\ todo' = Tail(todo) /\ UNCHANGED <<setup, events, irq, bounds>>
  BY DEF FlushQueue, Continue
<1> HIDE DEF c, st
<1>2. /\ UrbsSame(ep, ep') /\ EpTypes(ep') /\ ep'[sq] = <<>>
      /\ \A q \in {"in", "out"} \ {sq} : ep'[q] = ep[q]
      /\ ep'.evq = ep.evq /\ ep'.active = ep.active /\ ep'.stalled = ep.stalled
  BY <1>1 DEF CalmInv, CalmTypes, EpTypes, Fields, UrbsSame, ListSame
<1>3. /\ comps' = [q \in {"in", "out"} |-> comps'[q]]
      /\ \A q \in {"in", "out"} \ {sq} : comps'[q] = comps[q]
  BY <1>1 DEF CalmInv, CalmTypes
<1>4. /\ dev' = [f \in DevFields |-> dev'[f]] /\ dev'.served = dev.served
      /\ dev'.on = dev.on /\ dev'.halted = dev.halted /\ dev'.stage = st
  BY <1>1 DEF CalmInv, CalmTypes, DevFields
<1> QED
  BY <1>1, <1>2, <1>3, <1>4 DEF st

(* Submissions that are flushed have nobody waiting for them.              *)
LEMMA FlushQueueStep ==
    ASSUME CalmInv, NEW sq \in {"in", "out"}, FlushQueue(sq)
    PROVE  CalmInv'
<1>1. Common'
  BY FlushStepSame, CommonSame DEF CalmInv, Common, CalmTypes, bounds
<1>2. CASE sq = "in"
  <2>1. At("flush in")
    BY <1>2 DEF FlushQueue, FlushStep
  <2>2. Reached(8, 7)
    BY <2>1, Positions
  <2>3. /\ ep'["in"] = <<>> /\ ep'["out"] = ep["out"] /\ comps'["out"] = comps["out"]
        /\ ep'.stalled = ep.stalled /\ dev'.on = dev.on /\ dev'.halted = dev.halted
        /\ todo' = LastSteps(7)
    BY <1>2, <2>2, FlushStepSame DEF Reached
  <2>4. ResetStep(7)'
    BY <2>2, <2>3 DEF Reached, ResetStep, In, Out, DoneIn, DoneOut, Halted
  <2> QED
    BY <1>1, <2>2, <2>4, FlushStepSame, ResetContinues DEF Reached, CalmInv, Common, Quiet, Evq, Stage, setup
<1>3. CASE sq = "out"
  <2>1. At("flush out")
    BY <1>3 DEF FlushQueue, FlushStep
  <2>2. Reached(6, 5)
    BY <2>1, Positions
  <2>3. /\ ep'["out"] = <<>> /\ ep'["in"] = ep["in"] /\ comps'["in"] = comps["in"]
        /\ ep'.stalled = ep.stalled /\ dev'.on = dev.on /\ dev'.halted = dev.halted
        /\ todo' = LastSteps(5)
    BY <1>3, <2>2, FlushStepSame DEF Reached
  <2>4. ResetStep(5)'
    BY <2>2, <2>3 DEF Reached, ResetStep, In, Out, DoneIn, DoneOut, Halted
  <2> QED
    BY <1>1, <2>2, <2>4, FlushStepSame, ResetContinues DEF Reached, CalmInv, Common, Quiet, Evq, Stage, setup
<1> QED
  BY <1>2, <1>3

(* When the flush returns their completions have been taken.               *)
LEMMA FlushedStepInv ==
    ASSUME CalmInv, NEW sq \in {"in", "out"}, Flushed(sq)
    PROVE  CalmInv'
<1>1. /\ UNCHANGED <<setup, ep, comps, events, irq, dev, bounds>> /\ todo' = Tail(todo)
      /\ comps[sq] = <<>>
  BY DEF Flushed, Continue, CalmInv, CalmTypes
<1>2. UrbsSame(ep, ep') /\ EpTypes(ep')
  BY <1>1 DEF CalmInv, CalmTypes, UrbsSame, ListSame
<1>3. Common'
  BY <1>1, <1>2, CommonSame DEF CalmInv, Common, CalmTypes, bounds
<1>4. CASE sq = "in"
  <2>1. At("flushed in")
    BY <1>4 DEF Flushed, FlushedStep
  <2>2. Reached(7, 6)
    BY <2>1, Positions
  <2>3. ResetStep(6)'
    BY <1>1, <1>4, <2>2 DEF Reached, ResetStep, In, Out, DoneIn, DoneOut, Halted
  <2> QED
    BY <1>1, <1>2, <1>3, <2>2, <2>3, ResetContinues DEF Reached, CalmInv, Common, Quiet, Evq, Stage, setup
<1>5. CASE sq = "out"
  <2>1. At("flushed out")
    BY <1>5 DEF Flushed, FlushedStep
  <2>2. Reached(5, 4)
    BY <2>1, Positions
  <2>3. ResetStep(4)'
    BY <1>1, <1>5, <2>2 DEF Reached, ResetStep, In, Out, DoneIn, DoneOut, Halted
  <2> QED
    BY <1>1, <1>2, <1>3, <2>2, <2>3, ResetContinues DEF Reached, CalmInv, Common, Quiet, Evq, Stage, setup
<1> QED
  BY <1>4, <1>5

(* Nothing moves but the workqueue, the interrupt thread or what has been  *)
(* given back.                                                             *)
LEMMA PhaseSame ==
    ASSUME UNCHANGED <<urbView, lineView, devView, Evq, events>>, Phase
    PROVE  Phase'
<1> USE DEF urbView, lineView, devView, Requested, Done, Sub, Served, Still, NoComps
<1> USE DEF SetupDone, InSent, InDone, OutAwaited, OutSent, OutDone, DataDone
<1>1. Waiting => Waiting'
  BY DEF Waiting
<1>2. SettingUp => SettingUp'
  BY DEF SettingUp
<1>3. Serves => Serves'
  BY DEF Serves
<1>4. Ended => Ended'
  BY DEF Ended
<1>5. Failing => Failing'
  BY DEF Failing
<1> QED
  BY <1>1, <1>2, <1>3, <1>4, <1>5 DEF Phase

(* A step outside the queues and the device leaves both as they are.       *)
LEMMA LineSame ==
    ASSUME ep'.in = ep.in, ep'.out = ep.out, ep'.evq = ep.evq, comps' = comps, dev' = dev
    PROVE  UNCHANGED <<lineView, devView, Evq>>
BY DEF lineView, devView, In, Out, DoneIn, DoneOut, Stage, Halted, Evq

(* A step that changes neither the list nor what is on its way keeps what  *)
(* holds of each kind of endpoint.                                         *)
LEMMA KindsSame ==
    ASSUME CalmInv, ListSame(ep, ep'), kind' = kind,
           ep'.in = ep.in, ep'.out = ep.out, ep'.evq = ep.evq,
           ep'.active = ep.active, ep'.stalled = ep.stalled, ep'.work = ep.work,
           comps' = comps, events' = events, dev' = dev, todo' = todo
    PROVE  (kind = "in" => InInv)' /\ (kind = "out" => OutInv)' /\ (kind = "control" => ControlInv)'
<1>1. /\ UNCHANGED urbView /\ \A S : Rest(ep, S) => Rest(ep', S)
      /\ UNCHANGED <<lineView, devView, Evq>>
  BY ListSameView, LineSame
<1>2. Undisturbed => Undisturbed'
  BY DEF Undisturbed, Halted
<1>3. kind = "in" => InInv'
  BY <1>2 DEF CalmInv, InInv, Stage, In, Out, DoneIn, DoneOut, Evq, ListSame
<1>4. kind = "out" => OutInv'
  BY <1>1, <1>2 DEF CalmInv, OutInv, urbView, lineView, devView, Requested, Done, Sub, Served
<1>5. kind = "control" => ControlInv'
  <2>1. Works => Works'
    BY <1>1 DEF Works
  <2>2. Phase => Phase'
    BY <1>1, PhaseSame
  <2>3. Stops => Stops'
    BY <1>1 DEF Stops
  <2>4. Quiet => Quiet'
    BY <1>1 DEF Quiet, urbView, devView
  <2>5. \A k \in 0..10 : ResetStep(k) => ResetStep(k)'
    BY <1>1 DEF ResetStep, lineView, devView
  <2> QED
    BY <2>1, <2>2, <2>3, <2>4, <2>5 DEF CalmInv, ControlInv, Failed
<1> QED
  BY <1>3, <1>4, <1>5

(* The interrupt thread takes an URB that has ended.                       *)
LEMMA GivebackStep ==
    ASSUME CalmInv, Giveback
    PROVE  CalmInv'
<1>1. /\ irq = "giveback" /\ ep.giveback # <<>>
      /\ ep' = [ep EXCEPT !.giveback = Tail(ep.giveback)]
      /\ UNCHANGED <<setup, comps, events, irq, todo, dev, submits>>
  BY DEF Giveback, worker, bounds
<1>2. ep.giveback \in Seq(Givebacks)
  BY DEF CalmInv, CalmTypes, EpTypes
<1>3. /\ Tail(ep.giveback) \in Seq(Givebacks)
      /\ \A i \in DOMAIN Tail(ep.giveback) : /\ i + 1 \in DOMAIN ep.giveback
                                             /\ Tail(ep.giveback)[i] = ep.giveback[i + 1]
  BY <1>1, <1>2, ListFacts
<1>4. /\ ListSame(ep, ep') /\ EpTypes(ep') /\ ep'.giveback = Tail(ep.giveback)
      /\ ep'.in = ep.in /\ ep'.out = ep.out /\ ep'.evq = ep.evq
      /\ ep'.active = ep.active /\ ep'.stalled = ep.stalled /\ ep'.work = ep.work
  <2>1. EpTypes(ep)
    BY DEF CalmInv, CalmTypes
  <2> QED
    BY <1>1, <1>3, <2>1 DEF EpTypes, Fields, ListSame
<1>5. CalmTypes'
  BY <1>1, <1>4 DEF CalmInv, CalmTypes, setup
<1>6. Linked(ep)' /\ UNCHANGED urbView
  BY <1>4, ListSameView DEF CalmInv
<1>7. Successful'
  BY <1>1, <1>3, <1>4 DEF CalmInv, Successful
<1>8. NotStuck'
  BY <1>1, <1>4, <1>6 DEF CalmInv, NotStuck, urbView, Evq
<1> QED
  BY <1>1, <1>4, <1>5, <1>6, <1>7, <1>8, KindsSame DEF CalmInv, setup

(* It has given back what there was.                                       *)
LEMMA GivenBackStep ==
    ASSUME CalmInv, GivenBack
    PROVE  CalmInv'
<1>1. /\ irq = "giveback" /\ irq' = "idle" /\ ep' = ep
      /\ UNCHANGED <<setup, comps, events, todo, dev, submits>>
  BY DEF GivenBack, worker, bounds
<1>2. CalmTypes'
  BY <1>1 DEF CalmInv, CalmTypes, setup
<1>3. ListSame(ep, ep')
  BY <1>1 DEF ListSame
<1>4. Linked(ep)' /\ UNCHANGED urbView
  BY <1>3, ListSameView DEF CalmInv
<1>5. Successful'
  BY <1>1 DEF CalmInv, Successful
<1>6. NotStuck'
  BY <1>1, <1>4 DEF CalmInv, NotStuck, urbView, Evq
<1> QED
  BY <1>1, <1>2, <1>3, <1>4, <1>5, <1>6, KindsSame DEF CalmInv, setup

(* Nothing happens.                                                        *)
LEMMA StutterStep ==
    ASSUME CalmInv, UNCHANGED vars
    PROVE  CalmInv'
<1>1. ep' = ep /\ UNCHANGED <<setup, comps, events, irq, todo, dev, submits>>
  BY DEF vars, worker, bounds
<1>2. CalmTypes'
  BY <1>1 DEF CalmInv, CalmTypes, setup
<1>3. ListSame(ep, ep')
  BY <1>1 DEF ListSame
<1>4. Linked(ep)' /\ UNCHANGED urbView
  BY <1>3, ListSameView DEF CalmInv
<1>5. Successful'
  BY <1>1 DEF CalmInv, Successful
<1>6. NotStuck'
  BY <1>1, <1>4 DEF CalmInv, NotStuck, urbView, Evq
<1> QED
  BY <1>1, <1>2, <1>3, <1>4, <1>5, <1>6, KindsSame DEF CalmInv, setup

(* Nothing is asked of the workqueue but resets, of control endpoints.     *)
LEMMA TakeWorkStep ==
    ASSUME CalmInv, TakeWork
    PROVE  CalmInv'
<1>1. /\ todo = <<>> /\ ep.work # <<>> /\ todo' = Program(Head(ep.work))
      /\ ep' = [ep EXCEPT !.work = Tail(ep.work)]
      /\ UNCHANGED <<setup, comps, events, irq, dev, bounds>>
  BY DEF TakeWork
<1>2. kind = "control"
  BY <1>1 DEF CalmInv, CalmTypes, InInv, OutInv, Undisturbed
<1>3. Head(ep.work) = "reset" /\ Tail(ep.work) \in Seq({"reset"})
  BY <1>1 DEF CalmInv, CalmTypes, EpTypes
<1>4. todo' = ResetSteps
  BY <1>1, <1>2, <1>3, ResetProgram
<1>5. /\ UrbsSame(ep, ep') /\ EpTypes(ep')
      /\ ep'.in = ep.in /\ ep'.out = ep.out /\ ep'.evq = ep.evq
      /\ ep'.active = ep.active /\ ep'.stalled = ep.stalled
  <2>1. EpTypes(ep)
    BY DEF CalmInv, CalmTypes
  <2> QED
    BY <1>1, <1>3, <2>1 DEF EpTypes, Fields, UrbsSame, ListSame
<1>6. Common'
  BY <1>1, <1>5, CommonSame DEF CalmInv, Common, CalmTypes, bounds
<1>7. /\ UNCHANGED urbView /\ \A S : Rest(ep, S) => Rest(ep', S)
      /\ UNCHANGED <<lineView, devView, Evq>>
  BY <1>1, <1>5, ListSameView, LineSame DEF UrbsSame
<1>8. CASE Works /\ Phase
  <2>1. Works'
    BY <1>1, <1>4, <1>5, <1>7, <1>8 DEF Works
  <2>2. Phase'
    BY <1>1, <1>7, <1>8, PhaseSame
  <2>3. NotStuck'
    BY <1>1, <1>7 DEF CalmInv, NotStuck, urbView
  <2> QED
    BY <1>1, <1>2, <1>6, <2>1, <2>2, <2>3 DEF CalmInv, Common, ControlInv, setup
<1>9. CASE Stops /\ Failed
  <2>1. PICK k \in 0..10 : ResetStep(k)
    BY <1>9 DEF Failed
  <2>2. k = 0
    <3>1. k \in 1..10 => LastSteps(k) # <<>>
      BY LastStepsFacts
    <3> QED
      BY <1>1, <2>1, <3>1 DEF ResetStep
  <2>3. ResetStep(10)'
    BY <1>1, <1>4, <1>5, <2>1, <2>2, LastStepsEnds DEF ResetStep, Halted
  <2> QED
    BY <1>1, <1>2, <1>5, <1>6, <1>9, <2>3, ResetContinues
       DEF Failed, Quiet, CalmInv, Common, Evq, Stage, setup
<1> QED
  BY <1>2, <1>8, <1>9 DEF CalmInv, ControlInv

(* The reset begins, or finds that there is no stall to clear.             *)
LEMMA CheckStalledStep ==
    ASSUME CalmInv, CheckStalled
    PROVE  CalmInv'
<1>1. /\ At("check")
      /\ IF ep.stalled THEN todo' = Tail(todo) ELSE todo' = <<>>
      /\ UNCHANGED <<setup, ep, comps, events, irq, dev, bounds>>
  BY DEF CheckStalled, Continue
<1>2. /\ kind = "control"
      /\ \/ Works /\ todo = ResetSteps
         \/ /\ Stops /\ Quiet
            /\ \E k \in 1..10 : /\ ResetStep(k) /\ "check" = ResetSteps[11 - k]
                                /\ Tail(todo) = LastSteps(k - 1)
  BY <1>1, AtCheckOrStopped
<1>3. /\ UrbsSame(ep, ep') /\ EpTypes(ep')
      /\ ep'.in = ep.in /\ ep'.out = ep.out /\ ep'.evq = ep.evq
      /\ ep'.active = ep.active /\ ep'.stalled = ep.stalled
  BY <1>1 DEF CalmInv, CalmTypes, UrbsSame, ListSame
<1>4. Common'
  BY <1>1, <1>3, CommonSame DEF CalmInv, Common, CalmTypes, bounds
<1>5. /\ UNCHANGED urbView /\ \A S : Rest(ep, S) => Rest(ep', S)
      /\ UNCHANGED <<lineView, devView, Evq>>
  BY <1>1, <1>3, ListSameView, LineSame DEF UrbsSame
<1>6. CASE Works
  <2>1. Works' /\ Phase
    BY <1>1, <1>2, <1>3, <1>5, <1>6 DEF Works, CalmInv, ControlInv, Stops
  <2>2. Phase'
    BY <1>1, <1>5, <2>1, PhaseSame
  <2>3. NotStuck'
    BY <1>1, <1>5 DEF CalmInv, NotStuck, urbView
  <2> QED
    BY <1>1, <1>2, <1>4, <2>1, <2>2, <2>3 DEF CalmInv, Common, ControlInv, setup
<1>7. CASE Stops /\ Quiet
  <2>1. PICK k \in 1..10 : /\ ResetStep(k) /\ "check" = ResetSteps[11 - k]
                           /\ Tail(todo) = LastSteps(k - 1)
    BY <1>2, <1>7 DEF Works, Stops
  <2>2. k = 10 /\ k - 1 = 9
    <3>1. 11 - k \in 1..10 /\ 1 \in 1..10
      OBVIOUS
    <3>2. 11 - k = 1
      BY <2>1, <3>1, StepNames, StepsDiffer
    <3> QED
      BY <3>2
  <2>3. ResetStep(10) /\ Tail(todo) = LastSteps(9)
    BY <2>1, <2>2
  <2>4. ep.stalled
    BY <2>3 DEF ResetStep
  <2>5. ResetStep(9)'
    <3>1. todo' = LastSteps(9)
      BY <1>1, <2>3, <2>4
    <3>2. Halted' /\ ep'.stalled /\ dev'.on
      BY <1>1, <2>3, <2>4 DEF ResetStep, Halted
    <3> QED
      BY <3>1, <3>2 DEF ResetStep, Halted, LastSteps
  <2> QED
    BY <1>1, <1>2, <1>3, <1>4, <1>7, <2>5, ResetContinues
       DEF Quiet, CalmInv, Common, Evq, Stage, setup
<1> QED
  BY <1>2, <1>6, <1>7

(* The queue is active again, and each URB of the list waits for the       *)
(* device to ask for its setup packet.                                     *)
LEMMA ActivateStep ==
    ASSUME CalmInv, ActivateQueue
    PROVE  CalmInv'
<1>1. /\ At("activate") /\ irq \notin {"in", "out"} /\ ep' = Activate(ep) /\ todo' = Tail(todo)
      /\ UNCHANGED <<setup, comps, events, irq, dev, bounds>>
  BY DEF ActivateQueue, Locked, Continue, Unlocked
<1>2. Reached(1, 0)
  BY <1>1, Positions
<1>3. /\ kind = "control" /\ EpTypes(ep) /\ Linked(ep) /\ ep.evq = 0
      /\ \A i, j \in DOMAIN ep.list : ep.list[i] = ep.list[j] => i = j
  BY <1>2 DEF Reached, CalmInv, CalmTypes, Linked, Quiet, Evq
<1> DEFINE N == Len(ep.list)
<1>4. N \in Nat /\ DOMAIN ep.list = 1..N
  BY <1>3, ListFacts DEF EpTypes
<1>5. ASSUME NEW i \in DOMAIN ep.list
      PROVE  /\ ep.state[ep.list[i]] \in {"setup_request", "paused"}
             /\ ep.status[ep.list[i]] = "none"
  <2>1. CASE i = 1
    <3>1. ep.list # <<>> /\ Head(ep.list) = ep.list[1]
      BY <1>3, <1>5, ListFacts DEF EpTypes
    <3>2. Busy = ep.state[ep.list[1]] /\ Status = ep.status[ep.list[1]]
      BY <3>1 DEF Busy, StateOf, Status
    <3>3. Busy # "empty"
      BY <1>3, <3>1, <3>2, HeadLinked DEF UrbStates
    <3> QED
      BY <1>2, <2>1, <3>2, <3>3 DEF Reached, Quiet
  <2>2. CASE i # 1
    <3>1. i \in 2..N
      BY <1>4, <2>2
    <3> QED
      BY <1>2, <3>1 DEF Reached, Stops, Rest
  <2> QED
    BY <2>1, <2>2
<1>6. ResumedTo(ep, N, ep')
  BY <1>1, <1>3, <1>5, ActivateFields
<1>7. /\ EpTypes(ep') /\ ep'.list = ep.list /\ ep'.status = ep.status
      /\ ep'.dir = ep.dir /\ ep'.id = ep.id /\ ep'.evq = 0
      /\ ep'.in = ep.in /\ ep'.out = ep.out /\ ep'.giveback = ep.giveback
      /\ ep'.stalled = ep.stalled /\ ep'.active
  BY <1>3, <1>6 DEF ResumedTo
<1>8. \A i \in DOMAIN ep.list : ep'.state[ep.list[i]] = "setup_request"
  BY <1>4, <1>6 DEF ResumedTo
<1>9. ResetStep(1) /\ Quiet /\ todo' = <<>>
  BY <1>1, <1>2, LastStepsEnds DEF Reached
<1>10. /\ ~Halted /\ ~ep.stalled /\ dev.on /\ In = <<>> /\ DoneIn = <<>>
       /\ Out = <<>> /\ DoneOut = <<>>
  <2>1. 1 \in 1..3 /\ 1 \in 1..7 /\ 1 \in 1..6 /\ 1 \in 1..5 /\ 1 \in 1..4
        /\ 1 \in {1, 2} /\ 1 \notin {2, 3}
    OBVIOUS
  <2> QED
    BY <1>3, <1>9, <2>1 DEF ResetStep, CalmInv, CalmTypes, EpTypes
<1>11. Works'
  <2>1. \A i \in 2..Len(ep.list) : i \in DOMAIN ep.list
    BY <1>4
  <2>2. Rest(ep', {"setup_request"})
    BY <1>5, <1>7, <1>8, <2>1 DEF Rest
  <2> QED
    BY <1>1, <1>7, <1>9, <1>10, <2>2 DEF Works
<1>12. Waiting'
  <2>1. Busy' = "empty" \/ (Busy' = "setup_request" /\ Status' = "none")
    <3>1. CASE ep.list = <<>>
      BY <1>7, <3>1 DEF Busy, StateOf
    <3>2. CASE ep.list # <<>>
      <4>1. 1 \in DOMAIN ep.list /\ Head(ep.list) = ep.list[1]
        BY <1>3, <3>2, <1>4, ListFacts DEF EpTypes
      <4> QED
        BY <1>5, <1>7, <1>8, <3>2, <4>1 DEF Busy, StateOf, Status
    <3> QED
      BY <3>1, <3>2
  <2>2. Halted' = Halted /\ Still' = Still /\ NoComps' = NoComps /\ Stage' = Stage
    BY <1>1, <1>7 DEF Halted, Still, NoComps, Stage, In, Out, DoneIn, DoneOut
  <2>3. Still /\ NoComps /\ ~Halted
    BY <1>10 DEF Still, NoComps
  <2>4. Requested(0)' /\ Stage = "idle"
    BY <1>1, <1>7, <1>9 DEF Requested, Quiet, Evq
  <2> QED
    BY <2>1, <2>2, <2>3, <2>4 DEF Waiting
<1>13. Common'
  <2>1. CalmTypes'
    BY <1>1, <1>7 DEF CalmInv, CalmTypes, setup, bounds
  <2>2. Linked(ep')
    BY <1>3, <1>7 DEF Linked
  <2>3. Successful'
    BY <1>1, <1>7 DEF CalmInv, Successful
  <2> QED
    BY <2>1, <2>2, <2>3 DEF Common
<1> QED
  BY <1>1, <1>3, <1>7, <1>11, <1>12, <1>13
     DEF CalmInv, Common, NotStuck, ControlInv, Phase, Evq, setup

-----------------------------------------------------------------------------
(***************************************************************************)
(* What cannot happen to a calm endpoint                                   *)
(***************************************************************************)

(* Nothing is cancelled, the firmware asks for nothing, and no ring runs   *)
(* full; of the programs of the workqueue only that of a reset runs.       *)
LEMMA NotCalm ==
    ASSUME CalmInv
    PROVE  /\ \A u \in Urbs : ~RequestCancel(u)
           /\ ~EndpointReset
           /\ \A item : ~FirmwareRequest(item)
           /\ \A took : ~SetPausedFails(took)
           /\ ~Deactivate /\ ~Stall /\ ~SetFwPaused /\ ~UrbRemove /\ ~SetPaused
           /\ \A ring : ~RingFills(ring)
           /\ ~RingsDrain /\ ~ResetEndpointFails
<1>1. mode = "calm" /\ full = {}
  BY DEF CalmInv, CalmTypes
<1>2. \A u \in Urbs : ~RequestCancel(u)
  BY <1>1 DEF RequestCancel, Disturb
<1>3. ~EndpointReset
  BY <1>1 DEF EndpointReset, Disturb
<1>4. \A item : ~FirmwareRequest(item)
  BY <1>1 DEF FirmwareRequest, Disturb
<1>5. \A took : ~SetPausedFails(took)
  BY <1>1 DEF SetPausedFails
<1>6. \A step \in {"fw pause", "fw resume", "deactivate", "set paused", "stall", "remove"} :
          ~At(step)
  BY AtResetStep, OtherSteps
<1>7. ~Deactivate /\ ~Stall
  BY <1>6 DEF Deactivate, Stall, Locked
<1>8. ~SetFwPaused /\ ~UrbRemove /\ ~SetPaused
  BY <1>6 DEF SetFwPaused, UrbRemove, SetPaused
<1>9. (\A ring : ~RingFills(ring)) /\ ~RingsDrain /\ ~ResetEndpointFails
  BY <1>1 DEF RingFills, RingsDrain, ResetEndpointFails, Disturb
<1> QED
  BY <1>2, <1>3, <1>4, <1>5, <1>7, <1>8, <1>9

-----------------------------------------------------------------------------
(***************************************************************************)
(* Deferred requests                                                       *)
(***************************************************************************)

(* e, its deferred request answered by a submission of the first URB.      *)
Delivers(e, f, what, state) ==
    /\ EpTypes(f) /\ OnlyFirst(e, f)
    /\ f.state[Head(e.list)] = state
    /\ f.status[Head(e.list)] = e.status[Head(e.list)]
    /\ f.evq = 0 /\ f.in = e.in
    /\ f.out = Append(e.out, [id |-> e.id[Head(e.list)], what |-> what,
                              dir |-> e.dir[Head(e.list)]])

(* None is, or not to the first URB.                                       *)
LEMMA NothingToDeliver ==
    ASSUME NEW e, EpTypes(e),
           e.evq = 0 \/ StateOf(e) \notin {"setup_request", "transfer_request"}
    PROVE  Deliver(e) = e
<1>1. ~Deliverable(e)
  BY DEF Deliverable, Again, StateOf
<1> QED
  BY <1>1, DeliverFields DEF DeliverOne

(* A deferred request is taken out of evq.                                 *)
LEMMA RequestTaken ==
    ASSUME NEW e, EpTypes(e), e.evq = 1
    PROVE  LET g == [e EXCEPT !.evq = @ - 1]
           IN  /\ EpTypes(g) /\ g.evq = 0
               /\ g.list = e.list /\ g.state = e.state /\ g.status = e.status
               /\ g.dir = e.dir /\ g.id = e.id /\ g.in = e.in /\ g.out = e.out
               /\ g.giveback = e.giveback /\ g.active = e.active
               /\ g.stalled = e.stalled /\ g.work = e.work
<1> DEFINE g == [e EXCEPT !.evq = @ - 1]
<1>1. g = [e EXCEPT !.evq = 0]
  <2>1. e.evq - 1 = 0
    OBVIOUS
  <2> QED
    BY <2>1, Zenon
<1> HIDE DEF g
<1>2. /\ g.evq = 0
      /\ g.list = e.list /\ g.state = e.state /\ g.status = e.status
      /\ g.dir = e.dir /\ g.id = e.id /\ g.in = e.in /\ g.out = e.out
      /\ g.giveback = e.giveback /\ g.active = e.active
      /\ g.stalled = e.stalled /\ g.work = e.work
  BY <1>1 DEF EpTypes, Fields
<1>3. g = [h \in Fields |-> g[h]]
  BY <1>1 DEF EpTypes
<1>4. EpTypes(g)
  BY <1>2, <1>3 DEF EpTypes
<1> QED
  BY <1>2, <1>4 DEF g

(* A deferred request goes to the first URB, which sends its packet.       *)
LEMMA RequestDelivered ==
    ASSUME NEW e, EpTypes(e), e.list # <<>>, e.evq = 1, mode = "calm",
           kind = "control" => e.status[Head(e.list)] = "none"
    PROVE  /\ StateOf(e) = "setup_request" =>
                  Delivers(e, Deliver(e), "setup", "setup_completion")
           /\ StateOf(e) = "transfer_request" =>
                  Delivers(e, Deliver(e), "out", "completion")
<1> DEFINE u == Head(e.list)
           f == TransferRequest(e, u)
           g == [f EXCEPT !.evq = @ - 1]
<1>1. /\ StateOf(e) = "setup_request" =>
           /\ Moves(e, f, "setup_completion") /\ f.in = e.in
           /\ f.out = Append(e.out, [id |-> e.id[u], what |-> "setup", dir |-> e.dir[u]])
      /\ StateOf(e) = "transfer_request" =>
           /\ Moves(e, f, "completion") /\ f.in = e.in
           /\ f.out = Append(e.out, [id |-> e.id[u], what |-> "out", dir |-> e.dir[u]])
  BY TransferRequestFields DEF StateOf
<1>2. StateOf(e) \in {"setup_request", "transfer_request"} => Deliver(e) = g
  BY DeliverFields DEF DeliverOne, Deliverable, Again, StateOf
<1> HIDE DEF f
<1>3. ASSUME NEW state, Moves(e, f, state)
      PROVE  /\ EpTypes(g) /\ OnlyFirst(e, g) /\ g.state = f.state /\ g.status = f.status
             /\ g.evq = 0 /\ g.in = f.in /\ g.out = f.out
  <2>1. EpTypes(f) /\ f.evq = 1 /\ OnlyFirst(e, f)
    BY <1>3 DEF Moves
  <2>2. /\ EpTypes(g) /\ g.evq = 0
        /\ g.list = f.list /\ g.state = f.state /\ g.status = f.status
        /\ g.dir = f.dir /\ g.id = f.id /\ g.in = f.in /\ g.out = f.out
        /\ g.giveback = f.giveback /\ g.active = f.active
        /\ g.stalled = f.stalled /\ g.work = f.work
    BY <2>1, RequestTaken
  <2>4. OnlyFirst(e, g)
    BY <2>1, <2>2 DEF OnlyFirst
  <2> QED
    BY <2>2, <2>4
<1>4. StateOf(e) = "setup_request" => Delivers(e, g, "setup", "setup_completion")
  BY <1>1, <1>3 DEF Delivers, Moves
<1>5. StateOf(e) = "transfer_request" => Delivers(e, g, "out", "completion")
  BY <1>1, <1>3 DEF Delivers, Moves
<1> QED
  BY <1>2, <1>4, <1>5

(* The others do not notice.                                               *)
LEMMA DeliversOthers ==
    ASSUME NEW e, NEW f, NEW what, NEW state, EpTypes(e), Linked(e), e.list # <<>>,
           Delivers(e, f, what, state)
    PROVE  Linked(f) /\ \A S : Rest(e, S) => Rest(f, S)
<1>1. Linked(f) \/ e.list = <<>> \/ e.id[Head(e.list)] = 0
  BY OthersStay DEF Delivers, OnlyFirst
<1>2. \A S : Rest(e, S) => Rest(f, S)
  BY OthersStay DEF Delivers, OnlyFirst
<1> QED
  BY <1>1, <1>2, HeadLinked

-----------------------------------------------------------------------------
(***************************************************************************)
(* Enqueued URBs                                                           *)
(***************************************************************************)
Enqueued(e, u, dir, n) == [e EXCEPT !.list = Append(@, u), !.dir[u] = dir, !.id[u] = n,
                                    !.state[u] = "paused"]
InState(e, u, state) == [e EXCEPT !.state[u] = state]

(* bce_vhci_urb_create puts the URB at the end of the list, paused.        *)
LEMMA LinkedFields ==
    ASSUME NEW e, EpTypes(e), NEW u \in Urbs, NEW dir \in {"in", "out", "none"}, NEW n \in Nat
    PROVE  LET f == Enqueued(e, u, dir, n)
           IN  /\ Links(e, f, u, dir, n, "paused")
               /\ f.in = e.in /\ f.work = e.work
<1> DEFINE f == Enqueued(e, u, dir, n)
<1>1. /\ f.list = Append(e.list, u)
      /\ f.dir = [e.dir EXCEPT ![u] = dir] /\ f.id = [e.id EXCEPT ![u] = n]
      /\ f.state = [e.state EXCEPT ![u] = "paused"]
      /\ f.status = e.status /\ f.evq = e.evq /\ f.out = e.out /\ f.giveback = e.giveback
      /\ f.active = e.active /\ f.stalled = e.stalled /\ f.in = e.in /\ f.work = e.work
  BY DEF EpTypes, Fields, Enqueued
<1>2. f = [h \in Fields |-> f[h]]
  BY DEF EpTypes, Enqueued
<1> HIDE DEF f
<1>3. f.dir \in [Urbs -> {"in", "out", "none"}] /\ f.id \in [Urbs -> Nat]
  BY <1>1, ExceptType DEF EpTypes
<1>4. f.state \in [Urbs -> UrbStates]
  <2>1. "paused" \in UrbStates
    BY DEF UrbStates
  <2> QED
    BY <1>1, <2>1, ExceptType DEF EpTypes
<1>5. f.list \in Seq(Urbs)
  BY <1>1 DEF EpTypes
<1>6. EpTypes(f)
  BY <1>1, <1>2, <1>3, <1>4, <1>5 DEF EpTypes
<1>7. Links(e, f, u, dir, n, "paused")
  BY <1>1, <1>6 DEF Links, EpTypes
<1> QED
  BY <1>1, <1>7 DEF f

(* bce_vhci_urb_init and the queueing of a reset, applied to it.           *)
LEMMA LinkedState ==
    ASSUME NEW e, EpTypes(e), NEW u \in Urbs, NEW dir, NEW n, NEW s, NEW f,
           Links(e, f, u, dir, n, s), NEW state \in UrbStates
    PROVE  LET g == InState(f, u, state)
           IN  Links(e, g, u, dir, n, state) /\ g.in = f.in /\ g.work = f.work
<1> DEFINE g == InState(f, u, state)
<1>1. EpTypes(f)
  BY DEF Links
<1>2. /\ g.state = [f.state EXCEPT ![u] = state]
      /\ g.list = f.list /\ g.dir = f.dir /\ g.id = f.id
      /\ g.status = f.status /\ g.evq = f.evq /\ g.out = f.out /\ g.giveback = f.giveback
      /\ g.active = f.active /\ g.stalled = f.stalled /\ g.in = f.in /\ g.work = f.work
  BY <1>1 DEF EpTypes, Fields, InState
<1>3. g = [h \in Fields |-> g[h]]
  BY <1>1 DEF EpTypes, InState
<1> HIDE DEF g
<1>4. g.state \in [Urbs -> UrbStates]
  BY <1>1, <1>2, ExceptType DEF EpTypes
<1>5. EpTypes(g)
  BY <1>1, <1>2, <1>3, <1>4 DEF EpTypes
<1>6. Links(e, g, u, dir, n, state)
  <2>1. g.state[u] = state /\ \A v \in Urbs \ {u} : g.state[v] = f.state[v]
    BY <1>1, <1>2 DEF EpTypes
  <2> QED
    BY <1>2, <1>5, <2>1 DEF Links
<1> QED
  BY <1>2, <1>6 DEF g

(* The new URB may be submitted at once, as on an IN endpoint.             *)
LEMMA LinkedIn ==
    ASSUME NEW e, EpTypes(e), NEW u \in Urbs, NEW dir, NEW n, NEW s, NEW f,
           Links(e, f, u, dir, n, s), mode = "calm"
    PROVE  LET g == TransferIn(f, u)
           IN  /\ Links(e, g, u, dir, n, "completion") /\ g.work = f.work
               /\ g.in = Append(f.in, [id |-> n, what |-> "in", dir |-> dir])
<1> DEFINE g == TransferIn(f, u)
<1>1. EpTypes(f) /\ f.id[u] = n /\ f.dir[u] = dir
  BY DEF Links
<1>2. /\ g.state = [f.state EXCEPT ![u] = "completion"]
      /\ g.in = Append(f.in, Submit(f, u, "in"))
      /\ g.list = f.list /\ g.dir = f.dir /\ g.id = f.id
      /\ g.status = f.status /\ g.evq = f.evq /\ g.out = f.out /\ g.giveback = f.giveback
      /\ g.active = f.active /\ g.stalled = f.stalled /\ g.work = f.work
  BY <1>1, RoomAndWhole DEF EpTypes, Fields, TransferIn
<1>3. g = [h \in Fields |-> g[h]]
  BY <1>1 DEF EpTypes, TransferIn
<1> HIDE DEF g
<1>4. g.state \in [Urbs -> UrbStates]
  BY <1>1, <1>2, ExceptType DEF EpTypes, UrbStates
<1>5. EpTypes(g)
  BY <1>1, <1>2, <1>3, <1>4 DEF EpTypes
<1>6. Links(e, g, u, dir, n, "completion")
  <2>1. g.state[u] = "completion" /\ \A v \in Urbs \ {u} : g.state[v] = f.state[v]
    BY <1>1, <1>2 DEF EpTypes
  <2> QED
    BY <1>2, <1>5, <2>1 DEF Links
<1> QED
  BY <1>1, <1>2, <1>6 DEF g, Submit

(* A reset may be asked for.                                               *)
LEMMA LinkedReset ==
    ASSUME NEW e, EpTypes(e), NEW u \in Urbs, NEW dir, NEW n, NEW s, NEW f,
           Links(e, f, u, dir, n, s)
    PROVE  LET g == RequestReset(f)
           IN  Links(e, g, u, dir, n, s) /\ g.in = f.in
<1> DEFINE g == [f EXCEPT !.work = Append(@, "reset")]
<1>1. EpTypes(f)
  BY DEF Links
<1>2. /\ g.state = f.state /\ g.in = f.in /\ g.work = Append(f.work, "reset")
      /\ g.list = f.list /\ g.dir = f.dir /\ g.id = f.id
      /\ g.status = f.status /\ g.evq = f.evq /\ g.out = f.out /\ g.giveback = f.giveback
      /\ g.active = f.active /\ g.stalled = f.stalled
  BY <1>1 DEF EpTypes, Fields
<1>3. g = [h \in Fields |-> g[h]]
  BY <1>1 DEF EpTypes
<1> HIDE DEF g
<1>4. g.work \in Seq({"reset"})
  BY <1>1, <1>2 DEF EpTypes
<1>5. EpTypes(g)
  BY <1>1, <1>2, <1>3, <1>4 DEF EpTypes
<1>6. Links(e, g, u, dir, n, s)
  BY <1>1, <1>2, <1>5 DEF Links
<1> QED
  BY <1>2, <1>6 DEF g, RequestReset

(* bce_vhci_urb_create, before the deferred requests are looked at.        *)
Begins(b, u, dir, state) ==
    /\ ep' = Deliver(b)
    /\ Links(ep, b, u, dir, submits', state)

(* bce_vhci_urb_create, for each kind of endpoint.                         *)
LEMMA CreateFields ==
    ASSUME CalmInv, NEW u \in Urbs, NEW dir \in Dirs, Create(u, dir)
    PROVE  /\ ep.id[u] = 0 /\ submits' \in Nat \ {0} /\ dir \in {"in", "out", "none"}
           /\ irq \notin {"in", "out"}
           /\ UNCHANGED <<setup, comps, events, irq, worker, dev>>
           /\ kind = "in" =>
                 \E b : /\ Begins(b, u, dir, "completion") /\ b.work = ep.work
                        /\ b.in = Append(ep.in, [id |-> submits', what |-> "in", dir |-> dir])
           /\ kind = "out" =>
                 \E b : /\ Begins(b, u, dir, "transfer_request") /\ b.work = ep.work
                        /\ b.in = ep.in
           /\ kind = "control" /\ ep.active =>
                 \E b : Begins(b, u, dir, "setup_request") /\ b.in = ep.in
           /\ kind = "control" /\ ~ep.active =>
                 \E b : Begins(b, u, dir, "paused") /\ b.in = ep.in
<1> DEFINE linked == Enqueued(ep, u, dir, submits')
           begun == CASE ep.active -> UrbInit(linked, u)
                      [] ~ep.active /\ ep.stalled -> RequestReset(linked)
                      [] ~ep.active /\ ~ep.stalled -> linked
<1>1. /\ irq \notin {"in", "out"} /\ ~Held(u) /\ submits' = submits + 1
      /\ ep' = Deliver(begun)
      /\ UNCHANGED <<setup, comps, events, irq, worker, dev>>
  BY DEF Create, Unlocked, Enqueued
<1>2. /\ EpTypes(ep) /\ kind \in {"in", "out", "control"} /\ mode = "calm" /\ submits \in Nat
      /\ ep.active \in BOOLEAN /\ ep.stalled \in BOOLEAN
  BY DEF CalmInv, CalmTypes, EpTypes
<1>3. ep.id[u] = 0 /\ submits' \in Nat \ {0} /\ submits' \in Nat
  BY <1>1, <1>2 DEF Held
<1>4. /\ dir \in {"in", "out", "none"} /\ (kind = "in" => dir = "in")
      /\ (kind = "out" => dir = "out")
  BY <1>2 DEF Dirs
<1>5. /\ Links(ep, linked, u, dir, submits', "paused")
      /\ linked.in = ep.in /\ linked.work = ep.work
  BY <1>2, <1>3, <1>4, LinkedFields
<1> HIDE DEF linked
<1>6. linked.dir[u] = dir
  BY <1>5 DEF Links
<1>7. kind # "control" => ep.active
  BY <1>2 DEF CalmInv, InInv, OutInv, Undisturbed
<1>8. CASE kind = "in"
  <2>1. begun = TransferIn(linked, u)
    BY <1>4, <1>6, <1>7, <1>8 DEF UrbInit, DataStart
  <2>2. /\ Links(ep, begun, u, dir, submits', "completion") /\ begun.work = ep.work
        /\ begun.in = Append(ep.in, [id |-> submits', what |-> "in", dir |-> dir])
    BY <1>2, <1>5, <2>1, LinkedIn, SMTT(20)
  <2> HIDE DEF begun
  <2> QED
    BY <1>1, <1>3, <1>4, <1>8, <2>2 DEF Begins
<1>9. CASE kind = "out"
  <2>1. begun = InState(linked, u, "transfer_request")
    BY <1>4, <1>6, <1>7, <1>9 DEF UrbInit, DataStart, InState
  <2> HIDE DEF begun
  <2>2. "transfer_request" \in UrbStates
    BY DEF UrbStates
  <2>3. /\ Links(ep, begun, u, dir, submits', "transfer_request")
        /\ begun.work = ep.work /\ begun.in = ep.in
    BY <1>2, <1>5, <2>1, <2>2, LinkedState
  <2> QED
    BY <1>1, <1>3, <1>4, <1>9, <2>3 DEF Begins
<1>10. CASE kind = "control" /\ ep.active
  <2>1. begun = InState(linked, u, "setup_request")
    BY <1>10 DEF UrbInit, InState
  <2> HIDE DEF begun
  <2>2. "setup_request" \in UrbStates
    BY DEF UrbStates
  <2>3. Links(ep, begun, u, dir, submits', "setup_request") /\ begun.in = ep.in
    BY <1>2, <1>5, <2>1, <2>2, LinkedState
  <2> QED
    BY <1>1, <1>3, <1>4, <1>10, <2>3 DEF Begins
<1>11. CASE kind = "control" /\ ~ep.active
  <2>1. begun = linked \/ begun = RequestReset(linked)
    BY <1>2, <1>11
  <2>2. Links(ep, begun, u, dir, submits', "paused") /\ begun.in = ep.in
    BY <1>2, <1>5, <2>1, LinkedReset
  <2> HIDE DEF begun
  <2> QED
    BY <1>1, <1>3, <1>4, <1>11, <2>2 DEF Begins
<1> QED
  BY <1>2, <1>8, <1>9, <1>10, <1>11

(* What holds at any endpoint once it is linked, and when nothing is       *)
(* delivered to it.                                                        *)
LEMMA CreateCommon ==
    ASSUME CalmInv, UNCHANGED <<setup, comps, irq, dev>>, submits' \in Nat,
           EpTypes(ep'), Linked(ep'), ep'.giveback = ep.giveback
    PROVE  Common'
<1>1. CalmTypes'
  BY DEF CalmInv, CalmTypes, setup
<1>2. Successful'
  BY DEF CalmInv, Successful
<1> QED
  BY <1>1, <1>2 DEF Common

(* The URBs before it, or there being no deferred request, keep a new URB  *)
(* from sending anything.                                                  *)
LEMMA NotDeliveredYet ==
    ASSUME CalmInv, ep.list # <<>> \/ Evq = 0, irq \notin {"in", "out"},
           NEW b, NEW u \in Urbs, NEW dir, NEW state, ep.id[u] = 0, submits' \in Nat \ {0},
           Begins(b, u, dir, state)
    PROVE  ep' = b
<1>1. EpTypes(ep) /\ Linked(ep)
  BY DEF CalmInv, CalmTypes
<1>2. CASE Evq = 0
  BY <1>2, NothingToDeliver DEF Begins, Links, Evq
<1>3. CASE Evq # 0
  <2>1. StateOf(b) = StateOf(ep)
    BY <1>1, <1>3, LinksOthers DEF Begins
  <2>2. StateOf(ep) \notin {"setup_request", "transfer_request"}
    BY <1>3 DEF CalmInv, NotStuck, Busy
  <2> QED
    BY <2>1, <2>2, NothingToDeliver DEF Begins, Links
<1> QED
  BY <1>2, <1>3

(* On an IN endpoint a new URB is submitted behind the others.             *)
LEMMA CreateIn ==
    ASSUME CalmInv, NEW u \in Urbs, NEW dir \in Dirs, Create(u, dir), kind = "in"
    PROVE  CalmInv'
<1>1. /\ ep.id[u] = 0 /\ submits' \in Nat \ {0} /\ dir \in {"in", "out", "none"}
      /\ irq \notin {"in", "out"}
      /\ UNCHANGED <<setup, comps, events, irq, worker, dev>>
  BY CreateFields
<1>2. PICK b : /\ Begins(b, u, dir, "completion") /\ b.work = ep.work
               /\ b.in = Append(ep.in, [id |-> submits', what |-> "in", dir |-> dir])
  BY CreateFields
<1>3. EpTypes(ep) /\ Linked(ep) /\ InInv /\ Evq = 0
  BY DEF CalmInv, CalmTypes, InInv
<1>4. ep' = b
  BY <1>1, <1>2, <1>3, NotDeliveredYet
<1>5. Links(ep, ep', u, dir, submits', "completion")
  BY <1>2, <1>4 DEF Begins
<1>6. /\ EpTypes(ep') /\ ep'.list = Append(ep.list, u)
      /\ \A v \in Urbs \ {u} : ep'.state[v] = ep.state[v] /\ ep'.id[v] = ep.id[v]
      /\ ep'.state[u] = "completion" /\ ep'.id[u] = submits'
      /\ ep'.evq = ep.evq /\ ep'.out = ep.out /\ ep'.giveback = ep.giveback
      /\ ep'.active = ep.active /\ ep'.stalled = ep.stalled /\ ep'.work = ep.work
  BY <1>2, <1>4, <1>5 DEF Links
<1>7. Linked(ep')
  BY <1>1, <1>3, <1>5, LinksOthers
<1>8. Common'
  BY <1>1, <1>6, <1>7, CreateCommon
<1> DEFINE N == Len(ep.list)
           Subs == [id : Nat, what : {"in", "out", "setup"}, dir : {"in", "out", "none"}]
           x == [id |-> submits', what |-> "in", dir |-> dir]
<1>9. /\ N \in Nat /\ DOMAIN ep.list = 1..N /\ DOMAIN ep'.list = 1..(N + 1)
      /\ \A i \in 1..N : ep'.list[i] = ep.list[i] /\ ep.list[i] \in Urbs
      /\ ep'.list[N + 1] = u /\ Len(ep'.list) = N + 1
  <2>1. /\ N \in Nat /\ DOMAIN ep.list = 1..N /\ \A i \in 1..N : ep.list[i] \in Urbs
    BY <1>3, ListFacts DEF EpTypes
  <2>2. /\ Append(ep.list, u) \in Seq(Urbs) /\ Len(Append(ep.list, u)) = N + 1
        /\ Append(ep.list, u)[N + 1] = u
        /\ \A i \in 1..N : Append(ep.list, u)[i] = ep.list[i]
    BY <1>3, AppendFacts DEF EpTypes
  <2>3. DOMAIN Append(ep.list, u) = 1..(N + 1)
    BY <2>2, ListFacts
  <2> QED
    BY <1>6, <2>1, <2>2, <2>3
<1>10. \A i \in 1..N : ep.list[i] # u
  BY <1>1, <1>3, <1>9 DEF Linked
<1>11. /\ \A i \in 1..N : /\ ep'.state[ep'.list[i]] = ep.state[ep.list[i]]
                          /\ ep'.id[ep'.list[i]] = ep.id[ep.list[i]]
  BY <1>6, <1>9, <1>10
<1>12. /\ In \in Seq(Subs) /\ x \in Subs /\ DoneIn \in Seq([id : Nat, aborted : BOOLEAN])
       /\ N = Len(DoneIn) + Len(In) /\ In' = Append(In, x) /\ DoneIn' = DoneIn
       /\ Len(In) \in Nat /\ Len(DoneIn) \in Nat
  BY <1>1, <1>2, <1>3, <1>4, ListFacts DEF InInv, In, DoneIn
<1> DEFINE m == Len(In)
           k == Len(DoneIn)
<1>13. /\ In' \in Seq(Subs) /\ Len(In') = m + 1 /\ DOMAIN In' = 1..(m + 1)
       /\ In'[m + 1] = x /\ \A i \in 1..m : In'[i] = In[i]
       /\ DOMAIN In = 1..m /\ DOMAIN DoneIn = 1..k
  BY <1>12, AppendFacts, ListFacts
<1>14. Undisturbed'
  BY <1>1, <1>3, <1>6 DEF InInv, Undisturbed, worker, Halted
<1>15. Len(ep'.list) = Len(DoneIn') + Len(In')
  BY <1>9, <1>12, <1>13
<1>16. \A i \in DOMAIN ep'.list : ep'.state[ep'.list[i]] = "completion"
  <2>1. \A i \in 1..N : ep.state[ep.list[i]] = "completion"
    BY <1>3, <1>9 DEF InInv
  <2>2. \A i \in 1..(N + 1) : i \in 1..N \/ i = N + 1
    BY <1>9
  <2> QED
    BY <1>6, <1>9, <1>11, <2>1, <2>2
<1>17. \A i \in DOMAIN DoneIn' :
          /\ DoneIn'[i] = [id |-> ep'.id[ep'.list[i]], aborted |-> FALSE]
          /\ DoneIn'[i].id \in dev'.served
  <2>1. \A i \in 1..k : i \in 1..N
    BY <1>9, <1>12
  <2>2. \A i \in 1..k : /\ DoneIn[i] = [id |-> ep.id[ep.list[i]], aborted |-> FALSE]
                        /\ DoneIn[i].id \in dev.served
    BY <1>3, <1>13 DEF InInv
  <2>3. DOMAIN DoneIn' = 1..k /\ dev' = dev
    BY <1>1, <1>12, <1>13
  <2> QED
    BY <1>11, <1>12, <2>1, <2>2, <2>3
<1>18. \A i \in DOMAIN In' : In'[i].id = ep'.id[ep'.list[Len(DoneIn') + i]]
  <2>1. \A i \in 1..m : k + i \in 1..N
    BY <1>9, <1>12
  <2>2. k + (m + 1) = N + 1
    BY <1>12
  <2>3. \A i \in 1..m : In'[i].id = ep'.id[ep'.list[k + i]]
    BY <1>3, <1>11, <1>13, <2>1 DEF InInv
  <2>4. In'[m + 1].id = ep'.id[ep'.list[k + (m + 1)]]
    BY <1>6, <1>9, <1>13, <2>2
  <2>5. \A i \in 1..(m + 1) : i \in 1..m \/ i = m + 1
    BY <1>12
  <2> QED
    BY <1>12, <1>13, <2>3, <2>4, <2>5
<1>19. InInv'
  BY <1>1, <1>3, <1>6, <1>12, <1>13, <1>14, <1>15, <1>16, <1>17, <1>18
     DEF InInv, Stage, Out, DoneOut, Evq
<1> QED
  BY <1>1, <1>3, <1>6, <1>8, <1>19 DEF CalmInv, Common, NotStuck, Evq, setup

(* An URB that is linked to an endpoint with others changes nothing for    *)
(* the first of them.                                                      *)
LEMMA LinkedLast ==
    ASSUME CalmInv, NEW u \in Urbs, NEW dir, NEW state, ep.id[u] = 0,
           submits' \in Nat \ {0}, ep.list # <<>>, Links(ep, ep', u, dir, submits', state)
    PROVE  /\ UNCHANGED urbView
           /\ \A S : Rest(ep, S) /\ state \in S => Rest(ep', S)
<1>1. EpTypes(ep) /\ Linked(ep)
  BY DEF CalmInv, CalmTypes
<1>2. /\ Head(ep'.list) = Head(ep.list) /\ StateOf(ep') = StateOf(ep)
      /\ ep'.status[Head(ep'.list)] = ep.status[Head(ep.list)]
      /\ ep'.dir[Head(ep'.list)] = ep.dir[Head(ep.list)]
      /\ ep'.id[Head(ep'.list)] = ep.id[Head(ep.list)]
      /\ \A S : Rest(ep, S) /\ state \in S => Rest(ep', S)
  BY <1>1, LinksOthers
<1> QED
  BY <1>2 DEF urbView, Busy, Status, Dir, Id

(* The only URB, before and after a deferred request is delivered to it.   *)
LEMMA LinkedOnly ==
    ASSUME CalmInv, NEW u \in Urbs, NEW dir, NEW state, ep.id[u] = 0,
           submits' \in Nat \ {0}, ep.list = <<>>, NEW b, Begins(b, u, dir, state)
    PROVE  /\ EpTypes(b) /\ Linked(b) /\ b.list # <<>> /\ Head(b.list) = u
           /\ StateOf(b) = state /\ b.status[Head(b.list)] = "none" /\ \A S : Rest(b, S)
           /\ b.evq = Evq /\ b.out = Out
<1>1. EpTypes(ep) /\ Linked(ep)
  BY DEF CalmInv, CalmTypes
<1>2. Links(ep, b, u, dir, submits', state)
  BY DEF Begins
<1>3. Linked(b) /\ b.list # <<>>
  BY <1>1, <1>2, LinksOthers
<1>5. Head(b.list) = u
  BY <1>1, <1>2, LinksOthers, ZenonT(40)
<1>7. StateOf(b) = state
  BY <1>2, <1>3, <1>5 DEF StateOf, Links
<1>6. b.status[Head(b.list)] = "none"
  BY <1>1, <1>2, LinksOthers
<1>4. \A S : Rest(b, S)
  BY <1>1, <1>2, LinksOthers
<1> QED
  BY <1>2, <1>3, <1>4, <1>5, <1>6, <1>7 DEF Links, Evq, Out

(* On an OUT endpoint it waits, or takes the request that was deferred.    *)
LEMMA CreateOut ==
    ASSUME CalmInv, NEW u \in Urbs, NEW dir \in Dirs, Create(u, dir), kind = "out"
    PROVE  CalmInv'
<1>1. /\ ep.id[u] = 0 /\ submits' \in Nat \ {0}
      /\ irq \notin {"in", "out"}
      /\ UNCHANGED <<setup, comps, events, irq, worker, dev>>
  BY CreateFields
<1>2. PICK b : /\ Begins(b, u, dir, "transfer_request") /\ b.work = ep.work
               /\ b.in = ep.in
  BY CreateFields
<1>3. EpTypes(ep) /\ Linked(ep) /\ OutInv /\ Evq \in {0, 1}
  BY DEF CalmInv, CalmTypes, EpTypes, Evq
<1>4. /\ EpTypes(b) /\ b.giveback = ep.giveback /\ b.active = ep.active
      /\ b.stalled = ep.stalled /\ b.out = ep.out /\ b.evq = ep.evq
  BY <1>2 DEF Begins, Links
<1>5. CASE ep.list # <<>>
  <2>1. ep' = b
    BY <1>1, <1>2, <1>5, NotDeliveredYet
  <2>2. Links(ep, ep', u, dir, submits', "transfer_request")
    BY <1>2, <2>1 DEF Begins
  <2>3. UNCHANGED urbView /\ Rest(ep', {"transfer_request"})
    <3>1. Rest(ep, {"transfer_request"}) /\ "transfer_request" \in {"transfer_request"}
      BY <1>3 DEF OutInv
    <3> QED
      BY <1>1, <1>5, <2>2, <3>1, LinkedLast
  <2>4. Linked(ep')
    BY <1>1, <1>3, <2>2, LinksOthers
  <2>5. Common'
    BY <1>1, <1>4, <2>1, <2>4, CreateCommon
  <2>6. UNCHANGED <<lineView, devView, Evq>>
    BY <1>1, <1>2, <1>4, <2>1, LineSame
  <2>7. OutInv'
    <3>1. Undisturbed'
      BY <1>1, <1>2, <1>3, <1>4, <2>1, <2>6 DEF OutInv, Undisturbed, worker, devView
    <3>2. /\ Busy' = Busy /\ Sub("out")' = Sub("out") /\ Done' = Done /\ Served' = Served
          /\ In' = In /\ Out' = Out /\ DoneIn' = DoneIn /\ DoneOut' = DoneOut
          /\ Stage' = Stage
      BY <2>3, <2>6 DEF urbView, lineView, devView, Sub, Done, Served
    <3>3. \A n \in {0, 1} : Requested(n) => Requested(n)'
      BY <1>1, <2>6 DEF Requested
    <3> QED
      BY <1>3, <2>3, <3>1, <3>2, <3>3 DEF OutInv
  <2>8. NotStuck'
    BY <1>1, <2>3, <2>6 DEF CalmInv, NotStuck, urbView
  <2> QED
    BY <1>1, <2>5, <2>7, <2>8 DEF CalmInv, Common, setup
<1>6. CASE ep.list = <<>>
  <2>1. /\ EpTypes(b) /\ Linked(b) /\ b.list # <<>>
        /\ StateOf(b) = "transfer_request" /\ Rest(b, {"transfer_request"})
        /\ b.evq = Evq /\ b.out = Out
    BY <1>1, <1>2, <1>6, LinkedOnly
  <2>2. /\ Undisturbed /\ In = <<>> /\ DoneIn = <<>> /\ Out = <<>> /\ DoneOut = <<>>
        /\ \/ Stage = "idle" /\ Requested(0)
           \/ Stage = "asked_data" /\ Requested(1)
    BY <1>3, <1>6 DEF OutInv, Busy, StateOf
  <2>3. CASE Evq = 0
    <3>1. ep' = b
      BY <1>1, <1>2, <2>3, NotDeliveredYet
    <3>2. Common'
      BY <1>1, <1>4, <2>1, <3>1, CreateCommon
    <3>3. Undisturbed'
      BY <1>1, <1>2, <1>4, <2>2, <3>1 DEF Undisturbed, worker, Halted
    <3>4. OutInv'
      <4>1. /\ In' = <<>> /\ DoneIn' = <<>> /\ Out' = <<>> /\ DoneOut' = <<>>
            /\ Stage' = Stage /\ Evq' = Evq /\ events' = events
        BY <1>1, <1>2, <1>4, <2>2, <3>1
           DEF In, Out, DoneIn, DoneOut, Stage, Evq
      <4>2. Busy' = "transfer_request"
        BY <2>1, <3>1 DEF Busy
      <4>3. \A n \in {0, 1} : Requested(n) => Requested(n)'
        BY <4>1 DEF Requested
      <4> QED
        BY <2>1, <2>2, <3>1, <3>3, <4>1, <4>2, <4>3 DEF OutInv
    <3> QED
      BY <1>1, <1>4, <2>3, <3>1, <3>2, <3>4 DEF CalmInv, Common, NotStuck, Evq, setup
  <2>4. CASE Evq = 1
    <3>1. ep' = Deliver(b) /\ Delivers(b, ep', "out", "completion")
      BY <1>2, <2>1, <2>4, RequestDelivered DEF Begins, CalmInv, CalmTypes
    <3>2. /\ EpTypes(ep') /\ OnlyFirst(b, ep') /\ ep'.evq = 0 /\ ep'.in = b.in
          /\ ep'.state[Head(b.list)] = "completion"
          /\ ep'.out = Append(b.out, [id |-> b.id[Head(b.list)], what |-> "out",
                                      dir |-> b.dir[Head(b.list)]])
      BY <3>1 DEF Delivers
    <3>3. /\ ep'.list = b.list /\ ep'.dir = b.dir /\ ep'.id = b.id
          /\ ep'.giveback = b.giveback /\ ep'.work = b.work /\ ep'.active = b.active
          /\ ep'.stalled = b.stalled
      BY <3>2 DEF OnlyFirst
    <3>4. Linked(ep') /\ Rest(ep', {"transfer_request"})
      BY <2>1, <3>1, DeliversOthers
    <3>5. Common'
      BY <1>1, <1>4, <3>2, <3>3, <3>4, CreateCommon
    <3>6. Undisturbed'
      BY <1>1, <1>2, <1>4, <2>2, <3>3 DEF Undisturbed, worker, Halted
    <3>7. OutInv'
      <4>1. /\ In' = <<>> /\ DoneIn' = <<>> /\ DoneOut' = <<>>
            /\ Stage' = Stage /\ Evq' = 0 /\ events' = events
        BY <1>1, <1>2, <1>4, <2>2, <3>2
           DEF In, DoneIn, DoneOut, Stage, Evq
      <4>2. Busy' = "completion"
        BY <2>1, <3>2, <3>3 DEF Busy, StateOf
      <4>3. Out' = Sub("out")'
        <5>1. b.out = <<>> /\ Head(ep'.list) = Head(b.list)
          BY <2>1, <2>2, <3>3
        <5>2. \A x : Append(<<>>, x) = <<x>>
          OBVIOUS
        <5> QED
          BY <3>2, <3>3, <5>1, <5>2 DEF Out, Sub, Id, Dir
      <4>4. Stage = "asked_data" /\ events = <<>>
        BY <2>2, <2>4 DEF Requested
      <4> QED
        BY <3>4, <3>6, <4>1, <4>2, <4>3, <4>4 DEF OutInv, Requested
    <3> QED
      BY <1>1, <3>2, <3>5, <3>7 DEF CalmInv, Common, NotStuck, Evq, setup
  <2> QED
    BY <1>3, <2>3, <2>4
<1> QED
  BY <1>5, <1>6

(* With no URB nothing can be under way.                                   *)
LEMMA NoUrb ==
    ASSUME Phase, Busy = "empty"
    PROVE  Waiting
BY DEF Phase, SettingUp, Serves, Ended, Failing, SetupDone, InSent, InDone, OutAwaited,
       OutSent, OutDone, DataDone

(* On a control endpoint it likewise waits for its setup packet to be      *)
(* asked for, or takes the request that was deferred.                      *)
LEMMA CreateRunning ==
    ASSUME CalmInv, NEW u \in Urbs, NEW dir \in Dirs, Create(u, dir), kind = "control",
           ep.active
    PROVE  CalmInv'
<1>1. /\ ep.id[u] = 0 /\ submits' \in Nat \ {0}
      /\ irq \notin {"in", "out"}
      /\ UNCHANGED <<setup, comps, events, irq, worker, dev>>
  BY CreateFields
<1>2. PICK b : Begins(b, u, dir, "setup_request") /\ b.in = ep.in
  BY CreateFields
<1>3. EpTypes(ep) /\ Linked(ep) /\ Works /\ Phase /\ Evq \in {0, 1}
  BY DEF CalmInv, CalmTypes, EpTypes, Evq, ControlInv, Stops
<1>4. /\ EpTypes(b) /\ b.giveback = ep.giveback /\ b.active = ep.active
      /\ b.stalled = ep.stalled /\ b.out = ep.out /\ b.evq = ep.evq
  BY <1>2 DEF Begins, Links
<1>5. CASE ep.list # <<>>
  <2>1. ep' = b
    BY <1>1, <1>2, <1>5, NotDeliveredYet
  <2>2. Links(ep, ep', u, dir, submits', "setup_request")
    BY <1>2, <2>1 DEF Begins
  <2>3. UNCHANGED urbView /\ Rest(ep', {"setup_request"})
    <3>1. Rest(ep, {"setup_request"}) /\ "setup_request" \in {"setup_request"}
      BY <1>3 DEF Works
    <3> QED
      BY <1>1, <1>5, <2>2, <3>1, LinkedLast
  <2>4. Linked(ep')
    BY <1>1, <1>3, <2>2, LinksOthers
  <2>5. Common'
    BY <1>1, <1>4, <2>1, <2>4, CreateCommon
  <2>6. UNCHANGED <<lineView, devView, Evq>>
    BY <1>1, <1>2, <1>4, <2>1, LineSame
  <2>7. Works'
    BY <1>1, <1>3, <1>4, <2>1, <2>3 DEF Works, worker
  <2>8. Phase'
    BY <1>1, <1>3, <2>3, <2>6, PhaseSame
  <2>9. NotStuck'
    BY <1>1, <2>3, <2>6 DEF CalmInv, NotStuck, urbView
  <2> QED
    BY <1>1, <2>5, <2>7, <2>8, <2>9 DEF CalmInv, Common, ControlInv, setup
<1>6. CASE ep.list = <<>>
  <2>1. /\ EpTypes(b) /\ Linked(b) /\ b.list # <<>> /\ b.status[Head(b.list)] = "none"
        /\ StateOf(b) = "setup_request" /\ Rest(b, {"setup_request"})
        /\ b.evq = Evq /\ b.out = Out
    BY <1>1, <1>2, <1>6, LinkedOnly
  <2>2. Waiting
    BY <1>3, <1>6, NoUrb DEF Busy, StateOf
  <2>3. /\ ~Halted /\ In = <<>> /\ Out = <<>> /\ DoneIn = <<>> /\ DoneOut = <<>>
        /\ \/ Stage = "idle" /\ Requested(0)
           \/ Stage = "asked" /\ Requested(1)
    BY <2>2 DEF Waiting, Still, NoComps
  <2>4. CASE Evq = 0
    <3>1. ep' = b
      BY <1>1, <1>2, <2>4, NotDeliveredYet
    <3>2. Common'
      BY <1>1, <1>4, <2>1, <3>1, CreateCommon
    <3>3. Works'
      BY <1>1, <1>3, <1>4, <2>1, <3>1 DEF Works, worker
    <3>4. Waiting'
      <4>1. /\ In' = <<>> /\ DoneIn' = <<>> /\ Out' = <<>> /\ DoneOut' = <<>>
            /\ Stage' = Stage /\ Evq' = Evq /\ events' = events /\ Halted' = Halted
        BY <1>1, <1>2, <1>4, <2>3, <3>1
           DEF In, Out, DoneIn, DoneOut, Stage, Evq, Halted
      <4>2. Busy' = "setup_request" /\ Status' = "none"
        BY <2>1, <3>1 DEF Busy, Status
      <4>3. \A n \in {0, 1} : Requested(n) => Requested(n)'
        BY <4>1 DEF Requested
      <4> QED
        BY <2>3, <4>1, <4>2, <4>3 DEF Waiting, Still, NoComps
    <3> QED
      BY <1>1, <1>4, <2>4, <3>1, <3>2, <3>3, <3>4
         DEF CalmInv, Common, NotStuck, ControlInv, Phase, Evq, setup
  <2>5. CASE Evq = 1
    <3>1. ep' = Deliver(b) /\ Delivers(b, ep', "setup", "setup_completion")
      BY <1>2, <2>1, <2>5, RequestDelivered DEF Begins, CalmInv, CalmTypes
    <3>2. /\ EpTypes(ep') /\ OnlyFirst(b, ep') /\ ep'.evq = 0 /\ ep'.in = b.in
          /\ ep'.state[Head(b.list)] = "setup_completion"
          /\ ep'.status[Head(b.list)] = b.status[Head(b.list)]
          /\ ep'.out = Append(b.out, [id |-> b.id[Head(b.list)], what |-> "setup",
                                      dir |-> b.dir[Head(b.list)]])
      BY <3>1 DEF Delivers
    <3>3. /\ ep'.list = b.list /\ ep'.dir = b.dir /\ ep'.id = b.id
          /\ ep'.giveback = b.giveback /\ ep'.active = b.active
          /\ ep'.stalled = b.stalled
      BY <3>2 DEF OnlyFirst
    <3>4. Linked(ep') /\ Rest(ep', {"setup_request"})
      BY <2>1, <3>1, DeliversOthers
    <3>5. Common'
      BY <1>1, <1>4, <3>2, <3>3, <3>4, CreateCommon
    <3>6. Works'
      BY <1>1, <1>3, <1>4, <3>3, <3>4 DEF Works, worker
    <3>7. SettingUp'
      <4>1. /\ In' = <<>> /\ DoneIn' = <<>> /\ DoneOut' = <<>>
            /\ Stage' = Stage /\ Evq' = 0 /\ events' = events /\ Halted' = Halted
        BY <1>1, <1>2, <1>4, <2>3, <3>2
           DEF In, DoneIn, DoneOut, Stage, Evq, Halted
      <4>2. Busy' = "setup_completion" /\ Status' = "none"
        BY <2>1, <3>2, <3>3 DEF Busy, StateOf, Status
      <4>3. Out' = Sub("setup")'
        <5>1. b.out = <<>> /\ Head(ep'.list) = Head(b.list)
          BY <2>1, <2>3, <3>3
        <5>2. \A x : Append(<<>>, x) = <<x>>
          OBVIOUS
        <5> QED
          BY <3>2, <3>3, <5>1, <5>2 DEF Out, Sub, Id, Dir
      <4>4. Stage = "asked" /\ events = <<>>
        BY <2>3, <2>5 DEF Requested
      <4> QED
        BY <2>3, <4>1, <4>2, <4>3, <4>4 DEF SettingUp, NoComps, Requested
    <3> QED
      BY <1>1, <3>2, <3>5, <3>6, <3>7
         DEF CalmInv, Common, NotStuck, ControlInv, Phase, Evq, setup
  <2> QED
    BY <1>3, <2>4, <2>5
<1> QED
  BY <1>5, <1>6

(* After a failure it waits for the reset.                                 *)
LEMMA CreateStopped ==
    ASSUME CalmInv, NEW u \in Urbs, NEW dir \in Dirs, Create(u, dir), kind = "control",
           ~ep.active
    PROVE  CalmInv'
<1>1. /\ ep.id[u] = 0 /\ submits' \in Nat \ {0}
      /\ irq \notin {"in", "out"}
      /\ UNCHANGED <<setup, comps, events, irq, worker, dev>>
  BY CreateFields
<1>2. PICK b : Begins(b, u, dir, "paused") /\ b.in = ep.in
  BY CreateFields
<1>3. EpTypes(ep) /\ Linked(ep) /\ Stops /\ Quiet
  BY DEF CalmInv, CalmTypes, ControlInv, Works, Failed
<1>4. PICK k \in 0..10 : ResetStep(k)
  BY DEF CalmInv, ControlInv, Works, Failed
<1>5. ep' = b
  BY <1>1, <1>2, <1>3, NotDeliveredYet DEF Quiet
<1>6. /\ Links(ep, ep', u, dir, submits', "paused") /\ EpTypes(ep')
      /\ ep'.giveback = ep.giveback /\ ep'.active = ep.active /\ ep'.in = ep.in
      /\ ep'.stalled = ep.stalled /\ ep'.out = ep.out /\ ep'.evq = ep.evq
  BY <1>2, <1>5 DEF Begins, Links
<1>7. Linked(ep')
  BY <1>1, <1>3, <1>6, LinksOthers
<1>8. Common'
  BY <1>1, <1>6, <1>7, CreateCommon
<1>9. /\ UNCHANGED <<lineView, devView, Evq>>
  BY <1>1, <1>6, LineSame
<1>10. Quiet' /\ Stops'
  <2>1. CASE ep.list # <<>>
    <3>1. UNCHANGED urbView /\ Rest(ep', {"setup_request", "paused"})
      <4>1. Rest(ep, {"setup_request", "paused"}) /\ "paused" \in {"setup_request", "paused"}
        BY <1>3 DEF Stops
      <4> QED
        BY <1>1, <1>6, <2>1, <4>1, LinkedLast
    <3> QED
      BY <1>1, <1>3, <1>6, <1>9, <3>1 DEF Quiet, Stops, urbView, devView
  <2>2. CASE ep.list = <<>>
    <3>1. /\ StateOf(b) = "paused" /\ b.status[Head(b.list)] = "none"
          /\ Rest(b, {"setup_request", "paused"})
      BY <1>1, <1>2, <2>2, LinkedOnly
    <3> QED
      BY <1>1, <1>3, <1>5, <1>6, <1>9, <3>1 DEF Quiet, Stops, Busy, Status, devView
  <2> QED
    BY <2>1, <2>2
<1>11. ResetStep(k)'
  BY <1>1, <1>4, <1>6, <1>9 DEF ResetStep, worker, lineView, devView
<1> QED
  BY <1>1, <1>8, <1>10, <1>11
     DEF CalmInv, Common, NotStuck, ControlInv, Failed, Quiet, setup

(* Whatever the endpoint, a new URB keeps the invariant.                   *)
LEMMA CreateStep ==
    ASSUME CalmInv, NEW u \in Urbs, NEW dir \in Dirs, Create(u, dir)
    PROVE  CalmInv'
<1>1. kind \in {"in", "out", "control"} /\ ep.active \in BOOLEAN
  BY DEF CalmInv, CalmTypes, EpTypes
<1> QED
  BY <1>1, CreateIn, CreateOut, CreateRunning, CreateStopped

-----------------------------------------------------------------------------
(***************************************************************************)
(* Steps of the first URB                                                  *)
(***************************************************************************)
Ends(r) == ep'.giveback = Append(ep.giveback, r) /\ (r.status = "ok" => r.id \in dev'.served)

(* A step that gives back an URB, if any, only with the status the device  *)
(* has given it keeps what holds of every kind.                            *)
LEMMA StepCommon ==
    ASSUME CalmInv, EpTypes(ep'), Linked(ep'), UNCHANGED setup,
           ep'.giveback = ep.giveback \/ (\E r \in Givebacks : Ends(r)),
           comps' = [sq \in {"in", "out"} |-> comps'[sq]],
           dev' = [f \in DevFields |-> dev'[f]], dev'.on \in BOOLEAN, dev'.halted \in BOOLEAN,
           dev.served \subseteq dev'.served,
           irq' \in {"idle", "in", "out", "giveback"}, submits' = submits
    PROVE  Common'
<1>1. CalmTypes'
  BY DEF CalmInv, CalmTypes, setup
<1>2. Successful'
  <2>1. CASE ep'.giveback = ep.giveback
    BY <2>1 DEF CalmInv, Successful
  <2>2. CASE \E r \in Givebacks : Ends(r)
    <3>1. PICK r \in Givebacks : Ends(r)
      BY <2>2
    <3> DEFINE g == ep.giveback
               n == Len(ep.giveback)
    <3>2. g \in Seq(Givebacks)
      BY DEF CalmInv, CalmTypes, EpTypes
    <3>3. /\ n \in Nat /\ DOMAIN g = 1..n /\ DOMAIN ep'.giveback = 1..(n + 1)
          /\ ep'.giveback[n + 1] = r /\ \A i \in 1..n : ep'.giveback[i] = g[i]
      <4>1. ep'.giveback = Append(g, r)
        BY <3>1 DEF Ends
      <4>2. /\ Append(g, r) \in Seq(Givebacks) /\ Len(Append(g, r)) = n + 1
            /\ Append(g, r)[n + 1] = r /\ \A i \in 1..n : Append(g, r)[i] = g[i]
            /\ n \in Nat /\ DOMAIN g = 1..n
        BY <3>2, ListFacts, AppendFacts
      <4> QED
        BY <4>1, <4>2, ListFacts
    <3>4. \A i \in 1..(n + 1) : i \in 1..n \/ i = n + 1
      BY <3>3
    <3>5. \A i \in 1..n : g[i].status = "ok" => g[i].id \in dev'.served
      BY <3>3 DEF CalmInv, Successful
    <3> QED
      BY <3>1, <3>3, <3>4, <3>5 DEF Successful, Ends
  <2> QED
    BY <2>1, <2>2
<1> QED
  BY <1>1, <1>2 DEF Common

(* What the proofs need of a list of one event or two.                     *)
LEMMA EventFacts ==
    ASSUME NEW x, NEW y
    PROVE  /\ Head(<<x>>) = x /\ Tail(<<x>>) = <<>> /\ <<x>> # <<>>
           /\ Head(<<x, y>>) = x /\ Tail(<<x, y>>) = <<y>> /\ <<x, y>> # <<>>
           /\ \A z : <<x, y>> # <<z>>
OBVIOUS

(* What is asked for is now being sent to the device.                      *)
Asked == \/ Evq = 1 /\ events' = events
         \/ Evq = 0 /\ events # <<>> /\ Head(events) = "request" /\ events' = Tail(events)

(* A request in the hands of the interrupt thread is the only one.         *)
LEMMA AskedOnce ==
    ASSUME Asked
    PROVE  /\ ~Requested(0)
           /\ Requested(1) => events' = <<>>
           /\ Evq = 0 => events # <<"fail">> /\ events # <<"ok">> /\ events # <<"ok", "request">>
           /\ Evq = 0 /\ events = <<"request", "fail">> => events' = <<"fail">>
           /\ Evq = 1 => events' = events
<1>1. ~Requested(0) /\ (Evq = 1 => events' = events)
  BY DEF Asked, Requested
<1>2. Requested(1) => events' = <<>>
  <2>1. Tail(<<"request">>) = <<>>
    BY EventFacts
  <2> QED
    BY <2>1 DEF Asked, Requested
<1>3. Evq = 0 => Head(events) = "request" /\ events' = Tail(events)
  BY DEF Asked
<1>4. /\ Head(<<"fail">>) = "fail" /\ Head(<<"ok">>) = "ok" /\ Head(<<"ok", "request">>) = "ok"
      /\ Tail(<<"request", "fail">>) = <<"fail">>
  BY EventFacts
<1> QED
  BY <1>1, <1>2, <1>3, <1>4

(* The first URB answers the request it has been waiting for.              *)
LEMMA RequestAnswered ==
    ASSUME CalmInv, ep.list # <<>>, UNCHANGED <<setup, comps, todo, dev, submits>>,
           irq' \in {"idle", "in", "out", "giveback"}, Asked,
           kind = "control" => Status = "none",
           \/ Busy = "setup_request" /\ Delivers(ep, ep', "setup", "setup_completion")
           \/ Busy = "transfer_request" /\ Delivers(ep, ep', "out", "completion")
    PROVE  CalmInv'
<1> DEFINE u == Head(ep.list)
<1>1. /\ CalmTypes /\ EpTypes(ep) /\ Linked(ep)
  BY DEF CalmInv, CalmTypes
<1>2. /\ EpTypes(ep') /\ OnlyFirst(ep, ep') /\ ep'.evq = 0 /\ ep'.in = ep.in
      /\ ep'.status[u] = ep.status[u]
      /\ Linked(ep') /\ \A S : Rest(ep, S) => Rest(ep', S)
  BY <1>1, DeliversOthers DEF Delivers
<1>3. /\ ep'.list = ep.list /\ ep'.dir = ep.dir /\ ep'.id = ep.id
      /\ ep'.giveback = ep.giveback /\ ep'.work = ep.work /\ ep'.active = ep.active
      /\ ep'.stalled = ep.stalled /\ Head(ep'.list) = u
  BY <1>2 DEF OnlyFirst
<1>4. Common'
  BY <1>1, <1>2, <1>3, StepCommon DEF CalmTypes
<1>5. /\ Status' = Status /\ Dir' = Dir /\ Id' = Id /\ Sub("out")' = Sub("out")
      /\ Sub("setup")' = Sub("setup") /\ Done' = Done /\ Served' = Served
      /\ In' = In /\ DoneIn' = DoneIn /\ DoneOut' = DoneOut /\ Evq' = 0
      /\ Stage' = Stage /\ Halted' = Halted
  BY <1>2, <1>3 DEF Status, Dir, Id, Sub, Done, Served, In, DoneIn, DoneOut, Evq, Stage, Halted
<1>6. /\ Busy = "setup_request" =>
            Busy' = "setup_completion" /\ (Out = <<>> => Out' = Sub("setup"))
      /\ Busy = "transfer_request" =>
            Busy' = "completion" /\ (Out = <<>> => Out' = Sub("out"))
  <2>1. \A x : Append(<<>>, x) = <<x>>
    OBVIOUS
  <2> QED
    BY <1>3, <2>1 DEF Delivers, Busy, StateOf, Out, Sub, Id, Dir
<1>7. NotStuck'
  BY <1>5 DEF NotStuck
<1>8. CASE kind = "in"
  BY <1>8 DEF CalmInv, InInv, Asked
<1>9. CASE kind = "out"
  <2>1. /\ Undisturbed /\ In = <<>> /\ DoneIn = <<>> /\ Rest(ep, {"transfer_request"})
        /\ Busy = "transfer_request" /\ Out = <<>> /\ DoneOut = <<>>
        /\ Stage = "asked_data" /\ Requested(1)
    <3>1. Busy \in {"setup_request", "transfer_request"} /\ ~Requested(0)
      BY AskedOnce
    <3> QED
      BY <1>9, <3>1 DEF CalmInv, OutInv
  <2>2. Undisturbed'
    BY <1>3, <2>1 DEF Undisturbed, Halted
  <2>3. Requested(0)'
    BY <1>5, <2>1, AskedOnce DEF Requested
  <2>4. OutInv'
    BY <1>2, <1>5, <1>6, <2>1, <2>2, <2>3 DEF OutInv
  <2> QED
    BY <1>4, <1>7, <1>9, <2>4 DEF CalmInv, Common, setup
<1>10. CASE kind = "control"
  <2>1. Works /\ Phase
    <3>1. Quiet => FALSE
      BY DEF Asked, Quiet
    <3> QED
      BY <1>10, <3>1 DEF CalmInv, ControlInv, Failed
  <2>2. Works'
    BY <1>2, <1>3, <2>1 DEF Works
  <2>3. CASE Busy = "setup_request"
    <3>1. Waiting
      BY <2>1, <2>3 DEF Phase, SettingUp, Serves, Ended, Failing, SetupDone, InSent,
                        InDone, OutAwaited, OutSent, OutDone, DataDone
    <3>2. Stage = "asked" /\ Requested(1)
      BY <3>1, AskedOnce DEF Waiting
    <3>3. Requested(0)'
      BY <1>5, <3>2, AskedOnce DEF Requested
    <3>4. SettingUp'
      BY <1>5, <1>6, <1>10, <2>3, <3>1, <3>2, <3>3 DEF SettingUp, Waiting, Still, NoComps
    <3> QED
      BY <1>4, <1>7, <1>10, <2>2, <3>4 DEF CalmInv, Common, ControlInv, Phase, setup
  <2>4. CASE Busy = "transfer_request"
    <3>1. OutAwaited /\ (Serves \/ Failing)
      BY <1>10, <2>1, <2>4
         DEF Phase, Waiting, SettingUp, Serves, Ended, Failing, SetupDone, InSent,
             InDone, OutAwaited, OutSent, OutDone, DataDone
    <3>2. OutSent'
      BY <1>5, <1>6, <2>4, <3>1 DEF OutAwaited, OutSent, Still, NoComps
    <3>3. Phase'
      <4>1. CASE Serves
        <5>1. Stage = "asked_data" /\ Requested(1)
          BY <1>10, <2>4, <4>1, AskedOnce
             DEF Serves, SetupDone, InSent, InDone, OutDone, OutSent, DataDone
        <5>2. Requested(0)'
          BY <1>5, <5>1, AskedOnce DEF Requested
        <5> QED
          BY <1>5, <3>2, <4>1, <5>1, <5>2 DEF Phase, Serves
      <4>2. CASE Failing
        <5>1. \/ Evq = 0 /\ events = <<"fail">>
              \/ Evq = 1 /\ events = <<"fail">>
              \/ Evq = 0 /\ events = <<"request", "fail">>
          BY <1>10, <4>2 DEF Failing
        <5>2. events' = <<"fail">>
          BY <5>1, AskedOnce
        <5> QED
          BY <1>5, <1>10, <3>2, <4>2, <5>2 DEF Phase, Failing
      <4> QED
        BY <3>1, <4>1, <4>2
    <3> QED
      BY <1>4, <1>7, <1>10, <2>2, <3>3 DEF CalmInv, Common, ControlInv, setup
  <2> QED
    BY <2>3, <2>4
<1> QED
  BY <1>1, <1>8, <1>9, <1>10 DEF CalmTypes

(* A transfer fails: the queue stops until it is reset.                    *)
LEMMA FailureEnds ==
    ASSUME CalmInv, kind = "control", Works, Halted, Stage = "idle", ep.list # <<>>,
           NEW c, EpTypes(c), Linked(c), Rest(c, {"setup_request"}), c.list # <<>>,
           c.giveback = ep.giveback, NEW f, Completes(c, f, "fail"),
           UrbsSame(f, ep'), EpTypes(ep'), ~ep'.active, ep'.stalled, ep'.evq = 0,
           UNCHANGED <<setup, comps, dev, todo, submits>>, events' = <<>>,
           irq' \in {"idle", "in", "out", "giveback"}
    PROVE  CalmInv'
<1> DEFINE r == [urb |-> Head(c.list), id |-> c.id[Head(c.list)], status |-> "fail"]
<1>1. /\ Linked(f) /\ Rest(f, {"setup_request"})
      /\ \/ StateOf(f) = "empty"
         \/ StateOf(f) = "setup_request" /\ f.status[Head(f.list)] = "none"
  BY CompletesOthers
<1>2. /\ f.giveback = Append(ep.giveback, r) /\ r \in Givebacks /\ r.status = "fail"
  <2>1. Head(c.list) \in Urbs /\ c.id[Head(c.list)] \in Nat
    BY HeadLinked
  <2> QED
    BY <2>1 DEF Completes, Givebacks
<1> HIDE DEF r
<1>3. /\ ep'.list = f.list /\ ep'.state = f.state /\ ep'.status = f.status
      /\ ep'.dir = f.dir /\ ep'.id = f.id /\ ep'.giveback = f.giveback
  BY DEF UrbsSame, ListSame
<1>4. Linked(ep') /\ Rest(ep', {"setup_request"})
  BY <1>1, <1>3 DEF Linked, Rest
<1>5. Common'
  <2>1. Ends(r)
    BY <1>2, <1>3 DEF Ends
  <2> QED
    BY <1>2, <1>4, <2>1, StepCommon DEF CalmInv, CalmTypes
<1>6. Busy' = StateOf(f) /\ Status' = f.status[Head(f.list)]
  BY <1>3 DEF Busy, StateOf, Status
<1>7. Quiet'
  BY <1>1, <1>6 DEF Quiet, Evq, Stage
<1>8. Stops'
  BY <1>4 DEF Stops, Rest
<1>9. Failed'
  <2>1. todo = <<>> \/ todo = ResetSteps
    BY DEF Works
  <2>2. dev.on
    BY DEF Works
  <2>3. CASE todo = <<>>
    <3>1. ResetStep(0)'
      BY <2>2, <2>3, LastStepsEnds DEF ResetStep, Halted
    <3> QED
      BY <1>7, <3>1 DEF Failed
  <2>4. CASE todo = ResetSteps
    <3>1. ResetStep(10)'
      BY <2>2, <2>4, LastStepsEnds DEF ResetStep, Halted
    <3> QED
      BY <1>7, <3>1 DEF Failed
  <2> QED
    BY <2>1, <2>3, <2>4
<1> QED
  BY <1>5, <1>8, <1>9 DEF CalmInv, Common, NotStuck, ControlInv, Evq, setup

(* A request answered after the failure: the data is handed to the device  *)
(* that will not take it, and the failure is handled then.                 *)
LEMMA RequestFails ==
    ASSUME NEW e, EpTypes(e), e.list # <<>>, kind = "control", mode = "calm", e.evq = 1,
           e.state[Head(e.list)] = "transfer_request", e.status[Head(e.list)] = "fail"
    PROVE  \E c, f : /\ Moves(e, c, "completion") /\ Completes(c, f, "fail")
                     /\ UrbsSame(f, Deliver(e)) /\ EpTypes(Deliver(e))
                     /\ ~Deliver(e).active /\ Deliver(e).stalled /\ Deliver(e).evq = 0
<1> DEFINE u == Head(e.list)
           c == SendOut(e, u, "out", "completion")
           f == CheckStatus(c, u)
           g == [f EXCEPT !.evq = @ - 1]
<1>1. "completion" \in UrbStates
  BY DEF UrbStates
<1>2. Moves(e, c, "completion")
  BY <1>1, SendOutFields
<1>3. Deliver(e) = g
  <2>1. TransferRequest(e, u) = f
    BY RoomAndWhole DEF TransferRequest
  <2>2. Deliverable(e)
    BY DEF Deliverable, Again
  <2> HIDE DEF f
  <2> QED
    BY <2>1, <2>2, DeliverFields DEF DeliverOne
<1> HIDE DEF c
<1>4. /\ EpTypes(c) /\ c.list = e.list /\ c.evq = 1 /\ Head(c.list) = u /\ c.list # <<>>
      /\ c.state[u] = "completion" /\ c.status[u] = "fail"
  BY <1>2 DEF Moves, OnlyFirst
<1>5. Completes(c, f, "fail") /\ f.active = FALSE /\ f.stalled = TRUE
  <2>1. f = CheckStatus(c, Head(c.list))
    BY <1>4
  <2> HIDE DEF f
  <2>2. c.state[Head(c.list)] \notin {"setup_request", "setup_completion"}
        /\ c.status[Head(c.list)] = "fail"
    BY <1>4
  <2> QED
    BY <1>4, <2>1, <2>2, CheckStatusFields
<1> HIDE DEF f
<1>6. EpTypes(f) /\ f.evq = 1
  BY <1>4, <1>5 DEF Completes
<1>7. /\ EpTypes(g) /\ g.evq = 0 /\ UrbsSame(f, g)
      /\ g.active = f.active /\ g.stalled = f.stalled
  BY <1>6, RequestTaken DEF UrbsSame, ListSame
<1> HIDE DEF g
<1> QED
  BY <1>2, <1>3, <1>5, <1>7

(* The end of the loop of bce_vhci_transfer_queue_completion.              *)
LEMMA CompletionsTakenStep ==
    ASSUME CalmInv, CompletionsTaken
    PROVE  CalmInv'
<1>1. /\ irq' = "giveback" /\ ep' = Deliver(ep)
      /\ UNCHANGED <<setup, comps, events, todo, dev, submits>>
  BY DEF CompletionsTaken, worker, bounds
<1>2. /\ CalmTypes /\ EpTypes(ep) /\ Linked(ep) /\ Evq \in {0, 1} /\ Evq = ep.evq
  BY DEF CalmInv, CalmTypes, EpTypes, Evq
<1>3. CASE Evq = 0 \/ Busy \notin {"setup_request", "transfer_request"}
  <2>1. ep' = ep
    BY <1>1, <1>2, <1>3, NothingToDeliver DEF Busy
  <2>2. Common'
    BY <1>1, <1>2, <2>1, StepCommon DEF CalmTypes
  <2>3. /\ (kind = "in" => InInv)' /\ (kind = "out" => OutInv)'
        /\ (kind = "control" => ControlInv)'
    BY <1>1, <2>1, KindsSame DEF setup, ListSame
  <2>4. NotStuck'
    BY <1>1, <1>3, <2>1 DEF NotStuck, Evq, Busy
  <2> QED
    BY <2>2, <2>3, <2>4 DEF CalmInv, Common
<1>4. CASE Evq = 1 /\ Busy \in {"setup_request", "transfer_request"}
  <2>1. ep.list # <<>> /\ Busy = ep.state[Head(ep.list)]
    BY <1>4 DEF Busy, StateOf
  <2>2. CASE kind = "control" => Status = "none"
    <3>1. /\ Busy = "setup_request" => Delivers(ep, ep', "setup", "setup_completion")
          /\ Busy = "transfer_request" => Delivers(ep, ep', "out", "completion")
      BY <1>1, <1>2, <1>4, <2>1, <2>2, RequestDelivered
         DEF Busy, Status, CalmInv, CalmTypes
    <3>2. Asked
      BY <1>1, <1>4 DEF Asked
    <3> QED
      BY <1>1, <1>4, <2>1, <2>2, <3>1, <3>2, RequestAnswered
  <2>3. CASE kind = "control" /\ Status # "none"
    <3>1. Works /\ Failing /\ Status = "fail" /\ Busy = "transfer_request"
      <4>1. Works /\ Phase
        BY <1>4, <2>3 DEF CalmInv, ControlInv, Failed, Quiet
      <4>2. Failing
        BY <1>4, <2>3, <4>1
           DEF Phase, Waiting, SettingUp, Serves, Ended, SetupDone, InDone, OutDone, DataDone
      <4> QED
        BY <1>4, <2>3, <4>1, <4>2 DEF Failing, SetupDone
    <3>2. PICK c, f : /\ Moves(ep, c, "completion") /\ Completes(c, f, "fail")
                      /\ UrbsSame(f, ep') /\ EpTypes(ep')
                      /\ ~ep'.active /\ ep'.stalled /\ ep'.evq = 0
      BY <1>1, <1>2, <1>4, <2>1, <2>3, <3>1, RequestFails
         DEF Status, CalmInv, CalmTypes
    <3>3. Linked(c) /\ Rest(c, {"setup_request"})
      BY <1>2, <2>1, <3>1, <3>2, MovesOthers DEF Works
    <3>4. EpTypes(c) /\ c.list # <<>> /\ c.giveback = ep.giveback
      BY <2>1, <3>2 DEF Moves, OnlyFirst
    <3>5. Halted /\ Stage = "idle" /\ events' = <<>>
      BY <1>1, <2>3, <3>1 DEF Failing
    <3> QED
      BY <1>1, <2>1, <2>3, <3>1, <3>2, <3>3, <3>4, <3>5, FailureEnds
  <2> QED
    BY <2>2, <2>3
<1> QED
  BY <1>2, <1>3, <1>4

(* A transfer ends well: the next URB waits for its turn.                  *)
LEMMA SuccessEnds ==
    ASSUME CalmInv, kind = "control", Works, ~Halted, Served, ep.list # <<>>,
           NEW c, EpTypes(c), Linked(c), Rest(c, {"setup_request"}), c.list = ep.list,
           c.giveback = ep.giveback, c.id = ep.id, Completes(c, ep', "ok"),
           ep'.active, ~ep'.stalled,
           In' = <<>>, Out' = <<>>, DoneIn' = <<>>, DoneOut' = <<>>,
           \/ Stage = "idle" /\ Requested(0)'
           \/ Stage = "asked" /\ Requested(1)',
           irq' \in {"in", "out"} \/ (irq' \in {"idle", "giveback"} /\ Evq' = 0),
           comps' = [q \in {"in", "out"} |-> comps'[q]],
           UNCHANGED <<setup, dev, todo, submits>>
    PROVE  CalmInv'
<1> DEFINE r == [urb |-> Head(c.list), id |-> c.id[Head(c.list)], status |-> "ok"]
<1>1. /\ Linked(ep') /\ Rest(ep', {"setup_request"})
      /\ \/ StateOf(ep') = "empty"
         \/ StateOf(ep') = "setup_request" /\ ep'.status[Head(ep'.list)] = "none"
  BY CompletesOthers
<1>2. /\ ep'.giveback = Append(ep.giveback, r) /\ r \in Givebacks /\ r.id = Id
  <2>1. Head(c.list) \in Urbs /\ c.id[Head(c.list)] \in Nat
    BY HeadLinked
  <2> QED
    BY <2>1 DEF Completes, Givebacks, Id
<1>3. Ends(r)
  BY <1>2 DEF Ends, Served
<1> HIDE DEF r
<1>4. EpTypes(ep')
  BY DEF Completes
<1>5. Common'
  <2>1. irq' \in {"idle", "in", "out", "giveback"}
    OBVIOUS
  <2> QED
    BY <1>1, <1>2, <1>3, <1>4, <2>1, StepCommon DEF CalmInv, CalmTypes
<1>6. Works'
  BY <1>1 DEF Works
<1>7. Waiting'
  BY <1>1 DEF Waiting, Busy, Status, Still, NoComps, Halted, Stage
<1> QED
  BY <1>5, <1>6, <1>7 DEF CalmInv, Common, NotStuck, ControlInv, Phase, setup

-----------------------------------------------------------------------------
(***************************************************************************)
(* Completions                                                             *)
(***************************************************************************)
LEMMA CompletionFields ==
    ASSUME CalmInv, NEW sq \in {"in", "out"}, TakeCompletion(sq)
    PROVE  /\ comps[sq] # <<>> /\ comps'[sq] = Tail(comps[sq])
           /\ \A q \in {"in", "out"} \ {sq} : comps'[q] = comps[q]
           /\ comps' = [q \in {"in", "out"} |-> comps'[q]]
           /\ ep' = Completion(ep, Head(comps[sq]))
           /\ irq' = sq
           /\ UNCHANGED <<setup, events, todo, dev, submits>>
<1>1. comps = [q \in {"in", "out"} |-> comps[q]]
  BY DEF CalmInv, CalmTypes
<1>2. comps' = [comps EXCEPT ![sq] = Tail(comps[sq])]
  BY DEF TakeCompletion
<1> QED
  BY <1>1, <1>2 DEF TakeCompletion, worker, bounds

(* That of the first URB, the only one of its queue.                       *)
LEMMA FirstCompletion ==
    ASSUME CalmInv, NEW sq \in {"in", "out"}, TakeCompletion(sq), comps[sq] = Done,
           ep.list # <<>>
    PROVE  /\ comps'[sq] = <<>>
           /\ kind = "control" => ep' = ControlCompletion(ep, Head(ep.list))
           /\ kind # "control" => ep' = DataCompletion(ep, Head(ep.list))
<1>1. Head(Done) = [id |-> Id, aborted |-> FALSE] /\ Tail(Done) = <<>>
  BY DEF Done
<1>2. ~Head(Done).aborted
  BY <1>1
<1> QED
  BY <1>1, <1>2, CompletionFields DEF Completion

(* On an OUT endpoint the URB whose data the device has is given back, and *)
(* the next one may answer a request at once.                              *)
LEMMA TakeCompletionOut ==
    ASSUME CalmInv, NEW sq \in {"in", "out"}, TakeCompletion(sq), kind = "out"
    PROVE  CalmInv'
<1>1. /\ comps[sq] # <<>> /\ irq' = sq
      /\ \A q \in {"in", "out"} \ {sq} : comps'[q] = comps[q]
      /\ comps' = [q \in {"in", "out"} |-> comps'[q]]
      /\ UNCHANGED <<setup, events, todo, dev, submits>>
  BY CompletionFields
<1>2. /\ sq = "out" /\ Busy = "completion" /\ Out = <<>> /\ DoneOut = Done /\ Served
      /\ \/ Stage = "idle" /\ Requested(0)
         \/ Stage = "asked_data" /\ Requested(1)
      /\ Undisturbed /\ In = <<>> /\ DoneIn = <<>> /\ Rest(ep, {"transfer_request"})
  BY <1>1 DEF CalmInv, OutInv, DoneIn, DoneOut
<1>3. ep.list # <<>> /\ ep.state[Head(ep.list)] = "completion"
  BY <1>2 DEF Busy, StateOf
<1>4. ep' = Complete(ep, Head(ep.list), "ok") /\ DoneOut' = <<>> /\ DoneIn' = DoneIn
  <2>1. \A v : ~Partly(ep, v)
    BY RoomAndWhole DEF CalmInv, CalmTypes
  <2> QED
    BY <1>1, <1>2, <1>3, <2>1, FirstCompletion DEF DoneOut, DoneIn, DataCompletion
<1>5. EpTypes(ep) /\ Linked(ep)
  BY DEF CalmInv, CalmTypes
<1>6. /\ Completes(ep, ep', "ok")
      /\ ep'.active = ep.active /\ ep'.stalled = ep.stalled /\ ep'.work = ep.work
  BY <1>3, <1>4, <1>5, CompleteFields
<1>7. /\ Linked(ep') /\ Rest(ep', {"transfer_request"})
      /\ StateOf(ep') = "empty" \/ StateOf(ep') = "transfer_request"
  BY <1>2, <1>3, <1>5, <1>6, CompletesOthers
<1> DEFINE r == [urb |-> Head(ep.list), id |-> ep.id[Head(ep.list)], status |-> "ok"]
<1>8. /\ EpTypes(ep') /\ ep'.evq = ep.evq /\ ep'.in = ep.in /\ ep'.out = ep.out
      /\ ep'.giveback = Append(ep.giveback, r)
  BY <1>6 DEF Completes
<1>9. r \in Givebacks /\ Ends(r)
  <2>1. Head(ep.list) \in Urbs /\ ep.id[Head(ep.list)] \in Nat
    BY <1>3, <1>5, HeadLinked
  <2> QED
    BY <1>1, <1>2, <1>8, <2>1 DEF Givebacks, Ends, Served, Id
<1> HIDE DEF r
<1>10. Common'
  BY <1>1, <1>7, <1>8, <1>9, StepCommon DEF CalmInv, CalmTypes
<1>11. Undisturbed'
  BY <1>1, <1>2, <1>6 DEF Undisturbed, Halted
<1>12. OutInv'
  <2>1. \A n \in {0, 1} : Requested(n) => Requested(n)'
    BY <1>1, <1>8 DEF Requested, Evq
  <2> QED
    BY <1>1, <1>2, <1>4, <1>7, <1>8, <1>11, <2>1
       DEF OutInv, Busy, In, Out, Stage
<1> QED
  BY <1>1, <1>10, <1>12 DEF CalmInv, Common, NotStuck, setup

(* On an IN endpoint the first completion ends the first URB.              *)
LEMMA TakeCompletionIn ==
    ASSUME CalmInv, NEW sq \in {"in", "out"}, TakeCompletion(sq), kind = "in"
    PROVE  CalmInv'
<1> DEFINE N == Len(ep.list)
           k == Len(DoneIn)
           m == Len(In)
           u == Head(ep.list)
           Cs == [id : Nat, aborted : BOOLEAN]
<1>1. /\ comps[sq] # <<>> /\ irq' = sq
      /\ comps'[sq] = Tail(comps[sq]) /\ ep' = Completion(ep, Head(comps[sq]))
      /\ \A q \in {"in", "out"} \ {sq} : comps'[q] = comps[q]
      /\ comps' = [q \in {"in", "out"} |-> comps'[q]]
      /\ UNCHANGED <<setup, events, todo, dev, submits>>
  BY CompletionFields
<1>2. EpTypes(ep) /\ Linked(ep) /\ InInv
  BY DEF CalmInv, CalmTypes
<1>3. sq = "in" /\ DoneIn # <<>> /\ DoneIn \in Seq(Cs) /\ comps[sq] = DoneIn
  BY <1>1, <1>2 DEF InInv, DoneIn, DoneOut
<1>4. "out" \in {"in", "out"} \ {sq}
  BY <1>3
<1>5. DoneOut' = DoneOut /\ DoneIn' = Tail(DoneIn)
  BY <1>1, <1>3, <1>4 DEF DoneIn, DoneOut
<1>6. /\ k \in Nat /\ m \in Nat /\ N \in Nat /\ N = k + m /\ k >= 1 /\ N >= 1
      /\ DOMAIN DoneIn = 1..k /\ DOMAIN In = 1..m /\ DOMAIN ep.list = 1..N
      /\ Head(DoneIn) = DoneIn[1] /\ Tail(DoneIn) \in Seq(Cs)
      /\ Len(Tail(DoneIn)) = k - 1 /\ DOMAIN Tail(DoneIn) = 1..(k - 1)
      /\ \A i \in 1..(k - 1) : Tail(DoneIn)[i] = DoneIn[i + 1]
  <2>1. /\ k \in Nat /\ k >= 1 /\ DOMAIN DoneIn = 1..k /\ Head(DoneIn) = DoneIn[1]
        /\ Tail(DoneIn) \in Seq(Cs) /\ Len(Tail(DoneIn)) = k - 1
        /\ \A i \in 1..(k - 1) : Tail(DoneIn)[i] = DoneIn[i + 1]
    BY <1>3, ListFacts
  <2>2. DOMAIN Tail(DoneIn) = 1..(k - 1)
    BY <2>1, ListFacts
  <2>3. /\ m \in Nat /\ N \in Nat /\ DOMAIN In = 1..m /\ DOMAIN ep.list = 1..N
        /\ N = k + m
    BY <1>2, ListFacts DEF InInv, EpTypes
  <2> QED
    BY <2>1, <2>2, <2>3
<1>7. /\ ep.list # <<>> /\ u = ep.list[1] /\ u \in Urbs
      /\ Len(Tail(ep.list)) = N - 1 /\ DOMAIN Tail(ep.list) = 1..(N - 1)
      /\ \A i \in 1..(N - 1) : Tail(ep.list)[i] = ep.list[i + 1]
      /\ \A i \in 1..N : ep.list[i] \in Urbs
  <2>1. ep.list # <<>>
    BY <1>6
  <2>2. /\ u = ep.list[1] /\ Len(Tail(ep.list)) = N - 1 /\ Tail(ep.list) \in Seq(Urbs)
        /\ \A i \in 1..(N - 1) : Tail(ep.list)[i] = ep.list[i + 1]
        /\ \A i \in 1..N : ep.list[i] \in Urbs
    <3>1. ep.list \in Seq(Urbs)
      BY <1>2 DEF EpTypes
    <3> QED
      BY <2>1, <3>1, ListFacts
  <2>3. DOMAIN Tail(ep.list) = 1..(N - 1)
    BY <2>2, ListFacts
  <2>4. 1 \in 1..N
    BY <1>6
  <2> QED
    BY <2>1, <2>2, <2>3, <2>4
<1>8. 1 \in 1..N /\ 1 \in 1..k
  BY <1>6
<1>9. /\ DoneIn[1] = [id |-> ep.id[u], aborted |-> FALSE] /\ DoneIn[1].id \in dev.served
      /\ ep.state[u] = "completion"
  <2>1. 1 \in DOMAIN DoneIn /\ 1 \in DOMAIN ep.list /\ u = ep.list[1]
    BY <1>6, <1>7, <1>8
  <2> QED
    BY <1>2, <2>1 DEF InInv
<1>10. ep' = Complete(ep, u, "ok")
  <2>1. ~Head(comps[sq]).aborted
    BY <1>3, <1>6, <1>9
  <2>2. \A v : ~Partly(ep, v)
    BY RoomAndWhole DEF CalmInv, CalmTypes
  <2> QED
    BY <1>1, <1>7, <1>9, <2>1, <2>2 DEF Completion, DataCompletion
<1>11. /\ Completes(ep, ep', "ok")
       /\ ep'.active = ep.active /\ ep'.stalled = ep.stalled /\ ep'.work = ep.work
  BY <1>2, <1>7, <1>10, CompleteFields
<1>12. Linked(ep')
  BY <1>2, <1>7, <1>11, CompletesOthers
<1> DEFINE r == [urb |-> u, id |-> ep.id[u], status |-> "ok"]
<1>13. /\ EpTypes(ep') /\ ep'.evq = ep.evq /\ ep'.in = ep.in /\ ep'.out = ep.out
       /\ ep'.giveback = Append(ep.giveback, r) /\ ep'.list = Tail(ep.list)
       /\ \A v \in Urbs \ {u} : ep'.state[v] = ep.state[v] /\ ep'.id[v] = ep.id[v]
  BY <1>11 DEF Completes
<1>14. r \in Givebacks /\ Ends(r)
  <2>1. ep.id[u] \in Nat
    BY <1>2, <1>7, HeadLinked
  <2> QED
    BY <1>1, <1>7, <1>9, <1>13, <2>1 DEF Givebacks, Ends
<1> HIDE DEF r
<1>15. Common'
  BY <1>1, <1>12, <1>13, <1>14, StepCommon DEF CalmInv, CalmTypes
<1>16. Undisturbed'
  BY <1>1, <1>2, <1>11 DEF InInv, Undisturbed, Halted
<1>17. \A i \in 1..(N - 1) : /\ i + 1 \in 1..N /\ ep'.list[i] = ep.list[i + 1]
                             /\ ep.list[i + 1] \in Urbs \ {u}
  <2>1. \A i \in 1..(N - 1) : i + 1 \in 1..N /\ i + 1 # 1
    BY <1>6
  <2>2. \A i \in 1..N : i # 1 => ep.list[i] # ep.list[1]
    BY <1>2, <1>6, <1>8 DEF Linked
  <2> QED
    BY <1>7, <1>13, <2>1, <2>2
<1>18. \A i \in 1..(N - 1) : /\ ep'.state[ep'.list[i]] = "completion"
                             /\ ep'.id[ep'.list[i]] = ep.id[ep.list[i + 1]]
  <2>1. \A i \in 1..N : ep.state[ep.list[i]] = "completion"
    BY <1>2, <1>6 DEF InInv
  <2> QED
    BY <1>13, <1>17, <2>1
<1>19. \A i \in DOMAIN DoneIn' :
          /\ DoneIn'[i] = [id |-> ep'.id[ep'.list[i]], aborted |-> FALSE]
          /\ DoneIn'[i].id \in dev'.served
  <2>1. \A i \in 1..(k - 1) : i + 1 \in 1..k /\ i \in 1..(N - 1)
    BY <1>6
  <2>2. \A i \in 1..k : /\ DoneIn[i] = [id |-> ep.id[ep.list[i]], aborted |-> FALSE]
                        /\ DoneIn[i].id \in dev.served
    BY <1>2, <1>6 DEF InInv
  <2>3. ASSUME NEW i \in 1..(k - 1)
        PROVE  /\ DoneIn'[i] = [id |-> ep'.id[ep'.list[i]], aborted |-> FALSE]
               /\ DoneIn'[i].id \in dev'.served
    <3>1. i + 1 \in 1..k /\ i \in 1..(N - 1) /\ DoneIn'[i] = DoneIn[i + 1]
      BY <1>5, <1>6, <2>1
    <3>2. /\ DoneIn[i + 1] = [id |-> ep.id[ep.list[i + 1]], aborted |-> FALSE]
          /\ DoneIn[i + 1].id \in dev.served
      BY <2>2, <3>1
    <3> QED
      BY <1>1, <1>18, <3>1, <3>2
  <2> QED
    BY <1>5, <1>6, <2>3
<1>20. \A i \in DOMAIN In' : In'[i].id = ep'.id[ep'.list[Len(DoneIn') + i]]
  <2>1. In' = In /\ Len(DoneIn') = k - 1
    BY <1>5, <1>6, <1>13 DEF In
  <2>2. ASSUME NEW i \in 1..m
        PROVE  In[i].id = ep'.id[ep'.list[k - 1 + i]]
    <3>1. k - 1 + i \in 1..(N - 1) /\ (k - 1 + i) + 1 = k + i
      BY <1>6
    <3>2. In[i].id = ep.id[ep.list[k + i]]
      BY <1>2, <1>6 DEF InInv
    <3> QED
      BY <1>18, <3>1, <3>2
  <2> QED
    BY <1>6, <2>1, <2>2
<1>21. InInv'
  <2>1. Len(ep'.list) = Len(DoneIn') + Len(In')
    <3>1. In' = In
      BY <1>13 DEF In
    <3> QED
      BY <1>5, <1>6, <1>7, <1>13, <3>1
  <2>2. \A i \in DOMAIN ep'.list : ep'.state[ep'.list[i]] = "completion"
    BY <1>7, <1>13, <1>18
  <2> QED
    BY <1>1, <1>2, <1>5, <1>6, <1>13, <1>16, <1>19, <1>20, <2>1, <2>2
       DEF InInv, Stage, Out, Evq, In
<1> QED
  BY <1>1, <1>15, <1>21 DEF CalmInv, Common, NotStuck, setup

(* The setup packet's completion starts the data stage.                    *)
LEMMA SetupTaken ==
    ASSUME CalmInv, NEW sq \in {"in", "out"}, TakeCompletion(sq), kind = "control",
           Works, Phase, SetupDone
    PROVE  CalmInv'
<1> DEFINE u == Head(ep.list)
<1>1. /\ comps[sq] # <<>> /\ irq' = sq
      /\ \A q \in {"in", "out"} \ {sq} : comps'[q] = comps[q]
      /\ comps' = [q \in {"in", "out"} |-> comps'[q]]
      /\ UNCHANGED <<setup, events, todo, dev, submits>>
  BY CompletionFields
<1>2. EpTypes(ep) /\ Linked(ep) /\ Rest(ep, {"setup_request"})
  BY DEF CalmInv, CalmTypes, Works
<1>3. sq = "out" /\ comps[sq] = Done /\ DoneIn = <<>> /\ In = <<>> /\ Out = <<>>
  BY <1>1 DEF SetupDone, DoneIn, DoneOut, Still
<1>4. "in" \in {"in", "out"} \ {sq}
  BY <1>3
<1>5. ep.list # <<>> /\ ep.state[u] = "setup_completion"
  BY DEF SetupDone, Busy, StateOf
<1>6. /\ DoneOut' = <<>> /\ DoneIn' = <<>> /\ ep' = ControlCompletion(ep, u)
  BY <1>1, <1>3, <1>4, <1>5, FirstCompletion DEF DoneIn, DoneOut
<1>7. ep' = DataStart(ep, u) /\ mode = "calm"
  BY <1>5, <1>6, RoomAndWhole DEF ControlCompletion, CalmInv, CalmTypes
<1>8. /\ ep'.out = ep.out
      /\ ep.dir[u] = "in" =>
            /\ Moves(ep, ep', "completion")
            /\ ep'.in = Append(ep.in, [id |-> ep.id[u], what |-> "in", dir |-> ep.dir[u]])
      /\ ep.dir[u] = "out" => Moves(ep, ep', "transfer_request") /\ ep'.in = ep.in
      /\ ep.dir[u] = "none" => Moves(ep, ep', "complete") /\ ep'.in = ep.in
  BY <1>2, <1>5, <1>7, DataStartFields
<1>9. Dir \in {"in", "out", "none"} /\ Dir = ep.dir[u]
  BY <1>2, <1>5, HeadLinked DEF Dir
<1>10. PICK state \in {"completion", "transfer_request", "complete"} :
           /\ Moves(ep, ep', state)
           /\ Dir = "in" <=> state = "completion"
           /\ Dir = "out" <=> state = "transfer_request"
  BY <1>8, <1>9
<1>11. Linked(ep') /\ Rest(ep', {"setup_request"})
  BY <1>2, <1>5, <1>10, MovesOthers
<1>12. /\ EpTypes(ep') /\ ep'.list = ep.list /\ ep'.dir = ep.dir /\ ep'.id = ep.id
       /\ ep'.giveback = ep.giveback /\ ep'.active = ep.active /\ ep'.stalled = ep.stalled
       /\ ep'.evq = ep.evq /\ ep'.state[u] = state /\ ep'.status[u] = ep.status[u]
  BY <1>10 DEF Moves, OnlyFirst
<1>13. Common'
  BY <1>1, <1>11, <1>12, StepCommon DEF CalmInv, CalmTypes
<1>14. Works'
  BY <1>1, <1>11, <1>12 DEF Works
<1>15. /\ Status' = Status /\ Dir' = Dir /\ Id' = Id /\ Served' = Served
       /\ Halted' = Halted /\ Stage' = Stage /\ Evq' = Evq /\ Out' = <<>>
       /\ events' = events /\ dev' = dev /\ Busy' = state
       /\ \A n \in {0, 1} : Requested(n) => Requested(n)'
  BY <1>1, <1>3, <1>5, <1>8, <1>12
     DEF Status, Dir, Id, Served, Halted, Stage, Evq, Requested, Busy, StateOf, Out
<1>16. Dir = "in" => InSent'
  <2>1. \A x : Append(<<>>, x) = <<x>>
    OBVIOUS
  <2>2. Dir = "in" => In' = Sub("in")'
    BY <1>3, <1>8, <1>9, <1>12, <2>1 DEF In, Sub, Id, Dir
  <2> QED
    BY <1>6, <1>10, <1>15, <2>2 DEF InSent
<1>17. Dir = "out" => OutAwaited'
  BY <1>3, <1>6, <1>8, <1>9, <1>10, <1>15 DEF OutAwaited, Still, NoComps, In
<1>18. Dir = "none" => DataDone'
  BY <1>3, <1>6, <1>8, <1>9, <1>10, <1>15 DEF DataDone, Still, NoComps, In
<1>19. Phase'
  <2>1. CASE Serves
    <3>1. \/ Dir = "none" /\ Stage = "status" /\ Requested(0)
          \/ Dir \in {"in", "out"} /\ Stage = "data" /\ Requested(0)
          \/ Dir = "out" /\ Stage = "asked_data" /\ Requested(1)
      BY <2>1 DEF Serves, SetupDone, InSent, InDone, OutAwaited, OutSent, OutDone, DataDone
    <3> QED
      BY <1>15, <1>16, <1>17, <1>18, <2>1, <3>1 DEF Phase, Serves
  <2>2. CASE Ended
    <3>1. Dir = "none"
      BY <2>2 DEF Ended, SetupDone, InDone, OutDone, DataDone
    <3> QED
      BY <1>15, <1>18, <2>2, <3>1 DEF Phase, Ended
  <2>3. CASE Failing
    <3>1. CASE Status = "none"
      <4>1. \/ Evq = 0 /\ events = <<"fail">>
            \/ /\ Dir = "out"
               /\ \/ Evq = 1 /\ events = <<"fail">>
                  \/ Evq = 0 /\ events = <<"request", "fail">>
        BY <2>3, <3>1 DEF Failing, SetupDone, OutAwaited
      <4> QED
        BY <1>9, <1>15, <1>16, <1>17, <1>18, <2>3, <3>1, <4>1 DEF Phase, Failing
    <3>2. CASE Status = "fail"
      <4>1. events = <<>> /\ (Evq = 1 => Dir = "out") /\ Evq \in {0, 1}
        BY <1>2, <2>3, <3>2 DEF Failing, EpTypes, Evq
      <4>2. NoComps'
        BY <1>6 DEF NoComps
      <4>3. Dir = "in" => Evq = 0
        BY <4>1
      <4>4. \/ Dir = "in" /\ Busy' = "completion"
            \/ Dir = "out" /\ Busy' = "transfer_request"
            \/ Dir = "none" /\ Busy' = "complete"
        BY <1>9, <1>10, <1>15
      <4> QED
        BY <1>15, <2>3, <3>2, <4>1, <4>2, <4>3, <4>4 DEF Phase, Failing
    <3> QED
      BY <2>3, <3>1, <3>2 DEF Failing
  <2> QED
    BY <1>1, <1>3, <2>1, <2>2, <2>3
       DEF Phase, Waiting, SettingUp, SetupDone, NoComps, DoneOut
<1> QED
  BY <1>1, <1>13, <1>14, <1>19 DEF CalmInv, Common, NotStuck, ControlInv, setup

(* That of the data ends the data stage, and the transfer when its status  *)
(* has come first.                                                         *)
LEMMA DataTaken ==
    ASSUME CalmInv, NEW sq \in {"in", "out"}, TakeCompletion(sq), kind = "control",
           Works, Phase, InDone \/ OutDone, comps[sq] = Done
    PROVE  CalmInv'
<1> DEFINE u == Head(ep.list)
<1>1. /\ comps[sq] # <<>> /\ irq' = sq
      /\ \A q \in {"in", "out"} \ {sq} : comps'[q] = comps[q]
      /\ comps' = [q \in {"in", "out"} |-> comps'[q]]
      /\ UNCHANGED <<setup, events, todo, dev, submits>>
  BY CompletionFields
<1>2. EpTypes(ep) /\ Linked(ep) /\ Rest(ep, {"setup_request"})
  BY DEF CalmInv, CalmTypes, Works
<1>3. ep.list # <<>> /\ ep.state[u] = "completion" /\ In = <<>> /\ Out = <<>>
  BY DEF InDone, OutDone, Busy, StateOf
<1>4. ep' = ControlCompletion(ep, u) /\ DoneIn' = <<>> /\ DoneOut' = <<>>
  <2>1. comps'[sq] = <<>> /\ ep' = ControlCompletion(ep, u)
    BY <1>3, FirstCompletion
  <2>2. CASE sq = "in"
    <3>1. "out" \in {"in", "out"} \ {sq}
      BY <2>2
    <3>2. comps["out"] = <<>>
      BY <1>1, <2>2 DEF InDone, OutDone, DoneIn, DoneOut
    <3> QED
      BY <1>1, <2>1, <2>2, <3>1, <3>2 DEF DoneIn, DoneOut
  <2>3. CASE sq = "out"
    <3>1. "in" \in {"in", "out"} \ {sq}
      BY <2>3
    <3>2. comps["in"] = <<>>
      BY <1>1, <2>3 DEF InDone, OutDone, DoneIn, DoneOut
    <3> QED
      BY <1>1, <2>1, <2>3, <3>1, <3>2 DEF DoneIn, DoneOut
  <2> QED
    BY <2>2, <2>3
<1>5. /\ ep.status[u] = "none" =>
            Moves(ep, ep', "complete") /\ ep'.in = ep.in /\ ep'.out = ep.out
      /\ ep.status[u] = "ok" =>
            /\ Completes(ep, ep', "ok")
            /\ ep'.active = ep.active /\ ep'.stalled = ep.stalled /\ ep'.work = ep.work
  BY <1>2, <1>3, <1>4, DataDoneFields DEF CalmInv, CalmTypes
<1>6. ~NoComps /\ Busy = "completion"
  BY <1>1 DEF NoComps, InDone, OutDone, DoneIn, DoneOut
<1>7. CASE Status = "none"
  <2>1. Moves(ep, ep', "complete") /\ ep'.in = ep.in /\ ep'.out = ep.out
    BY <1>5, <1>7 DEF Status
  <2>2. Linked(ep') /\ Rest(ep', {"setup_request"})
    BY <1>2, <1>3, <2>1, MovesOthers
  <2>3. /\ EpTypes(ep') /\ ep'.list = ep.list /\ ep'.dir = ep.dir /\ ep'.id = ep.id
        /\ ep'.giveback = ep.giveback /\ ep'.active = ep.active /\ ep'.stalled = ep.stalled
        /\ ep'.evq = ep.evq /\ ep'.state[u] = "complete" /\ ep'.status[u] = ep.status[u]
    BY <2>1 DEF Moves, OnlyFirst
  <2>4. Common'
    BY <1>1, <2>2, <2>3, StepCommon DEF CalmInv, CalmTypes
  <2>5. Works'
    BY <1>1, <2>2, <2>3 DEF Works
  <2>6. /\ Status' = Status /\ Dir' = Dir /\ Id' = Id /\ Served' = Served
        /\ Halted' = Halted /\ Stage' = Stage /\ Evq' = Evq /\ Out' = <<>> /\ In' = <<>>
        /\ events' = events /\ dev' = dev /\ Busy' = "complete"
        /\ \A n \in {0, 1} : Requested(n) => Requested(n)'
    BY <1>1, <1>3, <2>1, <2>3
       DEF Status, Dir, Id, Served, Halted, Stage, Evq, Requested, Busy, StateOf, Out, In
  <2>7. DataDone'
    BY <1>4, <2>6 DEF DataDone, Still, NoComps
  <2>8. Phase'
    <3>1. CASE Serves
      <4>1. Stage = "status" /\ Requested(0)
        BY <1>1, <3>1 DEF Serves, SetupDone, InSent, InDone, OutAwaited, OutSent, OutDone
      <4> QED
        BY <2>6, <2>7, <3>1, <4>1 DEF Phase, Serves
    <3>2. CASE Ended
      BY <1>7, <2>6, <2>7, <3>2 DEF Phase, Ended
    <3>3. CASE Failing
      <4>1. Evq = 0 /\ events = <<"fail">>
        BY <1>6, <1>7, <3>3 DEF Failing, SetupDone, OutAwaited
      <4> QED
        BY <1>7, <2>6, <2>7, <3>3, <4>1 DEF Phase, Failing
    <3> QED
      BY <1>6, <3>1, <3>2, <3>3 DEF Phase, Waiting, SettingUp
  <2> QED
    BY <1>1, <2>4, <2>5, <2>8 DEF CalmInv, Common, NotStuck, ControlInv, setup
<1>8. CASE Status # "none"
  <2>1. Ended /\ Status = "ok"
    BY <1>6, <1>8 DEF Phase, Waiting, SettingUp, Serves, Ended, Failing, SetupDone
  <2>2. Completes(ep, ep', "ok") /\ ep'.active = ep.active /\ ep'.stalled = ep.stalled
    BY <1>5, <2>1 DEF Status
  <2>3. ep'.in = ep.in /\ ep'.out = ep.out /\ ep'.evq = ep.evq
    BY <2>2 DEF Completes
  <2>4. /\ In' = <<>> /\ Out' = <<>>
        /\ \A n \in {0, 1} : Requested(n) => Requested(n)'
    BY <1>1, <1>3, <2>3 DEF In, Out, Requested, Evq
  <2>5. /\ ~Halted /\ Served
        /\ \/ Stage = "idle" /\ Requested(0)'
           \/ Stage = "asked" /\ Requested(1)'
    BY <2>1, <2>4 DEF Ended
  <2>6. ep'.active /\ ~ep'.stalled
    BY <2>2 DEF Works
  <2> QED
    BY <1>1, <1>2, <1>3, <1>4, <2>2, <2>4, <2>5, <2>6, SuccessEnds
<1> QED
  BY <1>7, <1>8

(* A stopped queue takes no notice of completions.                         *)
LEMMA StoppedTaken ==
    ASSUME CalmInv, NEW sq \in {"in", "out"}, TakeCompletion(sq), kind = "control",
           Stops, Failed
    PROVE  CalmInv'
<1>1. /\ comps[sq] # <<>> /\ irq' = sq /\ ep' = Completion(ep, Head(comps[sq]))
      /\ \A q \in {"in", "out"} \ {sq} : comps'[q] = comps[q]
      /\ comps' = [q \in {"in", "out"} |-> comps'[q]]
      /\ UNCHANGED <<setup, events, todo, dev, submits>>
  BY CompletionFields
<1>2. Quiet
  BY DEF Failed
<1>3. ep' = ep
  <2>1. ep.list # <<>> => ep.state[Head(ep.list)] \in {"setup_request", "paused"}
    <3>1. EpTypes(ep) /\ Linked(ep)
      BY DEF CalmInv, CalmTypes
    <3>2. ep.list # <<>> => ep.state[Head(ep.list)] # "empty"
      BY <3>1, HeadLinked DEF UrbStates
    <3> QED
      BY <1>2, <3>2 DEF Quiet, Busy, StateOf
  <2>2. ep.list # <<>> => ControlCompletion(ep, Head(ep.list)) = ep
    BY <2>1 DEF ControlCompletion
  <2> QED
    BY <1>1, <2>2 DEF Completion
<1>4. EpTypes(ep) /\ UrbsSame(ep, ep')
  BY <1>3 DEF CalmInv, CalmTypes, UrbsSame, ListSame
<1>5. Common /\ Common'
  BY <1>1, <1>3, <1>4, StepCommon DEF CalmInv, CalmTypes, Common
<1>6. PICK k \in 0..10 : ResetStep(k)
  BY DEF Failed
<1>7. ResetStep(k)'
  <2>1. /\ In' = In /\ Out' = Out /\ Halted' = Halted /\ dev' = dev /\ todo' = todo
    BY <1>1, <1>3 DEF In, Out, Halted
  <2>2. (DoneIn = <<>> => DoneIn' = <<>>) /\ (DoneOut = <<>> => DoneOut' = <<>>)
    BY <1>1 DEF DoneIn, DoneOut
  <2> QED
    BY <1>3, <1>6, <2>1, <2>2 DEF ResetStep
<1>8. /\ Evq' = 0 /\ events' = events /\ Stage' = "idle" /\ kind' = kind
      /\ ep'.active = ep.active
  BY <1>1, <1>2, <1>3 DEF Quiet, Evq, Stage, setup
<1> QED
  BY <1>2, <1>4, <1>5, <1>7, <1>8, ResetContinues

(* Whatever the endpoint, a completion that is handled keeps the           *)
(* invariant.                                                              *)
LEMMA TakeCompletionStep ==
    ASSUME CalmInv, NEW sq \in {"in", "out"}, TakeCompletion(sq)
    PROVE  CalmInv'
<1>1. CASE kind = "control"
  <2>1. CASE Works /\ Phase
    <3>1. comps[sq] # <<>>
      BY CompletionFields
    <3>2. CASE SetupDone
      BY <1>1, <2>1, <3>2, SetupTaken
    <3>3. CASE (InDone \/ OutDone) /\ comps[sq] = Done
      BY <1>1, <2>1, <3>3, DataTaken
    <3>4. ~NoComps
      BY <3>1 DEF NoComps, DoneIn, DoneOut
    <3>5. SetupDone \/ InDone \/ OutDone
      BY <2>1, <3>4 DEF Phase, Waiting, SettingUp, Serves, Ended, Failing, InSent,
                        OutAwaited, OutSent, DataDone, NoComps
    <3>6. InDone \/ OutDone => comps[sq] = Done
      BY <3>1 DEF InDone, OutDone, DoneIn, DoneOut
    <3> QED
      BY <3>2, <3>3, <3>5, <3>6
  <2> QED
    BY <1>1, <2>1, StoppedTaken DEF CalmInv, ControlInv
<1> QED
  BY <1>1, TakeCompletionIn, TakeCompletionOut DEF CalmInv, CalmTypes

-----------------------------------------------------------------------------
(***************************************************************************)
(* Events                                                                  *)
(***************************************************************************)
WithStatus(e, u, status) == [e EXCEPT !.status[u] = status]

(* A status is stored in the first URB and changes nothing else.           *)
LEMMA StatusFields ==
    ASSUME NEW e, EpTypes(e), Linked(e), e.list # <<>>, NEW status \in {"ok", "fail"}
    PROVE  LET c == WithStatus(e, Head(e.list), status)
           IN  /\ EpTypes(c) /\ Linked(c) /\ \A S : Rest(e, S) => Rest(c, S)
               /\ c.list = e.list /\ c.state = e.state /\ c.dir = e.dir /\ c.id = e.id
               /\ c.evq = e.evq /\ c.in = e.in /\ c.out = e.out /\ c.giveback = e.giveback
               /\ c.active = e.active /\ c.stalled = e.stalled /\ c.work = e.work
               /\ c.status[Head(e.list)] = status
<1> DEFINE u == Head(e.list)
           c == WithStatus(e, u, status)
<1>1. /\ c.status = [e.status EXCEPT ![u] = status]
      /\ c.list = e.list /\ c.state = e.state /\ c.dir = e.dir /\ c.id = e.id
      /\ c.evq = e.evq /\ c.in = e.in /\ c.out = e.out /\ c.giveback = e.giveback
      /\ c.active = e.active /\ c.stalled = e.stalled /\ c.work = e.work
  BY DEF EpTypes, Fields, WithStatus
<1>2. c = [h \in Fields |-> c[h]]
  BY DEF EpTypes, WithStatus
<1> HIDE DEF c
<1>3. u \in Urbs /\ e.id[u] # 0
  BY HeadLinked
<1>4. c.status \in [Urbs -> {"none", "ok", "fail"}]
  BY <1>1, ExceptType DEF EpTypes
<1>5. EpTypes(c)
  BY <1>1, <1>2, <1>4 DEF EpTypes
<1>6. \A v \in Urbs : e.list = <<>> \/ v # u =>
          c.state[v] = e.state[v] /\ c.status[v] = e.status[v]
  BY <1>1 DEF EpTypes
<1>7. Linked(c) /\ \A S : Rest(e, S) => Rest(c, S)
  <2>1. Linked(c) \/ e.list = <<>> \/ e.id[u] = 0
    BY <1>1, <1>5, <1>6, OthersStay
  <2>2. \A S : Rest(e, S) => Rest(c, S)
    BY <1>1, <1>5, <1>6, OthersStay
  <2> QED
    BY <1>3, <2>1, <2>2
<1>8. c.status[u] = status
  BY <1>1, <1>3 DEF EpTypes
<1> QED
  BY <1>1, <1>5, <1>7, <1>8 DEF c

(* Events are handled with nothing deferred that could be delivered.       *)
LEMMA EventFields ==
    ASSUME CalmInv, TakeEvent
    PROVE  /\ irq' = "giveback" /\ events # <<>> /\ events' = Tail(events)
           /\ UNCHANGED <<setup, comps, todo, dev, submits>>
           /\ Evq \in {0, 1} /\ EpTypes(ep) /\ Linked(ep)
           /\ Evq = 1 => Busy \notin {"setup_request", "transfer_request"}
           /\ Head(events) = "request" =>
                 ep' = IF ep.evq > 0 \/ ep.list = <<>> \/ Again(ep, Head(ep.list))
                       THEN [ep EXCEPT !.evq = @ + 1]
                       ELSE TransferRequest(ep, Head(ep.list))
           /\ Head(events) # "request" /\ ep.list # <<>> =>
                 LET u == Head(ep.list)
                 IN  ep' = CheckStatus(WithStatus(ep, u, Head(events)), u)
<1>1. /\ irq = "idle" /\ irq' = "giveback" /\ events # <<>> /\ events' = Tail(events)
      /\ ep' = Event(ep, Head(events))
      /\ UNCHANGED <<setup, comps, todo, dev, submits>>
  BY DEF TakeEvent, worker, bounds
<1>2. EpTypes(ep) /\ Linked(ep) /\ Evq \in {0, 1} /\ Evq = ep.evq
  BY DEF CalmInv, CalmTypes, EpTypes, Evq
<1>3. Evq = 1 => Busy \notin {"setup_request", "transfer_request"}
  BY <1>1 DEF CalmInv, NotStuck
<1>4. Deliver(ep) = ep
  BY <1>2, <1>3, NothingToDeliver DEF Busy
<1>5. Head(events) = "request" =>
         ep' = IF ep.evq > 0 \/ ep.list = <<>> \/ Again(ep, Head(ep.list))
               THEN [ep EXCEPT !.evq = @ + 1]
               ELSE TransferRequest(ep, Head(ep.list))
  BY <1>1, <1>4 DEF Event
<1>6. Head(events) # "request" /\ ep.list # <<>> =>
         ep' = CheckStatus(WithStatus(ep, Head(ep.list), Head(events)), Head(ep.list))
  BY <1>1, <1>4 DEF Event, WithStatus
<1> QED
  BY <1>1, <1>2, <1>3, <1>5, <1>6

(* A request is counted in evq.                                            *)
LEMMA RequestDeferred ==
    ASSUME NEW e, EpTypes(e), e.evq = 0
    PROVE  LET g == [e EXCEPT !.evq = @ + 1]
           IN  /\ EpTypes(g) /\ g.evq = 1 /\ UrbsSame(e, g)
               /\ g.in = e.in /\ g.out = e.out
               /\ g.active = e.active /\ g.stalled = e.stalled /\ g.work = e.work
<1> DEFINE g == [e EXCEPT !.evq = @ + 1]
<1>1. g = [e EXCEPT !.evq = 1]
  <2>1. e.evq + 1 = 1
    OBVIOUS
  <2> QED
    BY <2>1, Zenon
<1> HIDE DEF g
<1>2. /\ g.evq = 1
      /\ g.list = e.list /\ g.state = e.state /\ g.status = e.status
      /\ g.dir = e.dir /\ g.id = e.id /\ g.in = e.in /\ g.out = e.out
      /\ g.giveback = e.giveback /\ g.active = e.active
      /\ g.stalled = e.stalled /\ g.work = e.work
  BY <1>1 DEF EpTypes, Fields
<1>3. g = [h \in Fields |-> g[h]]
  BY <1>1 DEF EpTypes
<1>4. EpTypes(g)
  BY <1>2, <1>3 DEF EpTypes
<1> QED
  BY <1>2, <1>4 DEF g, UrbsSame, ListSame

(* What a request finds: it has not been deferred before.                  *)
LEMMA RequestFound ==
    ASSUME CalmInv, events # <<>>, Head(events) = "request"
    PROVE  /\ Evq = 0 /\ kind \in {"out", "control"}
           /\ kind = "control" =>
                 /\ Works /\ Phase
                 /\ Busy \in {"setup_request", "transfer_request"} => Status = "none"
<1>1. kind \in {"in", "out", "control"} /\ kind # "in"
  BY DEF CalmInv, CalmTypes, InInv
<1>2. \A n \in {0, 1} : Requested(n) => Evq = 0
  BY DEF Requested
<1>3. CASE kind = "out"
  BY <1>1, <1>2, <1>3 DEF CalmInv, OutInv
<1>4. CASE kind = "control"
  <2>1. Works /\ Phase
    BY <1>4 DEF CalmInv, ControlInv, Failed, Quiet
  <2>2. Evq = 0
    <3>1. events # <<"fail">>
      BY EventFacts
    <3>2. Waiting \/ SettingUp \/ Serves => Evq = 0
      BY <1>2 DEF Waiting, SettingUp, Serves
    <3>3. Ended => Evq = 0
      BY <1>2 DEF Ended
    <3>4. Failing => Evq = 0
      BY <3>1 DEF Failing
    <3> QED
      BY <2>1, <3>2, <3>3, <3>4 DEF Phase
  <2>3. Busy \in {"setup_request", "transfer_request"} => Status = "none"
    <3>1. Waiting \/ SettingUp \/ Serves =>
             (Busy \in {"setup_request", "transfer_request"} => Status = "none")
      BY DEF Waiting, SettingUp, Serves
    <3>2. Ended => Busy \notin {"setup_request", "transfer_request"}
      BY DEF Ended, SetupDone, InDone, OutDone, DataDone
    <3>3. Failing => Status = "none"
      BY DEF Failing
    <3> QED
      BY <2>1, <3>1, <3>2, <3>3 DEF Phase
  <2> QED
    BY <1>4, <2>1, <2>2, <2>3
<1> QED
  BY <1>1, <1>3, <1>4

(* A request that is handled is answered by the first URB or deferred.     *)
LEMMA TakeRequest ==
    ASSUME CalmInv, TakeEvent, Head(events) = "request"
    PROVE  CalmInv'
<1> DEFINE u == Head(ep.list)
<1>1. /\ irq' = "giveback" /\ events # <<>> /\ events' = Tail(events)
      /\ UNCHANGED <<setup, comps, todo, dev, submits>>
      /\ EpTypes(ep) /\ Linked(ep)
      /\ ep' = IF ep.evq > 0 \/ ep.list = <<>> \/ Again(ep, u)
               THEN [ep EXCEPT !.evq = @ + 1] ELSE TransferRequest(ep, u)
  BY EventFields
<1>2. /\ Evq = 0 /\ ep.evq = 0 /\ kind \in {"out", "control"}
      /\ kind = "control" => /\ Works /\ Phase
                             /\ Busy \in {"setup_request", "transfer_request"} => Status = "none"
  BY <1>1, RequestFound DEF Evq
<1>3. CASE Busy \in {"setup_request", "transfer_request"}
  <2>1. ep.list # <<>> /\ Busy = ep.state[u]
    BY <1>3 DEF Busy, StateOf
  <2>2. ep' = TransferRequest(ep, u)
    BY <1>1, <1>2, <1>3, <2>1 DEF Again
  <2>3. kind = "control" => ep.status[u] = "none"
    BY <1>2, <1>3 DEF Status
  <2>4. /\ Busy = "setup_request" => Delivers(ep, ep', "setup", "setup_completion")
        /\ Busy = "transfer_request" => Delivers(ep, ep', "out", "completion")
    BY <1>1, <1>2, <2>1, <2>2, <2>3, TransferRequestFields
       DEF Delivers, Moves, CalmInv, CalmTypes
  <2>5. Asked
    BY <1>1, <1>2 DEF Asked
  <2> QED
    BY <1>1, <1>2, <1>3, <2>1, <2>4, <2>5, RequestAnswered
<1>4. CASE Busy \notin {"setup_request", "transfer_request"}
  <2>1. ep' = [ep EXCEPT !.evq = @ + 1]
    BY <1>1, <1>4 DEF Again, Busy, StateOf
  <2>2. /\ EpTypes(ep') /\ ep'.evq = 1 /\ UrbsSame(ep, ep')
        /\ ep'.in = ep.in /\ ep'.out = ep.out
        /\ ep'.active = ep.active /\ ep'.stalled = ep.stalled /\ ep'.work = ep.work
    BY <1>1, <1>2, <2>1, RequestDeferred
  <2>3. Common'
    BY <1>1, <2>2, CommonSame DEF CalmInv, CalmTypes, Common
  <2>4. UNCHANGED urbView /\ \A S : Rest(ep, S) => Rest(ep', S)
    BY <2>2, ListSameView DEF UrbsSame
  <2>5. /\ In' = In /\ Out' = Out /\ DoneIn' = DoneIn /\ DoneOut' = DoneOut /\ Evq' = 1
        /\ Stage' = Stage /\ Halted' = Halted /\ dev' = dev
        /\ Busy' = Busy /\ Status' = Status /\ Dir' = Dir /\ Id' = Id
        /\ Sub("out")' = Sub("out") /\ Sub("in")' = Sub("in") /\ Sub("setup")' = Sub("setup")
        /\ Done' = Done /\ Served' = Served
    BY <1>1, <2>2, <2>4
       DEF In, Out, DoneIn, DoneOut, Evq, Stage, Halted, urbView, Sub, Done, Served
  <2>6. ~Requested(0) /\ (Requested(1) => Requested(1)')
    <3>1. Tail(<<"request">>) = <<>>
      BY EventFacts
    <3> QED
      BY <1>1, <1>2, <2>5, <3>1 DEF Requested
  <2>7. NotStuck'
    BY <1>4, <2>5 DEF NotStuck
  <2>8. CASE kind = "out"
    <3>1. Undisturbed'
      BY <1>1, <2>2, <2>5, <2>8 DEF CalmInv, OutInv, Undisturbed
    <3>2. Rest(ep', {"transfer_request"})
      BY <2>4, <2>8 DEF CalmInv, OutInv
    <3>3. OutInv'
      BY <2>5, <2>6, <2>8, <3>1, <3>2 DEF CalmInv, OutInv
    <3> QED
      BY <1>1, <2>3, <2>7, <2>8, <3>3 DEF CalmInv, Common, setup
  <2>9. CASE kind = "control"
    <3>1. Works'
      BY <1>1, <1>2, <2>2, <2>4, <2>9 DEF Works
    <3>2. CASE Waiting
      <4>1. Waiting'
        BY <2>5, <2>6, <3>2 DEF Waiting, Still, NoComps
      <4> QED
        BY <1>1, <2>3, <2>7, <2>9, <3>1, <4>1 DEF CalmInv, Common, ControlInv, Phase, setup
    <3>3. CASE Serves
      <4>1. Serves'
        BY <2>5, <2>6, <3>3
           DEF Serves, SetupDone, InSent, InDone, OutAwaited, OutSent, OutDone, DataDone,
               Still, NoComps
      <4> QED
        BY <1>1, <2>3, <2>7, <2>9, <3>1, <4>1 DEF CalmInv, Common, ControlInv, Phase, setup
    <3>4. CASE Ended
      <4>1. events # <<"ok">> /\ events # <<"ok", "request">>
        BY <1>1, EventFacts
      <4>2. Status = "ok" /\ Stage = "asked" /\ Requested(1)
        BY <2>6, <3>4, <4>1 DEF Ended
      <4>3. Ended'
        BY <2>5, <2>6, <3>4, <4>2
           DEF Ended, SetupDone, InDone, OutDone, DataDone, Still, NoComps
      <4> QED
        BY <1>1, <2>3, <2>7, <2>9, <3>1, <4>3 DEF CalmInv, Common, ControlInv, Phase, setup
    <3>5. CASE Failing
      <4>1. events = <<"request", "fail">> /\ Status = "none"
            /\ ((SetupDone /\ Dir = "out") \/ OutAwaited)
        <5>1. events # <<"fail">>
          BY <1>1, EventFacts
        <5> QED
          BY <1>1, <1>2, <3>5, <5>1 DEF Failing
      <4>2. events' = <<"fail">>
        BY <1>1, <4>1, EventFacts
      <4>3. ((SetupDone /\ Dir = "out") \/ OutAwaited)'
        BY <2>5, <4>1 DEF SetupDone, OutAwaited, Still, NoComps
      <4>4. Failing'
        BY <2>5, <3>5, <4>1, <4>2, <4>3 DEF Failing
      <4> QED
        BY <1>1, <2>3, <2>7, <2>9, <3>1, <4>4 DEF CalmInv, Common, ControlInv, Phase, setup
    <3>6. ~SettingUp
      BY <2>6 DEF SettingUp
    <3> QED
      BY <1>2, <2>9, <3>2, <3>3, <3>4, <3>5, <3>6 DEF Phase
  <2> QED
    BY <1>2, <2>8, <2>9
<1> QED
  BY <1>3, <1>4

(* The transfer has been done as it should.                                *)
LEMMA TakeOk ==
    ASSUME CalmInv, TakeEvent, kind = "control", Works, Ended, Status = "none", Evq = 0,
           \/ Stage = "idle" /\ events = <<"ok">>
           \/ Stage = "asked" /\ events = <<"ok", "request">>
    PROVE  CalmInv'
<1> DEFINE u == Head(ep.list)
           c == WithStatus(ep, u, "ok")
<1>1. /\ irq' = "giveback" /\ events # <<>> /\ events' = Tail(events)
      /\ UNCHANGED <<setup, comps, todo, dev, submits>>
      /\ EpTypes(ep) /\ Linked(ep) /\ Head(events) = "ok"
  BY EventFields, EventFacts
<1>2. ep.list # <<>>
  BY DEF Ended, SetupDone, InDone, OutDone, DataDone, Busy, StateOf
<1>3. ep' = CheckStatus(c, u)
  BY <1>1, <1>2, EventFields
<1>4. /\ EpTypes(c) /\ Linked(c) /\ \A S : Rest(ep, S) => Rest(c, S)
      /\ c.list = ep.list /\ c.state = ep.state /\ c.dir = ep.dir /\ c.id = ep.id
      /\ c.evq = ep.evq /\ c.in = ep.in /\ c.out = ep.out /\ c.giveback = ep.giveback
      /\ c.active = ep.active /\ c.stalled = ep.stalled /\ c.work = ep.work
      /\ c.status[u] = "ok"
  BY <1>1, <1>2, StatusFields
<1> HIDE DEF c
<1>5. \/ Stage = "idle" /\ events' = <<>>
      \/ Stage = "asked" /\ events' = <<"request">>
  <2>1. Tail(<<"ok">>) = <<>> /\ Tail(<<"ok", "request">>) = <<"request">>
    BY EventFacts
  <2> QED
    BY <1>1, <2>1
<1>6. /\ comps' = [q \in {"in", "out"} |-> comps'[q]]
      /\ DoneIn' = DoneIn /\ DoneOut' = DoneOut /\ Halted' = Halted /\ Stage' = Stage
  BY <1>1 DEF CalmInv, CalmTypes, DoneIn, DoneOut, Halted, Stage
<1>7. CASE Busy = "complete"
  <2>1. DataDone
    BY <1>7 DEF Ended, SetupDone, InDone, OutDone
  <2>2. c.list # <<>> /\ Head(c.list) = u /\ c.state[u] = "complete"
    BY <1>2, <1>4, <1>7 DEF Busy, StateOf
  <2>3. Completes(c, ep', "ok") /\ ep'.active = c.active /\ ep'.stalled = c.stalled
    <3>1. ep' = CheckStatus(c, Head(c.list))
      BY <1>3, <2>2
    <3>2. c.status[Head(c.list)] = "ok" /\ c.state[Head(c.list)] = "complete"
      BY <1>4, <2>2
    <3> QED
      BY <1>4, <2>2, <3>1, <3>2, CheckStatusFields
  <2>4. ep'.in = ep.in /\ ep'.out = ep.out /\ ep'.evq = ep.evq
    BY <1>4, <2>3 DEF Completes
  <2>5. /\ In' = <<>> /\ Out' = <<>> /\ DoneIn' = <<>> /\ DoneOut' = <<>> /\ Evq' = 0
    BY <1>6, <2>1, <2>4 DEF DataDone, Still, NoComps, In, Out, Evq
  <2>6. \/ Stage = "idle" /\ Requested(0)'
        \/ Stage = "asked" /\ Requested(1)'
    BY <1>5, <2>5 DEF Requested
  <2>7. ep'.active /\ ~ep'.stalled /\ Rest(c, {"setup_request"})
    BY <1>4, <2>3 DEF Works
  <2>8. ~Halted /\ Served
    BY DEF Ended
  <2> QED
    BY <1>1, <1>2, <1>4, <1>6, <2>3, <2>5, <2>6, <2>7, <2>8, SuccessEnds
<1>8. CASE Busy # "complete"
  <2>1. ep' = c
    <3>1. c.state[u] # "complete" /\ c.status[u] = "ok"
      BY <1>2, <1>4, <1>8 DEF Busy, StateOf
    <3> QED
      BY <1>3, <3>1 DEF CheckStatus
  <2>2. Common'
    BY <1>1, <1>4, <2>1, StepCommon DEF CalmInv, CalmTypes
  <2>3. Works'
    BY <1>1, <1>4, <2>1 DEF Works
  <2>4. /\ Busy' = Busy /\ Dir' = Dir /\ Id' = Id /\ Status' = "ok"
        /\ In' = In /\ Out' = Out /\ Evq' = 0 /\ Done' = Done /\ Served' = Served
        /\ Sub("in")' = Sub("in")
    BY <1>1, <1>4, <2>1 DEF Busy, StateOf, Dir, Id, Status, In, Out, Evq, Done, Served, Sub
  <2>5. \/ Stage = "idle" /\ Requested(0)'
        \/ Stage = "asked" /\ Requested(1)'
    BY <1>5, <2>4 DEF Requested
  <2>6. Ended'
    BY <1>6, <1>8, <2>4, <2>5 DEF Ended, SetupDone, InDone, OutDone, DataDone, Still, NoComps
  <2> QED
    BY <1>1, <2>2, <2>3, <2>4, <2>6 DEF CalmInv, Common, NotStuck, ControlInv, Phase, setup
<1> QED
  BY <1>7, <1>8

(* It has failed.                                                          *)
LEMMA TakeFail ==
    ASSUME CalmInv, TakeEvent, kind = "control", Works, Failing, events = <<"fail">>
    PROVE  CalmInv'
<1> DEFINE u == Head(ep.list)
           c == WithStatus(ep, u, "fail")
<1>1. /\ irq' = "giveback" /\ events' = <<>>
      /\ UNCHANGED <<setup, comps, todo, dev, submits>>
      /\ EpTypes(ep) /\ Linked(ep) /\ Head(events) = "fail"
      /\ Evq \in {0, 1} /\ (Evq = 1 => Busy \notin {"setup_request", "transfer_request"})
  BY EventFields, EventFacts
<1>2. /\ Status = "none" /\ Halted /\ Stage = "idle"
      /\ Evq = 1 => (SetupDone /\ Dir = "out") \/ OutAwaited
      /\ SetupDone \/ InSent \/ InDone \/ OutAwaited \/ OutSent \/ OutDone \/ DataDone
  BY DEF Failing
<1>3. /\ ep.list # <<>>
      /\ Busy \in {"setup_completion", "completion", "transfer_request", "complete"}
  BY <1>2 DEF SetupDone, InSent, InDone, OutAwaited, OutSent, OutDone, DataDone, Busy, StateOf
<1>4. ep' = CheckStatus(c, u)
  BY <1>1, <1>3, EventFields
<1>5. /\ EpTypes(c) /\ Linked(c) /\ \A S : Rest(ep, S) => Rest(c, S)
      /\ c.list = ep.list /\ c.state = ep.state /\ c.dir = ep.dir /\ c.id = ep.id
      /\ c.evq = ep.evq /\ c.in = ep.in /\ c.out = ep.out /\ c.giveback = ep.giveback
      /\ c.active = ep.active /\ c.stalled = ep.stalled /\ c.work = ep.work
      /\ c.status[u] = "fail"
  BY <1>1, <1>3, StatusFields
<1> HIDE DEF c
<1>6. c.list # <<>> /\ Head(c.list) = u /\ c.state[u] = Busy
  BY <1>3, <1>5 DEF Busy, StateOf
<1>7. CASE SetupDone
  <2>1. ep' = c
    BY <1>4, <1>5, <1>6, <1>7 DEF CheckStatus, SetupDone
  <2>2. Common'
    BY <1>1, <1>5, <2>1, StepCommon DEF CalmInv, CalmTypes
  <2>3. Works'
    BY <1>1, <1>5, <2>1 DEF Works
  <2>4. /\ Busy' = Busy /\ Dir' = Dir /\ Id' = Id /\ Status' = "fail"
        /\ In' = In /\ Out' = Out /\ Evq' = Evq /\ Done' = Done
        /\ DoneIn' = DoneIn /\ DoneOut' = DoneOut /\ Halted' = Halted /\ Stage' = Stage
    BY <1>1, <1>5, <2>1
       DEF Busy, StateOf, Dir, Id, Status, In, Out, Evq, Done, DoneIn, DoneOut, Halted, Stage
  <2>5. SetupDone' /\ (Evq = 1 => Dir = "out")
    BY <1>2, <1>7, <2>4 DEF SetupDone, OutAwaited, Still
  <2>6. Failing'
    BY <1>1, <1>2, <2>4, <2>5 DEF Failing
  <2>7. NotStuck'
    BY <1>1, <2>4 DEF NotStuck
  <2> QED
    BY <1>1, <2>2, <2>3, <2>6, <2>7 DEF CalmInv, Common, ControlInv, Phase, setup
<1>8. CASE ~SetupDone
  <2>1. Busy \notin {"setup_request", "setup_completion"} /\ Evq = 0
    BY <1>1, <1>2, <1>8 DEF InSent, InDone, OutAwaited, OutSent, OutDone, DataDone
  <2>2. Completes(c, ep', "fail") /\ ~ep'.active /\ ep'.stalled
    <3>1. ep' = CheckStatus(c, Head(c.list))
      BY <1>4, <1>6
    <3>2. /\ c.status[Head(c.list)] = "fail"
          /\ c.state[Head(c.list)] \notin {"setup_request", "setup_completion"}
      BY <1>5, <1>6, <2>1
    <3> QED
      BY <1>5, <1>6, <3>1, <3>2, CheckStatusFields
  <2>3. EpTypes(ep') /\ ep'.evq = 0
    BY <1>5, <2>1, <2>2 DEF Completes, Evq
  <2>4. UrbsSame(ep', ep')
    BY DEF UrbsSame, ListSame
  <2>5. Rest(c, {"setup_request"})
    BY <1>5 DEF Works
  <2>6. irq' \in {"idle", "in", "out", "giveback"}
    BY <1>1
  <2> QED
    BY <1>1, <1>2, <1>3, <1>5, <1>6, <2>2, <2>3, <2>4, <2>5, <2>6, FailureEnds
<1> QED
  BY <1>7, <1>8

(* Whatever the event, handling it keeps the invariant.                    *)
LEMMA TakeEventStep ==
    ASSUME CalmInv, TakeEvent
    PROVE  CalmInv'
<1>1. events # <<>>
  BY EventFields
<1>2. kind \in {"in", "out", "control"}
  BY DEF CalmInv, CalmTypes
<1>3. kind # "in"
  BY <1>1 DEF CalmInv, InInv
<1>4. \A n \in {0, 1} : Requested(n) => Head(events) = "request"
  BY <1>1, EventFacts DEF Requested
<1>5. CASE kind = "out"
  <2>1. Head(events) = "request"
    BY <1>4, <1>5 DEF CalmInv, OutInv
  <2> QED
    BY <2>1, TakeRequest
<1>6. CASE kind = "control"
  <2>1. Works /\ Phase
    BY <1>1, <1>6 DEF CalmInv, ControlInv, Failed, Quiet
  <2>2. CASE Ended
    <3>1. CASE Status = "none"
      <4>1. /\ Evq = 0
            /\ \/ Stage = "idle" /\ events = <<"ok">>
               \/ Stage = "asked" /\ events = <<"ok", "request">>
        BY <2>2, <3>1 DEF Ended
      <4> QED
        BY <1>6, <2>1, <2>2, <3>1, <4>1, TakeOk
    <3>2. CASE Status # "none"
      <4>1. Head(events) = "request"
        BY <1>4, <2>2, <3>2 DEF Ended
      <4> QED
        BY <4>1, TakeRequest
    <3> QED
      BY <3>1, <3>2
  <2>3. CASE Failing
    <3>1. CASE events = <<"fail">>
      BY <1>6, <2>1, <2>3, <3>1, TakeFail
    <3>2. CASE events # <<"fail">>
      <4>1. events = <<"request", "fail">>
        BY <1>1, <2>3, <3>2 DEF Failing
      <4>2. Head(events) = "request"
        BY <4>1, EventFacts
      <4> QED
        BY <4>2, TakeRequest
    <3> QED
      BY <3>1, <3>2
  <2>4. CASE Waiting \/ SettingUp \/ Serves
    <3>1. Head(events) = "request"
      BY <1>4, <2>4 DEF Waiting, SettingUp, Serves
    <3> QED
      BY <3>1, TakeRequest
  <2> QED
    BY <2>1, <2>2, <2>3, <2>4 DEF Phase
<1> QED
  BY <1>2, <1>3, <1>5, <1>6

-----------------------------------------------------------------------------
(***************************************************************************)
(* The device                                                              *)
(***************************************************************************)
LEMMA ServingWorks ==
    ASSUME CalmInv, Serving
    PROVE  ~Halted /\ (kind = "control" => Works /\ Phase)
<1>1. dev.on /\ ~Halted /\ ~At("activate")
  BY DEF Serving, Halted, CalmInv, CalmTypes
<1>2. ASSUME NEW k \in 0..10, ResetStep(k)
      PROVE  FALSE
  <2>1. k \in 1..3 /\ k \notin {2, 3} /\ todo = LastSteps(k)
    BY <1>1, <1>2 DEF ResetStep
  <2>2. k = 1
    BY <2>1
  <2>3. todo # <<>> /\ Head(todo) = ResetSteps[10]
    <3>1. LastSteps(1) # <<>> /\ Head(LastSteps(1)) = ResetSteps[11 - 1]
      BY LastStepsFacts
    <3> QED
      BY <2>1, <2>2, <3>1
  <2> QED
    BY <1>1, <2>3, StepNames DEF At
<1>3. kind = "control" => Works /\ Phase
  BY <1>2 DEF CalmInv, ControlInv, Failed
<1> QED
  BY <1>1, <1>3

(* What the device's requests and statuses leave alone.                    *)
LEMMA DeviceCommon ==
    ASSUME CalmInv, UNCHANGED <<setup, ep, comps, irq, worker, submits>>,
           dev' = [f \in DevFields |-> dev'[f]], dev'.on = dev.on, dev'.halted \in BOOLEAN,
           dev.served \subseteq dev'.served
    PROVE  /\ Common' /\ NotStuck'
           /\ UNCHANGED urbView /\ UNCHANGED <<lineView, Evq>>
           /\ \A S : Rest(ep, S) => Rest(ep', S)
<1>1. UrbsSame(ep, ep') /\ EpTypes(ep')
  BY DEF UrbsSame, ListSame, CalmInv, CalmTypes
<1>2. Common'
  BY <1>1, CommonSame DEF CalmInv, CalmTypes, Common
<1>3. UNCHANGED urbView /\ UNCHANGED <<lineView, Evq>>
  BY DEF urbView, Busy, StateOf, Status, Dir, Id, lineView, In, Out, DoneIn, DoneOut, Evq
<1>4. NotStuck'
  BY <1>3 DEF CalmInv, NotStuck, urbView
<1>5. \A S : Rest(ep, S) => Rest(ep', S)
  OBVIOUS
<1> QED
  BY <1>2, <1>3, <1>4, <1>5

(* Events that are added to none and to one.                               *)
LEMMA AppendPair ==
    ASSUME NEW x, NEW y
    PROVE  Append(<<>>, x) = <<x>> /\ Append(<<x>>, y) = <<x, y>>
<1> DEFINE S == {x, y}
<1>0. x \in S /\ y \in S
  OBVIOUS
<1> HIDE DEF S
<1>1. Append(<<>>, x) = <<x>>
  OBVIOUS
<1>2. /\ <<x>> \in Seq(S) /\ Len(<<x>>) = 1 /\ <<x>>[1] = x
      /\ <<x, y>> \in Seq(S) /\ Len(<<x, y>>) = 2 /\ <<x, y>>[1] = x /\ <<x, y>>[2] = y
  BY <1>0, PairSeq
<1>3. /\ Append(<<x>>, y) \in Seq(S) /\ Len(Append(<<x>>, y)) = 2
      /\ Append(<<x>>, y)[1] = x /\ Append(<<x>>, y)[2] = y
  BY <1>0, <1>2, AppendFacts
<1>4. Append(<<x>>, y) = <<x, y>>
  <2>1. \A i \in 1..2 : i = 1 \/ i = 2
    OBVIOUS
  <2>2. \A i \in 1..2 : Append(<<x>>, y)[i] = <<x, y>>[i]
    BY <1>2, <1>3, <2>1
  <2> QED
    BY <1>2, <1>3, <2>2, SeqEqual
<1> QED
  BY <1>1, <1>4

(* A device that asks has one request more that is not answered.           *)
LEMMA AskAdds ==
    ASSUME events' = Append(events, "request"), UNCHANGED Evq
    PROVE  /\ Requested(0) => Requested(1)'
           /\ events = <<"ok">> => events' = <<"ok", "request">>
<1>1. Append(<<>>, "request") = <<"request">>
      /\ Append(<<"ok">>, "request") = <<"ok", "request">>
  BY AppendPair
<1>2. Requested(0) => Evq = 0 /\ events = <<>>
  BY DEF Requested
<1>3. Evq' = 0 /\ events' = <<"request">> => Requested(1)'
  BY DEF Requested
<1> QED
  BY <1>1, <1>2, <1>3

(* The device asks for a packet, once.                                     *)
LEMMA DevAskStep ==
    ASSUME CalmInv, DevAsk
    PROVE  CalmInv'
<1> DEFINE st == IF kind = "control" /\ dev.stage = "idle" THEN "asked" ELSE "asked_data"
<1>1. /\ Serving /\ kind # "in"
      /\ Stage = "idle" \/ (Stage = "data" /\ dev.dir = "out")
      /\ events' = Append(events, "request")
      /\ dev' = [dev EXCEPT !.stage = st]
      /\ UNCHANGED <<setup, ep, comps, irq, worker, submits>>
  BY DEF DevAsk, Stage, bounds
<1> HIDE DEF st
<1>2. /\ dev' = [f \in DevFields |-> dev'[f]] /\ dev'.stage = st /\ dev'.on = dev.on
      /\ dev'.halted = dev.halted /\ dev'.dir = dev.dir /\ dev'.id = dev.id
      /\ dev'.served = dev.served /\ dev'.halted \in BOOLEAN
  BY <1>1 DEF CalmInv, CalmTypes, DevFields
<1>3. /\ Common' /\ NotStuck' /\ UNCHANGED urbView /\ UNCHANGED <<lineView, Evq>>
      /\ \A S : Rest(ep, S) => Rest(ep', S)
  BY <1>1, <1>2, DeviceCommon
<1>4. /\ Requested(0) => Requested(1)'
      /\ events = <<"ok">> => events' = <<"ok", "request">>
  BY <1>1, <1>3, AskAdds
<1>5. /\ Busy' = Busy /\ Status' = Status /\ Dir' = Dir /\ Id' = Id
      /\ In' = In /\ Out' = Out /\ DoneIn' = DoneIn /\ DoneOut' = DoneOut /\ Evq' = Evq
      /\ Stage' = st /\ Halted' = Halted /\ Sub("out")' = Sub("out") /\ Done' = Done
      /\ Served' = Served
  BY <1>2, <1>3 DEF urbView, lineView, Stage, Halted, Sub, Done, Served
<1>6. CASE kind = "out"
  <2>1. st = "asked_data" /\ Stage \in {"idle", "asked_data"}
    BY <1>6 DEF st, CalmInv, OutInv
  <2>2. Stage = "idle"
    BY <1>1, <2>1
  <2>3. Requested(0) /\ Undisturbed
    BY <1>6, <2>2 DEF CalmInv, OutInv
  <2>4. Undisturbed'
    BY <1>1, <1>2, <1>5, <2>3 DEF Undisturbed, worker
  <2>5. OutInv'
    BY <1>3, <1>4, <1>5, <1>6, <2>1, <2>2, <2>3, <2>4 DEF CalmInv, OutInv
  <2> QED
    BY <1>1, <1>3, <1>6, <2>5 DEF CalmInv, Common, setup
<1>7. CASE kind = "control"
  <2>1. ~Halted /\ Works /\ Phase
    BY <1>1, <1>7, ServingWorks
  <2>2. Works'
    BY <1>1, <1>2, <1>3, <2>1 DEF Works, worker
  <2>3. Phase'
    <3>1. CASE Stage = "idle"
      <4>1. st = "asked"
        BY <1>7, <3>1 DEF st, Stage
      <4>2. CASE Waiting
        BY <1>4, <1>5, <3>1, <4>1, <4>2 DEF Phase, Waiting, Still, NoComps
      <4>3. CASE Ended
        BY <1>4, <1>5, <3>1, <4>1, <4>3
           DEF Phase, Ended, SetupDone, InDone, OutDone, DataDone, Still, NoComps
      <4> QED
        BY <2>1, <3>1, <4>2, <4>3 DEF Phase, SettingUp, Serves, Failing
    <3>2. CASE Stage = "data" /\ dev.dir = "out"
      <4>1. st = "asked_data"
        BY <3>2 DEF st, Stage
      <4>2. Serves
        BY <2>1, <3>2 DEF Phase, Waiting, SettingUp, Ended, Failing
      <4>3. (SetupDone \/ OutAwaited) /\ Dir = "out" /\ Requested(0)
        BY <3>2, <4>2 DEF Serves, InSent
      <4>4. (SetupDone \/ OutAwaited)'
        BY <1>5, <4>3 DEF SetupDone, OutAwaited, Still, NoComps
      <4> QED
        BY <1>2, <1>4, <1>5, <4>1, <4>2, <4>3, <4>4 DEF Phase, Serves
    <3> QED
      BY <1>1, <3>1, <3>2
  <2> QED
    BY <1>1, <1>3, <1>7, <2>2, <2>3 DEF CalmInv, Common, ControlInv, setup
<1> QED
  BY <1>1, <1>6, <1>7 DEF CalmInv, CalmTypes

(* The device has done what the first URB asks, and reports it.            *)
LEMMA DevStatusStep ==
    ASSUME CalmInv, DevStatus
    PROVE  CalmInv'
<1> DEFINE sv == dev.served \cup {dev.id}
<1>1. /\ Serving /\ Stage = "status" /\ events' = Append(events, "ok")
      /\ dev' = [dev EXCEPT !.stage = "idle", !.served = sv]
      /\ UNCHANGED <<setup, ep, comps, irq, worker, submits>>
  BY DEF DevStatus, Stage, bounds
<1> HIDE DEF sv
<1>2. /\ dev' = [f \in DevFields |-> dev'[f]] /\ dev'.stage = "idle" /\ dev'.on = dev.on
      /\ dev'.halted = dev.halted /\ dev'.served = sv /\ dev'.halted \in BOOLEAN
  BY <1>1 DEF CalmInv, CalmTypes, DevFields
<1>3. dev.served \subseteq dev'.served /\ dev.id \in dev'.served
  BY <1>2 DEF sv
<1>4. /\ Common' /\ NotStuck' /\ UNCHANGED urbView /\ UNCHANGED <<lineView, Evq>>
      /\ \A S : Rest(ep, S) => Rest(ep', S)
  BY <1>1, <1>2, <1>3, DeviceCommon
<1>5. kind = "control"
  BY <1>1 DEF CalmInv, CalmTypes, InInv, OutInv
<1>6. ~Halted /\ Works /\ Phase
  BY <1>1, <1>5, ServingWorks
<1>7. Works'
  BY <1>1, <1>2, <1>4, <1>6 DEF Works, worker
<1>8. Serves
  BY <1>1, <1>6 DEF Phase, Waiting, SettingUp, Ended, Failing
<1>9. /\ (SetupDone /\ Dir = "none") \/ InDone \/ OutDone \/ DataDone
      /\ Requested(0) /\ Status = "none" /\ dev.id = Id
  BY <1>1, <1>8 DEF Serves
<1>10. /\ Busy' = Busy /\ Status' = Status /\ Dir' = Dir /\ Id' = Id
       /\ In' = In /\ Out' = Out /\ DoneIn' = DoneIn /\ DoneOut' = DoneOut /\ Evq' = Evq
       /\ Stage' = "idle" /\ Halted' = Halted /\ Done' = Done /\ Served'
  BY <1>2, <1>3, <1>4, <1>9 DEF urbView, lineView, Stage, Halted, Done, Served
<1>11. events' = <<"ok">> /\ Evq = 0
  <2>1. Append(<<>>, "ok") = <<"ok">>
    OBVIOUS
  <2> QED
    BY <1>1, <1>9, <2>1 DEF Requested
<1>12. Ended'
  BY <1>6, <1>9, <1>10, <1>11
     DEF Ended, SetupDone, InDone, OutDone, DataDone, Still, NoComps
<1> QED
  BY <1>1, <1>4, <1>5, <1>7, <1>12 DEF CalmInv, Common, ControlInv, Phase, setup

(* The device fails the URB it serves, at any stage, and halts.            *)
LEMMA DevFailStep ==
    ASSUME CalmInv, DevFail
    PROVE  CalmInv'
<1>1. /\ Serving /\ kind = "control" /\ Stage \notin {"idle", "asked"}
      /\ events' = Append(events, "fail")
      /\ dev' = [dev EXCEPT !.stage = "idle", !.halted = TRUE]
      /\ UNCHANGED <<setup, ep, comps, irq, worker, submits>>
  BY DEF DevFail, Stage
<1>2. /\ dev' = [f \in DevFields |-> dev'[f]] /\ dev'.stage = "idle" /\ dev'.on = dev.on
      /\ dev'.halted = TRUE /\ dev'.served = dev.served
  BY <1>1 DEF CalmInv, CalmTypes, DevFields
<1>3. dev.served \subseteq dev'.served /\ dev'.halted \in BOOLEAN
  BY <1>2
<1>4. /\ Common' /\ NotStuck' /\ UNCHANGED urbView /\ UNCHANGED <<lineView, Evq>>
      /\ \A S : Rest(ep, S) => Rest(ep', S)
  BY <1>1, <1>2, <1>3, DeviceCommon
<1>5. ~Halted /\ Works /\ Phase
  BY <1>1, ServingWorks
<1>6. Works'
  BY <1>1, <1>2, <1>4, <1>5 DEF Works, worker
<1>7. Serves
  BY <1>1, <1>5 DEF Phase, Waiting, SettingUp, Ended, Failing
<1>8. /\ Busy' = Busy /\ Status' = Status /\ Dir' = Dir /\ Id' = Id
      /\ In' = In /\ Out' = Out /\ DoneIn' = DoneIn /\ DoneOut' = DoneOut /\ Evq' = Evq
      /\ Stage' = "idle" /\ Halted' /\ Done' = Done
      /\ Sub("in")' = Sub("in") /\ Sub("out")' = Sub("out")
  BY <1>2, <1>4 DEF urbView, lineView, Stage, Halted, Done, Sub
<1>9. /\ SetupDone \/ InSent \/ InDone \/ OutAwaited \/ OutSent \/ OutDone \/ DataDone
      /\ Status = "none"
      /\ \/ Requested(0)
         \/ Requested(1) /\ ((SetupDone /\ Dir = "out") \/ OutAwaited)
  BY <1>7 DEF Serves
<1>10. /\ (SetupDone \/ InSent \/ InDone \/ OutAwaited \/ OutSent \/ OutDone \/ DataDone)'
       /\ (SetupDone /\ Dir = "out") \/ OutAwaited => ((SetupDone /\ Dir = "out") \/ OutAwaited)'
  BY <1>8, <1>9
     DEF SetupDone, InSent, InDone, OutAwaited, OutSent, OutDone, DataDone, Still, NoComps
<1>11. /\ Requested(0) => Evq' = 0 /\ events' = <<"fail">>
       /\ Requested(1) => \/ Evq' = 1 /\ events' = <<"fail">>
                          \/ Evq' = 0 /\ events' = <<"request", "fail">>
  <2>1. /\ Append(<<>>, "fail") = <<"fail">>
        /\ Append(<<"request">>, "fail") = <<"request", "fail">>
    BY AppendPair
  <2>2. /\ Requested(0) => Evq = 0 /\ events = <<>>
        /\ Requested(1) => \/ Evq = 1 /\ events = <<>>
                           \/ Evq = 0 /\ events = <<"request">>
    BY DEF Requested
  <2> QED
    BY <1>1, <1>8, <2>1, <2>2
<1>12. Failing'
  BY <1>8, <1>9, <1>10, <1>11 DEF Failing
<1> QED
  BY <1>1, <1>4, <1>6, <1>12 DEF CalmInv, Common, ControlInv, Phase, setup

(* The device ends the first submission of a queue.                        *)
LEMMA FinishFields ==
    ASSUME CalmInv, NEW sq \in {"in", "out"}, Finish(sq),
           dev' = [f \in DevFields |-> dev'[f]], dev'.on = dev.on, dev'.halted = dev.halted,
           dev.served \subseteq dev'.served
    PROVE  /\ ep'[sq] = Tail(ep[sq])
           /\ comps'[sq] = Append(comps[sq], [id |-> Head(ep[sq]).id, aborted |-> FALSE])
           /\ \A q \in {"in", "out"} \ {sq} : ep'[q] = ep[q] /\ comps'[q] = comps[q]
           /\ ListSame(ep, ep') /\ UNCHANGED urbView /\ \A S : Rest(ep, S) => Rest(ep', S)
           /\ ep'.evq = ep.evq /\ Evq' = Evq
           /\ ep'.active = ep.active /\ ep'.stalled = ep.stalled /\ ep'.work = ep.work
           /\ Halted' = Halted /\ Common' /\ NotStuck'
           /\ UNCHANGED <<setup, events, irq, todo>>
<1> DEFINE c == Append(comps[sq], [id |-> Head(ep[sq]).id, aborted |-> FALSE])
           t == Tail(ep[sq])
<1>1. /\ ep' = [ep EXCEPT ![sq] = t] /\ comps' = [comps EXCEPT ![sq] = c]
      /\ UNCHANGED <<setup, events, irq, todo, submits>>
  BY DEF Finish, worker, bounds
<1> HIDE DEF c, t
<1>2. /\ UrbsSame(ep, ep') /\ EpTypes(ep') /\ ep'[sq] = t
      /\ \A q \in {"in", "out"} \ {sq} : ep'[q] = ep[q]
      /\ ep'.evq = ep.evq /\ ep'.active = ep.active /\ ep'.stalled = ep.stalled
      /\ ep'.work = ep.work
  BY <1>1 DEF CalmInv, CalmTypes, EpTypes, Fields, UrbsSame, ListSame
<1>3. /\ comps' = [q \in {"in", "out"} |-> comps'[q]] /\ comps'[sq] = c
      /\ \A q \in {"in", "out"} \ {sq} : comps'[q] = comps[q]
  BY <1>1 DEF CalmInv, CalmTypes
<1>4. Common'
  BY <1>1, <1>2, <1>3, CommonSame DEF CalmInv, CalmTypes, Common
<1>5. ListSame(ep, ep') /\ UNCHANGED urbView /\ \A S : Rest(ep, S) => Rest(ep', S)
  BY <1>2, ListSameView DEF UrbsSame
<1>6. Evq' = Evq /\ Halted' = Halted
  BY <1>2 DEF Evq, Halted
<1>7. NotStuck'
  BY <1>1, <1>5, <1>6 DEF CalmInv, NotStuck, urbView
<1> QED
  BY <1>1, <1>2, <1>3, <1>4, <1>5, <1>6, <1>7 DEF c, t

(* What that is to the first URB when the submission is its only one.      *)
LEMMA FinishFirst ==
    ASSUME NEW sq \in {"in", "out"}, NEW what, ep[sq] = Sub(what), comps[sq] = <<>>,
           ep'[sq] = Tail(ep[sq]),
           comps'[sq] = Append(comps[sq], [id |-> Head(ep[sq]).id, aborted |-> FALSE])
    PROVE  /\ ep'[sq] = <<>> /\ comps'[sq] = Done
           /\ Head(ep[sq]).id = Id /\ Head(ep[sq]).what = what /\ Head(ep[sq]).dir = Dir
<1> DEFINE s == [id |-> Id, what |-> what, dir |-> Dir]
<1>1. s.id = Id /\ s.what = what /\ s.dir = Dir
  OBVIOUS
<1>2. Sub(what) = <<s>>
  BY DEF Sub
<1> HIDE DEF s
<1>3. Head(ep[sq]) = s /\ Tail(ep[sq]) = <<>>
  BY <1>2, EventFacts
<1>4. comps'[sq] = Done
  BY <1>1, <1>3, AppendPair DEF Done
<1> QED
  BY <1>1, <1>3, <1>4

(* The device takes the setup packet of the first URB.                     *)
LEMMA DevSetupStep ==
    ASSUME CalmInv, DevSetup
    PROVE  CalmInv'
<1> DEFINE h == Head(ep.out)
           st == IF h.dir = "none" THEN "status" ELSE "data"
<1>1. /\ Serving /\ Out # <<>> /\ h.what = "setup" /\ Stage = "asked"
      /\ dev' = [dev EXCEPT !.stage = st, !.dir = h.dir, !.id = h.id]
      /\ Finish("out")
  BY DEF DevSetup, Out, Stage
<1>2. /\ dev' = [f \in DevFields |-> dev'[f]] /\ dev'.stage = st /\ dev'.on = dev.on
      /\ dev'.halted = dev.halted /\ dev'.dir = h.dir /\ dev'.id = h.id
      /\ dev'.served = dev.served
  BY <1>1 DEF CalmInv, CalmTypes, DevFields
<1>3. /\ ep'["out"] = Tail(ep["out"])
      /\ comps'["out"] = Append(comps["out"], [id |-> Head(ep["out"]).id, aborted |-> FALSE])
      /\ \A q \in {"in", "out"} \ {"out"} : ep'[q] = ep[q] /\ comps'[q] = comps[q]
      /\ UNCHANGED urbView /\ \A S : Rest(ep, S) => Rest(ep', S)
      /\ Evq' = Evq /\ ep'.active = ep.active /\ ep'.stalled = ep.stalled
      /\ Halted' = Halted /\ Common' /\ NotStuck'
      /\ UNCHANGED <<setup, events, irq, todo>>
  BY <1>1, <1>2, FinishFields
<1>4. kind = "control"
  BY <1>1 DEF CalmInv, CalmTypes, InInv, OutInv
<1>5. ~Halted /\ Works /\ Phase
  BY <1>1, <1>4, ServingWorks
<1>6. SettingUp
  BY <1>1, <1>5 DEF Phase, Waiting, Serves, Ended, Failing, SetupDone, InSent, InDone,
                    OutAwaited, OutSent, OutDone, DataDone, Still
<1>7. /\ ep'["out"] = <<>> /\ comps'["out"] = Done /\ h.id = Id /\ h.dir = Dir
  <2>1. ep["out"] = Sub("setup") /\ comps["out"] = <<>>
    BY <1>6 DEF SettingUp, NoComps, Out, DoneOut
  <2> QED
    BY <1>3, <2>1, FinishFirst
<1>8. /\ In' = <<>> /\ DoneIn' = <<>> /\ Out' = <<>> /\ DoneOut' = Done'
      /\ Busy' = Busy /\ Status' = Status /\ Dir' = Dir /\ Id' = Id
      /\ dev'.id = Id' /\ dev'.dir = Dir' /\ Stage' = st
  <2>1. "in" \in {"in", "out"} \ {"out"}
    OBVIOUS
  <2>2. ep'["in"] = <<>> /\ comps'["in"] = <<>>
    BY <1>3, <1>6, <2>1 DEF SettingUp, NoComps, In, DoneIn
  <2> QED
    BY <1>2, <1>3, <1>7, <2>2 DEF In, DoneIn, Out, DoneOut, urbView, Stage, Done
<1>9. SetupDone' /\ Requested(0)' /\ Dir \in {"in", "out", "none"}
  <2>1. Dir \in {"in", "out", "none"}
    <3>1. ep.list # <<>>
      BY <1>6 DEF SettingUp, Busy, StateOf
    <3> QED
      BY <3>1, HeadLinked DEF CalmInv, CalmTypes, Dir
  <2>2. SetupDone'
    BY <1>6, <1>8 DEF SetupDone, SettingUp, Still
  <2>3. Requested(0)'
    BY <1>3, <1>6 DEF SettingUp, Requested
  <2> QED
    BY <2>1, <2>2, <2>3
<1>10. Serves'
  BY <1>3, <1>5, <1>6, <1>7, <1>8, <1>9 DEF Serves, SettingUp
<1>11. Works'
  <2>1. dev'.on
    BY <1>2, <1>5 DEF Works
  <2> QED
    BY <1>3, <1>5, <2>1 DEF Works
<1> QED
  BY <1>3, <1>4, <1>10, <1>11 DEF CalmInv, Common, ControlInv, Phase, setup

(* The device takes the data of the first URB.                             *)
LEMMA DevOutStep ==
    ASSUME CalmInv, DevOut
    PROVE  CalmInv'
<1> DEFINE h == Head(ep.out)
<1>1. /\ Serving /\ Out # <<>> /\ h.what = "out" /\ Stage = "asked_data"
      /\ dev' = IF kind = "control" THEN [dev EXCEPT !.stage = "status"]
                ELSE [dev EXCEPT !.stage = "idle", !.served = @ \cup {h.id}]
      /\ Finish("out")
  BY DEF DevOut, Out, Stage, CalmInv, CalmTypes
<1>2. /\ dev' = [f \in DevFields |-> dev'[f]] /\ dev'.on = dev.on
      /\ dev'.halted = dev.halted /\ dev'.dir = dev.dir /\ dev'.id = dev.id
      /\ dev.served \subseteq dev'.served
      /\ kind = "control" => dev'.stage = "status" /\ dev'.served = dev.served
      /\ kind # "control" => dev'.stage = "idle" /\ h.id \in dev'.served
  BY <1>1 DEF CalmInv, CalmTypes, DevFields
<1>3. /\ ep'["out"] = Tail(ep["out"])
      /\ comps'["out"] = Append(comps["out"], [id |-> Head(ep["out"]).id, aborted |-> FALSE])
      /\ \A q \in {"in", "out"} \ {"out"} : ep'[q] = ep[q] /\ comps'[q] = comps[q]
      /\ UNCHANGED urbView /\ \A S : Rest(ep, S) => Rest(ep', S)
      /\ Evq' = Evq /\ ep'.active = ep.active /\ ep'.stalled = ep.stalled
      /\ ep'.work = ep.work
      /\ Halted' = Halted /\ Common' /\ NotStuck'
      /\ UNCHANGED <<setup, events, irq, todo>>
  BY <1>1, <1>2, FinishFields
<1>4. /\ Busy' = Busy /\ Status' = Status /\ Dir' = Dir /\ Id' = Id
      /\ Requested(0) => Requested(0)'
  BY <1>3 DEF urbView, Requested
<1>5. ep'["in"] = ep["in"] /\ comps'["in"] = comps["in"]
  <2>1. "in" \in {"in", "out"} \ {"out"}
    OBVIOUS
  <2> QED
    BY <1>3, <2>1
<1>6. CASE kind = "out"
  <2>1. /\ Undisturbed /\ In = <<>> /\ DoneIn = <<>> /\ Rest(ep, {"transfer_request"})
        /\ Busy = "completion" /\ DoneOut = <<>> /\ Out = Sub("out") /\ Requested(0)
    BY <1>1, <1>6 DEF CalmInv, OutInv
  <2>2. ep["out"] = Sub("out") /\ comps["out"] = <<>>
    BY <2>1 DEF DoneOut, Out
  <2>3. ep'["out"] = <<>> /\ comps'["out"] = Done /\ h.id = Id
    BY <1>3, <2>2, FinishFirst
  <2>4. /\ Out' = <<>> /\ DoneOut' = Done' /\ In' = <<>> /\ DoneIn' = <<>>
        /\ Stage' = "idle" /\ Served'
    BY <1>2, <1>4, <1>5, <1>6, <2>1, <2>3 DEF Out, DoneOut, In, DoneIn, Stage, Served, Done
  <2>5. Undisturbed'
    BY <1>2, <1>3, <2>1 DEF Undisturbed
  <2>6. OutInv'
    BY <1>3, <1>4, <2>1, <2>4, <2>5 DEF OutInv
  <2> QED
    BY <1>3, <1>6, <2>6 DEF CalmInv, Common, setup
<1>7. CASE kind = "control"
  <2>1. ~Halted /\ Works /\ Phase
    BY <1>1, <1>7, ServingWorks
  <2>2. Serves
    BY <1>1, <2>1 DEF Phase, Waiting, SettingUp, Ended, Failing
  <2>3. OutSent /\ Requested(0) /\ Status = "none" /\ dev.id = Id /\ dev.dir = Dir
    BY <1>1, <2>2 DEF Serves, SetupDone, OutAwaited, Still
  <2>4. ep["out"] = Sub("out") /\ comps["out"] = <<>>
    BY <2>3 DEF OutSent, DoneOut, Out
  <2>5. ep'["out"] = <<>> /\ comps'["out"] = Done
    BY <1>3, <2>4, FinishFirst
  <2>6. /\ Out' = <<>> /\ DoneOut' = Done' /\ In' = <<>> /\ DoneIn' = <<>>
        /\ Stage' = "status"
    BY <1>2, <1>4, <1>5, <1>7, <2>3, <2>5
       DEF OutSent, Out, DoneOut, In, DoneIn, Stage, Done
  <2>7. OutDone'
    BY <1>4, <2>3, <2>6 DEF OutDone, OutSent
  <2>8. Serves'
    BY <1>2, <1>3, <1>4, <2>1, <2>3, <2>6, <2>7 DEF Serves
  <2>9. Works'
    BY <1>2, <1>3, <2>1 DEF Works
  <2> QED
    BY <1>3, <1>7, <2>8, <2>9 DEF CalmInv, Common, ControlInv, Phase, setup
<1> QED
  BY <1>1, <1>6, <1>7 DEF CalmInv, CalmTypes, InInv

(* The device sends data: to the oldest submission of an IN endpoint, or   *)
(* to the first URB of a control endpoint.                                 *)
LEMMA DevInStep ==
    ASSUME CalmInv, DevIn
    PROVE  CalmInv'
<1> DEFINE h == Head(ep.in)
<1>1. /\ Serving /\ In # <<>>
      /\ kind = "control" => Stage = "data" /\ dev.dir = "in"
      /\ dev' = IF kind = "control" THEN [dev EXCEPT !.stage = "status"]
                ELSE [dev EXCEPT !.served = @ \cup {h.id}]
      /\ Finish("in")
  BY DEF DevIn, In, Stage
<1>2. /\ dev' = [f \in DevFields |-> dev'[f]] /\ dev'.on = dev.on
      /\ dev'.halted = dev.halted /\ dev'.dir = dev.dir /\ dev'.id = dev.id
      /\ dev.served \subseteq dev'.served
      /\ kind = "control" => dev'.stage = "status" /\ dev'.served = dev.served
      /\ kind # "control" => dev'.stage = dev.stage /\ h.id \in dev'.served
  BY <1>1 DEF CalmInv, CalmTypes, DevFields
<1>3. /\ ep'["in"] = Tail(ep["in"])
      /\ comps'["in"] = Append(comps["in"], [id |-> Head(ep["in"]).id, aborted |-> FALSE])
      /\ \A q \in {"in", "out"} \ {"in"} : ep'[q] = ep[q] /\ comps'[q] = comps[q]
      /\ ListSame(ep, ep') /\ UNCHANGED urbView /\ \A S : Rest(ep, S) => Rest(ep', S)
      /\ Evq' = Evq /\ ep'.active = ep.active /\ ep'.stalled = ep.stalled
      /\ ep'.work = ep.work
      /\ Halted' = Halted /\ Common' /\ NotStuck'
      /\ UNCHANGED <<setup, events, irq, todo>>
  BY <1>1, <1>2, FinishFields
<1>4. /\ Busy' = Busy /\ Status' = Status /\ Dir' = Dir /\ Id' = Id
      /\ Requested(0) => Requested(0)'
  BY <1>3 DEF urbView, Requested
<1>5. Out' = Out /\ DoneOut' = DoneOut
  <2>1. "out" \in {"in", "out"} \ {"in"}
    OBVIOUS
  <2> QED
    BY <1>3, <2>1 DEF Out, DoneOut
<1>6. CASE kind = "in"
  <2> DEFINE Subs == [id : Nat, what : {"in", "out", "setup"}, dir : {"in", "out", "none"}]
             Cs == [id : Nat, aborted : BOOLEAN]
             x == [id |-> h.id, aborted |-> FALSE]
             N == Len(ep.list)
             k == Len(DoneIn)
             m == Len(In)
  <2>1. InInv /\ EpTypes(ep)
    BY <1>6 DEF CalmInv, CalmTypes
  <2>2. In' = Tail(In) /\ DoneIn' = Append(DoneIn, x) /\ h = Head(In)
    BY <1>3 DEF In, DoneIn
  <2>3. In \in Seq(Subs) /\ DoneIn \in Seq(Cs) /\ N = k + m
    BY <2>1 DEF InInv
  <2>4. /\ m \in Nat /\ m >= 1 /\ h = In[1] /\ DOMAIN In = 1..m /\ 1 \in 1..m
        /\ Tail(In) \in Seq(Subs) /\ Len(Tail(In)) = m - 1 /\ DOMAIN Tail(In) = 1..(m - 1)
        /\ \A i \in 1..(m - 1) : Tail(In)[i] = In[i + 1]
        /\ In[1] \in Subs
    <3>1. /\ m \in Nat /\ m >= 1 /\ Head(In) = In[1] /\ DOMAIN In = 1..m
          /\ Tail(In) \in Seq(Subs) /\ Len(Tail(In)) = m - 1
          /\ \A i \in 1..(m - 1) : Tail(In)[i] = In[i + 1]
          /\ \A i \in 1..m : In[i] \in Subs
      BY <1>1, <2>3, ListFacts
    <3>2. DOMAIN Tail(In) = 1..(m - 1)
      BY <3>1, ListFacts
    <3>3. 1 \in 1..m
      BY <3>1
    <3> QED
      BY <2>2, <3>1, <3>2, <3>3
  <2>5. x \in Cs
    BY <2>4
  <2>6. /\ k \in Nat /\ DOMAIN DoneIn = 1..k
        /\ DoneIn' \in Seq(Cs) /\ Len(DoneIn') = k + 1 /\ DOMAIN DoneIn' = 1..(k + 1)
        /\ DoneIn'[k + 1] = x /\ \A i \in 1..k : DoneIn'[i] = DoneIn[i]
    <3>1. /\ k \in Nat /\ DOMAIN DoneIn = 1..k
          /\ DoneIn' \in Seq(Cs) /\ Len(DoneIn') = k + 1
          /\ DoneIn'[k + 1] = x /\ \A i \in 1..k : DoneIn'[i] = DoneIn[i]
      BY <2>2, <2>3, <2>5, AppendFacts, ListFacts
    <3> QED
      BY <3>1, ListFacts
  <2> HIDE DEF x
  <2>7. ep'.list = ep.list /\ ep'.id = ep.id /\ ep'.state = ep.state
    BY <1>3 DEF ListSame
  <2>8. x = [id |-> ep'.id[ep'.list[k + 1]], aborted |-> FALSE] /\ x.id \in dev'.served
    <3>1. In[1].id = ep.id[ep.list[k + 1]]
      BY <2>1, <2>4 DEF InInv
    <3> QED
      BY <1>2, <1>6, <2>4, <2>7, <3>1 DEF x
  <2>9. \A i \in DOMAIN DoneIn' :
           /\ DoneIn'[i] = [id |-> ep'.id[ep'.list[i]], aborted |-> FALSE]
           /\ DoneIn'[i].id \in dev'.served
    <3>1. \A i \in 1..(k + 1) : i \in 1..k \/ i = k + 1
      BY <2>6
    <3>2. \A i \in 1..k : /\ DoneIn[i] = [id |-> ep.id[ep.list[i]], aborted |-> FALSE]
                          /\ DoneIn[i].id \in dev.served
      BY <2>1, <2>6 DEF InInv
    <3> QED
      BY <1>2, <2>6, <2>7, <2>8, <3>1, <3>2
  <2>10. \A i \in DOMAIN In' : In'[i].id = ep'.id[ep'.list[Len(DoneIn') + i]]
    <3>1. ASSUME NEW i \in 1..(m - 1)
          PROVE  In'[i].id = ep'.id[ep'.list[k + 1 + i]]
      <4>1. i + 1 \in 1..m /\ k + (i + 1) = k + 1 + i
        BY <2>4, <2>6
      <4>2. In[i + 1].id = ep.id[ep.list[k + (i + 1)]]
        BY <2>1, <2>4, <4>1 DEF InInv
      <4> QED
        BY <2>2, <2>4, <2>7, <4>1, <4>2
    <3> QED
      BY <2>2, <2>4, <2>6, <3>1
  <2>11. Undisturbed'
    BY <1>2, <1>3, <2>1 DEF InInv, Undisturbed
  <2>12. Len(ep'.list) = Len(DoneIn') + Len(In')
    <3>1. Len(In') = m - 1 /\ Len(ep'.list) = N
      BY <2>2, <2>4, <2>7
    <3> QED
      BY <2>3, <2>4, <2>6, <3>1
  <2>13. \A i \in DOMAIN ep'.list : ep'.state[ep'.list[i]] = "completion"
    BY <2>1, <2>7 DEF InInv
  <2>14. InInv'
    BY <1>2, <1>3, <1>5, <1>6, <2>1, <2>2, <2>4, <2>6, <2>9, <2>10, <2>11, <2>12, <2>13
       DEF InInv, Stage
  <2> QED
    BY <1>3, <1>6, <2>14 DEF CalmInv, Common, setup
<1>7. CASE kind = "control"
  <2>1. ~Halted /\ Works /\ Phase
    BY <1>1, <1>7, ServingWorks
  <2>2. Serves
    BY <1>1, <1>7, <2>1 DEF Phase, Waiting, SettingUp, Ended, Failing
  <2>3. InSent /\ Requested(0) /\ Status = "none" /\ dev.id = Id /\ dev.dir = Dir
    BY <1>1, <1>7, <2>2 DEF Serves, SetupDone, OutAwaited, Still
  <2>4. ep["in"] = Sub("in") /\ comps["in"] = <<>>
    BY <2>3 DEF InSent, DoneIn, In
  <2>5. ep'["in"] = <<>> /\ comps'["in"] = Done
    BY <1>3, <2>4, FinishFirst
  <2>6. /\ Out' = <<>> /\ DoneOut' = <<>> /\ In' = <<>> /\ DoneIn' = Done'
        /\ Stage' = "status"
    BY <1>2, <1>4, <1>5, <1>7, <2>3, <2>5
       DEF InSent, In, DoneIn, Stage, Done
  <2>7. InDone'
    BY <1>4, <2>3, <2>6 DEF InDone, InSent
  <2>8. Serves'
    BY <1>2, <1>3, <1>4, <2>1, <2>3, <2>6, <2>7 DEF Serves
  <2>9. Works'
    BY <1>2, <1>3, <2>1 DEF Works
  <2> QED
    BY <1>3, <1>7, <2>8, <2>9 DEF CalmInv, Common, ControlInv, Phase, setup
<1>8. kind # "out"
  BY <1>1 DEF CalmInv, OutInv
<1> QED
  BY <1>6, <1>7, <1>8 DEF CalmInv, CalmTypes

-----------------------------------------------------------------------------
(***************************************************************************)
(* The theorems                                                            *)
(***************************************************************************)
(* A new queue, with no URB, satisfies the invariant.                      *)
LEMMA CalmInit ==
    ASSUME Init, mode = "calm"
    PROVE  CalmInv
<1>1. kind \in {"in", "out", "control"}
  BY TransferQueueAssumption DEF Init
<1>2. /\ ep.list = <<>> /\ ep.state = [u \in Urbs |-> "none"]
      /\ ep.status = [u \in Urbs |-> "none"] /\ ep.dir = [u \in Urbs |-> "in"]
      /\ ep.id = [u \in Urbs |-> 0] /\ ep.evq = 0 /\ ep.in = <<>> /\ ep.out = <<>>
      /\ ep.giveback = <<>> /\ ep.active = TRUE /\ ep.stalled = FALSE /\ ep.work = <<>>
      /\ ep = [f \in Fields |-> ep[f]]
  BY DEF Init, Fields
<1>3. EpTypes(ep)
  <2>1. /\ ep.state \in [Urbs -> UrbStates] /\ ep.id \in [Urbs -> Nat]
        /\ ep.status \in [Urbs -> {"none", "ok", "fail"}]
        /\ ep.dir \in [Urbs -> {"in", "out", "none"}]
    BY <1>2 DEF UrbStates
  <2>2. /\ ep.list \in Seq(Urbs) /\ ep.giveback \in Seq(Givebacks)
        /\ ep.work \in Seq({"reset"})
    BY <1>2
  <2> QED
    BY <1>2, <2>1, <2>2 DEF EpTypes
<1>4. /\ dev = [f \in DevFields |-> dev[f]] /\ dev.on = TRUE /\ dev.halted = FALSE
      /\ dev.stage = "idle" /\ comps = [sq \in {"in", "out"} |-> comps[sq]]
      /\ comps["in"] = <<>> /\ comps["out"] = <<>> /\ events = <<>>
      /\ irq = "idle" /\ todo = <<>> /\ submits \in Nat /\ full = {}
  BY DEF Init, DevFields
<1>5. CalmTypes
  BY <1>1, <1>3, <1>4 DEF CalmTypes
<1>6. Linked(ep) /\ Successful /\ NotStuck
  BY <1>2, <1>4 DEF Linked, Successful, NotStuck, Evq
<1>7. /\ Busy = "empty" /\ In = <<>> /\ Out = <<>> /\ DoneIn = <<>> /\ DoneOut = <<>>
      /\ Evq = 0 /\ Stage = "idle" /\ ~Halted /\ \A S : Rest(ep, S)
  BY <1>2, <1>4 DEF Busy, StateOf, In, Out, DoneIn, DoneOut, Evq, Stage, Halted, Rest
<1>8. Undisturbed /\ Requested(0)
  BY <1>2, <1>4, <1>7 DEF Undisturbed, Requested
<1>9. InInv
  BY <1>2, <1>4, <1>7, <1>8 DEF InInv
<1>10. OutInv
  BY <1>4, <1>7, <1>8 DEF OutInv
<1>11. ControlInv
  BY <1>2, <1>4, <1>7, <1>8 DEF ControlInv, Works, Phase, Waiting, Still, NoComps
<1> QED
  BY <1>5, <1>6, <1>9, <1>10, <1>11 DEF CalmInv

(* Whatever a class driver, the interrupt thread, the workqueue and the    *)
(* device do next, it holds again.                                         *)
LEMMA CalmNext ==
    ASSUME CalmInv, [Next]_vars
    PROVE  CalmInv'
<1>1. CASE \E u \in Urbs : RequestCancel(u) \/ \E dir \in Dirs : Create(u, dir)
  BY <1>1, NotCalm, CreateStep
<1>2. CASE EndpointReset \/ RingsDrain \/ \E ring \in {"in", "out"} : RingFills(ring)
  BY <1>2, NotCalm
<1>3. CASE Interrupt
  BY <1>3, TakeCompletionStep, CompletionsTakenStep, TakeEventStep, GivebackStep,
     GivenBackStep DEF Interrupt
<1>4. CASE Worker
  <2>1. CASE TakeWork \/ Deactivate \/ Drop \/ Stall \/ Unstall \/ ActivateQueue
    BY <2>1, NotCalm, TakeWorkStep, DropStep, UnstallStep, ActivateStep
  <2>2. CASE CheckStalled \/ SetFwPaused \/ UrbRemove \/ SetPaused \/ SetActive
    BY <2>2, NotCalm, CheckStalledStep, SetActiveStep
  <2>3. CASE \E took \in BOOLEAN : SetPausedFails(took) \/ SetActiveFails(took)
    BY <2>3, NotCalm, SetActiveSucceeds
  <2>4. CASE \E sq \in {"in", "out"} : FlushQueue(sq) \/ Flushed(sq)
    BY <2>4, FlushQueueStep, FlushedStepInv
  <2>5. CASE ResetEndpoint \/ ResetEndpointFails
    BY <2>5, NotCalm, ResetEndpointStep
  <2> QED
    BY <1>4, <2>1, <2>2, <2>3, <2>4, <2>5 DEF Worker
<1>5. CASE Device
  BY <1>5, DevAskStep, DevSetupStep, DevOutStep, DevInStep, DevStatusStep DEF Device
<1>6. CASE DevFail
  BY <1>6, DevFailStep
<1>7. CASE \E item \in {"fw_pause", "fw_resume", "fw_stall"} : FirmwareRequest(item)
  BY <1>7, NotCalm
<1>8. CASE UNCHANGED vars
  BY <1>8, StutterStep
<1> QED
  BY <1>1, <1>2, <1>3, <1>4, <1>5, <1>6, <1>7, <1>8 DEF Next

(* Only the phases in which a submission has been made have a completion,  *)
(* which is that of the first URB.                                         *)
LEMMA CalmOwnCompletion ==
    ASSUME CalmInv
    PROVE  OwnCompletion
<1> SUFFICES ASSUME NEW sq \in {"in", "out"}, comps[sq] # <<>>, ep.list # <<>>,
                    ~Head(comps[sq]).aborted,
                    ep.state[Head(ep.list)] \in {"setup_completion", "completion"}
             PROVE  Head(comps[sq]).id = ep.id[Head(ep.list)]
  BY DEF OwnCompletion
<1>1. Busy \in {"setup_completion", "completion"} /\ ~NoComps
  BY DEF Busy, StateOf, NoComps, DoneIn, DoneOut
<1>2. comps[sq] = Done => Head(comps[sq]).id = ep.id[Head(ep.list)]
  <2>1. Head(Done) = [id |-> Id, aborted |-> FALSE]
    BY EventFacts DEF Done
  <2> QED
    BY <2>1 DEF Id
<1>3. CASE kind = "in"
  <2>1. InInv /\ EpTypes(ep)
    BY <1>3 DEF CalmInv, CalmTypes
  <2>2. sq = "in" /\ comps[sq] = DoneIn
    BY <2>1 DEF InInv, DoneIn, DoneOut
  <2>3. /\ Head(DoneIn) = DoneIn[1] /\ 1 \in DOMAIN DoneIn /\ Head(ep.list) = ep.list[1]
    <3>1. DoneIn \in Seq([id : Nat, aborted : BOOLEAN]) /\ ep.list \in Seq(Urbs)
      BY <2>1 DEF InInv, EpTypes
    <3>2. Head(DoneIn) = DoneIn[1] /\ Len(DoneIn) \in Nat /\ Len(DoneIn) >= 1
          /\ DOMAIN DoneIn = 1..Len(DoneIn)
      BY <2>2, <3>1, ListFacts
    <3>3. Head(ep.list) = ep.list[1]
      BY <3>1, ListFacts
    <3> QED
      BY <3>2, <3>3
  <2>4. DoneIn[1] = [id |-> ep.id[ep.list[1]], aborted |-> FALSE]
    BY <2>1, <2>3 DEF InInv
  <2> QED
    BY <2>2, <2>3, <2>4
<1>4. CASE kind = "out"
  <2>1. sq = "out" /\ DoneOut = Done
    BY <1>4 DEF CalmInv, OutInv, DoneIn, DoneOut
  <2> QED
    BY <1>2, <2>1 DEF DoneOut
<1>5. CASE kind = "control"
  <2>1. Phase
    BY <1>1, <1>5 DEF CalmInv, ControlInv, Failed, Quiet
  <2>2. SetupDone \/ InDone \/ OutDone
    BY <1>1, <2>1 DEF Phase, Waiting, SettingUp, Serves, Ended, Failing, InSent,
                      OutAwaited, OutSent, DataDone, NoComps
  <2>3. comps[sq] = Done
    BY <2>2 DEF SetupDone, InDone, OutDone, DoneIn, DoneOut
  <2> QED
    BY <1>2, <2>3
<1> QED
  BY <1>3, <1>4, <1>5 DEF CalmInv, CalmTypes

(* NotStuck, in the words of the code that would deliver the request.      *)
LEMMA CalmNoStuckRequest ==
    ASSUME CalmInv
    PROVE  NoStuckRequest
<1> SUFFICES ASSUME Unlocked, Deliverable(ep)
             PROVE  FALSE
  BY DEF NoStuckRequest
<1>1. ep.list # <<>> /\ ep.evq > 0
      /\ ep.state[Head(ep.list)] \in {"setup_request", "transfer_request"}
  BY DEF Deliverable, Again
<1>2. Evq # 0 /\ Busy \in {"setup_request", "transfer_request"}
  BY <1>1 DEF Evq, Busy, StateOf, CalmInv, CalmTypes, EpTypes
<1> QED
  BY <1>2 DEF CalmInv, NotStuck, Unlocked

(* On an endpoint nobody cancels, pauses or resets but the driver itself,  *)
(* the state of the first URB, the completions and submissions in both     *)
(* queues, the requests deferred in evq, the events not yet handled and    *)
(* the phase of the device always fit together, through failed transfers   *)
(* and the reset that follows them (bce_vhci_transfer_queue_reset_w).      *)
THEOREM CalmInvariant == Spec => [](mode = "calm" => CalmInv)
<1> DEFINE I == mode = "calm" => CalmInv
<1>1. Init => I
  BY CalmInit
<1>2. I /\ [Next]_vars => I'
  <2> SUFFICES ASSUME I, [Next]_vars, mode' = "calm"
               PROVE  CalmInv'
    OBVIOUS
  <2>1. mode' = mode
    BY DEF Next, vars, setup, RequestCancel, Create, EndpointReset, Interrupt, Worker, Device,
           DevFail, FirmwareRequest, TakeCompletion, CompletionsTaken, TakeEvent, Giveback,
           GivenBack, TakeWork, Deactivate, Drop, Stall, Unstall, ActivateQueue, Locked,
           CheckStalled, SetFwPaused, UrbRemove, SetPaused, SetActive, SetPausedFails,
           SetActiveFails, FlushQueue, Flushed, ResetEndpoint, ResetEndpointFails, RingFills,
           RingsDrain, DevAsk, DevSetup, DevOut,
           DevIn, DevStatus, Finish
  <2> QED
    BY <2>1, CalmNext
<1> QED
  BY <1>1, <1>2, PTL DEF Spec

(* Although a completion does not say whose it is, the one that is handed  *)
(* to the first URB in the list (bce_vhci_transfer_queue_completion) is    *)
(* that of its own submission: however the completions of the two queues   *)
(* and the events are interleaved, none is given to another URB.           *)
THEOREM CompletionsAreTheirOwn == Spec => []OwnCompletion
<1>1. (mode = "calm" => CalmInv) => OwnCompletion
  BY CalmOwnCompletion DEF OwnCompletion
<1> QED
  BY <1>1, CalmInvariant, PTL

(* A URB given back without an error was served by the device: neither a   *)
(* completion that came before the status nor a status that came before    *)
(* the completion makes bce_vhci_urb_control_check_status believe in a     *)
(* transfer that failed.                                                   *)
THEOREM SuccessesAreReal == Spec => []SuccessIsReal
<1>1. (mode = "calm" => CalmInv) => SuccessIsReal
  BY DEF SuccessIsReal, CalmInv, Successful
<1> QED
  BY <1>1, CalmInvariant, PTL

(* When the interrupt thread is not in the transfer queue, no request of   *)
(* the device that was deferred in evq could be answered: none of the      *)
(* paths that make a URB ready for it forgets to look                      *)
(* (bce_vhci_transfer_queue_deliver_pending).                              *)
THEOREM RequestsAreAnswered == Spec => []NoStuckRequest
<1>1. (mode = "calm" => CalmInv) => NoStuckRequest
  BY CalmNoStuckRequest DEF NoStuckRequest
<1> QED
  BY <1>1, CalmInvariant, PTL
=============================================================================
