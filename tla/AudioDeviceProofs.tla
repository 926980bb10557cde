-------------------------- MODULE AudioDeviceProofs --------------------------
(***************************************************************************)
(* The wait for the first timestamp in aaudio_pcm_open, the time base that *)
(* aaudio_pcm_pointer counts from, and the handshake in aaudio_probe, for  *)
(* any number of devices and opens and whatever messages are on their way. *)
(***************************************************************************)
EXTENDS AudioDevice, SequenceTheorems, TLAPS

IoTypes == {"start", "stop", "started", "stopped", "timestamp"}

(* What a message, the interrupt thread or the remote side may know of:    *)
(* the opens of a device whose start_io has been sent.                     *)
Old(d) == {n \in Nat : n <= session[d] /\ (pc[d] = "start" => n # session[d])}

IoMessages == {m \in [type : IoTypes, dev : Devs, n : Nat] : m.n \in Old(m.dev)}
Messages == [type : {"alive", "boot"}] \cup IoMessages

Handled == [at : {"idle"}] \cup
           {h \in [at : {"stamp", "write"}, dev : Devs, n : Nat, time_os : Nat] : h.n \in Old(h.dev)}

TypeOK == /\ pc \in [Devs -> {"closed", "start", "started", "wait", "open", "stopped"}]
          /\ session \in [Devs -> Nat] /\ starts \in [Devs -> Nat]
          /\ needs_start_io_compl \in [Devs -> BOOLEAN]
          /\ start_io_compl \in [Devs -> BOOLEAN]
          /\ heard \in [Devs -> Nat] /\ running \in [Devs -> Nat]
          /\ in \in Seq(Messages) /\ out \in Seq(Messages)
          /\ handler \in Handled

(* Between arming and the end of the wait, the completion is armed or      *)
(* complete.                                                               *)
Armed == \A d \in Devs : pc[d] \in {"start", "started", "wait"} =>
            needs_start_io_compl[d] \/ start_io_compl[d]

Sent == \A d \in Devs : /\ pc[d] = "start" => session[d] # 0
                        /\ heard[d] \in Old(d) /\ running[d] \in Old(d)

IInv == TypeOK /\ Armed /\ Sent /\ NoLostStart

LEMMA SeqMono == ASSUME NEW S, NEW T, S \subseteq T, NEW s \in Seq(S) PROVE s \in Seq(T)
BY SeqDef

LEMMA SeqParts ==
    ASSUME NEW S, NEW s \in Seq(S), s # <<>>
    PROVE  Head(s) \in S /\ Tail(s) \in Seq(S)
BY HeadTailProperties

LEMMA SeqAppend ==
    ASSUME NEW S, NEW s \in Seq(S), NEW x \in S
    PROVE  Append(s, x) \in Seq(S)
OBVIOUS

(* What was old stays old when sessions only grow and nobody arms again    *)
(* for the same session.                                                   *)
LEMMA OldStays ==
    ASSUME \A d \in Devs : Old(d) \subseteq Old(d)'
    PROVE  Messages \subseteq Messages' /\ Handled \subseteq Handled'
BY DEF Messages, IoMessages, Handled

LEMMA InitIInv == Init => IInv
<1> SUFFICES ASSUME Init PROVE IInv
  OBVIOUS
<1>1. \A d \in Devs : Old(d) = {0}
  BY DEF Init, Zero, Old
<1>2. TypeOK
  <2>1. <<>> \in Seq(Messages)
    OBVIOUS
  <2>2. Idle \in Handled
    BY DEF Idle, Handled
  <2> QED
    BY <2>1, <2>2 DEF Init, Zero, TypeOK
<1>3. Armed /\ Sent /\ NoLostStart
  BY <1>1 DEF Init, Zero, Armed, Sent, NoLostStart
<1> QED
  BY <1>2, <1>3 DEF IInv

(* A step that leaves the calls and the opens alone leaves what is old     *)
(* alone too.                                                              *)
LEMMA OldSame ==
    ASSUME UNCHANGED <<pc, session>>
    PROVE  /\ \A d \in Devs : Old(d)' = Old(d)
           /\ Messages' = Messages /\ Handled' = Handled
BY DEF Old, Messages, IoMessages, Handled

LEMMA ProbeSafe ==
    ASSUME IInv, ProbeStep
    PROVE  IInv'
<1>1. /\ UNCHANGED <<pc, session, starts, stream, heard, running, in, handler>>
      /\ out' = out \/ out' = Append(out, Alive)
  BY DEF ProbeStep, SendAlive, WaitAlive, GetDeviceList, SetRemoteAccess, InitBs, RegisterCard,
         InitDev, ProbeOnly, history, remote
<1>2. Alive \in Messages
  BY DEF Alive, Messages
<1>3. out' \in Seq(Messages)
  BY <1>1, <1>2, SeqAppend DEF IInv, TypeOK
<1>4. TypeOK'
  BY <1>1, <1>3, OldSame DEF IInv, TypeOK, stream
<1>5. Armed' /\ Sent' /\ NoLostStart'
  BY <1>1, OldSame DEF IInv, Armed, Sent, NoLostStart, stream
<1> QED
  BY <1>4, <1>5 DEF IInv

LEMMA OpenSafe ==
    ASSUME IInv, NEW d \in Devs, Open(d)
    PROVE  IInv'
<1>1. /\ pc[d] = "closed" /\ pc' = [pc EXCEPT ![d] = "start"]
      /\ session' = [session EXCEPT ![d] = @ + 1]
      /\ start_io_compl' = [start_io_compl EXCEPT ![d] = FALSE]
      /\ needs_start_io_compl' = [needs_start_io_compl EXCEPT ![d] = TRUE]
      /\ UNCHANGED <<heard, handler, out, in, starts, running>>
  BY DEF Open, Goto, remote
<1>2. \A e \in Devs : Old(e) \subseteq Old(e)'
  <2> SUFFICES ASSUME NEW e \in Devs, NEW n \in Nat, n \in Old(e)
               PROVE  n <= session'[e] /\ (pc'[e] = "start" => n # session'[e])
    BY DEF Old
  <2>1. session[e] \in Nat
    BY DEF IInv, TypeOK
  <2> QED
    BY <1>1, <2>1 DEF Old, IInv, TypeOK
<1>3. in' \in Seq(Messages') /\ out' \in Seq(Messages') /\ handler' \in Handled'
  BY <1>1, <1>2, OldStays, SeqMono DEF IInv, TypeOK
<1>4. TypeOK'
  BY <1>1, <1>3 DEF IInv, TypeOK
<1>5. Armed' /\ NoLostStart'
  BY <1>1 DEF IInv, TypeOK, Armed, NoLostStart
<1>6. Sent'
  <2>1. \A e \in Devs : pc'[e] = "start" => session'[e] # 0
    BY <1>1 DEF IInv, TypeOK, Sent
  <2> QED
    BY <1>1, <1>2, <2>1 DEF IInv, Sent
<1> QED
  BY <1>4, <1>5, <1>6 DEF IInv

(* start_io goes out: from now on the open is known.                       *)
LEMMA StartIoSafe ==
    ASSUME IInv, NEW d \in Devs, StartIo(d)
    PROVE  IInv'
<1>1. /\ pc[d] = "start" /\ pc' = [pc EXCEPT ![d] = "started"]
      /\ out' \in {out, Append(out, Io("start", d, session[d]))}
      /\ UNCHANGED <<session, starts, stream, heard, running, in, handler>>
  BY DEF StartIo, Goto, StreamOnly, remote
<1>2. \A e \in Devs : Old(e) \subseteq Old(e)'
  BY <1>1 DEF Old, IInv, TypeOK
<1>3. in' \in Seq(Messages') /\ out \in Seq(Messages') /\ handler' \in Handled'
  BY <1>1, <1>2, OldStays, SeqMono DEF IInv, TypeOK
<1>4. Io("start", d, session[d]) \in Messages'
  <2>1. session[d] \in Old(d)'
    BY <1>1 DEF Old, IInv, TypeOK
  <2>2. session[d] \in Nat
    BY DEF IInv, TypeOK
  <2> QED
    BY <2>1, <2>2 DEF Io, Messages, IoMessages, IoTypes
<1>5. out' \in Seq(Messages')
  BY <1>1, <1>3, <1>4, SeqAppend
<1>6. TypeOK'
  BY <1>1, <1>3, <1>5 DEF IInv, TypeOK, stream
<1>7. Armed'
  BY <1>1 DEF IInv, TypeOK, Armed, stream
<1>8. heard[d] # session[d]
  BY <1>1 DEF IInv, Sent, Old
<1>9. NoLostStart'
  BY <1>1, <1>8 DEF IInv, TypeOK, NoLostStart, stream
<1>10. Sent'
  BY <1>1, <1>2 DEF IInv, TypeOK, Sent
<1> QED
  BY <1>6, <1>7, <1>9, <1>10 DEF IInv

(* The other steps of the calls: the wait begins, it ends, the stream is   *)
(* closed.                                                                 *)
LEMMA CallSafe ==
    ASSUME IInv, NEW d \in Devs,
           StartIoReturns(d) \/ OpenReturns(d) \/ StopIo(d) \/ CloseReturns(d)
    PROVE  IInv'
<1>1. /\ \/ pc[d] = "started" /\ pc' = [pc EXCEPT ![d] = "wait"]
            /\ UNCHANGED start_io_compl
         \/ /\ pc' \in {[pc EXCEPT ![d] = "open"], [pc EXCEPT ![d] = "stopped"],
                        [pc EXCEPT ![d] = "closed"]}
            /\ start_io_compl' \in {start_io_compl, [start_io_compl EXCEPT ![d] = FALSE]}
      /\ out' \in {out, Append(out, Io("stop", d, session[d]))}
      /\ pc[d] # "start"
      /\ UNCHANGED <<session, starts, needs_start_io_compl, heard, running, in, handler>>
  BY DEF StartIoReturns, OpenReturns, StopIo, CloseReturns, Goto, StreamOnly, stream, remote
<1>2. \A e \in Devs : Old(e) \subseteq Old(e)'
  BY <1>1 DEF Old, IInv, TypeOK
<1>3. in' \in Seq(Messages') /\ out \in Seq(Messages') /\ handler' \in Handled'
  BY <1>1, <1>2, OldStays, SeqMono DEF IInv, TypeOK
<1>4. Io("stop", d, session[d]) \in Messages'
  <2>1. session[d] \in Old(d)' /\ session[d] \in Nat
    BY <1>1 DEF Old, IInv, TypeOK
  <2> QED
    BY <2>1 DEF Io, Messages, IoMessages, IoTypes
<1>5. out' \in Seq(Messages')
  BY <1>1, <1>3, <1>4, SeqAppend
<1>6. TypeOK'
  BY <1>1, <1>3, <1>5 DEF IInv, TypeOK
<1>7. Armed' /\ NoLostStart'
  <2>1. /\ DOMAIN pc = Devs /\ DOMAIN start_io_compl = Devs
        /\ Armed /\ NoLostStart
    BY DEF IInv, TypeOK
  <2>2. Armed'
    BY <1>1, <2>1 DEF Armed
  <2>3. NoLostStart'
    BY <1>1, <2>1 DEF NoLostStart
  <2> QED
    BY <2>2, <2>3
<1>8. Sent'
  BY <1>1, <1>2 DEF IInv, TypeOK, Sent
<1> QED
  BY <1>6, <1>7, <1>8 DEF IInv

(* A timestamp of the open that waits wakes it, or has done so.            *)
LEMMA WakeOpenSafe ==
    ASSUME IInv, WakeOpen
    PROVE  IInv'
<1> DEFINE d == handler.dev
<1>1. /\ handler.at = "stamp"
      /\ heard' = [heard EXCEPT ![d] = handler.n]
      /\ \/ /\ needs_start_io_compl[d]
            /\ start_io_compl' = [start_io_compl EXCEPT ![d] = TRUE]
            /\ needs_start_io_compl' = [needs_start_io_compl EXCEPT ![d] = FALSE]
            /\ handler' = Idle
         \/ /\ ~needs_start_io_compl[d]
            /\ handler' = [handler EXCEPT !.at = "write"]
            /\ UNCHANGED <<start_io_compl, needs_start_io_compl>>
      /\ UNCHANGED <<pc, session, starts, running, out, in>>
  BY DEF WakeOpen, HandlerOnly, remote
<1>2. d \in Devs /\ handler.n \in Nat /\ handler.n \in Old(d)
  BY <1>1 DEF IInv, TypeOK, Handled
<1>3. handler' \in Handled
  <2>1. Idle \in Handled
    BY DEF Idle, Handled
  <2>2. [handler EXCEPT !.at = "write"] \in Handled
    BY <1>1, <1>2 DEF IInv, TypeOK, Handled
  <2> QED
    BY <1>1, <2>1, <2>2
<1>4. TypeOK'
  BY <1>1, <1>2, <1>3, OldSame DEF IInv, TypeOK
<1>5. Armed'
  BY <1>1, <1>2 DEF IInv, TypeOK, Armed
<1>6. NoLostStart'
  BY <1>1, <1>2 DEF IInv, TypeOK, Armed, NoLostStart
<1>7. Sent'
  BY <1>1, <1>2, OldSame DEF IInv, TypeOK, Sent
<1> QED
  BY <1>4, <1>5, <1>6, <1>7 DEF IInv

(* The other steps of the interrupt thread.                                *)
LEMMA HandlerSafe ==
    ASSUME IInv, HandlerStep, ~WakeOpen
    PROVE  IInv'
<1>1. /\ UNCHANGED <<pc, session, starts, needs_start_io_compl, start_io_compl, heard, running>>
      /\ in' = in \/ (in # <<>> /\ in' = Tail(in))
      /\ out' = out \/ out' = Append(out, Alive)
  <2> USE DEF Take, HandlerOnly, stream, remote
  <2>1. CASE HandleAlive
    BY <2>1 DEF HandleAlive
  <2>2. CASE HandleBoot
    BY <2>2 DEF HandleBoot
  <2>3. CASE HandleTimestamp
    BY <2>3 DEF HandleTimestamp
  <2>4. CASE WriteTimestamp
    BY <2>4 DEF WriteTimestamp
  <2>5. ASSUME NEW type, NEW place, HandleReply(type, place)
        PROVE  /\ UNCHANGED <<pc, session, starts, needs_start_io_compl, start_io_compl, heard,
                              running>>
               /\ in # <<>> /\ in' = Tail(in)
               /\ out' = out
    BY <2>5 DEF HandleReply
  <2> QED
    BY <2>1, <2>2, <2>3, <2>4, <2>5 DEF HandlerStep
<1>2. handler' \in Handled
  <2>1. handler \in Handled /\ in \in Seq(Messages)
    BY DEF IInv, TypeOK
  <2>2. CASE HandleTimestamp
    <3>1. /\ in # <<>> /\ Head(in).type = "timestamp"
          /\ handler' = [at |-> "stamp", dev |-> Head(in).dev, n |-> Head(in).n,
                         time_os |-> starts[Head(in).dev]]
      BY <2>2 DEF HandleTimestamp, Take
    <3>2. Head(in) \in IoMessages
      BY <2>1, <3>1, SeqParts DEF Messages
    <3> QED
      BY <3>1, <3>2 DEF IoMessages, Handled, IInv, TypeOK
  <2>3. CASE ~HandleTimestamp
    <3>1. handler' = handler \/ handler' = Idle
      BY <2>3 DEF HandlerStep, HandleAlive, HandleBoot, WriteTimestamp, HandleReply
    <3> QED
      BY <2>1, <3>1 DEF Idle, Handled
  <2> QED
    BY <2>2, <2>3
<1>3. in' \in Seq(Messages) /\ out' \in Seq(Messages)
  <2>1. Alive \in Messages
    BY DEF Alive, Messages
  <2> QED
    BY <1>1, <2>1, SeqParts, SeqAppend DEF IInv, TypeOK
<1>4. TypeOK'
  BY <1>1, <1>2, <1>3, OldSame DEF IInv, TypeOK
<1>5. Armed' /\ Sent' /\ NoLostStart'
  BY <1>1, OldSame DEF IInv, Armed, Sent, NoLostStart
<1> QED
  BY <1>4, <1>5 DEF IInv

(* The remote side speaks of the opens it was told of.                     *)
LEMMA RemoteSafe ==
    ASSUME IInv, RemoteBoots \/ RemoteReads \/ \E d \in Devs : SendTimestamp(d)
    PROVE  IInv'
<1>1. UNCHANGED <<pc, session, stream, heard, handler>>
  BY DEF RemoteBoots, RemoteReads, SendTimestamp, RemoteOnly, history
<1>2. out' \in Seq(Messages)
  <2>1. out' = out \/ (out # <<>> /\ out' = Tail(out))
    <3>1. RemoteBoots \/ (\E d \in Devs : SendTimestamp(d)) => out' = out
      BY DEF RemoteBoots, SendTimestamp
    <3>2. RemoteReads => out # <<>> /\ out' = Tail(out)
      BY DEF RemoteReads
    <3> QED
      BY <3>1, <3>2
  <2> QED
    BY <2>1, SeqParts DEF IInv, TypeOK
<1>3. /\ in' \in Seq(Messages)
      /\ running' \in [Devs -> Nat] /\ starts' \in [Devs -> Nat]
      /\ \A d \in Devs : running'[d] \in Old(d)
  <2>1. in \in Seq(Messages) /\ running \in [Devs -> Nat] /\ starts \in [Devs -> Nat]
    BY DEF IInv, TypeOK
  <2>2. \A d \in Devs : running[d] \in Old(d) /\ 0 \in Old(d)
    BY DEF IInv, TypeOK, Sent, Old
  <2>3. CASE RemoteBoots
    <3>1. Boot \in Messages
      BY DEF Boot, Messages
    <3> QED
      BY <2>1, <2>2, <2>3, <3>1, SeqAppend DEF RemoteBoots, Says
  <2>4. CASE RemoteReads
    <3> DEFINE msg == Head(out)
    <3>1. out # <<>> /\ msg \in Messages
      BY <2>4, SeqParts DEF RemoteReads, IInv, TypeOK
    <3>2. CASE ~up
      BY <2>1, <2>2, <2>4, <3>2 DEF RemoteReads
    <3>3. CASE up /\ msg.type = "alive"
      <4>1. Alive \in Messages
        BY DEF Alive, Messages
      <4> QED
        BY <2>1, <2>2, <2>4, <3>3, <4>1, SeqAppend DEF RemoteReads, Says
    <3>4. CASE up /\ msg.type \in {"start", "stop"}
      <4>1. msg \in IoMessages
        BY <3>1, <3>4 DEF Messages
      <4>2. msg.dev \in Devs /\ msg.n \in Nat /\ msg.n \in Old(msg.dev)
        BY <4>1 DEF IoMessages
      <4>3. \A type \in IoTypes : Io(type, msg.dev, msg.n) \in Messages
        BY <4>2 DEF Io, IoMessages, Messages
      <4>4. /\ in' = Append(in, Io("started", msg.dev, msg.n))
               \/ in' = Append(in, Io("stopped", msg.dev, msg.n))
            /\ running' \in {running, [running EXCEPT ![msg.dev] = msg.n],
                             [running EXCEPT ![msg.dev] = 0]}
            /\ starts' \in {starts, [starts EXCEPT ![msg.dev] = @ + 1]}
        BY <2>4, <3>4 DEF RemoteReads, Says
      <4>5. in' \in Seq(Messages)
        <5>1. /\ Io("started", msg.dev, msg.n) \in Messages
              /\ Io("stopped", msg.dev, msg.n) \in Messages
          BY <4>3 DEF IoTypes
        <5> HIDE DEF msg
        <5>2. CASE in' = Append(in, Io("started", msg.dev, msg.n))
          BY <2>1, <5>1, <5>2, SeqAppend
        <5>3. CASE in' = Append(in, Io("stopped", msg.dev, msg.n))
          BY <2>1, <5>1, <5>3, SeqAppend
        <5> QED
          BY <4>4, <5>2, <5>3
      <4>6. starts' \in [Devs -> Nat] /\ running' \in [Devs -> Nat]
        <5> HIDE DEF msg
        <5>1. /\ [starts EXCEPT ![msg.dev] = @ + 1] \in [Devs -> Nat]
              /\ [running EXCEPT ![msg.dev] = msg.n] \in [Devs -> Nat]
              /\ [running EXCEPT ![msg.dev] = 0] \in [Devs -> Nat]
          BY <2>1, <4>2
        <5>2. starts' \in [Devs -> Nat]
          BY <2>1, <4>4, <5>1
        <5>3. running' \in [Devs -> Nat]
          BY <2>1, <4>4, <5>1
        <5> QED
          BY <5>2, <5>3
      <4>7. \A d \in Devs : running'[d] \in Old(d)
        <5> HIDE DEF msg
        <5> SUFFICES ASSUME NEW d \in Devs PROVE running'[d] \in Old(d)
          OBVIOUS
        <5>1. CASE d = msg.dev
          <6>1. running'[d] \in {running[d], msg.n, 0}
            BY <2>1, <4>4, <5>1
          <6>2. msg.n \in Old(d)
            BY <4>2, <5>1
          <6> QED
            BY <2>2, <6>1, <6>2
        <5>2. CASE d # msg.dev
          <6>1. running'[d] = running[d]
            BY <2>1, <4>4, <5>2
          <6> QED
            BY <2>2, <6>1
        <5> QED
          BY <5>1, <5>2
      <4> QED
        BY <4>5, <4>6, <4>7
    <3> QED
      BY <2>4, <3>2, <3>3, <3>4 DEF RemoteReads
  <2>5. ASSUME NEW d \in Devs, SendTimestamp(d)
        PROVE  in' \in Seq(Messages) /\ UNCHANGED <<running, starts>>
    <3>1. Io("timestamp", d, running[d]) \in Messages
      BY <2>1, <2>2 DEF Io, IoMessages, Messages, IoTypes
    <3> QED
      BY <2>1, <2>5, <3>1, SeqAppend DEF SendTimestamp, Says
  <2> QED
    BY <2>1, <2>2, <2>3, <2>4, <2>5
<1>4. TypeOK'
  BY <1>1, <1>2, <1>3, OldSame DEF IInv, TypeOK, stream
<1>5. Armed' /\ NoLostStart'
  BY <1>1 DEF IInv, Armed, NoLostStart, stream
<1>6. Sent'
  BY <1>1, <1>3, OldSame DEF IInv, Sent
<1> QED
  BY <1>4, <1>5, <1>6 DEF IInv

LEMMA StepIInv == IInv /\ [Next]_vars => IInv'
<1> SUFFICES ASSUME IInv, [Next]_vars PROVE IInv'
  OBVIOUS
<1>1. CASE UNCHANGED vars
  <2>1. UNCHANGED <<pc, session, starts, needs_start_io_compl, start_io_compl, heard, running,
                    in, out, handler>>
    BY <1>1 DEF vars, stream, history, remote
  <2> QED
    BY <2>1, OldSame DEF IInv, TypeOK, Armed, Sent, NoLostStart
<1>2. CASE ProbeStep
  BY <1>2, ProbeSafe
<1>3. CASE HandlerStep
  BY <1>3, HandlerSafe, WakeOpenSafe
<1>4. CASE RemoteBoots \/ RemoteReads \/ \E d \in Devs : SendTimestamp(d)
  BY <1>4, RemoteSafe
<1>5. ASSUME NEW d \in Devs, Open(d) \/ OpenStep(d) \/ StopIo(d)
      PROVE  IInv'
  BY <1>5, OpenSafe, StartIoSafe, CallSafe DEF OpenStep
<1> QED
  BY <1>1, <1>2, <1>3, <1>4, <1>5 DEF Next

(* Every message, wherever it is, speaks of an open whose start_io went    *)
(* out, and between arming and the end of the wait the completion of an    *)
(* open is armed or complete.                                              *)
THEOREM ArmedOrComplete == Spec => []IInv
BY InitIInv, StepIInv, PTL DEF Spec

(* aaudio_pcm_open never sleeps through its first timestamp, for any       *)
(* number of devices and opens: not even one that comes before its wait,   *)
(* or before the reply to start_io.                                        *)
THEOREM NoStartIsLost == Spec => []NoLostStart
<1>1. IInv => NoLostStart
  BY DEF IInv
<1> QED
  BY ArmedOrComplete, <1>1, PTL

-----------------------------------------------------------------------------
(* Order on the two channels                                               *)

(* Where the messages of a type for a device are.                          *)
Of(s, ty, d) == {i \in DOMAIN s : s[i].type = ty /\ s[i].dev = d}

(* A channel loses its first message, or gets one more.                    *)
Shrunk(s, t) == s # <<>> /\ t = Tail(s)
Grown(s, t, x) == t = Append(s, x)

LEMMA OfShrunk ==
    ASSUME NEW S, NEW s \in Seq(S), NEW t, Shrunk(s, t), NEW ty, NEW d, NEW i \in Of(t, ty, d)
    PROVE  i \in Nat /\ i + 1 \in Of(s, ty, d) /\ t[i] = s[i + 1]
<1>1. /\ Tail(s) \in Seq(S) /\ Len(Tail(s)) = Len(s) - 1 /\ Len(s) \in Nat
      /\ \A k \in 1..Len(Tail(s)) : Tail(s)[k] = s[k + 1]
  BY HeadTailProperties, LenProperties DEF Shrunk
<1>2. DOMAIN Tail(s) = 1..(Len(s) - 1) /\ DOMAIN s = 1..Len(s)
  BY <1>1, LenProperties
<1> QED
  BY <1>1, <1>2 DEF Of, Shrunk

LEMMA OfGrown ==
    ASSUME NEW S, NEW s \in Seq(S), NEW x \in S, NEW t, Grown(s, t, x),
           NEW ty, NEW d, NEW i \in Of(t, ty, d)
    PROVE  \/ i \in Of(s, ty, d) /\ t[i] = s[i] /\ i \in Nat /\ i <= Len(s)
           \/ i = Len(s) + 1 /\ t[i] = x /\ x.type = ty /\ x.dev = d
<1>1. /\ Len(Append(s, x)) = Len(s) + 1 /\ Len(s) \in Nat
      /\ \A k \in 1..Len(s) : Append(s, x)[k] = s[k]
      /\ Append(s, x)[Len(s) + 1] = x
  BY AppendProperties, LenProperties
<1>2. DOMAIN Append(s, x) = 1..(Len(s) + 1) /\ DOMAIN s = 1..Len(s)
  <2>1. Append(s, x) \in Seq(S)
    BY AppendProperties
  <2> QED
    BY <1>1, <2>1, LenProperties
<1> QED
  BY <1>1, <1>2 DEF Of, Grown

LEMMA OfIn ==
    ASSUME NEW S, NEW s \in Seq(S), NEW ty, NEW d, NEW i \in Of(s, ty, d)
    PROVE  i \in Nat /\ i >= 1 /\ i <= Len(s) /\ Len(s) \in Nat
<1>1. DOMAIN s = 1..Len(s) /\ Len(s) \in Nat
  BY LenProperties
<1> QED
  BY <1>1 DEF Of

(* A message on a channel speaks of an open whose start_io went out.       *)
LEMMA OfOld ==
    ASSUME NEW s \in Seq(Messages), NEW ty \in IoTypes, NEW d \in Devs, NEW i \in Of(s, ty, d)
    PROVE  s[i].n \in Nat /\ s[i].n \in Old(d)
<1>1. s[i] \in Messages /\ s[i].type = ty /\ s[i].dev = d
  <2>1. \A k \in DOMAIN s : s[k] \in Messages
    BY LenProperties, ElementOfSeq
  <2> QED
    BY <2>1 DEF Of
<1>2. s[i] \in IoMessages
  <2>1. ty # "alive" /\ ty # "boot"
    BY DEF IoTypes
  <2> QED
    BY <1>1, <2>1 DEF Messages
<1> QED
  BY <1>1, <1>2 DEF IoMessages

(* Commands are sent in the order of the opens they are for.               *)
OutOrder == \A d \in Devs :
    \A i \in Of(out, "start", d) \cup Of(out, "stop", d), j \in Of(out, "start", d) :
        i < j => out[i].n < out[j].n

(* After the reply to a stop_io no timestamp of that open follows.         *)
InOrder == \A d \in Devs :
    \A i \in Of(in, "stopped", d), j \in Of(in, "timestamp", d) : i < j => in[i].n < in[j].n

(* The remote side has yet to read starts only of opens after n, ...       *)
Passed(d, n) == \A k \in Of(out, "start", d) : n < out[k].n

(* ... does not run for n or an open before it, ...                        *)
Stopped(d, n) == running[d] = 0 \/ n < running[d]

(* ... and none of its timestamps is of such an open.                      *)
Quiet(d, n) == /\ Passed(d, n) /\ Stopped(d, n)
               /\ \A i \in Of(in, "timestamp", d) : n < in[i].n
               /\ handler.at = "stamp" /\ handler.dev = d => n < handler.n

(* A reply on its way tells that the remote side has read its command.     *)
ReplyInv == \A d \in Devs :
    /\ \A i \in Of(in, "started", d) : Passed(d, in[i].n)
    /\ \A i \in Of(in, "stopped", d) : Passed(d, in[i].n) /\ Stopped(d, in[i].n)

(* A stop_io that was answered has left nothing of the opens before.       *)
LastOver(d) == IF pc[d] \in {"closed", "stopped"} THEN session[d] ELSE session[d] - 1
CleanInv == \A d \in Devs : clean[d] => Quiet(d, LastOver(d))

WokenInv == \A d \in Devs :
    pc[d] \in {"start", "started", "wait"} /\ start_io_compl[d] /\ clean[d] => heard[d] = session[d]

(* After the reply to its start_io the device does not start again while   *)
(* the stream is open, and a time read from then on is a fresh one.        *)
AnsweredInv == \A d \in Devs :
    answered[d] /\ pc[d] \in {"started", "wait", "open"} =>
        /\ Passed(d, session[d])
        /\ handler.at # "idle" /\ handler.dev = d => handler.time_os = starts[d]

HistoryType == /\ clean \in [Devs -> BOOLEAN] /\ answered \in [Devs -> BOOLEAN]
               /\ remote_timestamp \in [Devs -> Nat]

ChannelInv == OutOrder /\ InOrder /\ ReplyInv
TimeInv == HistoryType /\ CleanInv /\ WokenInv /\ AnsweredInv /\ TimeBaseFresh

-----------------------------------------------------------------------------
(* What a step does to a channel                                           *)

(* A channel is left alone, loses its first message, or gets one of S.     *)
Moves(s, t, S) == t = s \/ Shrunk(s, t) \/ \E x \in S : Grown(s, t, x)

NotStart == {x \in Messages : x.type # "start"}
NotTimestamp == {x \in Messages : x.type # "timestamp"}
NotReply == {x \in Messages : x.type \notin {"started", "stopped"}}

(* Where a message of a moved channel was before.                          *)
LEMMA OfMoves ==
    ASSUME NEW s \in Seq(Messages), NEW S, S \subseteq Messages, NEW t, Moves(s, t, S),
           NEW ty, NEW d, NEW i \in Of(t, ty, d)
    PROVE  \/ \E k \in Of(s, ty, d) : t[i] = s[k]
           \/ \E x \in S : t[i] = x /\ x.type = ty /\ x.dev = d
<1>1. CASE t = s
  BY <1>1
<1>2. CASE Shrunk(s, t)
  BY <1>2, OfShrunk
<1>3. ASSUME NEW x \in S, Grown(s, t, x)
      PROVE  \/ \E k \in Of(s, ty, d) : t[i] = s[k]
             \/ t[i] = x /\ x.type = ty /\ x.dev = d
  <2>1. x \in Messages
    OBVIOUS
  <2>2. \/ i \in Of(s, ty, d) /\ t[i] = s[i] /\ i \in Nat /\ i <= Len(s)
        \/ i = Len(s) + 1 /\ t[i] = x /\ x.type = ty /\ x.dev = d
    BY <1>3, <2>1, OfGrown
  <2> QED
    BY <2>2
<1> QED
  BY <1>1, <1>2, <1>3 DEF Moves

(* The same for two messages, whose order stays.                           *)
LEMMA OrderMoves ==
    ASSUME NEW s \in Seq(Messages), NEW S, S \subseteq Messages, NEW t, Moves(s, t, S),
           NEW a, NEW b, NEW d, NEW i \in Of(t, a, d), NEW j \in Of(t, b, d), i < j
    PROVE  \/ \E k \in Of(s, a, d), l \in Of(s, b, d) : k < l /\ t[i] = s[k] /\ t[j] = s[l]
           \/ \E x \in S, k \in Of(s, a, d) :
                 x.type = b /\ x.dev = d /\ t[j] = x /\ t[i] = s[k]
<1>1. CASE t = s
  BY <1>1
<1>2. CASE Shrunk(s, t)
  <2>1. /\ i \in Nat /\ i + 1 \in Of(s, a, d) /\ t[i] = s[i + 1]
        /\ j \in Nat /\ j + 1 \in Of(s, b, d) /\ t[j] = s[j + 1]
    BY <1>2, OfShrunk
  <2>2. i + 1 < j + 1
    BY <2>1
  <2> QED
    BY <2>1, <2>2
<1>3. ASSUME NEW x \in S, Grown(s, t, x)
      PROVE  \/ \E k \in Of(s, a, d), l \in Of(s, b, d) : k < l /\ t[i] = s[k] /\ t[j] = s[l]
             \/ \E k \in Of(s, a, d) : x.type = b /\ x.dev = d /\ t[j] = x /\ t[i] = s[k]
  <2>0. x \in Messages
    OBVIOUS
  <2>1. \/ i \in Of(s, a, d) /\ t[i] = s[i] /\ i \in Nat /\ i <= Len(s)
        \/ i = Len(s) + 1
    BY <1>3, <2>0, OfGrown
  <2>2. \/ j \in Of(s, b, d) /\ t[j] = s[j] /\ j \in Nat /\ j <= Len(s)
        \/ j = Len(s) + 1 /\ t[j] = x /\ x.type = b /\ x.dev = d
    BY <1>3, <2>0, OfGrown
  <2>3. Len(s) \in Nat
    BY LenProperties
  <2>4. i # Len(s) + 1
    BY <2>2, <2>3
  <2> QED
    BY <2>1, <2>2, <2>4
<1> QED
  BY <1>1, <1>2, <1>3 DEF Moves

LEMMA PassedMoves ==
    ASSUME TypeOK, Moves(out, out', NotStart), NEW d \in Devs, NEW n, Passed(d, n)
    PROVE  Passed(d, n)'
<1> SUFFICES ASSUME NEW k \in Of(out', "start", d) PROVE n < out'[k].n
  BY DEF Passed
<1>1. out \in Seq(Messages) /\ NotStart \subseteq Messages /\ \A x \in NotStart : x.type # "start"
  BY DEF TypeOK, NotStart
<1>2. PICK l \in Of(out, "start", d) : out'[k] = out[l]
  BY <1>1, OfMoves
<1> QED
  BY <1>2 DEF Passed

LEMMA OutOrderMoves ==
    ASSUME TypeOK, OutOrder, Moves(out, out', NotStart)
    PROVE  OutOrder'
<1> SUFFICES ASSUME NEW d \in Devs, NEW a \in {"start", "stop"}, NEW i \in Of(out', a, d),
                    NEW j \in Of(out', "start", d), i < j
             PROVE  out'[i].n < out'[j].n
  BY DEF OutOrder
<1>1. out \in Seq(Messages) /\ NotStart \subseteq Messages /\ \A x \in NotStart : x.type # "start"
  BY DEF TypeOK, NotStart
<1>2. PICK k \in Of(out, a, d), l \in Of(out, "start", d) :
             k < l /\ out'[i] = out[k] /\ out'[j] = out[l]
  BY <1>1, OrderMoves
<1> QED
  BY <1>2 DEF OutOrder

LEMMA InOrderMoves ==
    ASSUME TypeOK, InOrder, Moves(in, in', NotTimestamp)
    PROVE  InOrder'
<1> SUFFICES ASSUME NEW d \in Devs, NEW i \in Of(in', "stopped", d),
                    NEW j \in Of(in', "timestamp", d), i < j
             PROVE  in'[i].n < in'[j].n
  BY DEF InOrder
<1>1. in \in Seq(Messages) /\ NotTimestamp \subseteq Messages /\ \A x \in NotTimestamp : x.type # "timestamp"
  BY DEF TypeOK, NotTimestamp
<1>2. PICK k \in Of(in, "stopped", d), l \in Of(in, "timestamp", d) :
             k < l /\ in'[i] = in[k] /\ in'[j] = in[l]
  BY <1>1, OrderMoves
<1> QED
  BY <1>2 DEF InOrder

(* No reply is added, and what was past stays past.                        *)
LEMMA ReplyMoves ==
    ASSUME TypeOK, ReplyInv, Moves(in, in', NotReply),
           \A d \in Devs, n \in Nat : n \in Old(d) /\ Passed(d, n)
               => Passed(d, n)' /\ (Stopped(d, n) => Stopped(d, n)')
    PROVE  ReplyInv'
<1>1. in \in Seq(Messages) /\ NotReply \subseteq Messages /\ \A x \in NotReply : x.type \notin {"started", "stopped"}
  BY DEF TypeOK, NotReply
<1>2. ASSUME NEW d \in Devs, NEW ty \in {"started", "stopped"}, NEW i \in Of(in', ty, d)
      PROVE  /\ Passed(d, in[i].n)'
             /\ ty = "stopped" => Stopped(d, in[i].n)'
  <2>1. PICK k \in Of(in, ty, d) : in'[i] = in[k]
    <3>1. \A x \in NotReply : x.type # ty
      BY <1>1
    <3>2. \/ \E k \in Of(in, ty, d) : in'[i] = in[k]
          \/ \E x \in NotReply : x.type = ty
      BY <1>1, OfMoves
    <3> QED
      BY <3>1, <3>2
  <2>2. in[k].n \in Nat /\ in[k].n \in Old(d)
    <3>1. ty \in IoTypes
      BY DEF IoTypes
    <3> QED
      BY <1>1, <3>1, OfOld
  <2>3. Passed(d, in[k].n) /\ (ty = "stopped" => Stopped(d, in[k].n))
    BY DEF ReplyInv
  <2> DEFINE P(m) == \A l \in Of(out', "start", d) : m < out'[l].n
             Q(m) == running'[d] = 0 \/ m < running'[d]
  <2>4. P(in[k].n) /\ (ty = "stopped" => Q(in[k].n))
    <3>1. \A n \in Nat : n \in Old(d) /\ Passed(d, n) => P(n) /\ (Stopped(d, n) => Q(n))
      BY DEF Passed, Stopped
    <3> HIDE DEF P, Q
    <3> QED
      BY <2>2, <2>3, <3>1
  <2>5. P(in'[i].n) /\ (ty = "stopped" => Q(in'[i].n))
    BY <2>1, <2>4
  <2> QED
    BY <2>5 DEF Passed, Stopped
<1> QED
  BY <1>2 DEF ReplyInv, Passed, Stopped

LEMMA QuietStays ==
    ASSUME TypeOK, NEW d \in Devs, NEW n \in Int, Quiet(d, n), Passed(d, n)', Stopped(d, n)',
           NEW S, S \subseteq Messages, Moves(in, in', S),
           \A x \in S : x.type = "timestamp" /\ x.dev = d => n < x.n,
           handler'.at = "stamp" /\ handler'.dev = d => n < handler'.n
    PROVE  Quiet(d, n)'
<1>1. ASSUME NEW i \in Of(in', "timestamp", d)
      PROVE  n < in'[i].n
  <2>1. \/ \E k \in Of(in, "timestamp", d) : in'[i] = in[k]
        \/ \E x \in S : in'[i] = x /\ x.type = "timestamp" /\ x.dev = d
    <3>1. in \in Seq(Messages)
      BY DEF TypeOK
    <3> QED
      BY <1>1, <3>1, OfMoves
  <2> QED
    BY <2>1 DEF Quiet
<1> QED
  BY <1>1 DEF Quiet

(* A step that starts nothing, and speaks neither a reply nor a timestamp. *)
LastOverSame == \A d \in Devs : clean'[d] => clean[d] /\ LastOver(d)' = LastOver(d)

LEMMA LastOverInt == ASSUME TypeOK, NEW d \in Devs PROVE LastOver(d) \in Int
BY DEF TypeOK, LastOver

LEMMA CleanStays ==
    ASSUME TypeOK, CleanInv, LastOverSame, NEW S, S \subseteq Messages, Moves(in, in', S),
           \A d \in Devs, n \in Int : Quiet(d, n) =>
               /\ Passed(d, n)' /\ Stopped(d, n)'
               /\ \A x \in S : x.type = "timestamp" /\ x.dev = d => n < x.n
               /\ handler'.at = "stamp" /\ handler'.dev = d => n < handler'.n
    PROVE  CleanInv'
<1> SUFFICES ASSUME NEW d \in Devs, clean'[d] PROVE Quiet(d, LastOver(d))'
  BY DEF CleanInv
<1>1. PICK n \in Int : n = LastOver(d)
  BY LastOverInt
<1>2. clean[d] /\ LastOver(d)' = n
  BY <1>1 DEF LastOverSame
<1>3. Quiet(d, n)
  BY <1>1, <1>2 DEF CleanInv
<1>4. Quiet(d, n)'
  BY <1>3, QuietStays
<1> QED
  BY <1>2, <1>4 DEF Quiet, Passed, Stopped

LEMMA MovesMore ==
    ASSUME NEW s, NEW t, NEW S, NEW T, S \subseteq T, Moves(s, t, S)
    PROVE  Moves(s, t, T)
BY DEF Moves

(* The steps that most are: no start goes out, and what comes in, if       *)
(* anything, is a notification.                                            *)
Notifications == NotReply \cap NotTimestamp
QuietStep == Moves(out, out', NotStart) /\ Moves(in, in', Notifications) /\ UNCHANGED running

LEMMA ChannelStays ==
    ASSUME TypeOK, ChannelInv, QuietStep
    PROVE  ChannelInv'
<1>1. Moves(in, in', NotTimestamp) /\ Moves(in, in', NotReply)
  <2>1. Notifications \subseteq NotTimestamp /\ Notifications \subseteq NotReply
    BY DEF Notifications
  <2> QED
    BY <2>1, MovesMore DEF QuietStep
<1>2. OutOrder' /\ InOrder'
  BY <1>1, OutOrderMoves, InOrderMoves DEF ChannelInv, QuietStep
<1>3. \A d \in Devs, n \in Nat : Passed(d, n) => Passed(d, n)'
  BY PassedMoves DEF QuietStep
<1>4. \A d \in Devs, n \in Nat : Stopped(d, n) => Stopped(d, n)'
  BY DEF QuietStep, Stopped
<1>5. ReplyInv'
  BY <1>1, <1>3, <1>4, ReplyMoves DEF ChannelInv
<1> QED
  BY <1>2, <1>5 DEF ChannelInv

LEMMA CleanSame ==
    ASSUME TypeOK, CleanInv, LastOverSame, QuietStep, handler'.at = "stamp" => handler' = handler
    PROVE  CleanInv'
<1>1. \A d \in Devs, n \in Int : Quiet(d, n) => Passed(d, n)' /\ Stopped(d, n)'
  <2>1. \A d \in Devs, n \in Int : Passed(d, n) => Passed(d, n)'
    BY PassedMoves DEF QuietStep
  <2>2. \A d \in Devs, n \in Int : Stopped(d, n) => Stopped(d, n)'
    BY DEF QuietStep, Stopped
  <2> QED
    BY <2>1, <2>2 DEF Quiet
<1>2. \A d \in Devs, n \in Int : Quiet(d, n) =>
         (handler'.at = "stamp" /\ handler'.dev = d => n < handler'.n)
  BY DEF Quiet
<1>3. /\ Notifications \subseteq Messages
      /\ \A x \in Notifications : x.type # "timestamp"
  BY DEF Notifications, NotTimestamp
<1>4. Moves(in, in', Notifications)
  BY DEF QuietStep
<1> QED
  BY <1>1, <1>2, <1>3, <1>4, CleanStays

(* The interrupt thread goes on with the time it read, or is done with it. *)
SameTime == handler'.at # "idle" =>
                /\ handler.at # "idle"
                /\ handler'.dev = handler.dev /\ handler'.time_os = handler.time_os

LEMMA AnsweredStays ==
    ASSUME TypeOK, AnsweredInv, Moves(out, out', NotStart), UNCHANGED <<session, starts>>, SameTime,
           NEW d \in Devs, answered[d] /\ pc[d] \in {"started", "wait", "open"}
    PROVE  /\ Passed(d, session[d])'
           /\ handler'.at # "idle" /\ handler'.dev = d => handler'.time_os = starts'[d]
<1>1. PICK n \in Nat : n = session[d]
  BY DEF TypeOK
<1>2. Passed(d, n)
  BY <1>1 DEF AnsweredInv
<1>3. Passed(d, n)'
  BY <1>2, PassedMoves
<1>4. Passed(d, session[d])'
  BY <1>1, <1>3 DEF Passed
<1>5. handler'.at # "idle" /\ handler'.dev = d => handler'.time_os = starts'[d]
  BY DEF AnsweredInv, SameTime
<1> QED
  BY <1>4, <1>5

-----------------------------------------------------------------------------
(* The steps                                                               *)

TInv == IInv /\ ChannelInv /\ TimeInv

(* What a quiet step of the callers or of aaudio_probe has to keep.        *)
LEMMA QuietSafe ==
    ASSUME TInv, QuietStep, LastOverSame, SameTime,
           handler'.at = "stamp" => handler' = handler,
           UNCHANGED <<session, starts>>, HistoryType', WokenInv', TimeBaseFresh',
           \A d \in Devs : answered'[d] /\ pc'[d] \in {"started", "wait", "open"} =>
               answered[d] /\ pc[d] \in {"started", "wait", "open"}
    PROVE  ChannelInv' /\ TimeInv'
<1>1. TypeOK /\ ChannelInv /\ CleanInv /\ AnsweredInv
  BY DEF TInv, IInv, TimeInv
<1>2. ChannelInv' /\ CleanInv'
  BY <1>1, ChannelStays, CleanSame
<1>3. AnsweredInv'
  <2> SUFFICES ASSUME NEW d \in Devs, answered'[d], pc'[d] \in {"started", "wait", "open"}
               PROVE  /\ Passed(d, session[d])'
                      /\ handler'.at # "idle" /\ handler'.dev = d => handler'.time_os = starts'[d]
    BY DEF AnsweredInv
  <2>1. answered[d] /\ pc[d] \in {"started", "wait", "open"}
    OBVIOUS
  <2> QED
    BY <1>1, <2>1, AnsweredStays DEF QuietStep
<1> QED
  BY <1>2, <1>3 DEF TimeInv

LEMMA ProbeTime ==
    ASSUME TInv, ProbeStep
    PROVE  ChannelInv' /\ TimeInv'
<1>1. /\ UNCHANGED <<pc, session, starts, start_io_compl, remote_timestamp, answered, clean,
                     heard, running, in, handler>>
      /\ out' = out \/ Grown(out, out', Alive)
  BY DEF ProbeStep, SendAlive, WaitAlive, GetDeviceList, SetRemoteAccess, InitBs, RegisterCard,
         InitDev, ProbeOnly, history, remote, stream, Grown
<1>2. QuietStep
  <2>1. Alive \in NotStart
    BY DEF Alive, NotStart, Messages
  <2> QED
    BY <1>1, <2>1 DEF QuietStep, Moves
<1>3. LastOverSame /\ SameTime
  BY <1>1 DEF LastOverSame, LastOver, SameTime
<1>4. HistoryType' /\ WokenInv' /\ TimeBaseFresh'
  BY <1>1 DEF TInv, TimeInv, HistoryType, WokenInv, TimeBaseFresh
<1> QED
  BY <1>1, <1>2, <1>3, <1>4, QuietSafe

LEMMA CallTime ==
    ASSUME TInv, NEW d \in Devs,
           StartIoReturns(d) \/ OpenReturns(d) \/ StopIo(d) \/ CloseReturns(d)
    PROVE  ChannelInv' /\ TimeInv'
<1> DEFINE stop == Io("stop", d, session[d])
<1>1. /\ \/ /\ pc[d] = "started" /\ pc' = [pc EXCEPT ![d] = "wait"]
            /\ UNCHANGED <<start_io_compl, remote_timestamp, clean>>
         \/ /\ pc[d] = "wait" /\ pc' = [pc EXCEPT ![d] = "open"]
            /\ start_io_compl' = [start_io_compl EXCEPT ![d] = FALSE]
            /\ remote_timestamp' = [remote_timestamp EXCEPT ![d] = starts[d]]
            /\ UNCHANGED clean
         \/ /\ pc[d] = "open" /\ pc' = [pc EXCEPT ![d] = "stopped"]
            /\ clean' = [clean EXCEPT ![d] = FALSE]
            /\ UNCHANGED <<start_io_compl, remote_timestamp>>
         \/ /\ pc[d] = "stopped" /\ pc' = [pc EXCEPT ![d] = "closed"]
            /\ UNCHANGED <<start_io_compl, remote_timestamp, clean>>
      /\ out' = out \/ Grown(out, out', stop)
      /\ UNCHANGED <<session, starts, answered, heard, running, in, handler>>
  BY DEF StartIoReturns, OpenReturns, StopIo, CloseReturns, Goto, StreamOnly, stream, remote, Grown
<1>2. stop \in NotStart
  <2>1. session[d] \in Old(d) /\ session[d] \in Nat
    BY <1>1 DEF Old, TInv, IInv, TypeOK
  <2> QED
    BY <2>1 DEF Io, Messages, IoMessages, IoTypes, NotStart
<1> HIDE DEF stop
<1>3. QuietStep
  BY <1>1, <1>2 DEF QuietStep, Moves
<1>4. TypeOK /\ HistoryType /\ WokenInv /\ TimeBaseFresh
  BY DEF TInv, IInv, TimeInv
<1>5. LastOverSame /\ SameTime
  <2>1. SameTime
    BY <1>1 DEF SameTime
  <2>2. clean \in [Devs -> BOOLEAN] /\ DOMAIN pc = Devs
    BY <1>4 DEF TypeOK, HistoryType
  <2>3. ASSUME NEW e \in Devs, clean'[e]
        PROVE  clean[e] /\ LastOver(e)' = LastOver(e)
    <3>1. clean[e]
      BY <1>1, <2>2, <2>3
    <3>2. pc'[e] = pc[e] \/ (e = d /\ (pc[d] \in {"closed", "stopped"} <=> pc'[d] \in {"closed", "stopped"}))
      BY <1>1, <2>2, <2>3
    <3> QED
      BY <1>1, <3>1, <3>2 DEF LastOver
  <2> QED
    BY <2>1, <2>3 DEF LastOverSame
<1>6. HistoryType'
  <2>1. clean \in [Devs -> BOOLEAN] /\ answered \in [Devs -> BOOLEAN]
    BY <1>4 DEF HistoryType
  <2>2. remote_timestamp \in [Devs -> Nat] /\ starts \in [Devs -> Nat]
    BY <1>4 DEF HistoryType, TypeOK
  <2>3. clean' \in [Devs -> BOOLEAN]
    <3>1. clean' = clean \/ clean' = [clean EXCEPT ![d] = FALSE]
      BY <1>1
    <3> QED
      BY ONLY <2>1, <3>1
  <2>4. remote_timestamp' \in [Devs -> Nat]
    <3>1. \/ remote_timestamp' = remote_timestamp
          \/ remote_timestamp' = [remote_timestamp EXCEPT ![d] = starts[d]]
      BY <1>1
    <3>2. starts[d] \in Nat
      BY <2>2
    <3> QED
      BY <2>2, <3>1, <3>2
  <2>5. answered' \in [Devs -> BOOLEAN]
    BY <1>1, <2>1
  <2> QED
    BY <2>3, <2>4, <2>5 DEF HistoryType
<1>7. WokenInv'
  BY <1>1, <1>4 DEF WokenInv, TypeOK, HistoryType
<1>8. TimeBaseFresh'
  BY <1>1, <1>4 DEF TimeBaseFresh, TypeOK, HistoryType
<1>9. \A e \in Devs : pc'[e] \in {"started", "wait", "open"} => pc[e] \in {"started", "wait", "open"}
  BY <1>1, <1>4 DEF TypeOK
<1> QED
  BY <1>1, <1>3, <1>5, <1>6, <1>7, <1>8, <1>9, QuietSafe

LEMMA OpenTime ==
    ASSUME TInv, NEW d \in Devs, Open(d)
    PROVE  ChannelInv' /\ TimeInv'
<1>1. /\ pc[d] = "closed" /\ pc' = [pc EXCEPT ![d] = "start"]
      /\ session' = [session EXCEPT ![d] = @ + 1]
      /\ start_io_compl' = [start_io_compl EXCEPT ![d] = FALSE]
      /\ UNCHANGED <<remote_timestamp, answered, clean, heard, handler, out, in, starts, running>>
  BY DEF Open, Goto, remote
<1>2. TypeOK /\ HistoryType /\ ChannelInv /\ CleanInv /\ WokenInv /\ AnsweredInv /\ TimeBaseFresh
  BY DEF TInv, IInv, TimeInv
<1>3. LastOverSame
  BY <1>1, <1>2 DEF LastOverSame, LastOver, TypeOK
<1>4. QuietStep
  BY <1>1 DEF QuietStep, Moves
<1>5. ChannelInv' /\ CleanInv'
  BY <1>1, <1>2, <1>3, <1>4, ChannelStays, CleanSame
<1>6. HistoryType' /\ WokenInv' /\ TimeBaseFresh'
  BY <1>1, <1>2 DEF HistoryType, WokenInv, TimeBaseFresh, TypeOK
<1>7. AnsweredInv'
  <2> SUFFICES ASSUME NEW e \in Devs, answered'[e], pc'[e] \in {"started", "wait", "open"}
               PROVE  /\ Passed(e, session[e])'
                      /\ handler'.at # "idle" /\ handler'.dev = e => handler'.time_os = starts'[e]
    BY DEF AnsweredInv
  <2>1. e # d
    BY <1>1, <1>2 DEF TypeOK
  <2>2. pc[e] = pc'[e] /\ session'[e] = session[e]
    BY <1>1, <1>2, <2>1 DEF TypeOK
  <2> QED
    BY <1>1, <1>2, <2>2 DEF AnsweredInv, Passed
<1> QED
  BY <1>5, <1>6, <1>7 DEF TimeInv

(* The start of an open is sent after all that is on the channel, and is   *)
(* of a later open.                                                        *)
LEMMA StartIoTime ==
    ASSUME TInv, NEW d \in Devs, StartIo(d)
    PROVE  ChannelInv' /\ TimeInv'
<1> DEFINE start == Io("start", d, session[d])
<1>1. /\ pc[d] = "start" /\ pc' = [pc EXCEPT ![d] = "started"]
      /\ out' = out \/ out' = Append(out, start)
      /\ answered' = [answered EXCEPT ![d] = FALSE]
      /\ UNCHANGED <<session, starts, start_io_compl, remote_timestamp, clean, heard, running, in,
                     handler>>
  BY DEF StartIo, Goto, StreamOnly, stream, remote
<1>2. TypeOK /\ HistoryType /\ ChannelInv /\ CleanInv /\ WokenInv /\ AnsweredInv /\ TimeBaseFresh
  BY DEF TInv, IInv, TimeInv
<1>3. out \in Seq(Messages) /\ session[d] \in Nat
  BY <1>2 DEF TypeOK
<1>4. start.type = "start" /\ start.dev = d /\ start.n = session[d]
  BY DEF Io
<1> HIDE DEF start
<1>5. ASSUME NEW e \in Devs, NEW i \in Of(out, "start", e) \cup Of(out, "stop", e), e = d
      PROVE  out[i].n < session[d]
  <2>1. out[i].n \in Nat /\ out[i].n \in Old(d)
    BY <1>3, <1>5, OfOld DEF IoTypes
  <2> QED
    BY <1>1, <1>3, <2>1 DEF Old
<1>6. ASSUME NEW e \in Devs, NEW ty \in {"start", "stop"}, NEW i \in Of(out', ty, e)
      PROVE  \/ i \in Of(out, ty, e) /\ out'[i] = out[i] /\ i <= Len(out)
             \/ e = d /\ ty = "start" /\ out'[i] = start /\ i = Len(out) + 1
  <2>1. CASE out' = out
    BY <1>3, <2>1, OfIn
  <2>2. CASE out' = Append(out, start)
    <3> DEFINE M == Messages \cup {start}
    <3>1. out \in Seq(M) /\ start \in M
      BY <1>3, SeqMono
    <3> HIDE DEF M
    <3>2. Grown(out, out', start)
      BY <2>2 DEF Grown
    <3>3. \/ i \in Of(out, ty, e) /\ out'[i] = out[i] /\ i \in Nat /\ i <= Len(out)
          \/ i = Len(out) + 1 /\ out'[i] = start /\ start.type = ty /\ start.dev = e
      BY <3>1, <3>2, OfGrown
    <3> QED
      BY <1>4, <3>3
  <2> QED
    BY <1>1, <2>1, <2>2
<1>7. OutOrder'
  <2> SUFFICES ASSUME NEW e \in Devs, NEW ty \in {"start", "stop"}, NEW i \in Of(out', ty, e),
                      NEW j \in Of(out', "start", e), i < j
               PROVE  out'[i].n < out'[j].n
    BY DEF OutOrder
  <2>1. i # Len(out) + 1 \/ j # Len(out) + 1
    BY <1>3, LenProperties
  <2>2. CASE j \in Of(out, "start", e) /\ out'[j] = out[j] /\ j <= Len(out)
    <3>1. i \in Of(out, ty, e) /\ out'[i] = out[i]
      <4>1. j \in Nat /\ Len(out) \in Nat
        BY <1>3, <2>2, OfIn
      <4> QED
        BY <1>6, <2>2, <4>1
    <3>2. out[i].n < out[j].n
      BY <1>2, <2>2, <3>1 DEF ChannelInv, OutOrder
    <3> QED
      BY <2>2, <3>1, <3>2
  <2>3. CASE e = d /\ out'[j] = start /\ j = Len(out) + 1
    <3>1. i \in Of(out, ty, e) /\ out'[i] = out[i]
      BY <1>6, <2>1, <2>3
    <3>2. out[i].n < session[d]
      BY <1>5, <2>3, <3>1
    <3> QED
      BY <1>4, <2>3, <3>1, <3>2
  <2> QED
    BY <1>6, <2>2, <2>3
<1>8. ASSUME NEW e \in Devs, NEW n \in Int, Passed(e, n), e = d => n < session[d]
      PROVE  Passed(e, n)'
  <2> SUFFICES ASSUME NEW k \in Of(out', "start", e) PROVE n < out'[k].n
    BY DEF Passed
  <2>1. CASE k \in Of(out, "start", e) /\ out'[k] = out[k]
    BY <1>8, <2>1 DEF Passed
  <2>2. CASE e = d /\ out'[k] = start
    BY <1>4, <1>8, <2>2
  <2> QED
    BY <1>6, <2>1, <2>2
<1>9. Moves(in, in', NotTimestamp) /\ Moves(in, in', NotReply) /\ Moves(in, in', {})
  BY <1>1 DEF Moves
<1>10. ReplyInv'
  <2>1. \A e \in Devs, n \in Nat : n \in Old(e) /\ Passed(e, n) => Passed(e, n)'
    <3> SUFFICES ASSUME NEW e \in Devs, NEW n \in Nat, n \in Old(e), Passed(e, n)
                 PROVE  Passed(e, n)'
      OBVIOUS
    <3>1. e = d => n < session[d]
      BY <1>1, <1>3 DEF Old
    <3> QED
      BY <1>8, <3>1
  <2>2. \A e \in Devs, n \in Nat : Stopped(e, n) => Stopped(e, n)'
    BY <1>1 DEF Stopped
  <2> QED
    BY <1>2, <1>9, <2>1, <2>2, ReplyMoves DEF ChannelInv
<1>11. ChannelInv'
  BY <1>2, <1>7, <1>9, <1>10, InOrderMoves DEF ChannelInv
<1>12. CleanInv'
  <2> SUFFICES ASSUME NEW e \in Devs, clean'[e] PROVE Quiet(e, LastOver(e))'
    BY DEF CleanInv
  <2>1. PICK n \in Int : n = LastOver(e)
    BY <1>2, LastOverInt
  <2>2. LastOver(e)' = n /\ (e = d => n < session[d])
    <3>1. e = d => n = session[d] - 1
      BY <1>1, <2>1 DEF LastOver
    <3> QED
      BY <1>1, <1>2, <1>3, <2>1, <3>1 DEF LastOver, TypeOK
  <2>3. Quiet(e, n)
    BY <1>1, <1>2, <2>1 DEF CleanInv
  <2>4. Passed(e, n)' /\ Stopped(e, n)'
    <3>1. Passed(e, n) /\ Stopped(e, n)
      BY <2>3 DEF Quiet
    <3>2. Passed(e, n)'
      BY <1>8, <2>2, <3>1
    <3> QED
      BY <1>1, <3>1, <3>2 DEF Stopped
  <2>5. handler'.at = "stamp" /\ handler'.dev = e => n < handler'.n
    BY <1>1, <2>3 DEF Quiet
  <2>6. Quiet(e, n)'
    BY <1>2, <1>9, <2>3, <2>4, <2>5, QuietStays
  <2> QED
    BY <2>2, <2>6 DEF Quiet, Passed, Stopped
<1>13. AnsweredInv'
  <2> SUFFICES ASSUME NEW e \in Devs, answered'[e], pc'[e] \in {"started", "wait", "open"}
               PROVE  /\ Passed(e, session[e])'
                      /\ handler'.at # "idle" /\ handler'.dev = e => handler'.time_os = starts'[e]
    BY DEF AnsweredInv
  <2>1. e # d /\ answered[e] /\ pc[e] = pc'[e]
    BY <1>1, <1>2 DEF TypeOK, HistoryType
  <2>2. PICK n \in Int : n = session[e]
    BY <1>2 DEF TypeOK
  <2>3. Passed(e, n) /\ (handler.at # "idle" /\ handler.dev = e => handler.time_os = starts[e])
    BY <1>2, <2>1, <2>2 DEF AnsweredInv
  <2>4. Passed(e, n)'
    BY <1>8, <2>1, <2>3
  <2> QED
    BY <1>1, <2>2, <2>3, <2>4 DEF Passed
<1>14. HistoryType' /\ TimeBaseFresh'
  BY <1>1, <1>2 DEF HistoryType, TimeBaseFresh, TypeOK
<1>15. WokenInv'
  BY <1>1, <1>2 DEF WokenInv, TypeOK
<1> QED
  BY <1>11, <1>12, <1>13, <1>14, <1>15 DEF TimeInv

LEMMA OfHead ==
    ASSUME NEW S, NEW s \in Seq(S), s # <<>>
    PROVE  1 \in Of(s, Head(s).type, Head(s).dev) /\ s[1] = Head(s)
<1>1. DOMAIN s = 1..Len(s) /\ Len(s) \in Nat /\ Len(s) # 0
  BY LenProperties, EmptySeq
<1>2. Head(s) = s[1]
  BY HeadTailProperties
<1> QED
  BY <1>1, <1>2 DEF Of

(* The interrupt thread takes an I/O message of an open whose start_io     *)
(* went out.                                                               *)
LEMMA Taken ==
    ASSUME TypeOK, NEW ty \in {"started", "stopped", "timestamp"}, Take(ty)
    PROVE  /\ Head(in).dev \in Devs /\ Head(in).n \in Nat /\ Head(in).n \in Old(Head(in).dev)
           /\ 1 \in Of(in, ty, Head(in).dev) /\ in[1] = Head(in)
           /\ handler = Idle /\ Shrunk(in, in') /\ in' = Tail(in) /\ in # <<>>
<1>1. /\ handler = Idle /\ in # <<>> /\ Head(in).type = ty /\ in' = Tail(in)
      /\ in \in Seq(Messages)
  BY DEF Take, TypeOK
<1>2. 1 \in Of(in, ty, Head(in).dev) /\ in[1] = Head(in)
  BY <1>1, OfHead
<1>3. Head(in) \in IoMessages
  <2>1. Head(in) \in Messages
    BY <1>1, SeqParts
  <2>2. ty # "alive" /\ ty # "boot"
    OBVIOUS
  <2> QED
    BY <1>1, <2>1, <2>2 DEF Messages
<1>4. Head(in).dev \in Devs /\ Head(in).n \in Nat /\ Head(in).n \in Old(Head(in).dev)
  BY <1>3 DEF IoMessages
<1> QED
  BY <1>1, <1>2, <1>4 DEF Shrunk

(* The steps that leave the history alone.                                 *)
LEMMA NotifiedTime ==
    ASSUME TInv, HandleAlive \/ HandleBoot \/ WriteTimestamp
    PROVE  ChannelInv' /\ TimeInv'
<1>1. /\ UNCHANGED <<pc, session, starts, start_io_compl, answered, clean, heard, running>>
      /\ in' = in \/ Shrunk(in, in')
      /\ out' = out \/ Grown(out, out', Alive)
      /\ handler' \in {handler, Idle}
      /\ \/ UNCHANGED remote_timestamp
         \/ /\ handler.at = "write"
            /\ remote_timestamp' = [remote_timestamp EXCEPT ![handler.dev] = handler.time_os]
  BY DEF HandleAlive, HandleBoot, WriteTimestamp, Take, HandlerOnly, stream, remote, Grown, Shrunk
<1>2. TypeOK /\ HistoryType /\ WokenInv /\ AnsweredInv /\ TimeBaseFresh
  BY DEF TInv, IInv, TimeInv
<1>3. QuietStep
  <2>1. Alive \in NotStart
    BY DEF Alive, NotStart, Messages
  <2> QED
    BY <1>1, <2>1 DEF QuietStep, Moves
<1>4. Idle.at = "idle"
  BY DEF Idle
<1>5. LastOverSame /\ SameTime
  BY <1>1, <1>4 DEF LastOverSame, LastOver, SameTime
<1>6. handler.at = "write" => handler.dev \in Devs /\ handler.time_os \in Nat
  BY <1>2 DEF TypeOK, Handled
<1>7. HistoryType' /\ WokenInv'
  BY <1>1, <1>2, <1>6 DEF HistoryType, WokenInv
<1>8. TimeBaseFresh'
  <2> SUFFICES ASSUME NEW d \in Devs, pc[d] = "open", answered[d]
               PROVE  remote_timestamp'[d] = starts[d]
    BY <1>1 DEF TimeBaseFresh
  <2>1. remote_timestamp[d] = starts[d]
    BY <1>2 DEF TimeBaseFresh
  <2>2. handler.at = "write" /\ handler.dev = d => handler.time_os = starts[d]
    BY <1>2 DEF AnsweredInv
  <2> QED
    BY <1>1, <1>2, <1>6, <2>1, <2>2 DEF HistoryType
<1> QED
  BY <1>1, <1>3, <1>4, <1>5, <1>7, <1>8, QuietSafe

(* A timestamp that finds an open waiting, with the stop_io before it      *)
(* answered, is of no open before.                                         *)
LEMMA WakeOpenTime ==
    ASSUME TInv, WakeOpen
    PROVE  ChannelInv' /\ TimeInv'
<1> DEFINE d == handler.dev
<1>1. /\ handler.at = "stamp"
      /\ heard' = [heard EXCEPT ![d] = handler.n]
      /\ \/ /\ start_io_compl' = [start_io_compl EXCEPT ![d] = TRUE]
            /\ handler' = Idle
         \/ /\ handler' = [handler EXCEPT !.at = "write"]
            /\ UNCHANGED start_io_compl
      /\ UNCHANGED <<pc, session, starts, remote_timestamp, answered, clean, running, out, in>>
  BY DEF WakeOpen, HandlerOnly, remote
<1>2. TypeOK /\ HistoryType /\ CleanInv /\ WokenInv /\ TimeBaseFresh
  BY DEF TInv, IInv, TimeInv
<1>3. d \in Devs /\ handler.n \in Nat /\ handler.n \in Old(d)
  BY <1>1, <1>2 DEF TypeOK, Handled
<1>4. QuietStep
  BY <1>1 DEF QuietStep, Moves
<1>5. handler'.at \in {"idle", "write"} /\ SameTime
  <2>1. CASE handler' = Idle
    BY <2>1 DEF Idle, SameTime
  <2>2. CASE handler' = [handler EXCEPT !.at = "write"]
    <3>1. handler \in [at : {"stamp", "write"}, dev : Devs, n : Nat, time_os : Nat]
      BY <1>1, <1>2 DEF TypeOK, Handled
    <3> QED
      BY <1>1, <2>2, <3>1 DEF SameTime
  <2> QED
    BY <1>1, <2>1, <2>2
<1>6. LastOverSame
  BY <1>1 DEF LastOverSame, LastOver
<1>7. HistoryType' /\ TimeBaseFresh'
  BY <1>1, <1>2 DEF HistoryType, TimeBaseFresh
<1>8. WokenInv'
  <2> SUFFICES ASSUME NEW e \in Devs, pc[e] \in {"start", "started", "wait"}, start_io_compl'[e], clean[e]
               PROVE  heard'[e] = session[e]
    BY <1>1 DEF WokenInv
  <2>1. CASE e = d
    <3>1. Quiet(d, LastOver(d)) /\ LastOver(d) = session[d] - 1
      BY <1>2, <2>1 DEF CleanInv, LastOver
    <3>2. session[d] - 1 < handler.n
      BY <1>1, <3>1 DEF Quiet
    <3>3. session[d] \in Nat /\ handler.n <= session[d]
      BY <1>2, <1>3 DEF TypeOK, Old
    <3>4. handler.n = session[d]
      BY <1>3, <3>2, <3>3
    <3> QED
      BY <1>1, <1>2, <2>1, <3>4 DEF TypeOK
  <2>2. CASE e # d
    <3>1. heard'[e] = heard[e] /\ start_io_compl'[e] = start_io_compl[e]
      BY <1>1, <1>2, <2>2 DEF TypeOK
    <3> QED
      BY <1>2, <3>1 DEF WokenInv
  <2> QED
    BY <2>1, <2>2
<1> QED
  BY <1>1, <1>4, <1>5, <1>6, <1>7, <1>8, QuietSafe

(* The clock is read after the timestamp is taken: after the start that it *)
(* is of, and after any start that was answered.                           *)
LEMMA TimestampTime ==
    ASSUME TInv, HandleTimestamp
    PROVE  ChannelInv' /\ TimeInv'
<1> DEFINE d == Head(in).dev
<1>1. /\ Take("timestamp")
      /\ handler' = [at |-> "stamp", dev |-> d, n |-> Head(in).n, time_os |-> starts[d]]
      /\ UNCHANGED <<pc, session, starts, start_io_compl, remote_timestamp, answered, clean,
                     heard, running, out>>
  BY DEF HandleTimestamp, HandlerOnly, stream, remote
<1>2. TypeOK /\ HistoryType /\ ChannelInv /\ CleanInv /\ WokenInv /\ AnsweredInv /\ TimeBaseFresh
  BY DEF TInv, IInv, TimeInv
<1>3. 1 \in Of(in, "timestamp", d) /\ in[1] = Head(in) /\ Shrunk(in, in')
  BY <1>1, <1>2, Taken
<1>4. /\ handler'.at = "stamp" /\ handler'.dev = d /\ handler'.n = in[1].n
      /\ handler'.time_os = starts[d]
  BY <1>1, <1>3
<1> HIDE DEF d
<1>5. QuietStep /\ Moves(in, in', {})
  BY <1>1, <1>3 DEF QuietStep, Moves
<1>6. ChannelInv'
  BY <1>2, <1>5, ChannelStays
<1>7. LastOverSame
  BY <1>1 DEF LastOverSame, LastOver
<1>8. CleanInv'
  <2>1. ASSUME NEW e \in Devs, NEW n \in Int, Quiet(e, n)
        PROVE  Passed(e, n)' /\ Stopped(e, n)' /\ (handler'.dev = e => n < handler'.n)
    <3>1. Passed(e, n)' /\ Stopped(e, n)'
      BY <1>1, <2>1 DEF Quiet, Passed, Stopped
    <3>2. handler'.dev = e => n < handler'.n
      BY <1>3, <1>4, <2>1 DEF Quiet
    <3> QED
      BY <3>1, <3>2
  <2> QED
    BY <1>2, <1>5, <1>7, <2>1, CleanStays
<1>9. AnsweredInv'
  BY <1>1, <1>2, <1>4 DEF AnsweredInv, Passed
<1>10. HistoryType' /\ WokenInv' /\ TimeBaseFresh'
  BY <1>1, <1>2 DEF HistoryType, WokenInv, TimeBaseFresh
<1> QED
  BY <1>6, <1>8, <1>9, <1>10 DEF TimeInv

(* The reply to a start_io: the remote side has read it.                   *)
LEMMA StartedTime ==
    ASSUME TInv, HandleReply("started", "started")
    PROVE  ChannelInv' /\ TimeInv'
<1> DEFINE d == Head(in).dev
           n == Head(in).n
<1>1. /\ Take("started")
      /\ answered' = [answered EXCEPT ![d] = @ \/ (pc[d] = "started" /\ session[d] = n)]
      /\ UNCHANGED <<pc, session, starts, start_io_compl, remote_timestamp, clean, heard, running,
                     handler, out>>
  BY DEF HandleReply, HandlerOnly, stream, remote
<1>2. TypeOK /\ HistoryType /\ ChannelInv /\ CleanInv /\ WokenInv /\ AnsweredInv /\ TimeBaseFresh
  BY DEF TInv, IInv, TimeInv
<1>3. /\ d \in Devs /\ 1 \in Of(in, "started", d) /\ in[1].n = n
      /\ Shrunk(in, in') /\ handler = Idle
  BY <1>1, <1>2, Taken
<1> HIDE DEF d, n
<1>4. QuietStep
  BY <1>1, <1>3 DEF QuietStep, Moves
<1>5. LastOverSame
  BY <1>1 DEF LastOverSame, LastOver
<1>6. ChannelInv' /\ CleanInv'
  BY <1>1, <1>2, <1>4, <1>5, ChannelStays, CleanSame
<1>7. \A e \in Devs : answered'[e] => answered[e] \/ (e = d /\ pc[d] = "started" /\ session[d] = n)
  BY <1>1, <1>2 DEF HistoryType
<1>8. AnsweredInv'
  <2> SUFFICES ASSUME NEW e \in Devs, answered'[e], pc'[e] \in {"started", "wait", "open"}
               PROVE  Passed(e, session[e])'
    BY <1>1, <1>3 DEF AnsweredInv, Idle
  <2>1. CASE answered[e]
    BY <1>1, <1>2, <2>1 DEF AnsweredInv, Passed
  <2>2. CASE e = d /\ session[d] = n
    <3>1. Passed(d, in[1].n)
      BY <1>2, <1>3 DEF ChannelInv, ReplyInv
    <3> QED
      BY <1>1, <1>3, <2>2, <3>1 DEF Passed
  <2> QED
    BY <1>7, <2>1, <2>2
<1>9. HistoryType' /\ WokenInv'
  <2>1. answered' \in [Devs -> BOOLEAN]
    BY <1>1, <1>2 DEF HistoryType
  <2> QED
    BY <1>1, <1>2, <2>1 DEF HistoryType, WokenInv
<1>10. TimeBaseFresh'
  BY <1>1, <1>2, <1>7 DEF TimeBaseFresh
<1> QED
  BY <1>6, <1>8, <1>9, <1>10 DEF TimeInv

(* The reply to a stop_io: the remote side does not run for the open any   *)
(* more, and what it sent before has been handled.                         *)
LEMMA StoppedTime ==
    ASSUME TInv, HandleReply("stopped", "stopped")
    PROVE  ChannelInv' /\ TimeInv'
<1>0. PICK d \in Devs, n \in Nat : d = Head(in).dev /\ n = Head(in).n
  <2>1. TypeOK /\ Take("stopped")
    BY DEF TInv, IInv, HandleReply
  <2> QED
    BY <2>1, Taken
<1>1. /\ Take("stopped")
      /\ clean' = [clean EXCEPT ![d] = @ \/ (pc[d] = "stopped" /\ session[d] = n)]
      /\ UNCHANGED <<pc, session, starts, start_io_compl, remote_timestamp, answered, heard,
                     running, handler, out>>
  BY <1>0 DEF HandleReply, HandlerOnly, stream, remote
<1>2. TypeOK /\ HistoryType /\ ChannelInv /\ CleanInv /\ WokenInv /\ AnsweredInv /\ TimeBaseFresh
  BY DEF TInv, IInv, TimeInv
<1>3. /\ d \in Devs /\ n \in Nat /\ 1 \in Of(in, "stopped", d) /\ in[1].n = n
      /\ Shrunk(in, in') /\ handler = Idle
  BY <1>0, <1>1, <1>2, Taken
<1>4. QuietStep /\ Moves(in, in', {})
  BY <1>1, <1>3 DEF QuietStep, Moves
<1>5. ChannelInv'
  BY <1>2, <1>4, ChannelStays
<1>6. \A e \in Devs : clean'[e] => clean[e] \/ (e = d /\ pc[d] = "stopped" /\ session[d] = n)
  BY <1>1, <1>2 DEF HistoryType
<1>7. Quiet(d, n)'
  <2>1. Passed(d, n) /\ Stopped(d, n)
    <3>1. Passed(d, in[1].n) /\ Stopped(d, in[1].n)
      BY <1>2, <1>3 DEF ChannelInv, ReplyInv
    <3> QED
      BY <1>3, <3>1
  <2>2. ASSUME NEW i \in Of(in', "timestamp", d)
        PROVE  n < in'[i].n
    <3>1. i \in Nat /\ i + 1 \in Of(in, "timestamp", d) /\ in'[i] = in[i + 1]
      BY <1>2, <1>3, OfShrunk DEF TypeOK
    <3>2. 1 < i + 1
      <4>1. i >= 1
        <5>1. in' \in Seq(Messages)
          BY <1>1, <1>2, Taken, SeqParts DEF TypeOK
        <5> QED
          BY <5>1, OfIn
      <4> QED
        BY <3>1, <4>1
    <3>3. in[1].n < in[i + 1].n
      BY <1>2, <1>3, <3>1, <3>2 DEF ChannelInv, InOrder
    <3> QED
      BY <1>3, <3>1, <3>3
  <2>3. handler'.at # "stamp"
    BY <1>1, <1>3 DEF Idle
  <2> QED
    BY <1>1, <2>1, <2>2, <2>3 DEF Quiet, Passed, Stopped
<1>8. CleanInv'
  <2> SUFFICES ASSUME NEW e \in Devs, clean'[e] PROVE Quiet(e, LastOver(e))'
    BY DEF CleanInv
  <2>1. CASE clean[e]
    <3>1. PICK m \in Int : m = LastOver(e)
      BY <1>2, LastOverInt
    <3>2. Quiet(e, m)
      BY <1>2, <2>1, <3>1 DEF CleanInv
    <3>3. Passed(e, m)' /\ Stopped(e, m)'
      BY <1>1, <3>2 DEF Quiet, Passed, Stopped
    <3>4. handler'.at # "stamp"
      BY <1>1, <1>3 DEF Idle
    <3>5. Quiet(e, m)'
      BY <1>2, <1>4, <3>2, <3>3, <3>4, QuietStays
    <3>6. LastOver(e)' = m
      BY <1>1, <3>1 DEF LastOver
    <3> QED
      BY <3>5, <3>6 DEF Quiet, Passed, Stopped
  <2>2. CASE e = d /\ pc[d] = "stopped" /\ session[d] = n
    <3>1. LastOver(e)' = session[d]
      BY <1>1, <2>2 DEF LastOver
    <3> QED
      BY <1>7, <2>2, <3>1 DEF Quiet, Passed, Stopped
  <2> QED
    BY <1>6, <2>1, <2>2
<1>9. AnsweredInv'
  BY <1>1, <1>2 DEF AnsweredInv, Passed
<1>10. HistoryType' /\ TimeBaseFresh'
  <2>1. clean' \in [Devs -> BOOLEAN]
    BY <1>1, <1>2 DEF HistoryType
  <2> QED
    BY <1>1, <1>2, <2>1 DEF HistoryType, TimeBaseFresh
<1>11. WokenInv'
  BY <1>1, <1>2, <1>6 DEF WokenInv
<1> QED
  BY <1>5, <1>8, <1>9, <1>10, <1>11 DEF TimeInv

LEMMA BootTime ==
    ASSUME TInv, RemoteBoots
    PROVE  ChannelInv' /\ TimeInv'
<1>1. /\ UNCHANGED <<pc, session, starts, start_io_compl, remote_timestamp, answered, clean, heard,
                     running, handler, out>>
      /\ Grown(in, in', Boot)
  BY DEF RemoteBoots, RemoteOnly, Says, stream, history, Grown
<1>2. QuietStep
  <2>1. Boot \in Notifications
    BY DEF Boot, Notifications, NotReply, NotTimestamp, Messages
  <2> QED
    BY <1>1, <2>1 DEF QuietStep, Moves
<1>3. LastOverSame /\ SameTime
  BY <1>1 DEF LastOverSame, LastOver, SameTime
<1>4. HistoryType' /\ WokenInv' /\ TimeBaseFresh'
  BY <1>1 DEF TInv, TimeInv, HistoryType, WokenInv, TimeBaseFresh
<1> QED
  BY <1>1, <1>2, <1>3, <1>4, QuietSafe

(* A timestamp is of the open that the remote side runs for, which is      *)
(* after those whose stop_io it has answered.                              *)
LEMMA SendTime ==
    ASSUME TInv, NEW d \in Devs, SendTimestamp(d)
    PROVE  ChannelInv' /\ TimeInv'
<1> DEFINE stamp == Io("timestamp", d, running[d])
<1>1. /\ running[d] # 0 /\ Grown(in, in', stamp)
      /\ UNCHANGED <<pc, session, starts, start_io_compl, remote_timestamp, answered, clean, heard,
                     running, handler, out>>
  BY DEF SendTimestamp, RemoteOnly, Says, stream, history, Grown
<1>2. TypeOK /\ HistoryType /\ ChannelInv /\ CleanInv /\ WokenInv /\ AnsweredInv /\ TimeBaseFresh
  BY DEF TInv, IInv, TimeInv
<1>3. stamp.type = "timestamp" /\ stamp.dev = d /\ stamp.n = running[d]
  BY DEF Io
<1>4. stamp \in NotReply
  <2>1. running[d] \in Nat /\ running[d] \in Old(d)
    BY DEF TInv, IInv, TypeOK, Sent
  <2> QED
    BY <2>1 DEF Io, NotReply, Messages, IoMessages, IoTypes
<1> HIDE DEF stamp
<1>5. Moves(in, in', {stamp}) /\ {stamp} \subseteq Messages /\ {stamp} \subseteq NotReply
  BY <1>1, <1>4 DEF Moves, NotReply
<1>6. InOrder'
  <2> SUFFICES ASSUME NEW e \in Devs, NEW i \in Of(in', "stopped", e),
                      NEW j \in Of(in', "timestamp", e), i < j
               PROVE  in'[i].n < in'[j].n
    BY DEF InOrder
  <2>1. in \in Seq(Messages)
    BY <1>2 DEF TypeOK
  <2>2. \/ \E k \in Of(in, "stopped", e), l \in Of(in, "timestamp", e) :
              k < l /\ in'[i] = in[k] /\ in'[j] = in[l]
        \/ \E k \in Of(in, "stopped", e) : e = d /\ in'[j] = stamp /\ in'[i] = in[k]
    <3>1. \/ \E k \in Of(in, "stopped", e), l \in Of(in, "timestamp", e) :
                k < l /\ in'[i] = in[k] /\ in'[j] = in[l]
          \/ \E x \in {stamp}, k \in Of(in, "stopped", e) :
                x.type = "timestamp" /\ x.dev = e /\ in'[j] = x /\ in'[i] = in[k]
      BY <1>5, <2>1, OrderMoves
    <3> QED
      BY <1>3, <3>1
  <2>3. CASE \E k \in Of(in, "stopped", e), l \in Of(in, "timestamp", e) :
              k < l /\ in'[i] = in[k] /\ in'[j] = in[l]
    BY <1>2, <2>3 DEF ChannelInv, InOrder
  <2>4. CASE \E k \in Of(in, "stopped", e) : e = d /\ in'[j] = stamp /\ in'[i] = in[k]
    <3>1. PICK k \in Of(in, "stopped", e) : e = d /\ in'[j] = stamp /\ in'[i] = in[k]
      BY <2>4
    <3>2. Stopped(d, in[k].n)
      BY <1>2, <3>1 DEF ChannelInv, ReplyInv
    <3> QED
      BY <1>1, <1>3, <3>1, <3>2 DEF Stopped
  <2> QED
    BY <2>2, <2>3, <2>4
<1>7. Moves(out, out', NotStart) /\ Moves(in, in', NotReply)
  BY <1>1, <1>5, MovesMore DEF Moves
<1>8. \A e \in Devs, n \in Int : /\ Passed(e, n) => Passed(e, n)'
                                 /\ Stopped(e, n) => Stopped(e, n)'
  BY <1>1 DEF Passed, Stopped
<1>9. OutOrder' /\ ReplyInv'
  <2>1. OutOrder'
    BY <1>2, <1>7, OutOrderMoves DEF ChannelInv
  <2>2. \A e \in Devs, n \in Nat : n \in Old(e) /\ Passed(e, n)
           => Passed(e, n)' /\ (Stopped(e, n) => Stopped(e, n)')
    BY <1>8
  <2>3. ReplyInv'
    BY <1>2, <1>7, <2>2, ReplyMoves DEF ChannelInv
  <2> QED
    BY <2>1, <2>3
<1>10. CleanInv'
  <2>1. LastOverSame
    BY <1>1 DEF LastOverSame, LastOver
  <2>2. ASSUME NEW e \in Devs, NEW n \in Int, Quiet(e, n)
        PROVE  /\ Passed(e, n)' /\ Stopped(e, n)'
               /\ \A x \in {stamp} : x.type = "timestamp" /\ x.dev = e => n < x.n
               /\ handler'.at = "stamp" /\ handler'.dev = e => n < handler'.n
    <3>1. Passed(e, n)' /\ Stopped(e, n)'
      BY <1>8, <2>2 DEF Quiet
    <3>2. e = d => n < stamp.n
      BY <1>1, <1>3, <2>2 DEF Quiet, Stopped
    <3>3. handler'.at = "stamp" /\ handler'.dev = e => n < handler'.n
      BY <1>1, <2>2 DEF Quiet
    <3> QED
      BY <1>3, <3>1, <3>2, <3>3
  <2> QED
    BY <1>2, <1>5, <2>1, <2>2, CleanStays
<1>11. AnsweredInv'
  BY <1>1, <1>2 DEF AnsweredInv, Passed
<1>12. HistoryType' /\ WokenInv' /\ TimeBaseFresh'
  BY <1>1, <1>2 DEF HistoryType, WokenInv, TimeBaseFresh
<1> QED
  BY <1>6, <1>9, <1>10, <1>11, <1>12 DEF ChannelInv, TimeInv

(* A command that the remote side reads passes all opens before it.        *)
LEMMA ReadPasses ==
    ASSUME TypeOK, OutOrder, Shrunk(out, out'), NEW ty \in {"start", "stop"},
           NEW d \in Devs, NEW n \in Nat, 1 \in Of(out, ty, d), out[1].n = n
    PROVE  Passed(d, n)'
<1> SUFFICES ASSUME NEW k \in Of(out', "start", d) PROVE n < out'[k].n
  BY DEF Passed
<1>1. out \in Seq(Messages) /\ out' \in Seq(Messages)
  BY SeqParts DEF TypeOK, Shrunk
<1>2. k \in Nat /\ k >= 1 /\ k + 1 \in Of(out, "start", d) /\ out'[k] = out[k + 1]
  BY <1>1, OfShrunk, OfIn
<1>3. 1 < k + 1
  BY <1>2
<1>4. out[1].n < out[k + 1].n
  BY <1>2, <1>3 DEF OutOrder
<1> QED
  BY <1>2, <1>4

LEMMA ReplySent ==
    ASSUME TypeOK, ReplyInv, NEW reply \in Messages, Moves(in, in', {reply}),
           NEW d \in Devs, NEW n \in Nat, reply.dev = d, reply.n = n,
           Passed(d, n)', reply.type = "stopped" => Stopped(d, n)',
           \A e \in Devs, m \in Int : Passed(e, m) =>
               Passed(e, m)' /\ (Stopped(e, m) => Stopped(e, m)')
    PROVE  ReplyInv'
<1> DEFINE P(e, m) == \A l \in Of(out', "start", e) : m < out'[l].n
           Q(e, m) == running'[e] = 0 \/ m < running'[e]
<1>1. /\ P(d, n)
      /\ reply.type = "stopped" => Q(d, n)
      /\ \A e \in Devs, m \in Int : Passed(e, m) => P(e, m) /\ (Stopped(e, m) => Q(e, m))
  BY DEF Passed, Stopped
<1>2. SUFFICES ASSUME NEW e \in Devs, NEW ty \in {"started", "stopped"}, NEW i \in Of(in', ty, e)
               PROVE  P(e, in'[i].n) /\ (ty = "stopped" => Q(e, in'[i].n))
  <2>1. ASSUME NEW e \in Devs
        PROVE  /\ \A i \in Of(in', "started", e) : P(e, in'[i].n)
               /\ \A i \in Of(in', "stopped", e) : P(e, in'[i].n) /\ Q(e, in'[i].n)
    BY <1>2
  <2> QED
    BY <2>1 DEF ReplyInv, Passed, Stopped
<1> HIDE DEF P, Q
<1>3. in \in Seq(Messages)
  BY DEF TypeOK
<1>4. \/ \E k \in Of(in, ty, e) : in'[i] = in[k]
      \/ in'[i] = reply /\ reply.type = ty /\ reply.dev = e
  BY <1>3, OfMoves
<1>5. CASE in'[i] = reply /\ reply.type = ty /\ reply.dev = e
  BY <1>1, <1>5
<1>6. ASSUME NEW k \in Of(in, ty, e), in'[i] = in[k]
      PROVE  P(e, in'[i].n) /\ (ty = "stopped" => Q(e, in'[i].n))
  <2>1. in[k].n \in Int
    BY <1>3, OfOld DEF IoTypes
  <2>2. Passed(e, in[k].n) /\ (ty = "stopped" => Stopped(e, in[k].n))
    BY DEF ReplyInv
  <2> QED
    BY <1>1, <1>6, <2>1, <2>2
<1> QED
  BY <1>4, <1>5, <1>6

(* The remote side reads a start or a stop, and answers it.                *)
LEMMA CommandTime ==
    ASSUME TInv, RemoteReads, up, Head(out).type \in {"start", "stop"}
    PROVE  ChannelInv' /\ TimeInv'
<1>1. TypeOK /\ HistoryType /\ ChannelInv /\ CleanInv /\ WokenInv /\ AnsweredInv /\ TimeBaseFresh
  BY DEF TInv, IInv, TimeInv
<1>2. out \in Seq(Messages) /\ in \in Seq(Messages) /\ Shrunk(out, out')
  BY <1>1 DEF TypeOK, RemoteReads, Shrunk
<1>3. PICK ty \in {"start", "stop"}, d \in Devs, n \in Nat :
             /\ Head(out).type = ty /\ Head(out).dev = d /\ Head(out).n = n /\ n \in Old(d)
             /\ 1 \in Of(out, ty, d) /\ out[1].n = n
  <2>1. Head(out) \in Messages
    BY <1>2, SeqParts DEF Shrunk
  <2>2. Head(out) \in IoMessages
    BY <2>1 DEF Messages
  <2>3. /\ Head(out).dev \in Devs /\ Head(out).n \in Nat /\ Head(out).n \in Old(Head(out).dev)
    BY <2>2 DEF IoMessages
  <2>4. 1 \in Of(out, Head(out).type, Head(out).dev) /\ out[1] = Head(out)
    BY <1>2, OfHead DEF Shrunk
  <2> QED
    BY <2>3, <2>4
<1> DEFINE reply == IF ty = "start" THEN Io("started", d, n) ELSE Io("stopped", d, n)
<1>4. /\ Grown(in, in', reply)
      /\ UNCHANGED <<pc, session, start_io_compl, remote_timestamp, answered, clean, heard, handler>>
      /\ \/ ty = "start" /\ UNCHANGED <<running, starts>>
         \/ ty = "start" /\ running' = [running EXCEPT ![d] = n]
                         /\ starts' = [starts EXCEPT ![d] = @ + 1]
         \/ ty = "stop" /\ running' = [running EXCEPT ![d] = 0] /\ UNCHANGED starts
  BY <1>3 DEF RemoteReads, RemoteOnly, Says, stream, history, Grown
<1>5. /\ reply.dev = d /\ reply.n = n
      /\ reply.type = IF ty = "start" THEN "started" ELSE "stopped"
  BY DEF Io
<1>6. reply \in Messages
  BY <1>3 DEF Io, Messages, IoMessages, IoTypes
<1> HIDE DEF reply
<1>7. Moves(in, in', {reply}) /\ Moves(in, in', NotTimestamp) /\ Moves(out, out', NotStart)
  BY <1>2, <1>4, <1>5, <1>6 DEF Moves, NotTimestamp
<1>8. OutOrder' /\ InOrder'
  BY <1>1, <1>7, OutOrderMoves, InOrderMoves DEF ChannelInv
<1>9. ASSUME NEW e \in Devs, NEW m \in Int, Passed(e, m)
      PROVE  Passed(e, m)' /\ (Stopped(e, m) => Stopped(e, m)')
  <2>1. Passed(e, m)'
    BY <1>1, <1>7, <1>9, PassedMoves
  <2>2. ASSUME Stopped(e, m)
        PROVE  Stopped(e, m)'
    <3>1. CASE running'[e] = running[e]
      BY <2>2, <3>1 DEF Stopped
    <3>2. CASE running'[e] # running[e]
      <4>1. e = d
        BY <1>1, <1>4, <3>2 DEF TypeOK
      <4>2. running'[d] = 0 \/ (ty = "start" /\ running'[d] = n)
        BY <1>1, <1>4, <3>2, <4>1 DEF TypeOK
      <4>3. ty = "start" => m < n
        BY <1>3, <1>9, <4>1 DEF Passed
      <4> QED
        BY <4>1, <4>2, <4>3 DEF Stopped
    <3> QED
      BY <3>1, <3>2
  <2> QED
    BY <2>1, <2>2
<1>10. ReplyInv'
  <2>1. Passed(d, n)'
    BY <1>1, <1>2, <1>3, ReadPasses DEF ChannelInv
  <2>2. reply.type = "stopped" => Stopped(d, n)'
    BY <1>1, <1>4, <1>5 DEF Stopped, TypeOK
  <2> QED
    BY <1>1, <1>5, <1>6, <1>7, <1>9, <2>1, <2>2, ReplySent DEF ChannelInv
<1>11. CleanInv'
  <2>1. LastOverSame
    BY <1>4 DEF LastOverSame, LastOver
  <2>2. \A x \in {reply} : x.type # "timestamp"
    BY <1>5
  <2>3. ASSUME NEW e \in Devs, NEW m \in Int, Quiet(e, m)
        PROVE  /\ Passed(e, m)' /\ Stopped(e, m)'
               /\ handler'.at = "stamp" /\ handler'.dev = e => m < handler'.n
    <3>1. Passed(e, m) /\ Stopped(e, m)
      BY <2>3 DEF Quiet
    <3> QED
      BY <1>4, <1>9, <2>3, <3>1 DEF Quiet
  <2>4. {reply} \subseteq Messages
    BY <1>6
  <2> QED
    BY <1>1, <1>7, <2>1, <2>2, <2>3, <2>4, CleanStays
(* A device does not start again for an open whose start was answered.     *)
<1>12. ASSUME NEW e \in Devs, answered[e], pc[e] \in {"started", "wait", "open"}
       PROVE  starts'[e] = starts[e]
  <2>1. CASE e = d /\ ty = "start"
    <3>1. session[d] < n
      BY <1>1, <1>3, <1>12, <2>1 DEF AnsweredInv, Passed
    <3>2. n <= session[d] /\ session[d] \in Nat
      BY <1>1, <1>3 DEF Old, TypeOK
    <3> QED
      BY <1>3, <3>1, <3>2
  <2>2. CASE ~(e = d /\ ty = "start")
    BY <1>1, <1>4, <2>2 DEF TypeOK
  <2> QED
    BY <2>1, <2>2
<1>13. AnsweredInv'
  <2> SUFFICES ASSUME NEW e \in Devs, answered[e], pc[e] \in {"started", "wait", "open"}
               PROVE  /\ Passed(e, session[e])'
                      /\ handler'.at # "idle" /\ handler'.dev = e => handler'.time_os = starts'[e]
    BY <1>4 DEF AnsweredInv
  <2>1. UNCHANGED session /\ SameTime
    BY <1>4 DEF SameTime
  <2>2. PICK m \in Int : m = session[e]
    BY <1>1 DEF TypeOK
  <2>3. Passed(e, m)'
    BY <1>1, <1>9, <2>2 DEF AnsweredInv
  <2>4. Passed(e, session[e])'
    BY <2>1, <2>2, <2>3 DEF Passed
  <2> QED
    BY <1>1, <1>4, <1>12, <2>4 DEF AnsweredInv
<1>14. TimeBaseFresh'
  BY <1>1, <1>4, <1>12 DEF TimeBaseFresh
<1>15. HistoryType' /\ WokenInv'
  BY <1>1, <1>4 DEF HistoryType, WokenInv
<1> QED
  BY <1>8, <1>10, <1>11, <1>13, <1>14, <1>15 DEF ChannelInv, TimeInv

(* The remote side reads anything else, or does not run.                   *)
LEMMA ReadTime ==
    ASSUME TInv, RemoteReads
    PROVE  ChannelInv' /\ TimeInv'
<1>1. CASE up /\ Head(out).type \in {"start", "stop"}
  BY <1>1, CommandTime
<1>2. CASE ~(up /\ Head(out).type \in {"start", "stop"})
  <2>1. /\ UNCHANGED <<pc, session, starts, start_io_compl, remote_timestamp, answered, clean,
                       heard, running, handler>>
        /\ Shrunk(out, out')
        /\ in' = in \/ Grown(in, in', Alive)
    BY <1>2 DEF RemoteReads, RemoteOnly, Says, stream, history, Grown, Shrunk
  <2>2. QuietStep
    <3>1. Alive \in Notifications
      BY DEF Alive, Notifications, NotReply, NotTimestamp, Messages
    <3> QED
      BY <2>1, <3>1 DEF QuietStep, Moves
  <2>3. LastOverSame /\ SameTime
    BY <2>1 DEF LastOverSame, LastOver, SameTime
  <2>4. HistoryType' /\ WokenInv' /\ TimeBaseFresh'
    BY <2>1 DEF TInv, TimeInv, HistoryType, WokenInv, TimeBaseFresh
  <2> QED
    BY <2>1, <2>2, <2>3, <2>4, QuietSafe
<1> QED
  BY <1>1, <1>2

LEMMA InitTInv == Init => TInv
<1> SUFFICES ASSUME Init PROVE TInv
  OBVIOUS
<1>1. in = <<>> /\ out = <<>> /\ \A d \in Devs, ty \in IoTypes : Of(in, ty, d) = {} /\ Of(out, ty, d) = {}
  BY DEF Init, Of
<1>2. \A d \in Devs : /\ Of(out, "start", d) = {} /\ Of(out, "stop", d) = {}
                      /\ Of(in, "started", d) = {} /\ Of(in, "stopped", d) = {}
                      /\ Of(in, "timestamp", d) = {}
  BY <1>1 DEF IoTypes
<1>3. ChannelInv
  BY <1>2 DEF ChannelInv, OutOrder, InOrder, ReplyInv
<1>4. CleanInv
  BY <1>2 DEF Init, Zero, Idle, CleanInv, Quiet, Passed, Stopped
<1>5. HistoryType /\ WokenInv /\ AnsweredInv /\ TimeBaseFresh
  BY DEF Init, Zero, HistoryType, WokenInv, AnsweredInv, TimeBaseFresh
<1> QED
  BY <1>3, <1>4, <1>5, InitIInv DEF TInv, TimeInv

LEMMA StepTInv == TInv /\ [Next]_vars => TInv'
<1> SUFFICES ASSUME TInv, [Next]_vars PROVE TInv'
  OBVIOUS
<1>1. IInv'
  BY StepIInv DEF TInv
<1>2. ChannelInv' /\ TimeInv'
  <2>1. CASE UNCHANGED vars
    <3>1. UNCHANGED <<pc, session, starts, start_io_compl, remote_timestamp, answered, clean,
                      heard, running, in, out, handler>>
      BY <2>1 DEF vars, stream, history, remote
    <3>2. ChannelInv'
      BY <3>1 DEF TInv, ChannelInv, OutOrder, InOrder, ReplyInv, Passed, Stopped
    <3>3. CleanInv' /\ AnsweredInv'
      BY <3>1 DEF TInv, TimeInv, CleanInv, AnsweredInv, LastOver, Quiet, Passed, Stopped
    <3>4. HistoryType' /\ WokenInv' /\ TimeBaseFresh'
      BY <3>1 DEF TInv, TimeInv, HistoryType, WokenInv, TimeBaseFresh
    <3> QED
      BY <3>2, <3>3, <3>4 DEF TimeInv
  <2>2. CASE ProbeStep
    BY <2>2, ProbeTime
  <2>3. CASE HandlerStep
    BY <2>3, NotifiedTime, WakeOpenTime, TimestampTime, StartedTime, StoppedTime DEF HandlerStep
  <2>4. CASE RemoteBoots \/ RemoteReads
    BY <2>4, BootTime, ReadTime
  <2>5. ASSUME NEW d \in Devs, Open(d) \/ OpenStep(d) \/ StopIo(d) \/ SendTimestamp(d)
        PROVE  ChannelInv' /\ TimeInv'
    BY <2>5, OpenTime, StartIoTime, CallTime, SendTime DEF OpenStep
  <2> QED
    BY <2>1, <2>2, <2>3, <2>4, <2>5 DEF Next
<1> QED
  BY <1>1, <1>2 DEF TInv

(* What is on its way in either direction is in the order of the opens; an *)
(* answered stop_io leaves nothing of the opens before it, and an answered *)
(* start_io no start to come.                                              *)
THEOREM ChannelsInOrder == Spec => []TInv
BY InitTInv, StepTInv, PTL DEF Spec

(* aaudio_pcm_open is woken by a timestamp of its own start_io, unless the *)
(* reply to the stop_io before it was given up, for any number of devices  *)
(* and opens and however many messages are on their way.                   *)
THEOREM WokenByTheOwnStart == Spec => []WokenByOwnStart
<1>1. TInv => WokenByOwnStart
  BY DEF TInv, TimeInv, WokenInv, WokenByOwnStart
<1> QED
  BY ChannelsInOrder, <1>1, PTL

(* aaudio_pcm_pointer never counts from a time read before the start, once *)
(* start_io was answered, wherever the interrupt thread is in its handler. *)
THEOREM TimeBaseIsFresh == Spec => []TimeBaseFresh
<1>1. TInv => TimeBaseFresh
  BY DEF TInv, TimeInv
<1> QED
  BY ChannelsInOrder, <1>1, PTL

-----------------------------------------------------------------------------
(* The handshake                                                           *)

LEMMA GrownRange ==
    ASSUME NEW S, NEW s \in Seq(S), NEW x \in S, NEW t, Grown(s, t, x),
           NEW m, m \in Range(s) \/ m = x
    PROVE  m \in Range(t)
<1>1. /\ Len(Append(s, x)) = Len(s) + 1 /\ Len(s) \in Nat
      /\ \A k \in 1..Len(s) : Append(s, x)[k] = s[k]
      /\ Append(s, x)[Len(s) + 1] = x
  BY AppendProperties, LenProperties
<1>2. DOMAIN Append(s, x) = 1..(Len(s) + 1) /\ DOMAIN s = 1..Len(s)
  <2>1. Append(s, x) \in Seq(S)
    BY AppendProperties
  <2> QED
    BY <1>1, <2>1, LenProperties
<1>3. CASE m = x
  <2>1. Len(s) + 1 \in DOMAIN t /\ t[Len(s) + 1] = m
    BY <1>1, <1>2, <1>3 DEF Grown
  <2> QED
    BY <2>1 DEF Range
<1>4. ASSUME NEW k \in DOMAIN s, m = s[k]
      PROVE  m \in Range(t)
  <2>1. k \in DOMAIN t /\ t[k] = m
    BY <1>1, <1>2, <1>4 DEF Grown
  <2> QED
    BY <2>1 DEF Range
<1> QED
  BY <1>3, <1>4 DEF Range

LEMMA ShrunkRange ==
    ASSUME NEW s \in Seq(Messages), NEW t, Shrunk(s, t), NEW m \in Range(s), m # Head(s)
    PROVE  m \in Range(t)
<1>1. /\ Tail(s) \in Seq(Messages) /\ Len(Tail(s)) = Len(s) - 1 /\ Len(s) \in Nat
      /\ \A k \in 1..Len(Tail(s)) : Tail(s)[k] = s[k + 1]
      /\ Head(s) = s[1]
  BY HeadTailProperties, LenProperties DEF Shrunk
<1>2. DOMAIN Tail(s) = 1..(Len(s) - 1) /\ DOMAIN s = 1..Len(s)
  BY <1>1, LenProperties
<1>3. PICK k \in DOMAIN s : m = s[k]
  BY DEF Range
<1>4. k - 1 \in 1..(Len(s) - 1) /\ (k - 1) + 1 = k
  BY <1>1, <1>2, <1>3
<1>5. Tail(s)[k - 1] = m
  BY <1>1, <1>3, <1>4
<1>6. k - 1 \in DOMAIN t /\ t[k - 1] = m
  BY <1>2, <1>4, <1>5 DEF Shrunk
<1> QED
  BY <1>6 DEF Range

(* The remote side has said that it is alive since it heard of the driver. *)
Heard == up /\ ~hears /\ probe \notin {"alive", "failed"} =>
            Alive \in Range(out) \/ Boot \in Range(in)
Answered == hears => remote_alive \/ Alive \in Range(in)
HInv == IInv /\ Heard /\ Answered

(* The channels lose nothing but what is taken from them.                  *)
LEMMA KeptRange ==
    ASSUME TypeOK, NEW s \in {in, out}, NEW t, NEW m \in {Alive, Boot},
           \/ t = s
           \/ \E x \in Messages : Grown(s, t, x)
           \/ Shrunk(s, t) /\ Head(s).type # m.type,
           m \in Range(s)
    PROVE  m \in Range(t)
<1>1. s \in Seq(Messages)
  BY DEF TypeOK
<1>2. CASE \E x \in Messages : Grown(s, t, x)
  BY <1>1, <1>2, GrownRange
<1>3. CASE Shrunk(s, t) /\ Head(s).type # m.type
  <2>1. m # Head(s)
    BY <1>3
  <2> QED
    BY <1>1, <1>3, <2>1, ShrunkRange
<1> QED
  BY <1>2, <1>3

LEMMA ProbeGoesOn ==
    ASSUME HInv, ProbeStep
    PROVE  Heard' /\ Answered'
<1>1. /\ UNCHANGED <<up, hears, remote_alive, in>>
      /\ \/ Grown(out, out', Alive)
         \/ out' = out /\ (probe' \notin {"alive", "failed"} => probe \notin {"alive", "failed"})
  BY DEF ProbeStep, SendAlive, WaitAlive, GetDeviceList, SetRemoteAccess, InitBs, RegisterCard,
         InitDev, ProbeOnly, Probe, remote, Grown
<1>2. Grown(out, out', Alive) => Alive \in Range(out')
  <2>1. Alive \in Messages /\ out \in Seq(Messages)
    BY DEF Alive, Messages, HInv, IInv, TypeOK
  <2> QED
    BY <2>1, GrownRange
<1> QED
  BY <1>1, <1>2 DEF HInv, Heard, Answered

LEMMA HandlerGoesOn ==
    ASSUME HInv, HandlerStep
    PROVE  Heard' /\ Answered'
<1>1. /\ UNCHANGED <<up, hears, probe>>
      /\ \/ HandleAlive
         \/ HandleBoot
         \/ /\ in' = in \/ (Shrunk(in, in') /\ Head(in).type \notin {"alive", "boot"})
            /\ UNCHANGED <<out, remote_alive>>
  <2> USE DEF Take, HandlerOnly, init, remote, Shrunk
  <2>1. CASE HandleAlive \/ HandleBoot
    BY <2>1 DEF HandleAlive, HandleBoot
  <2>2. CASE HandleTimestamp
    BY <2>2 DEF HandleTimestamp
  <2>3. CASE WakeOpen \/ WriteTimestamp
    BY <2>3 DEF WakeOpen, WriteTimestamp
  <2>4. CASE HandleReply("started", "started") \/ HandleReply("stopped", "stopped")
    BY <2>4 DEF HandleReply
  <2> QED
    BY <2>1, <2>2, <2>3, <2>4 DEF HandlerStep
<1>2. TypeOK /\ Alive \in Messages /\ out \in Seq(Messages)
  BY DEF Alive, Messages, HInv, IInv, TypeOK
<1>3. Alive.type = "alive" /\ Boot.type = "boot"
  BY DEF Alive, Boot
<1>4. CASE HandleAlive
  <2>1. remote_alive' /\ out' = out /\ Shrunk(in, in') /\ Head(in).type = "alive"
    BY <1>4 DEF HandleAlive, Take, Shrunk
  <2>2. Boot \in Range(in) => Boot \in Range(in')
    BY <1>2, <1>3, <2>1, KeptRange
  <2> QED
    BY <1>1, <2>1, <2>2 DEF HInv, Heard, Answered
<1>5. CASE HandleBoot
  <2>1. /\ Grown(out, out', Alive) /\ remote_alive' = remote_alive
        /\ Shrunk(in, in') /\ Head(in).type = "boot"
    BY <1>5 DEF HandleBoot, Take, Shrunk, Grown
  <2>2. Alive \in Range(out')
    BY <1>2, <2>1, GrownRange
  <2>3. Alive \in Range(in) => Alive \in Range(in')
    BY <1>2, <1>3, <2>1, KeptRange
  <2> QED
    BY <1>1, <2>1, <2>2, <2>3 DEF HInv, Heard, Answered
<1>6. CASE /\ in' = in \/ (Shrunk(in, in') /\ Head(in).type \notin {"alive", "boot"})
           /\ UNCHANGED <<out, remote_alive>>
  <2>1. \A m \in {Alive, Boot} : m \in Range(in) => m \in Range(in')
    BY <1>2, <1>3, <1>6, KeptRange
  <2> QED
    BY <1>1, <1>6, <2>1 DEF HInv, Heard, Answered
<1> QED
  BY <1>1, <1>4, <1>5, <1>6

LEMMA RemoteGoesOn ==
    ASSUME HInv, RemoteBoots \/ RemoteReads \/ \E d \in Devs : SendTimestamp(d)
    PROVE  Heard' /\ Answered'
<1>1. UNCHANGED <<probe, remote_alive>>
  BY DEF RemoteBoots, RemoteReads, SendTimestamp, RemoteOnly, init
<1>2. /\ TypeOK /\ Alive \in Messages /\ Boot \in Messages
      /\ out \in Seq(Messages) /\ in \in Seq(Messages)
  BY DEF Alive, Boot, Messages, HInv, IInv, TypeOK
<1>3. Alive.type = "alive" /\ Boot.type = "boot"
  BY DEF Alive, Boot
<1>4. CASE RemoteBoots
  <2>1. Grown(in, in', Boot) /\ hears' = hears
    BY <1>4 DEF RemoteBoots, Says, Grown
  <2>2. Boot \in Range(in') /\ (Alive \in Range(in) => Alive \in Range(in'))
    BY <1>2, <2>1, GrownRange
  <2> QED
    BY <1>1, <2>1, <2>2 DEF HInv, Heard, Answered
<1>6. CASE RemoteReads
  <2>1. Shrunk(out, out') /\ up' = up
    BY <1>6 DEF RemoteReads, Shrunk
  <2>2. CASE ~up
    BY <1>1, <1>6, <2>1, <2>2 DEF RemoteReads, HInv, Heard, Answered
  <2>3. CASE up /\ Head(out).type = "alive"
    <3>1. hears' = TRUE /\ Grown(in, in', Alive)
      BY <1>6, <2>3 DEF RemoteReads, Says, Grown
    <3>2. Alive \in Range(in')
      BY <1>2, <3>1, GrownRange
    <3> QED
      BY <3>1, <3>2 DEF Heard, Answered
  <2>4. CASE up /\ Head(out).type # "alive"
    <3> DEFINE d == Head(out).dev
               n == Head(out).n
    <3>1. /\ hears' = hears /\ Head(out).type \in {"start", "stop"}
          /\ Grown(in, in', Io("started", d, n)) \/ Grown(in, in', Io("stopped", d, n))
      BY <1>6, <2>4 DEF RemoteReads, Says, Grown
    <3>2. Io("started", d, n) \in Messages /\ Io("stopped", d, n) \in Messages
      <4>1. Head(out) \in IoMessages
        BY <1>2, <2>1, <3>1, SeqParts DEF Messages, Shrunk
      <4> QED
        BY <4>1 DEF Io, Messages, IoMessages, IoTypes
    <3>3. \A m \in {Alive, Boot} : m \in Range(in) => m \in Range(in')
      BY <1>2, <3>1, <3>2, GrownRange
    <3>4. Alive \in Range(out) => Alive \in Range(out')
      BY <1>2, <1>3, <2>1, <3>1, KeptRange
    <3> QED
      BY <1>1, <2>1, <3>1, <3>3, <3>4 DEF HInv, Heard, Answered
  <2> QED
    BY <2>2, <2>3, <2>4
<1>7. ASSUME NEW d \in Devs, SendTimestamp(d)
      PROVE  Heard' /\ Answered'
  <2> DEFINE stamp == Io("timestamp", d, running[d])
  <2>1. Grown(in, in', stamp) /\ UNCHANGED <<out, up, hears>>
    BY <1>7 DEF SendTimestamp, Says, Grown
  <2>2. stamp \in Messages
    <3>1. running[d] \in Nat /\ running[d] \in Old(d)
      BY DEF HInv, IInv, TypeOK, Sent
    <3> QED
      BY <3>1 DEF Io, Messages, IoMessages, IoTypes
  <2> HIDE DEF stamp
  <2>3. \A m \in {Alive, Boot} : m \in Range(in) => m \in Range(in')
    BY <1>2, <2>1, <2>2, GrownRange
  <2> QED
    BY <1>1, <2>1, <2>3 DEF HInv, Heard, Answered
<1> QED
  BY <1>4, <1>6, <1>7

LEMMA CallGoesOn ==
    ASSUME HInv, NEW d \in Devs, Open(d) \/ OpenStep(d) \/ StopIo(d)
    PROVE  Heard' /\ Answered'
<1>1. /\ UNCHANGED <<up, hears, probe, remote_alive, in>>
      /\ \/ out' = out
         \/ Grown(out, out', Io("start", d, session[d]))
         \/ Grown(out, out', Io("stop", d, session[d]))
  BY DEF Open, OpenStep, StartIo, StartIoReturns, OpenReturns, CloseReturns, StopIo, Goto,
         StreamOnly, init, remote, Grown
<1>2. ASSUME NEW x, Grown(out, out', x), Alive \in Range(out)
      PROVE  Alive \in Range(out')
  <2> DEFINE M == Messages \cup {x}
  <2>1. out \in Seq(M) /\ x \in M
    BY SeqMono DEF HInv, IInv, TypeOK
  <2> HIDE DEF M
  <2> QED
    BY <1>2, <2>1, GrownRange
<1>3. Alive \in Range(out) => Alive \in Range(out')
  BY <1>1, <1>2
<1> QED
  BY <1>1, <1>3 DEF HInv, Heard, Answered

LEMMA StepHInv == HInv /\ [Next]_vars => HInv'
<1> SUFFICES ASSUME HInv, [Next]_vars PROVE HInv'
  OBVIOUS
<1>1. IInv'
  BY StepIInv DEF HInv
<1>2. Heard' /\ Answered'
  <2>1. CASE UNCHANGED vars
    BY <2>1 DEF vars, init, remote, HInv, Heard, Answered
  <2>2. CASE ProbeStep \/ HandlerStep
    BY <2>2, ProbeGoesOn, HandlerGoesOn
  <2>3. CASE RemoteBoots \/ RemoteReads \/ \E d \in Devs : SendTimestamp(d)
    BY <2>3, RemoteGoesOn
  <2>4. ASSUME NEW d \in Devs, Open(d) \/ OpenStep(d) \/ StopIo(d)
        PROVE  Heard' /\ Answered'
    BY <2>4, CallGoesOn
  <2> QED
    BY <2>1, <2>2, <2>3, <2>4 DEF Next
<1> QED
  BY <1>1, <1>2 DEF HInv

(* The two sides never wait for each other, whichever is up first and      *)
(* however many messages are on their way.                                 *)
THEOREM HandshakeNeverStalls == Spec => []HandshakeGoesOn
<1>1. Init => HInv
  <2>1. Init => Heard /\ Answered
    BY DEF Init, Heard, Answered
  <2> QED
    BY <2>1, InitIInv DEF HInv
<1>2. HInv => HandshakeGoesOn
  BY DEF HInv, Heard, Answered, HandshakeGoesOn
<1> QED
  BY <1>1, <1>2, StepHInv, PTL DEF Spec

=============================================================================
