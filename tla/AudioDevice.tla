----------------------------- MODULE AudioDevice -----------------------------
(***************************************************************************)
(* The audio devices and their streams (src/audio/audio.c,                 *)
(* src/audio/pcm.c, src/audio/protocol.c): the probe and its handshake     *)
(* with the remote side, opening and closing the playback stream of a      *)
(* device, and the timestamps that the remote side sends of it.            *)
(*                                                                         *)
(* Messages go both ways in order (AudioProtocol); one interrupt thread    *)
(* handles what comes in, a message at a time, replies too. A command may  *)
(* be given up after 500 ms, and its reply still come.                     *)
(*                                                                         *)
(* The times of a device are told apart by how often it had started by     *)
(* then: a clock that is read shows starts[d].                             *)
(***************************************************************************)
EXTENDS Naturals, SequencesExt

CONSTANTS Devs,
          MaxOpens,     \* bound: streams opened, of all devices
          MaxInFlight   \* bound: messages of the remote side not handled yet

VARIABLES probe,            \* where aaudio_probe is
          left,             \* the devices it has yet to look at
          remote_alive,     \* whether the completion is complete
          subdevice_list, pcms,
          hw,               \* devices with an alsa_hw_desc
          pc,               \* by device, where the calls of its stream are
          needs_start_io_compl, start_io_compl, remote_timestamp,
          session,          \* by device, the number of its last open,
          answered,         \* whether its start_io returned with a reply,
          clean,            \* and the stop_io before it;
          heard,            \* the open that the last timestamp handled was of
          handler,          \* what the interrupt thread does, and the time it read
          out, in,          \* messages to the remote side and from it
          kind,             \* remote side: what each device is,
          up, hears,        \* whether it runs, and has heard of the driver since,
          running,          \* by device, the open it runs for, 0 for none,
          starts            \* and how often it has started

init == <<probe, left, subdevice_list, pcms, hw>>
stream == <<needs_start_io_compl, start_io_compl, remote_timestamp>>
history == <<session, answered, clean, heard>>
remote == <<kind, up, hears, running, starts>>
vars == <<init, remote_alive, pc, stream, history, handler, out, in, remote>>

Zero == [d \in Devs |-> 0]
Idle == [at |-> "idle"]
Alive == [type |-> "alive"]
Boot == [type |-> "boot"]
Io(type, d, n) == [type |-> type, dev |-> d, n |-> n]

(* The remote side may run already, or boot later.                         *)
Init == /\ probe = "alive" /\ left = {}
        /\ remote_alive = FALSE
        /\ subdevice_list = {} /\ pcms = {} /\ hw = {}
        /\ pc = [d \in Devs |-> "closed"]
        /\ needs_start_io_compl = [d \in Devs |-> FALSE]
        /\ start_io_compl = [d \in Devs |-> FALSE]
        /\ remote_timestamp = Zero /\ session = Zero /\ heard = Zero
        /\ answered = [d \in Devs |-> FALSE] /\ clean = [d \in Devs |-> TRUE]
        /\ handler = Idle
        /\ out = <<>> /\ in = <<>>
        /\ kind \in [Devs -> {"other", "input", "output"}]
        /\ up \in BOOLEAN /\ hears = FALSE
        /\ running = Zero /\ starts = Zero

(***************************************************************************)
(* aaudio_probe                                                            *)
(***************************************************************************)
Probe(from, to) == probe = from /\ probe' = to

ProbeOnly == UNCHANGED <<remote_alive, pc, stream, history, handler, in, remote>>

(* aaudio_init_cmd: the alive notification (one of the first two messages, *)
(* with the answer to a boot notification: there is a slot for it) ...     *)
SendAlive ==
    /\ Probe("alive", "wait")
    /\ out' = Append(out, Alive)
    /\ ProbeOnly /\ UNCHANGED <<left, subdevice_list, pcms, hw>>

(* ... and the wait for the remote one, of 500 ms at most.                 *)
WaitAlive ==
    /\ IF remote_alive THEN Probe("wait", "list") ELSE Probe("wait", "failed")
    /\ ProbeOnly /\ UNCHANGED <<out, left, subdevice_list, pcms, hw>>

GetDeviceList ==
    /\ \/ Probe("list", "devices") /\ left' = Devs
       \/ Probe("list", "failed") /\ UNCHANGED left
    /\ ProbeOnly /\ UNCHANGED <<out, subdevice_list, pcms, hw>>

(* aaudio_init_dev and aaudio_create_pcm: a device is skipped if it is not *)
(* one of those supported, or a command to it fails; only one with output  *)
(* streams gets a pcm.                                                     *)
InitDev(d) ==
    /\ probe = "devices" /\ d \in left
    /\ left' = left \ {d}
    /\ \/ UNCHANGED <<subdevice_list, pcms>>
       \/ /\ kind[d] # "other"
          /\ subdevice_list' = subdevice_list \cup {d}
          /\ pcms' = IF kind[d] = "output" THEN pcms \cup {d} ELSE pcms
    /\ ProbeOnly /\ UNCHANGED <<probe, out, hw>>

SetRemoteAccess ==
    /\ left = {}
    /\ Probe("devices", "bs") \/ Probe("devices", "failed")
    /\ ProbeOnly /\ UNCHANGED <<out, left, subdevice_list, pcms, hw>>

(* aaudio_init_bs: which streams have a buffer is the remote side's choice. *)
InitBs ==
    /\ \/ Probe("bs", "register") /\ hw' \in SUBSET subdevice_list
       \/ Probe("bs", "failed") /\ UNCHANGED hw
    /\ ProbeOnly /\ UNCHANGED <<out, left, subdevice_list, pcms>>

RegisterCard ==
    /\ Probe("register", "done") \/ Probe("register", "failed")
    /\ ProbeOnly /\ UNCHANGED <<out, left, subdevice_list, pcms, hw>>

(***************************************************************************)
(* aaudio_pcm_open and aaudio_pcm_close                                    *)
(***************************************************************************)
Goto(d, from, to) == pc[d] = from /\ pc' = [pc EXCEPT ![d] = to]

StreamOnly == UNCHANGED <<init, remote_alive, session, heard, handler, in, remote>>

(* Opening a stream without an alsa_hw_desc is not modelled.               *)
Open(d) ==
    /\ probe = "done" /\ d \in pcms \cap hw
    /\ MapThenSumSet(LAMBDA x : session[x], Devs) < MaxOpens
    /\ Goto(d, "closed", "start")
    /\ session' = [session EXCEPT ![d] = @ + 1]
    /\ start_io_compl' = [start_io_compl EXCEPT ![d] = FALSE]
    /\ needs_start_io_compl' = [needs_start_io_compl EXCEPT ![d] = TRUE]
    /\ UNCHANGED <<init, remote_alive, remote_timestamp, answered, clean, heard, handler,
                   out, in, remote>>

(* The command is not sent if no slot can be reserved.                     *)
StartIo(d) ==
    /\ Goto(d, "start", "started")
    /\ out' \in {out, Append(out, Io("start", d, session[d]))}
    /\ answered' = [answered EXCEPT ![d] = FALSE]
    /\ StreamOnly /\ UNCHANGED <<stream, clean>>

(* A mutant: the completion is made ready right before the wait.           *)
StartIoReturnsReady(d) ==
    /\ Goto(d, "started", "wait")
    /\ start_io_compl' = [start_io_compl EXCEPT ![d] = FALSE]
    /\ StreamOnly /\ UNCHANGED <<needs_start_io_compl, remote_timestamp, answered, clean, out>>

(* With a reply or without; the result is ignored.                         *)
StartIoReturns(d) ==
    /\ Goto(d, "started", "wait")
    /\ StreamOnly /\ UNCHANGED <<stream, answered, clean, out>>

(* A mutant: what the timestamp left is good enough.                       *)
OpenReturnsUnstamped(d) ==
    /\ Goto(d, "wait", "open")
    /\ start_io_compl' = [start_io_compl EXCEPT ![d] = FALSE]
    /\ StreamOnly
    /\ UNCHANGED <<needs_start_io_compl, remote_timestamp, answered, clean, out>>

(* The first timestamp has woken it, or none came in 500 jiffies.          *)
OpenReturns(d) ==
    /\ Goto(d, "wait", "open")
    /\ start_io_compl' = [start_io_compl EXCEPT ![d] = FALSE]
    /\ remote_timestamp' = [remote_timestamp EXCEPT ![d] = starts[d]]
    /\ StreamOnly /\ UNCHANGED <<needs_start_io_compl, answered, clean, out>>

(* A mutant: nobody waits for the reply.                                   *)
StopIoReturns(d) ==
    /\ Goto(d, "open", "closed")
    /\ out' = Append(out, Io("stop", d, session[d]))
    /\ StreamOnly /\ UNCHANGED <<stream, answered, clean>>

StopIo(d) ==
    /\ Goto(d, "open", "stopped")
    /\ out' \in {out, Append(out, Io("stop", d, session[d]))}
    /\ clean' = [clean EXCEPT ![d] = FALSE]
    /\ StreamOnly /\ UNCHANGED <<stream, answered>>

(* With a reply or without.                                                *)
CloseReturns(d) ==
    /\ Goto(d, "stopped", "closed")
    /\ StreamOnly /\ UNCHANGED <<stream, answered, clean, out>>

(***************************************************************************)
(* The interrupt thread. A probe that failed has freed the structure.      *)
(***************************************************************************)
Take(type) ==
    /\ probe # "failed"
    /\ handler = Idle /\ in # <<>> /\ Head(in).type = type
    /\ in' = Tail(in)

HandlerOnly == UNCHANGED <<init, pc, session, remote>>

(* aaudio_handle_notification: complete_all.                               *)
HandleAlive ==
    /\ Take("alive")
    /\ remote_alive' = TRUE
    /\ HandlerOnly /\ UNCHANGED <<stream, answered, clean, heard, handler, out>>

(* A mutant: a boot notification is not answered.                          *)
BootIgnored ==
    /\ Take("boot")
    /\ HandlerOnly /\ UNCHANGED <<remote_alive, stream, answered, clean, heard, handler, out>>

(* "Resend the alive notify".                                              *)
HandleBoot ==
    /\ Take("boot")
    /\ out' = Append(out, Alive)
    /\ HandlerOnly /\ UNCHANGED <<remote_alive, stream, answered, clean, heard, handler>>

(* aaudio_handle_reply; nobody may wait for it any more.                   *)
HandleReply(type, place) ==
    /\ Take(type)
    /\ LET d == Head(in).dev
           waiting == pc[d] = place /\ session[d] = Head(in).n
       IN  IF type = "started"
           THEN answered' = [answered EXCEPT ![d] = @ \/ waiting] /\ UNCHANGED clean
           ELSE clean' = [clean EXCEPT ![d] = @ \/ waiting] /\ UNCHANGED answered
    /\ HandlerOnly /\ UNCHANGED <<remote_alive, stream, heard, handler, out>>

(* aaudio_handle_cmd_timestamp reads the clock first.                      *)
HandleTimestamp ==
    /\ Take("timestamp")
    /\ LET d == Head(in).dev
       IN  handler' = [at |-> "stamp", dev |-> d, n |-> Head(in).n, time_os |-> starts[d]]
    /\ HandlerOnly /\ UNCHANGED <<remote_alive, stream, answered, clean, heard, out>>

(* Under start_io_sl: the timestamp that an open waits for is not used     *)
(* otherwise. The response to the remote side, which nothing depends on,   *)
(* is left to AudioProtocol.                                               *)
WakeOpen ==
    /\ probe # "failed" /\ handler.at = "stamp"
    /\ LET d == handler.dev IN
       /\ heard' = [heard EXCEPT ![d] = handler.n]
       /\ IF needs_start_io_compl[d]
          THEN /\ start_io_compl' = [start_io_compl EXCEPT ![d] = TRUE]
               /\ needs_start_io_compl' = [needs_start_io_compl EXCEPT ![d] = FALSE]
               /\ handler' = Idle
          ELSE /\ handler' = [handler EXCEPT !.at = "write"]
               /\ UNCHANGED <<start_io_compl, needs_start_io_compl>>
    /\ HandlerOnly /\ UNCHANGED <<remote_alive, remote_timestamp, answered, clean, out, in>>

(* Under the lock of the stream.                                           *)
WriteTimestamp ==
    /\ probe # "failed" /\ handler.at = "write"
    /\ remote_timestamp' = [remote_timestamp EXCEPT ![handler.dev] = handler.time_os]
    /\ handler' = Idle
    /\ HandlerOnly
    /\ UNCHANGED <<remote_alive, needs_start_io_compl, start_io_compl, answered, clean, heard, out, in>>

(***************************************************************************)
(* The remote side                                                         *)
(***************************************************************************)
RemoteOnly == UNCHANGED <<init, remote_alive, pc, stream, history, handler, kind>>

Says(msg) == Len(in) < MaxInFlight /\ in' = Append(in, msg)

RemoteBoots ==
    /\ ~up /\ up' = TRUE
    /\ Says(Boot)
    /\ RemoteOnly /\ UNCHANGED <<out, hears, running, starts>>

(* Before it runs, nobody hears what is sent; it may refuse to start.      *)
RemoteReads ==
    /\ out # <<>> /\ out' = Tail(out)
    /\ LET msg == Head(out) IN
       \/ /\ ~up
          /\ UNCHANGED <<in, hears, running, starts>>
       \/ /\ up /\ msg.type = "alive"
          /\ hears' = TRUE
          /\ Says(Alive)
          /\ UNCHANGED <<running, starts>>
       \/ /\ up /\ msg.type = "start"
          /\ Says(Io("started", msg.dev, msg.n))
          /\ \/ /\ running' = [running EXCEPT ![msg.dev] = msg.n]
                /\ starts' = [starts EXCEPT ![msg.dev] = @ + 1]
             \/ UNCHANGED <<running, starts>>
          /\ UNCHANGED hears
       \/ /\ up /\ msg.type = "stop"
          /\ Says(Io("stopped", msg.dev, msg.n))
          /\ running' = [running EXCEPT ![msg.dev] = 0]
          /\ UNCHANGED <<hears, starts>>
    /\ RemoteOnly /\ UNCHANGED up

SendTimestamp(d) ==
    /\ running[d] # 0
    /\ Says(Io("timestamp", d, running[d]))
    /\ RemoteOnly /\ UNCHANGED <<out, up, hears, running, starts>>

ProbeStep == \/ SendAlive \/ WaitAlive \/ GetDeviceList \/ SetRemoteAccess
             \/ InitBs \/ RegisterCard
             \/ \E d \in Devs : InitDev(d)

OpenStep(d) == StartIo(d) \/ StartIoReturns(d) \/ OpenReturns(d) \/ CloseReturns(d)

HandlerStep == \/ HandleAlive \/ HandleBoot \/ HandleTimestamp \/ WakeOpen \/ WriteTimestamp
               \/ HandleReply("started", "started") \/ HandleReply("stopped", "stopped")

Next == \/ ProbeStep \/ HandlerStep \/ RemoteBoots \/ RemoteReads
        \/ \E d \in Devs : Open(d) \/ OpenStep(d) \/ StopIo(d) \/ SendTimestamp(d)

Spec == Init /\ [][Next]_vars

(***************************************************************************)
(* Properties                                                              *)
(***************************************************************************)

(* The first timestamp of an open, handled at any time after start_io went *)
(* out, even before its reply, wakes aaudio_pcm_open from its wait.        *)
NoLostStart ==
    \A d \in Devs : pc[d] \in {"started", "wait"} /\ heard[d] = session[d] => start_io_compl[d]

(* What wakes aaudio_pcm_open is a timestamp of its own start and not one  *)
(* of the last, unless the stop_io in between was given up.                *)
WokenByOwnStart ==
    \A d \in Devs : pc[d] = "wait" /\ start_io_compl[d] /\ clean[d] => heard[d] = session[d]

(* While a stream is open whose start_io was answered, the time that       *)
(* aaudio_pcm_pointer counts from was read since the device started: the   *)
(* interrupt thread may be anywhere in its handler, with a time it read    *)
(* before.                                                                 *)
TimeBaseFresh ==
    \A d \in Devs : pc[d] = "open" /\ answered[d] => remote_timestamp[d] = starts[d]

(* The two sides never wait for each other: while a remote side that runs  *)
(* has not heard of the driver, an alive notification or its own boot      *)
(* notification is on its way, whether it boots before the first           *)
(* notification is sent, after it, or while it is; and what aaudio_probe   *)
(* waits for has been sent once the remote side has heard.                 *)
HandshakeGoesOn ==
    /\ up /\ ~hears /\ probe \notin {"alive", "failed"} =>
          Alive \in Range(out) \/ Boot \in Range(in)
    /\ hears /\ probe = "wait" => remote_alive \/ Alive \in Range(in)
=============================================================================
