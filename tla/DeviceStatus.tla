---------------------------- MODULE DeviceStatus ----------------------------
(***************************************************************************)
(* The retained status topic: what the agent knows of its printer          *)
(* (agent/device_state.py), how the print loop comes to know it and says   *)
(* so (agent/worker.py), and how a reconnecting MQTT client keeps the      *)
(* topic right (agent/source_mqtt.py).                                     *)
(*                                                                         *)
(* Two threads act: the print loop, and paho's network thread, which runs  *)
(* on_connect.  The broker holds the topic and the will of the session.    *)
(* A crash loses everything but the spool's row and the broker's state.    *)
(* The device's fields are remembered together: what stands for them here  *)
(* is seen_at, when the printer last reported one.                         *)
(***************************************************************************)
EXTENDS Integers, Sequences

CONSTANTS
    MaxClock,   \* bound: steps of the clock
    MaxQueue    \* bound: statuses published and not at the broker, of which
                \* a reconnect adds one

ASSUME ConstantAssumption == MaxClock \in Nat \ {0} /\ MaxQueue \in Nat

VARIABLES
    clock,    \* the time; a status is as old as its seen_at
    phase,    \* of the process: "down", "starting", "running", "stopping"
    send,     \* what the print loop does with the printer
    device,   \* PrintWorker._device
    last,     \* MqttSource._last_status
    will,     \* the payload of will_set
    held,     \* the status on_connect has read and not published yet
    conn,     \* the connection: "off", "lost", "republish", "up"
    keeps,    \* paho keeps what is published while it is not connected
    outbox,   \* ... and it is this
    wire,     \* on its way to the broker
    saved,    \* the spool's device_state row
    topic,    \* broker: the retained status
    session,  \* broker: the will of the session it holds open
    latest,   \* history: the last status the print loop published
    overtaken, \* history: ... while on_connect held an older one
    muted      \* history: the agent left while on_connect held a status

agent  == <<phase, send, device>>
client == <<last, will, held, conn, keeps, outbox, wire>>
broker == <<topic, session>>
vars   == <<clock, agent, client, saved, broker, latest, overtaken, muted>>

Time     == 0..MaxClock
Snapshot == [fault : BOOLEAN, seen : Time]
Status   == [state : {"idle", "printing", "disconnected", "error"}, of : Snapshot]

NoStatus == [state |-> "none"]
Goodbye  == [state |-> "goodbye"]   \* an MQTT DISCONNECT

\* What one connection brings: field: it reported a field of the device;
\* complaint: a media state that is not ready, or, without a field, a
\* material error or a cancelled print.
Reply == [field : BOOLEAN, complaint : BOOLEAN]

EmptySnapshot == [fault |-> FALSE, seen |-> 0]

\* The fault is what this connection complained of and nothing else.
Merge(s, r) ==
    [fault |-> r.complaint, seen |-> IF r.field THEN clock ELSE s.seen]

SettledInDetail(s) == IF s.fault THEN "no_media" ELSE "idle"

SettledState(s) == IF s.fault THEN "error" ELSE "idle"

Settled(s)      == [state |-> SettledState(s), of |-> s]
Disconnected(t) == [t EXCEPT !.state = "disconnected"]

TypeOK ==
    /\ clock \in Time
    /\ phase \in {"down", "starting", "running", "stopping"}
    /\ send \in {"none", "sending", "heard"}
    /\ conn \in {"off", "lost", "republish", "up"}
    /\ device \in Snapshot /\ saved \in Snapshot
    /\ last \in Status /\ held \in Status \cup {NoStatus} /\ latest \in Status
    /\ will \in Status \cup {NoStatus}
    /\ topic \in Status \cup {NoStatus} /\ session \in Status \cup {NoStatus}
    /\ outbox \in Seq(Status) /\ wire \in Seq(Status \cup {Goodbye})
    /\ {keeps, overtaken, muted} \subseteq BOOLEAN

Init ==
    /\ clock = 1 /\ phase = "down" /\ send = "none"
    /\ saved = EmptySnapshot /\ device = EmptySnapshot
    /\ last = Settled(EmptySnapshot) /\ latest = last
    /\ will = NoStatus /\ held = NoStatus
    /\ conn = "off" /\ keeps \in BOOLEAN /\ outbox = <<>> /\ wire = <<>>
    /\ topic = NoStatus /\ session = NoStatus
    /\ overtaken = FALSE /\ muted = FALSE

-----------------------------------------------------------------------------
(***************************************************************************)
(* publish_status, called by the print loop.                               *)
(***************************************************************************)
Connected == conn \in {"republish", "up"}

Publish(s) ==
    /\ Len(outbox) + Len(wire) < MaxQueue
    /\ last' = s /\ latest' = s
    /\ wire' = IF Connected THEN Append(wire, s) ELSE wire
    /\ outbox' = IF keeps /\ ~Connected THEN Append(outbox, s) ELSE outbox
    /\ UNCHANGED <<clock, device, will, held, conn, keeps, saved, broker>>

\* A status made of what the print loop knows.
Report(s) ==
    /\ Publish(s)
    /\ overtaken' = (conn = "republish")
    /\ UNCHANGED muted

Alive == phase \in {"starting", "running"}

\* _print_strip or _run_discrete begins a frame; jobs are printed in the run
\* loop and, by recover(), before it.
StartPrint ==
    /\ Alive /\ send \in {"none", "heard"}
    /\ send' = "sending"
    /\ Report([state |-> "printing", of |-> device])
    /\ UNCHANGED phase

CaptureUnsaved(r) ==
    /\ device' = Merge(device, r)
    /\ send' = "heard"
    /\ UNCHANGED <<clock, phase, client, saved, broker, latest, overtaken, muted>>

\* _capture_feedback: remembered and saved before anything is said of it.
Capture(r) ==
    /\ device' = Merge(device, r)
    /\ saved' = Merge(device, r)
    /\ send' = "heard"
    /\ UNCHANGED <<clock, phase, client, broker, latest, overtaken, muted>>

\* An attempt of _send that reached the printer, whether it printed or not;
\* one that did not print may be followed by another.
Hear ==
    /\ send \in {"sending", "heard"}
    /\ \E r \in Reply : Capture(r)

\* probe_device: at boot, on a probe command or because what is known has
\* gone stale.  A printer that is asleep changes nothing.
Probe ==
    /\ Alive /\ send = "none"
    /\ \E r \in Reply : Capture(r)

\* The print, or the probe, is over.
Settle ==
    /\ send = "heard"
    /\ send' = "none"
    /\ Report(Settled(device))
    /\ UNCHANGED phase

\* _stall: no attempt left, and the last one did not reach the printer.
Stall ==
    /\ send \in {"sending", "heard"}
    /\ send' = "none"
    /\ Report([state |-> "disconnected", of |-> device])
    /\ UNCHANGED phase

-----------------------------------------------------------------------------
(***************************************************************************)
(* The process and its connection.                                         *)
(***************************************************************************)

\* MqttSource.start, once the boot is over: the CONNECT is on its way.
Start ==
    /\ phase = "starting" /\ send = "none"
    /\ phase' = "running" /\ conn' = "lost"
    /\ will' = Disconnected(last)
    /\ UNCHANGED <<clock, send, device, last, held, keeps, outbox, wire, saved,
                   broker, latest, overtaken, muted>>

StopUntold ==
    /\ phase = "running" /\ send = "none"
    /\ phase' = "stopping"
    /\ UNCHANGED <<clock, send, device, client, saved, broker, latest, overtaken, muted>>

\* SIGTERM: MqttSource.stop publishes that the agent is leaving ...
Stop ==
    /\ phase = "running" /\ send = "none"
    /\ phase' = "stopping"
    /\ Publish(Disconnected(last))
    /\ muted' = (muted \/ conn = "republish")
    /\ UNCHANGED <<send, overtaken>>

\* What a process knew goes with it.
Gone ==
    /\ phase' = "down" /\ send' = "none" /\ device' = EmptySnapshot
    /\ last' = Settled(EmptySnapshot) /\ latest' = last'
    /\ will' = NoStatus /\ held' = NoStatus /\ outbox' = <<>>

\* ... waits for paho's thread, and disconnects.
Leave ==
    /\ phase = "stopping" /\ conn # "republish"
    /\ Gone
    /\ conn' = IF conn = "up" THEN "up" ELSE "off"
    /\ wire' = IF conn = "up" THEN Append(wire, Goodbye) ELSE <<>>
    /\ UNCHANGED <<clock, keeps, saved, broker, overtaken, muted>>

Crash ==
    /\ phase # "down"
    /\ Gone
    /\ conn' = "off" /\ wire' = <<>>
    /\ UNCHANGED <<clock, keeps, saved, broker, overtaken, muted>>

BootBlank ==
    /\ phase = "down" /\ conn = "off"
    /\ phase' = "starting"
    /\ device' = saved
    /\ last' = Settled(EmptySnapshot) /\ latest' = last'
    /\ overtaken' = FALSE
    /\ UNCHANGED <<clock, send, will, held, conn, keeps, outbox, wire, saved,
                   broker, muted>>

\* What a new process knows is what the spool remembers.
Boot ==
    /\ phase = "down" /\ conn = "off"
    /\ phase' = "starting"
    /\ device' = saved
    /\ last' = Settled(saved) /\ latest' = last'
    /\ overtaken' = FALSE
    /\ UNCHANGED <<clock, send, will, held, conn, keeps, outbox, wire, saved,
                   broker, muted>>

\* The connection breaks: what was on the wire is sent again, or lost.  A
\* callback that runs does not notice before it returns.
Break ==
    /\ conn = "up"
    /\ conn' = IF phase = "down" THEN "off" ELSE "lost"
    /\ wire' = <<>>
    /\ outbox' = IF keeps /\ phase # "down" THEN wire \o outbox ELSE <<>>
    /\ UNCHANGED <<clock, agent, last, will, held, keeps, saved, broker, latest, overtaken, muted>>

\* paho reconnects by itself; a session that is still open is taken over,
\* which fires its will.  on_connect reads what it will publish.
Reconnect ==
    /\ conn = "lost" /\ phase # "down" /\ Len(outbox) <= MaxQueue
    /\ conn' = "republish"
    /\ held' = last
    /\ topic' = IF session = NoStatus THEN topic ELSE session
    /\ session' = will
    /\ muted' = (muted /\ phase = "stopping")
    /\ UNCHANGED <<clock, agent, last, will, keeps, outbox, wire, saved, latest, overtaken>>

OnConnectSilent ==
    /\ conn = "republish"
    /\ conn' = "up"
    /\ will' = Disconnected(last) /\ held' = NoStatus
    /\ wire' = wire \o outbox /\ outbox' = <<>>
    /\ UNCHANGED <<clock, agent, last, keeps, saved, broker, latest, overtaken, muted>>

\* on_connect republishes and arms the will of the connection after this one;
\* then paho sends what it kept.
OnConnect ==
    /\ conn = "republish"
    /\ conn' = "up"
    /\ last' = held /\ held' = NoStatus
    /\ will' = Disconnected(held)
    /\ wire' = Append(wire, held) \o outbox /\ outbox' = <<>>
    /\ UNCHANGED <<clock, agent, keeps, saved, broker, latest, overtaken, muted>>

-----------------------------------------------------------------------------
(***************************************************************************)
(* The broker.                                                             *)
(***************************************************************************)
Deliver ==
    /\ Connected /\ wire # <<>> /\ Head(wire) # Goodbye
    /\ topic' = Head(wire) /\ wire' = Tail(wire)
    /\ UNCHANGED <<clock, agent, last, will, held, conn, keeps, outbox, saved,
                   session, latest, overtaken, muted>>

\* After a DISCONNECT the broker drops the will.
DeliverGoodbye ==
    /\ Connected /\ wire # <<>> /\ Head(wire) = Goodbye
    /\ session' = NoStatus
    /\ conn' = "off" /\ wire' = <<>>
    /\ UNCHANGED <<clock, agent, last, will, held, keeps, outbox, saved, topic,
                   latest, overtaken, muted>>

\* The keepalive runs out on a session nobody serves.
WillFires ==
    /\ ~Connected /\ session # NoStatus
    /\ topic' = session /\ session' = NoStatus
    /\ UNCHANGED <<clock, agent, client, saved, latest, overtaken, muted>>

Tick ==
    /\ clock < MaxClock
    /\ clock' = clock + 1
    /\ UNCHANGED <<agent, client, saved, broker, latest, overtaken, muted>>

PrintLoop == StartPrint \/ Hear \/ Probe \/ Settle \/ Stall
Process   == Start \/ Stop \/ Leave \/ Crash \/ Boot
Network   == Break \/ Reconnect \/ OnConnect \/ Deliver \/ DeliverGoodbye \/ WillFires

Next == PrintLoop \/ Process \/ Network \/ Tick

Spec == Init /\ [][Next]_vars

-----------------------------------------------------------------------------
(***************************************************************************)
(* Properties.                                                             *)
(***************************************************************************)
InQueue(q) == {q[n] : n \in 1..Len(q)}

Told == ({topic, session, last, will} \cup InQueue(wire \o outbox)) \ {NoStatus, Goodbye}

\* "Persisted immediately": whatever the agent has said, is about to say or
\* has left with the broker to say after it, the spool knows something as
\* recent, so that no crash makes a new process know less than the topic.
PublishedIsSaved == \A s \in Told : s.of.seen <= saved.seen

\* When the network is quiet the topic holds what the print loop published
\* last, and a reconnect would publish just that, unless that publish came
\* while on_connect held an older status.
TopicSettles ==
    conn = "up" /\ wire = <<>> /\ phase = "running" /\ ~overtaken =>
        topic = latest /\ last = latest

\* What the agent would republish is never older than what the topic says,
\* whichever process said it.
NeverGoesBack ==
    phase # "down" /\ topic # NoStatus /\ ~overtaken => last.of.seen >= topic.of.seen

\* Once the broker knows that an agent is gone, its topic says so: after a
\* stop, a crash or a broken connection, at whatever step it came.
DownIsTold ==
    phase = "down" /\ session = NoStatus /\ topic # NoStatus /\ ~muted =>
        topic.state = "disconnected"

\* "Which is what lets a reconnect restore the topic instead of flattening
\* it": when the network is quiet the topic holds what was published last.
ReconnectRestores ==
    conn = "up" /\ wire = <<>> /\ phase = "running" => topic = latest
=============================================================================
