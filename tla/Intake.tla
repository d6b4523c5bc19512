------------------------------- MODULE Intake -------------------------------
(***************************************************************************)
(* How jobs come in: MQTT deliveries (agent/source_mqtt.py), handled in    *)
(* paho's network thread, and files (agent/source_dir.py), polled by the   *)
(* print loop, both through Spool.try_insert, whose SELECT and INSERT are  *)
(* two statements.  The broker keeps a delivery until it is acknowledged   *)
(* and sends it again on every new connection; a crash of the agent may    *)
(* come between any two steps.  What happens to a job in the print loop is *)
(* PrintWorker's business: here it is answered some time.                  *)
(***************************************************************************)
EXTENDS Naturals

CONSTANTS
    Msg, File,    \* deliveries at the broker; names of files in the spool directory
    Job,          \* idempotency keys
    Id,           \* the job_id that comes with a key
    Content,      \* the job a delivery or a file holds, or Malformed
    Malformed,
    MaxCrashes,   \* bound: crashes or stops of the agent
    MaxCuts       \* bound: connections that break while a delivery is handled

ASSUME ContentAssumption ==
    /\ Content \in [Msg \cup File -> Job \cup {Malformed}]
    /\ Malformed \notin Job /\ DOMAIN Id = Job
ASSUME BoundAssumption == MaxCrashes \in Nat /\ MaxCuts \in Nat

VARIABLES
    kept,     \* broker: deliveries not acknowledged
    acked,    \* history: deliveries that were
    conn,     \* the agent is connected to the broker
    sent,     \* deliveries the broker has sent on this connection
    net,      \* the network thread: where _on_message is, and with which delivery
    files,    \* the spool directory: what has become of each file
    glob,     \* the files this poll() has still to look at
    dir,      \* the print loop: where poll() is, and with which file
    phase,    \* of the process: "down", "booting", "running"
    row,      \* the jobs table
    handed,   \* history: how often this process handed each job to its print loop
    crashes, cuts

broker    == <<kept, acked>>
network   == <<conn, sent, net, cuts>>
directory == <<files, glob, dir>>
vars      == <<broker, network, directory, phase, row, handed, crashes>>

Idle == [at |-> "idle"]

At(step, x) == [at |-> step, of |-> x]

TypeOK ==
    /\ kept \subseteq Msg /\ acked \subseteq Msg /\ sent \subseteq Msg /\ conn \in BOOLEAN
    /\ net \in {Idle} \cup
              [at : {"select", "insert", "ack", "enqueue", "reply", "refuse"}, of : Msg]
    /\ files \in [File -> {"absent", "partial", "whole", "done", "rejected"}]
    /\ glob \subseteq File
    /\ dir \in {Idle} \cup
              [at : {"select", "insert", "rename new", "rename", "enqueue"}, of : File]
    /\ phase \in {"down", "booting", "running"}
    /\ row \in [Job -> {"absent", "queued", "answered"}]
    /\ handed \in [Job -> Nat] /\ crashes \in 0..MaxCrashes /\ cuts \in 0..MaxCuts

Init ==
    /\ kept = {} /\ acked = {} /\ sent = {} /\ conn = FALSE /\ net = Idle
    /\ files = [f \in File |-> "absent"] /\ glob = {} /\ dir = Idle
    /\ phase = "down"
    /\ row = [j \in Job |-> "absent"] /\ handed = [j \in Job |-> 0]
    /\ crashes = 0 /\ cuts = 0

-----------------------------------------------------------------------------
(***************************************************************************)
(* Spool.try_insert, in whichever thread.                                  *)
(***************************************************************************)
Known(j) == row[j] # "absent"

InsertReplaces(j) == TRUE

\* Both columns are UNIQUE: the INSERT fails on a key or a job_id that came
\* in after, or another way than, the SELECT looked.
Inserts(j) == \A k \in Job : Known(k) => k # j /\ Id[k] # Id[j]

InsertNew(j) == row' = [row EXCEPT ![j] = "new"]

Insert(j) == row' = [row EXCEPT ![j] = "queued"]

Enqueue(j) == handed' = [handed EXCEPT ![j] = @ + 1]

-----------------------------------------------------------------------------
(***************************************************************************)
(* _on_message.                                                            *)
(***************************************************************************)
Publish(m) ==
    /\ m \notin kept \cup acked
    /\ kept' = kept \cup {m}
    /\ UNCHANGED <<acked, network, directory, phase, row, handed, crashes>>

Receive(m) ==
    /\ phase = "running" /\ conn /\ net = Idle
    /\ m \in kept \ sent
    /\ sent' = sent \cup {m}
    /\ net' = At(IF Content[m] = Malformed THEN "refuse" ELSE "select", m)
    /\ UNCHANGED <<broker, conn, cuts, directory, phase, row, handed, crashes>>

\* A handler leaves the broker and the rest of the agent alone, but for ...
Handle(step, next) ==
    /\ net.at = step
    /\ net' = IF next = "done" THEN Idle ELSE At(next, net.of)
    /\ UNCHANGED <<conn, sent, cuts, directory, phase, crashes>>

SelectJob ==
    /\ Handle("select", IF Known(Content[net.of]) THEN "reply" ELSE "insert")
    /\ UNCHANGED <<broker, row, handed>>

\* It reaches the broker when the connection still stands.
Acknowledge ==
    /\ kept' = IF conn THEN kept \ {net.of} ELSE kept
    /\ acked' = IF conn THEN acked \cup {net.of} ELSE acked

AckFirst ==
    /\ Handle("insert", "ack")
    /\ Acknowledge
    /\ UNCHANGED <<row, handed>>

InsertAfter ==
    LET j == Content[net.of]
    IN  /\ Handle("ack", IF Inserts(j) THEN "enqueue" ELSE "done")
        /\ IF Inserts(j) THEN Insert(j) ELSE UNCHANGED row
        /\ UNCHANGED <<broker, handed>>

\* A failed insert is not acknowledged: the broker sends it again.
InsertJob ==
    LET j == Content[net.of]
    IN  /\ Handle("insert", IF Inserts(j) THEN "ack" ELSE "done")
        /\ IF Inserts(j) THEN Insert(j) ELSE UNCHANGED row
        /\ UNCHANGED <<broker, handed>>

Ack(step, next) ==
    /\ Handle(step, next)
    /\ Acknowledge
    /\ UNCHANGED <<row, handed>>

EnqueueJob ==
    /\ Handle("enqueue", "done")
    /\ Enqueue(Content[net.of])
    /\ UNCHANGED <<broker, row>>

OnMessageAckFirst ==
    \/ SelectJob \/ AckFirst \/ InsertAfter \/ EnqueueJob
    \/ Ack("reply", "done") \/ Ack("refuse", "done")

OnMessageForgetful ==
    \/ SelectJob \/ InsertJob \/ Ack("ack", "enqueue") \/ EnqueueJob
    \/ Handle("reply", "done") /\ UNCHANGED <<broker, row, handed>>
    \/ Ack("refuse", "done")

\* A duplicate is answered and acknowledged, and so is what is no job.
OnMessage ==
    \/ SelectJob \/ InsertJob \/ Ack("ack", "enqueue") \/ EnqueueJob
    \/ Ack("reply", "done") \/ Ack("refuse", "done")

-----------------------------------------------------------------------------
(***************************************************************************)
(* DirSource.poll, and the hand that fills the directory.                  *)
(***************************************************************************)

\* cp creates the file before it has written all of it.
Copy(f) ==
    /\ files[f] = "absent"
    /\ files' = [files EXCEPT ![f] = "partial"]
    /\ UNCHANGED <<broker, network, glob, dir, phase, row, handed, crashes>>

\* ... and mv does not.
Complete(f) ==
    /\ files[f] \in {"absent", "partial"}
    /\ files' = [files EXCEPT ![f] = "whole"]
    /\ UNCHANGED <<broker, network, glob, dir, phase, row, handed, crashes>>

Polling == glob # {} \/ dir # Idle

\* The print loop polls at boot and whenever it is idle.
Poll ==
    /\ phase # "down" /\ ~Polling
    /\ glob' = {f \in File : files[f] \in {"partial", "whole"}}
    /\ glob' # {}
    /\ UNCHANGED <<broker, network, files, dir, phase, row, handed, crashes>>

\* What cannot be read as a job is moved out of the way.
ReadFile(f) ==
    LET bad == files[f] = "partial" \/ Content[f] = Malformed
    IN  /\ dir = Idle /\ f \in glob
        /\ glob' = glob \ {f}
        /\ files' = IF bad THEN [files EXCEPT ![f] = "rejected"] ELSE files
        /\ dir' = IF bad THEN Idle ELSE At("select", f)
        /\ UNCHANGED <<broker, network, phase, row, handed, crashes>>

Step(step, next) ==
    /\ dir.at = step
    /\ dir' = IF next = "done" THEN Idle ELSE At(next, dir.of)
    /\ UNCHANGED <<broker, network, glob, phase, crashes>>

SelectFile ==
    /\ Step("select", IF Known(Content[dir.of]) THEN "rename" ELSE "insert")
    /\ UNCHANGED <<files, row, handed>>

\* A failed insert leaves the file for the next poll.
InsertFile ==
    LET j == Content[dir.of]
    IN  /\ Step("insert", IF Inserts(j) THEN "rename new" ELSE "done")
        /\ IF Inserts(j) THEN Insert(j) ELSE UNCHANGED row
        /\ UNCHANGED <<files, handed>>

Rename(step, next) ==
    /\ Step(step, next)
    /\ files' = [files EXCEPT ![dir.of] = "done"]
    /\ UNCHANGED <<row, handed>>

EnqueueFile ==
    /\ Step("enqueue", "done")
    /\ Enqueue(Content[dir.of])
    /\ UNCHANGED <<files, row>>

PollStep ==
    \/ \E f \in File : ReadFile(f)
    \/ SelectFile \/ InsertFile \/ EnqueueFile
    \/ Rename("rename new", "enqueue") \/ Rename("rename", "done")

-----------------------------------------------------------------------------
(***************************************************************************)
(* The process, the connection, and the print loop.                        *)
(***************************************************************************)

\* recover() hands over what is queued.
Boot ==
    /\ phase = "down"
    /\ phase' = "booting"
    /\ handed' = [j \in Job |-> IF row[j] = "queued" THEN 1 ELSE 0]
    /\ UNCHANGED <<broker, network, directory, row, crashes>>

\* MqttSource.start, after the first poll.
Start ==
    /\ phase = "booting" /\ ~Polling
    /\ phase' = "running"
    /\ UNCHANGED <<broker, network, directory, row, handed, crashes>>

Crash ==
    /\ phase # "down" /\ crashes < MaxCrashes
    /\ phase' = "down" /\ crashes' = crashes + 1
    /\ conn' = FALSE /\ net' = Idle /\ glob' = {} /\ dir' = Idle
    /\ UNCHANGED <<broker, sent, cuts, files, row, handed>>

\* The session is durable: the broker sends all it keeps once more.
Connect ==
    /\ phase = "running" /\ ~conn /\ net = Idle
    /\ conn' = TRUE /\ sent' = {}
    /\ UNCHANGED <<broker, net, cuts, directory, phase, row, handed, crashes>>

\* Connections do not last for ever ...
Disconnect ==
    /\ conn /\ net = Idle
    /\ conn' = FALSE
    /\ UNCHANGED <<broker, sent, net, cuts, directory, phase, row, handed, crashes>>

\* ... and may end when it hurts.
Cut ==
    /\ conn /\ net # Idle /\ cuts < MaxCuts
    /\ conn' = FALSE /\ cuts' = cuts + 1
    /\ UNCHANGED <<broker, sent, net, directory, phase, row, handed, crashes>>

\* The print loop has printed a job, or found that it cannot.
Answer(j) ==
    /\ phase # "down" /\ ~Polling
    /\ row[j] = "queued" /\ handed[j] # 0
    /\ row' = [row EXCEPT ![j] = "answered"]
    /\ UNCHANGED <<broker, network, directory, phase, handed, crashes>>

Next ==
    \/ \E m \in Msg : Publish(m) \/ Receive(m)
    \/ \E f \in File : Copy(f) \/ Complete(f)
    \/ \E j \in Job : Answer(j)
    \/ OnMessage \/ Poll \/ PollStep
    \/ Boot \/ Start \/ Crash \/ Connect \/ Disconnect \/ Cut

Spec == Init /\ [][Next]_vars

\* The agent's threads run and systemd restarts it; the route to the broker
\* caps a connection's life, yet connections last long enough for the broker
\* to send what it keeps.
FairSpec ==
    /\ Spec
    /\ WF_vars(OnMessage) /\ WF_vars(PollStep)
    /\ WF_vars(Boot) /\ WF_vars(Start) /\ WF_vars(Connect) /\ SF_vars(Disconnect)
    /\ \A m \in Msg : SF_vars(Receive(m))

-----------------------------------------------------------------------------
(***************************************************************************)
(* Properties.                                                             *)
(***************************************************************************)

\* No job is lost on the way in: a delivery the broker has dropped and a file
\* that was moved to done/ are in the spool, whenever the agent crashed.
TakenIsSpooled ==
    /\ \A m \in acked : Content[m] # Malformed => Known(Content[m])
    /\ \A f \in File : files[f] = "done" => Known(Content[f])

\* However often and however many ways a job comes, one process hands it to
\* its print loop once, although the two threads look before they insert.
HandedOnce == \A j \in Job : handed[j] <= 1

\* No delivery is sent for ever: it is acknowledged in the end, a duplicate
\* and one that lost the race to insert included.
EveryDeliveryAcked == \A m \in Msg : m \in kept ~> m \notin kept
=============================================================================
