----------------------------- MODULE StatusProofs -----------------------------
(***************************************************************************)
(* DeviceStatus for every number of clock steps and every queue length:    *)
(* its types, that the spool knows what the topic says, that a reconnect   *)
(* never goes back, and what the topic says in the end.  What travels      *)
(* between the agent and the broker is looked at as the set of snapshots   *)
(* it is made of: a step adds none but what the spool holds.               *)
(***************************************************************************)
EXTENDS DeviceStatus, TLAPS

-----------------------------------------------------------------------------
(***************************************************************************)
(* Queues and statuses.                                                    *)
(***************************************************************************)
LEMMA AppendQueue ==
    ASSUME NEW S, NEW q \in Seq(S), NEW x \in S
    PROVE  Append(q, x) \in Seq(S) /\ InQueue(Append(q, x)) = InQueue(q) \cup {x}
BY DEF InQueue

LEMMA JoinQueue ==
    ASSUME NEW S, NEW q \in Seq(S), NEW r \in Seq(S)
    PROVE  q \o r \in Seq(S) /\ InQueue(q \o r) = InQueue(q) \cup InQueue(r)
<1>1. q \o r \in Seq(S)
  OBVIOUS
<1>2. ASSUME NEW x \in InQueue(q \o r) PROVE x \in InQueue(q) \cup InQueue(r)
  BY <1>2 DEF InQueue
<1>3. ASSUME NEW x \in InQueue(q) PROVE x \in InQueue(q \o r)
  BY <1>3 DEF InQueue
<1>4. ASSUME NEW x \in InQueue(r) PROVE x \in InQueue(q \o r)
  <2>1. PICK n \in 1..Len(r) : x = r[n]
    BY <1>4 DEF InQueue
  <2>2. Len(q) + n \in 1..Len(q \o r) /\ (q \o r)[Len(q) + n] = x
    BY <2>1
  <2>3. QED
    BY <2>2 DEF InQueue
<1>5. QED
  BY <1>1, <1>2, <1>3, <1>4

LEMMA TailQueue ==
    ASSUME NEW S, NEW q \in Seq(S), q # <<>>
    PROVE  /\ Head(q) \in S /\ Tail(q) \in Seq(S)
           /\ InQueue(Tail(q)) \subseteq InQueue(q) /\ Head(q) \in InQueue(q)
<1>1. Head(q) \in S /\ Tail(q) \in Seq(S)
  OBVIOUS
<1>2. Head(q) \in InQueue(q)
  BY DEF InQueue
<1>3. ASSUME NEW x \in InQueue(Tail(q)) PROVE x \in InQueue(q)
  BY <1>3 DEF InQueue
<1>4. QED
  BY <1>1, <1>2, <1>3

LEMMA NoQueue ==
    ASSUME NEW S
    PROVE  <<>> \in Seq(S) /\ InQueue(<<>>) = {}
BY DEF InQueue

LEMMA WiderQueue ==
    ASSUME NEW S, NEW T, S \subseteq T, NEW q \in Seq(S)
    PROVE  q \in Seq(T)
OBVIOUS

LEMMA StatusParts ==
    /\ NoStatus \notin Status /\ Goodbye \notin Status /\ NoStatus # Goodbye
    /\ \A s \in Status : Disconnected(s) \in Status /\ Disconnected(s).of = s.of
    /\ \A s \in Snapshot : Settled(s) \in Status /\ Settled(s).of = s
    /\ EmptySnapshot \in Snapshot /\ EmptySnapshot.seen = 0
<1>1. NoStatus \notin Status /\ Goodbye \notin Status /\ NoStatus # Goodbye
  BY DEF NoStatus, Goodbye, Status
<1>2. \A s \in Status : Disconnected(s) \in Status /\ Disconnected(s).of = s.of
  BY DEF Disconnected, Status
<1>3. \A s \in Snapshot : Settled(s) \in Status /\ Settled(s).of = s
  BY DEF Settled, Status, SettledState
<1>4. EmptySnapshot \in Snapshot /\ EmptySnapshot.seen = 0
  BY ConstantAssumption DEF EmptySnapshot, Snapshot, Time
<1>5. QED
  BY <1>1, <1>2, <1>3, <1>4

LEMMA MergeParts ==
    ASSUME NEW s \in Snapshot, NEW r \in Reply, clock \in Time, s.seen <= clock
    PROVE  /\ Merge(s, r) \in Snapshot /\ Merge(s, r).seen <= clock
           /\ Merge(s, r).seen >= s.seen
BY ConstantAssumption DEF Merge, Snapshot, Reply, Time

-----------------------------------------------------------------------------
(***************************************************************************)
(* Types.                                                                  *)
(***************************************************************************)

\* A DISCONNECT is the last thing on the wire, which the next process finds
\* empty: what paho keeps of the wire are statuses.
WireInv ==
    /\ TypeOK
    /\ phase # "down" => wire \in Seq(Status)
    /\ conn = "off" => wire = <<>>
    /\ phase = "starting" => conn = "off"
    /\ phase = "down" => conn \in {"off", "up"}
    /\ conn = "republish" <=> held # NoStatus
    /\ send # "none" => Alive

LEMMA InitWire == Init => WireInv
<1> SUFFICES ASSUME Init PROVE WireInv
  OBVIOUS
<1>1. clock \in Time
  BY ConstantAssumption DEF Init, Time
<1>2. device \in Snapshot /\ saved \in Snapshot /\ last \in Status /\ latest \in Status
  BY StatusParts DEF Init
<1>3. outbox \in Seq(Status) /\ wire \in Seq(Status) /\ wire \in Seq(Status \cup {Goodbye})
  BY NoQueue DEF Init
<1> QED
  BY <1>1, <1>2, <1>3 DEF Init, WireInv, TypeOK

\* What the print loop publishes.
LEMMA ReportTyped ==
    ASSUME WireInv, NEW s \in Status, Publish(s), Alive,
           phase' = phase, send' \in {"none", "sending"},
           overtaken' \in BOOLEAN, muted' \in BOOLEAN
    PROVE  WireInv'
<1>1. wire' \in Seq(Status) /\ outbox' \in Seq(Status)
  BY AppendQueue DEF WireInv, TypeOK, Publish, Alive
<1>2. wire' \in Seq(Status \cup {Goodbye})
  BY <1>1, WiderQueue
<1>3. conn' = "off" => wire' = <<>>
  BY DEF WireInv, Publish, Connected
<1>4. QED
  BY <1>1, <1>2, <1>3 DEF WireInv, TypeOK, Publish, broker, Alive

LEMMA PrintLoopTyped == ASSUME WireInv, PrintLoop PROVE WireInv'
<1>1. CASE StartPrint
  <2>1. [state |-> "printing", of |-> device] \in Status
    BY DEF WireInv, TypeOK, Status
  <2>2. overtaken' \in BOOLEAN /\ muted' \in BOOLEAN
    BY <1>1 DEF WireInv, TypeOK, StartPrint, Report
  <2>3. QED
    BY <1>1, <2>1, <2>2, ReportTyped DEF StartPrint, Report, Alive
<1>2. ASSUME Alive, NEW r \in Reply, Capture(r) PROVE WireInv'
  <2>1. Merge(device, r) \in Snapshot
    BY ConstantAssumption DEF WireInv, TypeOK, Merge, Snapshot, Reply, Time
  <2>2. QED
    BY <1>2, <2>1 DEF WireInv, TypeOK, Capture, client, broker, Alive
<1>3. CASE Hear
  BY <1>2, <1>3 DEF Hear, WireInv
<1>4. CASE Probe
  BY <1>2, <1>4 DEF Probe
<1>5. CASE Settle
  <2>1. Settled(device) \in Status /\ Alive
    BY <1>5, StatusParts DEF WireInv, TypeOK, Settle
  <2>2. overtaken' \in BOOLEAN /\ muted' \in BOOLEAN
    BY <1>5 DEF WireInv, TypeOK, Settle, Report
  <2>3. QED
    BY <1>5, <2>1, <2>2, ReportTyped DEF Settle, Report, Alive
<1>6. CASE Stall
  <2>1. [state |-> "disconnected", of |-> device] \in Status
    BY DEF WireInv, TypeOK, Status
  <2>2. overtaken' \in BOOLEAN /\ muted' \in BOOLEAN /\ Alive
    BY <1>6 DEF WireInv, TypeOK, Stall, Report
  <2>3. QED
    BY <1>6, <2>1, <2>2, ReportTyped DEF Stall, Report, Alive
<1>7. QED
  BY <1>1, <1>3, <1>4, <1>5, <1>6 DEF PrintLoop

LEMMA ProcessTyped == ASSUME WireInv, Process PROVE WireInv'
<1>1. CASE Start
  <2>1. Disconnected(last) \in Status
    BY StatusParts DEF WireInv, TypeOK
  <2>2. QED
    BY <1>1, <2>1 DEF WireInv, TypeOK, Start, broker, Alive
<1>2. CASE Stop
  <2>1. Disconnected(last) \in Status
    BY StatusParts DEF WireInv, TypeOK
  <2>2. overtaken' \in BOOLEAN /\ muted' \in BOOLEAN
    BY <1>2 DEF WireInv, TypeOK, Stop
  <2>3. Publish(Disconnected(last)) /\ Alive /\ phase' = "stopping" /\ send' = "none"
    BY <1>2 DEF Stop, Alive
  <2>4. wire' \in Seq(Status) /\ outbox' \in Seq(Status)
    BY <2>1, <2>3, AppendQueue DEF WireInv, TypeOK, Publish, Alive
  <2>5. wire' \in Seq(Status \cup {Goodbye})
    BY <2>4, WiderQueue
  <2>6. conn' = "off" => wire' = <<>>
    BY <2>3 DEF WireInv, Publish, Connected
  <2>7. QED
    BY <2>1, <2>2, <2>3, <2>4, <2>5, <2>6 DEF WireInv, TypeOK, Publish, broker, Alive
<1>3. ASSUME Gone
      PROVE  /\ phase' = "down" /\ send' = "none" /\ device' \in Snapshot /\ last' \in Status
             /\ latest' \in Status /\ will' = NoStatus /\ held' = NoStatus /\ outbox' \in Seq(Status)
  BY <1>3, StatusParts, NoQueue DEF Gone
<1>4. CASE Leave
  <2>1. wire' \in Seq(Status \cup {Goodbye})
    <3>1. CASE conn = "up"
      BY <1>4, <3>1, AppendQueue DEF Leave, WireInv, TypeOK
    <3>2. CASE conn # "up"
      BY <1>4, <3>2, NoQueue DEF Leave
    <3>3. QED
      BY <3>1, <3>2
  <2>2. /\ conn' = "off" => wire' = <<>>
        /\ conn' \in {"off", "up"}
    BY <1>4 DEF Leave
  <2>3. QED
    BY <1>4, <1>3, <2>1, <2>2 DEF WireInv, TypeOK, Leave, broker, Alive
<1>5. CASE Crash
  <2>1. wire' \in Seq(Status \cup {Goodbye})
    BY <1>5, NoQueue DEF Crash
  <2>2. QED
    BY <1>5, <1>3, <2>1 DEF WireInv, TypeOK, Crash, broker, Alive
<1>6. CASE Boot
  <2>1. Settled(saved) \in Status
    BY StatusParts DEF WireInv, TypeOK
  <2>2. wire' \in Seq(Status)
    BY <1>6, NoQueue DEF WireInv, Boot
  <2>3. QED
    BY <1>6, <2>1, <2>2 DEF WireInv, TypeOK, Boot, broker, Alive
<1>7. QED
  BY <1>1, <1>2, <1>4, <1>5, <1>6 DEF Process

LEMMA NetworkTyped == ASSUME WireInv, Network PROVE WireInv'
<1>1. CASE Break
  <2>1. outbox' \in Seq(Status) /\ wire' \in Seq(Status) /\ wire' \in Seq(Status \cup {Goodbye})
    <3>1. CASE keeps /\ phase # "down"
      BY <1>1, <3>1, JoinQueue, NoQueue DEF Break, WireInv, TypeOK
    <3>2. CASE ~(keeps /\ phase # "down")
      BY <1>1, <3>2, NoQueue DEF Break
    <3>3. QED
      BY <3>1, <3>2
  <2>2. conn' = IF phase = "down" THEN "off" ELSE "lost"
    BY <1>1 DEF Break
  <2>3. QED
    BY <1>1, <2>1, <2>2 DEF WireInv, TypeOK, Break, broker, agent, Alive
<1>2. CASE Reconnect
  BY <1>2, StatusParts DEF WireInv, TypeOK, Reconnect, agent, Alive
<1>3. CASE OnConnect
  <2>1. held \in Status /\ Disconnected(held) \in Status
    BY <1>3, StatusParts DEF WireInv, TypeOK, OnConnect
  <2>2. Append(wire, held) \in Seq(Status \cup {Goodbye})
    BY <2>1, AppendQueue DEF WireInv, TypeOK
  <2>3. outbox \in Seq(Status \cup {Goodbye})
    BY WiderQueue DEF WireInv, TypeOK
  <2>4. wire' \in Seq(Status \cup {Goodbye}) /\ outbox' \in Seq(Status)
    BY <1>3, <2>2, <2>3, JoinQueue, NoQueue DEF OnConnect
  <2>5. phase' # "down" => wire' \in Seq(Status)
    BY <1>3, <2>1, AppendQueue, JoinQueue DEF WireInv, TypeOK, OnConnect, agent
  <2>6. QED
    BY <1>3, <2>1, <2>4, <2>5 DEF WireInv, TypeOK, OnConnect, broker, agent, Alive
<1>4. CASE Deliver
  <2>1. Head(wire) \in Status
    BY <1>4, TailQueue DEF Deliver, WireInv, TypeOK
  <2>2. /\ wire' \in Seq(Status \cup {Goodbye})
        /\ phase' # "down" => wire' \in Seq(Status)
    BY <1>4, TailQueue DEF Deliver, WireInv, TypeOK, agent
  <2>3. QED
    BY <1>4, <2>1, <2>2 DEF WireInv, TypeOK, Deliver, agent, Alive, Connected
<1>5. CASE DeliverGoodbye
  <2>1. wire' \in Seq(Status) /\ wire' \in Seq(Status \cup {Goodbye})
    BY <1>5, NoQueue DEF DeliverGoodbye
  <2>2. phase = "down"
    BY <1>5, TailQueue, StatusParts DEF DeliverGoodbye, WireInv, TypeOK
  <2>3. QED
    BY <1>5, <2>1, <2>2 DEF WireInv, TypeOK, DeliverGoodbye, agent, Alive
<1>6. CASE WillFires
  BY <1>6 DEF WireInv, TypeOK, WillFires, agent, client, Alive
<1>7. QED
  BY <1>1, <1>2, <1>3, <1>4, <1>5, <1>6 DEF Network

LEMMA WireStep == WireInv /\ [Next]_vars => WireInv'
<1> SUFFICES ASSUME WireInv, [Next]_vars PROVE WireInv'
  OBVIOUS
<1>1. CASE Tick
  <2>1. clock' \in Time
    BY <1>1, ConstantAssumption DEF Tick, WireInv, TypeOK, Time
  <2>2. QED
    BY <1>1, <2>1 DEF WireInv, TypeOK, Tick, agent, client, broker, Alive
<1>2. CASE UNCHANGED vars
  BY <1>2 DEF WireInv, TypeOK, vars, agent, client, broker, Alive
<1>3. QED
  BY <1>1, <1>2, PrintLoopTyped, ProcessTyped, NetworkTyped DEF Next

\* What the agent, the broker and the spool hold of the printer's status are
\* statuses, at every step of either thread and of a crash.
THEOREM StatusTyped == Spec => []TypeOK
<1>1. WireInv => TypeOK
  BY DEF WireInv
<1>2. QED
  BY <1>1, InitWire, WireStep, PTL DEF Spec

-----------------------------------------------------------------------------
(***************************************************************************)
(* What travels.                                                           *)
(***************************************************************************)

\* The snapshots that the topic, the will or the agent's client holds.
Around  == {topic, session, last, will, held} \cup InQueue(wire) \cup InQueue(outbox)
Carried == {s.of : s \in Around \ {NoStatus, Goodbye}}

\* The print loop knows what the spool knows.
SavedInv ==
    /\ WireInv
    /\ Alive => device = saved
    /\ saved.seen <= clock
    /\ \A o \in Carried : o.seen <= saved.seen

\* What the agent would republish is as recent as anything that is said, or
\* will be, and on_connect holds nothing else.
RecentInv ==
    phase # "down" /\ ~overtaken =>
        /\ \A o \in Carried : o.seen <= last.of.seen
        /\ held # NoStatus => held.of = last.of

LEMMA ToldIsAround ==
    ASSUME WireInv
    PROVE  Told \subseteq Around \ {NoStatus, Goodbye}
<1>1. wire \in Seq(Status \cup {Goodbye}) /\ outbox \in Seq(Status \cup {Goodbye})
  BY WiderQueue DEF WireInv, TypeOK
<1>2. InQueue(wire \o outbox) = InQueue(wire) \cup InQueue(outbox)
  BY <1>1, JoinQueue
<1>3. QED
  BY <1>2 DEF Told, Around

\* What the print loop says: its own snapshot, which the spool has.
LEMMA PublishCarries ==
    ASSUME WireInv, NEW s \in Status, Publish(s), s.of \in Snapshot,
           phase # "down"
    PROVE  /\ Carried' \subseteq Carried \cup {s.of} /\ last'.of = s.of /\ held' = held
           /\ UNCHANGED <<clock, device, saved>>
<1>1. InQueue(wire') \subseteq InQueue(wire) \cup {s}
  BY AppendQueue DEF WireInv, TypeOK, Publish
<1>2. InQueue(outbox') \subseteq InQueue(outbox) \cup {s}
  BY AppendQueue DEF WireInv, TypeOK, Publish
<1>3. /\ last' = s /\ UNCHANGED <<clock, device, saved>>
      /\ UNCHANGED <<topic, session, will, held>>
  BY DEF Publish, broker
<1>4. Around' \subseteq Around \cup {s}
  BY <1>1, <1>2, <1>3 DEF Around
<1>5. QED
  BY <1>3, <1>4 DEF Carried

LEMMA CarriedTyped ==
    ASSUME WireInv
    PROVE  /\ Carried \subseteq Snapshot /\ last.of \in Carried /\ last.of \in Snapshot
           /\ device \in Snapshot /\ saved \in Snapshot /\ clock \in Int
           /\ \A o \in Snapshot : o.seen \in Int /\ o.seen >= 0
<1>1. ASSUME NEW s \in Around \ {NoStatus, Goodbye} PROVE s \in Status
  BY <1>1 DEF WireInv, TypeOK, Around, InQueue
<1>2. \A s \in Status : s.of \in Snapshot
  BY DEF Status
<1>3. last \in Around \ {NoStatus, Goodbye}
  BY StatusParts DEF Around, WireInv, TypeOK
<1>4. \A o \in Snapshot : o.seen \in Int /\ o.seen >= 0
  BY ConstantAssumption DEF Snapshot, Time
<1>5. device \in Snapshot /\ saved \in Snapshot /\ clock \in Int
  BY ConstantAssumption DEF WireInv, TypeOK, Time
<1>6. QED
  BY <1>1, <1>2, <1>3, <1>4, <1>5 DEF Carried

\* A step that makes no new status.
LEMMA CarryOn ==
    ASSUME SavedInv, RecentInv, WireInv', Carried' \subseteq Carried,
           UNCHANGED <<device, saved, overtaken>>, clock' >= clock, clock' \in Int,
           phase' = "starting" \/ phase' = "running" => phase = "starting" \/ phase = "running",
           phase' # "down" => phase # "down",
           phase' # "down" /\ ~overtaken =>
               last'.of = last.of /\ (held' # NoStatus => held'.of = last.of)
    PROVE  SavedInv' /\ RecentInv'
<1>1. SavedInv'
  BY CarriedTyped DEF SavedInv, Alive
<1>2. RecentInv'
  BY DEF RecentInv
<1>3. QED
  BY <1>1, <1>2

\* A step that makes one of what the spool knows.
LEMMA CarryNews ==
    ASSUME SavedInv, RecentInv, WireInv', Carried' \subseteq Carried \cup {saved},
           UNCHANGED <<saved, clock>>, device' = saved, last'.of = saved,
           overtaken' \/ held' = NoStatus
    PROVE  SavedInv' /\ RecentInv'
<1>1. \A o \in Carried' : o.seen <= saved.seen
  BY CarriedTyped DEF SavedInv
<1>2. SavedInv'
  BY <1>1 DEF SavedInv
<1>3. RecentInv'
  BY <1>1 DEF RecentInv
<1>4. QED
  BY <1>2, <1>3

LEMMA ReportSaved ==
    ASSUME SavedInv, RecentInv, WireInv', NEW s \in Status, Report(s), s.of = device, Alive
    PROVE  SavedInv' /\ RecentInv'
<1>1. /\ Publish(s) /\ phase # "down" /\ s.of = saved /\ s.of \in Snapshot
      /\ overtaken' = (conn = "republish")
  BY CarriedTyped DEF Report, Alive, SavedInv
<1>2. overtaken' \/ held' = NoStatus
  BY <1>1, PublishCarries DEF SavedInv, WireInv
<1>3. /\ Carried' \subseteq Carried \cup {saved} /\ last'.of = saved
      /\ UNCHANGED <<clock, device, saved>>
  BY <1>1, PublishCarries DEF SavedInv
<1>4. QED
  BY <1>1, <1>2, <1>3, CarryNews DEF SavedInv

LEMMA CaptureSaved ==
    ASSUME SavedInv, RecentInv, WireInv', NEW r \in Reply, Capture(r), Alive
    PROVE  SavedInv' /\ RecentInv'
<1>1. device = saved
  BY DEF SavedInv
<1>2. UNCHANGED <<clock, phase, topic, session, last, will, held, wire, outbox, overtaken>>
  BY DEF Capture, client, broker
<1>3. Carried' = Carried
  BY <1>2 DEF Carried, Around
<1>4. /\ saved' \in Snapshot /\ saved'.seen <= clock /\ saved'.seen >= saved.seen
      /\ device' = saved'
  BY <1>1, MergeParts DEF Capture, SavedInv, WireInv, TypeOK
<1>5. SavedInv'
  BY <1>2, <1>3, <1>4, CarriedTyped DEF SavedInv
<1>6. RecentInv'
  BY <1>2, <1>3 DEF RecentInv
<1>7. QED
  BY <1>5, <1>6

LEMMA PrintLoopSaved ==
    ASSUME SavedInv, RecentInv, WireInv', PrintLoop
    PROVE  SavedInv' /\ RecentInv'
<1>1. CASE StartPrint
  <2>1. [state |-> "printing", of |-> device] \in Status
    BY CarriedTyped DEF SavedInv, Status
  <2>2. QED
    BY <1>1, <2>1, ReportSaved DEF StartPrint
<1>2. CASE Hear
  BY <1>2, CaptureSaved DEF Hear, SavedInv, WireInv
<1>3. CASE Probe
  BY <1>3, CaptureSaved DEF Probe
<1>4. CASE Settle
  <2>1. Settled(device) \in Status /\ Settled(device).of = device
    BY CarriedTyped, StatusParts DEF SavedInv
  <2>2. QED
    BY <1>4, <2>1, ReportSaved DEF Settle, SavedInv, WireInv
<1>5. CASE Stall
  <2>1. [state |-> "disconnected", of |-> device] \in Status
    BY CarriedTyped DEF SavedInv, Status
  <2>2. QED
    BY <1>5, <2>1, ReportSaved DEF Stall, SavedInv, WireInv
<1>6. QED
  BY <1>1, <1>2, <1>3, <1>4, <1>5 DEF PrintLoop

LEMMA ProcessSaved ==
    ASSUME SavedInv, RecentInv, WireInv', Process
    PROVE  SavedInv' /\ RecentInv'
<1>1. last \in Status /\ clock \in Int /\ last.of \in Carried /\ last.of \in Snapshot
  BY CarriedTyped DEF SavedInv, WireInv, TypeOK
<1>2. CASE Start
  <2>1. /\ UNCHANGED <<clock, device, saved, overtaken, last, held, wire, outbox, topic, session>>
        /\ will' = Disconnected(last) /\ phase = "starting"
    BY <1>2 DEF Start, broker
  <2>2. Carried' \subseteq Carried
    BY <1>1, <2>1, StatusParts DEF Carried, Around
  <2>3. ~overtaken => (held' # NoStatus => held'.of = last.of)
    BY <2>1 DEF RecentInv
  <2>4. phase' = "running"
    BY <1>2 DEF Start
  <2>5. QED
    BY <1>1, <2>1, <2>2, <2>3, <2>4, CarryOn
<1>3. CASE Stop
  <2>1. /\ Disconnected(last) \in Status /\ Disconnected(last).of = last.of
        /\ Publish(Disconnected(last)) /\ phase = "running" /\ overtaken' = overtaken
    BY <1>1, <1>3, StatusParts DEF Stop
  <2>2. /\ Carried' \subseteq Carried /\ last'.of = last.of /\ held' = held
        /\ UNCHANGED <<clock, device, saved>>
    BY <1>1, <2>1, PublishCarries DEF SavedInv
  <2>3. ~overtaken => (held' # NoStatus => held'.of = last.of)
    BY <2>1, <2>2 DEF RecentInv
  <2>4. QED
    BY <1>1, <2>1, <2>2, <2>3, CarryOn
<1>4. ASSUME Gone, UNCHANGED <<clock, saved, topic, session>>,
             wire' = <<>> \/ wire' = Append(wire, Goodbye)
      PROVE  SavedInv' /\ RecentInv'
  <2>1. InQueue(wire') \subseteq InQueue(wire) \cup {Goodbye} /\ InQueue(outbox') = {}
    <3>1. wire \in Seq(Status \cup {Goodbye}) /\ Goodbye \in Status \cup {Goodbye}
      BY DEF SavedInv, WireInv, TypeOK
    <3>2. InQueue(Append(wire, Goodbye)) = InQueue(wire) \cup {Goodbye}
      BY <3>1, AppendQueue
    <3>3. QED
      BY <1>4, <3>2, NoQueue DEF Gone
  <2>2. /\ phase' = "down" /\ will' = NoStatus /\ held' = NoStatus
        /\ last'.of = EmptySnapshot
    BY <1>4, StatusParts DEF Gone
  <2>3. Carried' \subseteq Carried \cup {EmptySnapshot}
    BY <1>4, <2>1, <2>2 DEF Carried, Around
  <2>4. \A o \in Carried' : o.seen <= saved.seen
    BY <2>3, StatusParts, CarriedTyped DEF SavedInv
  <2>5. QED
    BY <1>4, <2>2, <2>4 DEF SavedInv, RecentInv, Alive
<1>5. CASE Leave
  <2>1. Gone /\ UNCHANGED <<clock, saved, topic, session>>
    BY <1>5 DEF Leave, broker
  <2>2. wire' = <<>> \/ wire' = Append(wire, Goodbye)
    BY <1>5 DEF Leave
  <2>3. QED
    BY <1>4, <2>1, <2>2
<1>6. CASE Crash
  <2>1. Gone /\ UNCHANGED <<clock, saved, topic, session>> /\ wire' = <<>>
    BY <1>6 DEF Crash, broker
  <2>2. QED
    BY <1>4, <2>1
<1>7. CASE Boot
  <2>1. /\ UNCHANGED <<clock, saved, topic, session, held, will, wire, outbox>>
        /\ device' = saved /\ last' = Settled(saved) /\ conn = "off"
    BY <1>7 DEF Boot, broker
  <2>2. last'.of = saved /\ held' = NoStatus
    BY <2>1, StatusParts, CarriedTyped DEF SavedInv, WireInv
  <2>3. Carried' \subseteq Carried \cup {saved}
    BY <2>1, <2>2 DEF Carried, Around
  <2>4. QED
    BY <2>1, <2>2, <2>3, CarryNews
<1>8. QED
  BY <1>2, <1>3, <1>5, <1>6, <1>7 DEF Process

LEMMA NetworkSaved ==
    ASSUME SavedInv, RecentInv, WireInv', Network
    PROVE  SavedInv' /\ RecentInv'
<1>1. /\ wire \in Seq(Status \cup {Goodbye}) /\ outbox \in Seq(Status \cup {Goodbye})
      /\ last \in Status /\ last.of \in Carried /\ clock \in Int
  BY CarriedTyped, WiderQueue DEF SavedInv, WireInv, TypeOK
<1>2. UNCHANGED <<clock, phase, device, saved, overtaken>>
  BY DEF Network, Break, Reconnect, OnConnect, Deliver, DeliverGoodbye, WillFires, agent, client
<1>4. ASSUME Carried' \subseteq Carried,
             phase # "down" /\ ~overtaken =>
                 last'.of = last.of /\ (held' # NoStatus => held'.of = last.of)
      PROVE  SavedInv' /\ RecentInv'
  BY <1>1, <1>2, <1>4, CarryOn
<1>5. CASE Break
  <2>1. UNCHANGED <<last, will, held, topic, session>>
    BY <1>5 DEF Break, broker
  <2>2. InQueue(wire') = {} /\ InQueue(outbox') \subseteq InQueue(wire) \cup InQueue(outbox)
    BY <1>1, <1>5, JoinQueue, NoQueue DEF Break
  <2>3. QED
    <3>1. Carried' \subseteq Carried
      BY <2>1, <2>2 DEF Carried, Around
    <3>2. QED
      BY <1>4, <2>1, <3>1 DEF RecentInv
<1>6. CASE Reconnect
  <2>1. UNCHANGED <<last, will, wire, outbox>> /\ held' = last /\ session' = will
    BY <1>6 DEF Reconnect
  <2>2. topic' \in {topic, session}
    BY <1>6 DEF Reconnect
  <2>3. QED
    BY <1>4, <2>1, <2>2 DEF Carried, Around
<1>7. CASE OnConnect
  <2>1. held \in Status /\ Disconnected(held).of = held.of
    BY <1>7, StatusParts DEF OnConnect, SavedInv, WireInv, TypeOK
  <2>2. UNCHANGED <<topic, session>> /\ last' = held /\ held' = NoStatus /\ will' = Disconnected(held)
    BY <1>7 DEF OnConnect, broker
  <2>3. InQueue(wire') = InQueue(wire) \cup {held} \cup InQueue(outbox) /\ InQueue(outbox') = {}
    <3>1. /\ Append(wire, held) \in Seq(Status \cup {Goodbye})
          /\ InQueue(Append(wire, held)) = InQueue(wire) \cup {held}
      BY <1>1, <2>1, AppendQueue
    <3>2. wire' = Append(wire, held) \o outbox /\ outbox' = <<>>
      BY <1>7 DEF OnConnect
    <3>3. ASSUME NEW q \in Seq(Status \cup {Goodbye})
          PROVE  InQueue(q \o outbox) = InQueue(q) \cup InQueue(outbox)
      BY <1>1, JoinQueue
    <3>4. InQueue(<<>>) = {}
      BY NoQueue
    <3>5. QED
      BY <3>1, <3>2, <3>3, <3>4
  <2>4. Carried' \subseteq Carried
    BY <2>1, <2>2, <2>3, StatusParts DEF Carried, Around
  <2>5. ~overtaken => last'.of = last.of
    BY <1>2, <2>1, <2>2, StatusParts, <1>7 DEF RecentInv, SavedInv, WireInv
  <2>6. QED
    BY <1>4, <2>2, <2>4, <2>5
<1>8. CASE Deliver \/ DeliverGoodbye
  <2>1. UNCHANGED <<last, will, held, outbox>> /\ session' \in {session, NoStatus}
    BY <1>8 DEF Deliver, DeliverGoodbye
  <2>2. topic' \in {topic} \cup InQueue(wire) /\ InQueue(wire') \subseteq InQueue(wire)
    BY <1>1, <1>8, TailQueue, NoQueue DEF Deliver, DeliverGoodbye
  <2>3. QED
    <3>1. Around' \subseteq Around \cup {NoStatus}
      BY <2>1, <2>2 DEF Around
    <3>2. Carried' \subseteq Carried
      BY <3>1 DEF Carried
    <3>3. QED
      BY <1>4, <2>1, <3>2 DEF RecentInv
<1>9. CASE WillFires
  <2>1. UNCHANGED <<last, will, held, wire, outbox>> /\ topic' = session /\ session' = NoStatus
    BY <1>9 DEF WillFires, client
  <2>2. QED
    <3>1. Carried' \subseteq Carried
      BY <2>1 DEF Carried, Around
    <3>2. QED
      BY <1>4, <2>1, <3>1 DEF RecentInv
<1>10. QED
  BY <1>5, <1>6, <1>7, <1>8, <1>9 DEF Network

StatusInv == SavedInv /\ RecentInv

LEMMA InitStatus == Init => StatusInv
<1> SUFFICES ASSUME Init PROVE StatusInv
  OBVIOUS
<1>1. WireInv
  BY InitWire
<1>2. /\ last.of = EmptySnapshot /\ saved = EmptySnapshot /\ held = NoStatus /\ clock = 1
      /\ device = EmptySnapshot
  BY StatusParts DEF Init
<1>3. Around = {NoStatus, last}
  BY NoQueue DEF Init, Around
<1>4. \A o \in Carried : o = EmptySnapshot
  BY <1>2, <1>3 DEF Carried
<1>5. EmptySnapshot.seen = 0
  BY StatusParts
<1>6. QED
  BY <1>1, <1>2, <1>4, <1>5 DEF StatusInv, SavedInv, RecentInv

LEMMA StatusStep == StatusInv /\ [Next]_vars => StatusInv'
<1> SUFFICES ASSUME StatusInv, [Next]_vars PROVE StatusInv'
  OBVIOUS
<1>1. SavedInv /\ RecentInv /\ WireInv'
  BY WireStep DEF StatusInv, SavedInv
<1>2. CASE Tick \/ UNCHANGED vars
  <2>1. UNCHANGED <<phase, device, saved, overtaken, last, will, held, wire, outbox, topic, session>>
    BY <1>2 DEF Tick, vars, agent, client, broker
  <2>2. clock' >= clock /\ clock' \in Int
    BY <1>1, <1>2, CarriedTyped DEF Tick, vars, SavedInv
  <2>3. Carried' \subseteq Carried
    BY <2>1 DEF Carried, Around
  <2>4. phase' # "down" /\ ~overtaken =>
             last'.of = last.of /\ (held' # NoStatus => held'.of = last.of)
    BY <1>1, <2>1 DEF RecentInv
  <2>5. QED
    BY <1>1, <2>1, <2>2, <2>3, <2>4, CarryOn DEF StatusInv
<1>3. QED
  BY <1>1, <1>2, PrintLoopSaved, ProcessSaved, NetworkSaved DEF Next, StatusInv

LEMMA StatusAlways == Spec => []StatusInv
BY InitStatus, StatusStep, PTL DEF Spec

\* Whatever the agent has said, will say, or has left with the broker to say
\* after it, the spool knows something as recent: a crash at any step makes no
\* process that knows less than the topic shows.
THEOREM SpoolKnowsTheTopic == Spec => []PublishedIsSaved
<1>1. StatusInv => PublishedIsSaved
  <2> SUFFICES ASSUME StatusInv, NEW s \in Told PROVE s.of.seen <= saved.seen
    BY DEF PublishedIsSaved
  <2>1. s.of \in Carried
    BY ToldIsAround DEF Carried, StatusInv, SavedInv
  <2>2. QED
    BY <2>1 DEF StatusInv, SavedInv
<1>2. QED
  BY <1>1, StatusAlways, PTL

\* What a reconnect would republish is never older than the topic, unless a
\* status was published while on_connect held the one before it.
THEOREM ReconnectNeverGoesBack == Spec => []NeverGoesBack
<1>1. StatusInv => NeverGoesBack
  <2> SUFFICES ASSUME StatusInv, phase # "down", topic # NoStatus, ~overtaken
               PROVE  last.of.seen >= topic.of.seen
    BY DEF NeverGoesBack
  <2>1. topic \in Status
    BY DEF StatusInv, SavedInv, WireInv, TypeOK
  <2>2. topic.of \in Carried
    BY <2>1, StatusParts DEF Carried, Around
  <2>3. topic.of.seen <= last.of.seen
    BY <2>2 DEF StatusInv, RecentInv
  <2>4. QED
    BY <2>2, <2>3, CarriedTyped DEF StatusInv, SavedInv
<1>2. QED
  BY <1>1, StatusAlways, PTL

-----------------------------------------------------------------------------
(***************************************************************************)
(* Where the topic will settle.  Whatever the print loop or the stop said  *)
(* last is in every place a later status can come from: what is known, what *)
(* on_connect holds, the end of what paho keeps, and the end of the wire.  *)
(***************************************************************************)
Final(q, x) == IF q = <<>> THEN x ELSE q[Len(q)]

Agrees(S) ==
    /\ last \in S /\ Final(outbox, last) \in S /\ held \in S \cup {NoStatus}
    /\ conn = "up" => Final(wire, topic) \in S

Farewell == {s \in Status : s.state = "disconnected"}

QueueInv ==
    /\ WireInv
    /\ ~keeps \/ conn = "up" \/ phase = "down" => outbox = <<>>

SettleInv == Alive /\ ~overtaken => Agrees({latest})

\* A DISCONNECT is on the wire behind what was said before it.
Leaving == \E q \in Seq(Status) : /\ wire = Append(q, Goodbye)
                                  /\ ~muted => Final(q, topic) \in Farewell

\* The broker holds a will whenever it serves a connection, and every will
\* says that the agent is gone.
FarewellInv ==
    /\ {session, will} \subseteq Farewell \cup {NoStatus}
    /\ phase \in {"running", "stopping"} => will # NoStatus
    /\ Connected => session # NoStatus
    /\ ~Connected /\ session = NoStatus /\ ~muted => topic \in Farewell \cup {NoStatus}
    /\ phase = "stopping" /\ ~muted => Agrees(Farewell)
    /\ phase = "down" /\ conn = "up" => Leaving
LEMMA FinalParts ==
    ASSUME NEW S, NEW q \in Seq(S), NEW x
    PROVE  /\ Final(<<>>, x) = x
           /\ \A y \in S : Final(Append(q, y), x) = y
           /\ q # <<>> => Final(q, x) \in S /\ Final(Tail(q), Head(q)) = Final(q, x)
           /\ \A r \in Seq(S) : Final(q \o r, x) = IF r = <<>> THEN Final(q, x) ELSE Final(r, x)
<1>1. Final(<<>>, x) = x
  BY DEF Final
<1>2. ASSUME NEW y \in S
      PROVE  Final(Append(q, y), x) = y
  <2>1. Append(q, y) # <<>> /\ Append(q, y)[Len(Append(q, y))] = y
    OBVIOUS
  <2> QED
    BY <2>1 DEF Final
<1>3. ASSUME q # <<>>
      PROVE  Final(q, x) \in S /\ Final(Tail(q), Head(q)) = Final(q, x)
  <2>1. q[Len(q)] \in S /\ Head(q) = q[1]
    BY <1>3
  <2>2. /\ Len(q) \in Nat /\ Len(q) # 0 /\ Tail(q) \in Seq(S)
        /\ Len(Tail(q)) = Len(q) - 1
        /\ \A k \in 1..Len(Tail(q)) : Tail(q)[k] = q[k + 1]
    BY <1>3
  <2> DEFINE m == Len(q)
             t == Tail(q)
  <2>3. m \in Nat /\ m # 0 /\ t \in Seq(S) /\ Len(t) = m - 1
        /\ \A k \in 1..Len(t) : t[k] = q[k + 1]
    BY <2>2
  <2> HIDE DEF m, t
  <2>4. CASE t = <<>>
    <3>1. Len(t) = 0
      BY <2>4
    <3>2. m = 1
      BY <2>3, <3>1
    <3> QED
      BY <1>3, <2>1, <2>4, <3>2 DEF Final, m, t
  <2>5. CASE t # <<>>
    <3>1. Len(t) # 0
      BY <2>3, <2>5
    <3>2. m - 1 \in 1..Len(t) /\ (m - 1) + 1 = m
      BY <2>3, <3>1
    <3>3. t[Len(t)] = q[m]
      BY <2>3, <3>2
    <3> QED
      BY <1>3, <2>1, <2>5, <3>3 DEF Final, m, t
  <2> QED
    BY <2>4, <2>5 DEF m, t
<1>4. ASSUME NEW r \in Seq(S)
      PROVE  Final(q \o r, x) = IF r = <<>> THEN Final(q, x) ELSE Final(r, x)
  <2>1. CASE r = <<>>
    BY <2>1
  <2>2. CASE r # <<>>
    <3>1. q \o r # <<>> /\ (q \o r)[Len(q \o r)] = r[Len(r)]
      BY <2>2
    <3> QED
      BY <2>2, <3>1 DEF Final
  <2> QED
    BY <2>1, <2>2
<1> QED
  BY <1>1, <1>2, <1>3, <1>4

LEMMA QueueStep == QueueInv /\ [Next]_vars => QueueInv'
<1> SUFFICES ASSUME QueueInv, [Next]_vars PROVE QueueInv'
  OBVIOUS
<1>1. WireInv /\ WireInv'
  BY WireStep DEF QueueInv
<1>2. ASSUME NEW s, Publish(s), phase # "down"
      PROVE  ~keeps' \/ conn' = "up" => outbox' = <<>>
  BY <1>2 DEF Publish, Connected, QueueInv
<1>3. CASE PrintLoop
  BY <1>1, <1>2, <1>3
  DEF PrintLoop, StartPrint, Hear, Probe, Settle, Stall, Report, Capture, client, QueueInv,
      WireInv, Alive
<1>4. CASE Process
  BY <1>1, <1>2, <1>4 DEF Process, Start, Stop, Leave, Crash, Boot, Gone, QueueInv, WireInv, Alive
<1>5. CASE Network
  <2>1. CASE Break
    <3>1. ~keeps' \/ conn' = "up" \/ phase' = "down" => outbox' = <<>>
      BY <2>1 DEF Break, agent
    <3> QED
      BY <1>1, <3>1 DEF QueueInv
  <2>2. CASE ~Break
    BY <1>1, <1>5, <2>2
    DEF Network, Reconnect, OnConnect, Deliver, DeliverGoodbye, WillFires, QueueInv, agent,
        client, WireInv
  <2> QED
    BY <2>1, <2>2
<1>6. CASE Tick \/ UNCHANGED vars
  BY <1>1, <1>6 DEF Tick, vars, QueueInv, agent, client
<1> QED
  BY <1>3, <1>4, <1>5, <1>6 DEF Next

LEMMA StatusSplit ==
    ASSUME WireInv
    PROVE  /\ wire \in Seq(Status \cup {Goodbye}) /\ outbox \in Seq(Status)
           /\ outbox \in Seq(Status \cup {Goodbye})
           /\ phase # "down" => wire \in Seq(Status)
           /\ held # NoStatus <=> conn = "republish"
BY WiderQueue DEF WireInv, TypeOK

\* A publish that no republish can overtake is the last word.
LEMMA PublishAgrees ==
    ASSUME QueueInv, NEW s \in Status, Publish(s), phase # "down", conn # "republish"
    PROVE  /\ last' = s /\ Final(outbox', last') = s /\ held' = NoStatus
           /\ conn' = conn /\ (conn = "up" => Final(wire', topic') = s)
<1>1. wire \in Seq(Status) /\ outbox \in Seq(Status) /\ held = NoStatus
  BY StatusSplit DEF QueueInv
<1>2. Connected => conn = "up"
  BY DEF Connected
<1>3. Final(outbox', last') = s
  <2>1. CASE keeps /\ ~Connected
    BY <1>1, <2>1, FinalParts DEF Publish
  <2>2. CASE ~(keeps /\ ~Connected)
    BY <1>1, <1>2, <2>2, FinalParts DEF Publish, QueueInv
  <2> QED
    BY <2>1, <2>2
<1>4. conn = "up" => Final(wire', topic') = s
  <2>1. ASSUME conn = "up" PROVE wire' = Append(wire, s)
    BY <2>1 DEF Publish, Connected
  <2>2. Final(Append(wire, s), topic') = s
    <3>1. Append(wire, s) # <<>> /\ Append(wire, s)[Len(Append(wire, s))] = s
      BY <1>1
    <3> QED
      BY <3>1 DEF Final
  <2> QED
    BY <2>1, <2>2
<1> QED
  BY <1>1, <1>3, <1>4 DEF Publish

\* The network says nothing new.
LEMMA NetworkAgrees ==
    ASSUME QueueInv, Network, phase # "down", NEW S, S \subseteq Status, Agrees(S)
    PROVE  Agrees(S)'
<1>1. wire \in Seq(Status) /\ outbox \in Seq(Status) /\ last \in Status
  BY StatusSplit DEF QueueInv, WireInv, TypeOK
<1>2. NoStatus \notin Status
  BY StatusParts
<1>3. CASE Break
  <2>1. outbox = <<>> /\ wire \o outbox = wire
    BY <1>1, <1>3 DEF Break, QueueInv
  <2>2. Final(wire, last) \in S
    BY <1>3 DEF Agrees, Break, Final
  <2>3. Final(outbox', last') \in S
    BY <1>3, <2>1, <2>2 DEF Break, Agrees, Final
  <2> QED
    BY <1>3, <2>3 DEF Break, Agrees
<1>4. CASE Reconnect
  BY <1>4 DEF Reconnect, Agrees
<1>5. CASE OnConnect
  <2>1. held \in S /\ held \in Status
    BY <1>5 DEF Agrees, OnConnect, QueueInv, WireInv
  <2>2. Final(Append(wire, held), topic) = held /\ Append(wire, held) \in Seq(Status)
    BY <1>1, <2>1, FinalParts
  <2>3. /\ Final(Append(wire, held) \o outbox, topic) =
               IF outbox = <<>> THEN held ELSE Final(outbox, topic)
        /\ outbox # <<>> => Final(outbox, topic) = Final(outbox, last)
    BY <1>1, <2>2, FinalParts DEF Final
  <2>4. Final(wire', topic') \in S
    BY <1>5, <2>1, <2>3 DEF OnConnect, Agrees, broker
  <2>5. Final(outbox', last') \in S
    BY <1>5, <2>1 DEF OnConnect, Final
  <2> QED
    BY <1>5, <2>1, <2>4, <2>5 DEF OnConnect, Agrees
<1>6. CASE Deliver
  BY <1>1, <1>6, FinalParts DEF Deliver, Agrees
<1>7. CASE DeliverGoodbye
  BY <1>7 DEF DeliverGoodbye, Agrees
<1>8. CASE WillFires
  BY <1>8 DEF WillFires, Agrees, Connected, client
<1> QED
  BY <1>3, <1>4, <1>5, <1>6, <1>7, <1>8 DEF Network
LEMMA SettleStep == QueueInv /\ SettleInv /\ [Next]_vars => SettleInv'
<1> SUFFICES ASSUME QueueInv, SettleInv, [Next]_vars PROVE SettleInv'
  OBVIOUS
<1>1. WireInv /\ WireInv' /\ latest \in Status /\ last \in Status
  BY WireStep DEF QueueInv, WireInv, TypeOK
<1>2. ASSUME NEW s \in Status, Report(s), Alive
      PROVE  SettleInv'
  <2>1. Publish(s) /\ phase # "down" /\ latest' = s /\ (conn = "republish" => overtaken')
    BY <1>2 DEF Report, Publish, Alive
  <2> QED
    BY <2>1, PublishAgrees DEF SettleInv, Agrees
<1>3. ASSUME NEW r, Capture(r)
      PROVE  SettleInv'
  BY <1>3 DEF Capture, client, broker, SettleInv, Agrees, Alive
<1>4. CASE PrintLoop
  <2>1. /\ [state |-> "printing", of |-> device] \in Status
        /\ [state |-> "disconnected", of |-> device] \in Status
        /\ Settled(device) \in Status
    BY <1>1, StatusParts DEF WireInv, TypeOK, Status
  <2>2. send # "none" => Alive
    BY <1>1 DEF WireInv
  <2>3. CASE StartPrint
    BY <1>2, <2>1, <2>3 DEF StartPrint
  <2>4. CASE Hear \/ Probe
    BY <1>3, <2>4 DEF Hear, Probe
  <2>5. CASE Settle
    BY <1>2, <2>1, <2>2, <2>5 DEF Settle
  <2>6. CASE Stall
    BY <1>2, <2>1, <2>2, <2>6 DEF Stall
  <2> QED
    BY <1>4, <2>3, <2>4, <2>5, <2>6 DEF PrintLoop
<1>5. CASE Boot
  <2>1. /\ last' = latest' /\ held' = held /\ held = NoStatus /\ outbox' = <<>>
        /\ conn' = "off"
    BY <1>1, <1>5 DEF Boot, QueueInv, WireInv
  <2> QED
    BY <2>1 DEF SettleInv, Agrees, Final
<1>6. CASE Start
  BY <1>6 DEF Start, broker, SettleInv, Agrees, Alive
<1>7. CASE Stop \/ Leave \/ Crash
  BY <1>7 DEF Stop, Leave, Crash, Gone, SettleInv, Alive
<1>8. CASE Network
  <2>1. UNCHANGED <<phase, latest, overtaken>>
    BY <1>8 DEF Network, Break, Reconnect, OnConnect, Deliver, DeliverGoodbye, WillFires, agent
  <2>2. ASSUME Alive, ~overtaken
        PROVE  Agrees({latest})'
    <3>1. PICK S \in SUBSET Status : S = {latest}
      BY <1>1
    <3>2. Agrees(S) /\ phase # "down"
      BY <2>2, <3>1 DEF SettleInv, Alive
    <3>3. Agrees(S)'
      BY <1>8, <3>2, NetworkAgrees
    <3> QED
      BY <2>1, <3>1, <3>3 DEF Agrees
  <2> QED
    BY <2>1, <2>2 DEF SettleInv, Alive
<1>9. CASE Tick \/ UNCHANGED vars
  BY <1>9 DEF Tick, vars, agent, client, broker, SettleInv, Agrees, Alive
<1> QED
  BY <1>4, <1>5, <1>6, <1>7, <1>8, <1>9 DEF Next, Process

LEMMA SettleInit == Init => QueueInv /\ SettleInv
BY InitWire DEF Init, QueueInv, SettleInv, Alive

LEMMA SettleAlways == Spec => [](QueueInv /\ SettleInv)
BY SettleInit, QueueStep, SettleStep, PTL DEF Spec

\* When the network is quiet the topic holds what the print loop published
\* last, and a reconnect would publish just that, unless that publish came
\* while on_connect held an older status: whatever broke, reconnected or
\* restarted before.
THEOREM TopicHoldsTheLast == Spec => []TopicSettles
<1>1. QueueInv /\ SettleInv => TopicSettles
  BY DEF TopicSettles, SettleInv, Agrees, Alive, Final
<1> QED
  BY <1>1, SettleAlways, PTL
-----------------------------------------------------------------------------
(***************************************************************************)
(* The farewell.                                                           *)
(***************************************************************************)
LEMMA FarewellParts ==
    /\ Farewell \subseteq Status /\ NoStatus \notin Farewell
    /\ \A s \in Status : Disconnected(s) \in Farewell
<1>1. \A s \in Status : Disconnected(s).state = "disconnected"
  BY DEF Disconnected, Status
<1> QED
  BY <1>1, StatusParts DEF Farewell

\* The wire of a process that has left is served, or breaks.
LEMMA LeavingStep ==
    ASSUME WireInv, phase = "down", conn = "up", Leaving, Deliver,
           UNCHANGED muted
    PROVE  Leaving'
<1>1. PICK q \in Seq(Status) : /\ wire = Append(q, Goodbye)
                               /\ ~muted => Final(q, topic) \in Farewell
  BY DEF Leaving
<1>2. q # <<>>
  BY <1>1 DEF Deliver
<1>3. Tail(q) \in Seq(Status) /\ Head(wire) = Head(q) /\ Tail(wire) = Append(Tail(q), Goodbye)
  <2>1. q \in Seq(Status \cup {Goodbye}) /\ Tail(q) \in Seq(Status) /\ Len(q) \in Nat \ {0}
    BY <1>2, WiderQueue
  <2>2. Head(wire) = Head(q)
    BY <1>1, <1>2, <2>1
  <2>3. Tail(wire) = Append(Tail(q), Goodbye)
    BY <1>1, <1>2, <2>1
  <2> QED
    BY <2>1, <2>2, <2>3
<1>4. Final(Tail(q), Head(q)) = Final(q, topic)
  BY <1>2, FinalParts
<1>5. wire' = Append(Tail(q), Goodbye) /\ topic' = Head(q)
  BY <1>3 DEF Deliver
<1>6. ~muted' => Final(Tail(q), topic') \in Farewell
  BY <1>1, <1>4, <1>5
<1> QED
  BY <1>3, <1>5, <1>6 DEF Leaving

LEMMA FarewellInit == Init => FarewellInv
BY DEF Init, FarewellInv, Connected

LEMMA FarewellStep == QueueInv /\ FarewellInv /\ [Next]_vars => FarewellInv'
<1> SUFFICES ASSUME QueueInv, FarewellInv, [Next]_vars PROVE FarewellInv'
  OBVIOUS
<1>1. WireInv /\ WireInv' /\ last \in Status /\ held \in Status \cup {NoStatus}
  BY WireStep DEF QueueInv, WireInv, TypeOK
<1>2. Disconnected(last) \in Farewell /\ NoStatus \notin Farewell
  BY <1>1, FarewellParts
<1>3. CASE PrintLoop
  <2>1. /\ UNCHANGED <<phase, will, conn, topic, session>> /\ phase \notin {"down", "stopping"}
        /\ muted' = muted
    BY <1>1, <1>3
    DEF PrintLoop, StartPrint, Hear, Probe, Settle, Stall, Report, Publish, Capture, client,
        broker, WireInv, Alive
  <2> QED
    BY <2>1 DEF FarewellInv, Connected
<1>4. CASE Start
  BY <1>1, <1>2, <1>4 DEF Start, broker, FarewellInv, Connected, WireInv
<1>5. CASE Stop
  <2>1. /\ Publish(Disconnected(last)) /\ UNCHANGED <<will, conn, topic, session>>
        /\ phase = "running" /\ phase' = "stopping" /\ muted' = (muted \/ conn = "republish")
    BY <1>5 DEF Stop, Publish, broker
  <2>2. ~muted' => Agrees(Farewell)'
    BY <1>1, <1>2, <2>1, FarewellParts, PublishAgrees DEF Agrees
  <2> QED
    BY <2>1, <2>2 DEF FarewellInv, Connected
<1>6. CASE Leave
  <2>1. /\ phase = "stopping" /\ phase' = "down" /\ will' = NoStatus
        /\ UNCHANGED <<topic, session, muted>> /\ conn # "republish"
        /\ conn' = (IF conn = "up" THEN "up" ELSE "off")
        /\ conn = "up" => wire' = Append(wire, Goodbye)
    BY <1>6 DEF Leave, Gone, broker
  <2>2. conn = "up" => Leaving'
    <3> SUFFICES ASSUME conn = "up" PROVE Leaving'
      OBVIOUS
    <3>1. wire \in Seq(Status) /\ (~muted => Final(wire, topic) \in Farewell)
      BY <1>1, <2>1, StatusSplit DEF FarewellInv, Agrees
    <3> QED
      BY <2>1, <3>1 DEF Leaving
  <2> QED
    BY <2>1, <2>2 DEF FarewellInv, Connected
<1>7. CASE Crash
  <2>1. /\ phase' = "down" /\ will' = NoStatus /\ conn' = "off"
        /\ UNCHANGED <<topic, session, muted>>
    BY <1>7 DEF Crash, Gone, broker
  <2>2. Connected => session # NoStatus
    BY DEF FarewellInv
  <2> QED
    BY <2>1, <2>2 DEF FarewellInv, Connected
<1>8. CASE Boot
  <2>1. /\ UNCHANGED <<topic, session, muted, will, conn>> /\ phase' = "starting"
    BY <1>8 DEF Boot, broker
  <2> QED
    BY <2>1 DEF FarewellInv, Connected
<1>9. ASSUME Network, phase = "stopping", ~muted PROVE Agrees(Farewell)'
  BY <1>9, NetworkAgrees, FarewellParts DEF FarewellInv
<1>10. CASE Break
  <2>1. /\ UNCHANGED <<phase, will, topic, session, muted>> /\ Connected /\ conn' \in {"off", "lost"}
    BY <1>10 DEF Break, agent, broker, Connected
  <2> QED
    BY <1>9, <1>10, <2>1 DEF FarewellInv, Connected, Network
<1>11. CASE Reconnect
  <2>1. /\ UNCHANGED <<phase, will>> /\ phase \in {"running", "stopping"}
        /\ conn = "lost" /\ conn' = "republish" /\ session' = will
        /\ muted' = (muted /\ phase = "stopping")
    BY <1>1, <1>11 DEF Reconnect, agent, WireInv, TypeOK
  <2> QED
    BY <1>9, <1>11, <2>1 DEF FarewellInv, Connected, Network
<1>12. CASE OnConnect
  <2>1. /\ UNCHANGED <<phase, topic, session, muted>> /\ conn = "republish" /\ conn' = "up"
        /\ will' = Disconnected(held) /\ held # NoStatus /\ phase # "down"
    BY <1>1, <1>12 DEF OnConnect, agent, broker, WireInv
  <2>2. will' \in Farewell
    BY <1>1, <2>1, FarewellParts
  <2> QED
    BY <1>2, <1>9, <1>12, <2>1, <2>2 DEF FarewellInv, Connected, Network
<1>13. CASE Deliver
  <2>1. /\ UNCHANGED <<phase, session, will, muted, conn>> /\ Connected
    BY <1>13 DEF Deliver, agent
  <2>2. phase = "down" /\ conn = "up" => Leaving'
    BY <1>1, <1>13, <2>1, LeavingStep DEF FarewellInv
  <2> QED
    BY <1>9, <1>13, <2>1, <2>2 DEF FarewellInv, Connected, Network
<1>14. CASE DeliverGoodbye
  <2>1. /\ UNCHANGED <<phase, topic, will, muted>> /\ conn' = "off" /\ session' = NoStatus
        /\ Connected /\ wire # <<>> /\ Head(wire) = Goodbye
    BY <1>14 DEF DeliverGoodbye, agent
  <2>2. phase = "down" /\ conn = "up"
    BY <1>1, <2>1, TailQueue, StatusParts, StatusSplit DEF WireInv, Connected
  <2>3. PICK q \in Seq(Status) : /\ wire = Append(q, Goodbye)
                                 /\ ~muted => Final(q, topic) \in Farewell
    BY <2>2 DEF FarewellInv, Leaving
  <2>4. q = <<>>
    <3> SUFFICES ASSUME q # <<>> PROVE FALSE
      OBVIOUS
    <3>1. Head(q) \in Status /\ Head(Append(q, Goodbye)) = Head(q)
      OBVIOUS
    <3> QED
      BY <2>1, <2>3, <3>1, StatusParts
  <2>5. ~muted => topic \in Farewell
    BY <2>3, <2>4, FinalParts DEF Final
  <2> QED
    BY <2>1, <2>2, <2>5 DEF FarewellInv, Connected
<1>15. CASE WillFires
  <2>1. /\ UNCHANGED <<phase, will, muted, conn>> /\ topic' = session /\ session' = NoStatus
        /\ ~Connected
    BY <1>15 DEF WillFires, agent, client
  <2> QED
    BY <1>9, <1>15, <2>1 DEF FarewellInv, Connected, Network
<1>16. CASE Tick \/ UNCHANGED vars
  BY <1>16 DEF Tick, vars, agent, client, broker, FarewellInv, Agrees, Connected, Leaving
<1> QED
  BY <1>3, <1>4, <1>5, <1>6, <1>7, <1>8, <1>10, <1>11, <1>12, <1>13, <1>14, <1>15, <1>16
  DEF Next, Process, Network

LEMMA FarewellAlways == Spec => [](QueueInv /\ FarewellInv)
BY SettleInit, FarewellInit, QueueStep, FarewellStep, PTL DEF Spec

\* Once the broker knows that an agent is gone, its topic says so: after a
\* stop, a crash or a broken connection at any step, unless on_connect held an
\* older status when the agent left.
THEOREM TopicTellsTheEnd == Spec => []DownIsTold
<1>1. QueueInv /\ FarewellInv => DownIsTold
  <2> SUFFICES ASSUME QueueInv, FarewellInv, phase = "down", session = NoStatus,
                      topic # NoStatus, ~muted
               PROVE  topic \in Farewell
    BY DEF DownIsTold, Farewell
  <2> QED
    BY DEF FarewellInv
<1> QED
  BY <1>1, FarewellAlways, PTL
=============================================================================
