---------------------------- MODULE IntakeProofs ----------------------------
(***************************************************************************)
(* Proofs about Intake: its types, that what is taken from the broker or   *)
(* the directory is in the spool, and that a job is handed on once, for    *)
(* any deliveries, files, jobs and number of crashes.                      *)
(***************************************************************************)
EXTENDS Intake, TLAPS

NetSteps == {"select", "insert", "ack", "enqueue", "reply", "refuse"}
DirSteps == {"select", "insert", "rename new", "rename", "enqueue"}

\* The step a thread is at says which delivery or file it is at with.
LEMMA NetAt ==
    ASSUME TypeOK, net # Idle
    PROVE  net.at \in NetSteps /\ net.of \in Msg /\ net = At(net.at, net.of)
BY DEF TypeOK, At, NetSteps

LEMMA DirAt ==
    ASSUME TypeOK, dir # Idle
    PROVE  dir.at \in DirSteps /\ dir.of \in File /\ dir = At(dir.at, dir.of)
BY DEF TypeOK, At, DirSteps

-----------------------------------------------------------------------------
(***************************************************************************)
(* The inductive invariant.                                                *)
(***************************************************************************)

\* A thread past its SELECT is at work on a job, and past its INSERT, or past
\* a SELECT that found something, on a job the spool has.
AtWork ==
    /\ net # Idle /\ net.at # "refuse" => Content[net.of] \in Job
    /\ net # Idle /\ net.at = "refuse" => Content[net.of] = Malformed
    /\ net # Idle /\ net.at \in {"ack", "enqueue", "reply"} => Known(Content[net.of])
    /\ dir # Idle => Content[dir.of] \in Job
    /\ dir # Idle /\ dir.at \in {"rename new", "rename", "enqueue"} =>
            Known(Content[dir.of])
    /\ \A f \in File : files[f] = "done" => Content[f] \in Job

TakenInv == TypeOK /\ AtWork /\ TakenIsSpooled

LEMMA InitTaken == Init => TakenInv
<1> SUFFICES ASSUME Init PROVE TakenInv
  OBVIOUS
<1>1. TypeOK
  <2>1. crashes \in 0..MaxCrashes /\ cuts \in 0..MaxCuts
    BY BoundAssumption DEF BoundAssumption, Init
  <2>2. QED
    BY <2>1 DEF Init, TypeOK
<1>2. AtWork /\ TakenIsSpooled
  BY DEF Init, AtWork, TakenIsSpooled, Idle
<1>3. QED
  BY <1>1, <1>2 DEF TakenInv

\* try_insert leaves the table typed and forgets no job.
LEMMA InsertKeeps ==
    ASSUME TypeOK, NEW j \in Job, Insert(j)
    PROVE  /\ row' \in [Job -> {"absent", "queued", "answered"}]
           /\ row'[j] # "absent"
           /\ \A k \in Job : Known(k) => Known(k)'
BY DEF TypeOK, Insert, Known

\* A job handed on is counted.
LEMMA EnqueueTyped ==
    ASSUME handed \in [Job -> Nat], NEW j \in Job, Enqueue(j)
    PROVE  handed' \in [Job -> Nat]
<1>1. handed[j] + 1 \in Nat
  OBVIOUS
<1>2. QED
  BY <1>1 DEF Enqueue

\* What a message holds, or a file.
LEMMA ContentTyped ==
    ASSUME NEW x \in Msg \cup File
    PROVE  Content[x] \in Job \cup {Malformed}
BY ContentAssumption

-----------------------------------------------------------------------------
(***************************************************************************)
(* Each step keeps it.                                                     *)
(***************************************************************************)

LEMMA ReceiveTaken ==
    ASSUME TakenInv, NEW m \in Msg, Receive(m)
    PROVE  TakenInv'
<1>1. TypeOK'
  BY DEF TakenInv, TypeOK, Receive, At, broker, directory, Idle
<1>2. AtWork'
  BY ContentTyped, ContentAssumption
  DEF TakenInv, TypeOK, AtWork, Receive, At, directory, Idle, Known
<1>3. TakenIsSpooled'
  BY DEF TakenInv, TakenIsSpooled, Receive, broker, directory, Known
<1>4. QED
  BY <1>1, <1>2, <1>3 DEF TakenInv

LEMMA SelectJobTaken ==
    ASSUME TakenInv, SelectJob
    PROVE  TakenInv'
<1>1. net # Idle /\ net.at = "select" /\ net.of \in Msg /\ Content[net.of] \in Job
  <2>1. net # Idle
    BY DEF SelectJob, Handle, Idle
  <2>2. QED
    BY <2>1, NetAt DEF TakenInv, AtWork, SelectJob, Handle
<1>2. TypeOK'
  BY <1>1 DEF TakenInv, TypeOK, SelectJob, Handle, At, broker, directory, Idle
<1>3. AtWork'
  BY <1>1 DEF TakenInv, AtWork, SelectJob, Handle, At, directory, Idle, Known
<1>4. TakenIsSpooled'
  BY DEF TakenInv, TakenIsSpooled, SelectJob, Handle, broker, directory, Known
<1>5. QED
  BY <1>2, <1>3, <1>4 DEF TakenInv

LEMMA InsertJobTaken ==
    ASSUME TakenInv, InsertJob
    PROVE  TakenInv'
<1>1. /\ net # Idle /\ net.at = "insert" /\ net.of \in Msg
      /\ Content[net.of] \in Job
  <2>1. net # Idle
    BY DEF InsertJob, Handle, Idle
  <2>2. QED
    BY <2>1, NetAt DEF TakenInv, AtWork, InsertJob, Handle
<1>2. /\ row' \in [Job -> {"absent", "queued", "answered"}]
      /\ \A k \in Job : Known(k) => Known(k)'
  BY <1>1, InsertKeeps DEF TakenInv, TypeOK, InsertJob, Known
<1>3. net' # Idle => net' = At("ack", net.of) /\ row'[Content[net.of]] # "absent"
  BY <1>1, InsertKeeps DEF TakenInv, InsertJob, Handle, Known
<1>4. TypeOK'
  BY <1>1, <1>2, <1>3 DEF TakenInv, TypeOK, InsertJob, Handle, At, broker, directory, Idle
<1>5. AtWork'
  BY <1>1, <1>2, <1>3 DEF TakenInv, AtWork, InsertJob, Handle, At, directory, Known
<1>6. TakenIsSpooled'
  <2>1. \A m \in acked : Content[m] # Malformed => Content[m] \in Job
    BY ContentTyped DEF TakenInv, TypeOK
  <2>2. \A f \in File : files[f] = "done" => Content[f] \in Job
    BY DEF TakenInv, AtWork
  <2>3. QED
    BY <1>2, <2>1, <2>2 DEF TakenInv, TakenIsSpooled, InsertJob, Handle, broker, directory
<1>7. QED
  BY <1>4, <1>5, <1>6 DEF TakenInv

\* What is acknowledged is spooled, or no job.
LEMMA AckTaken ==
    ASSUME TakenInv, NEW step, NEW next,
           \/ step = "ack" /\ next = "enqueue"
           \/ step = "reply" /\ next = "done"
           \/ step = "refuse" /\ next = "done",
           Ack(step, next)
    PROVE  TakenInv'
<1>1. /\ net # Idle /\ net.at = step /\ net.of \in Msg
      /\ step \in {"ack", "reply", "refuse"}
  <2>1. net # Idle
    BY DEF Ack, Handle, Idle
  <2>2. QED
    BY <2>1, NetAt DEF TakenInv, Ack, Handle
<1>2. Content[net.of] # Malformed => Known(Content[net.of])
  BY <1>1 DEF TakenInv, AtWork
<1>3. net' = Idle \/ (step = "ack" /\ net' = At("enqueue", net.of))
  BY DEF Ack, Handle
<1>4. TypeOK'
  BY <1>1, <1>3 DEF TakenInv, TypeOK, Ack, Acknowledge, Handle, At, directory, Idle
<1>5. AtWork'
  BY <1>1, <1>2, <1>3 DEF TakenInv, AtWork, Ack, Handle, At, directory, Idle, Known
<1>6. TakenIsSpooled'
  BY <1>1, <1>2 DEF TakenInv, TakenIsSpooled, Ack, Acknowledge, Handle, directory, Known
<1>7. QED
  BY <1>4, <1>5, <1>6 DEF TakenInv

LEMMA EnqueueJobTaken ==
    ASSUME TakenInv, EnqueueJob
    PROVE  TakenInv'
<1>1. net' = Idle
  BY DEF EnqueueJob, Handle
<1>a. net # Idle /\ net.at = "enqueue" /\ Content[net.of] \in Job
  <2>1. net # Idle
    BY DEF EnqueueJob, Handle, Idle
  <2>2. QED
    BY <2>1 DEF TakenInv, AtWork, EnqueueJob, Handle
<1>b. handed' \in [Job -> Nat]
  BY <1>a, EnqueueTyped DEF TakenInv, TypeOK, EnqueueJob
<1>2. TypeOK'
  BY <1>1, <1>b DEF TakenInv, TypeOK, EnqueueJob, Handle, broker, directory
<1>3. AtWork'
  BY <1>1 DEF TakenInv, AtWork, EnqueueJob, Handle, directory, Known
<1>4. TakenIsSpooled'
  BY DEF TakenInv, TakenIsSpooled, EnqueueJob, Handle, broker, directory, Known
<1>5. QED
  BY <1>2, <1>3, <1>4 DEF TakenInv

\* The handler's steps together.
LEMMA OnMessageTaken == TakenInv /\ OnMessage => TakenInv'
BY SelectJobTaken, InsertJobTaken, AckTaken, EnqueueJobTaken DEF OnMessage

LEMMA ReadFileTaken ==
    ASSUME TakenInv, NEW f \in File, ReadFile(f)
    PROVE  TakenInv'
<1>1. dir' = Idle \/ (dir' = At("select", f) /\ Content[f] \in Job)
  BY ContentTyped DEF ReadFile
<1>2. TypeOK'
  BY <1>1 DEF TakenInv, TypeOK, ReadFile, At, broker, network
<1>3. AtWork'
  BY <1>1 DEF TakenInv, AtWork, ReadFile, At, network, Known
<1>4. TakenIsSpooled'
  BY DEF TakenInv, TypeOK, TakenIsSpooled, ReadFile, broker, Known
<1>5. QED
  BY <1>2, <1>3, <1>4 DEF TakenInv

LEMMA SelectFileTaken ==
    ASSUME TakenInv, SelectFile
    PROVE  TakenInv'
<1>1. dir # Idle /\ dir.at = "select" /\ dir.of \in File /\ Content[dir.of] \in Job
  <2>1. dir # Idle
    BY DEF SelectFile, Step, Idle
  <2>2. QED
    BY <2>1, DirAt DEF TakenInv, AtWork, SelectFile, Step
<1>2. TypeOK'
  BY <1>1 DEF TakenInv, TypeOK, SelectFile, Step, At, broker, network, Idle
<1>3. AtWork'
  BY <1>1 DEF TakenInv, AtWork, SelectFile, Step, At, network, Idle, Known
<1>4. TakenIsSpooled'
  BY DEF TakenInv, TakenIsSpooled, SelectFile, Step, broker, network, Known
<1>5. QED
  BY <1>2, <1>3, <1>4 DEF TakenInv

LEMMA InsertFileTaken ==
    ASSUME TakenInv, InsertFile
    PROVE  TakenInv'
<1>1. /\ dir # Idle /\ dir.at = "insert" /\ dir.of \in File
      /\ Content[dir.of] \in Job
  <2>a. dir.at = "insert" /\ Idle.at = "idle" /\ "insert" # "idle"
    BY DEF InsertFile, Step, Idle
  <2>1. dir # Idle
    BY <2>a
  <2>2. QED
    BY <2>1, DirAt DEF TakenInv, AtWork, InsertFile, Step
<1>2. /\ row' \in [Job -> {"absent", "queued", "answered"}]
      /\ \A k \in Job : Known(k) => Known(k)'
  BY <1>1, InsertKeeps DEF TakenInv, TypeOK, InsertFile, Known
<1>3. dir' # Idle => dir' = At("rename new", dir.of) /\ row'[Content[dir.of]] # "absent"
  BY <1>1, InsertKeeps DEF TakenInv, InsertFile, Step, Known
<1>4. TypeOK'
  BY <1>1, <1>2, <1>3 DEF TakenInv, TypeOK, InsertFile, Step, At, broker, network, Idle
<1>5. AtWork'
  BY <1>1, <1>2, <1>3 DEF TakenInv, AtWork, InsertFile, Step, At, network, Known
<1>6. TakenIsSpooled'
  <2>1. \A m \in acked : Content[m] # Malformed => Content[m] \in Job
    BY ContentTyped DEF TakenInv, TypeOK
  <2>2. QED
    BY <1>2, <2>1 DEF TakenInv, AtWork, TakenIsSpooled, InsertFile, Step, broker, network
<1>7. QED
  BY <1>4, <1>5, <1>6 DEF TakenInv

\* What is moved to done/ is spooled.
LEMMA RenameTaken ==
    ASSUME TakenInv, NEW step, NEW next,
           \/ step = "rename new" /\ next = "enqueue"
           \/ step = "rename" /\ next = "done",
           Rename(step, next)
    PROVE  TakenInv'
<1>1. /\ dir # Idle /\ dir.at = step /\ dir.of \in File
      /\ step \in {"rename new", "rename"}
  <2>a. dir.at = step /\ Idle.at = "idle" /\ step # "idle"
    BY DEF Rename, Step, Idle
  <2>1. dir # Idle
    BY <2>a
  <2>2. QED
    BY <2>1, DirAt DEF TakenInv, Rename, Step
<1>2. Known(Content[dir.of]) /\ Content[dir.of] \in Job
  BY <1>1 DEF TakenInv, AtWork
<1>3. dir' = Idle \/ (step = "rename new" /\ dir' = At("enqueue", dir.of))
  BY DEF Rename, Step
<1>4. TypeOK'
  BY <1>1, <1>3 DEF TakenInv, TypeOK, Rename, Step, At, broker, network, Idle
<1>5. AtWork'
  BY <1>1, <1>2, <1>3 DEF TakenInv, TypeOK, AtWork, Rename, Step, At, network, Idle, Known
<1>6. TakenIsSpooled'
  BY <1>1, <1>2 DEF TakenInv, TypeOK, TakenIsSpooled, Rename, Step, broker, network, Known
<1>7. QED
  BY <1>4, <1>5, <1>6 DEF TakenInv

LEMMA EnqueueFileTaken ==
    ASSUME TakenInv, EnqueueFile
    PROVE  TakenInv'
<1>1. dir' = Idle
  BY DEF EnqueueFile, Step
<1>a. dir # Idle /\ Content[dir.of] \in Job
  <2>1. dir # Idle
    BY DEF EnqueueFile, Step, Idle
  <2>2. QED
    BY <2>1 DEF TakenInv, AtWork, EnqueueFile, Step
<1>b. handed' \in [Job -> Nat]
  BY <1>a, EnqueueTyped DEF TakenInv, TypeOK, EnqueueFile
<1>2. TypeOK'
  BY <1>1, <1>b DEF TakenInv, TypeOK, EnqueueFile, Step, broker, network
<1>3. AtWork'
  BY <1>1 DEF TakenInv, AtWork, EnqueueFile, Step, network, Known
<1>4. TakenIsSpooled'
  BY DEF TakenInv, TakenIsSpooled, EnqueueFile, Step, broker, network, Known
<1>5. QED
  BY <1>2, <1>3, <1>4 DEF TakenInv

\* The poll's steps together.
LEMMA PollStepTaken == TakenInv /\ PollStep => TakenInv'
BY ReadFileTaken, SelectFileTaken, InsertFileTaken, RenameTaken, EnqueueFileTaken DEF PollStep

\* The steps that touch neither thread's work, but may end it.
LEMMA OtherTaken ==
    ASSUME TakenInv,
           \/ \E m \in Msg : Publish(m)
           \/ \E f \in File : Copy(f) \/ Complete(f)
           \/ \E j \in Job : Answer(j)
           \/ Poll \/ Boot \/ Start \/ Crash \/ Connect \/ Disconnect \/ Cut
           \/ UNCHANGED vars
    PROVE  TakenInv'
<1>1. CASE \E m \in Msg : Publish(m)
  <2>1. TypeOK'
    BY <1>1 DEF TakenInv, TypeOK, Publish, network, directory
  <2>2. AtWork' /\ TakenIsSpooled'
    BY <1>1 DEF TakenInv, AtWork, TakenIsSpooled, Publish, network, directory, Known
  <2>3. QED
    BY <2>1, <2>2 DEF TakenInv
<1>2. CASE \E f \in File : Copy(f) \/ Complete(f)
  <2> PICK f \in File : Copy(f) \/ Complete(f)
    BY <1>2
  <2>1. \E x \in {"partial", "whole"} : files' = [files EXCEPT ![f] = x]
    BY DEF Copy, Complete
  <2>2. UNCHANGED <<broker, network, glob, dir, phase, row, handed, crashes>>
    BY DEF Copy, Complete
  <2>3. TypeOK'
    BY <2>1, <2>2 DEF TakenInv, TypeOK, broker, network
  <2>4. \A x \in File : files'[x] = "done" => files[x] = "done"
    BY <2>1 DEF TakenInv, TypeOK
  <2>5. AtWork'
    BY <2>2, <2>4 DEF TakenInv, AtWork, network, Known
  <2>6. TakenIsSpooled'
    BY <2>2, <2>4 DEF TakenInv, TakenIsSpooled, broker, Known
  <2>7. QED
    BY <2>3, <2>5, <2>6 DEF TakenInv
<1>3. CASE \E j \in Job : Answer(j)
  <2> PICK j \in Job : Answer(j)
    BY <1>3
  <2>1. row' = [row EXCEPT ![j] = "answered"]
        /\ UNCHANGED <<broker, network, directory, phase, handed, crashes>>
    BY DEF Answer
  <2>2. TypeOK'
    BY <2>1 DEF TakenInv, TypeOK, broker, network, directory
  <2>3. \A k \in Job : row[k] # "absent" => row'[k] # "absent"
    BY <2>1 DEF TakenInv, TypeOK
  <2>4. AtWork'
    BY <2>1, <2>3 DEF TakenInv, AtWork, network, directory, Known
  <2>6. \A m \in acked : Content[m] # Malformed => Content[m] \in Job
    BY ContentTyped DEF TakenInv, TypeOK
  <2>7. TakenIsSpooled'
    BY <2>1, <2>3, <2>6 DEF TakenInv, AtWork, TakenIsSpooled, broker, directory, Known
  <2>5. QED
    BY <2>2, <2>4, <2>7 DEF TakenInv
<1>4. CASE Poll
  BY <1>4, ZenonT(60) DEF TakenInv, TypeOK, AtWork, TakenIsSpooled, Poll, broker, network, Known
<1>5. CASE Boot
  <2>1. handed' \in [Job -> Nat]
    BY <1>5 DEF Boot
  <2>2. QED
    BY <1>5, <2>1 DEF TakenInv, TypeOK, AtWork, TakenIsSpooled, Boot, broker, network,
       directory, Known
<1>6. CASE Start
  BY <1>6 DEF TakenInv, TypeOK, AtWork, TakenIsSpooled, Start, broker, network, directory, Known
<1>7. CASE Crash
  <2>1. crashes' \in 0..MaxCrashes
    <3>1. crashes \in 0..MaxCrashes
      BY DEF TakenInv, TypeOK
    <3>2. crashes < MaxCrashes /\ crashes' = crashes + 1 /\ MaxCrashes \in Nat
      BY <1>7, BoundAssumption DEF BoundAssumption, Crash
    <3>3. QED
      BY <3>1, <3>2
  <2>2. QED
    BY <1>7, <2>1 DEF TakenInv, TypeOK, AtWork, TakenIsSpooled, Crash, broker, Known
<1>8. CASE Connect \/ Disconnect
  BY <1>8 DEF TakenInv, TypeOK, AtWork, TakenIsSpooled, Connect, Disconnect, broker,
     directory, Known
<1>9. CASE Cut
  <2>1. cuts' \in 0..MaxCuts
    <3>1. cuts \in 0..MaxCuts
      BY DEF TakenInv, TypeOK
    <3>2. cuts < MaxCuts /\ cuts' = cuts + 1 /\ MaxCuts \in Nat
      BY <1>9, BoundAssumption DEF BoundAssumption, Cut
    <3>3. QED
      BY <3>1, <3>2
  <2>2. QED
    BY <1>9, <2>1 DEF TakenInv, TypeOK, AtWork, TakenIsSpooled, Cut, broker, directory, Known
<1>10. CASE UNCHANGED vars
  BY <1>10, ZenonT(60) DEF TakenInv, TypeOK, AtWork, TakenIsSpooled, vars, broker, network, directory, Known
<1>11. QED
  BY <1>1, <1>2, <1>3, <1>4, <1>5, <1>6, <1>7, <1>8, <1>9, <1>10

LEMMA TakenStep == TakenInv /\ [Next]_vars => TakenInv'
BY ReceiveTaken, OnMessageTaken, PollStepTaken, OtherTaken DEF Next

LEMMA AlwaysTaken == Spec => []TakenInv
BY InitTaken, TakenStep, PTL DEF Spec

-----------------------------------------------------------------------------
\* Deliveries, files, the two threads and the jobs table keep their types.
THEOREM IntakeTyped == Spec => []TypeOK
BY AlwaysTaken, PTL DEF TakenInv

\* A delivery that was acknowledged and a file that was moved to done/ are in
\* the spool: source_mqtt.py acknowledges, and source_dir.py renames, after
\* the insert, whatever the other thread and the crashes do.
THEOREM NothingLostOnTheWayIn == Spec => []TakenIsSpooled
BY AlwaysTaken, PTL DEF TakenInv

-----------------------------------------------------------------------------
(***************************************************************************)
(* One process hands a job to its print loop once.                         *)
(***************************************************************************)

\* A thread between its INSERT and its enqueue.
NetHands == net # Idle /\ net.at \in {"ack", "enqueue"}
DirHands == dir # Idle /\ dir.at \in {"rename new", "enqueue"}

\* Who inserted a job has not handed it on, nor has the other thread, which
\* is at work on another; what nobody inserted nobody hands on.
OnceInv ==
    /\ phase = "down" => net = Idle /\ dir = Idle /\ glob = {}
    /\ HandedOnce
    /\ \A j \in Job : ~Known(j) => handed[j] = 0
    /\ NetHands => handed[Content[net.of]] = 0
    /\ DirHands => handed[Content[dir.of]] = 0
    /\ NetHands /\ DirHands => Content[net.of] # Content[dir.of]

LEMMA InitOnce == Init => OnceInv
BY DEF Init, OnceInv, HandedOnce, NetHands, DirHands, Idle

LEMMA InsertJobOnce ==
    ASSUME TakenInv, OnceInv, InsertJob
    PROVE  OnceInv'
<1>1. net.at = "insert" /\ net # Idle
  BY DEF InsertJob, Handle, Idle
<1>2. Content[net.of] \in Job
  BY <1>1 DEF TakenInv, AtWork
<1>3. CASE Inserts(Content[net.of])
  <2>1. ~Known(Content[net.of]) /\ handed[Content[net.of]] = 0
    BY <1>2, <1>3 DEF Inserts, OnceInv
  <2>2. /\ net' = At("ack", net.of) /\ row' = [row EXCEPT ![Content[net.of]] = "queued"]
        /\ UNCHANGED <<handed, phase, dir>>
    BY <1>3 DEF InsertJob, Handle, Insert, directory
  <2>3. DirHands => Known(Content[dir.of])
    BY DEF TakenInv, AtWork, DirHands
  <2>4. (~Known(Content[net.of]) /\ DirHands) => Content[net.of] # Content[dir.of]
    BY <2>3
  <2>5. phase' # "down"
    BY <1>1, <2>2 DEF OnceInv
  <2>6. \A j \in Job : row'[j] = "absent" => row[j] = "absent"
    BY <2>1, <2>2 DEF Known, TakenInv, TypeOK
  <2>7. QED
    BY <2>1, <2>2, <2>4, <2>5, <2>6 DEF OnceInv, HandedOnce, NetHands, DirHands, Known, At
<1>4. CASE ~Inserts(Content[net.of])
  <2>1. net' = Idle /\ UNCHANGED <<row, handed, phase, dir>>
    BY <1>4 DEF InsertJob, Handle, directory
  <2>2. QED
    BY <1>1, <2>1 DEF OnceInv, HandedOnce, NetHands, DirHands, Known
<1>5. QED
  BY <1>3, <1>4

LEMMA InsertFileOnce ==
    ASSUME TakenInv, OnceInv, InsertFile
    PROVE  OnceInv'
<1>1. dir.at = "insert" /\ dir # Idle
  <2>1. dir.at = "insert" /\ Idle.at = "idle"
    BY DEF InsertFile, Step, Idle
  <2>2. QED
    BY <2>1
<1>2. Content[dir.of] \in Job
  BY <1>1 DEF TakenInv, AtWork
<1>3. CASE Inserts(Content[dir.of])
  <2>1. ~Known(Content[dir.of]) /\ handed[Content[dir.of]] = 0
    BY <1>2, <1>3 DEF Inserts, OnceInv
  <2>2. /\ dir' = At("rename new", dir.of) /\ row' = [row EXCEPT ![Content[dir.of]] = "queued"]
        /\ UNCHANGED <<handed, phase, net>>
    BY <1>3 DEF InsertFile, Step, Insert, network
  <2>3. NetHands => Known(Content[net.of])
    BY DEF TakenInv, AtWork, NetHands
  <2>4. (~Known(Content[dir.of]) /\ NetHands) => Content[net.of] # Content[dir.of]
    BY <2>3
  <2>5. phase' # "down"
    BY <1>1, <2>2 DEF OnceInv
  <2>6. \A j \in Job : row'[j] = "absent" => row[j] = "absent"
    BY <2>1, <2>2 DEF Known, TakenInv, TypeOK
  <2>7. QED
    BY <2>1, <2>2, <2>4, <2>5, <2>6 DEF OnceInv, HandedOnce, NetHands, DirHands, Known, At
<1>4. CASE ~Inserts(Content[dir.of])
  <2>1. dir' = Idle /\ UNCHANGED <<row, handed, phase, net>>
    BY <1>4 DEF InsertFile, Step, network
  <2>2. QED
    BY <1>1, <2>1 DEF OnceInv, HandedOnce, NetHands, DirHands, Known
<1>5. QED
  BY <1>3, <1>4

\* Handing on: the count of the thread's own job becomes one.
LEMMA EnqueueOnce ==
    ASSUME TakenInv, OnceInv, EnqueueJob \/ EnqueueFile
    PROVE  OnceInv'
<1>1. CASE EnqueueJob
  <2>1. net.at = "enqueue" /\ net # Idle
    BY <1>1 DEF EnqueueJob, Handle, Idle
  <2>2. /\ Content[net.of] \in Job /\ Known(Content[net.of]) /\ NetHands
    BY <2>1 DEF TakenInv, AtWork, NetHands
  <2>3. /\ net' = Idle /\ UNCHANGED <<row, phase, dir>>
        /\ handed' = [handed EXCEPT ![Content[net.of]] = handed[Content[net.of]] + 1]
    BY <1>1 DEF EnqueueJob, Handle, Enqueue, directory
  <2>a. handed[Content[net.of]] = 0
    BY <2>2 DEF OnceInv
  <2>b. handed \in [Job -> Nat]
    BY DEF TakenInv, TypeOK
  <2>4. handed'[Content[net.of]] = 1
    BY <2>2, <2>3, <2>a, <2>b
  <2>5. \A j \in Job : j # Content[net.of] => handed'[j] = handed[j]
    BY <2>3, <2>b
  <2>6. DirHands => Content[dir.of] \in Job /\ Content[net.of] # Content[dir.of]
    BY <2>2 DEF TakenInv, AtWork, OnceInv, DirHands
  <2>7. HandedOnce' /\ (\A j \in Job : ~Known(j) => handed[j] = 0)'
    BY <2>2, <2>3, <2>4, <2>5 DEF OnceInv, HandedOnce, Known
  <2>8. phase' # "down" /\ ~NetHands'
    BY <2>1, <2>3 DEF OnceInv, NetHands
  <2>9. (DirHands => handed[Content[dir.of]] = 0)'
    BY <2>3, <2>5, <2>6 DEF OnceInv, DirHands
  <2>10. QED
    BY <2>7, <2>8, <2>9 DEF OnceInv
<1>2. CASE EnqueueFile
  <2>1. dir.at = "enqueue" /\ dir # Idle
    <3>1. dir.at = "enqueue" /\ Idle.at = "idle"
      BY <1>2 DEF EnqueueFile, Step, Idle
    <3>2. QED
      BY <3>1
  <2>2. /\ Content[dir.of] \in Job /\ Known(Content[dir.of]) /\ DirHands
    BY <2>1 DEF TakenInv, AtWork, DirHands
  <2>3. /\ dir' = Idle /\ UNCHANGED <<row, phase, net>>
        /\ handed' = [handed EXCEPT ![Content[dir.of]] = handed[Content[dir.of]] + 1]
    BY <1>2 DEF EnqueueFile, Step, Enqueue, network
  <2>a. handed[Content[dir.of]] = 0
    BY <2>2 DEF OnceInv
  <2>b. handed \in [Job -> Nat]
    BY DEF TakenInv, TypeOK
  <2>4. handed'[Content[dir.of]] = 1
    BY <2>2, <2>3, <2>a, <2>b
  <2>5. \A j \in Job : j # Content[dir.of] => handed'[j] = handed[j]
    BY <2>3, <2>b
  <2>6. NetHands => Content[net.of] \in Job /\ Content[net.of] # Content[dir.of]
    BY <2>2 DEF TakenInv, AtWork, OnceInv, NetHands
  <2>7. HandedOnce' /\ (\A j \in Job : ~Known(j) => handed[j] = 0)'
    BY <2>2, <2>3, <2>4, <2>5 DEF OnceInv, HandedOnce, Known
  <2>8. phase' # "down" /\ ~DirHands'
    BY <2>1, <2>3 DEF OnceInv, DirHands
  <2>9. (NetHands => handed[Content[net.of]] = 0)'
    BY <2>3, <2>5, <2>6 DEF OnceInv, NetHands
  <2>10. QED
    BY <2>7, <2>8, <2>9 DEF OnceInv
<1>3. QED
  BY <1>1, <1>2

\* A thread that neither inserts nor hands on begins nothing it would hand on.
LEMMA WorkOnce ==
    ASSUME OnceInv, UNCHANGED <<row, handed, phase>>, phase # "down",
           NetHands' => NetHands /\ net'.of = net.of,
           DirHands' => DirHands /\ dir'.of = dir.of
    PROVE  OnceInv'
BY DEF OnceInv, HandedOnce, Known

\* The network thread's other steps.
LEMMA NetOnce ==
    ASSUME TakenInv, OnceInv,
           \/ \E m \in Msg : Receive(m)
           \/ SelectJob \/ Ack("ack", "enqueue") \/ Ack("reply", "done") \/ Ack("refuse", "done")
    PROVE  OnceInv'
<1>1. UNCHANGED <<row, handed, phase, dir>>
  BY DEF Receive, SelectJob, Ack, Handle, directory
<1>2. phase # "down"
  BY DEF OnceInv, Receive, SelectJob, Ack, Handle, Idle
<1>3. NetHands' => NetHands /\ net'.of = net.of
  BY DEF Receive, SelectJob, Ack, Handle, NetHands, At, Idle
<1>4. DirHands' => DirHands /\ dir'.of = dir.of
  BY <1>1 DEF DirHands
<1>5. QED
  BY <1>1, <1>2, <1>3, <1>4, WorkOnce

\* The poll's other steps.
LEMMA DirOnce ==
    ASSUME TakenInv, OnceInv,
           \/ \E f \in File : ReadFile(f)
           \/ SelectFile \/ Rename("rename new", "enqueue") \/ Rename("rename", "done")
    PROVE  OnceInv'
<1>1. UNCHANGED <<row, handed, phase, net>>
  BY DEF ReadFile, SelectFile, Rename, Step, network
<1>3. DirHands' => DirHands /\ dir'.of = dir.of
  <2>1. CASE \E f \in File : ReadFile(f)
    <3>1. PICK f \in File : dir' = Idle \/ dir' = At("select", f)
      BY <2>1 DEF ReadFile
    <3>2. At("select", f).at = "select"
      BY DEF At
    <3>3. dir' # Idle => dir'.at = "select"
      BY <3>1, <3>2
    <3>4. QED
      BY <3>3 DEF DirHands, Idle
  <2>2. CASE SelectFile
    BY <2>2 DEF SelectFile, Step, DirHands, At
  <2>3. CASE Rename("rename new", "enqueue")
    <3>1. dir.at = "rename new" /\ Idle.at = "idle"
      BY <2>3 DEF Rename, Step, Idle
    <3>2. dir' = At("enqueue", dir.of)
      BY <2>3 DEF Rename, Step
    <3>3. QED
      BY <3>1, <3>2 DEF DirHands, At
  <2>4. CASE Rename("rename", "done")
    BY <2>4 DEF Rename, Step, DirHands
  <2>5. QED
    BY <2>1, <2>2, <2>3, <2>4
<1>4. NetHands' => NetHands /\ net'.of = net.of
  BY <1>1 DEF NetHands
<1>5. CASE phase # "down"
  BY <1>1, <1>3, <1>4, <1>5, WorkOnce
<1>6. CASE phase = "down"
  <2>1. dir = Idle
    BY <1>6 DEF OnceInv
  <2>2. dir.at = "idle"
    BY <2>1 DEF Idle
  <2>3. ~SelectFile /\ ~Rename("rename new", "enqueue") /\ ~Rename("rename", "done")
    BY <2>2 DEF SelectFile, Rename, Step
  <2>4. glob = {}
    BY <1>6 DEF OnceInv
  <2>5. QED
    BY <2>3, <2>4 DEF ReadFile
<1>7. QED
  BY <1>5, <1>6


\* A new process starts to count with what recover() hands over.
LEMMA BootOnce ==
    ASSUME TakenInv, OnceInv, Boot
    PROVE  OnceInv'
<1>1. /\ phase' # "down" /\ UNCHANGED <<net, dir, row>>
      /\ net = Idle /\ dir = Idle
      /\ handed' = [j \in Job |-> IF row[j] = "queued" THEN 1 ELSE 0]
  BY DEF Boot, OnceInv, network, directory
<1>2. HandedOnce' /\ (\A j \in Job : ~Known(j) => handed[j] = 0)'
  BY <1>1 DEF HandedOnce, Known
<1>3. ~NetHands' /\ ~DirHands'
  BY <1>1 DEF NetHands, DirHands
<1>4. QED
  BY <1>1, <1>2, <1>3 DEF OnceInv

LEMMA OtherOnce ==
    ASSUME TakenInv, OnceInv,
           \/ \E m \in Msg : Publish(m)
           \/ \E f \in File : Copy(f) \/ Complete(f)
           \/ \E j \in Job : Answer(j)
           \/ Poll \/ Boot \/ Start \/ Crash \/ Connect \/ Disconnect \/ Cut
           \/ UNCHANGED vars
    PROVE  OnceInv'
<1>1. CASE \E j \in Job : Answer(j)
  <2>1. phase # "down" /\ UNCHANGED <<phase, net, dir, handed>>
    BY <1>1 DEF Answer, network, directory
  <2>2. \A j \in Job : row'[j] = "absent" => row[j] = "absent"
    BY <1>1 DEF Answer, TakenInv, TypeOK
  <2>3. QED
    BY <2>1, <2>2 DEF OnceInv, HandedOnce, NetHands, DirHands, Known
<1>2. CASE Crash
  BY <1>2 DEF OnceInv, HandedOnce, NetHands, DirHands, Known, Crash
<1>3. CASE (\E f \in File : Copy(f) \/ Complete(f)) \/ UNCHANGED vars
  BY <1>3 DEF OnceInv, HandedOnce, NetHands, DirHands, Known, Copy, Complete, vars,
     network, directory
<1>4. CASE (\E m \in Msg : Publish(m)) \/ Poll \/ Start \/ Connect \/ Disconnect \/ Cut
  BY <1>4 DEF OnceInv, HandedOnce, NetHands, DirHands, Known, Publish, Poll, Start,
     Connect, Disconnect, Cut, network, directory
<1>5. QED
  BY <1>1, <1>2, <1>3, <1>4, BootOnce

LEMMA OnceStep == TakenInv /\ OnceInv /\ [Next]_vars => OnceInv'
BY InsertJobOnce, InsertFileOnce, EnqueueOnce, NetOnce, DirOnce, OtherOnce
DEF Next, OnMessage, PollStep

\* A job that comes as several deliveries and as a file enters a process's
\* print loop once: of two try_insert that both saw no row, one fails on the
\* UNIQUE key and hands nothing on.
THEOREM HandedOnOnce == Spec => []HandedOnce
<1>1. OnceInv => HandedOnce
  BY DEF OnceInv
<1>2. QED
  BY <1>1, AlwaysTaken, InitOnce, OnceStep, PTL DEF Spec

=============================================================================
