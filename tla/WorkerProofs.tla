---------------------------- MODULE WorkerProofs ----------------------------
(***************************************************************************)
(* Proofs about PrintWorker, for every set of jobs, every contract and     *)
(* every configuration the assumptions allow.                              *)
(***************************************************************************)
EXTENDS WorkerProperties, FiniteSetTheorems, SequenceTheorems, TLAPS

-----------------------------------------------------------------------------
(***************************************************************************)
(* What the contract says of a label.                                      *)
(***************************************************************************)
LEMMA LabelFacts ==
    ASSUME NEW j \in Job
    PROVE  /\ Contract[j] \in Envelope
           /\ Label(j) \subseteq Index
           /\ \A i \in Label(j) : /\ Copies(j, i) \in Nat \ {0}
                                  /\ KeyOf(j, i) \in Key \cup {NoKey}
                                  /\ <<j, i>> \in Item
<1>1. Contract[j] \in Envelope
  BY ContractAssumption
<1>2. Label(j) \subseteq Index
  BY DEF Index
<1>3. ASSUME NEW i \in Label(j)
      PROVE  Contract[j].labels[i] \in LabelSpec
  BY <1>1 DEF Envelope, Label
<1>4. ASSUME NEW i \in Label(j)
      PROVE  /\ Copies(j, i) \in Nat \ {0}
             /\ KeyOf(j, i) \in Key \cup {NoKey}
  BY <1>3 DEF LabelSpec, Copies, KeyOf
<1>5. ASSUME NEW i \in Label(j)
      PROVE  <<j, i>> \in Item
  BY <1>2 DEF Item
<1> QED
  BY <1>1, <1>2, <1>4, <1>5

\* Creation ranks are naturals: the table is finite.
LEMMA RankType ==
    Cardinality({k \in Job : state[k] # "absent"}) \in Nat
BY JobAssumption, FS_Subset, FS_CardinalityType

\* The items of a frame, and their jobs, are items and jobs.
LEMMA JobsOfType ==
    ASSUME NEW s \in Seq(Item)
    PROVE  JobsOf(s) \subseteq Job
<1>1. ASSUME NEW n \in DOMAIN s
      PROVE  s[n] \in Item
  OBVIOUS
<1> QED
  BY <1>1 DEF JobsOf, Item

\* Counting what came out of the printer yields naturals.
LEMMA PrintedType ==
    ASSUME tape \in [Job -> [Index -> Nat]], batch \in Seq(Item),
           NEW k \in 0..Len(batch)
    PROVE  Printed(k) \in [Job -> [Index -> Nat]]
<1>1. ASSUME NEW it
      PROVE  Occurs(it, SubSeq(batch, 1, k)) \in Nat
  <2>1. DOMAIN SubSeq(batch, 1, k) = 1..k
    BY SubSeqProperties
  <2>2. IsFiniteSet(1..k)
    BY FS_Interval
  <2>3. {n \in 1..k : SubSeq(batch, 1, k)[n] = it} \subseteq 1..k
    OBVIOUS
  <2> QED
    BY <2>1, <2>2, <2>3, FS_Subset, FS_CardinalityType DEF Occurs
<1>2. ASSUME NEW j \in Job, NEW i \in Index, <<j, i>> \in Item
      PROVE  Copies(j, i) \in Nat
  BY <1>2, LabelFacts DEF Item
<1> QED
  BY <1>1, <1>2 DEF Printed

-----------------------------------------------------------------------------
(***************************************************************************)
(* Type correctness.  TypeOK alone is not inductive: a submission on the   *)
(* stack has a job, and what it has left to print are labels of that job.  *)
(***************************************************************************)
CurOK ==
    /\ pc \in {"submit", "render", "strip", "discrete"} => cur \in Job
    /\ pc \in {"connect", "frame", "credit", "fail"} /\ ~strip => cur \in Job

TodoOK == cur \in Job /\ pc # "submit" => todo \in Seq(Label(cur))

TypeInv == TypeOK /\ CurOK /\ TodoOK

TallyTypeOK == acc \in [Job -> Tally]

LEMMA TallyTypes == NoTally \in Tally /\ NewTally \in Tally
BY DEF NoTally, NewTally, Tally, Zero, NoLabels, LabelState

LEMMA ResultType ==
    ASSUME TallyTypeOK, NEW j \in Job
    PROVE  ResultOf(j) \in Result
<1>1. acc[j] \in Tally
  BY DEF TallyTypeOK
<1>2. ASSUME NEW i \in Index
      PROVE  LabelOutcome(acc[j], i) \in LabelState
  BY <1>1 DEF LabelOutcome, Tally, LabelState
<1>3. "none" \in LabelState
  BY DEF LabelState
<1>4. [i \in Index |-> IF i \in Label(j) THEN LabelOutcome(acc[j], i) ELSE "none"]
        \in [Index -> LabelState]
  BY <1>2, <1>3
<1>5. acc[j].partial \in BOOLEAN
  BY <1>1 DEF Tally
<1> QED
  BY <1>4, <1>5 DEF ResultOf, Result, JobState

LEMMA FinishType ==
    ASSUME SpoolTypeOK, NEW j \in Job, NEW r \in Result, r.state # "none",
           Finish(j, r)
    PROVE  SpoolTypeOK'
BY DEF SpoolTypeOK, Finish, Result, RowState

LEMMA FinalizeType ==
    ASSUME SpoolTypeOK, TallyTypeOK, NEW j \in Job, Finalize(j)
    PROVE  SpoolTypeOK' /\ TallyTypeOK'
<1>1. ResultOf(j).state # "none"
  BY DEF ResultOf
<1>2. SpoolTypeOK'
  BY <1>1, ResultType, FinishType DEF Finalize
<1>3. TallyTypeOK'
  BY TallyTypes DEF Finalize, TallyTypeOK
<1> QED
  BY <1>2, <1>3

LEMMA MaybeFinalizeType ==
    ASSUME SpoolTypeOK, TallyTypeOK, NEW j \in Job, MaybeFinalize(j)
    PROVE  SpoolTypeOK' /\ TallyTypeOK'
<1>1. CASE Finalize(j)
  BY <1>1, FinalizeType
<1>2. CASE UNCHANGED <<spoolVars, acc>>
  BY <1>2 DEF SpoolTypeOK, TallyTypeOK, spoolVars
<1> QED
  BY <1>1, <1>2 DEF MaybeFinalize

LEMMA ForgetType ==
    ASSUME Forget
    PROVE  /\ pending' = <<>> /\ batch' = <<>> /\ inbox' = <<>> /\ todo' = <<>>
           /\ TallyTypeOK'
           /\ scan' = {} /\ cooling' = {} /\ cur' = NoJob /\ handing' = NoJob
           /\ pc' = "boot" /\ caller' = "none" /\ status' = "disconnected"
           /\ stopping' = FALSE /\ strip' = FALSE
           /\ label' = 0 /\ at' = 0 /\ attempt' = 0
BY TallyTypes DEF Forget, NoSend, TallyTypeOK

LEMMA SendStripType ==
    ASSUME NEW s \in Seq(Item), SendStrip(s)
    PROVE  /\ batch' \in Seq(Item) /\ pending' \in Seq(Item)
           /\ strip' = TRUE /\ attempt' = 0 /\ at' = 0 /\ status' = "printing"
BY DEF SendStrip

\* Each group of steps preserves the types.
USE DEF SpoolTypeOK, spoolVars, sendVars, submitVars, loopVars, memVars, inVars,
        ghostVars, TallyTypeOK

LEMMA LoopType == TypeInv /\ Loop => TypeInv'
<1> SUFFICES ASSUME TypeInv, Loop PROVE TypeInv'
  OBVIOUS
<1> USE DEF TypeInv, TypeOK, CurOK, TodoOK, PC, Caller
<1>1. CASE Boot
  BY <1>1 DEF Boot, Queued
<1>2. CASE ScanDone
  BY <1>2 DEF ScanDone, Goto
<1>3. CASE PollDone
  BY <1>3 DEF PollDone
<1>4. CASE GetJob
  BY <1>4 DEF GetJob
<1>5. CASE GetFlush
  <2>1. inbox' \in Seq(Job \cup {FlushCmd})
    BY <1>5 DEF GetFlush
  <2>2. CASE pending = <<>>
    BY <1>5, <2>1, <2>2 DEF GetFlush
  <2>3. CASE pending # <<>>
    <3>1. SendStrip(pending)
      BY <1>5, <2>3 DEF GetFlush
    <3>2. /\ batch' \in Seq(Item) /\ pending' \in Seq(Item)
          /\ strip' = TRUE /\ attempt' = 0 /\ at' = 0 /\ status' = "printing"
      BY <3>1, SendStripType
    <3> QED
      BY <1>5, <2>1, <2>3, <3>2 DEF GetFlush
  <2> QED
    BY <2>2, <2>3
<1>6. CASE Tick
  <2>1. CASE SendStrip(pending)
    <3>1. /\ batch' \in Seq(Item) /\ pending' \in Seq(Item)
          /\ strip' = TRUE /\ attempt' = 0 /\ at' = 0 /\ status' = "printing"
      BY <2>1, SendStripType
    <3> QED
      BY <1>6, <2>1, <3>1 DEF Tick
  <2>2. CASE ~SendStrip(pending)
    BY <1>6, <2>2 DEF Tick
  <2> QED
    BY <2>1, <2>2
<1>7. CASE RetryQueued
  BY <1>7 DEF RetryQueued, Queued
<1>8. CASE Shutdown
  <2>1. CASE SendStrip(pending)
    <3>1. /\ batch' \in Seq(Item) /\ pending' \in Seq(Item)
          /\ strip' = TRUE /\ attempt' = 0 /\ at' = 0 /\ status' = "printing"
      BY <2>1, SendStripType
    <3> QED
      BY <1>8, <2>1, <3>1 DEF Shutdown
  <2>2. CASE ~SendStrip(pending)
    BY <1>8, <2>2 DEF Shutdown
  <2> QED
    BY <2>1, <2>2
<1>9. CASE Exit
  BY <1>9, ForgetType DEF Exit
<1>10. ASSUME NEW j \in Job, Resubmit(j)
      PROVE  TypeInv'
  BY <1>10 DEF Resubmit
<1> QED
  BY <1>1, <1>2, <1>3, <1>4, <1>5, <1>6, <1>7, <1>8, <1>9, <1>10 DEF Loop

\* c copies of e.
LEMMA RepeatType ==
    ASSUME NEW S, NEW c \in Nat, NEW e \in S
    PROVE  [n \in 1..c |-> e] \in Seq(S)
<1>1. [n \in 1..c |-> e] \in [1..c -> S]
  OBVIOUS
<1>2. [1..c -> S] \in {[1..n -> S] : n \in Nat}
  OBVIOUS
<1> QED
  BY <1>1, <1>2, SeqDef

\* The updates of a tally keep its type.
LEMMA TallyUpdates ==
    ASSUME TallyTypeOK, NEW j \in Job, NEW i \in Index
    PROVE  /\ \A s \in LabelState : [acc EXCEPT ![j].render[i] = s] \in [Job -> Tally]
           /\ \A n \in Nat : [acc EXCEPT ![j].expected[i] = n] \in [Job -> Tally]
           /\ [acc EXCEPT ![j].done[i] = @ + 1] \in [Job -> Tally]
           /\ \A p \in BOOLEAN : [acc EXCEPT ![j].failed[i] = @ + 1, ![j].partial = @ \/ p]
                                    \in [Job -> Tally]
<1> DEFINE a == acc[j]
<1>1. a \in Tally
  OBVIOUS
<1>2. ASSUME NEW s \in LabelState
      PROVE  [acc EXCEPT ![j].render[i] = s] \in [Job -> Tally]
  <2>1. [a EXCEPT !.render[i] = s] \in Tally
    BY <1>1 DEF Tally
  <2> QED
    BY <2>1
<1>3. ASSUME NEW n \in Nat
      PROVE  [acc EXCEPT ![j].expected[i] = n] \in [Job -> Tally]
  <2>1. [a EXCEPT !.expected[i] = n] \in Tally
    BY <1>1 DEF Tally
  <2> QED
    BY <2>1
<1>4. [acc EXCEPT ![j].done[i] = @ + 1] \in [Job -> Tally]
  <2> DEFINE n == a.done[i] + 1
  <2>1. n \in Nat
    BY <1>1 DEF Tally
  <2> HIDE DEF n
  <2>2. [a EXCEPT !.done[i] = n] \in Tally
    BY <1>1, <2>1 DEF Tally
  <2> QED
    BY <2>2 DEF n
<1>5. ASSUME NEW p \in BOOLEAN
      PROVE  [acc EXCEPT ![j].failed[i] = @ + 1, ![j].partial = @ \/ p]
               \in [Job -> Tally]
  <2> DEFINE n == a.failed[i] + 1
  <2>1. n \in Nat
    BY <1>1 DEF Tally
  <2> HIDE DEF n
  <2>2. [a EXCEPT !.failed[i] = n, !.partial = @ \/ p] \in Tally
    BY <1>1, <2>1 DEF Tally
  <2> QED
    BY <2>2 DEF n
<1> QED
  BY <1>2, <1>3, <1>4, <1>5

LEMMA SubmitType == TypeInv /\ Submit => TypeInv'
<1> SUFFICES ASSUME TypeInv, Submit PROVE TypeInv'
  OBVIOUS
<1> USE DEF TypeInv, TypeOK, CurOK, TodoOK, PC, Caller
<1>1. CASE Reject
  <2>1. cur \in Job
    BY <1>1 DEF Reject
  <2>2. Rejection \in Result /\ Rejection.state # "none"
    BY DEF Rejection, NoResult, NoLabels, Result, JobState, LabelState
  <2>3. SpoolTypeOK'
    BY <1>1, <2>1, <2>2, FinishType DEF Reject
  <2> QED
    BY <1>1, <2>3 DEF Reject, EndSubmit, Return, ReturnTo
<1>2. CASE Accept
  BY <1>2, TallyTypes DEF Accept, Mark, Goto, RowState
<1>3. CASE RenderLabel
  <2>1. cur \in Job /\ label \in Label(cur) /\ label \in Index
    BY <1>3, LabelFacts DEF RenderLabel
  <2>2. ASSUME NEW s \in LabelState, Settle(label, s)
        PROVE  SpoolTypeOK' /\ TallyTypeOK' /\ todo' = todo
    BY <2>1, <2>2, TallyUpdates DEF Settle
  <2>3. ASSUME QueueCopies(label)
        PROVE  SpoolTypeOK' /\ TallyTypeOK' /\ todo' \in Seq(Label(cur))
    <3>1. Copies(cur, label) \in Nat /\ KeyOf(cur, label) \in Key \cup {NoKey}
      BY <2>1, LabelFacts
    <3>2. TallyTypeOK'
      BY <2>1, <2>3, <3>1, TallyUpdates DEF QueueCopies
    <3>3. [n \in 1..Copies(cur, label) |-> label] \in Seq(Label(cur))
      BY <2>1, <3>1, RepeatType
    <3>4. todo \in Seq(Label(cur))
      BY <1>3, <2>1 DEF RenderLabel
    <3>5. todo' \in Seq(Label(cur))
      BY <2>3, <3>3, <3>4, ConcatProperties DEF QueueCopies
    <3>6. SpoolTypeOK'
      BY <2>3, <3>1 DEF QueueCopies, RecordDedupe
    <3> QED
      BY <3>2, <3>5, <3>6
  <2>4. {"printed", "skipped", "failed"} \subseteq LabelState
    BY DEF LabelState
  <2>5. SpoolTypeOK' /\ TallyTypeOK' /\ todo' \in Seq(Label(cur))
    BY <1>3, <2>1, <2>2, <2>3, <2>4 DEF RenderLabel
  <2>6. todo' \in Seq(Index)
    BY <2>1, <2>5, LabelFacts, SeqMonotonic
  <2> QED
    BY <1>3, <2>1, <2>5, <2>6 DEF RenderLabel
<1>4. CASE NothingToPrint
  <2>1. SpoolTypeOK' /\ TallyTypeOK'
    BY <1>4, FinalizeType DEF NothingToPrint
  <2> QED
    BY <1>4, <2>1 DEF NothingToPrint, EndSubmit, Return, ReturnTo
<1>5. CASE StartPrinting
  BY <1>5 DEF StartPrinting, Goto
<1>6. CASE AddLabel
  <2>1. cur \in Job /\ todo \in Seq(Label(cur)) /\ todo # <<>>
    BY <1>6 DEF AddLabel
  <2>2. <<cur, Head(todo)>> \in Item /\ Tail(todo) \in Seq(Label(cur))
    BY <2>1, LabelFacts, HeadTailProperties
  <2>3. Append(pending, <<cur, Head(todo)>>) \in Seq(Item)
    BY <2>2, AppendProperties
  <2>4. todo' \in Seq(Label(cur)) /\ todo' \in Seq(Index)
    BY <1>6, <2>2, LabelFacts, <2>1, SeqMonotonic DEF AddLabel
  <2>5. CASE IsFull(Append(pending, <<cur, Head(todo)>>))
    <3>1. SendStrip(Append(pending, <<cur, Head(todo)>>)) /\ Goto("connect")
      BY <1>6, <2>5 DEF AddLabel
    <3>2. /\ batch' \in Seq(Item) /\ pending' \in Seq(Item)
          /\ strip' = TRUE /\ attempt' = 0 /\ at' = 0 /\ status' = "printing"
      BY <2>3, <3>1, SendStripType
    <3> QED
      BY <1>6, <2>1, <2>4, <3>1, <3>2 DEF AddLabel, Goto
  <2>6. CASE ~IsFull(Append(pending, <<cur, Head(todo)>>))
    BY <1>6, <2>1, <2>3, <2>4, <2>6 DEF AddLabel
  <2> QED
    BY <2>5, <2>6
<1>7. CASE FlushJob
  <2>1. /\ batch' \in Seq(Item) /\ pending' \in Seq(Item)
        /\ strip' = TRUE /\ attempt' = 0 /\ at' = 0 /\ status' = "printing"
    BY <1>7, SendStripType DEF FlushJob
  <2> QED
    BY <1>7, <2>1 DEF FlushJob, Goto
<1>8. CASE Buffered
  <2>1. SpoolTypeOK' /\ TallyTypeOK'
    BY <1>8, MaybeFinalizeType DEF Buffered
  <2> QED
    BY <1>8, <2>1 DEF Buffered, EndSubmit, Return, ReturnTo
<1>9. CASE FlushBefore
  <2>1. /\ batch' \in Seq(Item) /\ pending' \in Seq(Item)
        /\ strip' = TRUE /\ attempt' = 0 /\ at' = 0 /\ status' = "printing"
    BY <1>9, SendStripType DEF FlushBefore
  <2> QED
    BY <1>9, <2>1 DEF FlushBefore, Goto
<1>10. CASE SendLabel
  <2>1. cur \in Job /\ todo \in Seq(Label(cur)) /\ todo # <<>>
    BY <1>10 DEF SendLabel
  <2>2. <<cur, Head(todo)>> \in Item /\ Tail(todo) \in Seq(Label(cur))
    BY <2>1, LabelFacts, HeadTailProperties
  <2>3. todo' \in Seq(Label(cur)) /\ todo' \in Seq(Index)
    BY <1>10, <2>2, LabelFacts, <2>1, SeqMonotonic DEF SendLabel
  <2>4. batch' \in Seq(Item)
    BY <1>10, <2>2 DEF SendLabel
  <2> QED
    BY <1>10, <2>1, <2>3, <2>4 DEF SendLabel, Goto
<1>11. CASE DiscreteDone
  <2>1. SpoolTypeOK' /\ TallyTypeOK'
    BY <1>11, MaybeFinalizeType DEF DiscreteDone
  <2> QED
    BY <1>11, <2>1 DEF DiscreteDone, EndSubmit, Return, ReturnTo
<1> QED
  BY <1>1, <1>2, <1>3, <1>4, <1>5, <1>6, <1>7, <1>8, <1>9, <1>10, <1>11 DEF Submit

LEMMA NoSendType ==
    ASSUME NoSend
    PROVE  batch' \in Seq(Item) /\ strip' = FALSE /\ attempt' = 0 /\ at' = 0
BY EmptySeq DEF NoSend

LEMMA ReturnType == ReturnTo(caller) \in {"scan", "retry", "exit", "idle"}
BY DEF ReturnTo

LEMMA ResumeFlushType ==
    ASSUME TypeInv, ResumeFlush
    PROVE  /\ batch' \in Seq(Item) /\ strip' = FALSE /\ attempt' = 0 /\ at' = 0
           /\ pc' \in PC /\ caller' \in Caller
           /\ UNCHANGED <<scan, cur, label, todo>>
           /\ CurOK' /\ (pc # "submit" => TodoOK')
<1>1. NoSend /\ UNCHANGED submitVars
  BY DEF ResumeFlush
<1>2. CASE cur = NoJob
  BY <1>1, <1>2, NoSendType, ReturnType, JobAssumption
  DEF ResumeFlush, Return, TypeInv, TypeOK, PC, Caller, CurOK, TodoOK
<1>3. CASE cur # NoJob
  <2>1. cur \in Job
    BY <1>3 DEF TypeInv, TypeOK
  <2>2. /\ pc' \in {"strip", "discrete"} /\ caller' = caller
        /\ UNCHANGED <<scan, cur, label, todo>>
    BY <1>1, <1>3 DEF ResumeFlush, Goto
  <2> QED
    BY <1>1, <2>1, <2>2, NoSendType DEF TypeInv, TypeOK, PC, Caller, CurOK, TodoOK
<1> QED
  BY <1>2, <1>3

\* A job that ends its submission leaves no type obligation behind.
LEMMA EndSubmitType ==
    ASSUME TypeInv, EndSubmit
    PROVE  /\ pc' \in {"scan", "retry", "exit", "idle"} /\ caller' \in Caller
           /\ cur' = NoJob /\ label' = 0 /\ todo' = <<>> /\ scan' = scan
BY ReturnType DEF EndSubmit, Return, TypeInv, TypeOK, Caller

LEMMA StallType ==
    ASSUME TypeInv, NEW jobs \in SUBSET Job, Stall(jobs)
    PROVE  SpoolTypeOK' /\ TallyTypeOK' /\ cooling' \in SUBSET Job
<1>1. SpoolTypeOK'
  BY DEF Stall, Requeue, RowState, TypeInv, TypeOK
<1>2. TallyTypeOK'
  BY TallyTypes DEF Stall, TypeInv, TypeOK
<1>3. cooling' \in SUBSET Job
  BY DEF Stall, TypeInv, TypeOK
<1> QED
  BY <1>1, <1>2, <1>3

LEMMA SendType == TypeInv /\ Send => TypeInv'
<1> SUFFICES ASSUME TypeInv, Send PROVE TypeInv'
  OBVIOUS
<1> USE DEF TypeInv, TypeOK, CurOK, TodoOK, PC, Caller
<1>1. CASE ConnectOk
  BY <1>1 DEF ConnectOk, Goto
<1>2. CASE ConnectRetry
  BY <1>2 DEF ConnectRetry
<1>3. CASE ConnectFailed
  <2>1. SpoolTypeOK' /\ TallyTypeOK' /\ cooling' \in SUBSET Job
    BY <1>3, JobsOfType, StallType DEF ConnectFailed
  <2>2. /\ status' = "disconnected" /\ pc = "connect"
        /\ UNCHANGED <<pending, inVars, ghostVars>>
    BY <1>3 DEF ConnectFailed
  <2>3. CASE strip
    <3>1. ResumeFlush
      BY <1>3, <2>3 DEF ConnectFailed
    <3>2. /\ batch' \in Seq(Item) /\ strip' = FALSE /\ attempt' = 0 /\ at' = 0
          /\ pc' \in PC /\ caller' \in Caller
          /\ UNCHANGED <<scan, cur, label, todo>>
          /\ CurOK' /\ TodoOK'
      BY <2>2, <3>1, ResumeFlushType
    <3> QED
      BY <2>1, <2>2, <3>2
  <2>4. CASE ~strip
    <3>1. EndSubmit /\ NoSend
      BY <1>3, <2>4 DEF ConnectFailed
    <3>2. /\ pc' \in {"scan", "retry", "exit", "idle"} /\ caller' \in Caller
          /\ cur' = NoJob /\ label' = 0 /\ todo' = <<>> /\ scan' = scan
      BY <3>1, EndSubmitType
    <3>3. batch' \in Seq(Item) /\ strip' = FALSE /\ attempt' = 0 /\ at' = 0
      BY <3>1, NoSendType
    <3> QED
      BY <2>1, <2>2, <3>2, <3>3, EmptySeq, JobAssumption
  <2> QED
    BY <2>3, <2>4
<1>4. CASE FrameOk
  <2>1. tape' \in [Job -> [Index -> Nat]]
    BY <1>4, PrintedType DEF FrameOk
  <2>2. lost' \in SUBSET Item
    BY <1>4 DEF FrameOk
  <2> QED
    BY <1>4, <2>1, <2>2 DEF FrameOk, Goto
<1>5. CASE FrameTorn
  <2>1. tape' \in [Job -> [Index -> Nat]]
    BY <1>5, PrintedType DEF FrameTorn
  <2>2. torn' \in SUBSET Item
    BY <1>5 DEF FrameTorn
  <2>3. /\ pc' \in {"connect", "fail"} /\ attempt' \in Nat /\ at' \in Nat
        /\ pc = "frame" /\ UNCHANGED <<caller, scan>>
        /\ UNCHANGED <<spoolVars, batch, strip, submitVars, memVars, inVars,
                       lost, crashes, commands, status>>
    BY <1>5 DEF FrameTorn, Goto
  <2> QED
    BY <2>1, <2>2, <2>3
<1>6. CASE Account
  <2>1. batch[at] \in Item
    BY <1>6 DEF Account
  <2>2. batch[at][1] \in Job /\ batch[at][2] \in Index
    BY <2>1 DEF Item
  <2>3. ASSUME NEW j \in Job, NEW i \in Index, CreditCopy(j, i)
        PROVE  SpoolTypeOK' /\ TallyTypeOK'
    <3>1. TallyTypeOK'
      BY <2>3, TallyUpdates DEF CreditCopy
    <3>2. CASE LabelPrinted(j, i)
      BY <3>1, <3>2 DEF LabelPrinted
    <3>3. CASE UNCHANGED spoolVars
      BY <3>1, <3>3
    <3> QED
      BY <2>3, <3>2, <3>3 DEF CreditCopy
  <2>4. ASSUME NEW j \in Job, NEW i \in Index, FailCopy(j, i)
        PROVE  SpoolTypeOK' /\ TallyTypeOK'
    <3>1. TallyTypeOK'
      BY <2>4, TallyUpdates DEF FailCopy
    <3>2. SpoolTypeOK'
      BY <2>4 DEF FailCopy
    <3> QED
      BY <3>1, <3>2
  <2>5. SpoolTypeOK' /\ TallyTypeOK'
    BY <1>6, <2>2, <2>3, <2>4 DEF Account
  <2>6. /\ at' = at + 1
        /\ UNCHANGED <<batch, strip, attempt, submitVars, loopVars, cooling,
                       pending, inVars, ghostVars, status>>
    BY <1>6 DEF Account
  <2> QED
    BY <2>5, <2>6
<1>7. CASE NoTallyToCredit
  <2>1. pc' \in {"scan", "retry", "exit", "idle"} /\ caller' \in Caller
    BY <1>7, ReturnType DEF NoTallyToCredit, Return
  <2>2. batch' \in Seq(Item) /\ strip' = FALSE /\ attempt' = 0 /\ at' = 0
    BY <1>7, NoSendType DEF NoTallyToCredit
  <2>3. /\ cur' = NoJob /\ label' = 0 /\ todo' = <<>>
        /\ UNCHANGED <<spoolVars, scan, memVars, inVars, ghostVars, status>>
    BY <1>7 DEF NoTallyToCredit
  <2> QED
    BY <2>1, <2>2, <2>3, EmptySeq, JobAssumption
<1>8. CASE Accounted
  <2>1. CASE strip
    BY <1>8, <2>1 DEF Accounted, Goto
  <2>2. CASE ~strip
    <3>1. NoSend /\ Goto("discrete") /\ cur \in Job
      BY <1>8, <2>2 DEF Accounted
    <3>2. batch' \in Seq(Item) /\ strip' = FALSE /\ attempt' = 0 /\ at' = 0
      BY <3>1, NoSendType
    <3> QED
      BY <1>8, <3>1, <3>2 DEF Accounted, Goto
  <2> QED
    BY <2>1, <2>2
<1>9. CASE SettleJob
  <2>1. batch[at] \in Item
    BY <1>9 DEF SettleJob
  <2>2. batch[at][1] \in Job
    BY <2>1 DEF Item
  <2>3. SpoolTypeOK' /\ TallyTypeOK'
    BY <1>9, <2>2, MaybeFinalizeType DEF SettleJob
  <2> QED
    BY <1>9, <2>3 DEF SettleJob
<1>10. CASE Settled
  <2>1. ResumeFlush /\ status' = "settled" /\ pc = "settle"
    BY <1>10 DEF Settled
  <2>2. UNCHANGED <<spoolVars, memVars, inVars, ghostVars>>
    BY <1>10 DEF Settled
  <2>3. /\ batch' \in Seq(Item) /\ strip' = FALSE /\ attempt' = 0 /\ at' = 0
        /\ pc' \in PC /\ caller' \in Caller
        /\ UNCHANGED <<scan, cur, label, todo>>
        /\ CurOK' /\ TodoOK'
    BY <2>1, ResumeFlushType
  <2> QED
    BY <2>1, <2>2, <2>3
<1> QED
  BY <1>1, <1>2, <1>3, <1>4, <1>5, <1>6, <1>7, <1>8, <1>9, <1>10 DEF Send

LEMMA WorldType == TypeInv /\ World => TypeInv'
<1> SUFFICES ASSUME TypeInv, World PROVE TypeInv'
  OBVIOUS
<1> USE DEF TypeInv, TypeOK, CurOK, TodoOK, PC, Caller
<1>1. ASSUME NEW j \in Job, PollFile(j)
      PROVE  TypeInv'
  BY <1>1, RankType DEF PollFile, Insert, RowState
<1>2. ASSUME NEW j \in Job, Deliver(j)
      PROVE  TypeInv'
  BY <1>2, RankType DEF Deliver, Insert, RowState
<1>3. ASSUME NEW j \in Job, GapPasses(j)
      PROVE  TypeInv'
  BY <1>3 DEF GapPasses
<1>4. CASE Enqueue
  BY <1>4 DEF Enqueue
<1>5. CASE FlushCommand
  BY <1>5 DEF FlushCommand
<1>6. CASE Stop
  BY <1>6 DEF Stop
<1>7. CASE Crash
  <2>1. tape' \in [Job -> [Index -> Nat]]
    BY <1>7, PrintedType DEF Crash
  <2>2. crashes' \in Nat /\ Forget /\ UNCHANGED <<spoolVars, torn, lost, commands>>
    BY <1>7 DEF Crash
  <2>3. /\ pending' = <<>> /\ batch' = <<>> /\ inbox' = <<>> /\ todo' = <<>>
        /\ TallyTypeOK'
        /\ scan' = {} /\ cooling' = {} /\ cur' = NoJob /\ handing' = NoJob
        /\ pc' = "boot" /\ caller' = "none" /\ status' = "disconnected"
        /\ stopping' = FALSE /\ strip' = FALSE
        /\ label' = 0 /\ at' = 0 /\ attempt' = 0
    BY <2>2, ForgetType
  <2> QED
    BY <2>1, <2>2, <2>3, EmptySeq, JobAssumption
<1> QED
  BY <1>1, <1>2, <1>3, <1>4, <1>5, <1>6, <1>7 DEF World

LEMMA TypeInit == Init => TypeInv
<1> SUFFICES ASSUME Init PROVE TypeInv
  OBVIOUS
<1>1. NoResult \in Result
  BY DEF NoResult, NoLabels, Result, LabelState
<1>2. SpoolTypeOK
  BY <1>1 DEF Init, SpoolInit, RowState
<1>3. TallyTypeOK
  BY TallyTypes DEF Init
<1>4. tape \in [Job -> [Index -> Nat]]
  BY DEF Init, Zero
<1> QED
  BY <1>2, <1>3, <1>4, EmptySeq, JobAssumption
  DEF Init, TypeInv, TypeOK, CurOK, TodoOK, PC, Caller

LEMMA TypeStep == TypeInv /\ [Next]_vars => TypeInv'
<1> SUFFICES ASSUME TypeInv, [Next]_vars PROVE TypeInv'
  OBVIOUS
<1>1. CASE Next
  BY <1>1, LoopType, SubmitType, SendType, WorldType DEF Next
<1>2. CASE UNCHANGED vars
  BY <1>2 DEF vars, TypeInv, TypeOK, CurOK, TodoOK
<1> QED
  BY <1>1, <1>2

\* The worker, the spool and the coalescer keep their types.
THEOREM TypeCorrect == Spec => []TypeOK
<1>1. TypeInv => TypeOK
  BY DEF TypeInv
<1> QED
  BY <1>1, TypeInit, TypeStep, PTL DEF Spec

-----------------------------------------------------------------------------
(***************************************************************************)
(* Every step does one of five things to the rows of the spool.             *)
(***************************************************************************)
Inserts(j)    == Insert(j, dedupe) \/ \E kept \in SUBSET dedupe : Insert(j, kept)
SameRows      == UNCHANGED <<state, result>>
AnswersJob(j) == \E r \in Result : r.state # "none" /\ Finish(j, r)

RowStep == \/ SameRows
           \/ \E j \in Job : Inserts(j)
           \/ \E j \in Job : Mark(j, "printing")
           \/ \E j \in Job : AnswersJob(j)
           \/ \E jobs \in SUBSET Job : Requeue(jobs)

LEMMA FinalizeAnswers ==
    ASSUME TypeInv, NEW j \in Job, Finalize(j)
    PROVE  AnswersJob(j)
<1>1. ResultOf(j) \in Result /\ ResultOf(j).state # "none"
  BY ResultType DEF TypeInv, TypeOK, ResultOf
<1> QED
  BY <1>1 DEF Finalize, AnswersJob

LEMMA MaybeFinalizeRows ==
    ASSUME TypeInv, NEW j \in Job, MaybeFinalize(j)
    PROVE  RowStep
BY FinalizeAnswers DEF MaybeFinalize, RowStep, SameRows

LEMMA NextRows == TypeInv /\ [Next]_vars => RowStep
<1> SUFFICES ASSUME TypeInv, [Next]_vars PROVE RowStep
  OBVIOUS
<1>1. CASE Loop
  BY <1>1 DEF Loop, Boot, ScanDone, PollDone, GetJob, GetFlush, Tick, RetryQueued, Shutdown, Exit, Resubmit,
              RowStep, SameRows
<1>2. CASE Submit
  <2>0. cur \in Job \/ pc \notin {"submit", "render", "strip", "discrete"}
    BY DEF TypeInv, CurOK
  <2>1. CASE Reject
    <3>1. Rejection \in Result /\ Rejection.state # "none"
      BY DEF Rejection, NoResult, NoLabels, Result, JobState, LabelState
    <3> QED
      BY <2>0, <2>1, <3>1 DEF Reject, RowStep, AnswersJob
  <2>2. CASE Accept
    BY <2>0, <2>2 DEF Accept, RowStep
  <2>3. CASE RenderLabel
    BY <2>3 DEF RenderLabel, Settle, QueueCopies, RecordDedupe, RowStep, SameRows
  <2>4. CASE NothingToPrint
    BY <2>0, <2>4, FinalizeAnswers DEF NothingToPrint, RowStep
  <2>5. CASE Buffered \/ DiscreteDone
    BY <2>0, <2>5, MaybeFinalizeRows DEF Buffered, DiscreteDone
  <2>6. CASE StartPrinting \/ AddLabel \/ FlushJob \/ FlushBefore \/ SendLabel
    BY <2>6 DEF StartPrinting, AddLabel, FlushJob, FlushBefore, SendLabel, RowStep, SameRows
  <2> QED
    BY <1>2, <2>1, <2>2, <2>3, <2>4, <2>5, <2>6 DEF Submit
<1>3. CASE Send
  <2>1. CASE ConnectFailed
    <3>1. JobsOf(batch) \in SUBSET Job
      BY JobsOfType DEF TypeInv, TypeOK
    <3> QED
      BY <2>1, <3>1 DEF ConnectFailed, Stall, RowStep
  <2>2. CASE Account
    BY <2>2 DEF Account, CreditCopy, FailCopy, LabelPrinted, RowStep, SameRows
  <2>3. CASE SettleJob
    <3>1. batch[at] \in Item
      BY <2>3 DEF SettleJob, TypeInv, TypeOK
    <3>2. batch[at][1] \in Job
      BY <3>1 DEF Item
    <3> QED
      BY <2>3, <3>2, MaybeFinalizeRows DEF SettleJob
  <2>4. CASE ConnectOk \/ ConnectRetry \/ FrameOk \/ FrameTorn \/ NoTallyToCredit
             \/ Accounted \/ Settled
    BY <2>4 DEF ConnectOk, ConnectRetry, FrameOk, FrameTorn, NoTallyToCredit,
                Accounted, Settled, RowStep, SameRows
  <2> QED
    BY <1>3, <2>1, <2>2, <2>3, <2>4 DEF Send
<1>4. CASE World
  <2>1. ASSUME NEW j \in Job, PollFile(j) \/ Deliver(j)
        PROVE  RowStep
    BY <2>1 DEF PollFile, Deliver, RowStep, Inserts
  <2>2. ASSUME NEW j \in Job, GapPasses(j)
        PROVE  RowStep
    BY <2>2 DEF GapPasses, RowStep, SameRows
  <2>3. CASE Enqueue \/ FlushCommand \/ Stop \/ Crash
    BY <2>3 DEF Enqueue, FlushCommand, Stop, Crash, RowStep, SameRows
  <2> QED
    BY <1>4, <2>1, <2>2, <2>3 DEF World
<1>5. CASE UNCHANGED vars
  BY <1>5 DEF vars, RowStep, SameRows
<1> QED
  BY <1>1, <1>2, <1>3, <1>4, <1>5 DEF Next

LEMMA AnsweredStep == TypeInv /\ QueuedOrAnswered /\ RowStep => QueuedOrAnswered'
<1> SUFFICES ASSUME TypeInv, QueuedOrAnswered, RowStep PROVE QueuedOrAnswered'
  OBVIOUS
<1> USE DEF QueuedOrAnswered, Queued, TypeInv, TypeOK
<1>1. CASE SameRows
  BY <1>1 DEF SameRows
<1>2. ASSUME NEW j \in Job, Inserts(j)
      PROVE  QueuedOrAnswered'
  BY <1>2 DEF Inserts, Insert
<1>3. ASSUME NEW j \in Job, Mark(j, "printing")
      PROVE  QueuedOrAnswered'
  BY <1>3 DEF Mark
<1>4. ASSUME NEW j \in Job, AnswersJob(j)
      PROVE  QueuedOrAnswered'
  BY <1>4 DEF AnswersJob, Finish
<1>5. ASSUME NEW jobs \in SUBSET Job, Requeue(jobs)
      PROVE  QueuedOrAnswered'
  BY <1>5 DEF Requeue
<1> QED
  BY <1>1, <1>2, <1>3, <1>4, <1>5 DEF RowStep

\* No job the agent has acknowledged is lost, in any configuration and for
\* any number of crashes: its row is on the recovery list or has its result.
THEOREM AcknowledgedNotLost == Spec => []QueuedOrAnswered
<1>1. Init => TypeInv /\ QueuedOrAnswered
  BY TypeInit DEF Init, SpoolInit, QueuedOrAnswered
<1>2. TypeInv /\ QueuedOrAnswered /\ [Next]_vars => (TypeInv /\ QueuedOrAnswered)'
  BY TypeStep, NextRows, AnsweredStep
<1> QED
  BY <1>1, <1>2, PTL DEF Spec

-----------------------------------------------------------------------------
(***************************************************************************)
(* What is reported printed is committed.  The result is built from the    *)
(* tally, so the tally must agree with the spool: a label it holds as      *)
(* printed, or whose copies it has all credited, is committed.  That is    *)
(* kept while the tally is being filled because nothing is credited yet.   *)
(***************************************************************************)
TallyCommitted ==
    \A j \in Job, i \in Index :
        /\ acc[j].render[i] = "printed" => i \in printed[j]
        /\ acc[j].expected[i] > 0 /\ acc[j].done[i] >= acc[j].expected[i]
              => i \in printed[j]

RenderFresh == pc = "render" => \A i \in Index : acc[cur].done[i] = 0

CommitInv == ReportedIsCommitted /\ TallyCommitted /\ RenderFresh

\* The result made from an agreeing tally reports only what is committed.
LEMMA FinalizeCommitted ==
    ASSUME TypeInv, ReportedIsCommitted, TallyCommitted, NEW j \in Job, Finalize(j)
    PROVE  ReportedIsCommitted' /\ TallyCommitted'
<1>1. ASSUME NEW i \in Index, ResultOf(j).label[i] = "printed"
      PROVE  i \in printed[j]
  <2>1. LabelOutcome(acc[j], i) = "printed"
    BY <1>1 DEF ResultOf
  <2> QED
    BY <2>1 DEF LabelOutcome, TallyCommitted
<1>2. printed' = printed /\ result' = [result EXCEPT ![j] = ResultOf(j)]
  BY DEF Finalize, Finish
<1>3. ReportedIsCommitted'
  BY <1>1, <1>2 DEF ReportedIsCommitted, TypeInv, TypeOK
<1>4. TallyCommitted'
  BY <1>2 DEF Finalize, TallyCommitted, NoTally, Zero, NoLabels, TypeInv, TypeOK
<1> QED
  BY <1>3, <1>4

LEMMA MaybeFinalizeCommitted ==
    ASSUME TypeInv, ReportedIsCommitted, TallyCommitted, NEW j \in Job,
           MaybeFinalize(j)
    PROVE  ReportedIsCommitted' /\ TallyCommitted'
<1>1. CASE Finalize(j)
  BY <1>1, FinalizeCommitted
<1>2. CASE UNCHANGED <<spoolVars, acc>>
  BY <1>2 DEF ReportedIsCommitted, TallyCommitted
<1> QED
  BY <1>1, <1>2 DEF MaybeFinalize

\* Steps that leave results, commits and tallies alone.
SameTallies == UNCHANGED <<result, printed, acc>>

LEMMA SameTalliesCommitted ==
    ASSUME ReportedIsCommitted, TallyCommitted, SameTallies
    PROVE  ReportedIsCommitted' /\ TallyCommitted'
BY DEF ReportedIsCommitted, TallyCommitted, SameTallies

\* Steps that only forget tallies.
LEMMA ForgettingCommitted ==
    ASSUME TypeInv, ReportedIsCommitted, TallyCommitted, UNCHANGED <<result, printed>>,
           NEW jobs \in SUBSET Job,
           acc' = [j \in Job |-> IF j \in jobs THEN NoTally ELSE acc[j]]
    PROVE  ReportedIsCommitted' /\ TallyCommitted'
BY DEF ReportedIsCommitted, TallyCommitted, NoTally, Zero, NoLabels

LEMMA LoopCommitted == TypeInv /\ CommitInv /\ Loop => CommitInv'
<1> SUFFICES ASSUME TypeInv, CommitInv, Loop PROVE CommitInv'
  OBVIOUS
<1>1. CASE Exit
  <2>1. UNCHANGED <<result, printed>> /\ pc' = "boot"
        /\ acc' = [j \in Job |-> IF j \in Job THEN NoTally ELSE acc[j]]
    BY <1>1 DEF Exit, Forget
  <2> QED
    BY <2>1, ForgettingCommitted DEF CommitInv, RenderFresh
<1>2. (SameTallies /\ pc' # "render") \/ Exit
  BY DEF Loop, Boot, ScanDone, PollDone, GetJob, GetFlush, Tick, RetryQueued, Shutdown, Resubmit,
         SameTallies, Goto
<1> QED
  BY <1>1, <1>2, SameTalliesCommitted DEF CommitInv, RenderFresh

\* What an update of one field of a job's tally changes, and what it does not.
Expects(j, i, c) == acc' = [acc EXCEPT ![j].expected[i] = c]
Credits(j, i)    == acc' = [acc EXCEPT ![j].done[i] = @ + 1]

LEMMA ExpectedUpdate ==
    ASSUME TallyTypeOK, NEW j \in Job, NEW i \in Index, NEW c \in Nat,
           Expects(j, i, c),
           NEW k \in Job, NEW n \in Index
    PROVE  /\ acc'[k].render = acc[k].render /\ acc'[k].done = acc[k].done
           /\ acc'[k].live = acc[k].live
           /\ acc'[k].expected[n] = IF k = j /\ n = i THEN c ELSE acc[k].expected[n]
<1>1. acc[j] \in Tally /\ acc[j].expected \in [Index -> Nat]
  BY DEF Tally
<1>2. k # j => acc'[k] = acc[k]
  BY DEF Expects
<1>3. acc'[j] = [acc[j] EXCEPT !.expected = [acc[j].expected EXCEPT ![i] = c]]
  BY DEF Expects
<1>4. /\ acc'[j].render = acc[j].render /\ acc'[j].done = acc[j].done
      /\ acc'[j].live = acc[j].live
      /\ acc'[j].expected = [acc[j].expected EXCEPT ![i] = c]
  BY <1>1, <1>3 DEF Tally
<1> QED
  BY <1>1, <1>2, <1>4

LEMMA DoneUpdate ==
    ASSUME TallyTypeOK, NEW j \in Job, NEW i \in Index,
           Credits(j, i), NEW k \in Job, NEW n \in Index
    PROVE  /\ acc'[k].render = acc[k].render /\ acc'[k].expected = acc[k].expected
           /\ acc'[k].live = acc[k].live
           /\ acc'[k].done[n] = IF k = j /\ n = i THEN acc[k].done[n] + 1
                                ELSE acc[k].done[n]
<1> DEFINE c == acc[j].done[i] + 1
<1>1. acc[j] \in Tally /\ acc[j].done \in [Index -> Nat]
  BY DEF Tally
<1>2. k # j => acc'[k] = acc[k]
  BY DEF Credits
<1>3. acc'[j] = [acc[j] EXCEPT !.done = [acc[j].done EXCEPT ![i] = c]]
  BY DEF Credits
<1> HIDE DEF c
<1>4. /\ acc'[j].render = acc[j].render /\ acc'[j].expected = acc[j].expected
      /\ acc'[j].live = acc[j].live
      /\ acc'[j].done = [acc[j].done EXCEPT ![i] = c]
  BY <1>1, <1>3 DEF Tally
<1> QED
  BY <1>1, <1>2, <1>4 DEF c

LEMMA FailedUpdate ==
    ASSUME TallyTypeOK, NEW j \in Job, NEW i \in Index, FailCopy(j, i), NEW k \in Job
    PROVE  /\ acc'[k].render = acc[k].render /\ acc'[k].expected = acc[k].expected
           /\ acc'[k].live = acc[k].live
           /\ acc'[k].done = acc[k].done
<1> DEFINE c == acc[j].failed[i] + 1
           p == acc[j].partial \/ strip
<1>1. acc[j] \in Tally
  OBVIOUS
<1>2. k # j => acc'[k] = acc[k]
  BY DEF FailCopy
<1>3. acc'[j] = [acc[j] EXCEPT !.failed = [acc[j].failed EXCEPT ![i] = c], !.partial = p]
  BY DEF FailCopy
<1> HIDE DEF c, p
<1>4. /\ acc'[j].render = acc[j].render /\ acc'[j].expected = acc[j].expected
      /\ acc'[j].live = acc[j].live
      /\ acc'[j].done = acc[j].done
  BY <1>1, <1>3 DEF Tally
<1> QED
  BY <1>2, <1>4

LEMMA ExpectsCommitted ==
    ASSUME TallyTypeOK, TallyCommitted, NEW j \in Job, NEW i \in Index,
           NEW c \in Nat \ {0}, acc[j].done[i] = 0,
           Expects(j, i, c), printed' = printed
    PROVE  TallyCommitted' /\ acc'[j].done = acc[j].done
<1>1. ASSUME NEW k \in Job, NEW n \in Index
      PROVE  /\ acc'[k].render = acc[k].render /\ acc'[k].done = acc[k].done
             /\ acc'[k].expected[n] = IF k = j /\ n = i THEN c ELSE acc[k].expected[n]
  <2>1. c \in Nat
    OBVIOUS
  <2> HIDE DEF TallyTypeOK
  <2> QED
    BY <2>1, ExpectedUpdate
<1> QED
  BY <1>1 DEF TallyCommitted

\* Filling the tally of the job being submitted.
LEMMA RenderCommitted ==
    ASSUME TypeInv, CommitInv, RenderLabel
    PROVE  CommitInv'
<1>1. /\ cur \in Job /\ cur' = cur /\ label \in Label(cur) /\ label \in Index
      /\ pc = "render" /\ pc' = "render"
  BY LabelFacts DEF RenderLabel, TypeInv, CurOK
<1>2. acc[cur] \in Tally /\ \A i \in Index : acc[cur].done[i] = 0
  BY <1>1 DEF TypeInv, TypeOK, CommitInv, RenderFresh
<1> USE DEF CommitInv, ReportedIsCommitted, TallyCommitted, RenderFresh, TypeInv, TypeOK, Tally
<1>3. ASSUME NEW s \in {"printed", "skipped", "failed"}, Settle(label, s),
             s = "printed" => label \in printed[cur]
      PROVE  CommitInv'
  <2>1. UNCHANGED <<result, printed>> /\ acc' = [acc EXCEPT ![cur].render[label] = s]
    BY <1>3 DEF Settle
  <2> QED
    BY <1>1, <1>2, <1>3, <2>1
<1>4. CASE QueueCopies(label)
  <2> DEFINE c == Copies(cur, label)
  <2>1. c \in Nat \ {0}
    BY <1>1, LabelFacts
  <2>2. UNCHANGED <<result, printed>> /\ acc' = [acc EXCEPT ![cur].expected[label] = c]
    BY <1>4 DEF QueueCopies, RecordDedupe
  <2> HIDE DEF c
  <2>3. Expects(cur, label, c) /\ TallyTypeOK /\ printed' = printed
    BY <2>2 DEF Expects
  <2>4. TallyCommitted' /\ acc'[cur].done = acc[cur].done
    BY <1>1, <1>2, <2>1, <2>3, ExpectsCommitted
  <2>5. ReportedIsCommitted'
    BY <2>2
  <2>6. RenderFresh'
    BY <1>1, <1>2, <2>4
  <2> QED
    BY <2>4, <2>5, <2>6
<1>5. \/ Settle(label, "printed") /\ label \in printed[cur]
      \/ Settle(label, "skipped") \/ Settle(label, "failed") \/ QueueCopies(label)
  BY DEF RenderLabel, PrintedLabels
<1> QED
  BY <1>3, <1>4, <1>5

LEMMA SubmitCommitted == TypeInv /\ CommitInv /\ Submit => CommitInv'
<1> SUFFICES ASSUME TypeInv, CommitInv, Submit PROVE CommitInv'
  OBVIOUS
<1> USE DEF CommitInv, RenderFresh
<1>0. cur \in Job \/ pc \notin {"submit", "render", "strip", "discrete"}
  BY DEF TypeInv, CurOK
<1>1. CASE Reject
  <2>1. UNCHANGED <<printed, acc>> /\ result' = [result EXCEPT ![cur] = Rejection]
        /\ pc' # "render"
    BY <1>1, ReturnType DEF Reject, Finish, memVars, EndSubmit, Return
  <2> QED
    BY <2>1 DEF ReportedIsCommitted, TallyCommitted, Rejection, NoResult, NoLabels,
                TypeInv, TypeOK
<1>2. CASE Accept
  <2>1. UNCHANGED <<result, printed, cur>> /\ acc' = [acc EXCEPT ![cur] = NewTally]
    BY <1>2 DEF Accept, Mark
  <2> QED
    BY <1>0, <2>1, <1>2 DEF Accept, ReportedIsCommitted, TallyCommitted, NewTally, NoTally,
                            Zero, NoLabels, TypeInv, TypeOK
<1>3. CASE RenderLabel
  BY <1>3, RenderCommitted
<1>4. CASE NothingToPrint
  <2>1. cur \in Job /\ Finalize(cur) /\ pc' # "render"
    BY <1>0, <1>4, ReturnType DEF NothingToPrint, EndSubmit, Return
  <2> QED
    BY <2>1, FinalizeCommitted
<1>5. CASE Buffered \/ DiscreteDone
  <2>1. cur \in Job /\ MaybeFinalize(cur) /\ pc' # "render"
    BY <1>0, <1>5, ReturnType DEF Buffered, DiscreteDone, EndSubmit, Return
  <2> QED
    BY <2>1, MaybeFinalizeCommitted
<1>6. CASE StartPrinting \/ AddLabel \/ FlushJob \/ FlushBefore \/ SendLabel
  <2>1. SameTallies /\ pc' # "render"
    BY <1>6 DEF StartPrinting, AddLabel, FlushJob, FlushBefore, SendLabel, SameTallies, Goto
  <2> QED
    BY <2>1, SameTalliesCommitted
<1> QED
  BY <1>1, <1>2, <1>3, <1>4, <1>5, <1>6 DEF Submit

\* Crediting and failing copies.
LEMMA CreditCommitted ==
    ASSUME TypeInv, ReportedIsCommitted, TallyCommitted,
           NEW j \in Job, NEW i \in Index, CreditCopy(j, i)
    PROVE  ReportedIsCommitted' /\ TallyCommitted'
<1>1. acc' = [acc EXCEPT ![j].done[i] = @ + 1] /\ result' = result
  BY DEF CreditCopy, LabelPrinted
<1>2. /\ \A k \in Job : printed[k] \subseteq printed'[k]
      /\ acc[j].done[i] + 1 >= acc[j].expected[i] => i \in printed'[j]
  BY DEF CreditCopy, LabelPrinted, TypeInv, TypeOK
<1>3. ReportedIsCommitted'
  BY <1>1, <1>2 DEF ReportedIsCommitted
<1>4. ASSUME NEW k \in Job, NEW n \in Index
      PROVE  /\ acc'[k].render[n] = acc[k].render[n]
             /\ acc'[k].expected[n] = acc[k].expected[n]
             /\ acc'[k].done[n] = IF k = j /\ n = i THEN acc[k].done[n] + 1
                                 ELSE acc[k].done[n]
  <2>1. Credits(j, i) /\ TallyTypeOK
    BY <1>1 DEF Credits, TypeInv, TypeOK
  <2> QED
    BY <2>1, DoneUpdate
<1>5. TallyCommitted'
  BY <1>2, <1>4 DEF TallyCommitted
<1> QED
  BY <1>3, <1>5

LEMMA FailCommitted ==
    ASSUME TypeInv, ReportedIsCommitted, TallyCommitted,
           NEW j \in Job, NEW i \in Index, FailCopy(j, i)
    PROVE  ReportedIsCommitted' /\ TallyCommitted'
<1>1. ASSUME NEW k \in Job, NEW n \in Index
      PROVE  /\ acc'[k].render[n] = acc[k].render[n]
             /\ acc'[k].expected[n] = acc[k].expected[n]
             /\ acc'[k].done[n] = acc[k].done[n]
  BY FailedUpdate DEF TypeInv, TypeOK
<1> QED
  BY <1>1 DEF FailCopy, ReportedIsCommitted, TallyCommitted

LEMMA SendCommitted == TypeInv /\ CommitInv /\ Send => CommitInv'
<1> SUFFICES ASSUME TypeInv, CommitInv, Send PROVE CommitInv'
  OBVIOUS
<1> USE DEF CommitInv, RenderFresh
<1>1. CASE ConnectFailed
  <2>1. UNCHANGED <<result, printed>>
        /\ acc' = [j \in Job |-> IF j \in JobsOf(batch) THEN NoTally ELSE acc[j]]
    BY <1>1 DEF ConnectFailed, Stall, Requeue
  <2>2. pc' # "render"
    BY <1>1, ReturnType DEF ConnectFailed, ResumeFlush, EndSubmit, Return, Goto
  <2>3. JobsOf(batch) \in SUBSET Job
    BY JobsOfType DEF TypeInv, TypeOK
  <2> QED
    BY <2>1, <2>2, <2>3, ForgettingCommitted
<1>2. CASE Account
  <2>1. batch[at] \in Item /\ pc' # "render"
    BY <1>2 DEF Account, TypeInv, TypeOK
  <2>2. batch[at][1] \in Job /\ batch[at][2] \in Index
    BY <2>1 DEF Item
  <2>3. \/ CreditCopy(batch[at][1], batch[at][2])
        \/ FailCopy(batch[at][1], batch[at][2])
    BY <1>2 DEF Account
  <2> QED
    BY <2>1, <2>2, <2>3, CreditCommitted, FailCommitted
<1>3. CASE SettleJob
  <2>1. batch[at] \in Item /\ pc' # "render"
    BY <1>3 DEF SettleJob, TypeInv, TypeOK
  <2>2. batch[at][1] \in Job /\ MaybeFinalize(batch[at][1])
    BY <1>3, <2>1 DEF SettleJob, Item
  <2> QED
    BY <2>1, <2>2, MaybeFinalizeCommitted
<1>4. CASE ConnectOk \/ ConnectRetry \/ FrameOk \/ FrameTorn \/ NoTallyToCredit
           \/ Accounted \/ Settled
  <2>1. SameTallies /\ pc' # "render"
    BY <1>4, ReturnType
    DEF ConnectOk, ConnectRetry, FrameOk, FrameTorn, NoTallyToCredit, Accounted,
        Settled, ResumeFlush, Return, Goto, SameTallies
  <2> QED
    BY <2>1, SameTalliesCommitted
<1> QED
  BY <1>1, <1>2, <1>3, <1>4 DEF Send

LEMMA WorldCommitted == TypeInv /\ CommitInv /\ World => CommitInv'
<1> SUFFICES ASSUME TypeInv, CommitInv, World PROVE CommitInv'
  OBVIOUS
<1> USE DEF CommitInv, RenderFresh
<1>1. CASE Crash
  <2>1. UNCHANGED <<result, printed>> /\ pc' = "boot"
        /\ acc' = [j \in Job |-> IF j \in Job THEN NoTally ELSE acc[j]]
    BY <1>1 DEF Crash, Forget
  <2> QED
    BY <2>1, ForgettingCommitted
<1>2. ASSUME NEW j \in Job, PollFile(j) \/ Deliver(j) \/ GapPasses(j)
      PROVE  SameTallies /\ UNCHANGED <<pc, cur>>
  BY <1>2 DEF PollFile, Deliver, GapPasses, Insert, SameTallies
<1>3. CASE Enqueue \/ FlushCommand \/ Stop
  BY <1>3, SameTalliesCommitted DEF Enqueue, FlushCommand, Stop, SameTallies
<1> QED
  BY <1>1, <1>2, <1>3, SameTalliesCommitted DEF World, SameTallies

LEMMA CommitInit == Init => CommitInv
BY DEF Init, SpoolInit, CommitInv, ReportedIsCommitted, TallyCommitted, RenderFresh,
       NoResult, NoTally, Zero, NoLabels

LEMMA CommitStep == TypeInv /\ CommitInv /\ [Next]_vars => CommitInv'
<1>1. TypeInv /\ CommitInv /\ UNCHANGED vars => CommitInv'
  BY DEF vars, CommitInv, ReportedIsCommitted, TallyCommitted, RenderFresh
<1> QED
  BY <1>1, LoopCommitted, SubmitCommitted, SendCommitted, WorldCommitted DEF Next

\* A label reported printed is committed, in any configuration, over stalls,
\* retries, crashes and double submissions: no later submission prints it.
THEOREM ReportIsCommitted == Spec => []ReportedIsCommitted
<1>1. CommitInv => ReportedIsCommitted
  BY DEF CommitInv
<1> QED
  BY <1>1, CommitInit, CommitStep, TypeInit, TypeStep, PTL DEF Spec

-----------------------------------------------------------------------------
(***************************************************************************)
(* The worker keeps the promise of JobLifecycle in every regime: every     *)
(* step of PrintWorker is a step of it on the columns of the spool, or     *)
(* changes none of them.                                                   *)
(*                                                                         *)
(* The loop, the inbox, the coalescer and the frame being sent only hold   *)
(* jobs that have a row.  TypeInv does not say so, and without it a step   *)
(* could start, answer or put back a job nobody delivered.                 *)
(***************************************************************************)
HasRow(j) == state[j] # "absent"
RowsOf(s) == \A n \in DOMAIN s : HasRow(s[n][1])

InboxHasRows == \A n \in DOMAIN inbox : inbox[n] \in Job => HasRow(inbox[n])

HeldHaveRows ==
    /\ cur \in Job => HasRow(cur)
    /\ handing \in Job => HasRow(handing)
    /\ \A j \in scan : HasRow(j)

StripsHaveRows == RowsOf(pending) /\ RowsOf(batch)

RowInv == HeldHaveRows /\ InboxHasRows /\ StripsHaveRows

\* After the step, every entry of s has a row.
RowsStay(s) == \A n \in DOMAIN s : state'[s[n][1]] # "absent"

\* A row is never deleted.
KeepsRows == \A j \in Job : HasRow(j) => HasRow(j)'

LEMMA RowsKept == TypeInv /\ RowStep => KeepsRows
<1> SUFFICES ASSUME TypeInv, RowStep PROVE KeepsRows
  OBVIOUS
<1> USE DEF KeepsRows, HasRow, TypeInv, TypeOK, SpoolTypeOK
<1>1. CASE SameRows
  BY <1>1 DEF SameRows
<1>2. ASSUME NEW j \in Job, Inserts(j)
      PROVE  KeepsRows
  BY <1>2 DEF Inserts, Insert
<1>3. ASSUME NEW j \in Job, Mark(j, "printing")
      PROVE  KeepsRows
  BY <1>3 DEF Mark
<1>4. ASSUME NEW j \in Job, AnswersJob(j)
      PROVE  KeepsRows
  BY <1>4 DEF AnswersJob, Finish, Result, JobState
<1>5. ASSUME NEW jobs \in SUBSET Job, Requeue(jobs)
      PROVE  KeepsRows
  BY <1>5 DEF Requeue
<1> QED
  BY <1>1, <1>2, <1>3, <1>4, <1>5 DEF RowStep

\* Taking from, and adding to, a queue whose jobs have rows.
LEMMA InboxTailRows ==
    ASSUME InboxHasRows, inbox \in Seq(Job \cup {FlushCmd}), inbox # <<>>,
           inbox' = Tail(inbox), KeepsRows
    PROVE  InboxHasRows' /\ (Head(inbox) \in Job => HasRow(Head(inbox)))
BY HeadTailProperties DEF InboxHasRows, KeepsRows

LEMMA InboxAppend ==
    ASSUME InboxHasRows, inbox \in Seq(Job \cup {FlushCmd}), KeepsRows,
           NEW e \in Job \cup {FlushCmd}, inbox' = Append(inbox, e),
           e \in Job => state'[e] # "absent"
    PROVE  InboxHasRows'
BY AppendProperties DEF InboxHasRows, KeepsRows, HasRow

LEMMA RowsOfAppend ==
    ASSUME NEW s \in Seq(Item), RowsOf(s), NEW it \in Item, HasRow(it[1])
    PROVE  RowsOf(Append(s, it))
BY AppendProperties DEF RowsOf

LEMMA RowsOfKept ==
    ASSUME NEW s \in Seq(Item), RowsOf(s), KeepsRows
    PROVE  RowsStay(s)
<1>1. ASSUME NEW n \in DOMAIN s
      PROVE  s[n][1] \in Job
  <2>1. s[n] \in Item
    OBVIOUS
  <2> QED
    BY <2>1 DEF Item
<1> QED
  BY <1>1 DEF RowsOf, RowsStay, KeepsRows, HasRow

LEMMA InboxKept ==
    ASSUME InboxHasRows, KeepsRows, UNCHANGED inbox
    PROVE  InboxHasRows'
BY DEF InboxHasRows, KeepsRows

\* Sending what is pending, sending nothing, and leaving both alone.
LEMMA StripsKept ==
    ASSUME TypeInv, StripsHaveRows, KeepsRows,
           \/ UNCHANGED <<pending, batch>>
           \/ SendStrip(pending)
           \/ NoSend /\ UNCHANGED pending
           \/ NoSend /\ pending' = <<>>
    PROVE  StripsHaveRows'
<1>1. RowsOf(pending)' /\ RowsOf(batch)'
  <2>1. pending \in Seq(Item) /\ batch \in Seq(Item)
    BY DEF TypeInv, TypeOK
  <2>2. RowsStay(pending) /\ RowsStay(batch)
    BY <2>1, RowsOfKept DEF StripsHaveRows
  <2>3. CASE UNCHANGED <<pending, batch>>
    BY <2>2, <2>3 DEF RowsOf, RowsStay, HasRow
  <2>4. CASE SendStrip(pending)
    BY <2>2, <2>4 DEF SendStrip, RowsOf, RowsStay, HasRow
  <2>5. CASE NoSend /\ UNCHANGED pending
    BY <2>2, <2>5 DEF NoSend, RowsOf, RowsStay, HasRow
  <2>6. CASE NoSend /\ pending' = <<>>
    BY <2>6 DEF NoSend, RowsOf
  <2> QED
    BY <2>3, <2>4, <2>5, <2>6
<1> QED
  BY <1>1 DEF StripsHaveRows

LEMMA HeldRowsKept ==
    ASSUME TypeInv, HeldHaveRows, KeepsRows,
           cur' \in {cur, NoJob} \cup scan, handing' \in {handing, NoJob},
           scan' \subseteq scan
    PROVE  HeldHaveRows'
BY JobAssumption DEF HeldHaveRows, KeepsRows, TypeInv, TypeOK

\* Each group of steps keeps to jobs that have rows.
LEMMA ForgetRows == Forget => RowInv'
BY JobAssumption DEF Forget, NoSend, RowInv, HeldHaveRows, InboxHasRows,
   StripsHaveRows, RowsOf

LEMMA LoopRows == TypeInv /\ RowInv /\ KeepsRows /\ Loop => RowInv'
<1> SUFFICES ASSUME TypeInv, RowInv, KeepsRows, Loop PROVE RowInv'
  OBVIOUS
<1>0. inbox \in Seq(Job \cup {FlushCmd})
  BY DEF TypeInv, TypeOK
<1> USE DEF RowInv
<1>1. CASE Boot \/ RetryQueued
  <2>1. HeldHaveRows'
    BY <1>1 DEF Boot, RetryQueued, HeldHaveRows, HasRow, Queued, KeepsRows
  <2> QED
    BY <1>1, <2>1, StripsKept, InboxKept DEF Boot, RetryQueued
<1>2. CASE GetJob
  <2>1. InboxHasRows' /\ (Head(inbox) \in Job => HasRow(Head(inbox)))
    BY <1>0, <1>2, InboxTailRows DEF GetJob
  <2>2. HeldHaveRows'
    BY <1>2, <2>1 DEF GetJob, HeldHaveRows, HasRow
  <2> QED
    BY <1>2, <2>1, <2>2, StripsKept DEF GetJob
<1>3. CASE GetFlush
  <2>1. InboxHasRows'
    BY <1>0, <1>3, InboxTailRows DEF GetFlush
  <2>2. HeldHaveRows'
    BY <1>3, HeldRowsKept DEF GetFlush
  <2>3. UNCHANGED <<pending, batch>> \/ SendStrip(pending)
    BY <1>3 DEF GetFlush
  <2> QED
    BY <2>1, <2>2, <2>3, StripsKept
<1>4. CASE Tick \/ Shutdown
  <2>1. UNCHANGED <<pending, batch>> \/ SendStrip(pending)
    BY <1>4 DEF Tick, Shutdown
  <2> QED
    BY <1>4, <2>1, StripsKept, InboxKept, HeldRowsKept DEF Tick, Shutdown
<1>5. CASE ScanDone \/ PollDone
  BY <1>5, StripsKept, InboxKept, HeldRowsKept DEF ScanDone, PollDone, Goto
<1>6. CASE Exit
  BY <1>6, ForgetRows DEF Exit
<1>7. ASSUME NEW j \in Job, Resubmit(j)
      PROVE  RowInv'
  <2>1. cur' \in {cur} \cup scan /\ scan' \subseteq scan
    BY <1>7 DEF Resubmit, Oldest
  <2> QED
    BY <1>7, <2>1, StripsKept, InboxKept, HeldRowsKept DEF Resubmit
<1> QED
  BY <1>1, <1>2, <1>3, <1>4, <1>5, <1>6, <1>7 DEF Loop

LEMMA SubmitRows == TypeInv /\ RowInv /\ KeepsRows /\ Submit => RowInv'
<1> SUFFICES ASSUME TypeInv, RowInv, KeepsRows, Submit PROVE RowInv'
  OBVIOUS
<1>0. pc \in {"submit", "render", "strip", "discrete"} => cur \in Job /\ HasRow(cur)
  BY DEF TypeInv, CurOK, RowInv, HeldHaveRows
<1> USE DEF RowInv
<1>1. CASE Reject \/ Accept \/ RenderLabel \/ NothingToPrint \/ StartPrinting
           \/ Buffered \/ DiscreteDone
  BY <1>1, StripsKept, InboxKept, HeldRowsKept
  DEF Reject, Accept, RenderLabel, NothingToPrint, StartPrinting, Buffered,
      DiscreteDone, EndSubmit, Goto
<1>2. CASE FlushJob \/ FlushBefore
  BY <1>2, StripsKept, InboxKept, HeldRowsKept DEF FlushJob, FlushBefore, Goto
<1>3. CASE AddLabel \/ SendLabel
  <2>1. /\ cur \in Job /\ HasRow(cur) /\ state'[cur] # "absent"
        /\ todo \in Seq(Label(cur)) /\ todo # <<>>
    BY <1>0, <1>3 DEF AddLabel, SendLabel, KeepsRows, HasRow, TypeInv, TodoOK
  <2>2. <<cur, Head(todo)>> \in Item
    BY <2>1, LabelFacts, HeadTailProperties
  <2>3. HeldHaveRows' /\ InboxHasRows'
    BY <1>3, InboxKept, HeldRowsKept DEF AddLabel, SendLabel, Goto
  <2>4. CASE AddLabel
    <3> DEFINE filled == Append(pending, <<cur, Head(todo)>>)
    <3>0. <<cur, Head(todo)>>[1] = cur
      OBVIOUS
    <3>1. pending \in Seq(Item) /\ filled \in Seq(Item)
      BY <2>2 DEF TypeInv, TypeOK
    <3>2. RowsOf(filled)
      BY <2>1, <2>2, <3>0, <3>1, RowsOfAppend DEF StripsHaveRows
    <3>3. RowsStay(filled)
      BY <3>1, <3>2, RowsOfKept
    <3>4. \/ batch' = filled /\ pending' = <<>>
          \/ UNCHANGED batch /\ pending' = filled
      BY <2>4 DEF AddLabel, SendStrip
    <3>5. RowsStay(batch)
      BY RowsOfKept DEF StripsHaveRows, TypeInv, TypeOK
    <3>6. StripsHaveRows'
      BY <3>3, <3>4, <3>5 DEF StripsHaveRows, RowsOf, RowsStay, HasRow
    <3> QED
      BY <2>3, <3>6
  <2>5. CASE SendLabel
    <3>1. batch' = <<<<cur, Head(todo)>>>> /\ pending' = <<>>
      BY <2>5 DEF SendLabel
    <3>2. StripsHaveRows'
      BY <2>1, <3>1 DEF StripsHaveRows, RowsOf, HasRow
    <3> QED
      BY <2>3, <3>2
  <2> QED
    BY <1>3, <2>4, <2>5
<1> QED
  BY <1>1, <1>2, <1>3 DEF Submit

LEMMA SendRows == TypeInv /\ RowInv /\ KeepsRows /\ Send => RowInv'
<1> SUFFICES ASSUME TypeInv, RowInv, KeepsRows, Send PROVE RowInv'
  OBVIOUS
<1> USE DEF RowInv
<1>1. CASE ConnectOk \/ ConnectRetry \/ FrameOk \/ FrameTorn \/ Account \/ SettleJob
  BY <1>1, StripsKept, InboxKept, HeldRowsKept
  DEF ConnectOk, ConnectRetry, FrameOk, FrameTorn, Account, SettleJob, Goto
<1>2. CASE ConnectFailed \/ Settled \/ Accounted \/ NoTallyToCredit
  <2>1. UNCHANGED <<pending, batch>> \/ (NoSend /\ UNCHANGED pending)
    BY <1>2 DEF ConnectFailed, ResumeFlush, Settled, Accounted, NoTallyToCredit
  <2>2. /\ cur' \in {cur, NoJob} /\ UNCHANGED <<scan, inbox, handing>>
    BY <1>2 DEF ConnectFailed, ResumeFlush, EndSubmit, Settled, Accounted,
                NoTallyToCredit, Goto
  <2> QED
    BY <2>1, <2>2, StripsKept, InboxKept, HeldRowsKept
<1> QED
  BY <1>1, <1>2 DEF Send

LEMMA WorldRows == TypeInv /\ RowInv /\ KeepsRows /\ World => RowInv'
<1> SUFFICES ASSUME TypeInv, RowInv, KeepsRows, World PROVE RowInv'
  OBVIOUS
<1>0. inbox \in Seq(Job \cup {FlushCmd})
  BY DEF TypeInv, TypeOK
<1> USE DEF RowInv
<1>1. ASSUME NEW j \in Job, PollFile(j)
      PROVE  RowInv'
  <2>1. state'[j] # "absent"
    BY <1>1 DEF PollFile, Insert, TypeInv, TypeOK, SpoolTypeOK
  <2>2. inbox' = Append(inbox, j)
    BY <1>1 DEF PollFile
  <2>3. InboxHasRows'
    BY <1>0, <2>1, <2>2, InboxAppend
  <2> QED
    BY <1>1, <2>3, StripsKept, HeldRowsKept DEF PollFile
<1>2. ASSUME NEW j \in Job, Deliver(j)
      PROVE  RowInv'
  <2>1. state'[j] # "absent"
    BY <1>2 DEF Deliver, Insert, TypeInv, TypeOK, SpoolTypeOK
  <2>2. HeldHaveRows'
    BY <1>2, <2>1 DEF Deliver, HeldHaveRows, KeepsRows, HasRow, TypeInv, TypeOK
  <2> QED
    BY <1>2, <2>2, StripsKept, InboxKept DEF Deliver
<1>3. ASSUME NEW j \in Job, GapPasses(j)
      PROVE  RowInv'
  BY <1>3, StripsKept, InboxKept, HeldRowsKept DEF GapPasses
<1>4. CASE Enqueue
  <2>1. handing \in Job /\ inbox' = Append(inbox, handing)
    BY <1>4 DEF Enqueue, TypeInv, TypeOK
  <2>2. state'[handing] # "absent"
    BY <1>4, <2>1 DEF HeldHaveRows, HasRow, Enqueue
  <2>3. InboxHasRows'
    BY <1>0, <1>4, <2>1, <2>2, InboxAppend
  <2> QED
    BY <1>4, <2>3, StripsKept, HeldRowsKept DEF Enqueue
<1>5. CASE FlushCommand
  <2>1. inbox' = Append(inbox, FlushCmd)
    BY <1>5 DEF FlushCommand
  <2>2. InboxHasRows'
    BY <1>0, <2>1, WorkerAssumption, InboxAppend
  <2> QED
    BY <1>5, <2>2, StripsKept, HeldRowsKept DEF FlushCommand
<1>6. CASE Stop
  BY <1>6, StripsKept, InboxKept, HeldRowsKept DEF Stop
<1>7. CASE Crash
  BY <1>7, ForgetRows DEF Crash
<1> QED
  BY <1>1, <1>2, <1>3, <1>4, <1>5, <1>6, <1>7 DEF World

LEMMA RowInit == Init => RowInv
BY JobAssumption DEF Init, RowInv, HeldHaveRows, InboxHasRows, StripsHaveRows, RowsOf

LEMMA RowInvStep == TypeInv /\ RowInv /\ [Next]_vars => RowInv'
<1> SUFFICES ASSUME TypeInv, RowInv, [Next]_vars PROVE RowInv'
  OBVIOUS
<1>1. KeepsRows
  BY NextRows, RowsKept
<1>2. CASE UNCHANGED vars
  BY <1>2 DEF vars, RowInv, HeldHaveRows, InboxHasRows, StripsHaveRows, RowsOf, HasRow
<1> QED
  BY <1>1, <1>2, LoopRows, SubmitRows, SendRows, WorldRows DEF Next

-----------------------------------------------------------------------------
(***************************************************************************)
(* What the result of a tally says agrees with itself and, the tally       *)
(* agreeing with the spool, with the record of printed labels.             *)
(***************************************************************************)
LEMMA OutcomeIsKnown ==
    ASSUME TypeInv, NEW j \in Job, NEW i \in Label(j)
    PROVE  /\ LabelOutcome(acc[j], i) \in {"printed", "failed", "skipped"}
           /\ ResultOf(j).label[i] = LabelOutcome(acc[j], i)
<1>1. i \in Index /\ acc[j].render[i] \in LabelState
  BY LabelFacts DEF TypeInv, TypeOK, Tally
<1>2. LabelOutcome(acc[j], i) \in {"printed", "failed", "skipped"}
  BY <1>1 DEF LabelOutcome, LabelState
<1> QED
  BY <1>1, <1>2 DEF ResultOf

LEMMA ResultIsHonest ==
    ASSUME TypeInv, TallyCommitted, NEW j \in Job
    PROVE  Lifecycle!Honest(j, ResultOf(j))
<1> DEFINE r == ResultOf(j)
           Says(s) == {i \in Label(j) : r.label[i] = s}
           anyFailed  == \E i \in Label(j) : LabelOutcome(acc[j], i) = "failed"
           anyPrinted == \E i \in Label(j) :
                            \/ LabelOutcome(acc[j], i) = "printed"
                            \/ acc[j].render[i] = "none" /\ acc[j].done[i] > 0
<1>1. \A i \in Label(j) : /\ r.label[i] = LabelOutcome(acc[j], i)
                          /\ r.label[i] \in {"printed", "failed", "skipped"}
  BY OutcomeIsKnown
<1>2. Says("printed") \subseteq printed[j]
  <2>1. ASSUME NEW i \in Label(j), LabelOutcome(acc[j], i) = "printed"
        PROVE  i \in printed[j]
    BY <2>1, LabelFacts DEF LabelOutcome, TallyCommitted
  <2> QED
    BY <1>1, <2>1
<1>3. r.state = CASE anyPrinted /\ anyFailed -> "partial"
                  [] ~anyPrinted /\ anyFailed -> "failed"
                  [] OTHER -> "completed"
  BY DEF ResultOf
<1>4. /\ Says("none") = {}
      /\ anyFailed <=> Says("failed") # {}
      /\ Says("printed") # {} => anyPrinted
  BY <1>1
<1> HIDE DEF r, anyFailed, anyPrinted
<1>5. /\ r.state \in {"completed", "partial", "failed"}
      /\ r.state = "completed" <=> Says("failed") = {}
      /\ r.state = "failed" => Says("printed") = {}
  BY <1>3, <1>4
<1> QED
  BY <1>2, <1>4, <1>5 DEF Lifecycle!Honest, Lifecycle!Reported, r

LEMMA FinalizeIsAnswer ==
    ASSUME TypeInv, TallyCommitted, NEW j \in Job, HasRow(j), Finalize(j)
    PROVE  Lifecycle!Answer(j)
<1>1. result'[j] = ResultOf(j)
  BY DEF Finalize, Finish, TypeInv, TypeOK, SpoolTypeOK
<1>2. Lifecycle!Honest(j, result'[j])
  BY <1>1, ResultIsHonest
<1> QED
  BY <1>1, <1>2 DEF Finalize, Finish, Lifecycle!Answer, Lifecycle!Open, HasRow

SameRecord == UNCHANGED <<state, printed, result>>

LEMMA MaybeFinalizeIsAnswer ==
    ASSUME TypeInv, TallyCommitted, NEW j \in Job, HasRow(j), MaybeFinalize(j)
    PROVE  Lifecycle!Answer(j) \/ SameRecord
BY FinalizeIsAnswer DEF MaybeFinalize, SameRecord

LEMMA RejectionIsAnswer ==
    ASSUME TypeInv, NEW j \in Job, HasRow(j), Finish(j, Rejection)
    PROVE  Lifecycle!Answer(j)
<1>1. result'[j] = Rejection
  BY DEF Finish, TypeInv, TypeOK, SpoolTypeOK
<1>2. Rejection.state = "rejected" /\ Rejection.label = [i \in Index |-> "none"]
  BY DEF Rejection, NoResult, NoLabels
<1>3. Lifecycle!Honest(j, Rejection)
  <2>1. Lifecycle!Reported(j, Rejection, "printed") = {}
    BY <1>2, LabelFacts DEF Lifecycle!Reported
  <2> QED
    BY <1>2, <2>1 DEF Lifecycle!Honest, Lifecycle!Unanswered
<1> QED
  BY <1>1, <1>3 DEF Finish, Lifecycle!Answer, Lifecycle!Open, HasRow

-----------------------------------------------------------------------------
(***************************************************************************)
(* Each step of the worker is a step of JobLifecycle or changes nothing.   *)
(***************************************************************************)
LifecycleStep == Lifecycle!Next \/ SameRecord

LEMMA LoopKeepsRecord == Loop => SameRecord
BY DEF Loop, Boot, ScanDone, PollDone, GetJob, GetFlush, Tick, RetryQueued, Shutdown,
       Exit, Resubmit, SameRecord

LEMMA SubmitLifecycle == TypeInv /\ RowInv /\ TallyCommitted /\ Submit => LifecycleStep
<1> SUFFICES ASSUME TypeInv, RowInv, TallyCommitted, Submit PROVE LifecycleStep
  OBVIOUS
<1>0. pc \in {"submit", "render", "strip", "discrete"} => cur \in Job /\ HasRow(cur)
  BY DEF TypeInv, CurOK, RowInv, HeldHaveRows
<1> USE DEF LifecycleStep, Lifecycle!Next
<1>1. CASE Reject
  BY <1>0, <1>1, RejectionIsAnswer DEF Reject
<1>2. CASE Accept
  <2>1. Lifecycle!Start(cur)
    BY <1>0, <1>2 DEF Accept, Mark, Lifecycle!Start, Lifecycle!Open, HasRow
  <2> QED
    BY <1>0, <1>2, <2>1 DEF Accept
<1>3. CASE NothingToPrint
  BY <1>0, <1>3, FinalizeIsAnswer DEF NothingToPrint
<1>4. CASE Buffered \/ DiscreteDone
  BY <1>0, <1>4, MaybeFinalizeIsAnswer DEF Buffered, DiscreteDone
<1>5. CASE RenderLabel \/ StartPrinting \/ AddLabel \/ FlushJob \/ FlushBefore \/ SendLabel
  BY <1>5 DEF RenderLabel, Settle, QueueCopies, RecordDedupe, StartPrinting, AddLabel,
              FlushJob, FlushBefore, SendLabel, SameRecord
<1> QED
  BY <1>1, <1>2, <1>3, <1>4, <1>5 DEF Submit

LEMMA SendLifecycle == TypeInv /\ RowInv /\ TallyCommitted /\ Send => LifecycleStep
<1> SUFFICES ASSUME TypeInv, RowInv, TallyCommitted, Send PROVE LifecycleStep
  OBVIOUS
<1>0. ASSUME at \in DOMAIN batch
      PROVE  /\ batch[at][1] \in Job /\ HasRow(batch[at][1])
             /\ batch[at][2] \in Index /\ batch[at][2] \in Label(batch[at][1])
  <2>1. batch[at] \in Item
    BY <1>0 DEF TypeInv, TypeOK
  <2> QED
    BY <1>0, <2>1 DEF Item, RowInv, StripsHaveRows, RowsOf
<1> USE DEF LifecycleStep, Lifecycle!Next
<1>1. CASE ConnectFailed
  <2>1. JobsOf(batch) \in SUBSET Job
    BY JobsOfType DEF TypeInv, TypeOK
  <2>2. \A j \in JobsOf(batch) : HasRow(j)
    BY DEF JobsOf, RowInv, StripsHaveRows, RowsOf
  <2>3. Lifecycle!PutBack(JobsOf(batch))
    BY <1>1, <2>2 DEF ConnectFailed, Stall, Requeue, Lifecycle!PutBack, Lifecycle!Open, HasRow
  <2> QED
    BY <2>1, <2>3
<1>2. CASE Account
  <2> DEFINE j == batch[at][1]
             i == batch[at][2]
  <2>1. at \in DOMAIN batch /\ (CreditCopy(j, i) \/ FailCopy(j, i))
    BY <1>2 DEF Account
  <2>2. j \in Job /\ HasRow(j) /\ i \in Index /\ i \in Label(j)
    BY <1>0, <2>1
  <2> HIDE DEF j, i
  <2>3. CASE LabelPrinted(j, i)
    <3>1. Lifecycle!LabelOut(j, i)
      BY <2>2, <2>3 DEF LabelPrinted, Lifecycle!LabelOut, Lifecycle!Open, HasRow
    <3> QED
      BY <2>2, <3>1
  <2>4. CASE UNCHANGED spoolVars
    BY <2>4 DEF SameRecord
  <2> QED
    BY <2>1, <2>3, <2>4 DEF CreditCopy, FailCopy
<1>3. CASE SettleJob
  BY <1>0, <1>3, MaybeFinalizeIsAnswer DEF SettleJob
<1>4. CASE ConnectOk \/ ConnectRetry \/ FrameOk \/ FrameTorn \/ NoTallyToCredit
           \/ Accounted \/ Settled
  BY <1>4 DEF ConnectOk, ConnectRetry, FrameOk, FrameTorn, NoTallyToCredit, Accounted,
              Settled, SameRecord
<1> QED
  BY <1>1, <1>2, <1>3, <1>4 DEF Send

LEMMA WorldLifecycle == World => LifecycleStep
<1> SUFFICES ASSUME World PROVE LifecycleStep
  OBVIOUS
<1> USE DEF LifecycleStep, Lifecycle!Next
<1>1. ASSUME NEW j \in Job, PollFile(j) \/ Deliver(j)
      PROVE  LifecycleStep
  <2>1. Lifecycle!Admit(j)
    BY <1>1 DEF PollFile, Deliver, Insert, Lifecycle!Admit
  <2> QED
    BY <2>1
<1>2. ASSUME NEW j \in Job, GapPasses(j)
      PROVE  LifecycleStep
  BY <1>2 DEF GapPasses, SameRecord
<1>3. CASE Enqueue \/ FlushCommand \/ Stop \/ Crash
  BY <1>3 DEF Enqueue, FlushCommand, Stop, Crash, SameRecord
<1> QED
  BY <1>1, <1>2, <1>3 DEF World

\* The worker implements the promise to a producer in every regime, whatever
\* its configuration and however often it crashes, stalls or is handed a job
\* it is still working on: only jobs the spool holds are started, put back or
\* answered, a label never leaves the record of printed ones, and each answer
\* is one that record bears out and that agrees with itself.
THEOREM RecordIsKept == Spec => KeepsRecord
<1>1. Init => Lifecycle!Init
  BY DEF Init, SpoolInit, NoResult, NoLabels, Lifecycle!Init, Lifecycle!Unanswered
<1>2. TypeInv /\ RowInv /\ CommitInv /\ [Next]_vars => [Lifecycle!Next]_(Lifecycle!vars)
  <2> SUFFICES ASSUME TypeInv, RowInv, CommitInv, [Next]_vars
               PROVE  LifecycleStep
    BY DEF LifecycleStep, SameRecord, Lifecycle!vars
  <2>1. CASE UNCHANGED vars
    BY <2>1 DEF vars, LifecycleStep, SameRecord
  <2> QED
    BY <2>1, LoopKeepsRecord, SubmitLifecycle, SendLifecycle, WorldLifecycle
    DEF Next, LifecycleStep, CommitInv
<1> QED
  BY <1>1, <1>2, TypeInit, TypeStep, RowInit, RowInvStep, CommitInit, CommitStep, PTL
  DEF Spec, KeepsRecord, Lifecycle!Spec
=============================================================================
