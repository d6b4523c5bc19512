----------------------------- MODULE OnceProofs -----------------------------
(***************************************************************************)
(* What a producer may rely on when no job is answered behind the back of  *)
(* the retry that walks the list: a job is answered once, and a strip that *)
(* tore is reported and never printed again.                               *)
(***************************************************************************)
EXTENDS RegimeProofs

USE DEF spoolVars, sendVars, submitVars, loopVars, memVars, inVars, ghostVars

-----------------------------------------------------------------------------
(***************************************************************************)
(* The regime.  Either the loop's clocks agree, so that the retry finds    *)
(* the buffer empty, or strips are sent by the idle window, the flush      *)
(* command and the last flush alone.                                       *)
(***************************************************************************)
NeverFull ==
    \A s \in Seq(StripItem) :
        s # <<>> /\ (\A it \in Item : Times(it, s) <= Copies(it[1], it[2])) => ~IsFull(s)

SentWhenIdle == NeverFull /\ \A j \in Job : ~WantsFlush(j) /\ ~PrintsDiscrete(j)

Orderly == Regime /\ (ExactClock \/ SentWhenIdle)

\* Everything the proofs so far have found invariant.
WorkerInv == TypeInv /\ ShapeInv /\ OnceInv /\ RegimeInv

LEMMA WorkerHolds == Regime => (Spec => []WorkerInv)
<1> SUFFICES ASSUME Regime PROVE Spec => []WorkerInv
  OBVIOUS
<1>1. TypeInv /\ ShapeInv /\ OnceInv /\ RegimeInv /\ [Next]_vars => RegimeInv'
  BY RegimeStep
<1>2. WorkerInv <=> TypeInv /\ ShapeInv /\ OnceInv /\ RegimeInv
  BY DEF WorkerInv
<1> QED
  BY <1>1, <1>2, TypeInit, TypeStep, ShapeInit, ShapeStep, OnceInit, OnceStep, RegimeInit, PTL
  DEF Spec

-----------------------------------------------------------------------------
(***************************************************************************)
(* Who is on the stack.                                                    *)
(***************************************************************************)
CallerInv ==
    /\ cur # NoJob => caller \in {"recover", "retry", "item"}
    /\ InSend /\ ~ExactClock => caller \in {"tick", "cmd", "stop"}

LEMMA LoopCaller == WorkerInv /\ CallerInv /\ Loop => CallerInv'
<1> SUFFICES ASSUME WorkerInv, CallerInv, Loop PROVE CallerInv'
  OBVIOUS
<1>1. CASE Exit
  BY <1>1 DEF Exit, Forget, CallerInv, InSend, Sending
<1>2. cur = NoJob
  BY DEF Loop, Boot, ScanDone, PollDone, GetJob, GetFlush, Tick, RetryQueued, Shutdown,
         Resubmit, Exit, WorkerInv, RegimeInv, StackInv
<1>3. CASE SendStrip(pending) /\ pc' = "connect"
  BY <1>2, <1>3
  DEF Loop, Boot, ScanDone, PollDone, GetJob, GetFlush, Tick, RetryQueued, Shutdown,
      Resubmit, Exit, Forget, Goto, CallerInv
<1>4. ASSUME NEW j \in Job, Resubmit(j)
      PROVE  CallerInv'
  BY <1>2, <1>4 DEF Resubmit, CallerInv, InSend, Sending, WorkerInv, RegimeInv, OnceAtATime
<1>5. CASE GetJob
  BY <1>5 DEF GetJob, CallerInv, InSend, Sending
<1>6. CASE /\ ~(SendStrip(pending) /\ pc' = "connect") /\ ~Exit /\ ~GetJob
           /\ \A j \in Job : ~Resubmit(j)
  BY <1>2, <1>6
  DEF Loop, Boot, ScanDone, PollDone, GetFlush, Tick, RetryQueued, Shutdown, Goto, CallerInv,
      InSend, Sending
<1> QED
  BY <1>1, <1>3, <1>4, <1>5, <1>6

LEMMA SubmitCaller == Orderly /\ WorkerInv /\ CallerInv /\ Submit => CallerInv'
<1> SUFFICES ASSUME Orderly, WorkerInv, CallerInv, Submit PROVE CallerInv'
  OBVIOUS
<1>1. cur \in Job
  BY DEF Submit, Reject, Accept, RenderLabel, NothingToPrint, StartPrinting, AddLabel,
     FlushJob, Buffered, FlushBefore, SendLabel, DiscreteDone, WorkerInv, TypeInv, CurOK
<1>2. CASE EndSubmit
  BY <1>2, ReturnType DEF EndSubmit, Return, CallerInv, InSend, Sending
<1>3. CASE UNCHANGED <<cur, caller>> /\ ~InSend'
  BY <1>3 DEF CallerInv
<1>4. CASE UNCHANGED <<cur, caller>> /\ InSend'
  <2>1. AddLabel \/ FlushJob \/ FlushBefore \/ SendLabel
    BY <1>4, ReturnType
    DEF Submit, Reject, Accept, RenderLabel, NothingToPrint, StartPrinting, AddLabel,
        FlushJob, Buffered, FlushBefore, SendLabel, DiscreteDone, EndSubmit, Return, Goto,
        InSend, Sending
  <2>2. ASSUME AddLabel
        PROVE  ~NeverFull
    <3> DEFINE s == Append(pending, <<cur, Head(todo)>>)
    <3>1. IsFull(s)
      BY <1>4, <2>2 DEF AddLabel, InSend, Sending
    <3>2. s \in Seq(StripItem) /\ s # <<>> /\ \A it \in Item : Times(it, s) <= Copies(it[1], it[2])
      <4> HIDE DEF s
      <4>1. s = Append(pending, <<cur, Head(todo)>>)
        BY DEF s
      <4> QED
        BY <2>2, <4>1, AddedFits DEF WorkerInv, RegimeInv, Balanced
    <3> QED
      BY <3>1, <3>2 DEF NeverFull
  <2>3. FlushJob => WantsFlush(cur)
    BY DEF FlushJob
  <2>4. FlushBefore \/ SendLabel => PrintsDiscrete(cur)
    BY DEF FlushBefore, SendLabel, WorkerInv, ShapeInv
  <2>5. ExactClock
    BY <1>1, <2>1, <2>2, <2>3, <2>4 DEF Orderly, SentWhenIdle
  <2> QED
    BY <1>4, <2>5, WorkerAssumption DEF CallerInv
<1>5. EndSubmit \/ UNCHANGED <<cur, caller>>
  BY DEF Submit, Reject, Accept, RenderLabel, NothingToPrint, StartPrinting, AddLabel,
     FlushJob, Buffered, FlushBefore, SendLabel, DiscreteDone, Goto
<1> QED
  BY <1>2, <1>3, <1>4, <1>5

LEMMA SendCaller == WorkerInv /\ CallerInv /\ Send => CallerInv'
<1> SUFFICES ASSUME WorkerInv, CallerInv, Send PROVE CallerInv'
  OBVIOUS
<1>1. InSend
  BY DEF Send, ConnectOk, ConnectRetry, ConnectFailed, FrameOk, FrameTorn, Account,
     NoTallyToCredit, Accounted, SettleJob, Settled, InSend, Sending
<1>2. CASE UNCHANGED <<cur, caller>>
  BY <1>1, <1>2 DEF CallerInv
<1>3. CASE cur' = NoJob /\ ~InSend'
  BY <1>3 DEF CallerInv
<1>4. UNCHANGED <<cur, caller>> \/ (cur' = NoJob /\ ~InSend')
  BY ReturnType
  DEF Send, ConnectOk, ConnectRetry, ConnectFailed, FrameOk, FrameTorn, Account,
     NoTallyToCredit, Accounted, SettleJob, Settled, ResumeFlush, EndSubmit, Return, Goto,
     InSend, Sending
<1> QED
  BY <1>2, <1>3, <1>4

LEMMA WorldCaller == CallerInv /\ (World \/ UNCHANGED vars) => CallerInv'
<1> SUFFICES ASSUME CallerInv, World \/ UNCHANGED vars PROVE CallerInv'
  OBVIOUS
<1>1. CASE Crash
  BY <1>1 DEF Crash, Forget, CallerInv, InSend, Sending
<1>2. CASE ~Crash
  <2>1. UNCHANGED <<cur, caller, pc>>
    BY <1>2 DEF World, PollFile, Deliver, GapPasses, Enqueue, FlushCommand, Stop, vars
  <2> QED
    BY <2>1 DEF CallerInv, InSend, Sending
<1> QED
  BY <1>1, <1>2

LEMMA CallerStep == Orderly /\ WorkerInv /\ CallerInv /\ [Next]_vars => CallerInv'
BY LoopCaller, SubmitCaller, SendCaller, WorldCaller DEF Next

-----------------------------------------------------------------------------
(***************************************************************************)
(* What the retry has still to walk is unanswered, and nothing sends a     *)
(* strip with a label of it.                                               *)
(***************************************************************************)
ScanInv ==
    /\ scan \subseteq Queued
    /\ ExactClock => \A j \in scan : ~acc[j].live
    /\ pc = "idle" \/ caller \notin {"recover", "retry"} => scan = {}
    /\ pc = "retry" /\ ExactClock => pending = <<>>

\* Only a job without an answer is submitted.
OpenInv ==
    /\ pc = "submit" => cur \in Queued
    /\ \A j \in Job : state[j] \notin JobState => result[j] = NoResult

OrderInv == CallerInv /\ ScanInv /\ OpenInv

SameRow(j) == state'[j] = state[j] /\ result'[j] = result[j]

WorkedOn(j) == /\ state[j] \notin JobState /\ j \in Queued'
               /\ result'[j] = result[j]

AnsweredNow(j) == /\ j \in Queued /\ state'[j] \in JobState
                  /\ j \notin scan' /\ ~acc'[j].live

RowMoves == \A j \in Job : SameRow(j) \/ WorkedOn(j) \/ AnsweredNow(j)

LEMMA FrameLive ==
    ASSUME WorkerInv, Sending, NEW n \in DOMAIN batch, n >= at
    PROVE  batch[n][1] \in Job /\ acc[batch[n][1]].live /\ state[batch[n][1]] = "printing"
<1>1. TypeInv /\ BalanceInv /\ LiveInv
  BY DEF WorkerInv, RegimeInv
<1>2. PICK j \in Job, i \in Index : batch[n] = <<j, i>> /\ Waiting(j, i) > 0
  BY <1>1, FrameWaits
<1>3. acc[j].live
  BY <1>1, <1>2, WaitsLive
<1> QED
  BY <1>1, <1>2, <1>3 DEF LiveInv

LEMMA ScanNotSent ==
    ASSUME WorkerInv, OrderInv, InSend, NEW j \in scan
    PROVE  ~acc[j].live
BY WorkerAssumption DEF OrderInv, CallerInv, ScanInv

LEMMA AnsweredIsNotOpen == \A j \in Job : j \in Queued => state[j] \notin JobState
BY DEF Queued, JobState

\* A job in flight that is finalized is on the list no more.
LEMMA FinalizeMoves ==
    ASSUME WorkerInv, NEW j \in Job, acc[j].live, Finalize(j), j \notin scan'
    PROVE  RowMoves
<1>1. /\ state' = [state EXCEPT ![j] = ResultOf(j).state]
      /\ result' = [result EXCEPT ![j] = ResultOf(j)]
      /\ acc' = [acc EXCEPT ![j] = NoTally]
      /\ ResultOf(j).state \in JobState
  BY DEF Finalize, Finish, ResultOf, JobState
<1>2. state[j] = "printing" /\ state \in [Job -> RowState] /\ acc \in [Job -> Tally]
  BY DEF WorkerInv, RegimeInv, LiveInv, TypeInv, TypeOK, SpoolTypeOK
<1>3. state'[j] \in JobState /\ ~acc'[j].live /\ j \in Queued
  BY <1>1, <1>2 DEF NoTally, Queued
<1>4. \A k \in Job : k # j => SameRow(k)
  BY <1>1 DEF SameRow
<1> QED
  BY <1>3, <1>4 DEF RowMoves, AnsweredNow

LEMMA MaybeFinalizeMoves ==
    ASSUME WorkerInv, NEW j \in Job, MaybeFinalize(j), acc[j].live => j \notin scan'
    PROVE  RowMoves
BY FinalizeMoves DEF MaybeFinalize, RowMoves, SameRow

LEMMA SubmitMoves == WorkerInv /\ OrderInv /\ Submit => RowMoves
<1> SUFFICES ASSUME WorkerInv, OrderInv, Submit PROVE RowMoves
  OBVIOUS
<1>1. /\ cur \in Job /\ UNCHANGED scan /\ cur \notin scan
      /\ state \in [Job -> RowState] /\ result \in [Job -> Result]
  BY DEF Submit, Reject, Accept, RenderLabel, NothingToPrint, StartPrinting, AddLabel,
     FlushJob, Buffered, FlushBefore, SendLabel, DiscreteDone, WorkerInv, TypeInv, CurOK,
     EndSubmit, Goto, RegimeInv, OnceAtATime, TypeOK, SpoolTypeOK
<1>2. CASE Reject
  <2>1. /\ state' = [state EXCEPT ![cur] = "rejected"] /\ UNCHANGED acc
        /\ result' = [result EXCEPT ![cur] = Rejection]
        /\ cur \in Queued /\ ~acc[cur].live
    BY <1>2 DEF Reject, Finish, Rejection, NoResult, OrderInv, OpenInv, WorkerInv, RegimeInv,
                OnceAtATime
  <2> QED
    BY <1>1, <2>1 DEF RowMoves, SameRow, AnsweredNow, JobState
<1>3. CASE Accept
  <2>1. /\ state' = [state EXCEPT ![cur] = "printing"] /\ UNCHANGED result
        /\ state[cur] \notin JobState
    BY <1>1, <1>3, AnsweredIsNotOpen DEF Accept, Mark, OrderInv, OpenInv
  <2> QED
    BY <1>1, <2>1 DEF RowMoves, SameRow, WorkedOn, Queued
<1>4. CASE NothingToPrint
  BY <1>1, <1>4, FinalizeMoves DEF NothingToPrint, WorkerInv, RegimeInv, RenderInv
<1>5. CASE Buffered \/ DiscreteDone
  BY <1>1, <1>5, MaybeFinalizeMoves DEF Buffered, DiscreteDone
<1>6. CASE RenderLabel \/ StartPrinting \/ AddLabel \/ FlushJob \/ FlushBefore \/ SendLabel
  BY <1>6 DEF RenderLabel, Settle, QueueCopies, RecordDedupe, StartPrinting, AddLabel,
              FlushJob, FlushBefore, SendLabel, RowMoves, SameRow
<1> QED
  BY <1>2, <1>3, <1>4, <1>5, <1>6 DEF Submit

LEMMA SendMoves == WorkerInv /\ OrderInv /\ Send => RowMoves
<1> SUFFICES ASSUME WorkerInv, OrderInv, Send PROVE RowMoves
  OBVIOUS
<1>1. CASE ConnectFailed
  <2>1. /\ state' = [j \in Job |-> IF j \in JobsOf(batch) THEN "queued" ELSE state[j]]
        /\ UNCHANGED result
        /\ Sending /\ at = 0
    BY <1>1 DEF ConnectFailed, Stall, Requeue, Sending, WorkerInv, RegimeInv, StackInv
  <2>2. ASSUME NEW j \in Job, j \in JobsOf(batch)
        PROVE  state[j] = "printing"
    <3>1. PICK n \in DOMAIN batch : batch[n][1] = j
      BY <2>2 DEF JobsOf
    <3>2. n >= at
      BY <2>1 DEF WorkerInv, TypeInv, TypeOK
    <3> QED
      BY <2>1, <3>1, <3>2, FrameLive
  <2> QED
    BY <2>1, <2>2 DEF RowMoves, SameRow, WorkedOn, Queued, JobState
<1>2. CASE SettleJob
  <2>1. /\ batch[at][1] \in Job /\ MaybeFinalize(batch[at][1]) /\ UNCHANGED scan /\ InSend
    BY <1>2 DEF SettleJob, InSend, WorkerInv, TypeInv, TypeOK, Item
  <2> QED
    BY <2>1, ScanNotSent, MaybeFinalizeMoves
<1>3. CASE ~ConnectFailed /\ ~SettleJob
  <2>1. UNCHANGED <<state, result>>
    BY <1>3 DEF Send, ConnectOk, ConnectRetry, FrameOk, FrameTorn, NoTallyToCredit,
       Accounted, Settled, Account, CreditCopy, FailCopy, LabelPrinted
  <2> QED
    BY <2>1 DEF RowMoves, SameRow
<1> QED
  BY <1>1, <1>2, <1>3

LEMMA LoopMoves == Loop => UNCHANGED <<state, result, printed>>
BY DEF Loop, Boot, ScanDone, PollDone, GetJob, GetFlush, Tick, RetryQueued, Shutdown,
       Exit, Resubmit

LEMMA WorldMoves ==
    WorkerInv /\ (World \/ UNCHANGED vars) =>
        /\ RowMoves
        /\ \A j \in Job : state'[j] = state[j] \/ (state[j] = "absent" /\ state'[j] = "queued")
        /\ UNCHANGED <<result, printed>>
<1> SUFFICES ASSUME WorkerInv, World \/ UNCHANGED vars
             PROVE  /\ RowMoves
                    /\ \A j \in Job : \/ state'[j] = state[j]
                                      \/ state[j] = "absent" /\ state'[j] = "queued"
                    /\ UNCHANGED <<result, printed>>
  OBVIOUS
<1>1. UNCHANGED <<result, printed>>
  BY DEF World, PollFile, Deliver, GapPasses, Insert, Enqueue, FlushCommand, Stop, Crash, vars
<1>2. \/ UNCHANGED state
      \/ \E j \in Job : state[j] = "absent" /\ state' = [state EXCEPT ![j] = "queued"]
  BY DEF World, PollFile, Deliver, GapPasses, Insert, Enqueue, FlushCommand, Stop, Crash, vars
<1>3. \A j \in Job : state'[j] = state[j] \/ (state[j] = "absent" /\ state'[j] = "queued")
  BY <1>2 DEF WorkerInv, TypeInv, TypeOK, SpoolTypeOK
<1>4. RowMoves
  BY <1>1, <1>3 DEF RowMoves, SameRow, WorkedOn, Queued, JobState
<1> QED
  BY <1>1, <1>3, <1>4

LEMMA NextMoves == WorkerInv /\ OrderInv /\ [Next]_vars => RowMoves
BY LoopMoves, SubmitMoves, SendMoves, WorldMoves DEF Next, RowMoves, SameRow

LEMMA OpenStep == WorkerInv /\ OrderInv /\ [Next]_vars => OpenInv'
<1> SUFFICES ASSUME WorkerInv, OrderInv, [Next]_vars PROVE OpenInv'
  OBVIOUS
<1>1. \A j \in Job : state'[j] \notin JobState => result'[j] = NoResult
  BY NextMoves DEF RowMoves, SameRow, WorkedOn, AnsweredNow, OrderInv, OpenInv
<1>2. ASSUME pc' = "submit"
      PROVE  cur' \in Queued'
  <2>1. CASE Loop
    <3>1. UNCHANGED state
      BY <2>1, LoopMoves
    <3>2. GetJob \/ \E j \in Job : Resubmit(j) /\ cur' = j
      BY <1>2, <2>1
      DEF Loop, Boot, ScanDone, PollDone, GetFlush, Tick, RetryQueued, Shutdown, Exit, Resubmit,
          Forget, Goto
    <3>3. CASE GetJob
      <4>1. inbox \in Seq(Job) /\ inbox # <<>>
        BY <3>3 DEF GetJob, WorkerInv, RegimeInv, OnceAtATime
      <4>2. 1 \in DOMAIN inbox /\ inbox[1] = Head(inbox) /\ inbox[1] \in Job
        BY <4>1, HeadTailProperties
      <4> QED
        BY <3>1, <3>3, <4>2 DEF GetJob, WorkerInv, RegimeInv, OnceAtATime, Queued
    <3>4. ASSUME NEW j \in Job, Resubmit(j), cur' = j
          PROVE  cur' \in Queued'
      BY <3>1, <3>4 DEF Resubmit, Oldest, OrderInv, ScanInv, Queued
    <3> QED
      BY <3>2, <3>3, <3>4
  <2>2. CASE Submit
    BY <1>2, <2>2, ReturnType
    DEF Submit, Reject, Accept, RenderLabel, NothingToPrint, StartPrinting, AddLabel, FlushJob,
        Buffered, FlushBefore, SendLabel, DiscreteDone, EndSubmit, Return, Goto
  <2>3. CASE Send
    BY <1>2, <2>3, ReturnType
    DEF Send, ConnectOk, ConnectRetry, ConnectFailed, FrameOk, FrameTorn, Account,
        NoTallyToCredit, Accounted, SettleJob, Settled, ResumeFlush, EndSubmit, Return, Goto
  <2>4. CASE World \/ UNCHANGED vars
    <3>1. pc = "submit" /\ UNCHANGED cur
      BY <1>2, <2>4
      DEF World, PollFile, Deliver, GapPasses, Enqueue, FlushCommand, Stop, Crash, Forget, vars
    <3>2. cur \in Job /\ cur \in Queued
      BY <3>1 DEF WorkerInv, TypeInv, CurOK, OrderInv, OpenInv
    <3>3. state'[cur] = state[cur] \/ state'[cur] = "queued"
      BY <2>4, <3>2, WorldMoves
    <3> QED
      BY <3>1, <3>2, <3>3 DEF Queued
  <2> QED
    BY <2>1, <2>2, <2>3, <2>4 DEF Next
<1> QED
  BY <1>1, <1>2 DEF OpenInv

\* The list is only shortened, and what is left of it stays unanswered.
LEMMA ScanKept ==
    ASSUME WorkerInv, ScanInv, RowMoves, scan' \subseteq scan,
           \A j \in Job : acc'[j].live => acc[j].live \/ j \notin scan',
           pc' = "idle" \/ caller' \notin {"recover", "retry"} => scan' = {},
           pc' = "retry" /\ ExactClock => pending' = <<>>
    PROVE  ScanInv'
<1>1. scan' \subseteq Queued'
  <2> SUFFICES ASSUME NEW j \in scan' PROVE j \in Queued'
    OBVIOUS
  <2>1. j \in Job /\ j \in Queued
    BY DEF ScanInv, Queued
  <2> QED
    BY <2>1 DEF RowMoves, SameRow, WorkedOn, AnsweredNow, Queued
<1>2. ASSUME ExactClock
      PROVE  \A j \in scan' : ~acc'[j].live
  BY <1>2 DEF ScanInv, Queued
<1> QED
  BY <1>1, <1>2 DEF ScanInv

LEMMA LoopScan == WorkerInv /\ OrderInv /\ Loop => ScanInv'
<1> SUFFICES ASSUME WorkerInv, OrderInv, Loop PROVE ScanInv'
  OBVIOUS
<1>0. RowMoves /\ ScanInv
  BY LoopMoves DEF RowMoves, SameRow, OrderInv
<1>1. CASE Boot
  BY <1>1 DEF Boot, ScanInv, Queued, WorkerInv, RegimeInv, OnceAtATime
<1>2. CASE RetryQueued
  <2>1. cur = NoJob /\ Unsettled = {}
    BY <1>2 DEF RetryQueued, WorkerInv, RegimeInv, StackInv, Unsettled, Sending
  <2>2. ExactClock => pending = <<>>
    BY <1>0, <1>2 DEF RetryQueued, ScanInv
  <2>3. pending = <<>> => JobsOf(pending) = {}
    BY DEF JobsOf
  <2>4. ExactClock => \A j \in Job : ~acc[j].live
    BY <2>1, <2>2, <2>3, JobAssumption DEF WorkerInv, RegimeInv, LiveInv
  <2> QED
    BY <1>2, <2>4 DEF RetryQueued, ScanInv, Queued
<1>3. CASE Exit
  BY <1>3 DEF Exit, Forget, ScanInv, Queued
<1>4. ASSUME NEW j \in Job, Resubmit(j)
      PROVE  ScanInv'
  BY <1>0, <1>4, ScanKept DEF Resubmit, ScanInv
<1>5. CASE ScanDone \/ PollDone \/ GetJob \/ GetFlush
  <2>1. scan = {} /\ UNCHANGED <<scan, acc>> /\ pc' # "retry"
    BY <1>5 DEF ScanDone, PollDone, GetJob, GetFlush, Goto, WorkerInv, RegimeInv, OnceAtATime
  <2> QED
    BY <1>0, <2>1, ScanKept
<1>6. CASE Tick \/ Shutdown
  <2>1. scan = {} /\ UNCHANGED <<scan, acc>>
    BY <1>0, <1>6 DEF Tick, Shutdown, ScanInv
  <2>2. pc' = "retry" /\ ExactClock => pending' = <<>>
    BY <1>6 DEF Tick, Shutdown
  <2> QED
    BY <1>0, <2>1, <2>2, ScanKept
<1> QED
  BY <1>1, <1>2, <1>3, <1>4, <1>5, <1>6 DEF Loop

LEMMA SubmitScan == WorkerInv /\ OrderInv /\ Submit => ScanInv'
<1> SUFFICES ASSUME WorkerInv, OrderInv, Submit PROVE ScanInv'
  OBVIOUS
<1>1. /\ cur \in Job /\ UNCHANGED scan /\ cur \notin scan
      /\ caller \in {"recover", "retry", "item"}
  BY JobAssumption
  DEF Submit, Reject, Accept, RenderLabel, NothingToPrint, StartPrinting, AddLabel,
     FlushJob, Buffered, FlushBefore, SendLabel, DiscreteDone, WorkerInv, TypeInv, CurOK,
     EndSubmit, Goto, RegimeInv, OnceAtATime, OrderInv, CallerInv
<1>2. \A j \in Job : acc'[j].live => acc[j].live \/ j = cur
  BY <1>1
  DEF Submit, Reject, Accept, RenderLabel, Settle, QueueCopies, NothingToPrint, StartPrinting,
      AddLabel, FlushJob, Buffered, FlushBefore, SendLabel, DiscreteDone, MaybeFinalize, Finalize,
      NoTally, WorkerInv, TypeInv, TypeOK
<1>3. pc' # "retry" /\ (pc' = "idle" => caller = "item") /\ (caller' = caller \/ caller = "item")
  BY <1>1
  DEF Submit, Reject, Accept, RenderLabel, NothingToPrint, StartPrinting, AddLabel, FlushJob,
      Buffered, FlushBefore, SendLabel, DiscreteDone, EndSubmit, Return, ReturnTo, Goto
<1>4. caller = "item" => scan = {}
  BY DEF OrderInv, ScanInv
<1> QED
  BY <1>1, <1>2, <1>3, <1>4, SubmitMoves, ScanKept DEF OrderInv

LEMMA SendScan == WorkerInv /\ OrderInv /\ Send => ScanInv'
<1> SUFFICES ASSUME WorkerInv, OrderInv, Send PROVE ScanInv'
  OBVIOUS
<1>1. InSend /\ UNCHANGED <<scan, pending>> /\ pending = <<>>
  BY DEF Send, ConnectOk, ConnectRetry, ConnectFailed, FrameOk, FrameTorn, Account,
     NoTallyToCredit, Accounted, SettleJob, Settled, ResumeFlush, EndSubmit, Goto, InSend,
     Sending, WorkerInv, RegimeInv, StackInv
<1>2. \A j \in Job : acc'[j].live => acc[j].live
  <2>1. acc \in [Job -> Tally]
    BY DEF WorkerInv, TypeInv, TypeOK
  <2>2. CASE Account
    <3>1. PICK j \in Job, i \in Index : CreditCopy(j, i) \/ FailCopy(j, i)
      BY <2>2 DEF Account, WorkerInv, TypeInv, TypeOK, Item
    <3> QED
      BY <2>1, <3>1, FailedUpdate, DoneUpdate DEF CreditCopy, Credits, TallyTypeOK
  <2>3. CASE ~Account
    BY <2>1, <2>3
    DEF Send, ConnectOk, ConnectRetry, ConnectFailed, Stall, FrameOk, FrameTorn,
        NoTallyToCredit, Accounted, SettleJob, MaybeFinalize, Finalize, Settled, NoTally
  <2> QED
    BY <2>2, <2>3
<1>3. \/ UNCHANGED caller /\ pc' # "idle"
      \/ Return
  BY DEF Send, ConnectOk, ConnectRetry, ConnectFailed, FrameOk, FrameTorn, Account,
     NoTallyToCredit, Accounted, SettleJob, Settled, ResumeFlush, EndSubmit, Goto
<1>4. Return => /\ pc' = "idle" => caller \notin {"recover", "retry"}
                /\ caller' = caller \/ caller \notin {"recover", "retry"}
  BY DEF Return, ReturnTo
<1>5. caller \notin {"recover", "retry"} => scan = {}
  BY DEF OrderInv, ScanInv
<1> QED
  BY <1>1, <1>2, <1>3, <1>4, <1>5, SendMoves, ScanKept DEF OrderInv

LEMMA WorldScan == WorkerInv /\ OrderInv /\ (World \/ UNCHANGED vars) => ScanInv'
<1> SUFFICES ASSUME WorkerInv, OrderInv, World \/ UNCHANGED vars PROVE ScanInv'
  OBVIOUS
<1>1. CASE Crash
  BY <1>1 DEF Crash, Forget, ScanInv, Queued
<1>2. CASE ~Crash
  <2>1. UNCHANGED <<scan, acc, pc, caller, pending>>
    BY <1>2 DEF World, PollFile, Deliver, GapPasses, Enqueue, FlushCommand, Stop, vars
  <2> QED
    BY <2>1, WorldMoves, ScanKept DEF OrderInv, ScanInv
<1> QED
  BY <1>1, <1>2

LEMMA OrderStep == Orderly /\ WorkerInv /\ OrderInv /\ [Next]_vars => OrderInv'
BY CallerStep, OpenStep, LoopScan, SubmitScan, SendScan, WorldScan DEF Next, OrderInv

LEMMA OrderInit == Init => OrderInv
BY JobAssumption DEF Init, SpoolInit, OrderInv, CallerInv, ScanInv, OpenInv, InSend, Sending

\* What has been answered is left alone.
LEMMA AnswerFinal ==
    ASSUME WorkerInv, OrderInv, [Next]_vars, NEW j \in Job, state[j] \in JobState
    PROVE  SameRow(j) /\ ~acc[j].live
<1>1. ~acc[j].live
  BY DEF WorkerInv, RegimeInv, LiveInv, JobState
<1>2. SameRow(j)
  BY NextMoves, AnsweredIsNotOpen DEF RowMoves, WorkedOn, AnsweredNow
<1> QED
  BY <1>1, <1>2

-----------------------------------------------------------------------------
(***************************************************************************)
(* A tally that settles a label before printing it expects no copy of it,  *)
(* and reports each label on record as printed once it has come to it.     *)
(***************************************************************************)
OutcomeOf(j, i) ==
    /\ NotYetRendered(j, i) \/ acc[j].expected[i] > 0 => acc[j].render[i] = "none"
    /\ i \in printed[j] /\ ~NotYetRendered(j, i) => LabelOutcome(acc[j], i) = "printed"

OutcomeInv == \A j \in Job :
    /\ acc[j].live \/ printed[j] # {} => Contract[j].model
    /\ acc[j].live => \A i \in Label(j) : OutcomeOf(j, i)

TalliesSame == \A j \in Job : acc'[j].live => acc'[j] = acc[j]

LEMMA OutcomeKept ==
    ASSUME WorkerInv, OutcomeInv, UNCHANGED printed, TalliesSame, RenderEnds,
           pc' = "render" => UNCHANGED <<pc, label>>
    PROVE  OutcomeInv'
<1> SUFFICES ASSUME NEW j \in Job
             PROVE  /\ acc'[j].live \/ printed'[j] # {} => Contract[j].model
                    /\ acc'[j].live => \A i \in Label(j) : OutcomeOf(j, i)'
  BY DEF OutcomeInv
<1>1. acc'[j].live => acc[j].live
  BY DEF TalliesSame
<1>2. ASSUME acc'[j].live, NEW i \in Label(j)
      PROVE  OutcomeOf(j, i)'
  <2>1. acc'[j] = acc[j] /\ OutcomeOf(j, i)
    BY <1>2 DEF TalliesSame, OutcomeInv
  <2>2. NotYetRendered(j, i)' = NotYetRendered(j, i)
    <3>1. CASE pc = "render"
      <4>1. \/ UNCHANGED <<pc, cur, label>>
            \/ pc' # "render" /\ label \notin Label(cur)
        BY <1>2, <3>1 DEF RenderEnds
      <4>2. label \in Nat \ {0}
        BY <3>1 DEF WorkerInv, RegimeInv, RenderInv, TypeInv, TypeOK
      <4>3. label \notin Label(cur) => ~NotYetRendered(j, i)
        BY <4>2, LabelPastEnd DEF NotYetRendered
      <4>4. pc' # "render" => ~NotYetRendered(j, i)'
        BY DEF NotYetRendered
      <4>5. UNCHANGED <<pc, cur, label>> => NotYetRendered(j, i)' = NotYetRendered(j, i)
        BY DEF NotYetRendered
      <4>6. NotYetRendered(j, i) \in BOOLEAN /\ NotYetRendered(j, i)' \in BOOLEAN
        BY DEF NotYetRendered
      <4> QED
        BY <4>1, <4>3, <4>4, <4>5, <4>6
    <3>2. CASE pc # "render"
      BY <3>2 DEF NotYetRendered
    <3> QED
      BY <3>1, <3>2
  <2> QED
    BY <2>1, <2>2 DEF OutcomeOf, LabelOutcome
<1> QED
  BY <1>1, <1>2 DEF OutcomeInv

LEMMA MaybeFinalizeSame ==
    ASSUME WorkerInv, NEW j \in Job, MaybeFinalize(j) \/ Finalize(j)
    PROVE  TalliesSame /\ UNCHANGED printed
BY DEF MaybeFinalize, Finalize, Finish, NoTally, TalliesSame, WorkerInv, TypeInv, TypeOK

LEMMA AcceptOutcome ==
    ASSUME WorkerInv, OutcomeInv, Accept
    PROVE  OutcomeInv'
<1>1. /\ cur \in Job /\ Contract[cur].model /\ UNCHANGED <<printed, cur>>
      /\ acc' = [acc EXCEPT ![cur] = NewTally] /\ acc \in [Job -> Tally]
      /\ pc = "submit" /\ pc' = "render" /\ label' = 1
  BY DEF Accept, Mark, Goto, WorkerInv, TypeInv, TypeOK, CurOK
<1>2. ASSUME NEW i \in Label(cur)
      PROVE  OutcomeOf(cur, i)'
  <2>1. i \in Index /\ i \in Nat /\ i >= 1
    BY <1>1, LabelFacts DEF Label, Envelope
  <2>2. NotYetRendered(cur, i)' /\ acc'[cur].render[i] = "none"
    BY <1>1, <2>1 DEF NotYetRendered, NewTally, NoTally, NoLabels
  <2> QED
    BY <1>1, <2>2 DEF OutcomeOf
<1>3. ASSUME NEW j \in Job, j # cur, acc[j].live, NEW i \in Label(j)
      PROVE  OutcomeOf(j, i)'
  <2>1. acc'[j] = acc[j] /\ OutcomeOf(j, i)
    BY <1>1, <1>3 DEF OutcomeInv
  <2>2. ~NotYetRendered(j, i) /\ ~NotYetRendered(j, i)'
    BY <1>1, <1>3 DEF NotYetRendered
  <2> QED
    BY <1>1, <2>1, <2>2 DEF OutcomeOf, LabelOutcome
<1>4. \A j \in Job : j # cur => acc'[j] = acc[j]
  BY <1>1
<1> QED
  BY <1>1, <1>2, <1>3, <1>4 DEF OutcomeInv

LEMMA RenderOutcome ==
    ASSUME WorkerInv, OutcomeInv, RenderLabel
    PROVE  OutcomeInv'
<1>1. /\ cur \in Job /\ cur' = cur /\ printed' = printed /\ acc \in [Job -> Tally]
      /\ pc = "render" /\ pc' = "render" /\ label \in Label(cur) /\ label' = label + 1
      /\ label \in Nat /\ label \in Index /\ Label(cur) \subseteq Nat
  <2>1. /\ cur \in Job /\ acc \in [Job -> Tally] /\ label \in Nat /\ label \in Label(cur)
        /\ pc = "render" /\ label' = label + 1 /\ UNCHANGED <<pc, cur>>
    BY DEF RenderLabel, WorkerInv, TypeInv, TypeOK, CurOK
  <2>2. UNCHANGED printed
    BY DEF RenderLabel, Settle, QueueCopies, RecordDedupe
  <2>3. label \in Index /\ Contract[cur].labels \in Seq(LabelSpec)
    BY <2>1, LabelFacts DEF Envelope
  <2>4. Label(cur) \subseteq Nat
    BY <2>3 DEF Label
  <2> QED
    BY <2>1, <2>2, <2>3, <2>4
<1>2. /\ acc[cur].live /\ acc[cur].expected[label] = 0 /\ acc[cur].render[label] = "none"
      /\ OutcomeOf(cur, label) /\ Contract[cur].model
  BY <1>1 DEF WorkerInv, RegimeInv, RenderInv, OutcomeInv, OutcomeOf, NotYetRendered
<1>3. PICK t \in Tally :
         /\ acc' = [acc EXCEPT ![cur] = t] /\ t.live /\ t.done = acc[cur].done
         /\ \A i \in Index : i # label => /\ t.render[i] = acc[cur].render[i]
                                          /\ t.expected[i] = acc[cur].expected[i]
         /\ \/ t.render[label] = "printed" /\ t.expected[label] = 0
            \/ t.render[label] # "none" /\ t.expected[label] = 0 /\ label \notin printed[cur]
            \/ t.render[label] = "none" /\ label \notin printed[cur]
  <2>1. ASSUME NEW s \in {"printed", "skipped", "failed"},
               acc' = [acc EXCEPT ![cur].render[label] = s]
        PROVE  \E t \in Tally :
                 /\ acc' = [acc EXCEPT ![cur] = t] /\ t.live /\ t.done = acc[cur].done
                 /\ \A i \in Index : i # label => /\ t.render[i] = acc[cur].render[i]
                                                  /\ t.expected[i] = acc[cur].expected[i]
                 /\ t.render[label] = s /\ t.expected[label] = 0
    <3> DEFINE t == [acc[cur] EXCEPT !.render[label] = s]
    <3>1. acc[cur] \in Tally /\ s \in LabelState
      BY <1>1 DEF LabelState
    <3>2. t \in Tally /\ t.live = acc[cur].live /\ t.done = acc[cur].done
          /\ t.expected = acc[cur].expected /\ t.render = [acc[cur].render EXCEPT ![label] = s]
      BY <1>1, <3>1 DEF Tally
    <3>3. acc' = [acc EXCEPT ![cur] = t]
      BY <1>1, <2>1
    <3>4. acc[cur].render \in [Index -> LabelState]
      BY <3>1 DEF Tally
    <3> HIDE DEF t
    <3> QED
      BY <1>1, <1>2, <3>2, <3>3, <3>4
  <2> DEFINE c == Copies(cur, label)
  <2>3. c \in Nat
    BY <1>1, LabelFacts
  <2> HIDE DEF c
  <2>2. ASSUME acc' = [acc EXCEPT ![cur].expected[label] = c]
        PROVE  \E t \in Tally :
                 /\ acc' = [acc EXCEPT ![cur] = t] /\ t.live /\ t.done = acc[cur].done
                 /\ \A i \in Index : i # label => /\ t.render[i] = acc[cur].render[i]
                                                  /\ t.expected[i] = acc[cur].expected[i]
                 /\ t.render[label] = "none"
    <3> DEFINE t == [acc[cur] EXCEPT !.expected[label] = c]
    <3>1. acc[cur] \in Tally
      BY <1>1
    <3>2. t \in Tally /\ t.live = acc[cur].live /\ t.done = acc[cur].done
          /\ t.render = acc[cur].render /\ t.expected = [acc[cur].expected EXCEPT ![label] = c]
      BY <1>1, <2>3, <3>1 DEF Tally
    <3>3. acc' = [acc EXCEPT ![cur] = t]
      BY <1>1, <2>2
    <3>4. acc[cur].expected \in [Index -> Nat]
      BY <3>1 DEF Tally
    <3> HIDE DEF t
    <3> QED
      BY <1>1, <1>2, <3>2, <3>3, <3>4
  <2>4. \/ acc' = [acc EXCEPT ![cur].render[label] = "printed"]
        \/ /\ label \notin printed[cur]
           /\ \E s \in {"skipped", "failed"} : acc' = [acc EXCEPT ![cur].render[label] = s]
        \/ /\ label \notin printed[cur]
           /\ acc' = [acc EXCEPT ![cur].expected[label] = c]
    BY DEF RenderLabel, Settle, QueueCopies, PrintedLabels, c
  <2>5. CASE acc' = [acc EXCEPT ![cur].render[label] = "printed"]
    BY <2>1, <2>5
  <2>6. ASSUME label \notin printed[cur], NEW s \in {"skipped", "failed"},
               acc' = [acc EXCEPT ![cur].render[label] = s]
        PROVE  \E t \in Tally :
                 /\ acc' = [acc EXCEPT ![cur] = t] /\ t.live /\ t.done = acc[cur].done
                 /\ \A i \in Index : i # label => /\ t.render[i] = acc[cur].render[i]
                                                  /\ t.expected[i] = acc[cur].expected[i]
                 /\ t.render[label] # "none" /\ t.expected[label] = 0
    BY <2>1, <2>6
  <2>7. CASE label \notin printed[cur] /\ acc' = [acc EXCEPT ![cur].expected[label] = c]
    BY <2>2, <2>7
  <2> QED
    BY <2>4, <2>5, <2>6, <2>7
<1>4. acc'[cur] = t /\ \A j \in Job : j # cur => acc'[j] = acc[j]
  BY <1>1, <1>3
<1>5. ASSUME NEW i \in Label(cur)
      PROVE  OutcomeOf(cur, i)'
  <2>1. CASE i = label
    <3>1. ~NotYetRendered(cur, i)'
      BY <1>1, <2>1 DEF NotYetRendered
    <3> QED
      BY <1>1, <1>3, <1>4, <2>1, <3>1 DEF OutcomeOf, LabelOutcome
  <2>2. CASE i # label
    <3>1. i \in Index /\ OutcomeOf(cur, i)
      BY <1>1, <1>2, LabelFacts DEF OutcomeInv
    <3>2. NotYetRendered(cur, i)' <=> NotYetRendered(cur, i)
      BY <1>1, <2>2 DEF NotYetRendered
    <3>3. /\ acc'[cur].render[i] = acc[cur].render[i]
          /\ acc'[cur].expected[i] = acc[cur].expected[i]
          /\ acc'[cur].done = acc[cur].done
      BY <1>3, <1>4, <2>2, <3>1
    <3> QED
      BY <1>1, <3>1, <3>2, <3>3 DEF OutcomeOf, LabelOutcome
  <2> QED
    BY <2>1, <2>2
<1>6. ASSUME NEW j \in Job, j # cur, acc[j].live, NEW i \in Label(j)
      PROVE  OutcomeOf(j, i)'
  <2>1. acc'[j] = acc[j] /\ OutcomeOf(j, i)
    BY <1>4, <1>6 DEF OutcomeInv
  <2>2. ~NotYetRendered(j, i) /\ ~NotYetRendered(j, i)'
    BY <1>1, <1>6 DEF NotYetRendered
  <2> QED
    BY <1>1, <2>1, <2>2 DEF OutcomeOf, LabelOutcome
<1> QED
  BY <1>1, <1>2, <1>4, <1>5, <1>6 DEF OutcomeInv

LEMMA AccountOutcome ==
    ASSUME WorkerInv, OutcomeInv, Account
    PROVE  OutcomeInv'
<1>1. PICK j \in Job, i \in Index : batch[at] = <<j, i>> /\ i \in Label(j) /\ Waiting(j, i) > 0
  <2>1. Sending /\ at \in DOMAIN batch /\ at >= at /\ TypeInv
    BY DEF Account, Sending, WorkerInv, TypeInv, TypeOK
  <2> QED
    BY <2>1, FrameWaits
<1>2. acc[j].live /\ Contract[j].model
  BY <1>1 DEF Account, OutcomeInv
<1>3. acc[j].expected[i] > 0 /\ i \notin printed[j]
  <2>1. /\ acc[j].done[i] \in Nat /\ acc[j].failed[i] \in Nat /\ acc[j].expected[i] \in Nat
        /\ Waiting(j, i) \in Nat
    BY CountedType, WaitingType DEF WorkerInv
  <2>2. acc[j].done[i] + acc[j].failed[i] + Waiting(j, i) = acc[j].expected[i]
    BY <1>2 DEF WorkerInv, RegimeInv, BalanceInv, Accounts
  <2>3. acc[j].expected[i] > 0
    BY <1>1, <2>1, <2>2
  <2> QED
    BY <1>1, <2>3 DEF WorkerInv, RegimeInv, UncommittedInv
<1>4. acc[j].render[i] = "none"
  BY <1>1, <1>2, <1>3 DEF OutcomeInv, OutcomeOf
<1>5. TallyTypeOK /\ pc # "render" /\ pc' # "render"
  BY DEF Account, WorkerInv, TypeInv, TypeOK, TallyTypeOK
<1>6. \A k \in Job : \A n \in Label(k) : ~NotYetRendered(k, n) /\ ~NotYetRendered(k, n)'
  BY <1>5 DEF NotYetRendered
<1>7. printed \in [Job -> SUBSET Index]
  BY DEF WorkerInv, TypeInv, TypeOK, SpoolTypeOK
<1>8. CASE FailCopy(j, i)
  <2>1. UNCHANGED printed
    BY <1>8 DEF FailCopy
  <2>2. \A k \in Job : /\ acc'[k].render = acc[k].render /\ acc'[k].expected = acc[k].expected
                       /\ acc'[k].live = acc[k].live /\ acc'[k].done = acc[k].done
    BY <1>5, <1>8, FailedUpdate
  <2> QED
    BY <1>6, <2>1, <2>2 DEF OutcomeInv, OutcomeOf, LabelOutcome
<1>9. CASE CreditCopy(j, i)
  <2>1. \A k \in Job, n \in Index :
           /\ acc'[k].render = acc[k].render /\ acc'[k].expected = acc[k].expected
           /\ acc'[k].live = acc[k].live
           /\ acc'[k].done[n] = IF k = j /\ n = i THEN acc[k].done[n] + 1 ELSE acc[k].done[n]
    BY <1>5, <1>9, DoneUpdate DEF CreditCopy, Credits
  <2>2. /\ i \in printed'[j] => acc[j].done[i] + 1 >= acc[j].expected[i]
        /\ \A k \in Job, n \in Index : k # j \/ n # i => (n \in printed'[k] <=> n \in printed[k])
        /\ \A k \in Job : k # j => printed'[k] = printed[k]
    BY <1>3, <1>7, <1>9 DEF CreditCopy, LabelPrinted
  <2>3. \A k \in Job : acc'[k].live = acc[k].live
    BY <1>1, <2>1
  <2>4. \A k \in Job : acc'[k].live \/ printed'[k] # {} => Contract[k].model
    BY <1>2, <2>2, <2>3 DEF OutcomeInv
  <2>5. ASSUME NEW k \in Job, acc[k].live, NEW n \in Label(k)
        PROVE  OutcomeOf(k, n)'
    <3>1. n \in Index /\ OutcomeOf(k, n)
      BY <2>5, LabelFacts DEF OutcomeInv
    <3>2. CASE k = j /\ n = i
      <4>1. acc'[k].done[n] = acc[j].done[i] + 1 /\ acc'[k].expected[n] = acc[j].expected[i]
            /\ acc'[k].render[n] = "none"
        BY <1>4, <2>1, <3>1, <3>2
      <4>2. n \in printed'[k] => acc'[k].done[n] >= acc'[k].expected[n]
        BY <2>2, <3>2, <4>1
      <4> QED
        BY <1>3, <1>6, <3>2, <4>1, <4>2 DEF OutcomeOf, LabelOutcome
    <3>3. CASE k # j \/ n # i
      <4>1. /\ acc'[k].done[n] = acc[k].done[n] /\ acc'[k].expected[n] = acc[k].expected[n]
            /\ acc'[k].render[n] = acc[k].render[n]
            /\ n \in printed'[k] <=> n \in printed[k]
        BY <2>1, <2>2, <3>1, <3>3
      <4> QED
        BY <1>6, <3>1, <4>1 DEF OutcomeOf, LabelOutcome
    <3> QED
      BY <3>2, <3>3
  <2> QED
    BY <2>3, <2>4, <2>5 DEF OutcomeInv
<1>10. CreditCopy(j, i) \/ FailCopy(j, i)
  BY <1>1 DEF Account
<1> QED
  BY <1>8, <1>9, <1>10

LEMMA OutcomeStep == WorkerInv /\ OutcomeInv /\ [Next]_vars => OutcomeInv'
<1> SUFFICES ASSUME WorkerInv, OutcomeInv, [Next]_vars PROVE OutcomeInv'
  OBVIOUS
<1>0. TypeInv /\ acc \in [Job -> Tally]
  BY DEF WorkerInv, TypeInv, TypeOK
<1>1. CASE Loop \/ World \/ UNCHANGED vars
  <2>1. TalliesSame
    BY <1>1
    DEF Loop, Boot, ScanDone, PollDone, GetJob, GetFlush, Tick, RetryQueued, Shutdown, Exit,
        Resubmit, World, PollFile, Deliver, GapPasses, Enqueue, FlushCommand, Stop, Crash, vars,
        Forget, NoTally, TalliesSame
  <2>2. CASE Loop \/ World
    BY <1>0, <2>1, <2>2, LoopCalm, WorldCalm, OutcomeKept DEF CalmStep
  <2>3. CASE UNCHANGED vars
    BY <2>1, <2>3, OutcomeKept DEF vars, RenderEnds
  <2> QED
    BY <1>1, <2>2, <2>3
<1>2. CASE CalmSubmit
  <2>1. TalliesSame
    BY <1>0, <1>2, MaybeFinalizeSame
    DEF CalmSubmit, Reject, NothingToPrint, StartPrinting, FlushJob, Buffered, FlushBefore,
        DiscreteDone, TalliesSame, WorkerInv, TypeInv, CurOK
  <2> QED
    BY <1>0, <1>2, <2>1, SubmitCalm, OutcomeKept DEF CalmStep
<1>3. CASE CalmSend
  <2>1. TalliesSame
    <3>1. CASE ConnectFailed
      BY <3>1 DEF ConnectFailed, Stall, NoTally, TalliesSame
    <3>2. CASE SettleJob
      BY <1>0, <3>2, MaybeFinalizeSame DEF SettleJob, TypeInv, TypeOK, Item
    <3>3. CASE ~ConnectFailed /\ ~SettleJob
      BY <1>3, <3>3
      DEF CalmSend, ConnectOk, ConnectRetry, FrameTorn, NoTallyToCredit, Accounted, Settled,
          TalliesSame
    <3> QED
      BY <3>1, <3>2, <3>3
  <2> QED
    BY <1>0, <1>3, <2>1, SendCalm, OutcomeKept DEF CalmStep
<1>4. CASE AddLabel \/ SendLabel \/ FrameOk
  <2>1. TalliesSame /\ UNCHANGED printed /\ pc # "render" /\ pc' # "render"
    BY <1>4 DEF AddLabel, SendLabel, FrameOk, Goto, TalliesSame
  <2> QED
    BY <2>1, OutcomeKept DEF RenderEnds
<1>5. CASE Accept \/ RenderLabel \/ Account
  BY <1>5, AcceptOutcome, RenderOutcome, AccountOutcome
<1> QED
  BY <1>1, <1>2, <1>3, <1>4, <1>5 DEF Next, Submit, Send, CalmSubmit, CalmSend

LEMMA OutcomeInit == Init => OutcomeInv
BY DEF Init, SpoolInit, OutcomeInv, NoTally

-----------------------------------------------------------------------------
(***************************************************************************)
(* Each step of the worker is a step of JobLifecycle with Once, in which   *)
(* an answered job is over, or changes none of its columns.                *)
(***************************************************************************)
JobInv == WorkerInv /\ TapeInv /\ CommitInv /\ OrderInv /\ OutcomeInv

LEMMA FinalAnswer ==
    ASSUME JobInv, NEW j \in Job, acc[j].live, \A i \in Label(j) : ~NotYetRendered(j, i),
           Finalize(j)
    PROVE  OneAnswer!Answer(j)
<1>1. TypeInv /\ TallyCommitted
  BY DEF JobInv, WorkerInv, CommitInv
<1>2. Lifecycle!Honest(j, ResultOf(j))
  BY <1>1, ResultIsHonest
<1>3. printed[j] \subseteq {i \in Label(j) : ResultOf(j).label[i] = "printed"}
  <2> SUFFICES ASSUME NEW i \in printed[j] PROVE i \in Label(j) /\ ResultOf(j).label[i] = "printed"
    OBVIOUS
  <2>1. i \in Label(j)
    BY DEF JobInv, TapeInv, CommittedOnTape
  <2>2. LabelOutcome(acc[j], i) = "printed"
    BY <2>1 DEF JobInv, OutcomeInv, OutcomeOf
  <2> QED
    BY <1>1, <2>1, <2>2, OutcomeIsKnown
<1>4. OneAnswer!Honest(j, ResultOf(j))
  BY <1>2, <1>3
  DEF OneAnswer!Honest, OneAnswer!Reported, OneAnswer!Unanswered, Lifecycle!Honest,
      Lifecycle!Reported, Lifecycle!Unanswered
<1>5. result'[j] = ResultOf(j) /\ state[j] = "printing"
  BY <1>1 DEF Finalize, Finish, TypeInv, TypeOK, SpoolTypeOK, JobInv, WorkerInv, RegimeInv, LiveInv
<1> QED
  BY <1>4, <1>5 DEF Finalize, Finish, OneAnswer!Answer, OneAnswer!Open

OneAnswerStep == OneAnswer!Next \/ SameRecord

LEMMA MaybeFinalAnswer ==
    ASSUME JobInv, NEW j \in Job, \A i \in Label(j) : ~NotYetRendered(j, i), MaybeFinalize(j)
    PROVE  OneAnswerStep
BY FinalAnswer DEF MaybeFinalize, OneAnswerStep, OneAnswer!Next, SameRecord

LEMMA FinalRejection ==
    ASSUME JobInv, Reject
    PROVE  OneAnswerStep
<1>1. cur \in Job /\ cur \in Queued /\ printed[cur] = {} /\ result'[cur] = Rejection
  BY DEF Reject, Finish, JobInv, WorkerInv, TypeInv, TypeOK, SpoolTypeOK, CurOK, OrderInv,
         OpenInv, OutcomeInv
<1>2. Rejection.state = "rejected" /\ Rejection.label = [i \in Index |-> "none"]
  BY DEF Rejection, NoResult, NoLabels
<1>3. OneAnswer!Reported(cur, Rejection, "printed") = {}
  BY <1>1, <1>2, LabelFacts DEF OneAnswer!Reported
<1>4. OneAnswer!Honest(cur, Rejection)
  BY <1>1, <1>2, <1>3 DEF OneAnswer!Honest, OneAnswer!Unanswered
<1>5. OneAnswer!Answer(cur)
  BY <1>1, <1>4 DEF Reject, Finish, OneAnswer!Answer, OneAnswer!Open, Queued
<1> QED
  BY <1>1, <1>5 DEF OneAnswerStep, OneAnswer!Next

LEMMA SubmitOneAnswer == JobInv /\ Submit => OneAnswerStep
<1> SUFFICES ASSUME JobInv, Submit PROVE OneAnswerStep
  OBVIOUS
<1>0. /\ cur \in Job
      /\ pc = "submit" => cur \in Queued
  BY DEF Submit, Reject, Accept, RenderLabel, NothingToPrint, StartPrinting, AddLabel, FlushJob,
         Buffered, FlushBefore, SendLabel, DiscreteDone, JobInv, WorkerInv, TypeInv, CurOK,
         OrderInv, OpenInv
<1>1. CASE Reject
  BY <1>1, FinalRejection
<1>2. CASE Accept
  <2>1. OneAnswer!Start(cur)
    BY <1>0, <1>2 DEF Accept, Mark, OneAnswer!Start, OneAnswer!Open, Queued
  <2> QED
    BY <1>0, <2>1 DEF OneAnswerStep, OneAnswer!Next
<1>3. CASE NothingToPrint
  <2>1. acc[cur].live /\ label \in Nat \ {0} /\ label \notin Label(cur) /\ Finalize(cur)
    BY <1>3 DEF NothingToPrint, JobInv, WorkerInv, RegimeInv, RenderInv, TypeInv, TypeOK
  <2>2. \A i \in Label(cur) : ~NotYetRendered(cur, i)
    BY <1>0, <2>1, LabelPastEnd DEF NotYetRendered
  <2>3. OneAnswer!Answer(cur)
    BY <1>0, <2>1, <2>2, FinalAnswer
  <2> QED
    BY <1>0, <2>3 DEF OneAnswerStep, OneAnswer!Next
<1>4. CASE Buffered \/ DiscreteDone
  <2>1. \A i \in Label(cur) : ~NotYetRendered(cur, i)
    BY <1>4 DEF Buffered, DiscreteDone, NotYetRendered
  <2> QED
    BY <1>0, <1>4, <2>1, MaybeFinalAnswer DEF Buffered, DiscreteDone
<1>5. CASE RenderLabel \/ StartPrinting \/ AddLabel \/ FlushJob \/ FlushBefore \/ SendLabel
  BY <1>5 DEF RenderLabel, Settle, QueueCopies, RecordDedupe, StartPrinting, AddLabel,
              FlushJob, FlushBefore, SendLabel, SameRecord, OneAnswerStep
<1> QED
  BY <1>1, <1>2, <1>3, <1>4, <1>5 DEF Submit

LEMMA SendOneAnswer == JobInv /\ Send => OneAnswerStep
<1> SUFFICES ASSUME JobInv, Send PROVE OneAnswerStep
  OBVIOUS
<1>0. WorkerInv /\ batch \in Seq(Item) /\ at \in Nat
  BY DEF JobInv, WorkerInv, TypeInv, TypeOK
<1>1. CASE ConnectFailed
  <2>1. JobsOf(batch) \in SUBSET Job
    BY <1>0, JobsOfType
  <2>2. ASSUME NEW j \in JobsOf(batch)
        PROVE  state[j] = "printing"
    <3>1. PICK n \in DOMAIN batch : batch[n][1] = j
      BY DEF JobsOf
    <3>2. Sending /\ n >= at
      BY <1>0, <1>1 DEF ConnectFailed, Sending, WorkerInv, RegimeInv, StackInv
    <3> QED
      BY <1>0, <3>1, <3>2, FrameLive
  <2>3. OneAnswer!PutBack(JobsOf(batch))
    BY <1>1, <2>2 DEF ConnectFailed, Stall, Requeue, OneAnswer!PutBack, OneAnswer!Open
  <2> QED
    BY <2>1, <2>3 DEF OneAnswerStep, OneAnswer!Next
<1>2. CASE Account
  <2>1. Sending /\ at \in DOMAIN batch /\ at >= at
    BY <1>0, <1>2 DEF Account, Sending
  <2>2. PICK j \in Job, i \in Index :
           /\ batch[at] = <<j, i>> /\ i \in Label(j)
           /\ CreditCopy(j, i) \/ FailCopy(j, i)
    <3>1. batch[at] \in Item
      BY <1>0, <2>1
    <3>2. PICK it \in Item : it = batch[at]
      BY <3>1
    <3> QED
      BY <1>2, <3>2 DEF Account, Item
  <2>3. state[j] = "printing"
    BY <1>0, <2>1, <2>2, FrameLive
  <2>4. CASE LabelPrinted(j, i)
    <3>1. OneAnswer!LabelOut(j, i)
      BY <2>2, <2>3, <2>4 DEF LabelPrinted, OneAnswer!LabelOut, OneAnswer!Open
    <3> QED
      BY <2>2, <3>1 DEF OneAnswerStep, OneAnswer!Next
  <2>5. CASE UNCHANGED spoolVars
    BY <2>5 DEF SameRecord, OneAnswerStep
  <2> QED
    BY <2>2, <2>4, <2>5 DEF CreditCopy, FailCopy
<1>3. CASE SettleJob
  <2>1. batch[at][1] \in Job /\ MaybeFinalize(batch[at][1])
    BY <1>0, <1>3 DEF SettleJob, Item
  <2>2. \A i \in Label(batch[at][1]) : ~NotYetRendered(batch[at][1], i)
    BY <1>3 DEF SettleJob, NotYetRendered
  <2> QED
    BY <2>1, <2>2, MaybeFinalAnswer
<1>4. CASE ConnectOk \/ ConnectRetry \/ FrameOk \/ FrameTorn \/ NoTallyToCredit
           \/ Accounted \/ Settled
  BY <1>4 DEF ConnectOk, ConnectRetry, FrameOk, FrameTorn, NoTallyToCredit, Accounted,
              Settled, SameRecord, OneAnswerStep
<1> QED
  BY <1>1, <1>2, <1>3, <1>4 DEF Send

LEMMA WorldOneAnswer == World => OneAnswerStep
<1> SUFFICES ASSUME World PROVE OneAnswerStep
  OBVIOUS
<1>1. ASSUME NEW j \in Job, PollFile(j) \/ Deliver(j)
      PROVE  OneAnswerStep
  <2>1. OneAnswer!Admit(j)
    BY <1>1 DEF PollFile, Deliver, Insert, OneAnswer!Admit
  <2> QED
    BY <2>1 DEF OneAnswerStep, OneAnswer!Next
<1>2. ASSUME NEW j \in Job, GapPasses(j)
      PROVE  OneAnswerStep
  BY <1>2 DEF GapPasses, SameRecord, OneAnswerStep
<1>3. CASE Enqueue \/ FlushCommand \/ Stop \/ Crash
  BY <1>3 DEF Enqueue, FlushCommand, Stop, Crash, SameRecord, OneAnswerStep
<1> QED
  BY <1>1, <1>2, <1>3 DEF World

LEMMA JobInit == Init => JobInv
BY TypeInit, ShapeInit, OnceInit, RegimeInit, TapeInit, CommitInit, OrderInit, OutcomeInit
DEF JobInv, WorkerInv

LEMMA JobStep == Orderly /\ JobInv /\ [Next]_vars => JobInv'
BY TypeStep, ShapeStep, OnceStep, RegimeStep, TapeStep, CommitStep, OrderStep, OutcomeStep
DEF JobInv, WorkerInv, Orderly

LEMMA JobStepsOnce == JobInv /\ [Next]_vars => OneAnswerStep
<1> SUFFICES ASSUME JobInv, [Next]_vars PROVE OneAnswerStep
  OBVIOUS
<1>1. CASE UNCHANGED vars
  BY <1>1 DEF vars, OneAnswerStep, SameRecord
<1> QED
  BY <1>1, LoopKeepsRecord, SubmitOneAnswer, SendOneAnswer, WorldOneAnswer
  DEF Next, OneAnswerStep

\* Where jobs come from the directory, no strip is sent in the middle of one
\* and the retry finds nothing in flight, a job is answered once: from the
\* answer on neither its row, its record of printed labels nor its answer
\* moves, and the answer names exactly the labels on record.
THEOREM JobsAnsweredOnce == Orderly => (Spec => AnswersOnce)
<1> SUFFICES ASSUME Orderly PROVE Spec => AnswersOnce
  OBVIOUS
<1>1. Init => OneAnswer!Init
  BY DEF Init, SpoolInit, NoResult, NoLabels, OneAnswer!Init, OneAnswer!Unanswered
<1>2. JobInv /\ [Next]_vars => [OneAnswer!Next]_(OneAnswer!vars)
  BY JobStepsOnce DEF OneAnswerStep, SameRecord, OneAnswer!vars
<1>3. JobInv /\ [Next]_vars => JobInv'
  BY JobStep
<1> QED
  BY <1>1, <1>2, <1>3, JobInit, PTL DEF Spec, AnswersOnce, OneAnswer!Spec

-----------------------------------------------------------------------------
(***************************************************************************)
(* A job of a strip that is out, whole or torn, is in flight until the     *)
(* strip has been accounted for, and has then been answered.               *)
(***************************************************************************)
IsOut(j) == pc \in {"credit", "fail", "settle"} /\ j \in Unsettled /\ acc[j].live

LEMMA NoCrashYet ==
    ASSUME TypeInv, [Next]_vars, crashes' = 0
    PROVE  crashes = 0 /\ ~Crash
<1>1. CASE Stop \/ Crash
  BY <1>1 DEF Stop, Crash, TypeInv, TypeOK
<1>2. CASE ~(Stop \/ Crash)
  <2>1. UNCHANGED crashes
    BY <1>2
    DEF Next, Loop, Boot, ScanDone, PollDone, GetJob, GetFlush, Tick, RetryQueued, Shutdown, Exit,
        Resubmit, Submit, Reject, Accept, RenderLabel, NothingToPrint, StartPrinting, AddLabel,
        FlushJob, Buffered, FlushBefore, SendLabel, DiscreteDone, Send, ConnectOk, ConnectRetry,
        ConnectFailed, FrameOk, FrameTorn, Account, NoTallyToCredit, Accounted, SettleJob,
        Settled, World, PollFile, Deliver, GapPasses, Enqueue, FlushCommand, vars
  <2> QED
    BY <1>2, <2>1
<1> QED
  BY <1>1, <1>2

\* Only the printer moves tape or tears it.
LEMMA PrinterOnly ==
    ASSUME [Next]_vars, ~Crash
    PROVE  \/ FrameOk /\ UNCHANGED torn
           \/ FrameTorn
           \/ UNCHANGED <<tape, torn>>
BY DEF Next, Loop, Boot, ScanDone, PollDone, GetJob, GetFlush, Tick, RetryQueued, Shutdown, Exit,
       Resubmit, Submit, Reject, Accept, RenderLabel, NothingToPrint, StartPrinting, AddLabel,
       FlushJob, Buffered, FlushBefore, SendLabel, DiscreteDone, Send, ConnectOk, ConnectRetry,
       ConnectFailed, FrameOk, Account, NoTallyToCredit, Accounted, SettleJob,
       Settled, World, PollFile, Deliver, GapPasses, Enqueue, FlushCommand, Stop, vars

LEMMA OutSteps ==
    ASSUME pc \in {"credit", "fail", "settle"}, [Next]_vars, ~Crash
    PROVE  \/ Account \/ NoTallyToCredit \/ Accounted \/ SettleJob \/ Settled
           \/ UNCHANGED <<pc, batch, at, acc, strip, torn, tape>>
<1>1. ~Loop
  BY DEF Loop, Boot, ScanDone, PollDone, GetJob, GetFlush, Tick, RetryQueued, Shutdown, Exit,
         Resubmit
<1>2. ~Submit
  BY DEF Submit, Reject, Accept, RenderLabel, NothingToPrint, StartPrinting, AddLabel, FlushJob,
         Buffered, FlushBefore, SendLabel, DiscreteDone
<1>3. CASE Send
  BY <1>3 DEF Send, ConnectOk, ConnectRetry, ConnectFailed, FrameOk, FrameTorn
<1>4. CASE World \/ UNCHANGED vars
  BY <1>4 DEF World, PollFile, Deliver, GapPasses, Enqueue, FlushCommand, Stop, vars
<1> QED
  BY <1>1, <1>2, <1>3, <1>4 DEF Next

\* A tally's marks of what failed stay.
MarksKept(j) == /\ acc[j].partial => acc'[j].partial
                /\ \A i \in Index : acc[j].failed[i] > 0 => acc'[j].failed[i] > 0

LEMMA AccountMarks ==
    ASSUME TypeInv, Account, NEW j \in Job
    PROVE  MarksKept(j) /\ acc'[j].live = acc[j].live
<1>1. PICK k \in Job, n \in Index : CreditCopy(k, n) \/ FailCopy(k, n)
  <2>1. batch[at] \in Item
    BY DEF Account, TypeInv, TypeOK
  <2>2. batch[at][1] \in Job /\ batch[at][2] \in Index
    BY <2>1 DEF Item
  <2> QED
    BY <2>2 DEF Account
<1>2. TallyTypeOK /\ acc \in [Job -> Tally]
  BY DEF TypeInv, TypeOK, TallyTypeOK
<1>3. acc'[j].live = acc[j].live
  BY <1>1, <1>2, FailedUpdate, DoneUpdate DEF CreditCopy, Credits
<1>4. CASE j # k
  BY <1>1, <1>2, <1>4 DEF CreditCopy, FailCopy, MarksKept
<1>5. CASE j = k /\ CreditCopy(k, n)
  BY <1>2, <1>5 DEF CreditCopy, MarksKept
<1>6. CASE j = k /\ FailCopy(k, n)
  <2>1. /\ acc'[j].partial = (acc[j].partial \/ strip)
        /\ acc'[j].failed = [acc[j].failed EXCEPT ![n] = @ + 1]
    BY <1>2, <1>6 DEF FailCopy
  <2>2. acc[j].failed \in [Index -> Nat]
    BY <1>2 DEF Tally
  <2>3. acc[j].partial => acc'[j].partial
    BY <2>1
  <2>4. ASSUME NEW i \in Index, acc[j].failed[i] > 0
        PROVE  acc'[j].failed[i] > 0
    BY <2>1, <2>2, <2>4
  <2> QED
    BY <1>3, <2>3, <2>4 DEF MarksKept
<1> QED
  BY <1>1, <1>3, <1>4, <1>5, <1>6

LEMMA SettlingAnswers ==
    ASSUME WorkerInv, SettleJob, acc[batch[at][1]].live, ~PrintsDiscrete(batch[at][1])
    PROVE  Finalize(batch[at][1])
<1> DEFINE j == batch[at][1]
<1>1. j \in Job /\ MaybeFinalize(j) /\ acc[j].live /\ ~PrintsDiscrete(j)
  BY DEF SettleJob, WorkerInv, TypeInv, TypeOK, Item
<1> HIDE DEF j
<1>2. /\ pending = <<>> /\ ~Sending
      /\ cur = j => todo = <<>>
  BY <1>1 DEF SettleJob, WorkerInv, ShapeInv, RegimeInv, StackInv, InSend, Sending
<1>3. \A i \in Index : Waiting(j, i) = 0
  BY <1>2, NothingWaits DEF Waiting, AtSubmit
<1>4. Finalize(j)
  BY <1>1, <1>3, SettlesComplete DEF WorkerInv, RegimeInv
<1> QED
  BY <1>4 DEF j

LEMMA OutMoves ==
    ASSUME WorkerInv, [Next]_vars, ~Crash, NEW j \in Job, ~PrintsDiscrete(j), IsOut(j)
    PROVE  \/ IsOut(j)' /\ MarksKept(j)
           \/ pc = "settle" /\ Finalize(j)
<1>0. TypeInv /\ at \in Nat /\ batch \in Seq(Item)
  BY DEF WorkerInv, TypeInv, TypeOK
<1>1. CASE Account
  <2>1. Unsettled' = Unsettled /\ pc' = pc /\ pc # "settle"
    BY <1>1 DEF Account, Unsettled, Sending, JobsOf
  <2> QED
    BY <1>0, <1>1, <2>1, AccountMarks DEF IsOut
<1>2. CASE NoTallyToCredit
  BY <1>2, NoOrphan DEF WorkerInv, RegimeInv
<1>3. CASE Accounted
  <2>1. UNCHANGED acc
    BY <1>3 DEF Accounted
  <2>2. j \in JobsOf(batch)
    BY <1>3 DEF Accounted, IsOut, Unsettled, Sending
  <2>3. PICK n \in DOMAIN batch : batch[n][1] = j
    BY <2>2 DEF JobsOf
  <2>4. strip
    BY <1>3, <2>3 DEF Accounted, WorkerInv, ShapeInv, Sending, FrameOf
  <2>5. pc' = "settle" /\ at' = 1 /\ batch' = batch
    BY <1>3, <2>4 DEF Accounted, Goto
  <2>6. n >= 1
    BY <1>0
  <2>7. j \in Unsettled'
    BY <2>3, <2>5, <2>6 DEF Unsettled, Sending
  <2> QED
    BY <2>1, <2>5, <2>7 DEF IsOut, MarksKept
<1>4. CASE SettleJob
  <2>1. PICK m \in DOMAIN batch : m >= at /\ batch[m][1] = j
    BY <1>4 DEF SettleJob, IsOut, Unsettled, Sending
  <2>2. CASE batch[at][1] = j
    BY <1>4, <2>2, SettlingAnswers DEF IsOut, SettleJob
  <2>3. CASE batch[at][1] # j
    <3>1. m >= at + 1 /\ m \in Nat
      BY <1>0, <2>1, <2>3
    <3>2. pc' = "settle" /\ at' = at + 1 /\ batch' = batch
      BY <1>4 DEF SettleJob
    <3>3. j \in Unsettled'
      BY <2>1, <3>1, <3>2 DEF Unsettled, Sending
    <3>4. acc'[j] = acc[j]
      BY <1>0, <1>4, <2>3 DEF SettleJob, MaybeFinalize, Finalize, TypeInv, TypeOK
    <3> QED
      BY <3>2, <3>3, <3>4 DEF IsOut, MarksKept
  <2> QED
    BY <2>2, <2>3
<1>5. CASE Settled
  <2>1. PICK m \in DOMAIN batch : m >= at
    BY <1>5 DEF Settled, IsOut, Unsettled, Sending
  <2>2. at >= 1
    BY <1>5 DEF Settled, WorkerInv, RegimeInv, StackInv
  <2>3. at \in DOMAIN batch
    BY <1>0, <2>1, <2>2
  <2> QED
    BY <1>5, <2>3 DEF Settled
<1>6. CASE UNCHANGED <<pc, batch, at, acc, strip, torn, tape>>
  BY <1>6 DEF IsOut, Unsettled, Sending, JobsOf, MarksKept
<1> QED
  BY <1>1, <1>2, <1>3, <1>4, <1>5, <1>6, OutSteps DEF IsOut

-----------------------------------------------------------------------------
(***************************************************************************)
(* A label of a torn strip has been reported failed, or its tally will say *)
(* so when the strip is settled.                                           *)
(***************************************************************************)
IsReported(it) == /\ state[it[1]] \in JobState
                  /\ result[it[1]].partial /\ result[it[1]].label[it[2]] = "failed"

IsFailing(it) ==
    /\ IsOut(it[1])
    /\ \/ acc[it[1]].partial /\ acc[it[1]].failed[it[2]] > 0
       \/ pc = "fail" /\ strip /\ \E n \in DOMAIN batch : n >= at /\ batch[n] = it

TornInv == crashes = 0 =>
    \A it \in torn : PrintsDiscrete(it[1]) \/ IsReported(it) \/ IsFailing(it)

\* A strip's tally with a failed label and nothing waiting reports it failed.
LEMMA FailedIsReported ==
    ASSUME JobInv, NEW j \in Job, NEW i \in Label(j), acc[j].live, ~PrintsDiscrete(j),
           acc[j].partial, acc[j].failed[i] > 0, Finalize(j)
    PROVE  IsReported(<<j, i>>)'
<1>0. TypeInv /\ i \in Index
  BY LabelFacts DEF JobInv, WorkerInv
<1>1. /\ acc[j].done[i] \in Nat /\ acc[j].failed[i] \in Nat /\ acc[j].expected[i] \in Nat
      /\ Waiting(j, i) \in Nat
  BY <1>0, CountedType, WaitingType
<1>2. acc[j].done[i] + acc[j].failed[i] + Waiting(j, i) = acc[j].expected[i]
  BY <1>0 DEF JobInv, WorkerInv, RegimeInv, BalanceInv, Accounts
<1>3. acc[j].expected[i] > 0 /\ ~(acc[j].done[i] >= acc[j].expected[i])
  BY <1>1, <1>2
<1>4. acc[j].render[i] = "none"
  BY <1>3 DEF JobInv, OutcomeInv, OutcomeOf
<1>5. LabelOutcome(acc[j], i) = "failed"
  BY <1>3, <1>4 DEF LabelOutcome
<1>6. ResultOf(j).label[i] = "failed"
  BY <1>0, <1>5, OutcomeIsKnown
<1>7. ResultOf(j).partial /\ ResultOf(j).state \in JobState
  BY DEF ResultOf, JobState
<1>8. state'[j] = ResultOf(j).state /\ result'[j] = ResultOf(j)
  BY <1>0 DEF Finalize, Finish, TypeInv, TypeOK, SpoolTypeOK
<1> QED
  BY <1>6, <1>7, <1>8 DEF IsReported

LEMMA TornAgain ==
    ASSUME JobInv, [Next]_vars, ~Crash, NEW it \in Item, ~PrintsDiscrete(it[1]),
           IsReported(it) \/ IsFailing(it)
    PROVE  IsReported(it)' \/ IsFailing(it)'
<1>0. PICK j \in Job, i \in Index : it = <<j, i>> /\ i \in Label(j) /\ ~PrintsDiscrete(j)
  BY DEF Item
<1>1. WorkerInv /\ OrderInv /\ TypeInv /\ at \in Nat /\ batch \in Seq(Item)
  BY DEF JobInv, WorkerInv, TypeInv, TypeOK
<1>2. CASE IsReported(it)
  BY <1>0, <1>1, <1>2, AnswerFinal DEF IsReported, SameRow
<1>3. CASE IsFailing(it)
  <2>1. \/ IsOut(j)' /\ MarksKept(j)
        \/ pc = "settle" /\ Finalize(j)
    BY <1>0, <1>1, <1>3, OutMoves DEF IsFailing
  <2>2. CASE pc = "settle" /\ Finalize(j)
    <3>1. acc[j].live /\ acc[j].partial /\ acc[j].failed[i] > 0
      BY <1>0, <1>3, <2>2 DEF IsFailing, IsOut
    <3> QED
      BY <1>0, <2>2, <3>1, FailedIsReported
  <2>3. CASE IsOut(j)' /\ acc[j].partial /\ acc[j].failed[i] > 0 /\ MarksKept(j)
    BY <1>0, <2>3 DEF IsFailing, MarksKept
  <2>4. ASSUME IsOut(j)', pc = "fail", strip, NEW n \in DOMAIN batch, n >= at, batch[n] = it
        PROVE  IsFailing(it)'
    <3>1. Account \/ UNCHANGED <<pc, batch, at, acc, strip, torn, tape>>
      <4>1. ~NoTallyToCredit
        BY <1>1, NoOrphan DEF WorkerInv, RegimeInv
      <4>2. at \in DOMAIN batch
        <5>1. at >= 1
          BY <2>4 DEF JobInv, WorkerInv, RegimeInv, StackInv
        <5> QED
          BY <1>1, <2>4, <5>1
      <4> QED
        BY <2>4, <4>1, <4>2, OutSteps DEF Accounted, SettleJob, Settled
    <3>2. CASE UNCHANGED <<pc, batch, at, acc, strip, torn, tape>>
      BY <1>0, <2>4, <3>2 DEF IsFailing
    <3>3. CASE Account
      <4>1. pc' = "fail" /\ batch' = batch /\ at' = at + 1 /\ strip' = strip
        BY <2>4, <3>3 DEF Account
      <4>2. CASE n = at
        <5>1. FailCopy(j, i)
          BY <1>0, <2>4, <3>3, <4>2 DEF Account
        <5>2. acc \in [Job -> Tally] /\ acc[j].failed \in [Index -> Nat]
          BY <1>1 DEF TypeInv, TypeOK, Tally
        <5>3. /\ acc'[j].partial = (acc[j].partial \/ strip)
              /\ acc'[j].failed = [acc[j].failed EXCEPT ![i] = @ + 1]
          BY <5>1, <5>2 DEF FailCopy
        <5>4. acc'[j].partial
          BY <2>4, <5>3
        <5>5. acc'[j].failed[i] > 0
          BY <5>2, <5>3
        <5> QED
          BY <1>0, <2>4, <5>4, <5>5 DEF IsFailing
      <4>3. CASE n # at
        <5>1. n >= at + 1
          BY <1>1, <2>4, <4>3
        <5> QED
          BY <1>0, <2>4, <4>1, <5>1 DEF IsFailing
      <4> QED
        BY <4>2, <4>3
    <3> QED
      BY <3>1, <3>2, <3>3
  <2>5. \/ acc[j].partial /\ acc[j].failed[i] > 0
        \/ pc = "fail" /\ strip /\ \E n \in DOMAIN batch : n >= at /\ batch[n] = it
    BY <1>0, <1>3 DEF IsFailing
  <2>6. CASE IsOut(j)' /\ MarksKept(j)
    BY <2>3, <2>4, <2>5, <2>6
  <2> QED
    BY <2>1, <2>2, <2>6
<1> QED
  BY <1>2, <1>3

LEMMA TornStep == JobInv /\ TornInv /\ [Next]_vars => TornInv'
<1> SUFFICES ASSUME JobInv, TornInv, [Next]_vars, crashes' = 0,
                    NEW it \in torn', ~PrintsDiscrete(it[1])
             PROVE  IsReported(it)' \/ IsFailing(it)'
  BY DEF TornInv
<1>0. WorkerInv /\ TypeInv /\ batch \in Seq(Item) /\ torn \in SUBSET Item /\ crashes \in Nat
  BY DEF JobInv, WorkerInv, TypeInv, TypeOK
<1>1. crashes = 0 /\ ~Crash
  BY <1>0, NoCrashYet
<1>2. CASE it \in torn
  <2>1. it \in Item /\ (IsReported(it) \/ IsFailing(it))
    BY <1>0, <1>1, <1>2 DEF TornInv
  <2> QED
    BY <1>1, <2>1, TornAgain
<1>3. CASE it \notin torn
  <2>1. FrameTorn
    BY <1>1, <1>3, PrinterOnly
  <2>2. PICK n \in DOMAIN batch : batch[n] = it
    BY <1>3, <2>1 DEF FrameTorn
  <2>3. pc = "frame" /\ Sending /\ at = 0
    BY <1>0, <2>1 DEF FrameTorn, Sending, WorkerInv, RegimeInv, StackInv
  <2>4. strip
    BY <1>0, <2>2, <2>3 DEF WorkerInv, ShapeInv, FrameOf
  <2>5. n >= 1 /\ n >= at /\ n \in Nat
    BY <1>0, <2>3
  <2>6. it[1] \in Job /\ acc[it[1]].live
    BY <1>0, <2>2, <2>3, <2>5, FrameLive
  <2>7. pc' = "fail" /\ at' = 1 /\ UNCHANGED <<batch, strip, acc>>
    BY <2>1, <2>4 DEF FrameTorn, TornRetries, Goto
  <2>8. it[1] \in Unsettled'
    BY <2>2, <2>7 DEF Unsettled, Sending, JobsOf
  <2>9. IsOut(it[1])'
    BY <2>6, <2>7, <2>8 DEF IsOut
  <2> QED
    BY <2>2, <2>4, <2>5, <2>7, <2>9 DEF IsFailing
<1> QED
  BY <1>2, <1>3

LEMMA TornInit == Init => TornInv
BY DEF Init, TornInv

-----------------------------------------------------------------------------
(***************************************************************************)
(* A strip's label is on tape no more often than asked, and on tape at all *)
(* only while its job is being settled or when it has been answered.       *)
(***************************************************************************)
StripLabelOnTape(j, i) ==
    /\ tape[j][i] <= Copies(j, i)
    /\ tape[j][i] = 0 \/ state[j] \in JobState \/ IsOut(j)

StripTapeInv == crashes = 0 =>
    \A j \in Job : ~PrintsDiscrete(j) => \A i \in Label(j) : StripLabelOnTape(j, i)

LEMMA OccursWithin ==
    ASSUME NEW s \in Seq(Item), NEW k \in 0..Len(s), NEW it
    PROVE  Occurs(it, SubSeq(s, 1, k)) <= Times(it, s)
<1> DEFINE A == {n \in DOMAIN SubSeq(s, 1, k) : SubSeq(s, 1, k)[n] = it}
           B == {n \in DOMAIN s : s[n] = it}
<1>1. A \subseteq B
  BY SubSeqProperties
<1>2. IsFiniteSet(B) /\ Times(it, s) = Cardinality(B)
  BY TimesType
<1>3. Occurs(it, SubSeq(s, 1, k)) = Cardinality(A)
  BY DEF Occurs
<1> HIDE DEF A, B
<1> QED
  BY <1>1, <1>2, <1>3, FS_Subset

LEMMA FramePrints ==
    ASSUME JobInv, pc = "frame", NEW k \in 0..Len(batch), tape' = Printed(k),
           NEW j \in Job, NEW i \in Label(j), ~PrintsDiscrete(j), StripLabelOnTape(j, i)
    PROVE  /\ tape'[j][i] <= Copies(j, i)
           /\ \/ tape'[j][i] = 0
              \/ state[j] \in JobState
              \/ strip /\ j \in JobsOf(batch) /\ acc[j].live
<1>0. /\ WorkerInv /\ TypeInv /\ batch \in Seq(Item) /\ at = 0 /\ Sending
      /\ <<j, i>> \in Item /\ i \in Index
      /\ Copies(j, i) \in Nat /\ tape[j][i] \in Nat
  BY CountTypes, LabelFacts
  DEF JobInv, WorkerInv, TypeInv, TypeOK, RegimeInv, StackInv, Sending
<1>1. ASSUME Occurs(<<j, i>>, SubSeq(batch, 1, k)) \in Nat,
             tape[j][i] + Occurs(<<j, i>>, SubSeq(batch, 1, k)) <= Copies(j, i)
      PROVE  tape'[j][i] = tape[j][i] + Occurs(<<j, i>>, SubSeq(batch, 1, k))
  BY <1>0, <1>1 DEF Printed
<1>2. CASE \E n \in DOMAIN batch : batch[n] = <<j, i>>
  <2>1. PICK n \in DOMAIN batch : batch[n] = <<j, i>>
    BY <1>2
  <2>2. n >= at
    BY <1>0
  <2>3. acc[j].live /\ state[j] = "printing"
    BY <1>0, <2>1, <2>2, FrameLive
  <2>4. strip
    BY <1>0, <2>1 DEF WorkerInv, ShapeInv, FrameOf
  <2>5. tape[j][i] = 0
    BY <2>3 DEF StripLabelOnTape, IsOut, JobState
  <2>6. Waiting(j, i) <= Copies(j, i) /\ Waiting(j, i) \in Nat
    BY <1>0, WaitsWithin DEF WorkerInv, RegimeInv, Balanced
  <2>7. /\ AtBuffer(j, i) \in Nat /\ AtPrinter(j, i) \in Nat /\ AtSubmit(j, i) \in Nat
        /\ Waiting(j, i) = AtBuffer(j, i) + AtPrinter(j, i) + AtSubmit(j, i)
    BY <1>0, WaitingType DEF Waiting
  <2>8. AtPrinter(j, i) = Times(<<j, i>>, batch)
    <3>1. From(<<j, i>>, batch, 0) = {m \in DOMAIN batch : batch[m] = <<j, i>>}
      BY <1>0 DEF From
    <3> QED
      BY <1>0, <3>1 DEF AtPrinter, Times
  <2>9. Times(<<j, i>>, batch) <= Copies(j, i) /\ Times(<<j, i>>, batch) \in Nat
    BY <1>0, <2>6, <2>7, <2>8
  <2>10. Occurs(<<j, i>>, SubSeq(batch, 1, k)) \in Nat
    BY <1>0, OccursType
  <2>11. Occurs(<<j, i>>, SubSeq(batch, 1, k)) <= Copies(j, i)
    BY <1>0, <2>9, <2>10, OccursWithin
  <2>12. tape'[j][i] <= Copies(j, i)
    BY <1>0, <1>1, <2>5, <2>10, <2>11
  <2> QED
    BY <2>1, <2>3, <2>4, <2>12 DEF JobsOf
<1>3. CASE ~\E n \in DOMAIN batch : batch[n] = <<j, i>>
  <2>1. \A n \in DOMAIN SubSeq(batch, 1, k) : SubSeq(batch, 1, k)[n] # <<j, i>>
    BY <1>0, <1>3, SubSeqProperties
  <2>2. Occurs(<<j, i>>, SubSeq(batch, 1, k)) = 0
    BY <2>1, FS_EmptySet DEF Occurs
  <2>3. tape'[j][i] = tape[j][i]
    BY <1>0, <1>1, <2>2 DEF StripLabelOnTape
  <2> QED
    BY <2>3 DEF StripLabelOnTape, IsOut
<1> QED
  BY <1>2, <1>3

LEMMA StripTapeStep == JobInv /\ StripTapeInv /\ [Next]_vars => StripTapeInv'
<1> SUFFICES ASSUME JobInv, StripTapeInv, [Next]_vars, crashes' = 0,
                    NEW j \in Job, ~PrintsDiscrete(j), NEW i \in Label(j)
             PROVE  StripLabelOnTape(j, i)'
  BY DEF StripTapeInv
<1>0. /\ WorkerInv /\ OrderInv /\ TypeInv /\ batch \in Seq(Item)
      /\ crashes = 0 /\ ~Crash /\ StripLabelOnTape(j, i)
  BY NoCrashYet DEF JobInv, WorkerInv, TypeInv, TypeOK, StripTapeInv
<1>1. state[j] \in JobState => state'[j] \in JobState
  BY <1>0, AnswerFinal DEF SameRow
<1>2. CASE UNCHANGED tape
  <2>1. CASE IsOut(j)
    <3>1. IsOut(j)' \/ Finalize(j)
      BY <1>0, <2>1, OutMoves
    <3>2. Finalize(j) => state'[j] \in JobState
      BY <1>0 DEF Finalize, Finish, ResultOf, JobState, TypeInv, TypeOK, SpoolTypeOK
    <3> QED
      BY <1>0, <1>2, <3>1, <3>2 DEF StripLabelOnTape
  <2>2. CASE ~IsOut(j)
    BY <1>0, <1>1, <1>2, <2>2 DEF StripLabelOnTape
  <2> QED
    BY <2>1, <2>2
<1>3. CASE FrameOk \/ FrameTorn
  <2>1. /\ pc = "frame" /\ UNCHANGED <<state, batch, strip, acc>>
        /\ \E k \in 0..Len(batch) : tape' = Printed(k)
        /\ strip => pc' \in {"credit", "fail"}
    <3>1. \E k \in 0..Len(batch) : tape' = Printed(k)
      BY <1>3 DEF FrameOk, FrameTorn
    <3>2. UNCHANGED <<state, batch, strip, acc>> /\ (strip => pc' \in {"credit", "fail"})
      BY <1>3 DEF FrameOk, FrameTorn, TornRetries, Goto
    <3> QED
      BY <1>3, <3>1, <3>2 DEF FrameOk, FrameTorn
  <2>2. PICK k \in 0..Len(batch) : tape' = Printed(k)
    BY <2>1
  <2>3. /\ tape'[j][i] <= Copies(j, i)
        /\ \/ tape'[j][i] = 0
           \/ state[j] \in JobState
           \/ strip /\ j \in JobsOf(batch) /\ acc[j].live
    BY <1>0, <2>1, <2>2, FramePrints
  <2>4. strip /\ j \in JobsOf(batch) /\ acc[j].live => IsOut(j)'
    BY <2>1 DEF IsOut, Unsettled, Sending, JobsOf
  <2> QED
    BY <2>1, <2>3, <2>4 DEF StripLabelOnTape
<1> QED
  BY <1>0, <1>2, <1>3, PrinterOnly

LEMMA StripTapeInit == Init => StripTapeInv
<1> SUFFICES ASSUME Init, NEW j \in Job, NEW i \in Label(j) PROVE StripLabelOnTape(j, i)
  BY DEF StripTapeInv
<1>1. tape[j][i] = 0 /\ Copies(j, i) \in Nat
  BY LabelFacts DEF Init, Zero
<1> QED
  BY <1>1 DEF StripLabelOnTape

-----------------------------------------------------------------------------
LEMMA StripsHold == Orderly => (Spec => [](JobInv /\ TornInv /\ StripTapeInv))
<1> SUFFICES ASSUME Orderly PROVE Spec => [](JobInv /\ TornInv /\ StripTapeInv)
  OBVIOUS
<1>1. JobInv /\ [Next]_vars => JobInv'
  BY JobStep
<1> QED
  BY <1>1, JobInit, TornInit, TornStep, StripTapeInit, StripTapeStep, PTL DEF Spec

\* In that regime, while the agent lives, a label of a strip that failed
\* after the tape moved is in no later frame: its job has been answered, and
\* the jobs of a frame have not.
THEOREM TornStripNotRetried == Orderly => (Spec => []TornNotRetried)
<1>1. JobInv /\ TornInv => TornNotRetried
  <2> SUFFICES ASSUME JobInv, TornInv, strip, crashes = 0, NEW it \in torn, it \in InFrame
               PROVE  FALSE
    BY DEF TornNotRetried
  <2>1. WorkerInv /\ batch \in Seq(Item) /\ at = 0 /\ pc = "frame" /\ Sending
    BY DEF JobInv, WorkerInv, TypeInv, TypeOK, RegimeInv, StackInv, InFrame, Sending
  <2>2. PICK n \in DOMAIN batch : batch[n] = it
    BY DEF InFrame
  <2>3. n >= at
    BY <2>1
  <2>4. state[it[1]] = "printing"
    BY <2>1, <2>2, <2>3, FrameLive
  <2>5. batch \in Seq(StripItem)
    BY <2>1 DEF WorkerInv, ShapeInv
  <2>6. ~PrintsDiscrete(it[1])
    BY <2>2, <2>5 DEF StripItem
  <2> QED
    BY <2>1, <2>4, <2>6 DEF TornInv, IsReported, IsFailing, IsOut, JobState
<1> QED
  BY <1>1, StripsHold, PTL

\* In that regime and without a crash, the answer to a job with labels in a
\* torn strip says that tape was consumed and fails those labels.
THEOREM TornStripReported == Orderly => (Spec => []TornIsReported)
<1>1. JobInv /\ TornInv => TornIsReported
  <2> SUFFICES ASSUME JobInv, TornInv, crashes = 0, NEW it \in torn,
                      ~PrintsDiscrete(it[1]), result[it[1]] # NoResult
               PROVE  IsReported(it)
    BY DEF TornIsReported, IsReported
  <2>1. WorkerInv /\ OrderInv /\ it \in Item
    BY DEF JobInv, WorkerInv, TypeInv, TypeOK
  <2>2. it[1] \in Job
    BY <2>1 DEF Item
  <2>3. state[it[1]] \in JobState
    BY <2>1, <2>2 DEF OrderInv, OpenInv
  <2>4. ~acc[it[1]].live
    BY <2>1, <2>2, <2>3 DEF WorkerInv, RegimeInv, LiveInv, JobState
  <2> QED
    BY <2>4 DEF TornInv, IsFailing, IsOut
<1> QED
  BY <1>1, StripsHold, PTL

\* In that regime and without a crash, no label printed in strips comes out
\* more often than its producer asked for, whatever tears or stalls.
THEOREM StripsPrintNoMore == Orderly => (Spec => []StripNotOverprinted)
<1>1. JobInv /\ StripTapeInv => StripNotOverprinted
  <2> SUFFICES ASSUME JobInv, StripTapeInv, crashes = 0, NEW it \in Overprinted,
                      ~PrintsDiscrete(it[1])
               PROVE  FALSE
    BY DEF StripNotOverprinted
  <2>1. PICK j \in Job, i \in Index :
           /\ it = <<j, i>> /\ i \in Label(j)
           /\ tape[j][i] > Copies(j, i) /\ ~PrintsDiscrete(j)
    BY DEF Overprinted, Item
  <2>2. tape[j][i] <= Copies(j, i)
    BY <2>1 DEF StripTapeInv, StripLabelOnTape
  <2>3. tape[j][i] \in Nat /\ Copies(j, i) \in Nat
    BY <2>1, CountTypes DEF JobInv, WorkerInv
  <2> QED
    BY <2>1, <2>2, <2>3
<1> QED
  BY <1>1, StripsHold, PTL
=============================================================================
