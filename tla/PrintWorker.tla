---------------------------- MODULE PrintWorker ----------------------------
(***************************************************************************)
(* The print worker and the loop that drives it (agent/worker.py,          *)
(* agent/__main__.py), over the durable Spool and the Coalescer.           *)
(*                                                                         *)
(* One thread prints.  Its steps are cut where the rest of the world can   *)
(* tell: at every commit to the spool and at every attempt on the printer, *)
(* so that a crash, and the MQTT client's thread, may come between any     *)
(* two of them.  pc is where the loop is; caller is which of its entry     *)
(* points is running; cur is the job whose submit() is on the stack.       *)
(***************************************************************************)
EXTENDS Spool, Coalescer

CONSTANTS
    Sources,      \* the job sources configured, a subset of {"dir", "mqtt"}
    FlushCmd,     \* the inbox item of the cmd topic's "flush"
    MaxAttempts,  \* PrintWorker.max_attempts
    ExactClock,   \* the loop's timeout and the coalescer's clock agree
    MaxCrashes,   \* bound: crashes and orderly stops in a behaviour
    MaxCommands   \* bound: flush commands in a behaviour

ASSUME WorkerAssumption ==
    /\ Sources \subseteq {"dir", "mqtt"}
    /\ FlushCmd \notin Job
    /\ MaxAttempts \in Nat \ {0}
    /\ ExactClock \in BOOLEAN
    /\ MaxCrashes \in Nat /\ MaxCommands \in Nat

VARIABLES
    acc,       \* PrintWorker._acc: the tally of each job in flight
    cooling,   \* jobs in _stalled whose retry interval has not passed
    inbox,     \* Agent.queue
    handing,   \* the job the MQTT thread has committed and not yet enqueued
    stopping,  \* Agent._stop
    status,    \* what the status topic was last told
    pc, caller,
    scan,      \* the rest of the list that recover or retry_queued walks
    cur,
    label,     \* the label submit() is at
    todo,      \* submit's queued copies not yet buffered or sent
    batch,     \* the <<job, index>> of each label in the frame being sent
    strip,     \* _send's is_strip
    attempt,   \* _send's attempt
    at,        \* where the result accounting is in batch
    tape,      \* history: copies of a label that came out whole (see Printed)
    torn,      \* history: labels of a frame that failed after it began
    lost,      \* history: labels of a frame that was accepted and are not out
    crashes,   \* history: crashes and stops so far
    commands   \* history: flush commands so far

sendVars   == <<batch, strip, attempt, at>>
submitVars == <<cur, label, todo>>
loopVars   == <<pc, caller, scan>>
memVars    == <<acc, cooling, pending>>
inVars     == <<inbox, handing, stopping>>
ghostVars  == <<tape, torn, lost, crashes, commands>>
vars == <<spoolVars, sendVars, submitVars, loopVars, memVars, inVars,
          ghostVars, status>>

-----------------------------------------------------------------------------
(***************************************************************************)
(* The tally of a job in flight (_JobAcc).  live: the job is a key of      *)
(* _acc.  render holds the label states decided before anything prints.    *)
(***************************************************************************)
Tally == [live : BOOLEAN, expected : [Index -> Nat], done : [Index -> Nat],
          failed : [Index -> Nat], render : [Index -> LabelState],
          partial : BOOLEAN]

Zero     == [i \in Index |-> 0]
NoTally  == [live |-> FALSE, expected |-> Zero, done |-> Zero, failed |-> Zero,
             render |-> NoLabels, partial |-> FALSE]
NewTally == [NoTally EXCEPT !.live = TRUE]

\* How many copies a tally counts over all labels: the sum of its numbers, as
\* the size of a set with so many members for each label.
CopiesIn(count) == Cardinality(UNION {{i} \X (1..count[i]) : i \in DOMAIN count})

IsCompleteLate(a) == CopiesIn(a.done) + CopiesIn(a.failed) > CopiesIn(a.expected)

IsComplete(a) == CopiesIn(a.done) + CopiesIn(a.failed) >= CopiesIn(a.expected)

LabelOutcome(a, i) ==
    IF a.render[i] # "none" THEN a.render[i]
    ELSE IF a.done[i] >= a.expected[i] /\ a.expected[i] > 0 THEN "printed"
    ELSE "failed"

\* The result _finalize builds from the tally of job j.
ResultOf(j) ==
    LET a == acc[j]
        anyFailed  == \E i \in Label(j) : LabelOutcome(a, i) = "failed"
        anyPrinted == \E i \in Label(j) :
                         \/ LabelOutcome(a, i) = "printed"
                         \/ a.render[i] = "none" /\ a.done[i] > 0
    IN [state |-> CASE anyPrinted /\ anyFailed -> "partial"
                    [] ~anyPrinted /\ anyFailed -> "failed"
                    [] OTHER -> "completed",
        partial |-> a.partial,
        label |-> [i \in Index |->
                     IF i \in Label(j) THEN LabelOutcome(a, i) ELSE "none"]]

Rejection == [NoResult EXCEPT !.state = "rejected"]

\* _finalize: commit and publish the result, forget the tally.
Finalize(j) ==
    /\ Finish(j, ResultOf(j))
    /\ acc' = [acc EXCEPT ![j] = NoTally]

\* _maybe_finalize.
MaybeFinalize(j) ==
    IF acc[j].live /\ IsComplete(acc[j]) THEN Finalize(j)
    ELSE UNCHANGED <<spoolVars, acc>>

-----------------------------------------------------------------------------
(***************************************************************************)
(* Control.                                                                *)
(***************************************************************************)
\* Where the loop goes when an entry point has returned, or a submit has.
ReturnTo(c) == CASE c \in {"recover", "retry"} -> "scan"
                 [] c = "tick" -> "retry"
                 [] c = "stop" -> "exit"
                 [] OTHER -> "idle"

Return ==
    /\ pc' = ReturnTo(caller)
    /\ caller' = IF ReturnTo(caller) = "idle" THEN "none" ELSE caller

EndSubmit ==
    /\ Return
    /\ cur' = NoJob /\ label' = 0 /\ todo' = <<>>
    /\ UNCHANGED scan

Goto(p) == pc' = p /\ UNCHANGED <<caller, scan>>

\* _flush with labels pending: the whole pending strip becomes one frame.
SendStrip(labels) ==
    /\ batch' = labels /\ pending' = <<>>
    /\ strip' = TRUE /\ attempt' = 0 /\ at' = 0
    /\ status' = "printing"

NoSend == batch' = <<>> /\ strip' = FALSE /\ attempt' = 0 /\ at' = 0

\* A strip has been dealt with: back to the submit, or the entry point,
\* that flushed it.
ResumeFlush ==
    /\ NoSend
    /\ IF cur = NoJob
       THEN Return /\ UNCHANGED scan
       ELSE Goto(IF PrintsDiscrete(cur) THEN "discrete" ELSE "strip")
    /\ UNCHANGED submitVars

\* The process is gone: memory is as a new one finds it.
Forget ==
    /\ acc' = [j \in Job |-> NoTally] /\ cooling' = {} /\ pending' = <<>>
    /\ inbox' = <<>> /\ handing' = NoJob /\ stopping' = FALSE
    /\ pc' = "boot" /\ caller' = "none" /\ scan' = {}
    /\ cur' = NoJob /\ label' = 0 /\ todo' = <<>>
    /\ NoSend
    /\ status' = "disconnected"

-----------------------------------------------------------------------------
Init ==
    /\ SpoolInit
    /\ acc = [j \in Job |-> NoTally] /\ cooling = {} /\ pending = <<>>
    /\ inbox = <<>> /\ handing = NoJob /\ stopping = FALSE
    /\ pc = "boot" /\ caller = "none" /\ scan = {}
    /\ cur = NoJob /\ label = 0 /\ todo = <<>>
    /\ batch = <<>> /\ strip = FALSE /\ attempt = 0 /\ at = 0
    /\ status = "disconnected"
    /\ tape = [j \in Job |-> Zero] /\ torn = {} /\ lost = {}
    /\ crashes = 0 /\ commands = 0

(***************************************************************************)
(* The loop: boot recovery, the inbox, and a tick when the inbox stays     *)
(* empty for the timeout.                                                  *)
(***************************************************************************)
Boot ==
    /\ pc = "boot"
    /\ pc' = "scan" /\ caller' = "recover" /\ scan' = Queued
    /\ status' = "settled"
    /\ UNCHANGED <<spoolVars, sendVars, submitVars, memVars, inVars, ghostVars>>

MayRetryInFlight(j) == j \notin cooling

\* The guards retry_queued applies to a job of its list.
MayRetry(j) == ~acc[j].live /\ j \notin cooling

Resubmit(j) ==
    /\ pc = "scan" /\ Oldest(j, scan)
    /\ scan' = scan \ {j}
    /\ IF caller = "retry" /\ ~MayRetry(j)
       THEN UNCHANGED <<pc, cur, cooling>>
       ELSE /\ pc' = "submit" /\ cur' = j
            /\ cooling' = IF caller = "retry" THEN cooling \cup {j} ELSE cooling
    /\ UNCHANGED <<spoolVars, sendVars, label, todo, caller, acc, pending, inVars,
                   ghostVars, status>>

\* retry_queued is followed by probe_if_stale, which publishes only when the
\* printer answers.
ScanDone ==
    /\ pc = "scan" /\ scan = {}
    /\ Goto("poll")
    /\ status' \in IF caller = "retry" THEN {status, "settled"} ELSE {status}
    /\ UNCHANGED <<spoolVars, sendVars, submitVars, memVars, inVars, ghostVars>>

\* DirSource.poll: inserting a file's job and enqueuing it are the loop
\* thread's own, and it reads neither in between.
PollFile(j) ==
    /\ pc = "poll" /\ "dir" \in Sources
    /\ Insert(j, dedupe)
    /\ inbox' = Append(inbox, j)
    /\ UNCHANGED <<sendVars, submitVars, loopVars, memVars, handing, stopping,
                   ghostVars, status>>

PollDone ==
    /\ pc = "poll"
    /\ pc' = "idle" /\ caller' = "none" /\ UNCHANGED scan
    /\ UNCHANGED <<spoolVars, sendVars, submitVars, memVars, inVars, ghostVars,
                   status>>

GetJob ==
    /\ pc = "idle" /\ ~stopping /\ inbox # <<>> /\ Head(inbox) # FlushCmd
    /\ inbox' = Tail(inbox)
    /\ pc' = "submit" /\ caller' = "item" /\ cur' = Head(inbox)
    /\ UNCHANGED <<spoolVars, sendVars, label, todo, scan, memVars, handing,
                   stopping, ghostVars, status>>

GetFlush ==
    /\ pc = "idle" /\ ~stopping /\ inbox # <<>> /\ Head(inbox) = FlushCmd
    /\ inbox' = Tail(inbox)
    /\ IF pending = <<>>
       THEN UNCHANGED <<pc, caller, sendVars, pending, status>>
       ELSE pc' = "connect" /\ caller' = "cmd" /\ SendStrip(pending)
    /\ UNCHANGED <<spoolVars, submitVars, scan, acc, cooling, handing, stopping,
                   ghostVars>>

(***************************************************************************)
(* tick: with labels pending the timeout is what is left of their idle     *)
(* window, so on the same clock it has expired.  The timeout runs on the   *)
(* monotonic clock and the window on the wall clock: they may disagree.    *)
(***************************************************************************)
Tick ==
    /\ pc = "idle" /\ ~stopping /\ inbox = <<>>
    /\ caller' = "tick"
    /\ \/ /\ pending # <<>>
          /\ pc' = "connect" /\ SendStrip(pending)
       \/ /\ pending = <<>> \/ ~ExactClock
          /\ pc' = "retry"
          /\ UNCHANGED <<sendVars, pending, status>>
    /\ UNCHANGED <<spoolVars, submitVars, scan, acc, cooling, inVars, ghostVars>>

RetryQueued ==
    /\ pc = "retry"
    /\ pc' = "scan" /\ caller' = "retry" /\ scan' = Queued
    /\ UNCHANGED <<spoolVars, sendVars, submitVars, memVars, inVars, ghostVars,
                   status>>

\* The loop ends, and does not strand a half-filled strip.
Shutdown ==
    /\ pc = "idle" /\ stopping
    /\ IF pending = <<>>
       THEN pc' = "exit" /\ UNCHANGED <<caller, sendVars, pending, status>>
       ELSE pc' = "connect" /\ caller' = "stop" /\ SendStrip(pending)
    /\ UNCHANGED <<spoolVars, submitVars, scan, acc, cooling, inVars, ghostVars>>

\* The process ends and the service manager starts a new one.
Exit ==
    /\ pc = "exit"
    /\ Forget
    /\ UNCHANGED <<spoolVars, ghostVars>>

-----------------------------------------------------------------------------
(***************************************************************************)
(* submit().                                                               *)
(***************************************************************************)
Reject ==
    /\ pc = "submit" /\ ~Contract[cur].model
    /\ Finish(cur, Rejection)
    /\ EndSubmit
    /\ UNCHANGED <<sendVars, memVars, inVars, ghostVars, status>>

Accept ==
    /\ pc = "submit" /\ Contract[cur].model
    /\ Mark(cur, "printing")
    /\ acc' = [acc EXCEPT ![cur] = NewTally]
    /\ Goto("render") /\ label' = 1 /\ todo' = <<>>
    /\ UNCHANGED <<sendVars, cur, cooling, pending, inVars, ghostVars, status>>

\* The label is settled without printing: its state goes in the tally.
Settle(i, s) ==
    /\ acc' = [acc EXCEPT ![cur].render[i] = s]
    /\ UNCHANGED <<spoolVars, todo>>

\* The label is to print: so many copies queued, its key recorded.
QueueCopies(i) ==
    /\ acc' = [acc EXCEPT ![cur].expected[i] = Copies(cur, i)]
    /\ todo' = todo \o [n \in 1..Copies(cur, i) |-> i]
    /\ IF KeyOf(cur, i) = NoKey THEN UNCHANGED spoolVars
       ELSE RecordDedupe(KeyOf(cur, i))

\* In the code's order: already committed, a recorded key, a RenderError.
RenderLabel ==
    /\ pc = "render" /\ label \in Label(cur)
    /\ LET committed == label \in PrintedLabels(cur)
           recorded  == KeyOf(cur, label) \in dedupe
           renders   == Contract[cur].labels[label].renders
       IN \/ committed /\ Settle(label, "printed")
          \/ ~committed /\ recorded /\ Settle(label, "skipped")
          \/ ~committed /\ ~recorded /\ ~renders /\ Settle(label, "failed")
          \/ ~committed /\ ~recorded /\ renders /\ QueueCopies(label)
    /\ label' = label + 1
    /\ UNCHANGED <<sendVars, cur, loopVars, cooling, pending, inVars, ghostVars,
                   status>>

NothingToPrint ==
    /\ pc = "render" /\ label \notin Label(cur) /\ todo = <<>>
    /\ Finalize(cur)
    /\ EndSubmit
    /\ UNCHANGED <<sendVars, cooling, pending, inVars, ghostVars, status>>

StartPrinting ==
    /\ pc = "render" /\ label \notin Label(cur) /\ todo # <<>>
    /\ Goto(IF PrintsDiscrete(cur) THEN "discrete" ELSE "strip")
    /\ UNCHANGED <<spoolVars, sendVars, submitVars, memVars, inVars, ghostVars,
                   status>>

\* Strip: buffer a copy; a size trigger sends the strip at once.
AddLabel ==
    /\ pc = "strip" /\ todo # <<>>
    /\ todo' = Tail(todo)
    /\ LET filled == Append(pending, <<cur, Head(todo)>>) IN
       IF IsFull(filled)
       THEN Goto("connect") /\ SendStrip(filled)
       ELSE pending' = filled /\ UNCHANGED <<loopVars, sendVars, status>>
    /\ UNCHANGED <<spoolVars, cur, label, acc, cooling, inVars, ghostVars>>

FlushJob ==
    /\ pc = "strip" /\ todo = <<>> /\ WantsFlush(cur) /\ pending # <<>>
    /\ Goto("connect") /\ SendStrip(pending)
    /\ UNCHANGED <<spoolVars, submitVars, acc, cooling, inVars, ghostVars>>

Buffered ==
    /\ pc = "strip" /\ todo = <<>> /\ (WantsFlush(cur) => pending = <<>>)
    /\ MaybeFinalize(cur)
    /\ EndSubmit
    /\ UNCHANGED <<sendVars, cooling, pending, inVars, ghostVars, status>>

\* Discrete: what is pending goes first, then a frame per copy.
FlushBefore ==
    /\ pc = "discrete" /\ pending # <<>>
    /\ Goto("connect") /\ SendStrip(pending)
    /\ UNCHANGED <<spoolVars, submitVars, acc, cooling, inVars, ghostVars>>

SendLabel ==
    /\ pc = "discrete" /\ pending = <<>> /\ todo # <<>>
    /\ Goto("connect")
    /\ batch' = <<<<cur, Head(todo)>>>> /\ todo' = Tail(todo)
    /\ strip' = FALSE /\ attempt' = 0 /\ at' = 0
    /\ status' = "printing"
    /\ UNCHANGED <<spoolVars, cur, label, memVars, inVars, ghostVars>>

DiscreteDone ==
    /\ pc = "discrete" /\ pending = <<>> /\ todo = <<>>
    /\ MaybeFinalize(cur)
    /\ EndSubmit
    /\ status' = "settled"
    /\ UNCHANGED <<sendVars, cooling, pending, inVars, ghostVars>>

-----------------------------------------------------------------------------
(***************************************************************************)
(* _send, and what comes out of the printer.                               *)
(***************************************************************************)
Occurs(it, s) == Cardinality({n \in DOMAIN s : s[n] = it})

\* The tape after the first k labels of the frame came out whole.  tape
\* counts a label's copies up to one more than were asked for (a bound).
Printed(k) ==
    [j \in Job |-> [i \in Index |->
        LET n == tape[j][i] + Occurs(<<j, i>>, SubSeq(batch, 1, k))
        IN IF <<j, i>> \notin Item THEN 0
           ELSE IF n > Copies(j, i) THEN Copies(j, i) + 1 ELSE n]]

ConnectOk ==
    /\ pc = "connect"
    /\ Goto("frame")
    /\ UNCHANGED <<spoolVars, sendVars, submitVars, memVars, inVars, ghostVars,
                   status>>

CanRetry == attempt + 1 < MaxAttempts

ConnectRetry ==
    /\ pc = "connect" /\ CanRetry
    /\ attempt' = attempt + 1
    /\ UNCHANGED <<spoolVars, batch, strip, at, submitVars, loopVars, memVars,
                   inVars, ghostVars, status>>

\* The attempts are spent or the error is permanent: _send says nothing was
\* written, and the jobs go back to the queue (_stall).
StallKeepingTally(jobs) ==
    /\ Requeue(jobs)
    /\ cooling' = cooling \cup jobs
    /\ UNCHANGED acc

Stall(jobs) ==
    /\ Requeue(jobs)
    /\ acc' = [j \in Job |-> IF j \in jobs THEN NoTally ELSE acc[j]]
    /\ cooling' = cooling \cup jobs

ConnectFailed ==
    /\ pc = "connect"
    /\ Stall(JobsOf(batch))
    /\ status' = "disconnected"
    /\ IF strip THEN ResumeFlush ELSE EndSubmit /\ NoSend
    /\ UNCHANGED <<pending, inVars, ghostVars>>

\* print_raster returns, which is not the printer's word that it printed: it
\* returns as well on a link that says nothing, when no completion comes in
\* time, and when the printer answers that it cancelled the frame.  The first
\* k labels are out, the rest never will be, and _send says ok.
FrameOk ==
    /\ pc = "frame"
    /\ \E k \in 0..Len(batch) :
          /\ tape' = Printed(k)
          /\ lost' = lost \cup {batch[n] : n \in (k + 1)..Len(batch)}
    /\ Goto("credit") /\ at' = 1
    /\ UNCHANGED <<spoolVars, batch, strip, attempt, submitVars, memVars, inVars,
                   torn, crashes, commands, status>>

TornRetriesAny == CanRetry

\* A strip is never sent again once it has begun, a single label may be.
TornRetries == ~strip /\ CanRetry

\* print_raster raises: some of the frame's labels may be out.
FrameTorn ==
    /\ pc = "frame"
    /\ \E k \in 0..Len(batch) : tape' = Printed(k)
    /\ torn' = torn \cup {batch[n] : n \in DOMAIN batch}
    /\ \/ /\ TornRetries
          /\ Goto("connect") /\ attempt' = attempt + 1 /\ UNCHANGED at
       \/ Goto("fail") /\ at' = 1 /\ UNCHANGED attempt
    /\ UNCHANGED <<spoolVars, batch, strip, submitVars, memVars, inVars, lost,
                   crashes, commands, status>>

-----------------------------------------------------------------------------
(***************************************************************************)
(* Result accounting, a copy at a time.                                    *)
(***************************************************************************)
CreditUncommitted(j, i) ==
    /\ acc' = [acc EXCEPT ![j].done[i] = @ + 1]
    /\ UNCHANGED spoolVars

\* _credit_copy: the label is committed once its last copy is credited.
CreditCopy(j, i) ==
    /\ acc' = [acc EXCEPT ![j].done[i] = @ + 1]
    /\ IF acc[j].done[i] + 1 >= acc[j].expected[i]
       THEN LabelPrinted(j, i)
       ELSE UNCHANGED spoolVars

FailCopyCredited(j, i) == CreditCopy(j, i)

FailCopyUnmarked(j, i) ==
    /\ acc' = [acc EXCEPT ![j].failed[i] = @ + 1]
    /\ UNCHANGED spoolVars

\* _fail_copy, and for a strip the mark that tape was consumed.
FailCopy(j, i) ==
    /\ acc' = [acc EXCEPT ![j].failed[i] = @ + 1, ![j].partial = @ \/ strip]
    /\ UNCHANGED spoolVars

Account ==
    /\ pc \in {"credit", "fail"} /\ at \in DOMAIN batch
    /\ acc[batch[at][1]].live
    /\ IF pc = "credit" THEN CreditCopy(batch[at][1], batch[at][2])
                        ELSE FailCopy(batch[at][1], batch[at][2])
    /\ at' = at + 1
    /\ UNCHANGED <<batch, strip, attempt, submitVars, loopVars, cooling, pending,
                   inVars, ghostVars, status>>

\* The label's job has no tally: KeyError, out of the flush and the submit.
\* Nothing catches it in a tick, a flush command or the last flush.
NoTallyToCredit ==
    /\ pc \in {"credit", "fail"} /\ at \in DOMAIN batch
    /\ ~acc[batch[at][1]].live
    /\ NoSend
    /\ cur' = NoJob /\ label' = 0 /\ todo' = <<>>
    /\ IF caller \in {"recover", "retry", "item"}
       THEN Return ELSE pc' = "exit" /\ UNCHANGED caller
    /\ UNCHANGED <<spoolVars, scan, memVars, inVars, ghostVars, status>>

Accounted ==
    /\ pc \in {"credit", "fail"} /\ at \notin DOMAIN batch
    /\ IF strip THEN Goto("settle") /\ at' = 1 /\ UNCHANGED <<batch, strip, attempt>>
                ELSE Goto("discrete") /\ NoSend
    /\ UNCHANGED <<spoolVars, submitVars, memVars, inVars, ghostVars, status>>

\* A strip's jobs are finalized in order of first appearance; a job's later
\* labels change nothing.
SettleJob ==
    /\ pc = "settle" /\ at \in DOMAIN batch
    /\ MaybeFinalize(batch[at][1])
    /\ at' = at + 1
    /\ UNCHANGED <<batch, strip, attempt, submitVars, loopVars, cooling, pending,
                   inVars, ghostVars, status>>

SettledQuietly ==
    /\ pc = "settle" /\ at \notin DOMAIN batch
    /\ ResumeFlush
    /\ UNCHANGED <<spoolVars, memVars, inVars, ghostVars, status>>

Settled ==
    /\ pc = "settle" /\ at \notin DOMAIN batch
    /\ ResumeFlush
    /\ status' = "settled"
    /\ UNCHANGED <<spoolVars, memVars, inVars, ghostVars>>

-----------------------------------------------------------------------------
(***************************************************************************)
(* The MQTT client's thread, the operator, time and crashes.               *)
(***************************************************************************)
\* The source starts after recovery.
Online == "mqtt" \in Sources /\ pc \notin {"boot", "exit"} /\ caller # "recover"

\* A job delivery: purge_dedupe, try_insert, then the PUBACK.
Deliver(j) ==
    /\ Online /\ handing = NoJob
    /\ \E kept \in SUBSET dedupe : Insert(j, kept)
    /\ handing' = j
    /\ UNCHANGED <<sendVars, submitVars, loopVars, memVars, inbox, stopping,
                   ghostVars, status>>

Enqueue ==
    /\ handing # NoJob
    /\ inbox' = Append(inbox, handing) /\ handing' = NoJob
    /\ UNCHANGED <<spoolVars, sendVars, submitVars, loopVars, memVars, stopping,
                   ghostVars, status>>

\* A "flush" on the cmd topic.
FlushCommand ==
    /\ Online /\ handing = NoJob /\ commands < MaxCommands
    /\ inbox' = Append(inbox, FlushCmd)
    /\ commands' = commands + 1
    /\ UNCHANGED <<spoolVars, sendVars, submitVars, loopVars, memVars, handing,
                   stopping, tape, torn, lost, crashes, status>>

\* retry_interval_s has passed since the job stalled or was last retried.
\* retry_queued reads the clock once, as it starts: it matters only there.
GapPasses(j) ==
    /\ pc = "retry" /\ j \in cooling
    /\ cooling' = cooling \ {j}
    /\ UNCHANGED <<spoolVars, sendVars, submitVars, loopVars, acc, pending, inVars,
                   ghostVars, status>>

\* SIGTERM or SIGINT, whenever it comes: the loop looks when it is idle.
Stop ==
    /\ pc = "idle" /\ ~stopping /\ crashes < MaxCrashes
    /\ stopping' = TRUE /\ crashes' = crashes + 1
    /\ UNCHANGED <<spoolVars, sendVars, submitVars, loopVars, memVars, inbox,
                   handing, tape, torn, lost, commands, status>>

\* Power cut or kill.  In the middle of a frame, some of it may be out.
Crash ==
    /\ pc # "boot" /\ crashes < MaxCrashes
    /\ IF pc = "frame" THEN \E k \in 0..Len(batch) : tape' = Printed(k)
                       ELSE UNCHANGED tape
    /\ crashes' = crashes + 1
    /\ Forget
    /\ UNCHANGED <<spoolVars, torn, lost, commands>>

-----------------------------------------------------------------------------
Loop ==
    \/ Boot \/ ScanDone \/ PollDone \/ GetJob \/ GetFlush \/ Tick \/ RetryQueued
    \/ Shutdown \/ Exit
    \/ \E j \in Job : Resubmit(j)

Submit ==
    \/ Reject \/ Accept \/ RenderLabel \/ NothingToPrint \/ StartPrinting
    \/ AddLabel \/ FlushJob \/ Buffered
    \/ FlushBefore \/ SendLabel \/ DiscreteDone

Send ==
    \/ ConnectOk \/ ConnectRetry \/ ConnectFailed \/ FrameOk \/ FrameTorn
    \/ Account \/ NoTallyToCredit \/ Accounted \/ SettleJob \/ Settled

World ==
    \/ \E j \in Job : PollFile(j) \/ Deliver(j) \/ GapPasses(j)
    \/ Enqueue \/ FlushCommand \/ Stop \/ Crash

Next == Loop \/ Submit \/ Send \/ World

Spec == Init /\ [][Next]_vars

(***************************************************************************)
(* The loop thread and the MQTT thread run, time passes, and a printer     *)
(* that is tried for ever is one day awake and takes a frame without an    *)
(* error.                                                                  *)
(***************************************************************************)
Fairness ==
    /\ WF_vars(Loop \/ Submit \/ Send)
    /\ WF_vars(Enqueue)
    /\ \A j \in Job : SF_vars(GapPasses(j))
    /\ SF_vars(ConnectOk)
    /\ SF_vars(FrameOk)

FairSpec == Spec /\ Fairness

\* From some moment on the printer is always there.
ReliableSpec == FairSpec /\ <>[][~ConnectFailed /\ ~FrameTorn]_vars
=============================================================================
