------------------------- MODULE WorkerProperties -------------------------
(***************************************************************************)
(* What the print worker promises, stated over PrintWorker.                *)
(***************************************************************************)
EXTENDS PrintWorker

PC == {"boot", "scan", "submit", "render", "strip", "discrete", "connect",
       "frame", "credit", "fail", "settle", "retry", "poll", "idle", "exit"}
Caller == {"none", "recover", "retry", "item", "tick", "cmd", "stop"}

\* Every variable of the worker, the spool and the coalescer has its type;
\* in the code these are dict, list, deque and column types nobody checks.
TypeOK ==
    /\ SpoolTypeOK
    /\ pending \in Seq(Item) /\ batch \in Seq(Item)
    /\ acc \in [Job -> Tally]
    /\ cooling \in SUBSET Job /\ scan \in SUBSET Job
    /\ inbox \in Seq(Job \cup {FlushCmd})
    /\ handing \in Job \cup {NoJob} /\ cur \in Job \cup {NoJob}
    /\ stopping \in BOOLEAN /\ strip \in BOOLEAN
    /\ status \in {"settled", "printing", "disconnected"}
    /\ pc \in PC /\ caller \in Caller
    /\ label \in Nat /\ attempt \in Nat /\ at \in Nat
    /\ crashes \in Nat /\ commands \in Nat
    /\ todo \in Seq(Index)
    /\ tape \in [Job -> [Index -> Nat]]
    /\ torn \in SUBSET Item /\ lost \in SUBSET Item

-----------------------------------------------------------------------------
(***************************************************************************)
(* Durability: the rows a restart, or a redelivered job, will read.        *)
(***************************************************************************)
\* A job the agent has acknowledged is never lost: until it has a result it
\* is on the list recovery and the retry walk, and once its row says it is
\* done the result a redelivery replays is the one that state came from.
QueuedOrAnswered ==
    \A j \in Job : \/ state[j] = "absent" /\ result[j] = NoResult
                   \/ j \in Queued
                   \/ result[j].state = state[j]

\* A result reports a label printed only if the spool has committed it, so
\* no later submission of the job prints what its producer was told is out.
ReportedIsCommitted ==
    \A j \in Job, i \in Index :
        result[j].label[i] = "printed" => i \in printed[j]

\* A label committed as printed has come out in full, every copy asked for,
\* unless a frame with it was lost: print_raster returned for it and it did
\* not come out.  Nothing else on the way from a frame to the commit, over
\* retries, torn frames, crashes and stalls, commits what is not on the tape.
CommittedIsPrinted ==
    \A j \in Job : \A i \in printed[j] :
        tape[j][i] >= Copies(j, i) \/ <<j, i>> \in lost

-----------------------------------------------------------------------------
(***************************************************************************)
(* Tape: what is sent to the printer again.                                *)
(***************************************************************************)
InFrame == IF pc = "frame" THEN {batch[n] : n \in DOMAIN batch} ELSE {}

\* No frame holds a label whose commit the spool already has.
CommittedNotReprinted ==
    \A it \in InFrame : it[2] \notin printed[it[1]]

\* "Never auto-retried": while the agent lives, a label of a strip that
\* failed after the tape moved is in no later frame.
TornNotRetried ==
    strip /\ crashes = 0 => InFrame \cap torn = {}

Overprinted == {it \in Item : tape[it[1]][it[2]] > Copies(it[1], it[2])}

\* "A crash reprints at most one label": of the labels printed one by one,
\* each crash accounts for at most one that came out more often than asked
\* and that no torn frame explains.  A label of several copies is left out:
\* it takes no crash to print it again, a stall between two copies will do.
CrashReprintsOne ==
    Cardinality({it \in Overprinted \ torn :
        PrintsDiscrete(it[1]) /\ Copies(it[1], it[2]) = 1}) <= crashes

\* Without a crash no strip label comes out more often than asked for, torn
\* or not.
StripNotOverprinted ==
    crashes = 0 => \A it \in Overprinted : PrintsDiscrete(it[1])

\* The producer is told that tape was consumed: without a crash, the result
\* of a job with labels in a torn strip says so and fails those labels.
TornIsReported ==
    crashes = 0 => \A it \in torn :
        ~PrintsDiscrete(it[1]) /\ result[it[1]] # NoResult =>
            result[it[1]].partial /\ result[it[1]].label[it[2]] = "failed"

\* A label is skipped as a duplicate only if one with its key is on tape.
SkippedIsOnTape ==
    \A j \in Job, i \in Index : result[j].label[i] = "skipped" =>
        \E it \in Item : /\ KeyOf(it[1], it[2]) = KeyOf(j, i)
                         /\ tape[it[1]][it[2]] > 0

-----------------------------------------------------------------------------
(***************************************************************************)
(* The loop's memory agrees with itself.                                   *)
(***************************************************************************)
\* Between submissions the buffer and the tallies name the same jobs: a
\* buffered label has a tally to credit, and a job in flight, which the
\* retry passes over, has a label buffered that will settle it.
InFlightIsBuffered ==
    pc = "idle" => JobsOf(pending) = {j \in Job : acc[j].live}

\* When the loop is idle the status topic does not say it is printing.
IdleIsNotPrinting == pc = "idle" => status # "printing"

\* Every job the agent has accepted gets a result in the end.
EveryJobAnswered ==
    \A j \in Job : (state[j] # "absent") ~> (result[j] # NoResult)
-----------------------------------------------------------------------------
(***************************************************************************)
(* The promise to a producer.                                              *)
(***************************************************************************)
\* In every regime: only jobs the spool holds are worked on, a label never
\* leaves the record of printed ones, and each answer is one the record bears
\* out and that agrees with itself.
Lifecycle == INSTANCE JobLifecycle WITH
    phase <- state, out <- printed, answer <- result, Once <- FALSE
KeepsRecord == Lifecycle!Spec

\* Jobs submitted one at a time are answered once: from the answer on neither
\* row, record nor answer moves, and the answer names exactly the labels on
\* record.
OneAnswer == INSTANCE JobLifecycle WITH
    phase <- state, out <- printed, answer <- result, Once <- TRUE
AnswersOnce == OneAnswer!Spec
=============================================================================
