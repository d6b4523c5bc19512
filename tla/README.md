# A TLA+ verification of labelfab

labelfab prints labels on a Phomemo D30 thermal label printer.  An agent takes
jobs from a drop directory and from MQTT, spools them in SQLite, renders them,
packs labels into strips, drives the printer over Bluetooth and reports what
became of every job.  The printer is often off, tape is consumed whatever the
outcome, and the agent runs on a board that loses power.  What has to be right is
therefore small and hard: no job lost, no label printed twice, no result that says
something the tape does not.

This directory models the parts that decide that (the worker and its spool, the two ways jobs come in,
the retained status, the link to the printer, the layout of a label), checks them with TLC on small
instances, and proves with TLAPS, for any configuration the stated hypotheses allow, most of the safety properties.  Paths in this document are relative to the repository; `agent/` stands for
`src/labelfab/agent/`, and so on.

## 1. The system

| component | state | operations | interacts with |
|---|---|---|---|
| Job contract (`contract/models.py`, `contract/topics.py`) | none | validate an envelope; build a result | read by every part of the agent |
| Print worker (`agent/worker.py`) | `_acc` tallies, `_stalled` times, the device snapshot | `submit`, `tick`, `flush`, `retry_queued`, `recover`, `probe`, `probe_if_stale` | spool (commits), coalescer (buffer), renderer, printer, publisher |
| Job spool (`agent/spool.py`) | SQLite: `jobs`, `printed_labels`, `dedupe`, `device` | `try_insert`, `mark`, `finish`, `requeue`, `queued`, `label_printed`, `record_dedupe`, `purge_dedupe`, ... | worker, both sources (MQTT's from its own thread) |
| Strip coalescer (`agent/coalescer.py`) | `_pending`, the time of the last addition | `add`, `flush`, `due`, `next_deadline` | worker only |
| Agent loop (`agent/__main__.py`) | the inbox queue, the stop flag | boot recovery, get with a timeout, tick, signals, last flush | everything |
| Directory source (`agent/source_dir.py`) | the files | `poll`: insert, move, enqueue | spool, inbox |
| MQTT source (`agent/source_mqtt.py`) | connection, last will | `_on_message`: commit, acknowledge, enqueue; `flush` and `status` commands; publish | spool, inbox, broker |
| Device status (`agent/device_state.py`, `agent/publisher.py`) | snapshot, dwell | merge a printer's answers, derive a status, publish it retained | worker, MQTT |
| Status protocol (`device/responses.py`, `device/feedback.py`) | an incremental parser's buffer; the last feedback | split an unframed byte stream into status frames; classify them | driver |
| Transports and driver (`device/transport.py`, `ble.py`, `_rfcomm.py`, `d30.py`) | a link, a reader thread, credits, ACKs | open, write, wait for completion | worker |
| Encoders (`device/protocol.py`, `escpos.py`, `decode.py`) | none | byte layouts | driver |
| Renderer (`render/`) | none | lay out and rasterise a label; compose a strip | worker |
| Configuration, command line | none | load, validate; one-shot tools | |

### How the parts meet

A job is **committed** by a source (`Spool.try_insert`, row `queued`), then
**enqueued** on the agent's inbox.  The directory source does both on the loop's own
thread; the MQTT source does both on the client's thread, with the acknowledgement in
between.  The loop takes an item, and `submit` marks the row `printing`, opens a
tally, walks the labels (already committed, already printed under the same key,
unrenderable, or to print), and then either buffers each copy in the coalescer, where
copies of several jobs wait for one another, or sends a frame per copy.  A frame is
tried up to `max_attempts` times.  If the connection never comes up the frame's jobs
are **stalled**: row back to `queued`, tally dropped, to be submitted again by an idle
tick.  If the printer accepted the frame, each copy is **credited**, the last copy
of a label **commits** the label, and a job whose copies are all accounted for is
**finalized**.  If it failed after the frame began, each copy is **failed**, a strip's
with a mark that tape was consumed.  On boot, `recover` submits every row that is
`queued` or `printing`.

### What is hard, and what makes each part correct

* **Worker and spool.** A crash can fall between any two commits, and between the
  printer's motion and the commit that records it.  Correct: what is committed came out;
  nothing committed is sent again; a crash reprints at most one label of a
  discrete job; a torn strip is not sent again and is reported; a result is final;
  an acknowledged job is not lost and gets a result in the end.
* **Worker and coalescer.** Frames cut across jobs, so a failure of one frame
  concerns part of several jobs, and a job can have labels in several frames with
  different outcomes.  Correct: a label waiting in the buffer has a tally to be
  credited to, and a tally has a label that will settle it.
* **Loop and sources.** Two threads share the spool and the inbox; retry, idle flush
  and file polling all hang on one idle tick; two clocks.  Correct: a job is submitted
  once at a time; nothing starves.
* **MQTT.** Redelivery, duplicates, the last will.  Correct: a redelivery replays the
  result; every job is acknowledged; the retained status is not stale for ever.
* **Device status.** A snapshot is merged from partial answers; what a connection did not report is kept, but the fault
  is the last connection's word.  Correct: what was published is what the spool remembers.
* **Link.** ACK-gated packets with timeouts, a reader thread beside the writer.
  Correct: one packet per ACK, no loss, and a completion that is really one.
* **Status parser.** Any cut of the byte stream yields the same frames.
* **Renderer.** Integer distribution of pixels; the length of a strip.

`PROJECT.json` lists under `hazards` the places where this code is exposed, at their lines, each with
the properties that cover it or the reason none does.

## 2. The modules

| module | models | code |
|---|---|---|
| `PrintJob` | what the worker reads of a job and of the configuration | `contract/models.py`, `agent/config.py`, the decisions at the head of `submit` |
| `Spool` | the tables and each committing statement, as operators | `agent/spool.py` |
| `Coalescer` | the pending strip and its size triggers | `agent/coalescer.py` |
| `PrintWorker` | the worker, the loop that drives it, the sources' hand-over, crashes | `agent/worker.py`, `agent/__main__.py`, parts of the two sources |
| `JobLifecycle` | the abstract promise to the producer of a job | no code of its own; `PrintWorker` implements it |
| `WorkerProperties`, `MCWorker` | what is claimed of `PrintWorker`, and its instances | |
| `WorkerProofs`, `TapeProofs`, `RegimeProofs`, `OnceProofs` | the proofs about it: its types, its answers and the promise to a producer, what is on tape and what a crash prints again, what needs a regime, and what a job submitted and answered once is promised | |
| `Intake`, `MCIntake`, `IntakeProofs` | MQTT deliveries and dropped files on their way into the spool | `agent/source_mqtt.py`, `agent/source_dir.py`, `Spool.try_insert` |
| `DeviceStatus`, `StatusProofs` | the snapshot of the printer and the retained status topic | `agent/device_state.py`, `agent/publisher.py`, `agent/source_mqtt.py`, the probes of `agent/worker.py` |
| `Feedback` | the status frames of one connection, from the printer through the reads to the frame list | `device/responses.py`, `device/feedback.py`, the readers in `device/transport.py` and `device/ble.py` |
| `Link`, `MCLink`, `LinkProofs` | the driver and its transport against a printer; extends `Feedback` | `device/d30.py`, `device/transport.py`, `device/ble.py`, the order of commands in `device/protocol.py` |
| `Layout`, `MCLayout`, `LayoutProofs` | the pixels of one label along the tape | `render/layout.py`, `render/elements.py`, `render/vertical.py`, `render/raster.py`, `render/__init__.py` |

`PrintWorker` extends `Spool` and `Coalescer`, both of which extend `PrintJob`.  The other
three parts meet it at small interfaces: `Intake` hands a job over once, where `PrintWorker` takes a committed row and
a hand-over as it finds them; `Link` is what becomes of one connect and one frame there;
`DeviceStatus` is told of both.  Checking them together would multiply their states and
add no step in which two of them act on a common variable.

### PrintWorker

State:

* A **job** is a model value with a fixed `Contract`; a **label** is its job and position,
  as in the `printed_labels` table.  What a label draws is reduced to whether it renders
  and how much tape it takes.
* `state`, `result`, `created`, `printed`, `dedupe` are the spool's columns.  They are the
  only variables a crash leaves alone (`Forget` resets the rest), apart from the history
  variables.  `result` holds a job state, the partial-tape mark and each label's state.
* `acc[j]` is `_acc[job_id]` (`live`: the key is there).  `cooling` stands for
  `_stalled`: the jobs whose retry interval has not passed.  `pending` is the
  coalescer's buffer, `inbox` the queue, `handing` the job the MQTT thread has committed and
  not yet enqueued.
* `status` is what the status topic was last told, in three classes: printing, settled
  (whatever a finished connection showed), disconnected.
* `pc` is where the one printing thread is, `caller` the entry point on top of the
  stack, `cur`, `label`, `todo` the locals of `submit`, `scan` the list `recover` or
  `retry_queued` is walking, `batch`, `strip`, `attempt`, `at` the locals of `_flush`
  and `_send`.
* History, read by no guard except the bounds: `tape[j][i]` counts whole copies that came
  out, `torn` the labels of frames that failed after they began, `lost` the labels that did not come out of a
  frame for which `print_raster` returned, `crashes`, `commands`.

The thread's code is cut at every commit and at every attempt on the printer.
Between two of those only local variables change, and the other thread can only read or
write the spool and the inbox, so a finer cut shows nothing more.  Two
commits taken as one are named where they are: `Requeue` of a frame's several
jobs, which recovery cannot tell apart, and the purge with the insert in `Deliver`.

| action | code |
|---|---|
| `Boot`, `Resubmit`, `ScanDone` | `recover`, `retry_queued`, `Agent.run` up to the loop |
| `PollFile`, `PollDone` | `DirSource.poll` |
| `GetJob`, `GetFlush`, `Tick`, `RetryQueued`, `Shutdown`, `Exit` | `Agent.run`, `tick` |
| `Reject`, `Accept`, `RenderLabel`, `NothingToPrint`, `StartPrinting` | `submit` |
| `AddLabel`, `FlushJob`, `Buffered` | `submit`'s strip path, `_flush` |
| `FlushBefore`, `SendLabel`, `DiscreteDone` | `_print_discrete` |
| `ConnectOk`, `ConnectRetry`, `ConnectFailed`, `FrameOk`, `FrameTorn` | `_send` |
| `Account`, `NoTallyToCredit`, `Accounted`, `SettleJob`, `Settled` | `_flush`, `_credit_copy`, `_fail_copy`, `_maybe_finalize` |
| `Deliver`, `Enqueue`, `FlushCommand` | `MqttSource._on_message` |
| `GapPasses`, `Stop`, `Crash` | time, signals, the mains |

The KeyError of crediting a label whose job has no tally is an action, `NoTallyToCredit`:
it leaves the flush and the submit; where nothing catches it, it ends the process.
When the size trigger fires in the middle of a job the code flushes inside `submit`, so a
stall requeues the job whose remaining labels are still in `todo`.  Both are kept:
finding `job_stuck` is their combination.

A connect and a frame succeed or fail nondeterministically.  Either way the frame has
put out any number of its labels: `print_raster` raises after some are out (`FrameTorn`), and it returns
normally (`FrameOk`) when the printer confirms, but also on a link that says nothing, when no completion comes in time and
when the printer answers that it cancelled the frame (`d30.py:265-282`).  What then is not out is in `lost`; the worker
cannot tell, and credits it.  The retry interval and the idle window are
nondeterministic; `ExactClock = FALSE` also lets the loop wake from its (monotonic) timeout before the
(wall clock) window has closed, as happens while the wall clock is being slewed.  A second
delivery of a job changes no variable here; it is `Intake`'s.  A stop or a crash restarts the agent.

### JobLifecycle

`phase`, `out` and `answer` are, for each job, the row's state, the labels recorded as printed and the stored result:
`PrintWorker` maps its spool columns to them and everything else (buffer, tallies, frames,
attempts, crashes) to stutters.  The abstract steps are taking a job, starting it, putting several back together,
recording a label, and answering; an answer must be `Honest`: what it reports printed is recorded, its
one word agrees with its labels.  The constant `Once` says which promise is
meant: with `Once = TRUE` (`AnswersOnce`) an answered job is over and its answer names all that is out; with `Once =
FALSE` (`KeepsRecord`) only what survives double submissions and lost tallies is promised.

### Intake

The broker has `kept` and `acked` deliveries and those already `sent` on this connection; a
new connection sends all it keeps again.  `net` is where paho's thread is in
`_on_message` and `dir` where `poll` is: `try_insert` is a SELECT and an INSERT, so each
thread has them as two steps with the other thread, a crash or a broken connection in between.  Both unique columns
refuse the loser's INSERT, which then is neither acknowledged nor renamed and comes again.  A file is seen
`partial` while it is being copied.  `handed` counts how often this process put a job before its print loop, by
recovery or through the inbox; what the loop does with it is `Answer`.

| action | code |
|---|---|
| `Receive`, `SelectJob`, `InsertJob`, `Ack`, `EnqueueJob` | `MqttSource._on_message` |
| `Poll`, `ReadFile`, `SelectFile`, `InsertFile`, `Rename`, `EnqueueFile` | `DirSource.poll` |
| `Boot`, `Start`, `Connect` | `Agent.run`, `MqttSource.start`, `_on_connect` |
| `Publish`, `Disconnect`, `Cut`, `Copy`, `Complete`, `Crash` | producers, network, mains |

### DeviceStatus

Two threads: the print loop, which hears the printer, saves and publishes, and paho's, which runs `on_connect`.
`device` is `PrintWorker._device`, `saved` the spool's row, `last` is
`MqttSource._last_status`, `will` the payload given to paho, `session` the will the broker holds, `topic` the
retained message, `outbox` and `wire` what has been published and is not at the
broker.  The fields of a snapshot are reduced to one: when the printer last reported something (`seen`), and the
fault the last connection complained of.  `on_connect` is two steps, because it reads the last status and then publishes it
(`held`).  `keeps` is whether paho keeps what is published while it is not connected; both
are explored.  `latest`, `overtaken` and `muted` are history: what the print loop published last, that it
did so while `on_connect` held an older status, and that the agent left while it did.

| action | code |
|---|---|
| `StartPrint`, `Hear`, `Settle`, `Stall` | `_print_strip`, `_run_discrete`, `_send`, `_capture_feedback`, `_stall` |
| `Probe` | `probe`, `probe_if_stale` |
| `Boot`, `Start`, `Stop`, `Leave`, `Crash` | `Agent.run`, `MqttSource.start`, `stop`, systemd |
| `Reconnect`, `OnConnect`, `Break` | paho and `_on_connect` |
| `Deliver`, `DeliverGoodbye`, `WillFires`, `Tick` | the broker, time |

### Feedback and Link

In `Feedback` the printer puts encoded frames on `wire`; `Read` takes any slice of it on
a serial link, and one frame on BLE; each iteration of `StatusParser.feed` is an action
(`Resync`, `SkipUnknown`, `TakeFrame`), and `Ingest` is what `DeviceFeedback.ingest` does with
the frames `feed` returned.  The reference it is checked against is not a second parser but what
the printer sent.

`Link` adds the other direction.  What is written is counted in units that mean something to a printer (a query, a
paper type, a raster's header, a piece of its body, a feed), `todo` is what the driver
has still to write, `air` what has not arrived.  On BLE each packet clears the `gate` and waits for the printer's
acknowledgement or for the timeout (`AckArrives`, `AckLapses`); `pending` and `lapses` are the history of
that.  The printer holds a paper type, may refuse a frame, and answers in its own time.  `verdicts` are what each
`print_raster` concluded, `fates` what the printer did.

| action | code |
|---|---|
| `Connect`, `Initialised`, `PrintRaster`, `PrintTooTall` | `PhomemoD30.connect`, `print_raster` |
| `Await`, `Confirm`, `Assume` | the completion wait |
| `WriteStream`, `WritePacket`, `WriteFails` | the transports' `write` |
| `AckArrives`, `AckLapses` | the BLE gate |
| `Receive`, `Speak` | the printer |
| `Read`, `Resync`, `SkipUnknown`, `TakeFrame`, `Ingest` | reader thread, parser, frame list |

### Layout

A row of elements goes through the code's passes: `MeasureNext` for each child with the room of the longest
label, `SizeToContent` (auto length), `MeasureAgain` with the room of the label itself, `Distribute`, `Place` child by child.  An
element is its kind, its natural size (a code's modules, a text's width) and its flex; a text has besides its
alignment, a `glyph` (the widest piece that `_wrap` and `_fit` accept unmeasured: the first letter of a line, an ellipsis) and a
`line` (the height of one at the smallest size).

`Measure` is what each kind answers to the room it is offered.  A text and a barcode are nothing where the padding leaves no height (`Wide`); a
picture that is to be stretched takes the room as it is, and in the drawing pass that is negative on a label shorter
than its gaps, so the cuts of `_distribute` round toward zero over either sign (`Cut`).  `Inks` is what a child may draw in the box it
was granted: nothing in no room (`Blank`), a code, bars or a picture of the width they have, a text as wide as its box or as its
glyph (`InkWidths`), set at one side of the box or in the middle (`Offset`).  A code whose box has shrunk and a text of which
no line fits across the tape are refused (`CannotDraw`), which refuses the label.

A vertical label is
one step, `DrawColumn`: the edges of the code's modules and the stack of lines under it.  The module is sequential; its value is the
integer arithmetic over all rows of a set.  Weights and shares are integers, so a share is rounded down where the code's floats are cut to an
`int`.

## 3. The runs

All runs explore the whole reachable space of their instance.  Deadlock is checked except in `link`, where the driver
ends by failing or finishing, and in `layout`, where a label is done.

| run | instance | properties |
|---|---|---|
| `worker_mixed` | directory; a waiting strip job of one label in two copies, and a discrete job of two labels; two attempts; one crash or stop | `CommittedIsPrinted`, `CommittedNotReprinted`, `CrashReprintsOne`, `TornNotRetried`, `TornIsReported`, `AnswersOnce` |
| `worker_strips` | directory; two waiting strip jobs sharing frames, one with an unrenderable label, one of two copies; a job for another printer; disagreeing clocks; two attempts; one crash or stop | `StripNotOverprinted`, `CommittedNotReprinted`, `InFlightIsBuffered`, `IdleIsNotPrinting` |
| `worker_any` | MQTT; frames of one label so that jobs span frames; a key shared by two jobs; disagreeing clocks, a purge at any delivery, a flush command, one crash | `TypeOK`, `QueuedOrAnswered`, `ReportedIsCommitted`, `KeepsRecord` |
| `worker_live` | MQTT, two jobs of one frame, one crash, with fairness | `EveryJobAnswered` |
| `intake` | one job as two deliveries and a file, a delivery that is no job; one crash, one connection cut while a delivery is handled, with fairness | `TypeOK`, `TakenIsSpooled`, `HandedOnce`, `EveryDeliveryAcked` |
| `link` | two frames of two pieces; serial, BLE and a link nobody reads; both papers on either side; three replies (completion, refusal, two answers), a stream that may begin in an old frame; with fairness | `LinkTypeOK`, `FramesAsSent`, `Outpaced`, `ConfirmedHasFinished`, `NoRunaway`, `PrintReturns` |
| `status` | three moments of the clock, two statuses under way | `TypeOK`, `PublishedIsSaved`, `TopicSettles`, `NeverGoesBack`, `DownIsTold` |
| `layout` | every row of up to three of eight elements, a dense code with three more, and a text too tall for the tape, at eighteen lengths and auto; vertical labels of three to nine modules with up to three lines | `TypeOK`, `FillsBudget`, `OverrunsByRounding`, `ElasticFirst`, `AutoIsEnough`, `DrawnInBox`, `ColumnIsWhole`, `ModulesFill` |

The remaining four runs end in a violation; they are section 4.

**Why the bounds are enough.**

* *Worker.*  Two jobs are what it takes for a frame to be shared; two
  copies or two labels for a failure to fall inside a job, on a strip and label by label (a discrete label of two copies would
  take its run out of reach; the theorems hold for any number); frames of one label, or of two with
  three copies, for a job to span frames.  One crash at any step reaches every intermediate
  state, and recovery from it is again the behaviour with no crash.  Deliveries are bounded by
  the finite set `Job`, crashes by `MaxCrashes`, commands by `MaxCommands`; nothing else
  needs a bound, since retries return to states seen before.
* *Intake.*  There are two inserting threads, so two deliveries and a file of one job show every race of
  one SELECT with another INSERT and a duplicate after it; distinct jobs share nothing but the threads.  A crash and a cut
  (`MaxCrashes`, `MaxCuts`) may come at any step, together or apart.  The safety half is proved without these bounds.
* *Link.*  Three replies are enough for a frame to be damaged by what stands before it and to damage what
  stands after it, and for a completion of the first frame to come during the second, which is what `ConfirmedHasFinished` is
  about; two pieces of a body for a packet to follow one whose acknowledgement lapsed.
* *Status.*  A status is compared with the one before it: three moments (`MaxClock = 2`, zero being never)
  give an older, a newer and a newest, two statuses under way (`MaxQueue`) are what a
  reconnect can reorder.  Crashes, stops, probes and reconnects are not bounded.
* *Layout.*  Three children are enough for one to be rigid while two share, or two rigid while one yields; the fourth is there
  for the dense code, whose modules must divide what is left.  Lengths run from below the padding and the gaps (where a budget is negative) to above every content, with all remainders of the shares in
  between.  The padding leaves some height in this instance; that it may leave none is in the
  theorems, which are for any padding.

No symmetry is used: the jobs' contracts differ.

**Which regime a property belongs to.**  `TypeOK`, `QueuedOrAnswered`,
`ReportedIsCommitted` and `KeepsRecord` hold in every regime of the worker.  Its others hold
where each job fits a frame and comes from the directory, and where either the loop's two clocks
agree (`worker_mixed`) or no job flushes in the middle of a retry (`worker_strips`); section 4
says what happens outside.
`CommittedIsPrinted`, for one, fails when a job whose keyed label has two copies or more spans
frames and stalls: the retry skips the label by its own key, so it expects no copy of it, and an
orphan copy from the first submission then commits the label with a copy missing.  That is
a consequence of the defects behind `skipped_unprinted` and `job_stuck`.  `CrashReprintsOne` counts labels of
one copy.  `TornNotRetried`, `StripNotOverprinted` and
`TornIsReported` carry `crashes = 0`: the code keeps a torn strip only in memory until it
is finalized, so after a crash in that window recovery prints it again (section 4).  `CommittedIsPrinted` excepts what is `lost`: it says that nothing else on the way from a frame
to a commit (retries, torn frames, shared strips, crashes, stalls) commits what is not on tape.  Without the exception it is false
(section 4).

`TopicSettles` and `NeverGoesBack` except what `on_connect` overtook, which is finding
`topic_flattened`, and `DownIsTold` a stop in that same window.  The frames of `link` have no prefix byte where the parser's
comment on resynchronising concedes the loss (in leftovers and in frames it skips as unknown), and none
has the payload of the swallowed read below.
`ElasticFirst` is for at most two flexible children and, like `OverrunsByRounding`, a budget that is not negative; `DrawnInBox` is for all but covers,
narrowed barcodes and texts in a box narrower than one of their glyphs; in `TypeOK` a size may be negative only for a picture stretched
in a negative budget.  The exceptions are in section 4 too.  `ColumnIsWhole` is for a column no longer than an auto label may be (`Needed <= MaxAuto`), because `measure` cuts a
longer one off before `compose_portrait` compares it with the fixed length; the three short lines of a vertical label on the widest tape
the contract allows come nowhere near.

### Fairness

* *Worker* (`FairSpec`): the loop thread runs (weak fairness of its steps together), the
  MQTT thread finishes handing over a job it has committed, a retry interval ends
  (`GapPasses` strong, since its window opens and closes with each tick), and a
  printer tried again and again is at some time reachable and at some time takes a
  frame (strong fairness of `ConnectOk` and `FrameOk`).  The first two are the scheduler's;
  the third is `retry_interval_s`; the last is the user's: without it the code too retries for
  ever.  Nothing is assumed of deliveries, commands, stops or crashes.  A tick needs an empty
  inbox; the finite supply of jobs and commands makes one come, so starvation under
  steady traffic is outside these runs (it is a listed hazard).
  `ReliableSpec` adds that from some time on the printer never fails; it is used where a
  counterexample should not be blamed on the printer.
* *Intake* (`FairSpec`): both threads run, systemd restarts the agent, paho reconnects.  A connection ends at some
  time and, while it stands, the broker gets to send (strong fairness of `Disconnect` and `Receive`): a delivery
  whose insert lost the race comes again only on a new connection, and the code relies on that.
* *Link* (`LinkFairSpec`): the driver and its writes go on and the wait for an acknowledgement ends.  Nothing is assumed of the printer, which may
  be silent for ever; `PrintReturns` holds all the same.

## 4. Findings

Each is a run with `expect: violation`.

1. `skipped_unprinted` (`SkippedIsOnTape`): `submit` records a `dedupe_key` when a label is
   *queued*.  If the frame then stalls, the retry finds the job's own key, skips the
   label as a duplicate and completes the job with nothing on tape.
2. `job_stuck` (`EveryJobAnswered`): a job of two frames stalls on the first, its
   remaining labels stay without a tally, and another job that shares their frame is
   printed but never credited: its tally keeps it "in flight" for the life of the process.
3. `double_submission` (`TornNotRetried` with no crash): an idle tick between an MQTT
   delivery's commit and its enqueuing submits the job; the inbox submits it again.  If
   the first tore, the strip is printed again.
4. `topic_flattened` (`ReconnectRestores`): a status published by the print loop between `on_connect`'s read of the last
   one and its publication is overwritten in the retained topic, in `_last_status` and in the next will.

Divergences met while modelling that have no run of their own:

* A label is credited, committed and reported printed when `print_raster` returns, and it returns when the completion wait is over,
  whatever the printer has said.  The wait looks for a completion only: a frame that the printer cancelled (`0x0B`), of which
  `responses.py:368` says that "the D30 refuses the job", is waited for in vain and then taken for printed.  `d30.py:9` has the timer as "a
  fallback for a link that reports nothing"; the comment at `d30.py:281` accepts it on any link.  In `PrintWorker` these are
  the labels in `lost`: `CommittedIsPrinted` without its exception fails with one job of one label.
* `_wrap` says it breaks words "rather than overflowing" (`elements.py:210`) and `_fit` that it truncates "rather than
  overflowing the label" (`elements.py:288`), but the first letter of a line (`elements.py:234-239`) and the ellipsis
  (`elements.py:296-298`) are accepted unmeasured, so a text in a box narrower than a glyph is drawn beyond it, on both sides when it is
  centred.  In `Layout` these are the texts that `DrawnInBox` excepts: without the exception it fails for a centred text on a label of three pixels.
* A strip is "never auto-retried" (`worker.py:8`) while the agent lives.  A crash between the frame that tore and the job's answer
  leaves no trace of it in the spool: recovery prints the strip again, and no answer has the partial-tape mark.
* A discrete label of several copies that stalls between them starts again at its first copy, where
  `worker.py:391` says that recovery "resumes, never reprints".
* `retry_queued` walks a list it read once.  If a label is still buffered when it starts (the wall clock a little
  behind the monotonic one is enough), a job it resubmits may flush that label's strip; if the strip tears, its job is answered
  and the walk then submits the answered job again.
* On a serial link a read that returns just the bytes `01 01` of a payload is taken for a BLE acknowledgement
  (`feedback.py:59`), and the frame never completes as sent.
* Two jobs with one `job_id` and different idempotency keys: the INSERT of the second fails on the primary key each time
  it comes, so it is never acknowledged and never answered.
* A file that is read while it is being copied into the directory is moved to `rejected/`, although `source_dir.py:3` says
  of the directory that "`cp job.json /var/spool/labelfab/` prints".
* A deficit is rounded child by child, so a row may exceed its budget: three equal naturals of 5 in 13 pixels stay 14 wide.
  Three flexible children beside a rigid code may leave it a pixel or two short, which
  refuses the code as too dense although the flexible ones still had pixels to give (`layout.py:55-57`).
* A barcode is not cropped when a deficit narrows its box, and a covering picture overflows its own.
* On a label shorter than its gaps a stretched picture measures the negative budget (`elements.py:364`, `layout.py:139`), and a row of
  such measures has a negative sum to share.  Nothing is drawn of them (`layout.py:149`).

## 5. The proofs

All theorems are for any values of the constants that the named `ASSUME`s allow; TLC evaluates those in
every run.  Where a theorem needs more, the hypothesis stands in its statement and is explained here.  The
invariants below were checked with TLC on the instances of section 3 before they were proved.

`WorkerProofs` (any finite set of jobs, any contracts, any limits):

* `TypeCorrect`: `Spec => []TypeOK`.  `TypeOK` is not inductive: `Accept` and
  `RenderLabel` index `Contract[cur]`, so the induction carries `CurOK` (a submit in
  progress has a job) and `TodoOK` (queued copies are labels of that job).
* `AcknowledgedNotLost`: `Spec => []QueuedOrAnswered`.  The argument is `RowStep`: every
  step either leaves a row and its result alone, or marks it queued or printing,
  or writes state and result together.
* `ReportIsCommitted`: `Spec => []ReportedIsCommitted`.  A result is built from a tally, so the
  induction carries `TallyCommitted` (a tally whose copies are all done, or which
  found the label committed, has it in the spool) and `RenderFresh` (a label the submit has not
  reached has no count in the tally it just opened).  It is exactly what would fail if the
  result were built before the commit, or the tally outlived a stall.
* `RecordIsKept`: `Spec => KeepsRecord`, that is, `PrintWorker` implements `JobLifecycle` with `Once = FALSE` in every
  regime.  Each action is shown to be one abstract action on the spool's columns or to change none of them.  An abstract step needs
  its job to be in the spool, so the induction carries `RowInv`: whatever the worker holds anywhere (the submit, the list,
  the inbox, the buffer, the frame) has a row, and rows are never deleted.  That an answer is `Honest` is
  `FinalizeIsAnswer`, from `TallyCommitted`.

`TapeProofs`:

* `CommittedCameOut`: in every regime a committed label is on the tape, in all its copies or, if it has a key, at least once, unless it is
  `lost`: of a frame for which `print_raster` returned and which did not come out.
* `CommittedIsComplete`: `KeyedOnce => (Spec => []CommittedIsPrinted)`, with the same exception.  `KeyedOnce` says that no keyed label asks for several
  copies; without it the property is false (section 3).  The induction carries `DoneIsOnTape` (the copies credited, and those of a whole frame
  still to be credited, came out since the tally was opened, or are lost) and `HeldAreSound` (a copy that waits
  belongs to a label whose tally, if it is there, expects all copies, unless the label is keyed or committed).  The second is
  where double submissions matter: a copy may outlive the tally it was queued for and be credited to the next one.
* `CrashReprintsAtMostOne`: `Spec => []CrashReprintsOne`, in every regime.  Call a label a suspect if it came out once and is
  not committed, or came out more than once.  The suspects are no more than the crashes, plus one while a whole frame
  waits for its first credit (`CountInv`).  `ShapeInv` keeps strips and single labels apart, and `OnceInv` says that a label in a submission's
  queue or frame is not committed and stands there once: so a second frame of it can only follow a crash.

`RegimeProofs`, under the hypothesis `Regime`: no MQTT source, and `JobsFit`, that a strip which is full holds all copies of
the job it ends with, so that none is sent in the middle of a job:

* `BufferMatchesTallies`: `[]InFlightIsBuffered`; `FramesAreUncommitted`: `[]CommittedNotReprinted`; `IdleStatusIsSettled`:
  `[]IdleIsNotPrinting`.
* Both halves of the hypothesis are needed: findings `double_submission` and `job_stuck` are what happens without the one and without the
  other.  `WhereJobsFit` shows two families of configurations that satisfy it (die-cut tape; strips of labels printed once, one per job);
  in the runs `worker_mixed` and `worker_strips` no strip is ever full.  The clocks need not agree, and jobs may flush.
* The heart is a balance, `BalanceInv`: for each label of a job in flight, copies credited, copies failed and copies that wait (in the
  buffer, the frame or the submission's queue) add up to the copies expected, and a job that is not in flight has nothing
  waiting.  So a job whose last waiting copy is accounted for is complete when `_maybe_finalize` looks, and a copy never meets a missing
  tally.  With it go `UncommittedInv` (what waits is not committed), `LiveInv` (a job in flight is the one being submitted, or
  waits, or is about to be settled), `StackInv` (what a flush inside a submit leaves behind), `RenderInv` (a fresh tally expects nothing of a
  label not reached), `OnceAtATime` (the inbox has no job twice, none that is on the list, none in flight) and `PrintingInv`.

`OnceProofs`, under the hypothesis `Orderly`: `Regime`, and either `ExactClock` or `SentWhenIdle`, that no strip is ever full
and no job flushes or is printed label by label, so that strips are sent by the idle window, the flush command and the last flush only:

* `JobsAnsweredOnce`: `Spec => AnswersOnce`, that is, `PrintWorker` implements `JobLifecycle` with `Once = TRUE`; then
  `TornStripNotRetried`, `TornStripReported` and `StripsPrintNoMore` for `[]TornNotRetried`, `[]TornIsReported` and `[]StripNotOverprinted`.
* What `Orderly` adds to `Regime` is needed: `retry_queued` walks a list it read once, and section 4 tells how a job of that list may be
  answered before the walk comes to it.  When the clocks agree the retry starts with an empty buffer; when they
  do not, nothing may send a strip while the list is walked.  The run `worker_mixed` satisfies the first half (its jobs mix both kinds), the run
  `worker_strips` the second (its clocks disagree).
* `OrderInv` is that argument as an invariant: who may be on the stack below a send (`CallerInv`), that the list holds only unanswered jobs
  and, with agreeing clocks, none in flight (`ScanInv`), and that only a job without an answer is submitted (`OpenInv`).  From it `RowMoves`: a step
  leaves a row alone, works on one that is open, or answers one that is open and no longer on the list.
* That an answer names all the labels on record needs `OutcomeInv`: a tally that settled a label without printing it expects no copy of
  it, and a label on record which the submission has passed is one the tally reports printed.
* `TornInv` and `StripTapeInv` follow a strip from the printer to its answers: a label of a torn strip is either reported failed, or counted
  failed in a tally that is about to be settled (`IsFailing`); a strip label that is on tape at all belongs to a job that is being settled
  or answered.  `SettlingAnswers` closes the circle: by the balance of `RegimeProofs` each job of a strip is complete when the strip is settled.

`IntakeProofs` (any deliveries and files of any jobs, any bound; `job_id`s need not be distinct):

* `IntakeTyped`.
* `NothingLostOnTheWayIn`: `Spec => []TakenIsSpooled`.  The induction carries `AtWork`: a thread that is past its INSERT, on its
  way to acknowledge or to rename, is there with a job the spool has.
* `HandedOnOnce`: `Spec => []HandedOnce`.  The induction carries `OnceInv`: a thread between its INSERT and its hand-over
  (`NetHands`, `DirHands`) holds a job that has not been handed over, and the two never hold the same one.  A look before the insert is not
  enough for that; the table's uniqueness is.

`StatusProofs` (`MaxClock` positive, any `MaxQueue`):

* `StatusTyped`, which carries `WireInv` for the goodbye on the wire.
* `SpoolKnowsTheTopic`: `Spec => []PublishedIsSaved`.  Collect every snapshot the agent or the broker carries anywhere
  (`Carried`): a step adds to it only what the spool already holds (`SavedInv`).  It fails if a status is published before it is saved.
* `ReconnectNeverGoesBack`: `Spec => []NeverGoesBack`, by `RecentInv`, which orders the last status, the one held,
  those under way, the wills and the topic by when the printer was heard.
* `TopicHoldsTheLast`: `Spec => []TopicSettles`.  `Agrees(S)` says that the last status, the one held, the last one paho still keeps and the last
  one on the wire (or the topic, when the wire is empty) are all in `S`; `SettleInv` is that they agree on `latest`.  `QueueInv` is what
  makes it inductive: nothing is kept by paho while it is connected.
* `TopicTellsTheEnd`: `Spec => []DownIsTold`, by `FarewellInv`: every will says that the agent is gone, a broker that serves a connection
  has one, and a DISCONNECT travels behind everything that was said before it.

`LinkProofs` (any frames, replies and bounds):

* `NeverOutrun`: `LinkSpec => []Outpaced`, by `GateInv`: with the gate open nothing is unacknowledged but what
  lapsed.
* `GapIsNeverFed`: `LinkSpec => []NoRunaway`, by `PaperInv`: once the session is set up the printer holds the configured paper type
  or it is in the air (`Told`), and it is ahead of every feed (`FeedFollows`).
* `ConfirmedCameOut`: `Unambiguous => (LinkSpec => []ConfirmedHasFinished)`, for all byte streams cut in any way.  `Unambiguous` says of the
  printer's frames that no byte of a leftover or of an unknown frame begins a known one and that none holds the two bytes of an acknowledgement; the protocol has no
  escaping, so without it payload bytes can be read as a completion, and the parser's own comment concedes as much.  `HeardInv` says that the stream
  behind the parser's position is made of the frames sent (`Framed`), each still whole, and that what has come out is what the parser has passed
  (`Heard`): the completions counted and found are those among these frames, and the frames that came out are the ones the table
  knows; `WordInv` ties the completions to what the printer did.
* `FramesCameThrough`: `Unambiguous => (LinkSpec => []FramesAsSent)`, from the same invariant.  `AllPassed`: when the parser is at rest and everything has been read,
  a frame it had not passed would be whole in its buffer, and it would not be at rest.  `Understood` is a recursive function; `UnderstoodStep` and
  `UnderstoodSame` say what it computes, by induction over sets (as in `LayoutProofs`).
* `LinkTyped`: `LinkSpec => []LinkTypeOK`.  All but one of its conjuncts are inductive, with those of `PaperInv` and `GateInv`
  (`SpokenInv`).  The exception is `due`, the pieces of a body the printer still expects, which `Receive` decrements
  unguarded: that it stays within `0..Rows` says that no piece reaches the printer unannounced.  `DueInv` follows the count along the units in the air
  (`Path`) to a value `e`, and bounds by `e` the pieces of a frame still to be written once its header has been (`Covered`); a write
  cut inside the preamble leaves the header at the head of `todo`.

`LayoutProofs` (any elements, rows, columns, lengths and tape; nothing beyond `LayoutAssumption`):

* `Sums(s)[n]`, what the first `n` entries add up to, is a recursive function, and what it computes takes an induction.  `Induction` is one over
  sets: a set of numbers that holds 0 and the successor of each of its members holds every number (from `WFMin`), so a fact about sums is
  proved of the set of the numbers it is true of.  `SumsStep`, that the recursion defines a function at all, comes first; then what is needed of sums: when they are
  equal, ordered or grow, what changing one entry does, that the sum of a set's indicator is its size, and `SharesRounded`, by how much shares rounded down
  fall short of what they share.
* `IInv` is `TypeOK` with `Shape` (which variable holds something in which pass; the sizes are the shares of the naturals), `Asked` (each
  natural is what its element measures, given the room of that pass) and `Remembered` (the length of an auto label is what some list of first measures makes
  it: the code forgets the measures, and the length does not).
* `TypeCorrect`: `Spec => []TypeOK`.  That no size is negative is a fact about the shares: no cut takes more than there is.  It needs measures that
  are not negative, and those of a stretched picture may be, in the drawing pass of a label shorter than its gaps: there
  the sizes are only whole numbers, and `Signs` says that no other child has a negative one.
* `SurplusFills`: `[]FillsBudget`; `OverrunRounds`: `[]OverrunsByRounding`; `RigidKeep`: `[]ElasticFirst`, the last two where the budget is not negative.  Shares rounded down fall short of what
  is shared by less than one for each child that shares.  A surplus' remainder goes to one child.  A deficit's is taken from all in a second round, which leaves less
  than one for each child again.  With two flexible children the first round leaves one pixel at most, and a second round over one pixel takes none from a
  child that does not have them all; three leave two, which is where the rigid ones begin to shrink.
* `AutoHasRoom`: `[]AutoIsEnough`.  Both passes measure the same elements, the first in what those before leave and the second in all there is.
  `MeasuredTwice`: an element which had room to spare takes the same the second time, or more than it had room for the first time.  So either the measures
  are the same and their sum is what made the length, or the content is longer than the longest label.
* `InkStaysInBox`: `[]DrawnInBox`.  A code is drawn in the smaller of its measure and its box, a picture likewise unless it covers, text in its
  box when the box has room for a glyph, and bars in a box which is no less than their measure unless there was a deficit.  What starts in
  the middle or at the far side of its box stays in it when it is no wider (`InkInBox`), and `Spills` names the children that may be.
* `ColumnShown`: `[]ColumnIsWhole`; `ModulesExact`: `[]ModulesFill`.  The edges are the multiples of `Tape` over the number of
  modules, rounded with halves to the even neighbour (`Rounded`): two that follow each other are `Tape \div modules` apart or a pixel more (`WidthIs`).

One lemma per operator that changes the spool, a tally or a queue is stated once; each induction has one
step per action.

**Model-checked only.**

* Liveness (`EveryJobAnswered`, `EveryDeliveryAcked`, `PrintReturns`): TLAPS does not reason about `ENABLED` and fairness here.
* Every finding, which is a behaviour, not a theorem.

Every invariant the passing runs check is stated by a theorem, and so are both refinements; of their properties only the three liveness ones are not.  Where a theorem has a hypothesis
(`KeyedOnce`, `Regime`, `Orderly`, `Unambiguous`), the run checks an instance that satisfies it.

A tally's copies are counted as the size of a set (`CopiesIn`), about which the library has theorems, and not by a fold.  `StripLength`
remains a fold: no proof depends on its value, since `JobsFit` speaks of `IsFull` as it stands.

## 6. Not modelled, and what is left

* Rendering beyond one row or one column: nested boxes, the cross axis and how children are aligned on it (`align`, of which `"stretch"`
  would also let a text that measured nothing draw), fonts and the search for a size (a text is its width, its widest unmeasured piece and
  its lowest line), presets, the composition of strips and packing into the device's bytes.
* The byte layouts of the encoders and the offline decoder; loading the configuration; the command line.  They have no
  state.
* Sockets, asyncio and durations under the transports: `open()` succeeds or fails; the window between an open socket and
  its CONNACK is not there.
* The agent's timeouts as times: the probe's rate limit, the age of `dedupe` rows, starvation of the tick under endless
  traffic, `pending_labels` in a status, a signal that lands inside `queue.put`.
* Results on the wire: a result is final in the spool, and its publication is lost in a crash after the commit.
* A rename that fails, and errors that are not a `D30Error` and leave `_flush` half way.
* Snapshot fields one by one: a connection that reports only some of them.

Worth adding next: the loop's
timeouts against steady traffic; a snapshot per field; the composition of a strip against the frame limit.

## 7. Running

    tlc -config worker_mixed.cfg MCWorker
    tlc -config intake.cfg MCIntake
    tlc -config link.cfg MCLink
    tlc -config status.cfg DeviceStatus
    tlc -config layout.cfg MCLayout
    tlapm WorkerProofs.tla

and likewise for the other configurations of `MCWorker`, for `topic_flattened.cfg` with
`DeviceStatus`, and for `TapeProofs`, `RegimeProofs`, `OnceProofs`, `IntakeProofs`, `StatusProofs`, `LinkProofs` and
`LayoutProofs`.  Each is proved within a few minutes.

The passing runs take from a few seconds to about three minutes each.  The largest are
`status` with 3.3 million states, `worker_any` with 2.4 million and `worker_mixed` with 1.3 million.
