----------------------------- MODULE MCWorker -----------------------------
(***************************************************************************)
(* Instances of PrintWorker for TLC: the jobs of each run.                 *)
(***************************************************************************)
EXTENDS WorkerProperties, TLC

CONSTANTS j1, j2, j3, k1

Plain   == [copies |-> 1, key |-> NoKey, renders |-> TRUE, length |-> 1]
Keyed   == [Plain EXCEPT !.key = k1]
Twice   == [Plain EXCEPT !.copies = 2]
Broken  == [Plain EXCEPT !.renders = FALSE]

StripJob(ls)    == [model |-> TRUE, discrete |-> FALSE, flush |-> FALSE, labels |-> ls]
FlushingJob(ls) == [StripJob(ls) EXCEPT !.flush = TRUE]
DiscreteJob(ls) == [StripJob(ls) EXCEPT !.discrete = TRUE]
ForeignJob(ls)  == [StripJob(ls) EXCEPT !.model = FALSE]

\* A strip job whose labels wait for company, and one printed label by label.
MixedJobs == (j1 :> StripJob(<<Twice>>))
          @@ (j2 :> DiscreteJob(<<Plain, Plain>>))

\* Two waiting strip jobs that share frames, one of which cannot be drawn in
\* full, and a job for another model of printer.
StripJobs == (j1 :> StripJob(<<Plain, Broken>>))
          @@ (j2 :> StripJob(<<Twice>>))
          @@ (j3 :> ForeignJob(<<Plain>>))

\* A key shared between jobs; one job's labels span frames of one label.
AnyJobs == (j1 :> StripJob(<<Keyed, Plain>>))
        @@ (j2 :> FlushingJob(<<Keyed>>))

\* One waits for its idle window, one flushes.
LiveJobs == (j1 :> StripJob(<<Plain>>))
         @@ (j2 :> FlushingJob(<<Plain>>))

\* The jobs of the violation runs.
KeyedJob  == j1 :> FlushingJob(<<Keyed>>)
PlainJob  == j1 :> FlushingJob(<<Plain>>)
SpanJobs  == (j1 :> StripJob(<<Plain>>)) @@ (j2 :> StripJob(<<[Plain EXCEPT !.copies = 3]>>))
=============================================================================
