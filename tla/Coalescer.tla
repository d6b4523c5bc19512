----------------------------- MODULE Coalescer -----------------------------
(***************************************************************************)
(* The strip coalescer (agent/coalescer.py): the pending strip and its     *)
(* size triggers.  The idle trigger is the loop's clock (PrintWorker!Tick);*)
(* the geometry trigger cannot fire in the agent, which adds every label   *)
(* with the one tape width of its configuration.                           *)
(***************************************************************************)
EXTENDS PrintJob
LOCAL INSTANCE Functions

VARIABLE pending   \* Coalescer._pending: the <<job, index>> of each copy

\* The labels of a strip, a separator before each and one closing it.
StripLength(strip) ==
    SumFunction([n \in DOMAIN strip |-> Contract[strip[n][1]].labels[strip[n][2]].length])
        + Separator * (Len(strip) + 1)

\* is_full(), of a strip that has labels.
IsFull(strip) == \/ Len(strip) >= MaxLabels
                 \/ StripLength(strip) >= MaxLength

\* The distinct jobs of a batch (Batch.job_ids).
JobsOf(strip) == {strip[n][1] : n \in DOMAIN strip}
=============================================================================
