------------------------------- MODULE Spool -------------------------------
(***************************************************************************)
(* The durable job spool (agent/spool.py): one SQLite database, every      *)
(* statement committed as it executes.  Each operation below is one commit *)
(* and says what it leaves alone in the spool; what survives a crash of    *)
(* the agent is exactly these variables.                                   *)
(***************************************************************************)
EXTENDS PrintJob

VARIABLES
    state,    \* jobs.state; "absent" when there is no row
    result,   \* jobs.result; its state is "none" when the column is NULL
    created,  \* jobs.created_at as an arrival rank; 0 when there is no row
    printed,  \* printed_labels: printed[j] is the set of committed indices
    dedupe    \* dedupe: the keys recorded and not yet purged

spoolVars == <<state, result, created, printed, dedupe>>

JobState   == {"completed", "partial", "failed", "rejected"}
LabelState == {"none", "printed", "failed", "skipped"}
RowState   == {"absent", "queued", "printing"} \cup JobState
Result     == [state : JobState \cup {"none"}, partial : BOOLEAN,
               label : [Index -> LabelState]]

NoLabels == [i \in Index |-> "none"]
NoResult == [state |-> "none", partial |-> FALSE, label |-> NoLabels]

SpoolTypeOK ==
    /\ state \in [Job -> RowState]
    /\ result \in [Job -> Result]
    /\ created \in [Job -> Nat]
    /\ printed \in [Job -> SUBSET Index]
    /\ dedupe \in SUBSET Key

SpoolInit ==
    /\ state = [j \in Job |-> "absent"]
    /\ result = [j \in Job |-> NoResult]
    /\ created = [j \in Job |-> 0]
    /\ printed = [j \in Job |-> {}]
    /\ dedupe = {}

-----------------------------------------------------------------------------
(***************************************************************************)
(* try_insert of a delivery the spool has not seen; kept is what an        *)
(* earlier purge_dedupe in the same handler left of the dedupe table.  A   *)
(* delivery it has seen changes nothing here.                              *)
(***************************************************************************)
Insert(j, kept) ==
    /\ state[j] = "absent"
    /\ kept \subseteq dedupe
    /\ state' = [state EXCEPT ![j] = "queued"]
    /\ created' = [created EXCEPT
                     ![j] = 1 + Cardinality({k \in Job : state[k] # "absent"})]
    /\ dedupe' = kept
    /\ UNCHANGED <<result, printed>>

\* queued(): what is still owed a result; also the boot recovery list.
QueuedAndFailed ==
    {j \in Job : state[j] \in {"queued", "printing", "failed"}}

Queued == {j \in Job : state[j] \in {"queued", "printing"}}

\* ORDER BY created_at: j comes first in the list S.
Oldest(j, S) == j \in S /\ \A k \in S : created[j] <= created[k]

Mark(j, s) ==
    /\ state' = [state EXCEPT ![j] = s]
    /\ UNCHANGED <<result, created, printed, dedupe>>

\* finish(): state and result in one UPDATE.
FinishLosingResult(j, r) ==
    /\ state' = [state EXCEPT ![j] = r.state]
    /\ UNCHANGED <<result, created, printed, dedupe>>

Finish(j, r) ==
    /\ state' = [state EXCEPT ![j] = r.state]
    /\ result' = [result EXCEPT ![j] = r]
    /\ UNCHANGED <<created, printed, dedupe>>

RequeueAsStalled(jobs) ==
    /\ state' = [j \in Job |-> IF j \in jobs THEN "stalled" ELSE state[j]]
    /\ UNCHANGED <<result, created, printed, dedupe>>

(***************************************************************************)
(* requeue() of each of a set of jobs.  The code commits one by one; a     *)
(* crash between two leaves some "printing" instead of "queued", which     *)
(* nothing that survives the crash tells apart (see Queued).               *)
(***************************************************************************)
Requeue(jobs) ==
    /\ state' = [j \in Job |-> IF j \in jobs THEN "queued" ELSE state[j]]
    /\ UNCHANGED <<result, created, printed, dedupe>>

RecordDedupe(k) ==
    /\ dedupe' = dedupe \cup {k}
    /\ UNCHANGED <<state, result, created, printed>>

\* label_printed() and printed_labels().
LabelPrinted(j, i) ==
    /\ printed' = [printed EXCEPT ![j] = @ \cup {i}]
    /\ UNCHANGED <<state, result, created, dedupe>>

NoneRemembered(j) == {}

PrintedLabels(j) == printed[j]
=============================================================================
