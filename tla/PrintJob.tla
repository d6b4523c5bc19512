----------------------------- MODULE PrintJob -----------------------------
(***************************************************************************)
(* The job contract and the agent's configuration, as far as the print     *)
(* worker's decisions depend on them (contract/models.py, agent/config.py).*)
(*                                                                         *)
(* A job is a model value; Contract gives what its envelope says.  A label *)
(* is identified, as in the code, by its job and its position.  What it    *)
(* draws is abstracted to whether rendering raises RenderError and to the  *)
(* length of tape its image takes.                                         *)
(***************************************************************************)
EXTENDS Naturals, Sequences, FiniteSets

CONSTANTS
    Job,             \* the jobs producers may deliver (one idempotency key each)
    NoJob,           \* "no job": a register of the loop that holds none
    Key,             \* dedupe_key values
    NoKey,           \* a label without a dedupe_key
    Contract,        \* Contract[j]: the envelope of job j
    TapeKind,        \* config.tape.kind
    DiscreteAsStrip, \* config.strip.discrete_as_strip
    MaxLabels,       \* config.strip.max_labels
    MaxLength,       \* config.strip.max_length_mm
    Separator        \* config.strip.separator_mm

LabelSpec == [copies : Nat \ {0}, key : Key \cup {NoKey},
              renders : BOOLEAN, length : Nat]

Envelope == [model : BOOLEAN,      \* printer.require_model is absent or D30
             discrete : BOOLEAN,   \* options.batch_mode = "discrete"
             flush : BOOLEAN,      \* options.flush
             labels : Seq(LabelSpec)]

ASSUME JobAssumption == IsFiniteSet(Job) /\ NoJob \notin Job
ASSUME KeyAssumption == NoKey \notin Key
ASSUME ContractAssumption ==
    /\ Contract \in [Job -> Envelope]
    /\ \A j \in Job : Contract[j].labels # <<>>
ASSUME ConfigAssumption ==
    /\ TapeKind \in {"continuous", "gap"}
    /\ DiscreteAsStrip \in BOOLEAN
    /\ MaxLabels \in Nat \ {0}
    /\ MaxLength \in Nat
    /\ Separator \in Nat

-----------------------------------------------------------------------------
Label(j)     == DOMAIN Contract[j].labels
Index        == UNION {Label(j) : j \in Job}
Copies(j, i) == Contract[j].labels[i].copies
KeyOf(j, i)  == Contract[j].labels[i].key

\* One physical label to print; the agent prints Copies(j, i) of each.
Item == {it \in Job \X Index : it[2] \in Label(it[1])}

(***************************************************************************)
(* How submit() prints a job: on continuous tape a discrete job may be one *)
(* strip of its own, sent at once; die-cut tape always prints label by     *)
(* label.  WantsFlush: the job's last label pushes the pending strip out.  *)
(***************************************************************************)
AsStrip(j) == /\ TapeKind = "continuous"
              /\ Contract[j].discrete
              /\ DiscreteAsStrip

PrintsDiscrete(j) == \/ Contract[j].discrete /\ ~AsStrip(j)
                     \/ TapeKind = "gap"

WantsFlush(j) == Contract[j].flush \/ AsStrip(j)
=============================================================================
