--------------------------- MODULE JobLifecycle ---------------------------
(***************************************************************************)
(* What the agent promises the producer of a job, whatever happens between *)
(* the two: a job it has taken is answered, the answer says which labels   *)
(* are out, and an answered job is over.  PrintWorker implements this with *)
(* phase, out and answer the columns of its spool; crashes, retries and    *)
(* the printer's troubles are steps that change none of them.              *)
(*                                                                         *)
(* Once: every job is submitted once at a time and left alone when it has  *)
(* been answered.  Without it only what holds in every regime is promised. *)
(***************************************************************************)
CONSTANTS Job, Index, Label(_), Once

VARIABLES
    phase,   \* where the job is: jobs.state
    out,     \* the labels of each job recorded as printed: printed_labels
    answer   \* the answer stored for each job: jobs.result

vars == <<phase, out, answer>>

Unanswered == [state |-> "none", partial |-> FALSE, label |-> [i \in Index |-> "none"]]

Init ==
    /\ phase = [j \in Job |-> "absent"]
    /\ out = [j \in Job |-> {}]
    /\ answer = [j \in Job |-> Unanswered]

\* The agent may still work on the job.
Open(j) == IF Once THEN phase[j] \in {"queued", "printing"} ELSE phase[j] # "absent"

Reported(j, a, s) == {i \in Label(j) : a.label[i] = s}

\* An answer that tells the producer what the record of printed labels says,
\* and whose one word agrees with what it says of each label.
Honest(j, a) ==
    /\ Reported(j, a, "printed") \subseteq out[j]
    /\ Once => out[j] \subseteq Reported(j, a, "printed")
    /\ \/ a.state = "rejected" /\ a.label = Unanswered.label
       \/ /\ a.state \in {"completed", "partial", "failed"}
          /\ Reported(j, a, "none") = {}
          /\ a.state = "completed" <=> Reported(j, a, "failed") = {}
          /\ a.state = "failed" => Reported(j, a, "printed") = {}

-----------------------------------------------------------------------------
Admit(j) ==
    /\ phase[j] = "absent"
    /\ phase' = [phase EXCEPT ![j] = "queued"]
    /\ UNCHANGED <<out, answer>>

Start(j) ==
    /\ Open(j)
    /\ phase' = [phase EXCEPT ![j] = "printing"]
    /\ UNCHANGED <<out, answer>>

\* Some jobs of one frame go back to the queue together.
PutBack(jobs) ==
    /\ \A j \in jobs : Open(j)
    /\ phase' = [j \in Job |-> IF j \in jobs THEN "queued" ELSE phase[j]]
    /\ UNCHANGED <<out, answer>>

LabelOut(j, i) ==
    /\ Open(j) /\ i \in Label(j)
    /\ out' = [out EXCEPT ![j] = @ \cup {i}]
    /\ UNCHANGED <<phase, answer>>

Answer(j) ==
    /\ Open(j)
    /\ Honest(j, answer'[j])
    /\ answer' = [answer EXCEPT ![j] = answer'[j]]
    /\ phase' = [phase EXCEPT ![j] = answer'[j].state]
    /\ UNCHANGED out

Next ==
    \/ \E j \in Job : \/ Admit(j) \/ Start(j) \/ Answer(j)
                      \/ \E i \in Index : LabelOut(j, i)
    \/ \E jobs \in SUBSET Job : PutBack(jobs)

Spec == Init /\ [][Next]_vars
=============================================================================
