----------------------------- MODULE TapeProofs -----------------------------
(***************************************************************************)
(* What the spool has committed as printed is on the tape, and what a      *)
(* crash may print again.                                                  *)
(***************************************************************************)
EXTENDS WorkerProofs

USE DEF spoolVars, sendVars, submitVars, loopVars, memVars, inVars, ghostVars

-----------------------------------------------------------------------------
(***************************************************************************)
(* Counting the copies of a label in a frame.                              *)
(***************************************************************************)
From(it, s, a) == {n \in DOMAIN s : n >= a /\ s[n] = it}

LEMMA FromIsFinite ==
    ASSUME NEW s \in Seq(Item), NEW it, NEW a \in Nat
    PROVE  /\ IsFiniteSet(From(it, s, a))
           /\ Cardinality(From(it, s, a)) \in Nat
<1>1. From(it, s, a) \subseteq 1..Len(s)
  BY DEF From
<1>2. IsFiniteSet(1..Len(s))
  BY FS_Interval
<1> QED
  BY <1>1, <1>2, FS_Subset, FS_CardinalityType

\* A position passed is one copy less to come, if it holds the label.
LEMMA FromStep ==
    ASSUME NEW s \in Seq(Item), NEW it, NEW a \in DOMAIN s
    PROVE  Cardinality(From(it, s, a)) =
             Cardinality(From(it, s, a + 1)) + (IF s[a] = it THEN 1 ELSE 0)
<1>1. a \in Nat /\ a + 1 \in Nat /\ a \notin From(it, s, a + 1)
  BY DEF From
<1>2. CASE s[a] = it
  <2>1. From(it, s, a) = From(it, s, a + 1) \cup {a}
    BY <1>2 DEF From
  <2> QED
    BY <1>1, <1>2, <2>1, FromIsFinite, FS_AddElement, ZenonT(60)
<1>3. CASE s[a] # it
  <2>1. From(it, s, a) = From(it, s, a + 1)
    BY <1>3 DEF From
  <2> QED
    BY <1>1, <1>3, <2>1, FromIsFinite
<1> QED
  BY <1>2, <1>3

\* Before the first position all of the frame's copies are to come.
LEMMA FromFirst ==
    ASSUME NEW s \in Seq(Item), NEW it
    PROVE  Cardinality(From(it, s, 1)) = Occurs(it, SubSeq(s, 1, Len(s)))
<1>1. SubSeq(s, 1, Len(s)) = s
  BY SubSeqProperties, SeqEqual
<1>2. From(it, s, 1) = {n \in DOMAIN s : s[n] = it}
  BY DEF From
<1> QED
  BY <1>1, <1>2 DEF Occurs

LEMMA OccursType ==
    ASSUME NEW s \in Seq(Item), NEW k \in 0..Len(s), NEW it
    PROVE  Occurs(it, SubSeq(s, 1, k)) \in Nat
<1>1. DOMAIN SubSeq(s, 1, k) = 1..k
  BY SubSeqProperties
<1>2. {n \in 1..k : SubSeq(s, 1, k)[n] = it} \subseteq 1..k /\ IsFiniteSet(1..k)
  BY FS_Interval
<1> QED
  BY <1>1, <1>2, FS_Subset, FS_CardinalityType DEF Occurs

\* Tape only grows, up to where the count stops, and what is lost stays lost.
TapeGrows ==
    /\ \A j \in Job : \A i \in Label(j) :
           \/ tape'[j][i] >= tape[j][i]
           \/ tape'[j][i] > Copies(j, i)
    /\ lost \subseteq lost'

LEMMA PrintedGrows ==
    ASSUME TypeInv, NEW k \in 0..Len(batch), tape' = Printed(k),
           NEW j \in Job, NEW i \in Label(j)
    PROVE  \/ tape'[j][i] = tape[j][i] + Occurs(<<j, i>>, SubSeq(batch, 1, k))
           \/ tape'[j][i] > Copies(j, i)
<1>1. <<j, i>> \in Item /\ i \in Index /\ Copies(j, i) \in Nat
  BY LabelFacts
<1>2. tape[j][i] \in Nat /\ Occurs(<<j, i>>, SubSeq(batch, 1, k)) \in Nat
  BY <1>1, OccursType DEF TypeInv, TypeOK
<1> QED
  BY <1>1, <1>2 DEF Printed

LEMMA PrintedTapeGrows ==
    ASSUME TypeInv, NEW k \in 0..Len(batch), tape' = Printed(k), lost \subseteq lost'
    PROVE  TapeGrows
<1> SUFFICES ASSUME NEW j \in Job, NEW i \in Label(j)
             PROVE  tape'[j][i] >= tape[j][i] \/ tape'[j][i] > Copies(j, i)
  BY DEF TapeGrows
<1>1. tape[j][i] \in Nat /\ Occurs(<<j, i>>, SubSeq(batch, 1, k)) \in Nat
  BY LabelFacts, OccursType DEF TypeInv, TypeOK
<1> QED
  BY <1>1, PrintedGrows

-----------------------------------------------------------------------------
(***************************************************************************)
(* A committed label is on the tape, in full, or at least once when it has *)
(* a dedupe_key, unless a frame with it was lost.  A keyed label of        *)
(* several copies is the exception because a job submitted again while its *)
(* copies wait has its label skipped for its own key: the tally then       *)
(* expects no copy, and the first one of the earlier submission to be      *)
(* credited commits the label.                                             *)
(*                                                                         *)
(* Two facts make that inductive.  No tally is ahead of the tape, counting *)
(* the frame whose copies are being credited; and a copy that waits in the *)
(* queue, the buffer or the frame is one its job's tally expects in full,  *)
(* is committed already, or has a key.                                     *)
(***************************************************************************)
AsAsked(j, i) == IF KeyOf(j, i) = NoKey THEN Copies(j, i) ELSE 1

CommittedOnTape ==
    \A j \in Job : \A i \in printed[j] :
        /\ i \in Label(j)
        /\ tape[j][i] >= AsAsked(j, i) \/ <<j, i>> \in lost

Owed(j, i) == IF pc = "credit" THEN Cardinality(From(<<j, i>>, batch, at)) ELSE 0

DoneIsOnTape ==
    \A j \in Job : \A i \in Label(j) :
        \/ acc[j].done[i] + Owed(j, i) <= tape[j][i]
        \/ tape[j][i] > Copies(j, i)
        \/ <<j, i>> \in lost

\* The submission that fills the tally has not come to label i yet.
NotYetRendered(j, i) == pc = "render" /\ cur = j /\ label <= i

IsExpected(j, i) == \/ acc[j].expected[i] = Copies(j, i)
                    \/ i \in printed[j]
                    \/ KeyOf(j, i) # NoKey
                    \/ NotYetRendered(j, i)

SoundLabels(j) == {i \in Label(j) : /\ Contract[j].labels[i].renders
                                    /\ acc[j].live => IsExpected(j, i)}

Sound == {it \in Item : it[2] \in SoundLabels(it[1])}

HeldAreSound ==
    /\ pending \in Seq(Sound) /\ batch \in Seq(Sound)
    /\ cur \in Job /\ pc # "submit" => todo \in Seq(SoundLabels(cur))

RenderStarted == pc = "render" => label >= 1

TapeInv == CommittedOnTape /\ DoneIsOnTape /\ HeldAreSound /\ RenderStarted

\* What is owed is a count, and nothing outside the accounting of a frame.
LEMMA OwedType ==
    ASSUME TypeInv, NEW j \in Job, NEW i \in Index
    PROVE  Owed(j, i) \in Nat
<1>1. batch \in Seq(Item) /\ at \in Nat
  BY DEF TypeInv, TypeOK
<1>2. Cardinality(From(<<j, i>>, batch, at)) \in Nat
  BY <1>1, FromIsFinite
<1> QED
  BY <1>2 DEF Owed

LEMMA CountTypes ==
    ASSUME TypeInv, NEW j \in Job, NEW i \in Label(j)
    PROVE  /\ i \in Index /\ Copies(j, i) \in Nat \ {0}
           /\ tape[j][i] \in Nat /\ acc[j].done[i] \in Nat
           /\ acc[j].expected[i] \in Nat /\ acc[j].failed[i] \in Nat
<1>1. i \in Index /\ Copies(j, i) \in Nat \ {0}
  BY LabelFacts
<1>2. tape[j][i] \in Nat /\ acc[j] \in Tally
  BY <1>1 DEF TypeInv, TypeOK
<1> QED
  BY <1>1, <1>2 DEF Tally

LEMMA CountTypesNext ==
    ASSUME TypeInv', NEW j \in Job, NEW i \in Label(j)
    PROVE  /\ tape'[j][i] \in Nat /\ acc'[j].done[i] \in Nat
           /\ Owed(j, i)' \in Nat
<1>1. i \in Index
  BY LabelFacts
<1>2. tape'[j][i] \in Nat /\ acc'[j] \in Tally
  BY <1>1 DEF TypeInv, TypeOK
<1>3. batch' \in Seq(Item) /\ at' \in Nat
  BY DEF TypeInv, TypeOK
<1>4. Cardinality(From(<<j, i>>, batch', at')) \in Nat
  BY <1>3, FromIsFinite
<1> QED
  <2>1. acc'[j].done[i] \in Nat
    BY <1>1, <1>2 DEF Tally
  <2>2. Owed(j, i)' \in Nat
    BY <1>4 DEF Owed
  <2> QED
    BY <1>2, <2>1, <2>2

\* The labels of a job are numbered from 1: past the end is past each of them.
LEMMA LabelPastEnd ==
    ASSUME NEW j \in Job, NEW l \in Nat \ {0}, l \notin Label(j), NEW i \in Label(j)
    PROVE  ~(l <= i)
<1>1. Contract[j].labels \in Seq(LabelSpec)
  BY LabelFacts DEF Envelope
<1>2. Label(j) = 1..Len(Contract[j].labels) /\ Len(Contract[j].labels) \in Nat
  BY <1>1 DEF Label
<1> QED
  BY <1>2

-----------------------------------------------------------------------------
(***************************************************************************)
(* Most steps only pass copies on, forget tallies and let tape out.        *)
(***************************************************************************)
DoneKept == \A j \in Job : acc'[j].done \in {acc[j].done, Zero}

ExpectKept == \A j \in Job :
                 acc'[j].live => acc[j].live /\ acc'[j].expected = acc[j].expected

TalliesKept == DoneKept /\ ExpectKept

RenderEnds == \/ pc # "render"
              \/ UNCHANGED <<pc, cur, label>>
              \/ pc' # "render" /\ label \notin Label(cur)
              \/ \A j \in Job : ~acc'[j].live

CopiesPassed ==
    /\ pending' \in {pending, <<>>} /\ batch' \in {batch, pending, <<>>}
    /\ \/ UNCHANGED <<cur, todo>> /\ pc # "submit"
       \/ todo' = <<>> \/ pc' = "submit" \/ cur' = NoJob

CalmStep ==
    /\ TalliesKept /\ RenderEnds /\ CopiesPassed /\ TapeGrows
    /\ UNCHANGED printed
    /\ pc' = "credit" => UNCHANGED <<pc, batch, at>>
    /\ pc' = "render" => UNCHANGED <<pc, label>>

\* A waiting copy stays sound when tallies are only kept or forgotten.
LEMMA SoundStays ==
    ASSUME TypeInv, RenderStarted, TalliesKept, RenderEnds,
           \A j \in Job : printed[j] \subseteq printed'[j]
    PROVE  Sound \subseteq Sound' /\ \A j \in Job : SoundLabels(j) \subseteq SoundLabels(j)'
<1>1. ASSUME NEW j \in Job, NEW i \in SoundLabels(j)
      PROVE  i \in SoundLabels(j)'
  <2>1. i \in Label(j) /\ Contract[j].labels[i].renders
    BY DEF SoundLabels
  <2>2. ASSUME acc'[j].live
        PROVE  IsExpected(j, i)'
    <3>1. acc[j].live /\ acc'[j].expected = acc[j].expected
      BY <2>2 DEF TalliesKept, ExpectKept
    <3>2. IsExpected(j, i)
      BY <3>1 DEF SoundLabels
    <3>3. CASE NotYetRendered(j, i)
      <4>1. pc = "render" /\ cur = j /\ label <= i /\ label \in Nat \ {0}
        BY <3>3 DEF NotYetRendered, RenderStarted, TypeInv, TypeOK
      <4>2. label \in Label(cur)
        BY <2>1, <4>1, LabelPastEnd
      <4>3. UNCHANGED <<pc, cur, label>>
        BY <2>2, <4>1, <4>2 DEF RenderEnds
      <4> QED
        BY <4>1, <4>3 DEF IsExpected, NotYetRendered
    <3> QED
      BY <3>1, <3>2, <3>3 DEF IsExpected
  <2> QED
    BY <2>1, <2>2 DEF SoundLabels
<1>2. ASSUME NEW it \in Sound
      PROVE  it \in Sound'
  <2>1. it \in Item /\ it[1] \in Job /\ it[2] \in SoundLabels(it[1])
    BY DEF Sound, Item
  <2>2. it[2] \in SoundLabels(it[1])'
    <3> DEFINE j == it[1]
               i == it[2]
    <3> HIDE DEF j, i
    <3>1. i \in SoundLabels(j)'
      BY <1>1, <2>1 DEF i, j
    <3> QED
      BY <3>1 DEF i, j
  <2> QED
    BY <2>1, <2>2 DEF Sound
<1> QED
  BY <1>1, <1>2

LEMMA OnTapeKept ==
    ASSUME TypeInv, CommittedOnTape, TapeGrows, UNCHANGED printed,
           tape' \in [Job -> [Index -> Nat]]
    PROVE  CommittedOnTape'
<1> SUFFICES ASSUME NEW j \in Job, NEW i \in printed[j]
             PROVE  /\ i \in Label(j)
                    /\ tape'[j][i] >= AsAsked(j, i) \/ <<j, i>> \in lost'
  BY DEF CommittedOnTape, AsAsked
<1>1. i \in Label(j) /\ (tape[j][i] >= AsAsked(j, i) \/ <<j, i>> \in lost)
  BY DEF CommittedOnTape
<1>2. /\ tape[j][i] \in Nat /\ tape'[j][i] \in Nat /\ AsAsked(j, i) \in Nat
      /\ Copies(j, i) \in Nat /\ AsAsked(j, i) <= Copies(j, i)
  <2>1. i \in Index /\ Copies(j, i) \in Nat \ {0}
    BY <1>1, LabelFacts
  <2>2. tape[j][i] \in Nat /\ tape'[j][i] \in Nat
    BY <2>1 DEF TypeInv, TypeOK
  <2> QED
    BY <2>1, <2>2 DEF AsAsked
<1>3. /\ tape'[j][i] >= tape[j][i] \/ tape'[j][i] > Copies(j, i)
      /\ lost \subseteq lost'
  BY <1>1 DEF TapeGrows
<1> QED
  BY <1>1, <1>2, <1>3

LEMMA DoneStaysOnTape ==
    ASSUME TypeInv, TypeInv', DoneIsOnTape, DoneKept, TapeGrows,
           pc' = "credit" => UNCHANGED <<pc, batch, at>>
    PROVE  DoneIsOnTape'
<1> SUFFICES ASSUME NEW j \in Job, NEW i \in Label(j)
             PROVE  (\/ acc[j].done[i] + Owed(j, i) <= tape[j][i]
                     \/ tape[j][i] > Copies(j, i)
                     \/ <<j, i>> \in lost)'
  BY DEF DoneIsOnTape
<1>1. /\ i \in Index /\ tape[j][i] \in Nat /\ tape'[j][i] \in Nat
      /\ acc[j].done[i] \in Nat /\ Copies(j, i) \in Nat /\ Owed(j, i) \in Nat
  BY LabelFacts, CountTypes, CountTypesNext, OwedType
<1>2. acc'[j].done[i] \in {acc[j].done[i], 0}
  BY <1>1 DEF DoneKept, Zero
<1>3. Owed(j, i)' \in {Owed(j, i), 0}
  BY DEF Owed
<1>4. \/ acc[j].done[i] + Owed(j, i) <= tape[j][i]
      \/ tape[j][i] > Copies(j, i)
      \/ <<j, i>> \in lost
  BY DEF DoneIsOnTape
<1>5. /\ tape'[j][i] >= tape[j][i] \/ tape'[j][i] > Copies(j, i)
      /\ lost \subseteq lost'
  BY DEF TapeGrows
<1>6. Copies(j, i)' = Copies(j, i)
  BY DEF Copies
<1> QED
  BY <1>1, <1>2, <1>3, <1>4, <1>5, <1>6

LEMMA HeldKept ==
    ASSUME HeldAreSound, CopiesPassed,
           Sound \subseteq Sound', \A j \in Job : SoundLabels(j) \subseteq SoundLabels(j)'
    PROVE  HeldAreSound'
<1>1. pending' \in Seq(Sound') /\ batch' \in Seq(Sound')
  <2>1. pending \in Seq(Sound') /\ batch \in Seq(Sound') /\ <<>> \in Seq(Sound')
    BY SeqMonotonic, EmptySeq DEF HeldAreSound
  <2> QED
    BY <2>1 DEF CopiesPassed
<1>2. ASSUME cur' \in Job, pc' # "submit"
      PROVE  todo' \in Seq(SoundLabels(cur)')
  <2>1. CASE todo' = <<>>
    BY <2>1, EmptySeq
  <2>2. CASE UNCHANGED <<cur, todo>> /\ pc # "submit"
    <3>1. cur \in Job /\ todo \in Seq(SoundLabels(cur))
      BY <1>2, <2>2 DEF HeldAreSound
    <3>2. SoundLabels(cur) \subseteq SoundLabels(cur)'
      <4>1. \A j \in Job : j = cur' => SoundLabels(j)' = SoundLabels(cur)'
        BY DEF SoundLabels, IsExpected, NotYetRendered, Label, Copies, KeyOf
      <4> QED
        BY <2>2, <3>1, <4>1
    <3> QED
      BY <2>2, <3>1, <3>2, SeqMonotonic
  <2> QED
    BY <1>2, <2>1, <2>2, JobAssumption DEF CopiesPassed
<1> QED
  BY <1>1, <1>2 DEF HeldAreSound

LEMMA QuietKeeps ==
    ASSUME TypeInv, TypeInv', TapeInv, TalliesKept, RenderEnds, TapeGrows,
           UNCHANGED printed,
           pc' = "credit" => UNCHANGED <<pc, batch, at>>,
           pc' = "render" => UNCHANGED <<pc, label>>
    PROVE  /\ CommittedOnTape' /\ DoneIsOnTape' /\ RenderStarted'
           /\ Sound \subseteq Sound'
           /\ \A j \in Job : SoundLabels(j) \subseteq SoundLabels(j)'
<1> USE DEF TapeInv
<1>1. CommittedOnTape'
  BY OnTapeKept DEF TypeInv, TypeOK
<1>2. DoneIsOnTape'
  BY DoneStaysOnTape DEF TalliesKept
<1>3. RenderStarted'
  BY DEF RenderStarted
<1> QED
  BY <1>1, <1>2, <1>3, SoundStays

LEMMA CalmKeeps ==
    ASSUME TypeInv, TypeInv', TapeInv, CalmStep
    PROVE  TapeInv'
<1>1. HeldAreSound
  BY DEF TapeInv
<1>2. HeldAreSound'
  BY <1>1, QuietKeeps, HeldKept DEF CalmStep
<1> QED
  BY <1>2, QuietKeeps DEF CalmStep, TapeInv

-----------------------------------------------------------------------------
(***************************************************************************)
(* The steps that are calm.                                                *)
(***************************************************************************)

LEMMA SameTapeGrows ==
    ASSUME TypeInv, UNCHANGED <<tape, lost>>
    PROVE  TapeGrows
<1>1. ASSUME NEW j \in Job, NEW i \in Label(j)
      PROVE  tape[j][i] >= tape[j][i]
  <2>1. tape[j][i] \in Nat
    BY LabelFacts DEF TypeInv, TypeOK
  <2> QED
    BY <2>1
<1> QED
  BY <1>1 DEF TapeGrows

LEMMA TalliesForgotten ==
    ASSUME TypeInv,
           \/ UNCHANGED acc
           \/ \E jobs \in SUBSET Job :
                 acc' = [j \in Job |-> IF j \in jobs THEN NoTally ELSE acc[j]]
           \/ \E j \in Job : acc' = [acc EXCEPT ![j] = NoTally]
    PROVE  TalliesKept
<1>1. \A j \in Job : acc'[j] \in {acc[j], NoTally}
  <2>1. acc \in [Job -> Tally]
    BY DEF TypeInv, TypeOK
  <2> QED
    BY <2>1
<1>2. ~NoTally.live /\ NoTally.done = Zero
  BY DEF NoTally
<1> QED
  BY <1>1, <1>2 DEF TalliesKept, DoneKept, ExpectKept

LEMMA ForgetCalm ==
    ASSUME TypeInv, Forget, UNCHANGED printed, TapeGrows
    PROVE  CalmStep
<1>1. acc' = [j \in Job |-> IF j \in Job THEN NoTally ELSE acc[j]]
  BY DEF Forget
<1>2. TalliesKept
  BY <1>1, TalliesForgotten
<1>3. \A j \in Job : ~acc'[j].live
  BY DEF Forget, NoTally
<1> QED
  BY <1>2, <1>3 DEF CalmStep, Forget, NoSend, RenderEnds, CopiesPassed

LEMMA LoopCalm == TypeInv /\ Loop => CalmStep
<1> SUFFICES ASSUME TypeInv, Loop PROVE CalmStep
  OBVIOUS
<1>1. CASE Exit
  <2>1. TapeGrows
    BY <1>1, SameTapeGrows DEF Exit
  <2> QED
    BY <1>1, <2>1, ForgetCalm DEF Exit
<1>2. ASSUME Loop, ~Exit
      PROVE  /\ UNCHANGED <<acc, printed, tape, lost>>
             /\ pc \notin {"render", "submit"} /\ pc' \notin {"credit", "render"}
             /\ CopiesPassed
  BY <1>2 DEF Loop, Boot, ScanDone, PollDone, GetJob, GetFlush, Tick, RetryQueued,
              Shutdown, Resubmit, Goto, CopiesPassed, SendStrip
<1> QED
  BY <1>1, <1>2, TalliesForgotten, SameTapeGrows DEF CalmStep, RenderEnds

LEMMA WorldCalm == TypeInv /\ World => CalmStep
<1> SUFFICES ASSUME TypeInv, World PROVE CalmStep
  OBVIOUS
<1>1. CASE Crash
  <2>1. TapeGrows
    BY <1>1, SameTapeGrows, PrintedTapeGrows DEF Crash
  <2> QED
    BY <1>1, <2>1, ForgetCalm DEF Crash
<1>2. ASSUME World, ~Crash
      PROVE  /\ UNCHANGED <<acc, printed, tape, lost, pc, cur, label, at>>
             /\ CopiesPassed /\ UNCHANGED batch
  BY <1>2 DEF World, PollFile, Deliver, GapPasses, Insert, Enqueue, FlushCommand, Stop,
              CopiesPassed
<1> QED
  BY <1>1, <1>2, TalliesForgotten, SameTapeGrows DEF CalmStep, RenderEnds

LEMMA MaybeFinalizeForgets ==
    ASSUME TypeInv, NEW j \in Job, MaybeFinalize(j) \/ Finalize(j)
    PROVE  TalliesKept /\ UNCHANGED printed
<1>1. UNCHANGED printed
  BY DEF MaybeFinalize, Finalize, Finish
<1>2. UNCHANGED acc \/ acc' = [acc EXCEPT ![j] = NoTally]
  BY DEF MaybeFinalize, Finalize
<1> QED
  BY <1>1, <1>2, TalliesForgotten

CalmSubmit == \/ Reject \/ NothingToPrint \/ StartPrinting
              \/ FlushJob \/ Buffered \/ FlushBefore \/ DiscreteDone

LEMMA SubmitCalm == TypeInv /\ CalmSubmit => CalmStep
<1> SUFFICES ASSUME TypeInv, CalmSubmit PROVE CalmStep
  OBVIOUS
<1>1. TapeGrows
  BY SameTapeGrows DEF CalmSubmit, Reject, NothingToPrint, StartPrinting, FlushJob,
                       Buffered, FlushBefore, DiscreteDone
<1>2. TalliesKept /\ UNCHANGED printed
  <2>1. CASE Reject
    BY <2>1, TalliesForgotten DEF Reject, Finish
  <2>2. CASE StartPrinting \/ FlushJob \/ FlushBefore
    BY <2>2, TalliesForgotten DEF StartPrinting, FlushJob, FlushBefore
  <2>3. CASE NothingToPrint \/ Buffered \/ DiscreteDone
    <3>1. cur \in Job
      BY <2>3 DEF NothingToPrint, Buffered, DiscreteDone, TypeInv, CurOK
    <3> QED
      BY <2>3, <3>1, MaybeFinalizeForgets DEF NothingToPrint, Buffered, DiscreteDone
  <2> QED
    BY <2>1, <2>2, <2>3 DEF CalmSubmit
<1>3. RenderEnds /\ pc' \notin {"credit", "render"}
  BY ReturnType
  DEF CalmSubmit, Reject, NothingToPrint, StartPrinting, FlushJob, Buffered,
      FlushBefore, DiscreteDone, EndSubmit, Return, Goto, RenderEnds
<1>4. CopiesPassed
  BY DEF CalmSubmit, Reject, NothingToPrint, StartPrinting, FlushJob, Buffered,
      FlushBefore, DiscreteDone, EndSubmit, Goto, CopiesPassed, SendStrip
<1> QED
  BY <1>1, <1>2, <1>3, <1>4 DEF CalmStep

CalmSend == \/ ConnectOk \/ ConnectRetry \/ ConnectFailed \/ FrameTorn
            \/ NoTallyToCredit \/ Accounted \/ SettleJob \/ Settled

LEMMA SendCalm == TypeInv /\ CalmSend => CalmStep
<1> SUFFICES ASSUME TypeInv, CalmSend PROVE CalmStep
  OBVIOUS
<1>1. TapeGrows
  <2>1. CASE FrameTorn
    BY <2>1, PrintedTapeGrows DEF FrameTorn
  <2>2. CASE ~FrameTorn
    BY <2>2, SameTapeGrows DEF CalmSend, ConnectOk, ConnectRetry, ConnectFailed,
       NoTallyToCredit, Accounted, SettleJob, Settled
  <2> QED
    BY <2>1, <2>2
<1>2. TalliesKept /\ UNCHANGED printed
  <2>1. CASE ConnectFailed
    <3>1. JobsOf(batch) \in SUBSET Job
      BY JobsOfType DEF TypeInv, TypeOK
    <3> QED
      BY <2>1, <3>1, TalliesForgotten DEF ConnectFailed, Stall, Requeue
  <2>2. CASE SettleJob
    <3>1. batch[at] \in Item
      BY <2>2 DEF SettleJob, TypeInv, TypeOK
    <3> QED
      BY <2>2, <3>1, MaybeFinalizeForgets DEF SettleJob, Item
  <2>3. CASE ~ConnectFailed /\ ~SettleJob
    BY <2>3, TalliesForgotten DEF CalmSend, ConnectOk, ConnectRetry, FrameTorn,
       NoTallyToCredit, Accounted, Settled
  <2> QED
    BY <2>1, <2>2, <2>3
<1>3. pc # "render" /\ pc' \notin {"credit", "render"}
  BY ReturnType
  DEF CalmSend, ConnectOk, ConnectRetry, ConnectFailed, FrameTorn, NoTallyToCredit,
      Accounted, SettleJob, Settled, ResumeFlush, EndSubmit, Return, Goto
<1>4. CopiesPassed
  BY DEF CalmSend, ConnectOk, ConnectRetry, ConnectFailed, FrameTorn, NoTallyToCredit,
      Accounted, SettleJob, Settled, ResumeFlush, EndSubmit, NoSend, CopiesPassed
<1> QED
  BY <1>1, <1>2, <1>3, <1>4 DEF CalmStep, RenderEnds

-----------------------------------------------------------------------------
(***************************************************************************)
(* The steps that are not: a tally is opened or filled, a copy moves on,   *)
(* a frame comes out whole and is credited.                                *)
(***************************************************************************)
LEMMA AcceptKeeps ==
    ASSUME TypeInv, TypeInv', TapeInv, Accept
    PROVE  TapeInv'
<1>1. /\ cur \in Job /\ pc = "submit" /\ pc' = "render" /\ label' = 1
      /\ acc' = [acc EXCEPT ![cur] = NewTally]
      /\ UNCHANGED <<printed, tape, lost, cur, pending, batch>> /\ todo' = <<>>
  BY DEF Accept, Mark, Goto, TypeInv, CurOK
<1>2. \A j \in Job : acc'[j] = IF j = cur THEN NewTally ELSE acc[j]
  BY <1>1 DEF TypeInv, TypeOK
<1>3. CommittedOnTape' /\ DoneIsOnTape'
  <2>1. TapeGrows /\ tape' \in [Job -> [Index -> Nat]]
    BY <1>1, SameTapeGrows DEF TypeInv, TypeOK
  <2>2. DoneKept
    BY <1>2 DEF DoneKept, NewTally, NoTally
  <2> QED
    BY <1>1, <2>1, <2>2, OnTapeKept, DoneStaysOnTape DEF TapeInv
<1>4. Sound \subseteq Sound'
  <2>1. ASSUME NEW j \in Job, NEW i \in SoundLabels(j)
        PROVE  i \in SoundLabels(j)'
    <3>1. CASE j = cur
      <4>1. 1 <= i
        BY LabelFacts DEF SoundLabels, Label, Envelope
      <4> QED
        BY <1>1, <3>1, <4>1 DEF SoundLabels, IsExpected, NotYetRendered
    <3>2. CASE j # cur
      BY <1>1, <1>2, <3>2 DEF SoundLabels, IsExpected, NotYetRendered
    <3> QED
      BY <3>1, <3>2
  <2> QED
    BY <2>1 DEF Sound, Item
<1>5. HeldAreSound'
  BY <1>1, <1>4, SeqMonotonic, EmptySeq DEF HeldAreSound, TapeInv
<1> QED
  BY <1>1, <1>3, <1>5 DEF TapeInv, RenderStarted

LEMMA AddLabelKeeps ==
    ASSUME TypeInv, TypeInv', TapeInv, AddLabel \/ SendLabel
    PROVE  TapeInv'
<1>1. /\ cur \in Job /\ pc \in {"strip", "discrete"} /\ pc' \in {"strip", "connect"}
      /\ UNCHANGED <<acc, printed, tape, lost, cur>>
      /\ todo' = Tail(todo) /\ todo # <<>>
  BY DEF AddLabel, SendLabel, Goto, TypeInv, CurOK
<1>2. TalliesKept /\ RenderEnds /\ TapeGrows
  BY <1>1, TalliesForgotten, SameTapeGrows DEF RenderEnds
<1>3. /\ CommittedOnTape' /\ DoneIsOnTape' /\ RenderStarted'
      /\ Sound \subseteq Sound'
      /\ \A j \in Job : SoundLabels(j) \subseteq SoundLabels(j)'
  BY <1>1, <1>2, QuietKeeps
<1>4. todo \in Seq(SoundLabels(cur)) /\ pending \in Seq(Sound) /\ batch \in Seq(Sound)
  BY <1>1 DEF TapeInv, HeldAreSound
<1>5. Head(todo) \in SoundLabels(cur) /\ Tail(todo) \in Seq(SoundLabels(cur))
  BY <1>1, <1>4, HeadTailProperties
<1>6. <<cur, Head(todo)>> \in Sound
  BY <1>1, <1>5, LabelFacts DEF Sound, SoundLabels
<1>7. Append(pending, <<cur, Head(todo)>>) \in Seq(Sound)
      /\ <<<<cur, Head(todo)>>>> \in Seq(Sound) /\ <<>> \in Seq(Sound)
  BY <1>4, <1>6, AppendProperties
<1>8. pending' \in Seq(Sound) /\ batch' \in Seq(Sound)
  BY <1>4, <1>7 DEF AddLabel, SendLabel, SendStrip
<1>9. pending' \in Seq(Sound') /\ batch' \in Seq(Sound')
  BY <1>3, <1>8, SeqMonotonic
<1>10. todo' \in Seq(SoundLabels(cur)')
  <2>1. SoundLabels(cur)' = SoundLabels(cur)
    BY <1>1 DEF SoundLabels, IsExpected, NotYetRendered
  <2> QED
    BY <1>1, <1>5, <2>1
<1> QED
  BY <1>3, <1>9, <1>10 DEF TapeInv, HeldAreSound

LEMMA FrameOkKeeps ==
    ASSUME TypeInv, TypeInv', TapeInv, FrameOk
    PROVE  TapeInv'
<1>0. PICK k \in 0..Len(batch) :
         /\ tape' = Printed(k)
         /\ lost' = lost \cup {batch[n] : n \in (k + 1)..Len(batch)}
  BY DEF FrameOk
<1>1. /\ pc = "frame" /\ pc' = "credit" /\ at' = 1
      /\ UNCHANGED <<acc, printed, batch, pending, cur, todo>>
      /\ batch \in Seq(Item) /\ lost \subseteq lost'
  BY <1>0 DEF FrameOk, Goto, TypeInv, TypeOK
<1>2. TalliesKept /\ RenderEnds /\ TapeGrows
  BY <1>0, <1>1, TalliesForgotten, PrintedTapeGrows DEF RenderEnds
<1>3. HeldAreSound'
  <2>1. CopiesPassed
    BY <1>1 DEF CopiesPassed
  <2> QED
    BY <1>1, <1>2, <2>1, SoundStays, HeldKept DEF TapeInv
<1>4. CommittedOnTape'
  BY <1>1, <1>2, OnTapeKept DEF TapeInv, TypeInv, TypeOK
<1>5. DoneIsOnTape'
  <2> SUFFICES ASSUME NEW j \in Job, NEW i \in Label(j)
               PROVE  (\/ acc[j].done[i] + Owed(j, i) <= tape[j][i]
                       \/ tape[j][i] > Copies(j, i)
                       \/ <<j, i>> \in lost)'
    BY DEF DoneIsOnTape
  <2>0. CASE <<j, i>> \in lost'
    BY <2>0
  <2> SUFFICES ASSUME <<j, i>> \notin lost'
               PROVE  (\/ acc[j].done[i] + Owed(j, i) <= tape[j][i]
                       \/ tape[j][i] > Copies(j, i))'
    BY <2>0
  <2> DEFINE c == Occurs(<<j, i>>, SubSeq(batch, 1, k))
  <2>1. i \in Index /\ Copies(j, i) \in Nat /\ Copies(j, i)' = Copies(j, i)
    BY LabelFacts DEF Copies
  <2>2. /\ tape[j][i] \in Nat /\ tape'[j][i] \in Nat
        /\ acc[j].done[i] \in Nat /\ c \in Nat
    BY <1>1, CountTypes, CountTypesNext, OccursType
  <2>3. Owed(j, i)' = c
    <3>1. \A n \in DOMAIN batch : batch[n] = <<j, i>> => n \in 1..k
      BY <1>0, <1>1
    <3>2. From(<<j, i>>, batch, 1)
            = {n \in DOMAIN SubSeq(batch, 1, k) : SubSeq(batch, 1, k)[n] = <<j, i>>}
      BY <1>1, <3>1, SubSeqProperties DEF From
    <3> QED
      BY <1>1, <3>2 DEF Owed, Occurs
  <2>4. Owed(j, i) = 0
    BY <1>1 DEF Owed
  <2>5. tape'[j][i] = tape[j][i] + c \/ tape'[j][i] > Copies(j, i)
    BY <1>0, PrintedGrows
  <2>6. acc[j].done[i] + 0 <= tape[j][i] \/ tape[j][i] > Copies(j, i)
    BY <1>1, <2>4 DEF TapeInv, DoneIsOnTape
  <2> HIDE DEF c
  <2> QED
    BY <1>1, <2>1, <2>2, <2>3, <2>5, <2>6
<1> QED
  BY <1>1, <1>3, <1>4, <1>5 DEF TapeInv, RenderStarted

LEMMA RenderKeeps ==
    ASSUME TypeInv, TypeInv', TapeInv, RenderLabel
    PROVE  TapeInv'
<1>1. /\ cur \in Job /\ pc = "render" /\ pc' = "render" /\ label' = label + 1
      /\ label \in Label(cur) /\ label \in Index /\ label \in Nat
      /\ UNCHANGED <<printed, tape, lost, cur, pending, batch>>
      /\ todo \in Seq(SoundLabels(cur))
  BY LabelFacts
  DEF RenderLabel, Settle, QueueCopies, RecordDedupe, TypeInv, TypeOK, CurOK,
      TapeInv, HeldAreSound
<1> DEFINE c == Copies(cur, label)
<1>2. /\ c \in Nat /\ <<cur, label>> \in Item
      /\ \/ /\ Expects(cur, label, c) /\ Contract[cur].labels[label].renders
            /\ todo' = todo \o [n \in 1..c |-> label]
         \/ /\ todo' = todo
            /\ \E s \in LabelState : acc' = [acc EXCEPT ![cur].render[label] = s]
            /\ \/ label \in printed[cur]
               \/ KeyOf(cur, label) # NoKey
               \/ ~Contract[cur].labels[label].renders
  <2>1. c \in Nat /\ <<cur, label>> \in Item
    BY <1>1, LabelFacts
  <2>2. KeyOf(cur, label) \in dedupe => KeyOf(cur, label) # NoKey
    BY KeyAssumption DEF TypeInv, TypeOK, SpoolTypeOK
  <2>3. \/ QueueCopies(label) /\ Contract[cur].labels[label].renders
        \/ /\ \E s \in LabelState : Settle(label, s)
           /\ \/ label \in printed[cur]
              \/ KeyOf(cur, label) \in dedupe
              \/ ~Contract[cur].labels[label].renders
    BY DEF RenderLabel, PrintedLabels, LabelState
  <2> QED
    BY <2>1, <2>2, <2>3 DEF QueueCopies, Expects, Settle
<1> HIDE DEF c
<1>3. ASSUME NEW j \in Job
      PROVE  /\ acc'[j].live = acc[j].live /\ acc'[j].done = acc[j].done
             /\ \A n \in Index : acc'[j].expected[n] =
                   IF /\ j = cur /\ n = label /\ Expects(cur, label, c)
                   THEN c ELSE acc[j].expected[n]
  <2>1. CASE Expects(cur, label, c)
    <3>1. TallyTypeOK
      BY DEF TypeInv, TypeOK, TallyTypeOK
    <3> QED
      BY <1>1, <1>2, <2>1, <3>1, ExpectedUpdate
  <2>2. ASSUME ~Expects(cur, label, c), NEW s \in LabelState,
               acc' = [acc EXCEPT ![cur].render[label] = s]
        PROVE  /\ acc'[j].live = acc[j].live /\ acc'[j].done = acc[j].done
               /\ acc'[j].expected = acc[j].expected
    <3>1. acc \in [Job -> Tally]
      BY DEF TypeInv, TypeOK
    <3> QED
      BY <1>1, <2>2, <3>1 DEF Tally
  <2> QED
    BY <1>2, <2>1, <2>2
<1>4. CommittedOnTape' /\ DoneIsOnTape'
  <2>1. TapeGrows /\ tape' \in [Job -> [Index -> Nat]] /\ DoneKept
    BY <1>1, <1>3, SameTapeGrows DEF TypeInv, TypeOK, DoneKept
  <2> QED
    BY <1>1, <2>1, OnTapeKept, DoneStaysOnTape DEF TapeInv
<1>5. ASSUME NEW j \in Job, NEW i \in SoundLabels(j)
      PROVE  i \in SoundLabels(j)'
  <2>1. i \in Label(j) /\ i \in Index /\ i \in Nat
    BY LabelFacts DEF SoundLabels, Label, Envelope
  <2>2. CASE j = cur /\ i = label
    BY <1>1, <1>2, <1>3, <2>1, <2>2 DEF SoundLabels, IsExpected, c
  <2>3. CASE ~(j = cur /\ i = label)
    <3>1. acc'[j].live = acc[j].live /\ acc'[j].expected[i] = acc[j].expected[i]
      BY <1>3, <2>1, <2>3
    <3>2. NotYetRendered(j, i) => NotYetRendered(j, i)'
      BY <1>1, <2>1, <2>3 DEF NotYetRendered
    <3> QED
      BY <1>1, <3>1, <3>2 DEF SoundLabels, IsExpected
  <2> QED
    BY <2>2, <2>3
<1>6. Sound \subseteq Sound' /\ SoundLabels(cur) \subseteq SoundLabels(cur)'
  <2>1. SoundLabels(cur) \subseteq SoundLabels(cur)'
    <3>1. \A j \in Job : j = cur' => SoundLabels(j)' = SoundLabels(cur)'
      BY DEF SoundLabels, IsExpected, NotYetRendered, Label, Copies, KeyOf
    <3> QED
      BY <1>1, <1>5, <3>1
  <2> QED
    BY <1>5, <2>1 DEF Sound, Item
<1>7. todo' \in Seq(SoundLabels(cur)')
  <2>1. todo \in Seq(SoundLabels(cur)')
    BY <1>1, <1>6, SeqMonotonic
  <2>2. CASE Expects(cur, label, c) /\ Contract[cur].labels[label].renders
             /\ todo' = todo \o [n \in 1..c |-> label]
    <3>1. label \in SoundLabels(cur)'
      <4>1. acc'[cur].expected[label] = c
        BY <1>1, <1>3, <2>2
      <4> QED
        BY <1>1, <2>2, <4>1 DEF SoundLabels, IsExpected, c
    <3>2. [n \in 1..c |-> label] \in Seq(SoundLabels(cur)')
      BY <1>2, <3>1, RepeatType
    <3> QED
      BY <2>1, <2>2, <3>2, ConcatProperties
  <2> QED
    BY <1>2, <2>1, <2>2
<1>8. HeldAreSound'
  BY <1>1, <1>6, <1>7, SeqMonotonic DEF HeldAreSound, TapeInv
<1> QED
  BY <1>1, <1>4, <1>8 DEF TapeInv, RenderStarted

LEMMA CreditKeeps ==
    ASSUME TypeInv, TypeInv', TapeInv, pc = "credit", Account
    PROVE  TapeInv'
<1> DEFINE j == batch[at][1]
           i == batch[at][2]
<1>1. /\ at \in DOMAIN batch /\ at' = at + 1 /\ acc[j].live /\ CreditCopy(j, i)
      /\ UNCHANGED <<tape, lost, pc, batch, pending, cur, label, todo>>
      /\ batch \in Seq(Item)
  BY DEF Account, TypeInv, TypeOK
<1>2. batch[at] = <<j, i>> /\ j \in Job /\ i \in SoundLabels(j) /\ i \in Label(j) /\ i \in Index
  <2>1. batch[at] \in Sound
    BY <1>1 DEF TapeInv, HeldAreSound
  <2> QED
    BY <2>1, LabelFacts DEF Sound, SoundLabels, Item
<1> HIDE DEF j, i
<1>3. Credits(j, i) /\ TallyTypeOK
  BY <1>1 DEF CreditCopy, Credits, TypeInv, TypeOK, TallyTypeOK
<1>4. ASSUME NEW k \in Job, NEW n \in Index
      PROVE  /\ acc'[k].expected = acc[k].expected /\ acc'[k].live = acc[k].live
             /\ acc'[k].done[n] = IF k = j /\ n = i THEN acc[k].done[n] + 1
                                  ELSE acc[k].done[n]
  BY <1>2, <1>3, DoneUpdate
<1>5. DoneIsOnTape'
  <2> SUFFICES ASSUME NEW k \in Job, NEW n \in Label(k)
               PROVE  (\/ acc[k].done[n] + Owed(k, n) <= tape[k][n]
                       \/ tape[k][n] > Copies(k, n)
                       \/ <<k, n>> \in lost)'
    BY DEF DoneIsOnTape
  <2>1. n \in Index /\ Copies(k, n) \in Nat /\ Copies(k, n)' = Copies(k, n)
    BY LabelFacts DEF Copies
  <2>2. acc[k].done[n] \in Nat /\ acc'[k].done[n] \in Nat
    BY CountTypes, CountTypesNext
  <2>3. Owed(k, n) \in Nat /\ Owed(k, n)' \in Nat
    BY <2>1, OwedType, CountTypesNext
  <2>4. Owed(k, n) = Owed(k, n)' + (IF k = j /\ n = i THEN 1 ELSE 0)
    <3>1. Cardinality(From(<<k, n>>, batch, at)) =
             Cardinality(From(<<k, n>>, batch, at + 1))
                + (IF batch[at] = <<k, n>> THEN 1 ELSE 0)
      BY <1>1, FromStep
    <3>2. batch[at] = <<k, n>> <=> k = j /\ n = i
      BY <1>2
    <3> QED
      BY <1>1, <3>1, <3>2 DEF Owed
  <2>5. acc'[k].done[n] + Owed(k, n)' = acc[k].done[n] + Owed(k, n)
    BY <1>4, <2>1, <2>2, <2>3, <2>4
  <2> QED
    BY <1>1, <2>1, <2>5 DEF TapeInv, DoneIsOnTape
<1>6. CommittedOnTape' /\ \A k \in Job : printed[k] \subseteq printed'[k]
  <2>1. CASE UNCHANGED printed
    BY <1>1, <2>1, SameTapeGrows, OnTapeKept DEF TapeInv, TypeInv, TypeOK
  <2>2. CASE ~UNCHANGED printed
    <3>1. /\ printed' = [printed EXCEPT ![j] = @ \cup {i}]
          /\ acc[j].done[i] + 1 >= acc[j].expected[i]
      BY <1>1, <2>2 DEF CreditCopy, LabelPrinted
    <3>2. i \notin printed[j]
      <4>1. printed \in [Job -> SUBSET Index]
        BY DEF TypeInv, TypeOK, SpoolTypeOK
      <4> QED
        BY <1>2, <2>2, <3>1, <4>1
    <3>3. acc[j].expected[i] = Copies(j, i) \/ KeyOf(j, i) # NoKey
      BY <1>1, <1>2, <3>2 DEF SoundLabels, IsExpected, NotYetRendered
    <3>4. \/ tape[j][i] >= acc[j].done[i] + 1 \/ tape[j][i] > Copies(j, i)
          \/ <<j, i>> \in lost
      <4>1. Owed(j, i) >= 1
        <5>1. Cardinality(From(<<j, i>>, batch, at)) =
                Cardinality(From(<<j, i>>, batch, at + 1)) + 1
          BY <1>1, <1>2, FromStep
        <5>2. Cardinality(From(<<j, i>>, batch, at + 1)) \in Nat
          BY <1>1, FromIsFinite
        <5> QED
          BY <5>1, <5>2 DEF Owed
      <4>2. acc[j].done[i] \in Nat /\ tape[j][i] \in Nat
        BY <1>2, CountTypes
      <4>3. \/ acc[j].done[i] + Owed(j, i) <= tape[j][i]
            \/ tape[j][i] > Copies(j, i)
            \/ <<j, i>> \in lost
        BY <1>2 DEF TapeInv, DoneIsOnTape
      <4> QED
        BY <1>2, <4>1, <4>2, <4>3, OwedType
    <3>5. tape[j][i] >= AsAsked(j, i) \/ <<j, i>> \in lost
      <4>1. acc[j].done[i] \in Nat /\ tape[j][i] \in Nat /\ Copies(j, i) \in Nat \ {0}
        BY <1>2, CountTypes
      <4> QED
        BY <3>1, <3>3, <3>4, <4>1 DEF AsAsked
    <3>6. \A k \in Job : printed'[k] = IF k = j THEN printed[k] \cup {i} ELSE printed[k]
      BY <3>1 DEF TypeInv, TypeOK, SpoolTypeOK
    <3> QED
      BY <1>1, <1>2, <3>5, <3>6 DEF TapeInv, CommittedOnTape, AsAsked
  <2> QED
    BY <2>1, <2>2
<1>7. Sound \subseteq Sound' /\ SoundLabels(cur)' = SoundLabels(cur)'
  <2>1. ASSUME NEW k \in Job, NEW n \in SoundLabels(k)
        PROVE  n \in SoundLabels(k)'
    <3>1. n \in Index
      BY LabelFacts DEF SoundLabels
    <3> QED
      BY <1>1, <1>4, <1>6, <3>1 DEF SoundLabels, IsExpected, NotYetRendered
  <2> QED
    BY <2>1 DEF Sound, Item
<1>8. TapeInv'
  <2>1. pending' \in Seq(Sound') /\ batch' \in Seq(Sound')
    BY <1>1, <1>7, SeqMonotonic DEF TapeInv, HeldAreSound
  <2>2. ASSUME cur \in Job
        PROVE  todo' \in Seq(SoundLabels(cur)')
    <3>1. todo \in Seq(SoundLabels(cur))
      BY <1>1, <2>2 DEF TapeInv, HeldAreSound
    <3>2. SoundLabels(cur) \subseteq SoundLabels(cur)'
      <4>1. ASSUME NEW n \in SoundLabels(cur)
            PROVE  n \in SoundLabels(cur)'
        <5>1. n \in Index
          BY <2>2, LabelFacts DEF SoundLabels
        <5> QED
          BY <1>1, <1>4, <1>6, <2>2, <5>1 DEF SoundLabels, IsExpected, NotYetRendered
      <4> QED
        BY <4>1
    <3> QED
      BY <1>1, <3>1, <3>2, SeqMonotonic
  <2> QED
    BY <1>1, <1>5, <1>6, <2>1, <2>2 DEF TapeInv, HeldAreSound, RenderStarted
<1> QED
  BY <1>8

LEMMA FailKeeps ==
    ASSUME TypeInv, TypeInv', TapeInv, pc = "fail", Account
    PROVE  TapeInv'
<1> DEFINE j == batch[at][1]
           i == batch[at][2]
<1>1. /\ at \in DOMAIN batch /\ FailCopy(j, i)
      /\ UNCHANGED <<spoolVars, tape, lost, pc, batch, pending, cur, label, todo>>
  BY DEF Account, FailCopy
<1>2. j \in Job /\ i \in Index /\ TallyTypeOK
  <2>1. batch[at] \in Item
    BY <1>1 DEF TypeInv, TypeOK
  <2> QED
    BY <2>1 DEF Item, TypeInv, TypeOK, TallyTypeOK
<1> HIDE DEF j, i
<1>3. TalliesKept
  BY <1>1, <1>2, FailedUpdate DEF TalliesKept, DoneKept, ExpectKept
<1>4. CalmStep
  BY <1>1, <1>3, SameTapeGrows DEF CalmStep, RenderEnds, CopiesPassed
<1> QED
  BY <1>4, CalmKeeps

LEMMA TapeStep == TypeInv /\ TapeInv /\ [Next]_vars => TapeInv'
<1> SUFFICES ASSUME TypeInv, TapeInv, [Next]_vars PROVE TapeInv'
  OBVIOUS
<1>0. TypeInv'
  BY TypeStep
<1>1. CASE Loop
  BY <1>0, <1>1, LoopCalm, CalmKeeps
<1>2. CASE Submit
  BY <1>0, <1>2, SubmitCalm, CalmKeeps, AcceptKeeps, RenderKeeps, AddLabelKeeps
  DEF Submit, CalmSubmit
<1>3. CASE Send
  <2>1. Account => pc \in {"credit", "fail"}
    BY DEF Account
  <2> QED
    BY <1>0, <1>3, <2>1, SendCalm, CalmKeeps, FrameOkKeeps, CreditKeeps, FailKeeps
    DEF Send, CalmSend
<1>4. CASE World
  BY <1>0, <1>4, WorldCalm, CalmKeeps
<1>5. CASE UNCHANGED vars
  BY <1>5 DEF vars, TapeInv, CommittedOnTape, AsAsked, DoneIsOnTape, Owed, HeldAreSound,
              Sound, SoundLabels, IsExpected, NotYetRendered, RenderStarted
<1> QED
  BY <1>1, <1>2, <1>3, <1>4, <1>5 DEF Next

LEMMA TapeInit == Init => TapeInv
<1> SUFFICES ASSUME Init PROVE TapeInv
  OBVIOUS
<1>1. ASSUME NEW j \in Job, NEW i \in Label(j)
      PROVE  acc[j].done[i] + Owed(j, i) <= tape[j][i]
  BY LabelFacts DEF Init, NoTally, Zero, Owed
<1> QED
  BY <1>1, EmptySeq, JobAssumption
  DEF Init, SpoolInit, TapeInv, CommittedOnTape, DoneIsOnTape, HeldAreSound, RenderStarted

\* In every configuration, and over any stalls, retries, crashes, torn frames
\* and double submissions, a label committed as printed is one of its job's
\* and is on the tape, as often as asked for, or at least once if it is keyed,
\* unless print_raster returned for a frame with it that did not come out.
THEOREM CommittedCameOut == Spec => []CommittedOnTape
<1>1. TapeInv => CommittedOnTape
  BY DEF TapeInv
<1> QED
  BY <1>1, TapeInit, TapeStep, TypeInit, TypeStep, PTL DEF Spec

KeyedOnce == \A j \in Job : \A i \in Label(j) : KeyOf(j, i) # NoKey => Copies(j, i) = 1

\* When no keyed label asks for several copies, a label committed as printed
\* has come out in full, unless a frame with it was lost.
THEOREM CommittedIsComplete == KeyedOnce => (Spec => []CommittedIsPrinted)
<1> SUFFICES ASSUME KeyedOnce PROVE Spec => []CommittedIsPrinted
  OBVIOUS
<1>1. TapeInv => CommittedIsPrinted
  BY DEF TapeInv, CommittedOnTape, CommittedIsPrinted, AsAsked, KeyedOnce
<1> QED
  BY <1>1, TapeInit, TapeStep, TypeInit, TypeStep, PTL DEF Spec

-----------------------------------------------------------------------------
(***************************************************************************)
(* Strips hold no label of a job that is printed label by label, and a     *)
(* frame that is no strip is one label of the job being submitted.         *)
(***************************************************************************)
StripItem == {it \in Item : ~PrintsDiscrete(it[1])}

Sending == pc \in {"connect", "frame", "credit", "fail"}

FrameOf(j) == \E i \in Label(j) : batch = <<<<j, i>>>>

ShapeInv ==
    /\ pending \in Seq(StripItem)
    /\ strip => batch \in Seq(StripItem)
    /\ pc = "strip" => ~PrintsDiscrete(cur)
    /\ pc = "discrete" => PrintsDiscrete(cur)
    /\ Sending /\ ~strip => PrintsDiscrete(cur) /\ FrameOf(cur)
    /\ pc = "settle" => strip

LEMMA NothingSent ==
    ASSUME NoSend, pc' \notin {"connect", "frame", "credit", "fail", "settle"},
           pending' \in Seq(StripItem),
           pc' = "strip" => ~PrintsDiscrete(cur'),
           pc' = "discrete" => PrintsDiscrete(cur')
    PROVE  ShapeInv'
BY DEF NoSend, ShapeInv, Sending, PrintsDiscrete, AsStrip

LEMMA StripSent ==
    ASSUME ShapeInv, NEW s \in Seq(StripItem), SendStrip(s), pc' = "connect"
    PROVE  ShapeInv'
BY EmptySeq DEF SendStrip, ShapeInv, Sending

LEMMA LoopShape == TypeInv /\ ShapeInv /\ Loop => ShapeInv'
<1> SUFFICES ASSUME TypeInv, ShapeInv, Loop PROVE ShapeInv'
  OBVIOUS
<1>1. CASE SendStrip(pending) /\ pc' = "connect"
  BY <1>1, StripSent DEF ShapeInv
<1>2. CASE Exit
  BY <1>2, EmptySeq, NothingSent DEF Exit, Forget
<1>3. CASE ~Exit /\ ~(SendStrip(pending) /\ pc' = "connect")
  <2>1. /\ UNCHANGED <<pending, batch, strip>>
        /\ pc' \in {"scan", "submit", "retry", "poll", "idle", "connect", "exit"}
        /\ pc' # "connect"
    BY <1>3 DEF Loop, Boot, ScanDone, PollDone, GetJob, GetFlush, Tick, RetryQueued,
                Shutdown, Resubmit, Goto
  <2> QED
    BY <2>1 DEF ShapeInv, Sending
<1> QED
  BY <1>1, <1>2, <1>3

LEMMA SubmitShape == TypeInv /\ ShapeInv /\ Submit => ShapeInv'
<1> SUFFICES ASSUME TypeInv, ShapeInv, Submit PROVE ShapeInv'
  OBVIOUS
<1>1. CASE Reject \/ NothingToPrint \/ Buffered \/ DiscreteDone
  <2>1. /\ UNCHANGED <<pending, batch, strip>>
        /\ pc' \in {"scan", "retry", "exit", "idle"}
    BY <1>1, ReturnType
    DEF Reject, NothingToPrint, Buffered, DiscreteDone, EndSubmit, Return
  <2> QED
    BY <2>1 DEF ShapeInv, Sending
<1>2. CASE Accept \/ RenderLabel \/ StartPrinting
  <2>1. /\ UNCHANGED <<pending, batch, strip, cur>>
        /\ pc' \in {"render", IF PrintsDiscrete(cur) THEN "discrete" ELSE "strip"}
    BY <1>2 DEF Accept, RenderLabel, StartPrinting, Goto
  <2>2. PrintsDiscrete(cur)' = PrintsDiscrete(cur)
    BY <2>1 DEF PrintsDiscrete, AsStrip
  <2> QED
    BY <2>1, <2>2 DEF ShapeInv, Sending
<1>3. CASE FlushJob \/ FlushBefore
  BY <1>3, StripSent DEF FlushJob, FlushBefore, Goto, ShapeInv
<1>4. CASE AddLabel
  <2>1. cur \in Job /\ todo \in Seq(Label(cur)) /\ todo # <<>> /\ pc = "strip"
    BY <1>4 DEF AddLabel, TypeInv, CurOK, TodoOK
  <2>2. <<cur, Head(todo)>> \in StripItem
    BY <2>1, LabelFacts, HeadTailProperties DEF StripItem, ShapeInv
  <2> DEFINE filled == Append(pending, <<cur, Head(todo)>>)
  <2>3. filled \in Seq(StripItem)
    BY <2>2, AppendProperties DEF ShapeInv
  <2>4. \/ SendStrip(filled) /\ pc' = "connect"
        \/ UNCHANGED <<pc, batch, strip, cur>> /\ pending' = filled
    BY <1>4 DEF AddLabel, Goto
  <2> HIDE DEF filled
  <2>5. CASE UNCHANGED <<pc, batch, strip, cur>> /\ pending' = filled
    <3>1. PrintsDiscrete(cur)' = PrintsDiscrete(cur)
      BY <2>5 DEF PrintsDiscrete, AsStrip
    <3> QED
      BY <2>1, <2>3, <2>5, <3>1 DEF ShapeInv, Sending
  <2> QED
    BY <2>3, <2>4, <2>5, StripSent
<1>5. CASE SendLabel
  <2>1. cur \in Job /\ todo \in Seq(Label(cur)) /\ todo # <<>> /\ PrintsDiscrete(cur)
    BY <1>5 DEF SendLabel, TypeInv, CurOK, TodoOK, ShapeInv
  <2>2. /\ batch' = <<<<cur, Head(todo)>>>> /\ ~strip' /\ pc' = "connect"
        /\ UNCHANGED <<cur, pending>> /\ Head(todo) \in Label(cur)
    BY <1>5, <2>1, HeadTailProperties DEF SendLabel, Goto
  <2>3. PrintsDiscrete(cur)' /\ Label(cur)' = Label(cur)
    BY <2>1, <2>2 DEF PrintsDiscrete, AsStrip, Label
  <2> QED
    BY <2>2, <2>3 DEF ShapeInv, Sending, FrameOf
<1> QED
  BY <1>1, <1>2, <1>3, <1>4, <1>5 DEF Submit

LEMMA SendShape == TypeInv /\ ShapeInv /\ Send => ShapeInv'
<1> SUFFICES ASSUME TypeInv, ShapeInv, Send PROVE ShapeInv'
  OBVIOUS
<1>1. CASE ConnectOk \/ ConnectRetry \/ FrameOk \/ FrameTorn \/ Account \/ SettleJob
  <2>1. /\ UNCHANGED <<pending, batch, strip, cur>>
        /\ \/ Sending /\ pc' \in {"connect", "frame", "credit", "fail"}
           \/ pc = "settle" /\ pc' = "settle"
    BY <1>1 DEF ConnectOk, ConnectRetry, FrameOk, FrameTorn, Account, SettleJob, Goto,
                Sending
  <2>2. PrintsDiscrete(cur)' = PrintsDiscrete(cur) /\ FrameOf(cur)' = FrameOf(cur)
    BY <2>1 DEF PrintsDiscrete, AsStrip, FrameOf, Label
  <2> QED
    BY <2>1, <2>2 DEF ShapeInv, Sending
<1>2. CASE Accounted
  <2>1. UNCHANGED <<pending, cur>> /\ Sending
    BY <1>2 DEF Accounted, Sending
  <2>2. PrintsDiscrete(cur)' = PrintsDiscrete(cur)
    BY <2>1 DEF PrintsDiscrete, AsStrip
  <2>3. CASE strip
    BY <1>2, <2>1, <2>3 DEF Accounted, Goto, ShapeInv, Sending
  <2>4. CASE ~strip
    BY <1>2, <2>1, <2>2, <2>4, NothingSent DEF Accounted, Goto, ShapeInv
  <2> QED
    BY <2>3, <2>4
<1>3. CASE ConnectFailed \/ NoTallyToCredit \/ Settled
  <2>1. NoSend /\ UNCHANGED pending
    BY <1>3 DEF ConnectFailed, NoTallyToCredit, Settled, ResumeFlush
  <2>2. \/ pc' \in {"scan", "retry", "exit", "idle"}
        \/ UNCHANGED cur /\ pc' = IF PrintsDiscrete(cur) THEN "discrete" ELSE "strip"
    BY <1>3, ReturnType
    DEF ConnectFailed, NoTallyToCredit, Settled, ResumeFlush, EndSubmit, Return, Goto
  <2>3. UNCHANGED cur => PrintsDiscrete(cur)' = PrintsDiscrete(cur)
    BY DEF PrintsDiscrete, AsStrip
  <2> QED
    BY <2>1, <2>2, <2>3, NothingSent DEF ShapeInv
<1> QED
  BY <1>1, <1>2, <1>3 DEF Send

LEMMA ShapeStep == TypeInv /\ ShapeInv /\ [Next]_vars => ShapeInv'
<1> SUFFICES ASSUME TypeInv, ShapeInv, [Next]_vars PROVE ShapeInv'
  OBVIOUS
<1>1. CASE Crash
  BY <1>1, EmptySeq, NothingSent DEF Crash, Forget
<1>2. CASE (World /\ ~Crash) \/ UNCHANGED vars
  <2>1. UNCHANGED <<pending, batch, strip, cur, pc>>
    BY <1>2 DEF World, PollFile, Deliver, GapPasses, Enqueue, FlushCommand, Stop, vars
  <2>2. PrintsDiscrete(cur)' = PrintsDiscrete(cur) /\ FrameOf(cur)' = FrameOf(cur)
    BY <2>1 DEF PrintsDiscrete, AsStrip, FrameOf, Label
  <2> QED
    BY <2>1, <2>2 DEF ShapeInv, Sending
<1> QED
  BY <1>1, <1>2, LoopShape, SubmitShape, SendShape DEF Next

LEMMA ShapeInit == Init => ShapeInv
BY EmptySeq DEF Init, ShapeInv, Sending

-----------------------------------------------------------------------------
(***************************************************************************)
(* A label of one copy is in the discrete submission's hands once, and not *)
(* when it is committed: in its queue or in its frame, never in both.      *)
(***************************************************************************)
Single(j, i) == PrintsDiscrete(j) /\ Copies(j, i) = 1

TodoOnce ==
    \A n \in DOMAIN todo : Copies(cur, todo[n]) = 1 =>
        /\ todo[n] \notin printed[cur]
        /\ \A m \in DOMAIN todo : todo[m] = todo[n] => m = n
        /\ pc = "render" => todo[n] < label

SubmitsDiscrete == cur \in Job /\ pc # "submit" /\ PrintsDiscrete(cur)

\* The frame is on its way, or whole and not yet credited.
Uncredited == \/ pc \in {"connect", "frame"}
              \/ pc = "credit" /\ at = 1

FrameOnce == \A i \in Label(cur) :
    batch = <<<<cur, i>>>> /\ Copies(cur, i) = 1 =>
        /\ i \notin printed[cur]
        /\ \A n \in DOMAIN todo : todo[n] # i

\* The tally expects no more copies than were asked for.
ExpectBound == \A j \in Job : acc[j].live =>
                  \A i \in Label(j) : acc[j].expected[i] <= Copies(j, i)

OnceInv ==
    /\ SubmitsDiscrete => acc[cur].live /\ TodoOnce
    /\ Uncredited /\ ~strip => FrameOnce
    /\ ExpectBound

\* Steps that touch neither the queue nor the frame of the submission.
LEMMA OnceKept ==
    ASSUME TypeInv, ShapeInv, OnceInv, ExpectKept, UNCHANGED <<cur, todo>>,
           pc = "submit" <=> pc' = "submit", pc' # "render" \/ UNCHANGED <<pc, label>>,
           Uncredited' /\ ~strip' => Uncredited /\ ~strip /\ UNCHANGED batch,
           cur \in Job /\ PrintsDiscrete(cur) =>
              printed'[cur] = printed[cur] /\ acc'[cur].live = acc[cur].live
    PROVE  OnceInv'
<1>1. ExpectBound'
  BY DEF OnceInv, ExpectBound, ExpectKept, Copies, Label
<1>2. /\ PrintsDiscrete(cur)' = PrintsDiscrete(cur) /\ Label(cur)' = Label(cur)
      /\ \A i : Copies(cur, i)' = Copies(cur, i)
  BY DEF PrintsDiscrete, AsStrip, Label, Copies
<1>3. ASSUME SubmitsDiscrete'
      PROVE  acc'[cur'].live /\ TodoOnce'
  <2>1. SubmitsDiscrete
    BY <1>2, <1>3 DEF SubmitsDiscrete
  <2> QED
    BY <1>2, <2>1 DEF OnceInv, TodoOnce, SubmitsDiscrete
<1>4. ASSUME Uncredited', ~strip'
      PROVE  FrameOnce'
  <2>1. Uncredited /\ ~strip /\ FrameOnce /\ UNCHANGED batch
    BY <1>4 DEF OnceInv
  <2>2. cur \in Job /\ PrintsDiscrete(cur)
    BY <2>1 DEF Uncredited, ShapeInv, Sending, TypeInv, CurOK
  <2> QED
    BY <1>2, <2>1, <2>2 DEF FrameOnce
<1> QED
  BY <1>1, <1>3, <1>4 DEF OnceInv

\* Steps that leave the submission without one, or at its start.
LEMMA OnceLeft ==
    ASSUME TypeInv, OnceInv, TalliesKept,
           cur' = NoJob \/ pc' = "submit", ~Uncredited' \/ strip'
    PROVE  OnceInv'
<1>1. ExpectBound'
  BY DEF OnceInv, ExpectBound, TalliesKept, ExpectKept, Copies, Label
<1>2. ~SubmitsDiscrete'
  BY JobAssumption DEF SubmitsDiscrete
<1> QED
  BY <1>1, <1>2 DEF OnceInv

\* A strip is sent: the submission's queue stays as it is.
LEMMA OnceSends ==
    ASSUME TypeInv, ShapeInv, OnceInv, UNCHANGED <<acc, printed, cur, todo>>,
           pc # "submit", pc' # "render", strip'
    PROVE  OnceInv'
<1>1. ExpectBound'
  BY DEF OnceInv, ExpectBound, Copies, Label
<1>2. /\ PrintsDiscrete(cur)' = PrintsDiscrete(cur)
      /\ \A i : Copies(cur, i)' = Copies(cur, i)
  BY DEF PrintsDiscrete, AsStrip, Copies
<1>3. SubmitsDiscrete' => acc'[cur'].live /\ TodoOnce'
  BY <1>2 DEF OnceInv, SubmitsDiscrete, TodoOnce
<1> QED
  BY <1>1, <1>3 DEF OnceInv

LEMMA LoopOnce == TypeInv /\ ShapeInv /\ OnceInv /\ Loop => OnceInv'
<1> SUFFICES ASSUME TypeInv, ShapeInv, OnceInv, Loop PROVE OnceInv'
  OBVIOUS
<1>1. TalliesKept
  BY LoopCalm DEF CalmStep
<1>2. CASE Exit
  BY <1>1, <1>2, OnceLeft DEF Exit, Forget, Uncredited
<1>3. CASE SendStrip(pending) /\ pc' = "connect"
  <2>1. UNCHANGED <<acc, printed, cur, todo>> /\ pc # "submit" /\ pc' # "render" /\ strip'
    <3>1. GetFlush \/ Tick \/ Shutdown
      BY <1>3 DEF Loop, Boot, ScanDone, PollDone, GetJob, RetryQueued, Resubmit, Exit,
                  Forget, Goto
    <3> QED
      BY <1>3, <3>1 DEF GetFlush, Tick, Shutdown, SendStrip
  <2> QED
    BY <2>1, OnceSends
<1>4. CASE ~(SendStrip(pending) /\ pc' = "connect") /\ ~Exit
  <2>1. /\ UNCHANGED <<acc, printed, todo, batch, strip>> /\ ~Uncredited' /\ pc # "submit"
        /\ pc' # "render"
        /\ UNCHANGED cur \/ pc' = "submit"
    BY <1>4 DEF Loop, Boot, ScanDone, PollDone, GetJob, GetFlush, Tick, RetryQueued,
                Shutdown, Resubmit, Goto, Uncredited
  <2>2. CASE pc' = "submit"
    BY <1>1, <2>1, <2>2, OnceLeft
  <2>3. CASE pc' # "submit"
    BY <1>1, <2>1, <2>3, OnceKept DEF TalliesKept
  <2> QED
    BY <2>2, <2>3
<1> QED
  BY <1>2, <1>3, <1>4

LEMMA WorldOnce ==
    TypeInv /\ ShapeInv /\ OnceInv /\ (World \/ UNCHANGED vars) => OnceInv'
<1> SUFFICES ASSUME TypeInv, ShapeInv, OnceInv, World \/ UNCHANGED vars PROVE OnceInv'
  OBVIOUS
<1>1. CASE Crash
  <2>1. TalliesKept
    BY <1>1, WorldCalm DEF CalmStep, World
  <2> QED
    BY <1>1, <2>1, OnceLeft DEF Crash, Forget, Uncredited
<1>2. CASE ~Crash
  <2>1. UNCHANGED <<acc, printed, cur, todo, batch, strip, pc, label, at>>
    BY <1>2 DEF World, PollFile, Deliver, GapPasses, Insert, Enqueue, FlushCommand, Stop, vars
  <2> QED
    BY <2>1, TalliesForgotten, OnceKept DEF Uncredited, TalliesKept
<1> QED
  BY <1>1, <1>2

\* Opening a tally.
LEMMA AcceptOnce ==
    ASSUME TypeInv, OnceInv, Accept
    PROVE  OnceInv'
<1>1. /\ cur \in Job /\ pc' = "render" /\ todo' = <<>> /\ UNCHANGED cur
      /\ acc' = [acc EXCEPT ![cur] = NewTally] /\ acc \in [Job -> Tally]
  BY DEF Accept, Goto, TypeInv, TypeOK, CurOK
<1>2. ExpectBound'
  <2>1. ASSUME NEW j \in Job, NEW i \in Label(j), acc'[j].live
        PROVE  acc'[j].expected[i] <= Copies(j, i)
    <3>1. CASE j = cur
      <4>1. acc'[j].expected[i] = 0 /\ Copies(j, i) \in Nat
        BY <1>1, <3>1, LabelFacts DEF NewTally, NoTally, Zero
      <4> QED
        BY <4>1
    <3>2. CASE j # cur
      BY <1>1, <2>1, <3>2 DEF OnceInv, ExpectBound
    <3> QED
      BY <3>1, <3>2
  <2> QED
    BY <2>1 DEF ExpectBound, Copies, Label
<1>3. acc'[cur'].live /\ TodoOnce'
  BY <1>1 DEF NewTally, NoTally, TodoOnce
<1> QED
  BY <1>1, <1>2, <1>3 DEF OnceInv, Uncredited

\* Filling it: a label queued as one copy was not queued before.
LEMMA RenderOnce ==
    ASSUME TypeInv, ShapeInv, OnceInv, RenderLabel
    PROVE  OnceInv'
<1>1. /\ cur \in Job /\ pc = "render" /\ pc' = "render" /\ label' = label + 1
      /\ label \in Label(cur) /\ label \in Index /\ label \in Nat
      /\ UNCHANGED <<printed, cur>>
      /\ todo \in Seq(Label(cur))
  BY LabelFacts
  DEF RenderLabel, Settle, QueueCopies, RecordDedupe, TypeInv, TypeOK, CurOK, TodoOK
<1> DEFINE c == Copies(cur, label)
<1>2. /\ c \in Nat \ {0}
      /\ \/ /\ Expects(cur, label, c) /\ label \notin printed[cur]
            /\ todo' = todo \o [n \in 1..c |-> label]
         \/ /\ todo' = todo
            /\ \E s \in LabelState : acc' = [acc EXCEPT ![cur].render[label] = s]
  <2>1. c \in Nat \ {0}
    BY <1>1, LabelFacts
  <2>2. \/ QueueCopies(label) /\ label \notin printed[cur]
        \/ \E s \in LabelState : Settle(label, s)
    BY DEF RenderLabel, PrintedLabels, LabelState
  <2> QED
    BY <2>1, <2>2 DEF QueueCopies, Expects, Settle
<1> HIDE DEF c
<1>3. ASSUME NEW j \in Job
      PROVE  /\ acc'[j].live = acc[j].live
             /\ \A n \in Index : acc'[j].expected[n] \in
                   {acc[j].expected[n], IF j = cur /\ n = label THEN c
                                        ELSE acc[j].expected[n]}
  <2>1. CASE Expects(cur, label, c)
    <3>1. TallyTypeOK
      BY DEF TypeInv, TypeOK, TallyTypeOK
    <3> QED
      BY <1>1, <1>2, <2>1, <3>1, ExpectedUpdate
  <2>2. ASSUME NEW s \in LabelState, acc' = [acc EXCEPT ![cur].render[label] = s]
        PROVE  acc'[j].live = acc[j].live /\ acc'[j].expected = acc[j].expected
    <3>1. acc \in [Job -> Tally]
      BY DEF TypeInv, TypeOK
    <3> QED
      BY <1>1, <2>2, <3>1 DEF Tally
  <2> QED
    BY <1>2, <2>1, <2>2
<1>4. ExpectBound'
  <2>1. ASSUME NEW j \in Job, NEW i \in Label(j), acc'[j].live
        PROVE  acc'[j].expected[i] <= Copies(j, i)
    <3>1. i \in Index /\ Copies(j, i) \in Nat /\ acc[j].expected[i] <= Copies(j, i)
      BY <1>3, <2>1, CountTypes DEF OnceInv, ExpectBound
    <3>2. j = cur /\ i = label => c = Copies(j, i)
      BY DEF c
    <3> QED
      BY <1>3, <3>1, <3>2
  <2> QED
    BY <2>1 DEF ExpectBound, Copies, Label
<1>5. SubmitsDiscrete => acc'[cur'].live /\ TodoOnce'
  <2> SUFFICES ASSUME SubmitsDiscrete PROVE TodoOnce'
    BY <1>1, <1>3 DEF OnceInv
  <2>1. TodoOnce
    BY DEF OnceInv
  <2>2. \A i : Copies(cur, i)' = Copies(cur, i)
    BY <1>1 DEF Copies
  <2>3. ASSUME NEW n \in DOMAIN todo
        PROVE  todo[n] \in Nat
    BY <1>1, LabelFacts DEF Label, Envelope
  <2>4. CASE todo' = todo
    BY <1>1, <2>1, <2>2, <2>3, <2>4 DEF TodoOnce
  <2>5. CASE label \notin printed[cur] /\ todo' = todo \o [n \in 1..c |-> label]
    <3>1. [n \in 1..c |-> label] \in Seq(Label(cur)) /\ Len([n \in 1..c |-> label]) = c
      BY <1>1, <1>2, RepeatType
    <3>2. /\ todo' \in Seq(Label(cur)) /\ DOMAIN todo' = 1..(Len(todo) + c)
          /\ \A n \in DOMAIN todo' :
                todo'[n] = IF n <= Len(todo) THEN todo[n] ELSE label
      BY <1>1, <1>2, <2>5, <3>1, ConcatProperties
    <3>3. ASSUME NEW n \in DOMAIN todo', Copies(cur, todo'[n]) = 1
          PROVE  /\ todo'[n] \notin printed[cur]
                 /\ \A m \in DOMAIN todo' : todo'[m] = todo'[n] => m = n
                 /\ todo'[n] < label + 1
      <4>1. Len(todo) \in Nat /\ DOMAIN todo = 1..Len(todo)
        BY <1>1
      <4>2. CASE n <= Len(todo)
        <5>1. n \in DOMAIN todo /\ todo'[n] = todo[n] /\ todo[n] \in Nat
          BY <2>3, <3>2, <4>1, <4>2
        <5>2. /\ todo[n] \notin printed[cur] /\ todo[n] < label
              /\ \A m \in DOMAIN todo : todo[m] = todo[n] => m = n
          BY <1>1, <2>1, <3>3, <5>1 DEF TodoOnce
        <5>3. ASSUME NEW m \in DOMAIN todo', todo'[m] = todo'[n]
              PROVE  m = n
          <6>1. m <= Len(todo)
            BY <1>1, <3>2, <5>1, <5>2, <5>3
          <6> QED
            BY <3>2, <4>1, <5>1, <5>2, <5>3, <6>1
        <5> QED
          BY <1>1, <5>1, <5>2, <5>3
      <4>3. CASE n > Len(todo)
        <5>1. todo'[n] = label /\ c = 1 /\ n = Len(todo) + 1
          BY <1>2, <3>2, <3>3, <4>1, <4>3 DEF c
        <5>2. ASSUME NEW m \in DOMAIN todo', todo'[m] = label
              PROVE  m = n
          <6>1. CASE m <= Len(todo)
            <7>1. m \in DOMAIN todo /\ todo[m] = label
              BY <3>2, <4>1, <5>2, <6>1
            <7>2. label < label
              BY <1>1, <2>1, <5>1, <7>1 DEF TodoOnce, c
            <7> QED
              BY <1>1, <7>2
          <6>2. CASE ~(m <= Len(todo))
            BY <3>2, <4>1, <5>1, <6>2
          <6> QED
            BY <6>1, <6>2
        <5> QED
          BY <1>1, <2>5, <5>1, <5>2
      <4> QED
        BY <3>2, <4>1, <4>2, <4>3
    <3> QED
      BY <1>1, <2>2, <3>3 DEF TodoOnce
  <2> QED
    BY <1>2, <2>4, <2>5
<1>6. SubmitsDiscrete' => SubmitsDiscrete
  BY <1>1 DEF SubmitsDiscrete, PrintsDiscrete, AsStrip
<1> QED
  BY <1>1, <1>4, <1>5, <1>6 DEF OnceInv, Uncredited

\* The next label is taken from the queue and is the frame.
LEMMA SendLabelOnce ==
    ASSUME TypeInv, ShapeInv, OnceInv, SendLabel
    PROVE  OnceInv'
<1>1. /\ cur \in Job /\ PrintsDiscrete(cur) /\ pc = "discrete" /\ pc' = "connect"
      /\ todo \in Seq(Label(cur)) /\ todo # <<>> /\ todo' = Tail(todo)
      /\ batch' = <<<<cur, Head(todo)>>>> /\ UNCHANGED <<acc, printed, cur>>
  BY DEF SendLabel, Goto, TypeInv, CurOK, TodoOK, ShapeInv
<1>2. acc[cur].live /\ TodoOnce
  BY <1>1 DEF OnceInv, SubmitsDiscrete
<1>3. /\ Head(todo) = todo[1] /\ 1 \in DOMAIN todo
      /\ \A n \in DOMAIN todo' : n + 1 \in DOMAIN todo /\ n \in Nat \ {0} /\ todo'[n] = todo[n + 1]
  BY <1>1, HeadTailProperties
<1>4. \A i : Copies(cur, i)' = Copies(cur, i)
  BY <1>1 DEF Copies
<1>5. TodoOnce'
  <2> SUFFICES ASSUME NEW n \in DOMAIN todo', Copies(cur, todo'[n]) = 1
               PROVE  /\ todo'[n] \notin printed[cur]
                      /\ \A m \in DOMAIN todo' : todo'[m] = todo'[n] => m = n
    BY <1>1, <1>4 DEF TodoOnce
  <2>1. todo[n + 1] \notin printed[cur]
        /\ \A m \in DOMAIN todo : todo[m] = todo[n + 1] => m = n + 1
    BY <1>2, <1>3 DEF TodoOnce
  <2> QED
    BY <1>3, <2>1
<1>6. FrameOnce'
  <2> SUFFICES ASSUME NEW i, i = Head(todo), Copies(cur, i) = 1
               PROVE  i \notin printed[cur] /\ \A n \in DOMAIN todo' : todo'[n] # i
    BY <1>1, <1>4 DEF FrameOnce
  <2>1. i = todo[1] /\ i \notin printed[cur]
        /\ \A m \in DOMAIN todo : todo[m] = todo[1] => m = 1
    BY <1>2, <1>3 DEF TodoOnce
  <2> QED
    BY <1>3, <2>1
<1>7. ExpectBound'
  BY <1>1 DEF OnceInv, ExpectBound, Copies, Label
<1> QED
  BY <1>1, <1>2, <1>5, <1>6, <1>7 DEF OnceInv

LEMMA SubmitOnce == TypeInv /\ ShapeInv /\ OnceInv /\ Submit => OnceInv'
<1> SUFFICES ASSUME TypeInv, ShapeInv, OnceInv, Submit PROVE OnceInv'
  OBVIOUS
<1>1. CASE Reject \/ NothingToPrint \/ Buffered \/ DiscreteDone
  <2>1. TalliesKept
    BY <1>1, SubmitCalm DEF CalmSubmit, CalmStep
  <2>2. cur' = NoJob /\ ~Uncredited'
    BY <1>1, ReturnType
    DEF Reject, NothingToPrint, Buffered, DiscreteDone, EndSubmit, Return, Uncredited
  <2> QED
    BY <2>1, <2>2, OnceLeft
<1>2. CASE StartPrinting
  <2>1. /\ UNCHANGED <<acc, printed, cur, todo>> /\ pc' \in {"discrete", "strip"}
        /\ pc = "render"
    BY <1>2 DEF StartPrinting, Goto
  <2> QED
    BY <2>1, TalliesForgotten, OnceKept DEF TalliesKept, Uncredited
<1>3. CASE FlushJob \/ FlushBefore
  BY <1>3, OnceSends DEF FlushJob, FlushBefore, Goto, SendStrip
<1>4. CASE AddLabel
  <2>1. /\ ~PrintsDiscrete(cur)' /\ UNCHANGED acc /\ pc' \in {"strip", "connect"}
        /\ pc' = "connect" => strip'
    BY <1>4 DEF AddLabel, Goto, SendStrip, ShapeInv, PrintsDiscrete, AsStrip
  <2>2. ExpectBound'
    BY <2>1 DEF OnceInv, ExpectBound, Copies, Label
  <2> QED
    BY <2>1, <2>2 DEF OnceInv, SubmitsDiscrete, Uncredited
<1> QED
  BY <1>1, <1>2, <1>3, <1>4, AcceptOnce, RenderOnce, SendLabelOnce DEF Submit

\* A strip's labels are not those of a job printed label by label.
LEMMA StripIsOthers ==
    ASSUME TypeInv, ShapeInv, strip, at \in DOMAIN batch
    PROVE  /\ batch[at] \in Item /\ batch[at][1] \in Job /\ batch[at][2] \in Index
           /\ ~PrintsDiscrete(batch[at][1])
<1>1. batch[at] \in StripItem
  BY DEF ShapeInv
<1> QED
  BY <1>1 DEF StripItem, Item

\* The accounting of a copy.
LEMMA AccountUpdates ==
    ASSUME TypeInv, Account, NEW j \in Job
    PROVE  acc'[j].expected = acc[j].expected /\ acc'[j].live = acc[j].live
<1> DEFINE k == batch[at][1]
           i == batch[at][2]
<1>1. batch[at] \in Item /\ (CreditCopy(k, i) \/ FailCopy(k, i))
  BY DEF Account, TypeInv, TypeOK
<1>2. k \in Job /\ i \in Index /\ TallyTypeOK
  BY <1>1 DEF Item, TypeInv, TypeOK, TallyTypeOK
<1> HIDE DEF k, i
<1> QED
  BY <1>1, <1>2, DoneUpdate, FailedUpdate DEF CreditCopy, Credits

LEMMA AccountOnce ==
    ASSUME TypeInv, ShapeInv, OnceInv, Account
    PROVE  OnceInv'
<1> DEFINE j == batch[at][1]
           i == batch[at][2]
<1>1. /\ at \in DOMAIN batch /\ at' = at + 1 /\ UNCHANGED <<cur, todo, batch, strip, pc>>
      /\ pc \in {"credit", "fail"}
      /\ printed' \in {printed, [printed EXCEPT ![j] = @ \cup {i}]}
      /\ printed \in [Job -> SUBSET Index] /\ at \in Nat
  BY DEF Account, CreditCopy, FailCopy, LabelPrinted, TypeInv, TypeOK, SpoolTypeOK
<1>2. ExpectKept
  BY AccountUpdates DEF ExpectKept
<1>3. CASE strip
  <2>1. j \in Job /\ ~PrintsDiscrete(j)
    BY <1>1, <1>3, StripIsOthers
  <2>2. ASSUME cur \in Job, PrintsDiscrete(cur)
        PROVE  printed'[cur] = printed[cur] /\ acc'[cur].live = acc[cur].live
    BY <1>1, <2>1, <2>2, AccountUpdates
  <2> HIDE DEF j, i
  <2> QED
    BY <1>1, <1>2, <1>3, <2>2, OnceKept
<1>4. CASE ~strip
  <2>1. /\ cur \in Job /\ PrintsDiscrete(cur) /\ FrameOf(cur)
        /\ acc[cur].live /\ TodoOnce
    BY <1>1, <1>4 DEF ShapeInv, Sending, TypeInv, CurOK, OnceInv, SubmitsDiscrete
  <2>2. j = cur /\ at = 1 /\ batch = <<<<cur, i>>>> /\ i \in Label(cur)
    BY <1>1, <2>1 DEF FrameOf
  <2> HIDE DEF i, j
  <2>3. \A l : Copies(cur, l)' = Copies(cur, l)
    BY <1>1 DEF Copies
  <2>4. ASSUME NEW n \in DOMAIN todo, Copies(cur, todo[n]) = 1
        PROVE  todo[n] \notin printed'[cur]
    <3>1. todo[n] \notin printed[cur]
      BY <2>1, <2>4 DEF TodoOnce
    <3>2. CASE pc = "credit"
      <4>1. Copies(cur, i) = 1 => todo[n] # i
        BY <1>4, <2>2, <3>2 DEF OnceInv, Uncredited, FrameOnce
      <4> QED
        BY <1>1, <2>1, <2>2, <2>4, <3>1, <4>1
    <3>3. CASE pc = "fail"
      <4>1. printed' = printed
        BY <3>3 DEF Account, FailCopy
      <4> QED
        BY <3>1, <4>1
    <3> QED
      BY <1>1, <3>2, <3>3
  <2>5. TodoOnce' /\ acc'[cur'].live
    BY <1>1, <2>1, <2>3, <2>4, AccountUpdates DEF TodoOnce
  <2>6. ~Uncredited'
    BY <1>1, <2>2 DEF Uncredited
  <2>7. ExpectBound'
    BY <1>2 DEF OnceInv, ExpectBound, ExpectKept, Copies, Label
  <2> QED
    BY <2>5, <2>6, <2>7 DEF OnceInv
<1> QED
  BY <1>3, <1>4

LEMMA SendOnce == TypeInv /\ ShapeInv /\ OnceInv /\ Send => OnceInv'
<1> SUFFICES ASSUME TypeInv, ShapeInv, OnceInv, Send PROVE OnceInv'
  OBVIOUS
<1>1. CASE ConnectOk \/ ConnectRetry \/ FrameOk \/ FrameTorn
  <2>1. /\ UNCHANGED <<acc, printed, cur, todo, batch, strip>>
        /\ pc \in {"connect", "frame"} /\ pc' \notin {"submit", "render"}
    BY <1>1 DEF ConnectOk, ConnectRetry, FrameOk, FrameTorn, Goto
  <2> QED
    BY <2>1, TalliesForgotten, OnceKept DEF TalliesKept, Uncredited
<1>2. CASE Accounted \/ Settled
  <2>1. /\ UNCHANGED <<acc, printed, todo>> /\ ~Uncredited' /\ cur' = cur
        /\ pc \in {"credit", "fail", "settle"} /\ pc' \notin {"submit", "render"}
    BY <1>2, ReturnType DEF Accounted, Settled, ResumeFlush, Return, Goto, Uncredited
  <2> QED
    BY <2>1, TalliesForgotten, OnceKept DEF TalliesKept
<1>3. CASE NoTallyToCredit
  <2>1. cur' = NoJob /\ ~Uncredited' /\ TalliesKept
    BY <1>3, ReturnType, SendCalm
    DEF NoTallyToCredit, Return, Uncredited, CalmSend, CalmStep
  <2> QED
    BY <2>1, OnceLeft
<1>4. CASE SettleJob
  <2>1. /\ batch[at][1] \in Job /\ ~PrintsDiscrete(batch[at][1])
        /\ MaybeFinalize(batch[at][1]) /\ pc = "settle" /\ pc' = pc
        /\ UNCHANGED <<cur, todo, batch, strip>>
    BY <1>4, StripIsOthers DEF SettleJob, ShapeInv
  <2>2. TalliesKept /\ UNCHANGED printed
    BY <2>1, MaybeFinalizeForgets
  <2>3. cur \in Job /\ PrintsDiscrete(cur) => acc'[cur].live = acc[cur].live
    <3>1. acc \in [Job -> Tally]
      BY DEF TypeInv, TypeOK
    <3> QED
      BY <2>1, <3>1 DEF MaybeFinalize, Finalize
  <2> QED
    BY <2>1, <2>2, <2>3, OnceKept DEF TalliesKept, Uncredited
<1>5. CASE ConnectFailed
  <2>1. /\ UNCHANGED printed /\ TalliesKept /\ pc = "connect"
        /\ acc' = [j \in Job |-> IF j \in JobsOf(batch) THEN NoTally ELSE acc[j]]
    BY <1>5, SendCalm DEF ConnectFailed, Stall, Requeue, CalmSend, CalmStep
  <2>2. CASE strip
    <3>1. UNCHANGED <<cur, todo>> /\ pc' \notin {"submit", "render"} /\ ~Uncredited'
      BY <1>5, <2>2, ReturnType
      DEF ConnectFailed, ResumeFlush, Return, Goto, Uncredited
    <3>2. ASSUME cur \in Job, PrintsDiscrete(cur)
          PROVE  cur \notin JobsOf(batch)
      <4>1. ASSUME NEW n \in DOMAIN batch
            PROVE  ~PrintsDiscrete(batch[n][1])
        <5>1. batch[n] \in StripItem
          BY <2>2 DEF ShapeInv
        <5> QED
          BY <5>1 DEF StripItem
      <4> QED
        BY <3>2, <4>1 DEF JobsOf
    <3> QED
      BY <2>1, <3>1, <3>2, OnceKept DEF TalliesKept
  <2>3. CASE ~strip
    <3>1. cur' = NoJob /\ ~Uncredited'
      BY <1>5, <2>3, ReturnType DEF ConnectFailed, EndSubmit, Return, Uncredited
    <3> QED
      BY <2>1, <3>1, OnceLeft
  <2> QED
    BY <2>2, <2>3
<1> QED
  BY <1>1, <1>2, <1>3, <1>4, <1>5, AccountOnce DEF Send

LEMMA OnceStep == TypeInv /\ ShapeInv /\ OnceInv /\ [Next]_vars => OnceInv'
BY LoopOnce, SubmitOnce, SendOnce, WorldOnce DEF Next

LEMMA OnceInit == Init => OnceInv
BY JobAssumption DEF Init, OnceInv, SubmitsDiscrete, Uncredited, ExpectBound, NoTally

-----------------------------------------------------------------------------
(***************************************************************************)
(* Counting.  A label is suspect when it came out more often than asked    *)
(* for, or once without being committed, so that it will again.  A crash   *)
(* makes at most one label suspect, the one in the printer or the one not  *)
(* credited yet; the latter is suspect before the crash counts (Uncounted).*)
(***************************************************************************)
SuspectLabel(j, i) ==
    /\ Single(j, i) /\ <<j, i>> \notin torn
    /\ tape[j][i] > 1 \/ (tape[j][i] = 1 /\ i \notin printed[j])

Suspect == {it \in Item : SuspectLabel(it[1], it[2])}

Uncounted == /\ pc = "credit" /\ at = 1 /\ ~strip
             /\ batch[1] \in Suspect /\ tape[batch[1][1]][batch[1][2]] = 1

CountInv == Cardinality(Suspect) <= crashes + (IF Uncounted THEN 1 ELSE 0)

LEMMA ItemIsFinite == IsFiniteSet(Item)
<1>1. ASSUME NEW j \in Job
      PROVE  IsFiniteSet(Label(j))
  <2>1. Label(j) = 1..Len(Contract[j].labels) /\ Len(Contract[j].labels) \in Nat
    BY LabelFacts DEF Label, Envelope
  <2> QED
    BY <2>1, FS_Interval
<1> DEFINE L(j) == {j} \X Label(j)
<1>2. ASSUME NEW j \in Job
      PROVE  IsFiniteSet(L(j))
  BY <1>1, FS_Singleton, FS_Product
<1>3. IsFiniteSet({L(j) : j \in Job})
  <2> DEFINE f == [j \in Job |-> L(j)]
  <2>1. f \in Surjection(Job, {L(j) : j \in Job})
    BY DEF Surjection
  <2> QED
    BY <2>1, JobAssumption, FS_Surjection
<1>4. Item \subseteq UNION {L(j) : j \in Job}
  BY DEF Item
<1>5. IsFiniteSet(UNION {L(j) : j \in Job})
  BY <1>2, <1>3, FS_UNION
<1> QED
  BY <1>4, <1>5, FS_Subset

LEMMA SuspectIsFinite ==
    /\ IsFiniteSet(Suspect) /\ Cardinality(Suspect) \in Nat
    /\ \A S \in SUBSET Suspect : /\ IsFiniteSet(S) /\ Cardinality(S) \in Nat
                                 /\ Cardinality(S) <= Cardinality(Suspect)
<1>1. Suspect \subseteq Item
  BY DEF Suspect
<1> QED
  BY <1>1, ItemIsFinite, FS_Subset, FS_CardinalityType

LEMMA SuspectIff ==
    ASSUME NEW j \in Job, NEW i \in Label(j)
    PROVE  <<j, i>> \in Suspect <=> SuspectLabel(j, i)
BY LabelFacts DEF Suspect

\* A label that is not in the frame comes out no oftener.
LEMMA FrameOthers ==
    ASSUME TypeInv, NEW k \in 0..Len(batch), tape' = Printed(k),
           NEW j \in Job, NEW i \in Label(j), Copies(j, i) = 1,
           \A n \in DOMAIN batch : batch[n] # <<j, i>>
    PROVE  /\ tape'[j][i] > 1 <=> tape[j][i] > 1
           /\ tape'[j][i] = 1 <=> tape[j][i] = 1
<1>1. batch \in Seq(Item) /\ <<j, i>> \in Item /\ i \in Index /\ tape[j][i] \in Nat
  BY LabelFacts, CountTypes DEF TypeInv, TypeOK
<1>2. Occurs(<<j, i>>, SubSeq(batch, 1, k)) = 0
  <2>1. \A n \in DOMAIN SubSeq(batch, 1, k) : SubSeq(batch, 1, k)[n] # <<j, i>>
    BY <1>1, SubSeqProperties
  <2> QED
    BY <2>1, FS_EmptySet DEF Occurs
<1>3. tape'[j][i] = IF tape[j][i] + 0 > 1 THEN 2 ELSE tape[j][i] + 0
  BY <1>1, <1>2 DEF Printed
<1> QED
  BY <1>1, <1>3

\* The only label a frame can make suspect is the one it consists of.
LEMMA FrameSuspects ==
    ASSUME TypeInv, ShapeInv, pc = "frame", NEW k \in 0..Len(batch), tape' = Printed(k),
           UNCHANGED <<torn, printed>>
    PROVE  /\ strip => Suspect' \subseteq Suspect
           /\ ~strip => Suspect' \subseteq Suspect \cup {batch[1]}
<1>1. ASSUME NEW it \in Suspect', \A n \in DOMAIN batch : batch[n] # it
      PROVE  it \in Suspect
  <2>1. it \in Item /\ it = <<it[1], it[2]>> /\ it[1] \in Job /\ it[2] \in Label(it[1])
    BY DEF Suspect, Item
  <2> DEFINE j == it[1]
             i == it[2]
  <2> HIDE DEF j, i
  <2>2. Copies(j, i)' = Copies(j, i) /\ PrintsDiscrete(j)' = PrintsDiscrete(j)
    BY DEF Copies, PrintsDiscrete, AsStrip
  <2>3. SuspectLabel(j, i)'
    BY DEF Suspect, j, i
  <2>4. /\ Copies(j, i) = 1
        /\ tape'[j][i] > 1 \/ (tape'[j][i] = 1 /\ i \notin printed[j])
    BY <2>2, <2>3 DEF SuspectLabel, Single
  <2>5. j \in Job /\ i \in Label(j) /\ it = <<j, i>>
    BY <2>1 DEF j, i
  <2>6. tape[j][i] > 1 \/ (tape[j][i] = 1 /\ i \notin printed[j])
    BY <1>1, <2>4, <2>5, FrameOthers
  <2>7. SuspectLabel(j, i)
    BY <2>2, <2>3, <2>6 DEF SuspectLabel, Single
  <2> QED
    BY <2>5, <2>7, SuspectIff
<1>2. ASSUME strip, NEW it \in Suspect', NEW n \in DOMAIN batch
      PROVE  batch[n] # it
  <2>1. batch[n] \in StripItem
    BY <1>2 DEF ShapeInv
  <2> QED
    BY <2>1 DEF StripItem, Suspect, SuspectLabel, Single, PrintsDiscrete, AsStrip
<1>3. ASSUME ~strip, NEW n \in DOMAIN batch
      PROVE  batch[n] = batch[1]
  BY <1>3 DEF ShapeInv, Sending, FrameOf
<1> QED
  BY <1>1, <1>2, <1>3

LEMMA CountKept ==
    ASSUME TypeInv, CountInv, Suspect' \subseteq Suspect, crashes' \in Nat,
           crashes' >= crashes, Uncounted => Uncounted' \/ crashes' > crashes
    PROVE  CountInv'
<1>1. crashes \in Nat
  BY DEF TypeInv, TypeOK
<1>2. /\ Cardinality(Suspect) \in Nat /\ Cardinality(Suspect') \in Nat
      /\ Cardinality(Suspect') <= Cardinality(Suspect)
  BY SuspectIsFinite
<1> QED
  BY <1>1, <1>2 DEF CountInv

\* One more suspect, one more crash or one label still to be credited.
LEMMA CountOneMore ==
    ASSUME TypeInv, CountInv, ~Uncounted, NEW x, Suspect' \subseteq Suspect \cup {x},
           crashes' \in Nat,
           crashes' > crashes \/ (crashes' = crashes /\ (x \in Suspect' \ Suspect => Uncounted'))
    PROVE  CountInv'
<1>1. crashes \in Nat
  BY DEF TypeInv, TypeOK
<1>2. CASE Suspect' \subseteq Suspect
  BY <1>1, <1>2, CountKept
<1>3. CASE ~(Suspect' \subseteq Suspect)
  <2>1. x \in Suspect' \ Suspect
    BY <1>3
  <2>2. /\ IsFiniteSet(Suspect \cup {x})
        /\ Cardinality(Suspect \cup {x}) = Cardinality(Suspect) + 1
    BY <2>1, SuspectIsFinite, FS_AddElement
  <2>3. Cardinality(Suspect') <= Cardinality(Suspect) + 1 /\ Cardinality(Suspect') \in Nat
    BY <2>2, FS_Subset, FS_CardinalityType
  <2> QED
    BY <1>1, <2>1, <2>3, SuspectIsFinite DEF CountInv
<1> QED
  BY <1>2, <1>3

\* Most steps touch nothing that is counted, and leave no label uncounted.
LEMMA CountSame ==
    ASSUME TypeInv, CountInv, UNCHANGED <<tape, torn, printed>>,
           crashes' \in {crashes, crashes + 1},
           ~Uncounted \/ UNCHANGED <<pc, at, strip, batch>>
    PROVE  CountInv'
<1>1. Suspect' = Suspect
  BY DEF Suspect, SuspectLabel, Single, PrintsDiscrete, AsStrip, Copies
<1>2. Uncounted => Uncounted'
  BY <1>1 DEF Uncounted
<1>3. crashes \in Nat
  BY DEF TypeInv, TypeOK
<1> QED
  BY <1>1, <1>2, <1>3, CountKept

\* The frame that is being credited is one label of the job being submitted,
\* whose tally is there.
LEMMA UncountedFrame ==
    ASSUME TypeInv, ShapeInv, OnceInv, Uncounted
    PROVE  /\ at \in DOMAIN batch /\ acc[batch[at][1]].live
<1>1. cur \in Job /\ PrintsDiscrete(cur) /\ FrameOf(cur) /\ acc[cur].live
  BY DEF Uncounted, ShapeInv, Sending, TypeInv, CurOK, OnceInv, SubmitsDiscrete
<1> QED
  BY <1>1 DEF FrameOf, Uncounted

LEMMA FrameOkCount ==
    ASSUME TypeInv, ShapeInv, OnceInv, CountInv, FrameOk
    PROVE  CountInv'
<1>0. PICK k \in 0..Len(batch) : tape' = Printed(k)
  BY DEF FrameOk
<1>1. /\ pc = "frame" /\ pc' = "credit" /\ at' = 1
      /\ UNCHANGED <<torn, printed, crashes, batch, strip, cur>>
      /\ ~Uncounted /\ crashes \in Nat
  BY DEF FrameOk, Goto, TypeInv, TypeOK, Uncounted
<1>2. CASE strip
  <2>1. Suspect' \subseteq Suspect
    BY <1>0, <1>1, <1>2, FrameSuspects
  <2> QED
    BY <1>1, <2>1, CountKept
<1>3. CASE ~strip
  <2>1. Suspect' \subseteq Suspect \cup {batch[1]}
    BY <1>0, <1>1, <1>3, FrameSuspects
  <2>2. ASSUME batch[1] \in Suspect' \ Suspect
        PROVE  Uncounted'
    <3>1. cur \in Job /\ FrameOf(cur) /\ FrameOnce
      BY <1>1, <1>3 DEF ShapeInv, Sending, TypeInv, CurOK, OnceInv, Uncredited
    <3>2. PICK i \in Label(cur) : batch = <<<<cur, i>>>>
      BY <3>1 DEF FrameOf
    <3>3. SuspectLabel(cur, i)' /\ ~SuspectLabel(cur, i)
      <4>1. <<cur, i>> \in Suspect'
        BY <2>2, <3>2
      <4>2. SuspectLabel(cur, i)'
        BY <1>1, <4>1 DEF Suspect
      <4> QED
        BY <2>2, <3>1, <3>2, <4>2, SuspectIff
    <3>4. PrintsDiscrete(cur)' = PrintsDiscrete(cur) /\ Copies(cur, i)' = Copies(cur, i)
      BY <1>1 DEF PrintsDiscrete, AsStrip, Copies
    <3>5. Single(cur, i) /\ <<cur, i>> \notin torn
      BY <1>1, <3>3, <3>4 DEF SuspectLabel, Single
    <3>6. i \notin printed[cur]
      BY <3>1, <3>2, <3>5 DEF FrameOnce, Single
    <3>7. tape[cur][i] = 0
      <4>1. tape[cur][i] \in Nat
        BY <3>1, CountTypes
      <4> QED
        BY <3>3, <3>5, <3>6, <4>1 DEF SuspectLabel
    <3>8. Occurs(<<cur, i>>, SubSeq(batch, 1, k)) \in {0, 1}
      <4> DEFINE S == {n \in DOMAIN SubSeq(batch, 1, k) : SubSeq(batch, 1, k)[n] = <<cur, i>>}
      <4>1. batch \in Seq(Item) /\ Len(batch) = 1
        BY <3>2 DEF TypeInv, TypeOK
      <4>2. S = {} \/ S = {1}
        BY <4>1, SubSeqProperties
      <4>3. Cardinality({1}) = 1 /\ Cardinality({}) = 0
        BY FS_Singleton, FS_EmptySet
      <4> QED
        BY <4>2, <4>3 DEF Occurs
    <3>9. tape'[cur][i] = 1
      <4>1. <<cur, i>> \in Item /\ i \in Index
        BY <3>1, LabelFacts
      <4>2. tape'[cur][i] \in {0, 1}
        BY <1>0, <3>1, <3>5, <3>7, <3>8, <4>1 DEF Printed, Single
      <4> QED
        BY <1>1, <3>3, <4>2 DEF SuspectLabel
    <3> QED
      BY <1>1, <1>3, <2>2, <3>2, <3>9 DEF Uncounted
  <2> QED
    BY <1>1, <2>1, <2>2, CountOneMore
<1> QED
  BY <1>2, <1>3

LEMMA FrameTornCount ==
    ASSUME TypeInv, ShapeInv, CountInv, FrameTorn
    PROVE  CountInv'
<1>1. /\ pc = "frame" /\ UNCHANGED <<printed, crashes, batch>> /\ ~Uncounted /\ crashes \in Nat
      /\ torn' = torn \cup {batch[n] : n \in DOMAIN batch}
  BY DEF FrameTorn, TypeInv, TypeOK, Uncounted
<1>2. PICK k \in 0..Len(batch) : tape' = Printed(k)
  BY DEF FrameTorn
<1>3. ASSUME NEW it \in Suspect'
      PROVE  it \in Suspect
  <2>1. it \in Item /\ it = <<it[1], it[2]>> /\ it[1] \in Job /\ it[2] \in Label(it[1])
    BY DEF Suspect, Item
  <2> DEFINE j == it[1]
             i == it[2]
  <2> HIDE DEF j, i
  <2>2. Copies(j, i)' = Copies(j, i) /\ PrintsDiscrete(j)' = PrintsDiscrete(j)
    BY DEF Copies, PrintsDiscrete, AsStrip
  <2>3. SuspectLabel(j, i)' /\ j \in Job /\ i \in Label(j) /\ it = <<j, i>>
    BY <2>1 DEF Suspect, j, i
  <2>4. it \notin torn /\ \A n \in DOMAIN batch : batch[n] # it
    BY <1>1, <2>3 DEF SuspectLabel
  <2>5. /\ Copies(j, i) = 1
        /\ tape'[j][i] > 1 \/ (tape'[j][i] = 1 /\ i \notin printed[j])
    BY <1>1, <2>2, <2>3 DEF SuspectLabel, Single
  <2>6. tape[j][i] > 1 \/ (tape[j][i] = 1 /\ i \notin printed[j])
    BY <1>2, <2>3, <2>4, <2>5, FrameOthers
  <2>7. SuspectLabel(j, i)
    BY <2>2, <2>3, <2>4, <2>6 DEF SuspectLabel, Single
  <2> QED
    BY <2>3, <2>7, SuspectIff
<1> QED
  BY <1>1, <1>3, CountKept

LEMMA CrashCount ==
    ASSUME TypeInv, ShapeInv, CountInv, Crash
    PROVE  CountInv'
<1>1. UNCHANGED <<torn, printed>> /\ crashes' = crashes + 1 /\ crashes \in Nat
  BY DEF Crash, TypeInv, TypeOK
<1>2. CASE pc = "frame"
  <2>1. PICK k \in 0..Len(batch) : tape' = Printed(k)
    BY <1>2 DEF Crash
  <2>2. Suspect' \subseteq Suspect \cup {batch[1]}
    BY <1>1, <1>2, <2>1, FrameSuspects
  <2>3. ~Uncounted
    BY <1>2 DEF Uncounted
  <2> QED
    BY <1>1, <2>2, <2>3, CountOneMore
<1>3. CASE pc # "frame"
  <2>1. UNCHANGED tape
    BY <1>3 DEF Crash
  <2>2. Suspect' = Suspect
    BY <1>1, <2>1 DEF Suspect, SuspectLabel, Single, PrintsDiscrete, AsStrip, Copies
  <2> QED
    BY <1>1, <2>2, CountKept
<1> QED
  BY <1>2, <1>3

\* Crediting the frame's one copy commits the label.
LEMMA AccountCount ==
    ASSUME TypeInv, ShapeInv, OnceInv, CountInv, Account
    PROVE  CountInv'
<1> DEFINE j == batch[at][1]
           i == batch[at][2]
<1>1. /\ at \in DOMAIN batch /\ at' = at + 1 /\ UNCHANGED <<tape, torn, crashes, pc>>
      /\ pc \in {"credit", "fail"} /\ acc[j].live /\ at \in Nat /\ crashes \in Nat
      /\ printed \in [Job -> SUBSET Index]
  BY DEF Account, TypeInv, TypeOK, SpoolTypeOK
<1>2. batch[at] \in Item /\ batch[at] = <<j, i>> /\ j \in Job /\ i \in Label(j)
  <2>1. batch[at] \in Item
    BY <1>1 DEF TypeInv, TypeOK
  <2> QED
    BY <2>1 DEF Item
<1>3. printed' \in {printed, [printed EXCEPT ![j] = @ \cup {i}]}
  BY DEF Account, CreditCopy, FailCopy, LabelPrinted
<1> HIDE DEF i, j
<1>4. \A k \in Job : printed[k] \subseteq printed'[k]
  BY <1>1, <1>2, <1>3
<1>5. Suspect' \subseteq Suspect
  BY <1>1, <1>4 DEF Suspect, SuspectLabel, Single, PrintsDiscrete, AsStrip, Copies, Item
<1>6. CASE ~Uncounted
  BY <1>1, <1>5, <1>6, CountKept
<1>7. CASE Uncounted
  <2>1. batch[at] \in Suspect /\ tape[j][i] = 1 /\ pc = "credit" /\ SuspectLabel(j, i)
    BY <1>2, <1>7, SuspectIff DEF Uncounted
  <2>2. i \in printed'[j]
    <3>1. CreditCopy(j, i)
      BY <2>1 DEF Account, i, j
    <3>2. acc[j].done[i] \in Nat /\ acc[j].expected[i] \in Nat /\ acc[j].expected[i] <= 1
      BY <1>1, <1>2, <2>1, CountTypes DEF OnceInv, ExpectBound, SuspectLabel, Single
    <3>3. acc[j].done[i] + 1 >= acc[j].expected[i]
      BY <3>2
    <3> QED
      BY <1>1, <1>2, <3>1, <3>3 DEF CreditCopy, LabelPrinted
  <2>3. Suspect' \subseteq Suspect \ {batch[at]}
    <3>1. batch[at] \notin Suspect'
      <4>1. PICK m \in Job : \E n \in Label(m) : m = j /\ n = i
        BY <1>2
      <4>2. PICK n \in Label(m) : m = j /\ n = i
        BY <4>1
      <4>3. tape'[m][n] = 1 /\ n \in printed'[m]
        BY <1>1, <2>1, <2>2, <4>2
      <4>4. <<m, n>> \notin Suspect'
        BY <4>3 DEF Suspect, SuspectLabel
      <4> QED
        BY <1>2, <4>2, <4>4
    <3> QED
      BY <1>5, <3>1
  <2>4. /\ Cardinality(Suspect \ {batch[at]}) = Cardinality(Suspect) - 1
        /\ Cardinality(Suspect) \in Nat
        /\ Cardinality(Suspect') \in Nat
        /\ Cardinality(Suspect') <= Cardinality(Suspect \ {batch[at]})
    BY <2>1, <2>3, SuspectIsFinite, FS_RemoveElement, FS_Subset, FS_CardinalityType
  <2> QED
    BY <1>1, <1>7, <2>4 DEF CountInv
<1> QED
  BY <1>6, <1>7

LEMMA CountStep ==
    TypeInv /\ ShapeInv /\ OnceInv /\ CountInv /\ [Next]_vars => CountInv'
<1> SUFFICES ASSUME TypeInv, ShapeInv, OnceInv, CountInv, [Next]_vars PROVE CountInv'
  OBVIOUS
<1>1. CASE Loop \/ Submit
  <2>1. UNCHANGED <<tape, torn, printed, crashes>> /\ pc # "credit"
    <3>1. CASE Loop
      BY <3>1 DEF Loop, Boot, ScanDone, PollDone, GetJob, GetFlush, Tick, RetryQueued,
                  Shutdown, Exit, Resubmit
    <3>2. CASE Submit
      BY <3>2 DEF Submit, Reject, Finish, Accept, Mark, RenderLabel, Settle, QueueCopies,
          RecordDedupe, NothingToPrint, Finalize, StartPrinting, AddLabel, FlushJob,
          Buffered, MaybeFinalize, FlushBefore, SendLabel, DiscreteDone
    <3> QED
      BY <1>1, <3>1, <3>2
  <2> QED
    BY <2>1, CountSame DEF Uncounted
<1>2. CASE ConnectOk \/ ConnectRetry \/ ConnectFailed \/ NoTallyToCredit \/ Accounted
           \/ SettleJob \/ Settled
  <2>1. UNCHANGED <<tape, torn, printed, crashes>>
    BY <1>2 DEF ConnectOk, ConnectRetry, ConnectFailed, Stall, Requeue, NoTallyToCredit,
                Accounted, SettleJob, MaybeFinalize, Finalize, Finish, Settled
  <2>2. ~Uncounted
    BY <1>2, UncountedFrame DEF ConnectOk, ConnectRetry, ConnectFailed, NoTallyToCredit,
       Accounted, SettleJob, Settled, Uncounted
  <2> QED
    BY <2>1, <2>2, CountSame
<1>3. CASE (World /\ ~Crash) \/ UNCHANGED vars
  <2>1. /\ UNCHANGED <<tape, torn, printed, pc, at, strip, batch>>
        /\ crashes' \in {crashes, crashes + 1}
    BY <1>3 DEF World, PollFile, Deliver, Insert, GapPasses, Enqueue, FlushCommand, Stop, vars
  <2> QED
    BY <2>1, CountSame
<1> QED
  BY <1>1, <1>2, <1>3, FrameOkCount, FrameTornCount, AccountCount, CrashCount DEF Next, Send

LEMMA CountInit == Init => CountInv
<1> SUFFICES ASSUME Init PROVE CountInv
  OBVIOUS
<1>1. ASSUME NEW it \in Item
      PROVE  tape[it[1]][it[2]] = 0
  BY DEF Init, Zero, Item
<1>2. Suspect = {}
  BY <1>1 DEF Suspect, SuspectLabel
<1> QED
  BY <1>2, FS_EmptySet DEF CountInv, Init, Uncounted

\* The documented promise "a crash reprints at most one label", in every
\* configuration: of the labels printed one by one and asked for once, those
\* that came out more often, and that no torn frame explains, are no more than
\* the crashes and stops so far.
THEOREM CrashReprintsAtMostOne == Spec => []CrashReprintsOne
<1>1. TypeInv /\ CountInv => CrashReprintsOne
  <2> SUFFICES ASSUME TypeInv, CountInv PROVE CrashReprintsOne
    OBVIOUS
  <2> DEFINE Again == {it \in Overprinted \ torn :
                         PrintsDiscrete(it[1]) /\ Copies(it[1], it[2]) = 1}
  <2>1. Again \subseteq Suspect
    BY DEF Overprinted, Suspect, SuspectLabel, Single, Item
  <2>2. Uncounted => Again \subseteq Suspect \ {batch[1]}
    <3>1. ASSUME Uncounted, batch[1] \in Again
          PROVE  FALSE
      BY <3>1 DEF Uncounted, Overprinted
    <3> QED
      BY <2>1, <3>1
  <2>3. crashes \in Nat
    BY DEF TypeInv, TypeOK
  <2>4. CASE Uncounted
    <3>1. batch[1] \in Suspect
      BY <2>4 DEF Uncounted
    <3>2. /\ Cardinality(Suspect \ {batch[1]}) = Cardinality(Suspect) - 1
          /\ IsFiniteSet(Suspect \ {batch[1]}) /\ Cardinality(Suspect) \in Nat
      BY <3>1, SuspectIsFinite, FS_RemoveElement
    <3>3. Cardinality(Again) <= Cardinality(Suspect \ {batch[1]}) /\ Cardinality(Again) \in Nat
      BY <2>2, <2>4, <3>2, FS_Subset, FS_CardinalityType
    <3> QED
      BY <2>3, <2>4, <3>2, <3>3 DEF CountInv, CrashReprintsOne
  <2>5. CASE ~Uncounted
    <3>1. Cardinality(Again) <= Cardinality(Suspect) /\ Cardinality(Again) \in Nat
          /\ Cardinality(Suspect) \in Nat
      BY <2>1, SuspectIsFinite
    <3> QED
      BY <2>3, <2>5, <3>1 DEF CountInv, CrashReprintsOne
  <2> QED
    BY <2>4, <2>5
<1> QED
  BY <1>1, TypeInit, TypeStep, ShapeInit, ShapeStep, OnceInit, OnceStep, CountInit,
     CountStep, PTL DEF Spec
=============================================================================
