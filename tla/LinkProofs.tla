----------------------------- MODULE LinkProofs -----------------------------
(***************************************************************************)
(* Link for every printer, every length of a frame and of a connection:    *)
(* packets do not outrun their acknowledgements, a printer that looks for  *)
(* gaps is not told to feed, the frames that are read are those that were  *)
(* sent, a frame is not called confirmed on more reports of a finished     *)
(* print than the printer sent, and no piece of a frame reaches the        *)
(* printer that its header did not announce.                               *)
(***************************************************************************)
EXTENDS Link, WellFoundedInduction, FiniteSetTheorems, SequenceTheorems, TLAPS

-----------------------------------------------------------------------------
(***************************************************************************)
(* The gate of the acknowledgements.                                       *)
(***************************************************************************)

\* A packet that is let through has none before it that still waits, or only
\* those whose wait was given up.
GateInv ==
    /\ pending \in Nat /\ lapses \in Nat
    /\ link = "ble" => gate \in {"clear", "set"}
    /\ gate = "set" => pending <= lapses
    /\ Outpaced

LEMMA InitGate == LinkInit => GateInv
BY DEF LinkInit, Init, GateInv, Outpaced

LEMMA GateStep == GateInv /\ [LinkNext]_vars => GateInv'
<1> SUFFICES ASSUME GateInv, [LinkNext]_vars PROVE GateInv'
  OBVIOUS
<1>1. CASE UNCHANGED <<link, packets>>
  BY <1>1 DEF GateInv, Outpaced, packets
<1>2. CASE WritePacket
  <2>1. /\ pending' = pending + 1 /\ gate' = "clear" /\ UNCHANGED <<lapses, link>>
        /\ link = "ble" /\ ~Gated
    BY <1>2 DEF WritePacket, feedbackVars
  <2>2. pending <= lapses
    BY <2>1 DEF GateInv, Gated
  <2>3. QED
    BY <2>1, <2>2 DEF GateInv, Outpaced
<1>3. CASE AckArrives
  <2>1. /\ pending' = pending - 1 /\ pending > 0 /\ gate' = "set" /\ UNCHANGED <<lapses, link>>
    BY <1>3 DEF AckArrives, AckPacket
  <2>2. QED
    BY <2>1 DEF GateInv, Outpaced
<1>4. CASE AckLapses
  <2>1. lapses' = lapses + 1 /\ gate' = "set" /\ UNCHANGED <<pending, link>>
    BY <1>4 DEF AckLapses, feedbackVars
  <2>2. QED
    BY <2>1 DEF GateInv, Outpaced
<1>5. CASE Driver \/ WriteStream \/ WriteFails
  <2>1. UNCHANGED <<link, packets>>
    BY <1>5 DEF Driver, Connect, Initialised, PrintRaster, PrintTooTall, Await, Confirm, Assume,
       Return, WriteStream, WriteFails, feedbackVars
  <2>2. QED
    BY <1>1, <2>1
<1>6. CASE Receive \/ Speak
  <2>1. UNCHANGED <<link, packets>>
    BY <1>6 DEF Receive, Speak, Send, feedbackVars
  <2>2. QED
    BY <1>1, <2>1
<1>7. CASE Hear
  <2>1. UNCHANGED <<link, packets>>
    BY <1>7 DEF Hear, Parser, Resync, SkipUnknown, TakeFrame, Ingest, Read, linkVars
  <2>2. QED
    BY <1>1, <2>1
<1>8. CASE UNCHANGED vars
  <2>1. UNCHANGED <<link, packets>>
    BY <1>8 DEF vars, feedbackVars, linkVars
  <2>2. QED
    BY <1>1, <2>1
<1>9. QED
  BY <1>2, <1>3, <1>4, <1>5, <1>6, <1>7, <1>8 DEF LinkNext, Transport

\* However long the connection and whatever the printer's acknowledgements
\* do, the packets it has not acknowledged are one, and one more for each
\* wait that was given up.
THEOREM NeverOutrun == LinkSpec => []Outpaced
<1>1. GateInv => Outpaced
  BY DEF GateInv
<1>2. QED
  BY <1>1, InitGate, GateStep, PTL DEF LinkSpec

-----------------------------------------------------------------------------
(***************************************************************************)
(* The paper type and the feed.                                            *)
(***************************************************************************)

\* What the driver ever writes: its own paper type, and a feed only for tape
\* without gaps.
Allowed == {u \in Unit : /\ u \in Papers => u = paper
                         /\ u = "feed" => paper = "continuous"}
Unfed   == Allowed \ {"feed"}

\* The printer has the driver's paper type, or will have it before it
\* receives anything written from now on.
Told == held = paper \/ \E n \in 1..Len(air) : air[n] = paper

\* A feed on its way finds the printer told.
FeedFollows ==
    \A n \in 1..Len(air) : air[n] = "feed" =>
        held = paper \/ \E k \in 1..(n - 1) : air[k] = paper

PaperInv ==
    /\ paper \in Papers /\ ~runaway
    /\ air \in Seq(Allowed) /\ todo \in Seq(Seq(Allowed))
    /\ FeedFollows
    /\ pc \in {"ready", "frame", "wait", "sleep"} => Told
    /\ pc = "session" => /\ todo \in Seq(Seq(Unfed))
                         /\ Told \/ \E w \in 1..Len(todo) : todo[w] = <<paper>>

\* A write is cut anywhere.
LEMMA CutParts ==
    ASSUME NEW S, NEW s \in Seq(S), NEW n \in 0..Len(s)
    PROVE  SubSeq(s, 1, n) \in Seq(S) /\ SubSeq(s, n + 1, Len(s)) \in Seq(S)
OBVIOUS

LEMMA TodoParts ==
    ASSUME NEW S, NEW t \in Seq(Seq(S)), t # <<>>, NEW n \in 0..Len(Head(t))
    PROVE  /\ Head(t) \in Seq(S) /\ Tail(t) \in Seq(Seq(S)) /\ Head(t) = t[1]
           /\ SubSeq(Head(t), 1, n) \in Seq(S)
           /\ <<SubSeq(Head(t), n + 1, Len(Head(t)))>> \o Tail(t) \in Seq(Seq(S))
<1>1. Head(t) \in Seq(S) /\ Tail(t) \in Seq(Seq(S)) /\ Head(t) = t[1]
  OBVIOUS
<1>2. SubSeq(Head(t), 1, n) \in Seq(S) /\ SubSeq(Head(t), n + 1, Len(Head(t))) \in Seq(S)
  BY <1>1, CutParts
<1>3. ASSUME NEW r \in Seq(S) PROVE <<r>> \o Tail(t) \in Seq(Seq(S))
  BY <1>1
<1>4. QED
  BY <1>1, <1>2, <1>3

\* What is written joins what is under way.
LEMMA SendKeeps ==
    ASSUME PaperInv, UNCHANGED <<paper, held, runaway>>, NEW x \in Seq(Allowed),
           air' = air \o x, Told \/ x \in Seq(Unfed)
    PROVE  /\ air' \in Seq(Allowed) /\ FeedFollows'
           /\ Told => Told'
           /\ \A n \in 1..Len(x) : x[n] = paper => Told'
<1>1. air \in Seq(Allowed)
  BY DEF PaperInv
<1>2. /\ air' \in Seq(Allowed) /\ Len(air') = Len(air) + Len(x)
      /\ \A n \in 1..Len(air) : air'[n] = air[n]
      /\ \A n \in 1..Len(x) : air'[Len(air) + n] = x[n]
  BY <1>1
<1>3. Told => Told'
  BY <1>1, <1>2 DEF Told
<1>4. ASSUME NEW n \in 1..Len(x), x[n] = paper PROVE Told'
  <2>1. Len(air) + n \in 1..Len(air') /\ air'[Len(air) + n] = paper
    BY <1>1, <1>2, <1>4
  <2>2. QED
    BY <2>1 DEF Told
<1>5. ASSUME NEW n \in 1..Len(air'), air'[n] = "feed"
      PROVE  held = paper \/ \E k \in 1..(n - 1) : air'[k] = paper
  <2>1. CASE n <= Len(air)
    BY <1>1, <1>2, <1>5, <2>1 DEF PaperInv, FeedFollows
  <2>2. CASE n > Len(air)
    <3>1. n - Len(air) \in 1..Len(x) /\ x[n - Len(air)] = "feed"
      BY <1>1, <1>2, <1>5, <2>2
    <3>2. Told
      BY <3>1 DEF Unfed
    <3>3. QED
      BY <1>1, <1>2, <2>2, <3>2 DEF Told
  <2>3. QED
    BY <1>1, <2>1, <2>2
<1>6. FeedFollows'
  BY <1>5 DEF FeedFollows
<1>7. QED
  BY <1>2, <1>3, <1>4, <1>6

LEMMA SendsPaper ==
    ASSUME PaperInv, Writing, todo # <<>>, NEW n \in 0..Len(Head(todo)), Sends(n),
           n = Len(Head(todo)) \/ n # 0,
           UNCHANGED <<paper, pc, held, runaway>>
    PROVE  PaperInv'
<1> DEFINE x == SubSeq(Head(todo), 1, n)
           rest == SubSeq(Head(todo), n + 1, Len(Head(todo)))
<1>1. /\ air' = air \o x
      /\ todo' = IF n = Len(Head(todo)) THEN Tail(todo) ELSE <<rest>> \o Tail(todo)
  BY DEF Sends
<1>2. todo \in Seq(Seq(Allowed)) /\ n \in 0..Len(Head(todo))
  BY DEF PaperInv
<1>3. /\ x \in Seq(Allowed) /\ Tail(todo) \in Seq(Seq(Allowed))
      /\ <<rest>> \o Tail(todo) \in Seq(Seq(Allowed))
  BY <1>2, TodoParts
<1> HIDE DEF x, rest
<1>4. todo' \in Seq(Seq(Allowed)) /\ Allowed' = Allowed /\ Unfed' = Unfed
  BY <1>1, <1>3 DEF Allowed, Unfed
<1>5. CASE pc = "frame"
  <2>1. Told
    BY <1>5 DEF PaperInv
  <2>2. air' \in Seq(Allowed) /\ FeedFollows' /\ Told'
    BY <1>1, <1>3, <2>1, SendKeeps
  <2>3. QED
    BY <1>4, <1>5, <2>2 DEF PaperInv
<1>6. CASE pc = "session"
  <2>1. todo \in Seq(Seq(Unfed))
    BY <1>6 DEF PaperInv
  <2>2. /\ x \in Seq(Unfed) /\ Tail(todo) \in Seq(Seq(Unfed)) /\ Head(todo) = todo[1]
        /\ <<rest>> \o Tail(todo) \in Seq(Seq(Unfed))
    BY <1>2, <2>1, TodoParts DEF x, rest
  <2>3. /\ air' \in Seq(Allowed) /\ FeedFollows'
        /\ Told => Told'
        /\ \A k \in 1..Len(x) : x[k] = paper => Told'
    BY <1>1, <1>3, <2>2, SendKeeps
  <2>4. todo' \in Seq(Seq(Unfed))
    BY <1>1, <2>2
  <2>5. Told' \/ \E w \in 1..Len(todo') : todo'[w] = <<paper>>
    <3>1. CASE Told
      BY <2>3, <3>1
    <3>2. ASSUME NEW w \in 1..Len(todo), todo[w] = <<paper>>
          PROVE  Told' \/ \E v \in 1..Len(todo') : todo'[v] = <<paper>>
      <4>1. CASE w = 1
        <5>1. Head(todo) = <<paper>> /\ Len(<<paper>>) = 1 /\ <<paper>>[1] = paper
          BY <2>2, <3>2, <4>1
        <5>2. n = 1
          <6>1. Len(Head(todo)) = 1
            BY <5>1
          <6>2. n \in 0..1 /\ (n = 1 \/ n # 0)
            BY <1>2, <6>1
          <6>3. QED
            BY <6>2
        <5>3. 1 \in 1..Len(x) /\ x[1] = paper
          BY <5>1, <5>2 DEF x
        <5>4. QED
          BY <2>3, <5>3
      <4>2. CASE w > 1 /\ n = Len(Head(todo))
        <5>1. todo' = Tail(todo)
          BY <1>1, <4>2
        <5>2. w - 1 \in 1..Len(Tail(todo)) /\ Tail(todo)[w - 1] = todo[w]
          BY <1>2, <4>2
        <5>3. QED
          BY <3>2, <5>1, <5>2
      <4>3. CASE w > 1 /\ n # Len(Head(todo))
        <5>1. todo' = <<rest>> \o Tail(todo) /\ Tail(todo) \in Seq(Seq(Allowed))
          BY <1>1, <1>3, <4>3
        <5>2. w \in 1..Len(todo') /\ todo'[w] = Tail(todo)[w - 1]
          BY <1>2, <5>1, <4>3
        <5>3. Tail(todo)[w - 1] = todo[w]
          BY <1>2, <4>3
        <5>4. QED
          BY <3>2, <5>2, <5>3
      <4>4. QED
        BY <4>1, <4>2, <4>3
    <3>3. QED
      BY <1>6, <3>1, <3>2 DEF PaperInv
  <2>6. QED
    BY <1>4, <1>6, <2>3, <2>4, <2>5 DEF PaperInv
<1>7. QED
  BY <1>5, <1>6 DEF Writing

LEMMA WritePaper ==
    ASSUME PaperInv, WriteStream \/ WritePacket \/ WriteFails
    PROVE  PaperInv'
<1>1. CASE WriteStream
  <2>1. Len(Head(todo)) \in 1..Len(Head(todo)) \/ Len(Head(todo)) = 0
    BY <1>1, TodoParts DEF WriteStream, PaperInv
  <2>2. QED
    BY <1>1, <2>1, SendsPaper DEF WriteStream, printer, feedbackVars
<1>2. CASE WritePacket
  BY <1>2, SendsPaper DEF WritePacket, printer
<1>3. CASE WriteFails
  <2>1. PICK n \in 0..Len(Head(todo)) : air' = air \o SubSeq(Head(todo), 1, n)
    BY <1>3 DEF WriteFails
  <2>2. /\ Writing /\ todo # <<>> /\ pc' = "failed" /\ todo' = <<>>
        /\ UNCHANGED <<paper, held, runaway>>
    BY <1>3 DEF WriteFails, printer
  <2>3. SubSeq(Head(todo), 1, n) \in Seq(Allowed)
    BY <2>1, <2>2, TodoParts DEF PaperInv
  <2>4. Told \/ SubSeq(Head(todo), 1, n) \in Seq(Unfed)
    BY <2>1, <2>2, TodoParts DEF PaperInv, Writing
  <2>5. air' \in Seq(Allowed) /\ FeedFollows'
    BY <2>1, <2>2, <2>3, <2>4, SendKeeps
  <2>6. Allowed' = Allowed
    BY <2>2 DEF Allowed
  <2>7. QED
    BY <2>2, <2>5, <2>6 DEF PaperInv
<1>4. QED
  BY <1>1, <1>2, <1>3

\* A call writes the paper type before anything that depends on it.
LEMMA SessionPaper ==
    ASSUME paper \in Papers
    PROVE  /\ Session \in Seq(Seq(Unfed)) /\ Session \in Seq(Seq(Allowed))
           /\ 2 \in 1..Len(Session) /\ Session[2] = <<paper>>
<1>1. "query" \in Unfed /\ paper \in Unfed
  BY DEF Unfed, Allowed, Unit, Papers
<1>2. <<"query">> \in Seq(Unfed) /\ <<paper>> \in Seq(Unfed)
  BY <1>1
<1>3. Session \in Seq(Seq(Unfed))
  BY <1>2 DEF Session
<1>4. <<"query">> \in Seq(Allowed) /\ <<paper>> \in Seq(Allowed)
  BY <1>1 DEF Unfed
<1>5. Session \in Seq(Seq(Allowed))
  BY <1>4 DEF Session
<1>6. QED
  BY <1>3, <1>5 DEF Session

LEMMA FramePaper ==
    ASSUME paper \in Papers
    PROVE  <<Preamble>> \o Body \o Feed \in Seq(Seq(Allowed))
<1>1. paper \in Allowed /\ "header" \in Allowed /\ "body" \in Allowed
  BY DEF Allowed, Unit, Papers
<1>2. <<Preamble>> \in Seq(Seq(Allowed))
  BY <1>1 DEF Preamble
<1>3. Body \in Seq(Seq(Allowed))
  <2>1. <<"body">> \in Seq(Allowed) /\ Rows \in Nat
    BY <1>1, LinkAssumption
  <2>2. QED
    BY <2>1 DEF Body
<1>4. Feed \in Seq(Seq(Allowed))
  <2>1. paper = "continuous" => "feed" \in Allowed
    BY DEF Allowed, Unit, Papers
  <2>2. QED
    BY <2>1 DEF Feed
<1>5. QED
  BY <1>2, <1>3, <1>4

LEMMA DriverPaper ==
    ASSUME PaperInv, Driver
    PROVE  PaperInv'
<1>1. /\ UNCHANGED <<paper, held, runaway, air>>
      /\ paper \in Papers
  BY DEF Driver, Connect, Initialised, PrintRaster, PrintTooTall, Await, Confirm, Assume, Return,
     printer, PaperInv
<1>2. /\ Told' = Told /\ FeedFollows' = FeedFollows
      /\ Allowed' = Allowed /\ Unfed' = Unfed
  BY <1>1 DEF Told, FeedFollows, Allowed, Unfed
<1>3. CASE Connect
  <2>1. CASE pc' = "session" /\ todo' = Session
    BY <1>1, <1>2, <2>1, SessionPaper DEF PaperInv
  <2>2. CASE pc' = "failed" /\ UNCHANGED todo
    BY <1>1, <1>2, <2>2 DEF PaperInv
  <2>3. QED
    BY <1>3, <2>1, <2>2 DEF Connect
<1>4. CASE Initialised
  <2>1. pc = "session" /\ todo = <<>> /\ pc' = "ready" /\ UNCHANGED todo
    BY <1>4 DEF Initialised, Written
  <2>2. Told
    BY <2>1 DEF PaperInv
  <2>3. QED
    BY <1>1, <1>2, <2>1, <2>2 DEF PaperInv
<1>5. CASE PrintRaster
  <2>1. pc = "ready" /\ pc' = "frame" /\ todo' \in Seq(Seq(Allowed))
    BY <1>1, <1>5, FramePaper DEF PrintRaster
  <2>2. QED
    BY <1>1, <1>2, <2>1 DEF PaperInv
<1>6. CASE PrintTooTall \/ Await \/ Confirm \/ Assume
  <2>1. /\ pc \in {"ready", "frame", "wait", "sleep"} /\ UNCHANGED todo
        /\ pc' \in {"ready", "wait", "sleep", "failed"}
    BY <1>6 DEF PrintTooTall, Await, Confirm, Assume, Return
  <2>2. QED
    BY <1>1, <1>2, <2>1 DEF PaperInv
<1>7. QED
  BY <1>3, <1>4, <1>5, <1>6 DEF Driver

\* The printer takes what is written in the order it was written.
LEMMA ReceivePaper ==
    ASSUME PaperInv, Receive
    PROVE  PaperInv'
<1>1. /\ air # <<>> /\ air' = Tail(air) /\ UNCHANGED <<paper, pc, todo>>
      /\ held' = IF Head(air) \in Papers THEN Head(air) ELSE held
      /\ runaway' = (runaway \/ (Head(air) = "feed" /\ held = "gap"))
  BY DEF Receive, driver
<1>2. /\ air \in Seq(Allowed) /\ air' \in Seq(Allowed) /\ Head(air) \in Allowed
      /\ Head(air) = air[1] /\ 1 \in 1..Len(air)
      /\ Len(air') = Len(air) - 1 /\ \A n \in 1..Len(air') : air'[n] = air[n + 1]
  BY <1>1 DEF PaperInv
<1>3. /\ Allowed' = Allowed /\ Unfed' = Unfed
      /\ Head(air) \in Papers => Head(air) = paper
      /\ Head(air) = "feed" => paper = "continuous"
  BY <1>1, <1>2 DEF Allowed, Unfed
<1>4. paper \in Papers
  BY DEF PaperInv
<1>5. Head(air) = paper => held' = paper
  BY <1>1, <1>4
<1>6. held = paper => held' = paper
  BY <1>1, <1>3
<1>7. Told => Told'
  <2>1. ASSUME NEW n \in 1..Len(air), air[n] = paper PROVE Told'
    <3>1. CASE n = 1
      BY <1>1, <1>2, <1>5, <2>1, <3>1 DEF Told
    <3>2. CASE n > 1
      <4>1. n - 1 \in 1..Len(air') /\ air'[n - 1] = paper
        BY <1>2, <2>1, <3>2
      <4>2. QED
        BY <1>1, <4>1 DEF Told
    <3>3. QED
      BY <3>1, <3>2
  <2>2. held = paper => Told'
    BY <1>1, <1>6 DEF Told
  <2>3. QED
    BY <2>1, <2>2 DEF Told
<1>8. FeedFollows'
  <2>1. SUFFICES ASSUME NEW n \in 1..Len(air'), air'[n] = "feed"
                 PROVE  held' = paper \/ \E k \in 1..(n - 1) : air'[k] = paper
    BY <1>1 DEF FeedFollows
  <2>2. n + 1 \in 1..Len(air) /\ air[n + 1] = "feed"
    BY <1>2, <2>1
  <2>3. held = paper \/ \E k \in 1..n : air[k] = paper
    BY <2>2 DEF PaperInv, FeedFollows
  <2>4. ASSUME NEW k \in 1..n, air[k] = paper
        PROVE  held' = paper \/ \E m \in 1..(n - 1) : air'[m] = paper
    <3>1. CASE k = 1
      BY <1>2, <1>5, <2>4, <3>1
    <3>2. CASE k > 1
      <4>1. k - 1 \in 1..(n - 1) /\ k - 1 \in 1..Len(air') /\ (k - 1) + 1 = k
        BY <1>2, <3>2
      <4>2. air'[k - 1] = paper
        BY <1>2, <2>4, <4>1
      <4>3. QED
        BY <4>1, <4>2
    <3>3. QED
      BY <3>1, <3>2
  <2>5. QED
    BY <1>6, <2>3, <2>4
<1>9. ~runaway'
  <2>1. Head(air) = "feed" => held = paper
    BY <1>2 DEF PaperInv, FeedFollows
  <2>2. QED
    BY <1>1, <1>3, <2>1 DEF PaperInv
<1>10. QED
  BY <1>1, <1>2, <1>3, <1>4, <1>7, <1>8, <1>9 DEF PaperInv

LEMMA PaperStep == PaperInv /\ [LinkNext]_vars => PaperInv'
<1> SUFFICES ASSUME PaperInv, [LinkNext]_vars PROVE PaperInv'
  OBVIOUS
<1>1. CASE UNCHANGED <<paper, pc, todo, air, held, runaway>>
  BY <1>1 DEF PaperInv, Told, FeedFollows, Allowed, Unfed
<1>2. CASE AckArrives \/ AckLapses
  BY <1>1, <1>2 DEF AckArrives, AckLapses, driver, printer
<1>3. CASE Speak \/ Hear \/ UNCHANGED vars
  BY <1>1, <1>3 DEF Speak, Hear, vars, linkVars, driver, printer
<1>4. QED
  BY <1>2, <1>3, DriverPaper, WritePaper, ReceivePaper DEF LinkNext, Transport

LEMMA InitPaper == LinkInit => PaperInv
<1> SUFFICES ASSUME LinkInit PROVE PaperInv
  OBVIOUS
<1>1. air = <<>> /\ todo = <<>> /\ pc = "closed" /\ paper \in Papers /\ ~runaway
  BY DEF LinkInit
<1>2. air \in Seq(Allowed) /\ todo \in Seq(Seq(Allowed)) /\ Len(air) = 0
  BY <1>1
<1>3. FeedFollows
  BY <1>2 DEF FeedFollows
<1>4. QED
  BY <1>1, <1>2, <1>3 DEF PaperInv

\* Whatever paper type the printer held when the connection was made, however
\* its writes are cut and wherever one fails, a feed reaches a printer that
\* has been told the tape has no gaps.
THEOREM GapIsNeverFed == LinkSpec => []NoRunaway
<1>1. PaperInv => NoRunaway
  BY DEF PaperInv, NoRunaway
<1>2. QED
  BY <1>1, InitPaper, PaperStep, PTL DEF LinkSpec

-----------------------------------------------------------------------------
(***************************************************************************)
(* Counting.                                                               *)
(***************************************************************************)
LEMMA MarksAppend ==
    ASSUME NEW n \in Nat, NEW A \in SUBSET (1..n), NEW marked \in BOOLEAN
    PROVE  /\ IsFiniteSet(A) /\ Cardinality(A) \in Nat
           /\ Cardinality(A \cup {m \in {n + 1} : marked}) =
                  Cardinality(A) + (IF marked THEN 1 ELSE 0)
<1>1. IsFiniteSet(1..n)
  BY FS_Interval
<1>2. IsFiniteSet(A) /\ Cardinality(A) \in Nat
  BY <1>1, FS_Subset, FS_CardinalityType
<1>3. CASE marked
  <2>1. n + 1 \notin A /\ {m \in {n + 1} : marked} = {n + 1}
    BY <1>3
  <2> QED
    BY <1>2, <1>3, <2>1, FS_AddElement
<1>4. CASE ~marked
  <2>1. A \cup {m \in {n + 1} : marked} = A
    BY <1>4
  <2> QED
    BY <1>2, <1>4, <2>1
<1> QED
  BY <1>2, <1>3, <1>4

LEMMA CompletionsAppend ==
    ASSUME NEW s \in Seq(Frame), NEW f \in Frame
    PROVE  /\ Cardinality(Completions(s)) \in Nat
           /\ Cardinality(Completions(Append(s, f))) =
                  Cardinality(Completions(s)) + (IF f.tag = PRINT_COMPLETE THEN 1 ELSE 0)
<1> DEFINE n == Len(s)
           A == Completions(s)
           marked == f.tag = PRINT_COMPLETE
<1>1. n \in Nat /\ A \in SUBSET (1..n) /\ marked \in BOOLEAN
  BY DEF Completions
<1>2. Completions(Append(s, f)) = A \cup {m \in {n + 1} : marked}
  BY DEF Completions
<1> HIDE DEF n, A, marked
<1>3. /\ Cardinality(A) \in Nat
      /\ Cardinality(A \cup {m \in {n + 1} : marked}) =
             Cardinality(A) + (IF marked THEN 1 ELSE 0)
  BY <1>1, MarksAppend
<1> QED
  BY <1>2, <1>3 DEF A, marked

LEMMA CountAppend ==
    ASSUME NEW S, NEW s \in Seq(S), NEW x \in S, NEW y \in S
    PROVE  /\ Count(s, x) \in Nat
           /\ Count(Append(s, y), x) = Count(s, x) + (IF y = x THEN 1 ELSE 0)
<1> DEFINE n == Len(s)
           A == {m \in 1..Len(s) : s[m] = x}
           marked == y = x
<1>1. n \in Nat /\ A \in SUBSET (1..n) /\ marked \in BOOLEAN
  OBVIOUS
<1>2. {m \in 1..Len(Append(s, y)) : Append(s, y)[m] = x} = A \cup {m \in {n + 1} : marked}
  OBVIOUS
<1> HIDE DEF n, A, marked
<1>3. /\ Cardinality(A) \in Nat
      /\ Cardinality(A \cup {m \in {n + 1} : marked}) =
             Cardinality(A) + (IF marked THEN 1 ELSE 0)
  BY <1>1, MarksAppend
<1> QED
  BY <1>2, <1>3 DEF A, marked, Count

-----------------------------------------------------------------------------
(***************************************************************************)
(* The frames the table knows.  Understood is a recursive function: what   *)
(* it computes is proved by induction over sets of numbers.                *)
(***************************************************************************)
\* A set with 0 and all successors has every number.
LEMMA Induction ==
    ASSUME NEW S, 0 \in S, \A n \in Nat : n \in S => n + 1 \in S
    PROVE  Nat \subseteq S
<1> DEFINE T == {n \in Nat : n \notin S}
<1>1. ASSUME T # {} PROVE FALSE
  <2>1. PICK m \in T : \A k \in T : <<k, m>> \notin OpToRel(<, Nat)
    BY <1>1, WFMin, NatLessThanWellFounded, Zenon
  <2>2. \A k \in T : ~(k < m)
    BY <2>1, Zenon DEF OpToRel
  <2>3. m # 0 /\ m \in Nat
    OBVIOUS
  <2>4. m - 1 \in Nat /\ m - 1 < m /\ (m - 1) + 1 = m
    BY <2>3
  <2>5. m - 1 \in S
    BY <2>2, <2>4
  <2> QED
    BY <2>4, <2>5
<1> QED
  BY <1>1

\* One entry of Understood from the one before it.
Extended(fs, n, last) == IF Known(fs[n].tag) THEN Append(last, fs[n]) ELSE last

\* A table of the first entries, as far as n.
Table(fs, n, g) ==
    \A k \in 0..n : g[k] = IF k = 0 THEN <<>> ELSE Extended(fs, k, g[k - 1])

\* There is a table as far as one likes.
LEMMA TableExists ==
    ASSUME NEW fs, NEW n \in Nat
    PROVE  \E g : Table(fs, n, g)
<1> DEFINE S == {m \in Nat : \E g : Table(fs, m, g)}
<1>1. 0 \in S
  <2>1. Table(fs, 0, [k \in {0} |-> <<>>])
    BY DEF Table
  <2> QED
    BY <2>1
<1>2. ASSUME NEW m \in Nat, m \in S PROVE m + 1 \in S
  <2>1. PICK g : Table(fs, m, g)
    BY <1>2
  <2> DEFINE h == [k \in 0..(m + 1) |-> IF k = m + 1 THEN Extended(fs, k, g[m]) ELSE g[k]]
  <2>2. Table(fs, m + 1, h)
    <3> SUFFICES ASSUME NEW k \in 0..(m + 1)
                 PROVE  h[k] = IF k = 0 THEN <<>> ELSE Extended(fs, k, h[k - 1])
      BY DEF Table
    <3>1. CASE k = m + 1
      <4>1. k # 0 /\ k - 1 = m /\ m \in 0..(m + 1) /\ m # m + 1
        BY <3>1
      <4> QED
        BY <3>1, <4>1
    <3>2. CASE k # m + 1
      <4>1. k \in 0..m /\ (k # 0 => k - 1 \in 0..(m + 1) /\ k - 1 # m + 1)
        BY <3>2
      <4>2. g[k] = IF k = 0 THEN <<>> ELSE Extended(fs, k, g[k - 1])
        BY <2>1, <4>1 DEF Table
      <4> QED
        BY <3>2, <4>1, <4>2
    <3> QED
      BY <3>1, <3>2
  <2> HIDE DEF h
  <2> QED
    BY <2>2
<1> HIDE DEF S
<1>3. Nat \subseteq S
  BY <1>1, <1>2, Induction
<1> QED
  BY <1>3 DEF S

\* Two tables agree as far as both go and the frames they are made of do.
LEMMA TablesAgree ==
    ASSUME NEW fs, NEW gs, NEW n \in Nat, NEW m \in Nat, NEW g, NEW h,
           Table(fs, n, g), Table(gs, m, h), NEW l \in Nat, l <= n, l <= m,
           \A k \in 1..l : fs[k] = gs[k]
    PROVE  \A k \in Nat : k <= l => g[k] = h[k]
<1> DEFINE S == {k \in Nat : k <= l => g[k] = h[k]}
<1>1. 0 \in S
  BY DEF Table
<1>2. ASSUME NEW k \in Nat, k \in S PROVE k + 1 \in S
  <2> SUFFICES ASSUME k + 1 <= l PROVE g[k + 1] = h[k + 1]
    OBVIOUS
  <2>1. k + 1 \in 0..n /\ k + 1 \in 0..m /\ k + 1 # 0 /\ (k + 1) - 1 = k /\ k + 1 \in 1..l
    OBVIOUS
  <2>2. g[k + 1] = Extended(fs, k + 1, g[k]) /\ h[k + 1] = Extended(gs, k + 1, h[k])
    BY <2>1 DEF Table
  <2>3. g[k] = h[k] /\ fs[k + 1] = gs[k + 1]
    BY <1>2, <2>1
  <2> QED
    BY <2>2, <2>3 DEF Extended
<1> HIDE DEF S
<1>3. Nat \subseteq S
  BY <1>1, <1>2, Induction
<1> QED
  BY <1>3 DEF S

\* Understood adds one frame after the other.
LEMMA UnderstoodStep ==
    ASSUME NEW fs
    PROVE  /\ Understood(fs)[0] = <<>>
           /\ \A n \in Nat : Understood(fs)[n + 1] = Extended(fs, n + 1, Understood(fs)[n])
<1> DEFINE G(n) == CHOOSE g : Table(fs, n, g)
           f    == [n \in Nat |-> G(n)[n]]
<1>1. \A n \in Nat : Table(fs, n, G(n))
  BY TableExists, Zenon
<1> HIDE DEF G
<1>2. f = [n \in Nat |-> IF n = 0 THEN <<>> ELSE Extended(fs, n, f[n - 1])]
  <2> SUFFICES ASSUME NEW n \in Nat PROVE f[n] = IF n = 0 THEN <<>> ELSE Extended(fs, n, f[n - 1])
    BY Zenon
  <2>1. G(n)[n] = IF n = 0 THEN <<>> ELSE Extended(fs, n, G(n)[n - 1])
    BY <1>1 DEF Table
  <2>2. CASE n = 0
    BY <2>1, <2>2
  <2>3. CASE n # 0
    <3>1. n - 1 \in Nat /\ n - 1 <= n /\ n - 1 <= n - 1
      BY <2>3
    <3>2. G(n - 1)[n - 1] = G(n)[n - 1]
      BY <1>1, <3>1, TablesAgree
    <3> QED
      BY <2>1, <2>3, <3>1, <3>2
  <2> QED
    BY <2>2, <2>3
<1> HIDE DEF f
<1>3. Understood(fs) = [n \in Nat |-> IF n = 0 THEN <<>> ELSE Extended(fs, n, Understood(fs)[n - 1])]
  BY <1>2, Zenon DEF Understood, Extended
<1>4. ASSUME NEW n \in Nat
      PROVE  Understood(fs)[n] = IF n = 0 THEN <<>> ELSE Extended(fs, n, Understood(fs)[n - 1])
  BY <1>3, Zenon
<1> QED
  <2>1. Understood(fs)[0] = <<>>
    BY <1>4
  <2>2. ASSUME NEW n \in Nat
        PROVE  Understood(fs)[n + 1] = Extended(fs, n + 1, Understood(fs)[n])
    <3>1. n + 1 \in Nat /\ n + 1 # 0 /\ (n + 1) - 1 = n
      OBVIOUS
    <3> QED
      BY <1>4, <3>1
  <2> QED
    BY <2>1, <2>2

\* What is sent later changes nothing about what was sent before.
LEMMA UnderstoodSame ==
    ASSUME NEW fs, NEW gs, NEW l \in Nat, \A k \in 1..l : fs[k] = gs[k]
    PROVE  Understood(fs)[l] = Understood(gs)[l]
<1>1. ASSUME NEW hs
      PROVE  Table(hs, l, Understood(hs))
  <2> SUFFICES ASSUME NEW k \in 0..l
               PROVE  Understood(hs)[k] = IF k = 0 THEN <<>> ELSE Extended(hs, k, Understood(hs)[k - 1])
    BY DEF Table
  <2>1. CASE k = 0
    BY <2>1, UnderstoodStep
  <2>2. CASE k # 0
    <3>1. k - 1 \in Nat /\ (k - 1) + 1 = k
      BY <2>2
    <3>2. Understood(hs)[(k - 1) + 1] = Extended(hs, (k - 1) + 1, Understood(hs)[k - 1])
      BY <3>1, UnderstoodStep
    <3> QED
      BY <2>2, <3>1, <3>2
  <2> QED
    BY <2>1, <2>2
<1>2. Table(fs, l, Understood(fs)) /\ Table(gs, l, Understood(gs)) /\ l <= l
  BY <1>1
<1> QED
  BY <1>2, TablesAgree

-----------------------------------------------------------------------------
(***************************************************************************)
(* The stream.  What the parser has still to look at, read or not, is what *)
(* is left of a stream that begins in the middle of a frame, and then the  *)
(* frames that were sent, one behind the other.                            *)
(***************************************************************************)
Stream == buf \o wire

AckFree(s)    == \A n \in 1..(Len(s) - 1) : ~(s[n] = 1 /\ s[n + 1] = 1)
Unprefixed(s) == \A n \in 1..Len(s) : ~IsPrefixByte(s[n])

\* No byte of a frame's unread end, or of a frame the table does not know, is
\* taken for the beginning of one, and no slice of a frame for a packet's
\* acknowledgement.
Unambiguous ==
    /\ \A s \in Leftover : AckFree(s) /\ Unprefixed(s)
    /\ \A f \in Reply : /\ AckFree(Encoded(f))
                        /\ ~Known(f.tag) => Unprefixed(f.raw)

\* Of the frames sent, k are behind the parser; b bytes of the stream are,
\* and frame n begins at byte p[n].
Framed(k, b, p) ==
    /\ k \in 0..Len(sent) /\ b \in Nat /\ p \in [1..(Len(sent) + 1) -> Nat]
    /\ \A m, n \in 1..(Len(sent) + 1) : m <= n => p[m] <= p[n]
    /\ p[Len(sent) + 1] = b + Len(Stream) + 1
    /\ b < p[k + 1]
    /\ \A m \in 1..(p[k + 1] - b - 1) : ~IsPrefixByte(Stream[m])
    /\ \A n \in (k + 1)..Len(sent) :
         /\ p[n + 1] = p[n] + Len(Encoded(sent[n]))
         /\ \A m \in 1..Len(Encoded(sent[n])) : Stream[p[n] - b + m - 1] = Encoded(sent[n])[m]

\* What the printer has said and is about to say.
Said == sent \o owed

FeedbackInv ==
    /\ buf \in Seq(Byte) /\ wire \in Seq(Byte) /\ AckFree(wire)
    /\ sent \in Seq(Reply) /\ owed \in Seq(Reply) /\ found \in Seq(Frame)
    /\ frames \in Seq(Frame) /\ completed \in Nat

PassedCount(k) == Cardinality({n \in Completions(sent) : n <= k})

\* Of k frames all have come out that the table knows, and all completions have
\* been counted or are about to be.
Heard(k) ==
    /\ completed + Cardinality(Completions(found)) = PassedCount(k)
    /\ frames \o found = Understood(sent)[k]

\* The frames that have come out are those that the parser has passed.
HeardInv == \E k \in Nat, b \in Nat, p \in [1..(Len(sent) + 1) -> Nat] :
    Framed(k, b, p) /\ Heard(k)

LEMMA TagLengths ==
    /\ \A t \in FixedTag : PayloadLength(t) \in Nat
    /\ LENGTH_PREFIXED \notin FixedTag
    /\ Known(PRINT_COMPLETE)
<1>1. \A t \in FixedTag : PayloadLength(t) \in Nat
  <2>1. DOMAIN TagsOfLength \subseteq Nat
    BY DEF TagsOfLength
  <2>2. ASSUME NEW t \in FixedTag
        PROVE  \E n \in DOMAIN TagsOfLength : t \in TagsOfLength[n]
    BY DEF FixedTag
  <2> QED
    BY <2>1, <2>2 DEF PayloadLength
<1>2. LENGTH_PREFIXED \notin FixedTag
  BY DEF FixedTag, TagsOfLength, LENGTH_PREFIXED
<1>3. PRINT_COMPLETE \in FixedTag
  BY DEF FixedTag, TagsOfLength, PRINT_COMPLETE
<1> QED
  BY <1>1, <1>2, <1>3 DEF Known

LEMMA EncodedParts ==
    ASSUME NEW f \in Reply
    PROVE  /\ f \in Frame /\ f.tag \in Byte /\ f.raw \in Seq(Byte) /\ Encoded(f) \in Seq(Byte)
           /\ Len(Encoded(f)) >= 2
           /\ Encoded(f)[1] = STATUS_PREFIX /\ Encoded(f)[2] = f.tag
           /\ f.tag # LENGTH_PREFIXED =>
                 /\ Len(Encoded(f)) = 2 + Len(f.raw)
                 /\ \A n \in 1..Len(f.raw) : Encoded(f)[n + 2] = f.raw[n]
           /\ f.tag = LENGTH_PREFIXED =>
                 /\ Len(Encoded(f)) = 3 + Len(f.raw) /\ Encoded(f)[3] = Len(f.raw)
                 /\ \A n \in 1..Len(f.raw) : Encoded(f)[n + 3] = f.raw[n]
           /\ f.tag \in FixedTag => Len(f.raw) = PayloadLength(f.tag)
<1>1. f \in Frame /\ f.tag \in Byte /\ f.raw \in Seq(Byte)
  BY ReplyAssumption DEF Frame
<1>2. f.tag \in FixedTag => Len(f.raw) = PayloadLength(f.tag)
  BY ReplyAssumption
<1>3. STATUS_PREFIX \in Byte
  BY DEF Byte, STATUS_PREFIX
<1>4. CASE f.tag = LENGTH_PREFIXED
  <2>1. <<STATUS_PREFIX, f.tag, Len(f.raw)>> \in Seq(Byte)
    BY <1>1, <1>3, <1>4, ReplyAssumption
  <2> QED
    BY <1>1, <1>2, <1>4, <2>1 DEF Encoded
<1>5. CASE f.tag # LENGTH_PREFIXED
  <2>1. <<STATUS_PREFIX, f.tag>> \in Seq(Byte)
    BY <1>1, <1>3
  <2> QED
    BY <1>1, <1>2, <1>5, <2>1 DEF Encoded
<1> QED
  BY <1>4, <1>5

\* What f says and how e puts it.
Parts(f, e) ==
    /\ e \in Seq(Byte) /\ Len(e) \in Nat /\ Len(e) >= 2
    /\ f.tag \in Byte /\ f.raw \in Seq(Byte) /\ f \in Frame
    /\ e[1] = STATUS_PREFIX /\ e[2] = f.tag
    /\ f.tag # LENGTH_PREFIXED =>
          /\ Len(e) = 2 + Len(f.raw)
          /\ \A n \in 1..Len(f.raw) : e[n + 2] = f.raw[n]
    /\ f.tag = LENGTH_PREFIXED =>
          /\ Len(e) = 3 + Len(f.raw) /\ e[3] = Len(f.raw)
          /\ \A n \in 1..Len(f.raw) : e[n + 3] = f.raw[n]
    /\ f.tag \in FixedTag => Len(f.raw) = PayloadLength(f.tag)

LEMMA EncodedIs ==
    ASSUME NEW f \in Reply, NEW e, e = Encoded(f)
    PROVE  Parts(f, e)
<1>1. Parts(f, Encoded(f))
  BY EncodedParts, SMTT(30) DEF Parts
<1> QED
  BY <1>1

LEMMA JoinParts ==
    ASSUME NEW S, NEW q \in Seq(S), NEW r \in Seq(S)
    PROVE  /\ q \o r \in Seq(S) /\ Len(q \o r) = Len(q) + Len(r)
           /\ \A m \in 1..Len(q) : (q \o r)[m] = q[m]
           /\ \A m \in 1..Len(r) : (q \o r)[Len(q) + m] = r[m]
OBVIOUS

LEMMA DropStream ==
    ASSUME buf \in Seq(Byte), wire \in Seq(Byte), NEW d \in 0..Len(buf), Drop(d), wire' = wire
    PROVE  /\ buf' \in Seq(Byte) /\ Len(Stream) \in Nat /\ Len(buf) <= Len(Stream)
           /\ Len(Stream') = Len(Stream) - d
           /\ \A m \in 1..Len(buf) : Stream[m] = buf[m]
           /\ \A m \in 1..(Len(Stream) - d) : Stream'[m] = Stream[m + d]
<1>1. buf' = SubSeq(buf, d + 1, Len(buf))
  BY DEF Drop
<1>2. /\ buf' \in Seq(Byte) /\ Len(buf') = Len(buf) - d
      /\ \A m \in 1..(Len(buf) - d) : buf'[m] = buf[m + d]
  BY <1>1
<1>3. /\ Len(buf \o wire) = Len(buf) + Len(wire) /\ Len(buf) \in Nat /\ Len(wire) \in Nat
      /\ \A m \in 1..Len(buf) : (buf \o wire)[m] = buf[m]
      /\ \A m \in 1..Len(wire) : (buf \o wire)[Len(buf) + m] = wire[m]
  OBVIOUS
<1>4. /\ Len(buf' \o wire) = Len(buf') + Len(wire)
      /\ \A m \in 1..Len(buf') : (buf' \o wire)[m] = buf'[m]
      /\ \A m \in 1..Len(wire) : (buf' \o wire)[Len(buf') + m] = wire[m]
  <2>1. PICK c \in Seq(Byte) : c = buf'
    BY <1>2
  <2>2. /\ Len(c \o wire) = Len(c) + Len(wire)
        /\ \A m \in 1..Len(c) : (c \o wire)[m] = c[m]
        /\ \A m \in 1..Len(wire) : (c \o wire)[Len(c) + m] = wire[m]
    BY JoinParts
  <2> QED
    BY <2>1, <2>2
<1>5. Stream = buf \o wire /\ Stream' = buf' \o wire
  BY DEF Stream
<1>6. ASSUME NEW m \in 1..(Len(Stream) - d)
      PROVE  Stream'[m] = Stream[m + d]
  <2>1. CASE m <= Len(buf) - d
    <3>1. m \in 1..(Len(buf) - d) /\ m \in 1..Len(buf') /\ m + d \in 1..Len(buf)
      BY <1>2, <1>3, <2>1
    <3> QED
      BY <1>2, <1>3, <1>4, <1>5, <3>1
  <2>2. CASE m > Len(buf) - d
    <3>1. PICK w \in 1..Len(wire) : w = m - (Len(buf) - d)
      BY <1>3, <1>5, <2>2
    <3>2. m = Len(buf') + w /\ m + d = Len(buf) + w
      BY <1>2, <1>3, <3>1
    <3> QED
      BY <1>3, <1>4, <1>5, <3>2
  <2> QED
    BY <1>3, <2>1, <2>2
<1>7. /\ Len(Stream) \in Nat /\ Len(buf) <= Len(Stream)
      /\ \A m \in 1..Len(buf) : Stream[m] = buf[m]
  BY <1>3, <1>5
<1>8. Len(Stream') = Len(Stream) - d
  <2>1. Len(Stream) = Len(buf) + Len(wire) /\ Len(Stream') = Len(buf') + Len(wire)
    BY <1>3, <1>4, <1>5
  <2> QED
    BY <1>2, <1>3, <2>1
<1> QED
  BY <1>2, <1>6, <1>7, <1>8

LEMMA FramedParts ==
    ASSUME FeedbackInv, NEW k, NEW b, NEW p, Framed(k, b, p)
    PROVE  /\ buf \in Seq(Byte) /\ wire \in Seq(Byte) /\ sent \in Seq(Reply)
           /\ Len(sent) \in Nat /\ Len(Stream) \in Nat /\ Len(buf) <= Len(Stream)
           /\ \A m \in 1..Len(buf) : Stream[m] = buf[m]
           /\ k \in Nat /\ k <= Len(sent) /\ b \in Nat /\ b < p[k + 1]
           /\ p[Len(sent) + 1] = b + Len(Stream) + 1
           /\ \A n \in 1..(Len(sent) + 1) : p[n] \in Nat /\ p[n] <= b + Len(Stream) + 1
           /\ \A m, n \in 1..(Len(sent) + 1) : m <= n => p[m] <= p[n]
           /\ k + 1 \in 1..(Len(sent) + 1) /\ Len(sent) + 1 \in 1..(Len(sent) + 1)
<1>1. buf \in Seq(Byte) /\ wire \in Seq(Byte) /\ sent \in Seq(Reply)
  BY DEF FeedbackInv
<1>2. /\ Len(Stream) \in Nat /\ Len(buf) <= Len(Stream) /\ Len(sent) \in Nat
      /\ \A m \in 1..Len(buf) : Stream[m] = buf[m]
  BY <1>1 DEF Stream
<1>3. /\ k \in 0..Len(sent) /\ b \in Nat /\ p \in [1..(Len(sent) + 1) -> Nat] /\ b < p[k + 1]
      /\ \A m, n \in 1..(Len(sent) + 1) : m <= n => p[m] <= p[n]
      /\ p[Len(sent) + 1] = b + Len(Stream) + 1
  BY DEF Framed
<1>4. k + 1 \in 1..(Len(sent) + 1) /\ Len(sent) + 1 \in 1..(Len(sent) + 1)
  BY <1>2, <1>3
<1>5. ASSUME NEW n \in 1..(Len(sent) + 1)
      PROVE  p[n] \in Nat /\ p[n] <= b + Len(Stream) + 1
  <2>1. n <= Len(sent) + 1
    BY <1>2
  <2>2. p[n] <= p[Len(sent) + 1]
    BY <1>3, <1>4, <2>1
  <2> QED
    BY <1>3, <2>2
<1> QED
  BY <1>1, <1>2, <1>3, <1>4, <1>5

LEMMA ShiftedByte ==
    ASSUME NEW x \in Nat, NEW b \in Nat, NEW d \in Nat, NEW m \in Nat, NEW size \in Nat,
           NEW all \in Nat, 1 <= m, m <= size, b + d < x, x + size <= b + all + 1
    PROVE  /\ x - (b + d) + m - 1 \in 1..(all - d)
           /\ (x - (b + d) + m - 1) + d = x - b + m - 1
OBVIOUS

\* The parser leaves bytes behind it: those before the next frame, or one
\* frame's.
LEMMA DropFramed ==
    ASSUME FeedbackInv, NEW k, NEW b, NEW p, Framed(k, b, p),
           NEW d \in 0..Len(buf), Drop(d), wire' = wire, sent' = sent,
           NEW h \in k..Len(sent), b + d < p[h + 1],
           \A m \in 1..(p[h + 1] - b - d - 1) : ~IsPrefixByte(Stream[m + d])
    PROVE  Framed(h, b + d, p)'
<1>1. buf \in Seq(Byte) /\ wire \in Seq(Byte) /\ sent \in Seq(Reply)
  BY DEF FeedbackInv
<1>2. /\ Len(Stream') = Len(Stream) - d
      /\ \A m \in 1..(Len(Stream) - d) : Stream'[m] = Stream[m + d]
  BY <1>1, DropStream
<1>3. /\ Len(sent) \in Nat /\ Len(Stream) \in Nat /\ Len(buf) <= Len(Stream) /\ Len(buf) \in Nat
      /\ k \in Nat /\ k <= Len(sent) /\ b \in Nat
      /\ p[Len(sent) + 1] = b + Len(Stream) + 1
      /\ \A n \in 1..(Len(sent) + 1) : p[n] \in Nat /\ p[n] <= b + Len(Stream) + 1
      /\ \A m, n \in 1..(Len(sent) + 1) : m <= n => p[m] <= p[n]
  BY FramedParts, SMTT(30)
<1>4. h \in 0..Len(sent) /\ b + d \in Nat /\ h + 1 \in 1..(Len(sent) + 1)
  BY <1>3
<1>5. p[h + 1] \in Nat /\ p[h + 1] <= b + Len(Stream) + 1
  BY <1>3, <1>4
<1>6. p[Len(sent) + 1] = (b + d) + Len(Stream') + 1
  BY <1>2, <1>3
<1>7. ASSUME NEW m \in 1..(p[h + 1] - (b + d) - 1)
      PROVE  ~IsPrefixByte(Stream'[m])
  <2>1. m \in 1..(Len(Stream) - d) /\ m \in 1..(p[h + 1] - b - d - 1)
    BY <1>3, <1>5, SMTT(30)
  <2> QED
    BY <1>2, <2>1
<1>8. ASSUME NEW n \in (h + 1)..Len(sent)
      PROVE  /\ p[n + 1] = p[n] + Len(Encoded(sent[n]))
             /\ \A m \in 1..Len(Encoded(sent[n])) :
                    Stream'[p[n] - (b + d) + m - 1] = Encoded(sent[n])[m]
  <2>1. n \in (k + 1)..Len(sent) /\ n \in 1..Len(sent)
    BY <1>3
  <2>2. /\ p[n + 1] = p[n] + Len(Encoded(sent[n]))
        /\ \A m \in 1..Len(Encoded(sent[n])) : Stream[p[n] - b + m - 1] = Encoded(sent[n])[m]
    BY <2>1 DEF Framed
  <2>3. n \in 1..(Len(sent) + 1) /\ n + 1 \in 1..(Len(sent) + 1) /\ h + 1 <= n
    BY <1>3, <2>1
  <2>4. p[h + 1] <= p[n] /\ p[n] \in Nat /\ p[n + 1] <= b + Len(Stream) + 1
    BY <1>3, <1>4, <2>3
  <2>5. Len(Encoded(sent[n])) \in Nat
    BY <1>1, <2>1, EncodedParts
  <2>6. ASSUME NEW m \in 1..Len(Encoded(sent[n]))
        PROVE  Stream'[p[n] - (b + d) + m - 1] = Encoded(sent[n])[m]
    <3>1. /\ m \in Nat /\ m >= 1 /\ m <= Len(Encoded(sent[n])) /\ d \in Nat
          /\ b \in Nat /\ Len(Stream) \in Nat
      BY <1>3, <2>5
    <3>2. b + d < p[n] /\ p[n] + Len(Encoded(sent[n])) <= b + Len(Stream) + 1
      <4>1. p[n] + Len(Encoded(sent[n])) <= b + Len(Stream) + 1
        BY <2>2, <2>4
      <4>2. b + d < p[n]
        BY <1>5, <2>4, <3>1, SMTT(30)
      <4> QED
        BY <4>1, <4>2
    <3>3. /\ p[n] - (b + d) + m - 1 \in 1..(Len(Stream) - d)
          /\ (p[n] - (b + d) + m - 1) + d = p[n] - b + m - 1
      <4>1. PICK x \in Nat, size \in Nat, all \in Nat :
               x = p[n] /\ size = Len(Encoded(sent[n])) /\ all = Len(Stream)
        BY <2>4, <2>5, <3>1
      <4>2. 1 <= m /\ m <= size /\ b + d < x /\ x + size <= b + all + 1
        BY <3>1, <3>2, <4>1
      <4>3. /\ x - (b + d) + m - 1 \in 1..(all - d)
            /\ (x - (b + d) + m - 1) + d = x - b + m - 1
        BY <3>1, <4>2, ShiftedByte
      <4> QED
        BY <4>1, <4>3
    <3> QED
      BY <1>2, <2>2, <3>3
  <2> QED
    BY <2>2, <2>6
<1>9. p \in [1..(Len(sent) + 1) -> Nat]
  BY DEF Framed
<1> QED
  BY <1>3, <1>4, <1>6, <1>7, <1>8, <1>9 DEF Framed

\* A byte that may begin a frame, at the head of the buffer, begins the first
\* frame that is not behind the parser.
LEMMA HeadFrame ==
    ASSUME FeedbackInv, NEW k, NEW b, NEW p, Framed(k, b, p),
           buf # <<>>, IsPrefixByte(Head(buf))
    PROVE  /\ k + 1 \in 1..Len(sent) /\ p[k + 1] = b + 1
           /\ p[k + 2] = b + 1 + Len(Encoded(sent[k + 1])) /\ sent[k + 1] \in Reply
           /\ \A m \in 1..Len(Encoded(sent[k + 1])) :
                  m <= Len(buf) => buf[m] = Encoded(sent[k + 1])[m]
<1>1. /\ buf \in Seq(Byte) /\ wire \in Seq(Byte) /\ sent \in Seq(Reply)
      /\ Len(sent) \in Nat /\ Len(Stream) \in Nat /\ Len(buf) <= Len(Stream) /\ Len(buf) \in Nat
      /\ \A m \in 1..Len(buf) : Stream[m] = buf[m]
      /\ k \in Nat /\ k <= Len(sent) /\ b \in Nat /\ b < p[k + 1]
      /\ p[Len(sent) + 1] = b + Len(Stream) + 1 /\ p[k + 1] \in Nat
  BY FramedParts
<1>2. Head(buf) = buf[1] /\ 1 \in 1..Len(buf) /\ Len(buf) >= 1
  BY <1>1
<1>3. \A m \in 1..(p[k + 1] - b - 1) : ~IsPrefixByte(Stream[m])
  BY DEF Framed
<1>4. p[k + 1] = b + 1
  <2> SUFFICES ASSUME p[k + 1] # b + 1 PROVE FALSE
    OBVIOUS
  <2>1. 1 \in 1..(p[k + 1] - b - 1)
    BY <1>1
  <2> QED
    BY <1>1, <1>2, <1>3, <2>1
<1>5. k # Len(sent)
  BY <1>1, <1>2, <1>4
<1>6. k + 1 \in 1..Len(sent) /\ k + 1 \in (k + 1)..Len(sent) /\ (k + 1) + 1 = k + 2
  BY <1>1, <1>5
<1>7. /\ p[(k + 1) + 1] = p[k + 1] + Len(Encoded(sent[k + 1]))
      /\ \A m \in 1..Len(Encoded(sent[k + 1])) :
             Stream[p[k + 1] - b + m - 1] = Encoded(sent[k + 1])[m]
  BY <1>6 DEF Framed
<1>8. sent[k + 1] \in Reply /\ Len(Encoded(sent[k + 1])) \in Nat
  BY <1>1, <1>6, EncodedParts, SMTT(30)
<1>9. ASSUME NEW m \in 1..Len(Encoded(sent[k + 1])), m <= Len(buf)
      PROVE  buf[m] = Encoded(sent[k + 1])[m]
  <2>1. m \in 1..Len(buf)
    BY <1>1, <1>8, <1>9
  <2>2. p[k + 1] - b + m - 1 = m
    BY <1>1, <1>4, <2>1
  <2> QED
    BY <1>1, <1>7, <2>1, <2>2
<1> QED
  BY <1>4, <1>6, <1>7, <1>8, <1>9

LEMMA PassedAnother ==
    ASSUME FeedbackInv, NEW k \in Nat, k + 1 \in 1..Len(sent)
    PROVE  /\ PassedCount(k) \in Nat
           /\ PassedCount(k + 1) =
                  PassedCount(k) + (IF sent[k + 1].tag = PRINT_COMPLETE THEN 1 ELSE 0)
<1> DEFINE A == {n \in Completions(sent) : n <= k}
           marked == sent[k + 1].tag = PRINT_COMPLETE
<1>1. sent \in Seq(Reply) /\ Len(sent) \in Nat /\ DOMAIN sent = 1..Len(sent)
  BY DEF FeedbackInv
<1>2. A \in SUBSET (1..k) /\ marked \in BOOLEAN
  BY <1>1 DEF Completions
<1>3. {n \in Completions(sent) : n <= k + 1} = A \cup {n \in {k + 1} : marked}
  BY <1>1 DEF Completions
<1> HIDE DEF A, marked
<1>4. /\ Cardinality(A) \in Nat
      /\ Cardinality(A \cup {n \in {k + 1} : marked}) =
             Cardinality(A) + (IF marked THEN 1 ELSE 0)
  BY <1>2, MarksAppend
<1> QED
  BY <1>3, <1>4 DEF A, marked, PassedCount

\* Bytes that cannot be a frame's beginning are skipped up to one that can.
LEMMA ResyncHeard ==
    ASSUME FeedbackInv, HeardInv, Resync
    PROVE  HeardInv'
<1>1. PICK k \in Nat, b \in Nat, p \in [1..(Len(sent) + 1) -> Nat] :
        Framed(k, b, p) /\ Heard(k)
  BY DEF HeardInv
<1>2. PICK d \in 1..Len(buf) :
        /\ \A m \in 1..d : ~IsPrefixByte(buf[m])
        /\ Drop(d)
  BY DEF Resync
<1>3. UNCHANGED <<wire, sent, completed, found, frames>>
  BY DEF Resync
<1>4. /\ sent \in Seq(Reply) /\ Len(sent) \in Nat /\ Len(Stream) \in Nat
      /\ Len(buf) \in Nat /\ Len(buf) <= Len(Stream) /\ d \in 0..Len(buf) /\ d \in Nat
      /\ \A m \in 1..Len(buf) : Stream[m] = buf[m]
      /\ k <= Len(sent) /\ p[k + 1] \in Nat /\ b < p[k + 1]
      /\ p[Len(sent) + 1] = b + Len(Stream) + 1 /\ k \in k..Len(sent)
  BY <1>1, <1>2, FramedParts, SMTT(30)
<1>5. b + d < p[k + 1]
  <2>1. CASE k = Len(sent)
    BY <1>1, <1>4, <2>1
  <2>2. CASE k # Len(sent)
    <3>1. k + 1 \in (k + 1)..Len(sent) /\ k + 1 \in 1..Len(sent)
      BY <1>1, <1>4, <2>2
    <3>2. sent[k + 1] \in Reply
      BY <1>4, <3>1
    <3>3. \A m \in 1..Len(Encoded(sent[k + 1])) :
             Stream[p[k + 1] - b + m - 1] = Encoded(sent[k + 1])[m]
      BY <1>1, <3>1 DEF Framed
    <3>4. Stream[p[k + 1] - b + 1 - 1] = STATUS_PREFIX /\ p[k + 1] - b + 1 - 1 = p[k + 1] - b
      <4>1. 1 \in 1..Len(Encoded(sent[k + 1])) /\ Encoded(sent[k + 1])[1] = STATUS_PREFIX
        BY <3>2, EncodedParts
      <4>2. p[k + 1] - b + 1 - 1 = p[k + 1] - b
        BY <1>1, <1>4, SMTT(30)
      <4> QED
        BY <3>3, <4>1, <4>2
    <3>5. IsPrefixByte(Stream[p[k + 1] - b])
      BY <3>4 DEF IsPrefixByte
    <3>6. ASSUME p[k + 1] <= b + d PROVE FALSE
      <4>1. p[k + 1] - b \in 1..d /\ p[k + 1] - b \in 1..Len(buf)
        BY <1>1, <1>4, <3>6
      <4> QED
        BY <1>2, <1>4, <3>5, <4>1
    <3> QED
      BY <1>1, <1>4, <3>6
  <2> QED
    BY <2>1, <2>2
<1>6. ASSUME NEW m \in 1..(p[k + 1] - b - d - 1)
      PROVE  ~IsPrefixByte(Stream[m + d])
  <2>1. d \in Nat /\ p[k + 1] \in Nat /\ b \in Nat
    BY <1>1, <1>4
  <2>2. PICK x \in Nat : x = p[k + 1]
    BY <2>1
  <2>3. m \in 1..(x - b - d - 1)
    BY <2>2
  <2>4. m + d \in 1..(x - b - 1)
    BY <2>1, <2>2, <2>3, SMTT(30)
  <2> QED
    BY <1>1, <2>2, <2>4 DEF Framed
<1>7. Framed(k, b + d, p)'
  BY <1>1, <1>2, <1>3, <1>4, <1>5, <1>6, DropFramed
<1>8. b + d \in Nat
  BY <1>1, <1>4
<1> QED
  BY <1>1, <1>3, <1>7, <1>8 DEF HeardInv, Heard, PassedCount

\* The slice of s behind its first h bytes.
LEMMA SliceIs ==
    ASSUME NEW s \in Seq(Byte), NEW r \in Seq(Byte), NEW h \in Nat, h + Len(r) <= Len(s),
           \A n \in 1..Len(r) : s[n + h] = r[n]
    PROVE  SubSeq(s, h + 1, h + Len(r)) = r
<1> DEFINE q == SubSeq(s, h + 1, h + Len(r))
<1>1. /\ Len(r) \in Nat /\ h + 1 \in Nat
      /\ h + Len(r) \in Nat /\ h + 1 >= 1
  OBVIOUS
<1>2. q \in Seq(Byte) /\ Len(q) = Len(r) /\ \A n \in 1..Len(r) : q[n] = s[n + h]
  BY <1>1
<1> HIDE DEF q
<1>3. q = r
  BY <1>2, SeqEqual
<1> QED
  BY <1>3 DEF q

LEMMA AppendJoin ==
    ASSUME NEW S, NEW s \in Seq(S), NEW t \in Seq(S), NEW x \in S
    PROVE  s \o Append(t, x) = Append(s \o t, x)
OBVIOUS

\* What the parser takes for a frame is the next one that was sent.
LEMMA FrameHeard ==
    ASSUME Unambiguous, FeedbackInv, HeardInv, SkipUnknown \/ TakeFrame
    PROVE  HeardInv' /\ (TakeFrame => found' \in Seq(Frame))
<1>1. PICK k \in Nat, b \in Nat, p \in [1..(Len(sent) + 1) -> Nat] :
        Framed(k, b, p) /\ Heard(k)
  BY DEF HeardInv
<1>2. UNCHANGED <<wire, sent, frames, completed>>
  BY DEF SkipUnknown, TakeFrame
<1>3. Tagged
  BY DEF SkipUnknown, TakeFrame, Unknown, Complete
<1>4. /\ buf \in Seq(Byte) /\ found \in Seq(Frame) /\ frames \in Seq(Frame)
      /\ completed \in Nat /\ sent \in Seq(Reply)
  BY DEF FeedbackInv
<1>5. buf # <<>> /\ IsPrefixByte(Head(buf)) /\ Len(buf) >= 2 /\ Len(buf) \in Nat
  BY <1>3, <1>4 DEF Tagged
<1> DEFINE f == sent[k + 1]
           e == Encoded(sent[k + 1])
<1>6. /\ k + 1 \in 1..Len(sent) /\ p[k + 1] = b + 1 /\ p[k + 2] = b + 1 + Len(e) /\ f \in Reply
      /\ \A m \in 1..Len(e) : m <= Len(buf) => buf[m] = e[m]
  BY <1>1, <1>5, HeadFrame, ZenonT(60)
<1>7. e = Encoded(f)
  OBVIOUS
<1> HIDE DEF f, e
<1>8. /\ e \in Seq(Byte) /\ Len(e) \in Nat /\ Len(e) >= 2
      /\ f.tag \in Byte /\ f.raw \in Seq(Byte) /\ f \in Frame
      /\ e[1] = STATUS_PREFIX /\ e[2] = f.tag
      /\ f.tag # LENGTH_PREFIXED =>
            /\ Len(e) = 2 + Len(f.raw)
            /\ \A n \in 1..Len(f.raw) : e[n + 2] = f.raw[n]
      /\ f.tag = LENGTH_PREFIXED =>
            /\ Len(e) = 3 + Len(f.raw) /\ e[3] = Len(f.raw)
            /\ \A n \in 1..Len(f.raw) : e[n + 3] = f.raw[n]
      /\ f.tag \in FixedTag => Len(f.raw) = PayloadLength(f.tag)
  <2>1. Parts(f, e)
    BY <1>6, <1>7, EncodedIs
  <2> QED
    BY <2>1 DEF Parts
<1>9. buf[2] = f.tag
  BY <1>5, <1>6, <1>8
<1>10. /\ k + 1 \in k..Len(sent) /\ k + 1 \in (k + 1)..Len(sent) /\ k + 1 \in Nat
      /\ (k + 1) + 1 = k + 2 /\ p[k + 2] \in Nat
  <2>1. Len(sent) \in Nat /\ \A n \in 1..(Len(sent) + 1) : p[n] \in Nat
    BY <1>1, FramedParts
  <2>2. k + 2 \in 1..(Len(sent) + 1)
    BY <1>1, <1>6, <2>1
  <2> QED
    BY <1>1, <1>6, <2>1, <2>2, SMTT(30)
<1>11. /\ PassedCount(k) \in Nat
       /\ PassedCount(k + 1) =
              PassedCount(k) + (IF f.tag = PRINT_COMPLETE THEN 1 ELSE 0)
  BY <1>1, <1>6, PassedAnother DEF f
<1>12. Understood(sent)[k + 1] =
           IF Known(f.tag) THEN Append(frames \o found, f) ELSE frames \o found
  BY <1>1, UnderstoodStep DEF f, Heard, Extended
<1>13. CASE SkipUnknown
  <2>1. ~Known(f.tag) /\ Drop(2) /\ UNCHANGED found
    BY <1>9, <1>13 DEF SkipUnknown, Unknown
  <2>2. f.tag # LENGTH_PREFIXED /\ f.tag # PRINT_COMPLETE /\ Unprefixed(f.raw)
    BY <1>6, <2>1, TagLengths DEF Known, Unambiguous
  <2>3. 2 \in 0..Len(buf) /\ b + 2 < p[k + 2] /\ b + 2 \in Nat
    BY <1>1, <1>5, <1>6, <1>8, <2>2
  <2>4. ASSUME NEW m \in 1..(p[k + 2] - b - 2 - 1)
        PROVE  ~IsPrefixByte(Stream[m + 2])
    <3>1. m \in 1..Len(f.raw) /\ m + 2 \in 1..Len(e)
      BY <1>1, <1>6, <1>8, <2>2, SMTT(30)
    <3>2. \A i \in 1..Len(e) : Stream[p[k + 1] - b + i - 1] = e[i]
      BY <1>1, <1>10 DEF Framed, e
    <3>3. p[k + 1] - b + (m + 2) - 1 = m + 2
      BY <1>1, <1>6, <3>1
    <3>4. Stream[m + 2] = f.raw[m]
      BY <1>8, <2>2, <3>1, <3>2, <3>3
    <3> QED
      BY <2>2, <3>1, <3>4 DEF Unprefixed
  <2>5. Framed(k + 1, b + 2, p)'
    BY <1>1, <1>2, <1>10, <2>1, <2>3, <2>4, DropFramed
  <2>6. Heard(k + 1)'
    <3>1. completed' + Cardinality(Completions(found')) = PassedCount(k + 1)
      BY <1>1, <1>2, <1>11, <2>1, <2>2 DEF Heard
    <3>2. frames' \o found' = Understood(sent)[k + 1]
      BY <1>2, <1>12, <2>1
    <3> QED
      BY <1>2, <3>1, <3>2 DEF Heard, PassedCount
  <2>7. HeardInv'
    BY <1>1, <1>2, <1>10, <2>3, <2>5, <2>6 DEF HeardInv
  <2>8. TakeFrame => ~SkipUnknown
    BY DEF TakeFrame, Complete, SkipUnknown, Unknown
  <2> QED
    BY <1>13, <2>7, <2>8
<1>14. CASE TakeFrame
  <2>1. Complete /\ Drop(FrameLength) /\ Known(f.tag)
    BY <1>9, <1>14 DEF TakeFrame, Complete
  <2>2. /\ FrameLength = Len(e) /\ HeaderLength \in Nat /\ FrameLength <= Len(buf)
        /\ FrameLength = HeaderLength + Len(f.raw)
        /\ \A n \in 1..Len(f.raw) : e[n + HeaderLength] = f.raw[n]
    <3>1. CASE f.tag = LENGTH_PREFIXED
      <4>1. HeaderLength = 3 /\ 3 <= Len(buf) /\ 3 \in 1..Len(e)
        BY <1>8, <1>9, <2>1, <3>1 DEF Complete, HeaderLength
      <4>2. buf[3] = Len(f.raw)
        BY <1>6, <1>8, <3>1, <4>1
      <4> QED
        BY <1>8, <1>9, <2>1, <3>1, <4>1, <4>2 DEF FrameLength, Complete
    <3>2. CASE f.tag # LENGTH_PREFIXED
      <4>1. f.tag \in FixedTag
        BY <2>1, <3>2 DEF Known
      <4> QED
        BY <1>8, <1>9, <2>1, <3>2, <4>1 DEF FrameLength, HeaderLength, Complete
    <3> QED
      BY <3>1, <3>2
  <2>3. Len(e) \in 0..Len(buf) /\ b + Len(e) < p[k + 2] /\ b + Len(e) \in Nat /\ Drop(Len(e))
    <3>1. p[k + 2] = b + 1 + Len(e) /\ b \in Nat /\ Len(e) \in Nat
      BY <1>1, <1>6, <1>8
    <3>2. Len(e) <= Len(buf) /\ Len(buf) \in Nat
      BY <1>5, <2>2
    <3>3. Drop(Len(e))
      BY <2>1, <2>2
    <3> QED
      BY <3>1, <3>2, <3>3
  <2>4. \A m \in 1..(p[k + 2] - b - Len(e) - 1) : ~IsPrefixByte(Stream[m + Len(e)])
    BY <1>1, <1>6, <1>8
  <2> PICK d \in 0..Len(buf) : d = Len(e)
    BY <2>3
  <2>5. Framed(k + 1, b + d, p)' /\ b + d \in Nat
    <3>1. /\ Drop(d) /\ b + d < p[(k + 1) + 1] /\ b + d \in Nat
          /\ \A m \in 1..(p[(k + 1) + 1] - b - d - 1) : ~IsPrefixByte(Stream[m + d])
      BY <1>10, <2>3, <2>4
    <3> QED
      BY <1>1, <1>2, <1>10, <3>1, DropFramed
  <2>6. found' = Append(found, f)
    <3>1. SubSeq(buf, HeaderLength + 1, FrameLength) = f.raw
      <4>1. ASSUME NEW n \in 1..Len(f.raw)
            PROVE  buf[n + HeaderLength] = f.raw[n]
        <5>1. n + HeaderLength \in 1..Len(e) /\ n + HeaderLength <= Len(buf)
          BY <1>5, <1>8, <2>2
        <5> QED
          BY <1>6, <2>2, <5>1
      <4>2. HeaderLength + Len(f.raw) <= Len(buf) /\ HeaderLength \in Nat
        BY <2>2
      <4>3. SubSeq(buf, HeaderLength + 1, HeaderLength + Len(f.raw)) = f.raw
        BY <1>4, <1>8, <4>1, <4>2, SliceIs
      <4> QED
        BY <2>2, <4>3
    <3>2. f = [tag |-> f.tag, raw |-> f.raw]
      BY <1>8 DEF Frame
    <3> QED
      BY <1>9, <1>14, <3>1, <3>2 DEF TakeFrame
  <2>7. /\ Cardinality(Completions(found)) \in Nat
        /\ Cardinality(Completions(found')) =
               Cardinality(Completions(found)) + (IF f.tag = PRINT_COMPLETE THEN 1 ELSE 0)
    BY <1>4, <1>8, <2>6, CompletionsAppend
  <2>8. Heard(k + 1)'
    <3>1. completed' + Cardinality(Completions(found')) = PassedCount(k + 1)
      BY <1>1, <1>2, <1>4, <1>11, <2>7, SMTT(30) DEF Heard
    <3>2. frames' \o found' = Understood(sent)[k + 1]
      <4>1. frames \o Append(found, f) = Append(frames \o found, f)
        <5>1. frames \in Seq(Frame) /\ found \in Seq(Frame) /\ f \in Frame
          BY <1>4, <1>8
        <5> QED
          BY <5>1, AppendJoin
      <4> QED
        BY <1>2, <1>12, <2>1, <2>6, <4>1
    <3> QED
      BY <1>2, <3>1, <3>2 DEF Heard, PassedCount
  <2>9. HeardInv'
    BY <1>1, <1>2, <1>10, <2>3, <2>5, <2>8 DEF HeardInv
  <2>10. found' \in Seq(Frame)
    BY <1>4, <1>8, <2>6
  <2> QED
    BY <2>9, <2>10
<1> QED
  BY <1>13, <1>14
LEMMA BytesJoin == \A s, t, u \in Seq(Byte) : (s \o t) \o u = s \o (t \o u)
BY ConcatAssociative, SMTT(30)

\* A read moves bytes from the wire to the buffer, none of them swallowed.
LEMMA ReadStream ==
    ASSUME FeedbackInv, Read
    PROVE  /\ Stream' = Stream /\ buf' \in Seq(Byte) /\ wire' \in Seq(Byte) /\ AckFree(wire')
<1>1. buf \in Seq(Byte) /\ wire \in Seq(Byte) /\ AckFree(wire)
  BY DEF FeedbackInv
<1>2. PICK n \in 1..Len(wire) : /\ Absorb(SubSeq(wire, 1, n))
                                /\ wire' = SubSeq(wire, n + 1, Len(wire))
  BY DEF Read
<1>3. SubSeq(wire, 1, n) # ACK
  <2> SUFFICES ASSUME SubSeq(wire, 1, n) = ACK PROVE FALSE
    OBVIOUS
  <2>1. Len(SubSeq(wire, 1, n)) = n /\ Len(ACK) = 2 /\ ACK[1] = 1 /\ ACK[2] = 1
    BY <1>1 DEF ACK
  <2>2. n = 2
    BY <2>1
  <2>3. Len(wire) \in Nat /\ 2 <= Len(wire)
    BY <1>1, <2>2
  <2>4. 1 \in 1..(Len(wire) - 1)
    BY <2>3
  <2>5. SubSeq(wire, 1, 2)[1] = wire[1] /\ SubSeq(wire, 1, 2)[2] = wire[2]
    BY <1>1, <2>3
  <2>6. wire[1] = 1 /\ wire[1 + 1] = 1
    BY <2>1, <2>2, <2>5
  <2> QED
    BY <1>1, <2>4, <2>6 DEF AckFree
<1>4. buf' = buf \o SubSeq(wire, 1, n)
  BY <1>2, <1>3 DEF Absorb
<1>5. SubSeq(wire, 1, n) \in Seq(Byte) /\ SubSeq(wire, n + 1, Len(wire)) \in Seq(Byte)
  BY <1>1
<1>6. (buf \o SubSeq(wire, 1, n)) \o SubSeq(wire, n + 1, Len(wire)) = buf \o wire
  <2>1. SubSeq(wire, 1, n) \o SubSeq(wire, n + 1, Len(wire)) = wire
    BY <1>1
  <2>2. (buf \o SubSeq(wire, 1, n)) \o SubSeq(wire, n + 1, Len(wire))
            = buf \o (SubSeq(wire, 1, n) \o SubSeq(wire, n + 1, Len(wire)))
    BY <1>1, <1>5, BytesJoin
  <2> QED
    BY <2>1, <2>2
<1>7. AckFree(wire')
  <2> SUFFICES ASSUME NEW m \in 1..(Len(wire') - 1)
               PROVE  ~(wire'[m] = 1 /\ wire'[m + 1] = 1)
    BY DEF AckFree
  <2>1. Len(wire') = Len(wire) - n /\ \A i \in 1..(Len(wire) - n) : wire'[i] = wire[i + n]
    BY <1>1, <1>2
  <2>2. /\ m \in 1..(Len(wire) - n) /\ m + 1 \in 1..(Len(wire) - n)
        /\ m + n \in 1..(Len(wire) - 1) /\ (m + 1) + n = (m + n) + 1
    BY <1>1, <2>1
  <2> QED
    BY <1>1, <2>1, <2>2 DEF AckFree
<1>8. Stream' = Stream
  BY <1>2, <1>4, <1>6 DEF Stream
<1>9. buf' \in Seq(Byte) /\ wire' \in Seq(Byte)
  BY <1>1, <1>2, <1>4, <1>5
<1> QED
  BY <1>7, <1>8, <1>9

\* A frame that is sent lies behind those before it.
LEMMA SendFramed ==
    ASSUME FeedbackInv, NEW k, NEW b, NEW p, Framed(k, b, p), NEW f \in Reply, Send(f)
    PROVE  \E q \in [1..(Len(sent') + 1) -> Nat] : Framed(k, b, q)'
<1> DEFINE L == Len(sent)
           e == Encoded(f)
           q == [n \in 1..(L + 2) |-> IF n = L + 2 THEN p[L + 1] + Len(e) ELSE p[n]]
<1>1. /\ buf \in Seq(Byte) /\ wire \in Seq(Byte) /\ sent \in Seq(Reply)
      /\ L \in Nat /\ Len(Stream) \in Nat
      /\ k \in Nat /\ k <= L /\ b \in Nat /\ b < p[k + 1]
      /\ p[L + 1] = b + Len(Stream) + 1
      /\ \A n \in 1..(L + 1) : p[n] \in Nat /\ p[n] <= b + Len(Stream) + 1
      /\ \A m, n \in 1..(L + 1) : m <= n => p[m] <= p[n]
      /\ k + 1 \in 1..(L + 1) /\ L + 1 \in 1..(L + 1)
  BY FramedParts
<1>2. e \in Seq(Byte) /\ Len(e) \in Nat
  BY EncodedParts
<1>3. /\ sent' = Append(sent, f) /\ wire' = wire \o e /\ buf' = buf
  BY DEF Send
<1>4. /\ Len(sent') = L + 1 /\ Len(sent') + 1 = L + 2
      /\ \A n \in 1..L : sent'[n] = sent[n]
      /\ sent'[L + 1] = f
  BY <1>1, <1>3
<1>5. /\ Stream' = Stream \o e /\ Stream \in Seq(Byte)
  <2>1. (buf \o wire) \o e = buf \o (wire \o e)
    BY <1>1, <1>2, BytesJoin
  <2> QED
    BY <1>1, <1>3, <2>1 DEF Stream
<1>6. /\ Len(Stream') = Len(Stream) + Len(e)
      /\ \A m \in 1..Len(Stream) : Stream'[m] = Stream[m]
      /\ \A m \in 1..Len(e) : Stream'[Len(Stream) + m] = e[m]
  BY <1>2, <1>5
<1> HIDE DEF L, e
<1>7. /\ q \in [1..(L + 2) -> Nat] /\ q[L + 2] = p[L + 1] + Len(e)
      /\ \A n \in 1..(L + 1) : q[n] = p[n] /\ n # L + 2 /\ n \in 1..(L + 2)
  BY <1>1, <1>2, SMTT(30)
<1> HIDE DEF q
<1>8. ASSUME NEW m \in 1..(L + 2), NEW n \in 1..(L + 2), m <= n
      PROVE  q[m] <= q[n]
  <2>1. CASE n # L + 2
    <3>1. m \in 1..(L + 1) /\ n \in 1..(L + 1)
      BY <1>1, <1>8, <2>1
    <3> QED
      BY <1>1, <1>7, <1>8, <3>1
  <2>2. CASE n = L + 2 /\ m # L + 2
    <3>1. m \in 1..(L + 1)
      BY <1>1, <2>2
    <3>2. q[m] <= p[L + 1] /\ q[m] \in Nat /\ p[L + 1] \in Nat
      BY <1>1, <1>7, <3>1
    <3> QED
      BY <1>2, <1>7, <2>2, <3>2
  <2>3. CASE n = L + 2 /\ m = L + 2
    BY <1>7, <2>3
  <2> QED
    BY <2>1, <2>2, <2>3
<1>9. q[L + 2] = b + Len(Stream') + 1 /\ q[k + 1] = p[k + 1]
  BY <1>1, <1>2, <1>6, <1>7
<1>10. ASSUME NEW m \in 1..(p[k + 1] - b - 1)
       PROVE  ~IsPrefixByte(Stream'[m])
  <2>1. m \in 1..Len(Stream)
    BY <1>1, SMTT(30)
  <2>2. ~IsPrefixByte(Stream[m])
    BY DEF Framed
  <2> QED
    BY <1>6, <2>1, <2>2
<1>11. ASSUME NEW n \in (k + 1)..(L + 1)
       PROVE  /\ q[n + 1] = q[n] + Len(Encoded(sent'[n]))
              /\ \A m \in 1..Len(Encoded(sent'[n])) :
                     Stream'[q[n] - b + m - 1] = Encoded(sent'[n])[m]
  <2>1. CASE n = L + 1
    <3>1. /\ q[n] = b + Len(Stream) + 1 /\ sent'[n] = f /\ n + 1 = L + 2
          /\ q[n + 1] = q[n] + Len(e)
      BY <1>1, <1>4, <1>7, <2>1
    <3>2. ASSUME NEW m \in 1..Len(e)
          PROVE  Stream'[q[n] - b + m - 1] = e[m]
      <4>1. q[n] - b + m - 1 = Len(Stream) + m
        BY <1>1, <1>2, <3>1
      <4> QED
        BY <1>6, <4>1
    <3> QED
      BY <3>1, <3>2 DEF e
  <2>2. CASE n # L + 1
    <3>1. /\ n \in (k + 1)..L /\ n \in 1..L /\ n \in 1..(L + 1) /\ n + 1 \in 1..(L + 1)
          /\ k + 1 <= n
      BY <1>1, <2>2
    <3>2. sent[n] \in Reply /\ sent'[n] = sent[n]
      BY <1>1, <1>4, <3>1 DEF L
    <3>3. /\ p[n + 1] = p[n] + Len(Encoded(sent[n]))
          /\ \A m \in 1..Len(Encoded(sent[n])) :
                 Stream[p[n] - b + m - 1] = Encoded(sent[n])[m]
      BY <3>1 DEF Framed, L
    <3>4. Len(Encoded(sent[n])) \in Nat
      BY <3>2, EncodedParts
    <3>5. ASSUME NEW m \in 1..Len(Encoded(sent[n]))
          PROVE  Stream'[p[n] - b + m - 1] = Encoded(sent[n])[m]
      <4>1. /\ p[k + 1] <= p[n] /\ p[k + 1] \in Nat /\ p[n] \in Nat
            /\ p[n + 1] <= b + Len(Stream) + 1
        BY <1>1, <3>1
      <4>2. PICK x \in Nat, size \in Nat, all \in Nat :
               x = p[n] /\ size = Len(Encoded(sent[n])) /\ all = Len(Stream)
        BY <1>1, <3>4, <4>1
      <4>3. /\ 1 <= m /\ m <= size /\ b + 0 < x /\ x + size <= b + all + 1
            /\ m \in Nat /\ b \in Nat /\ 0 \in Nat
        <5>1. 1 <= m /\ m <= size /\ m \in Nat
          BY <4>2
        <5>2. b + 0 < x /\ b \in Nat
          BY <1>1, <4>1, <4>2, SMTT(30)
        <5>3. x + size <= b + all + 1
          BY <3>3, <4>1, <4>2
        <5> QED
          BY <5>1, <5>2, <5>3
      <4>4. /\ x - (b + 0) + m - 1 \in 1..(all - 0)
            /\ (x - (b + 0) + m - 1) + 0 = x - b + m - 1
        BY <4>3, ShiftedByte
      <4>5. x - b + m - 1 \in 1..all
        BY <4>3, <4>4
      <4> QED
        BY <1>6, <3>3, <4>2, <4>5
    <3> QED
      BY <1>7, <3>1, <3>2, <3>3, <3>5
  <2> QED
    BY <2>1, <2>2
<1>12. /\ k \in 0..Len(sent') /\ q \in [1..(Len(sent') + 1) -> Nat]
       /\ Len(sent') + 1 = L + 2 /\ Len(sent') = L + 1
  BY <1>1, <1>4, <1>7, SMTT(30)
<1>13. PICK g : g = q
  OBVIOUS
<1>14. Framed(k, b, g)'
  BY <1>1, <1>8, <1>9, <1>10, <1>11, <1>12, <1>13 DEF Framed
<1> QED
  BY <1>12, <1>13, <1>14
LEMMA AckFreeJoin ==
    ASSUME NEW s \in Seq(Byte), AckFree(s), NEW t \in Seq(Byte), AckFree(t),
           Len(t) >= 1, t[1] # 1
    PROVE  AckFree(s \o t)
<1> SUFFICES ASSUME NEW n \in 1..(Len(s \o t) - 1), (s \o t)[n] = 1, (s \o t)[n + 1] = 1
             PROVE  FALSE
  BY DEF AckFree
<1>1. /\ Len(s \o t) = Len(s) + Len(t) /\ Len(s) \in Nat /\ Len(t) \in Nat
      /\ \A m \in 1..Len(s) : (s \o t)[m] = s[m]
      /\ \A m \in 1..Len(t) : (s \o t)[Len(s) + m] = t[m]
  OBVIOUS
<1>2. CASE n + 1 <= Len(s)
  <2>1. n \in 1..Len(s) /\ n + 1 \in 1..Len(s) /\ n \in 1..(Len(s) - 1)
    BY <1>1, <1>2
  <2> QED
    BY <1>1, <2>1 DEF AckFree
<1>3. CASE n + 1 = Len(s) + 1
  BY <1>1, <1>3
<1>4. CASE n + 1 > Len(s) + 1
  <2>1. PICK m \in 1..(Len(t) - 1) : n = Len(s) + m
    <3>1. n - Len(s) \in 1..(Len(t) - 1) /\ n = Len(s) + (n - Len(s))
      BY <1>1, <1>4
    <3> QED
      BY <3>1
  <2>2. m \in 1..Len(t) /\ m + 1 \in 1..Len(t) /\ n + 1 = Len(s) + (m + 1)
    BY <1>1, <2>1
  <2> QED
    BY <1>1, <2>1, <2>2 DEF AckFree
<1> QED
  BY <1>1, <1>2, <1>3, <1>4

LEMMA SendHeard ==
    ASSUME Unambiguous, FeedbackInv, HeardInv, NEW f \in Reply, Send(f)
    PROVE  /\ HeardInv' /\ wire' \in Seq(Byte) /\ AckFree(wire')
           /\ sent' \in Seq(Reply) /\ UNCHANGED <<buf, found, frames, completed>>
<1>1. /\ sent' = Append(sent, f) /\ wire' = wire \o Encoded(f)
      /\ UNCHANGED <<buf, found, frames, completed>>
  BY DEF Send
<1>2. buf \in Seq(Byte) /\ wire \in Seq(Byte) /\ sent \in Seq(Reply) /\ AckFree(wire)
  BY DEF FeedbackInv
<1>3. /\ Encoded(f) \in Seq(Byte) /\ Len(Encoded(f)) >= 2 /\ Encoded(f)[1] = STATUS_PREFIX
      /\ Len(Encoded(f)) \in Nat
  BY EncodedParts
<1>4. wire' \in Seq(Byte) /\ AckFree(wire')
  <2>1. AckFree(Encoded(f))
    BY DEF Unambiguous
  <2>2. Encoded(f)[1] # 1 /\ Len(Encoded(f)) >= 1
    BY <1>3 DEF STATUS_PREFIX
  <2> QED
    BY <1>1, <1>2, <1>3, <2>1, <2>2, AckFreeJoin
<1>5. PICK k \in Nat, b \in Nat, p \in [1..(Len(sent) + 1) -> Nat] :
        Framed(k, b, p) /\ Heard(k)
  BY DEF HeardInv
<1>6. PICK q \in [1..(Len(sent') + 1) -> Nat] : Framed(k, b, q)'
  BY <1>5, SendFramed
<1>7. k <= Len(sent) /\ Len(sent) \in Nat
  BY <1>5, FramedParts
<1>8. {n \in Completions(sent') : n <= k} = {n \in Completions(sent) : n <= k}
  <2>1. /\ DOMAIN sent = 1..Len(sent) /\ DOMAIN sent' = 1..(Len(sent) + 1)
        /\ \A n \in 1..Len(sent) : sent'[n] = sent[n]
    BY <1>1, <1>2
  <2>2. \A n \in 1..(Len(sent) + 1) : n <= k => n \in 1..Len(sent)
    BY <1>5, <1>7
  <2> QED
    BY <1>7, <2>1, <2>2 DEF Completions
<1>9. Heard(k)'
  <2>1. \A n \in 1..k : sent'[n] = sent[n]
    BY <1>1, <1>2, <1>5, <1>7
  <2>2. Understood(sent')[k] = Understood(sent)[k]
    BY <1>5, <2>1, UnderstoodSame
  <2> QED
    BY <1>1, <1>5, <1>8, <2>2 DEF Heard, PassedCount
<1>10. HeardInv'
  BY <1>5, <1>6, <1>9 DEF HeardInv
<1>11. sent' \in Seq(Reply)
  BY <1>1, <1>2
<1> QED
  BY <1>1, <1>4, <1>10, <1>11

LEMMA ReadHeard ==
    ASSUME FeedbackInv, HeardInv, Read
    PROVE  HeardInv'
<1>1. Stream' = Stream /\ UNCHANGED <<sent, found, frames, completed>>
  BY ReadStream DEF Read
<1> QED
  BY <1>1, ZenonT(60) DEF HeardInv, Framed, Heard, PassedCount

LEMMA IngestHeard ==
    ASSUME FeedbackInv, HeardInv, Ingest
    PROVE  /\ HeardInv' /\ completed' \in Nat /\ completed' >= completed
           /\ found' \in Seq(Frame) /\ frames' \in Seq(Frame)
<1>1. /\ completed' = completed + Cardinality(Completions(found)) /\ found' = <<>>
      /\ frames' = frames \o found
      /\ UNCHANGED <<buf, wire, sent>>
  BY DEF Ingest
<1>2. completed \in Nat /\ found \in Seq(Frame) /\ frames \in Seq(Frame)
  BY DEF FeedbackInv
<1>3. Cardinality(Completions(found)) \in Nat
  <2>1. Completions(found) \in SUBSET (1..Len(found)) /\ Len(found) \in Nat
    BY <1>2 DEF Completions
  <2> QED
    BY <2>1, MarksAppend
<1>4. Cardinality(Completions(found')) = 0
  <2>1. Completions(<<>>) = {}
    BY DEF Completions
  <2> QED
    BY <1>1, <2>1, FS_EmptySet
<1>5. Stream' = Stream
  BY <1>1 DEF Stream
<1>6. completed' + Cardinality(Completions(found')) = completed + Cardinality(Completions(found))
  BY <1>1, <1>2, <1>3, <1>4
<1>7. frames' \o found' = frames \o found /\ frames' \in Seq(Frame)
  BY <1>1, <1>2
<1>8. HeardInv'
  <2>1. PICK k \in Nat, b \in Nat, p \in [1..(Len(sent) + 1) -> Nat] :
          Framed(k, b, p) /\ Heard(k)
    BY DEF HeardInv
  <2>2. Heard(k)'
    BY <1>1, <1>6, <1>7, <2>1 DEF Heard, PassedCount
  <2>3. Framed(k, b, p)'
    BY <1>1, <1>5, <2>1 DEF Framed
  <2> QED
    BY <1>1, <2>1, <2>2, <2>3 DEF HeardInv
<1> QED
  BY <1>1, <1>2, <1>3, <1>7, <1>8
-----------------------------------------------------------------------------
(***************************************************************************)
(* The printer's word.                                                     *)
(***************************************************************************)

\* Each completion the printer has sent or is about to send is of a frame
\* that came out; each confirmation was a completion of its own.
WordInv ==
    /\ FeedbackInv /\ HeardInv
    /\ fates \in Seq({"printed", "cancelled"}) /\ verdicts \in Seq({"confirmed", "assumed"})
    /\ before \in Nat
    /\ Cardinality(Completions(Said)) <= Count(fates, "printed")
    /\ Count(verdicts, "confirmed") <= completed
    /\ pc \in {"frame", "wait", "sleep"} => Count(verdicts, "confirmed") <= before

LEMMA FeedbackKept ==
    ASSUME FeedbackInv, HeardInv,
           UNCHANGED <<sent, wire, buf, found, frames, completed, owed>>
    PROVE  FeedbackInv' /\ HeardInv' /\ Said' = Said
<1>1. Stream' = Stream
  BY DEF Stream
<1> QED
  BY <1>1, ZenonT(60) DEF FeedbackInv, HeardInv, Framed, Heard, PassedCount, Said

\* A step that makes no verdict, ends no frame and says nothing.
LEMMA WordKept ==
    ASSUME WordInv, FeedbackInv', HeardInv', UNCHANGED <<fates, verdicts, before>>,
           completed' >= completed, Said' = Said,
           pc' \in {"frame", "wait", "sleep"} => pc \in {"frame", "wait", "sleep"}
    PROVE  WordInv'
<1>1. Count(verdicts, "confirmed") \in Nat
  BY CountAppend DEF WordInv
<1>2. completed \in Nat /\ completed' \in Nat
  BY DEF WordInv, FeedbackInv
<1>3. Count(verdicts, "confirmed") <= completed'
  BY <1>1, <1>2 DEF WordInv
<1> QED
  BY <1>3 DEF WordInv

LEMMA DriverWord ==
    ASSUME WordInv, Driver
    PROVE  WordInv'
<1>1. UNCHANGED <<sent, wire, buf, found, frames, completed, owed, fates>>
  BY DEF Driver, Connect, Initialised, PrintRaster, PrintTooTall, Await, Confirm, Assume, Return,
     feedbackVars, printer
<1>2. FeedbackInv' /\ HeardInv' /\ Said' = Said /\ completed \in Nat
  BY <1>1, FeedbackKept DEF WordInv, FeedbackInv
<1>3. /\ Count(verdicts, "confirmed") \in Nat
      /\ Count(Append(verdicts, "confirmed"), "confirmed") = Count(verdicts, "confirmed") + 1
      /\ Count(Append(verdicts, "assumed"), "confirmed") = Count(verdicts, "confirmed")
  <2>1. verdicts \in Seq({"confirmed", "assumed"})
    BY DEF WordInv
  <2> QED
    BY <2>1, CountAppend
<1>4. CASE Connect \/ Initialised \/ PrintTooTall \/ Await
  <2>1. /\ UNCHANGED <<verdicts, before>>
        /\ pc' \in {"frame", "wait", "sleep"} => pc \in {"frame", "wait", "sleep"}
    BY <1>4 DEF Connect, Initialised, PrintTooTall, Await
  <2> QED
    BY <1>1, <1>2, <2>1, WordKept
<1>5. CASE PrintRaster
  <2>1. UNCHANGED verdicts /\ before' = completed
    BY <1>5 DEF PrintRaster
  <2> QED
    BY <1>1, <1>2, <2>1 DEF WordInv
<1>6. CASE Confirm
  <2>1. /\ verdicts' = Append(verdicts, "confirmed") /\ pc = "wait" /\ pc' = "ready"
        /\ UNCHANGED before /\ completed > before
    BY <1>6 DEF Confirm, Return, Finished
  <2>2. Count(verdicts, "confirmed") <= before /\ before \in Nat
    BY <2>1 DEF WordInv
  <2>3. Count(verdicts', "confirmed") <= completed
    BY <1>2, <1>3, <2>1, <2>2
  <2>4. verdicts' \in Seq({"confirmed", "assumed"})
    BY <2>1 DEF WordInv
  <2> QED
    BY <1>1, <1>2, <2>1, <2>3, <2>4 DEF WordInv
<1>7. CASE Assume
  <2>1. /\ verdicts' = Append(verdicts, "assumed") /\ pc' = "ready" /\ UNCHANGED before
    BY <1>7 DEF Assume, Return
  <2>2. verdicts' \in Seq({"confirmed", "assumed"})
    BY <2>1 DEF WordInv
  <2> QED
    BY <1>1, <1>2, <1>3, <2>1, <2>2 DEF WordInv
<1> QED
  BY <1>4, <1>5, <1>6, <1>7 DEF Driver

LEMMA TransportWord ==
    ASSUME WordInv, Transport
    PROVE  WordInv'
<1>1. UNCHANGED <<sent, wire, buf, found, frames, completed, owed>>
  <2>1. AckArrives => UNCHANGED buf
    BY DEF AckArrives, AckPacket, Absorb
  <2> QED
    BY <2>1
    DEF Transport, WriteStream, WritePacket, AckArrives, AckPacket, AckLapses, WriteFails,
        feedbackVars, printer
<1>2. /\ UNCHANGED <<verdicts, before, fates>>
      /\ pc' \in {pc, "failed"}
  BY DEF Transport, WriteStream, WritePacket, AckArrives, AckLapses, WriteFails, driver, printer
<1>3. FeedbackInv' /\ HeardInv' /\ Said' = Said /\ completed \in Nat
  BY <1>1, FeedbackKept DEF WordInv, FeedbackInv
<1> QED
  BY <1>1, <1>2, <1>3, WordKept

\* The printer announces the end of a frame that came out, and of no other.
LEMMA ReceiveWord ==
    ASSUME WordInv, Receive
    PROVE  WordInv'
<1>1. /\ UNCHANGED <<sent, wire, buf, found, frames, completed, verdicts, before, pc>>
      /\ sent \in Seq(Reply) /\ owed \in Seq(Reply) /\ Said \in Seq(Reply) /\ Said \in Seq(Frame)
      /\ fates \in Seq({"printed", "cancelled"})
  <2>1. sent \in Seq(Reply) /\ owed \in Seq(Reply) /\ Reply \subseteq Frame
    BY ReplyAssumption DEF WordInv, FeedbackInv
  <2>2. Said \in Seq(Reply)
    BY <2>1 DEF Said
  <2>3. Said \in Seq(Frame)
    BY <2>1, <2>2
  <2> QED
    BY <2>1, <2>2, <2>3 DEF Receive, feedbackVars, driver, WordInv
<1>2. \/ UNCHANGED <<owed, fates>>
      \/ \E f \in Answer \cup {Cancelled0B} :
            owed' = owed \o <<f>> /\ fates' \in {fates, Append(fates, "cancelled")}
      \/ owed' = owed \o <<Complete0F>> /\ fates' = Append(fates, "printed")
  <2>1. CASE Head(air) = "query"
    BY <2>1 DEF Receive, Say
  <2>2. CASE Head(air) = "body"
    BY <2>2 DEF Receive, Say, Ends
  <2>3. CASE Head(air) = "header"
    BY <2>3 DEF Receive
  <2>4. CASE Head(air) \notin {"query", "body", "header"}
    BY <2>4 DEF Receive
  <2> QED
    BY <2>1, <2>2, <2>3, <2>4
<1>3. ASSUME NEW f \in Reply, owed' = owed \o <<f>>
      PROVE  /\ owed' \in Seq(Reply)
             /\ Cardinality(Completions(Said)) \in Nat
             /\ Cardinality(Completions(Said')) =
                    Cardinality(Completions(Said)) + (IF f.tag = PRINT_COMPLETE THEN 1 ELSE 0)
  <2>1. Said' = Append(Said, f)
    BY <1>1, <1>3 DEF Said
  <2>2. f \in Frame
    BY ReplyAssumption
  <2> QED
    BY <1>1, <1>3, <2>1, <2>2, CompletionsAppend
<1>4. /\ Count(fates, "printed") \in Nat
      /\ Count(Append(fates, "printed"), "printed") = Count(fates, "printed") + 1
      /\ Count(Append(fates, "cancelled"), "printed") = Count(fates, "printed")
      /\ Append(fates, "cancelled") \in Seq({"printed", "cancelled"})
  <2>1. fates \in Seq({"printed", "cancelled"})
    BY <1>1
  <2>2. Append(fates, "cancelled") \in Seq({"printed", "cancelled"})
    BY <2>1
  <2> QED
    BY <2>1, <2>2, CountAppend
<1>5. ASSUME owed' \in Seq(Reply), fates' \in Seq({"printed", "cancelled"}),
             Cardinality(Completions(Said')) <= Count(fates', "printed")
      PROVE  WordInv'
  <2>1. Stream' = Stream
    BY <1>1 DEF Stream
  <2>2. FeedbackInv' /\ HeardInv'
    BY <1>1, <1>5, <2>1, ZenonT(60) DEF WordInv, FeedbackInv, HeardInv, Framed, Heard, PassedCount
  <2> QED
    BY <1>1, <1>5, <2>2 DEF WordInv
<1>6. CASE UNCHANGED <<owed, fates>>
  BY <1>1, <1>6, WordKept, FeedbackKept DEF WordInv, FeedbackInv
<1>7. ASSUME NEW f \in Answer \cup {Cancelled0B}, owed' = owed \o <<f>>,
             fates' \in {fates, Append(fates, "cancelled")}
      PROVE  WordInv'
  <2>1. f \in Reply /\ f.tag # PRINT_COMPLETE
    BY LinkAssumption
  <2>2. Cardinality(Completions(Said')) = Cardinality(Completions(Said)) /\ owed' \in Seq(Reply)
    BY <1>3, <1>7, <2>1
  <2>3. fates' \in Seq({"printed", "cancelled"}) /\ Count(fates', "printed") = Count(fates, "printed")
    BY <1>1, <1>4, <1>7
  <2> QED
    BY <1>5, <2>2, <2>3 DEF WordInv
<1>8. CASE owed' = owed \o <<Complete0F>> /\ fates' = Append(fates, "printed")
  <2>1. Complete0F \in Reply /\ Complete0F.tag = PRINT_COMPLETE
    BY LinkAssumption
  <2>2. /\ Cardinality(Completions(Said')) = Cardinality(Completions(Said)) + 1
        /\ owed' \in Seq(Reply) /\ Cardinality(Completions(Said)) \in Nat
    BY <1>3, <1>8, <2>1
  <2>3. /\ fates' \in Seq({"printed", "cancelled"})
        /\ Count(fates', "printed") = Count(fates, "printed") + 1
    BY <1>1, <1>4, <1>8
  <2>4. Cardinality(Completions(Said)) <= Count(fates, "printed")
    BY DEF WordInv
  <2> QED
    BY <1>4, <1>5, <2>2, <2>3, <2>4
<1> QED
  BY <1>2, <1>6, <1>7, <1>8

LEMMA SpeakWord ==
    ASSUME Unambiguous, WordInv, Speak
    PROVE  WordInv'
<1>1. /\ owed # <<>> /\ owed \in Seq(Reply) /\ sent \in Seq(Reply)
      /\ Send(Head(owed)) /\ owed' = Tail(owed)
      /\ UNCHANGED <<verdicts, before, pc, fates>>
  BY DEF Speak, WordInv, FeedbackInv, driver
<1>2. Head(owed) \in Reply /\ Tail(owed) \in Seq(Reply)
  BY <1>1
<1>3. /\ HeardInv' /\ wire' \in Seq(Byte) /\ AckFree(wire')
      /\ sent' \in Seq(Reply) /\ UNCHANGED <<buf, found, frames, completed>>
  BY <1>1, <1>2, SendHeard DEF WordInv
<1>4. FeedbackInv'
  BY <1>1, <1>2, <1>3 DEF WordInv, FeedbackInv
<1>5. Said' = Said
  <2>1. sent' = Append(sent, Head(owed))
    BY <1>1 DEF Send
  <2>2. Append(sent, Head(owed)) \o Tail(owed) = sent \o owed
    BY <1>1
  <2> QED
    BY <1>1, <2>1, <2>2 DEF Said
<1>6. completed \in Nat
  BY DEF WordInv, FeedbackInv
<1> QED
  BY <1>1, <1>3, <1>4, <1>5, <1>6, WordKept

LEMMA HearWord ==
    ASSUME Unambiguous, WordInv, Hear
    PROVE  WordInv'
<1>1. UNCHANGED <<verdicts, before, pc, fates, owed, sent>>
  BY DEF Hear, Parser, Resync, SkipUnknown, TakeFrame, Ingest, Read, linkVars, driver, printer
<1>2. Said' = Said
  BY <1>1 DEF Said
<1>3. FeedbackInv /\ HeardInv /\ completed \in Nat /\ buf \in Seq(Byte)
  BY DEF WordInv, FeedbackInv
<1>4. HeardInv' /\ FeedbackInv' /\ completed' >= completed
  <2>1. CASE Resync
    <3>1. UNCHANGED <<wire, found, frames, completed>> /\ buf' \in Seq(Byte)
      BY <1>3, <2>1 DEF Resync, Drop
    <3> QED
      BY <1>1, <1>3, <2>1, <3>1, ResyncHeard DEF FeedbackInv
  <2>2. CASE SkipUnknown
    <3>1. UNCHANGED <<wire, found, frames, completed>> /\ buf' \in Seq(Byte)
      BY <1>3, <2>2 DEF SkipUnknown, Unknown, Tagged, Drop
    <3> QED
      BY <1>1, <1>3, <2>2, <3>1, FrameHeard DEF FeedbackInv
  <2>3. CASE TakeFrame
    <3>1. UNCHANGED <<wire, frames, completed>> /\ HeardInv' /\ found' \in Seq(Frame)
      BY <1>3, <2>3, FrameHeard DEF TakeFrame
    <3>2. buf' \in Seq(Byte)
      <4>1. FrameLength <= Len(buf) /\ buf' = SubSeq(buf, FrameLength + 1, Len(buf))
        BY <2>3 DEF TakeFrame, Complete, Drop
      <4>2. FrameLength \in Nat
        <5>1. Known(buf[2]) /\ Len(buf) >= HeaderLength
          BY <2>3 DEF TakeFrame, Complete
        <5>2. CASE buf[2] = LENGTH_PREFIXED
          <6>1. 3 \in 1..Len(buf)
            BY <1>3, <5>1, <5>2 DEF HeaderLength
          <6>2. buf[3] \in Nat
            <7>1. buf[3] \in Byte
              BY <1>3, <6>1
            <7> QED
              BY <7>1 DEF Byte
          <6> QED
            BY <5>2, <6>2 DEF FrameLength
        <5>3. CASE buf[2] # LENGTH_PREFIXED
          <6>1. PayloadLength(buf[2]) \in Nat
            BY <5>1, <5>3, TagLengths DEF Known
          <6> QED
            BY <5>3, <6>1 DEF FrameLength
        <5> QED
          BY <5>2, <5>3
      <4> QED
        BY <1>3, <4>1, <4>2
    <3> QED
      BY <1>1, <1>3, <3>1, <3>2 DEF FeedbackInv
  <2>4. CASE Ingest
    <3>1. UNCHANGED <<wire, buf>>
      BY <2>4 DEF Ingest
    <3> QED
      BY <1>1, <1>3, <2>4, <3>1, IngestHeard DEF FeedbackInv
  <2>5. CASE Read
    <3>1. UNCHANGED <<found, frames, completed>>
      BY <2>5 DEF Read
    <3> QED
      BY <1>1, <1>3, <2>5, <3>1, ReadHeard, ReadStream DEF FeedbackInv
  <2> QED
    BY <2>1, <2>2, <2>3, <2>4, <2>5 DEF Hear, Parser
<1> QED
  BY <1>1, <1>2, <1>4, WordKept
LEMMA WordStep == Unambiguous /\ WordInv /\ [LinkNext]_vars => WordInv'
<1> SUFFICES ASSUME Unambiguous, WordInv, [LinkNext]_vars PROVE WordInv'
  OBVIOUS
<1>1. CASE UNCHANGED vars
  <2>1. UNCHANGED <<sent, wire, buf, found, frames, completed, owed, fates, verdicts, before, pc>>
    BY <1>1 DEF vars, feedbackVars, linkVars, driver, printer
  <2> QED
    BY <2>1, FeedbackKept, WordKept DEF WordInv, FeedbackInv
<1> QED
  BY <1>1, DriverWord, TransportWord, ReceiveWord, SpeakWord, HearWord DEF LinkNext

LEMMA WordInit == Unambiguous /\ LinkInit => WordInv
<1> SUFFICES ASSUME Unambiguous, LinkInit PROVE WordInv
  OBVIOUS
<1>1. /\ buf = <<>> /\ sent = <<>> /\ owed = <<>> /\ found = <<>> /\ frames = <<>>
      /\ completed = 0
      /\ fates = <<>> /\ verdicts = <<>> /\ before = 0 /\ pc = "closed"
      /\ wire \in Leftover \cup {<<>>}
  BY DEF LinkInit, Init
<1>2. wire \in Seq(Byte) /\ AckFree(wire) /\ Unprefixed(wire)
  <2>1. CASE wire \in Leftover
    BY <2>1, BoundAssumption DEF Unambiguous
  <2>2. CASE wire = <<>>
    <3>1. wire \in Seq(Byte) /\ Len(wire) = 0
      BY <2>2
    <3> QED
      BY <3>1 DEF AckFree, Unprefixed
  <2> QED
    BY <1>1, <2>1, <2>2
<1>3. FeedbackInv
  BY <1>1, <1>2 DEF FeedbackInv
<1>4. Completions(<<>>) = {} /\ Cardinality({}) = 0
  BY FS_EmptySet DEF Completions
<1>5. Stream = wire
  BY <1>1, <1>2 DEF Stream
<1>6. HeardInv
  <2> DEFINE p == [n \in 1..1 |-> Len(wire) + 1]
  <2>1. Len(wire) \in Nat /\ Len(sent) = 0
    BY <1>1, <1>2
  <2>2. p \in [1..(Len(sent) + 1) -> Nat] /\ p[1] = Len(wire) + 1
    BY <2>1
  <2> HIDE DEF p
  <2>3. \A m \in 1..(p[1] - 0 - 1) : ~IsPrefixByte(wire[m])
    BY <1>2, <2>1, <2>2 DEF Unprefixed
  <2>4. Framed(0, 0, p)
    BY <1>5, <2>1, <2>2, <2>3 DEF Framed
  <2>5. {n \in Completions(sent) : n <= 0} = {}
    BY <1>1, <1>4
  <2>6. Heard(0)
    <3>1. Cardinality(Completions(found)) = 0
      BY <1>1, <1>4
    <3>2. Cardinality({n \in Completions(sent) : n <= 0}) = 0
      BY <1>4, <2>5
    <3>3. completed = 0
      BY <1>1
    <3>4. frames \o found = Understood(sent)[0]
      BY <1>1, UnderstoodStep
    <3> QED
      BY <3>1, <3>2, <3>3, <3>4 DEF Heard, PassedCount
  <2>7. 0 \in Nat
    OBVIOUS
  <2> QED
    BY <2>2, <2>4, <2>6, <2>7 DEF HeardInv
<1>7. Said = <<>>
  BY <1>1 DEF Said
<1>8. ASSUME NEW x
      PROVE  Count(<<>>, x) = 0
  <2>1. {n \in 1..Len(<<>>) : <<>>[n] = x} = {}
    OBVIOUS
  <2> QED
    BY <1>4, <2>1 DEF Count
<1>9. /\ fates \in Seq({"printed", "cancelled"}) /\ verdicts \in Seq({"confirmed", "assumed"})
      /\ before \in Nat
  BY <1>1
<1>10. /\ Cardinality(Completions(Said)) = 0 /\ Count(fates, "printed") = 0
       /\ Count(verdicts, "confirmed") = 0
  BY <1>1, <1>4, <1>7, <1>8
<1> QED
  BY <1>1, <1>3, <1>6, <1>9, <1>10 DEF WordInv

\* Of the frames whose wait ended with a confirmation, so many have come out:
\* however the replies were cut and when they were read, and whichever waits
\* were given up, on a stream whose frames can be told apart.
THEOREM ConfirmedCameOut == Unambiguous => (LinkSpec => []ConfirmedHasFinished)
<1> SUFFICES ASSUME Unambiguous PROVE LinkSpec => []ConfirmedHasFinished
  OBVIOUS
<1>1. WordInv => ConfirmedHasFinished
  <2> SUFFICES ASSUME WordInv PROVE ConfirmedHasFinished
    OBVIOUS
  <2>1. PICK k \in Nat, b \in Nat, p \in [1..(Len(sent) + 1) -> Nat] :
          Framed(k, b, p) /\ Heard(k)
    BY DEF WordInv, HeardInv
  <2>2. /\ sent \in Seq(Reply) /\ owed \in Seq(Reply) /\ found \in Seq(Frame) /\ completed \in Nat
        /\ Reply \subseteq Frame
    BY ReplyAssumption DEF WordInv, FeedbackInv
  <2>3. Completions(found) \in SUBSET (1..Len(found)) /\ Len(found) \in Nat
    BY <2>2 DEF Completions
  <2>4. /\ Completions(sent) \subseteq Completions(Said)
        /\ Completions(Said) \in SUBSET (1..Len(Said)) /\ Len(Said) \in Nat
    BY <2>2 DEF Completions, Said
  <2>5. IsFiniteSet(Completions(Said)) /\ Cardinality(Completions(Said)) \in Nat
    BY <2>4, MarksAppend
  <2>6. PassedCount(k) <= Cardinality(Completions(Said)) /\ PassedCount(k) \in Nat
    BY <2>4, <2>5, FS_Subset, FS_CardinalityType DEF PassedCount
  <2>7. Cardinality(Completions(found)) \in Nat
    BY <2>3, MarksAppend
  <2>8. /\ Count(verdicts, "confirmed") \in Nat /\ Count(fates, "printed") \in Nat
    BY CountAppend, ZenonT(60) DEF WordInv
  <2>9. /\ Count(verdicts, "confirmed") <= completed
        /\ Cardinality(Completions(Said)) <= Count(fates, "printed")
    BY DEF WordInv
  <2> QED
    BY <2>1, <2>2, <2>5, <2>6, <2>7, <2>8, <2>9 DEF ConfirmedHasFinished, Heard
<1>2. LinkInit => WordInv
  BY WordInit
<1>3. WordInv /\ [LinkNext]_vars => WordInv'
  BY WordStep
<1> QED
  BY <1>1, <1>2, <1>3, PTL DEF LinkSpec

\* The parser is at rest with everything read: it has passed all frames.
LEMMA AllPassed ==
    ASSUME FeedbackInv, NEW k \in Nat, NEW b, NEW p, Framed(k, b, p), Idle, wire = <<>>
    PROVE  k = Len(sent)
<1>1. /\ buf \in Seq(Byte) /\ sent \in Seq(Reply) /\ Len(sent) \in Nat /\ Len(buf) \in Nat
      /\ k <= Len(sent) /\ b \in Nat /\ b < p[k + 1]
      /\ p[Len(sent) + 1] = b + Len(Stream) + 1
      /\ \A n \in 1..(Len(sent) + 1) : p[n] \in Nat /\ p[n] <= b + Len(Stream) + 1
  BY FramedParts
<1>2. Stream = buf
  BY <1>1 DEF Stream
<1> SUFFICES ASSUME k # Len(sent) PROVE FALSE
  OBVIOUS
<1>3. k + 1 \in (k + 1)..Len(sent) /\ k + 1 \in 1..Len(sent) /\ (k + 1) + 1 = k + 2
      /\ k + 1 \in 1..(Len(sent) + 1) /\ k + 2 \in 1..(Len(sent) + 1)
  BY <1>1
<1> DEFINE f == sent[k + 1]
           e == Encoded(sent[k + 1])
<1>4. p[(k + 1) + 1] = p[k + 1] + Len(e) /\ e = Encoded(f) /\ f \in Reply
  <2>1. p[(k + 1) + 1] = p[k + 1] + Len(e)
    BY <1>3 DEF Framed
  <2>2. f \in Reply
    BY <1>1, <1>3
  <2> QED
    BY <2>1, <2>2
<1>5. b < p[k + 1] /\ p[k + 1] \in Nat /\ p[(k + 1) + 1] <= b + Len(buf) + 1 /\ Len(buf) \in Nat
  BY <1>1, <1>2, <1>3
<1>6. ASSUME IsPrefixByte(Head(buf)), buf # <<>>
       PROVE  \A m \in 1..Len(e) : m <= Len(buf) => buf[m] = e[m]
  BY <1>6, HeadFrame, ZenonT(60)
<1> HIDE DEF f, e
<1>7. /\ e \in Seq(Byte) /\ Len(e) \in Nat /\ Len(e) >= 2
      /\ f.tag \in Byte /\ f.raw \in Seq(Byte) /\ e[2] = f.tag
      /\ f.tag # LENGTH_PREFIXED => Len(e) = 2 + Len(f.raw)
      /\ f.tag = LENGTH_PREFIXED => Len(e) = 3 + Len(f.raw) /\ e[3] = Len(f.raw)
      /\ f.tag \in FixedTag => Len(f.raw) = PayloadLength(f.tag)
  <2>1. Parts(f, e)
    BY <1>4, EncodedIs
  <2> QED
    BY <2>1 DEF Parts
<1>8. Len(buf) >= Len(e) /\ Len(buf) >= 2
  <2>1. PICK x \in Nat, size \in Nat, l \in Nat : x = p[k + 1] /\ size = Len(e) /\ l = Len(buf)
    BY <1>7, <1>5
  <2>2. b < x /\ x + size <= b + l + 1 /\ size >= 2
    BY <1>4, <1>7, <1>5, <2>1
  <2>3. l >= size /\ l >= 2
    BY <1>1, <2>2
  <2> QED
    BY <2>1, <2>3
<1>9. buf # <<>>
  BY <1>8
<1>10. IsPrefixByte(Head(buf))
  BY <1>9 DEF Idle, Parsing, Garbage
<1>11. \A m \in 1..Len(e) : m <= Len(buf) => buf[m] = e[m]
  BY <1>9, <1>10, <1>6
<1>12. Tagged /\ buf[2] = f.tag
  BY <1>7, <1>8, <1>10, <1>11 DEF Tagged
<1>13. Known(f.tag)
  BY <1>12 DEF Idle, Parsing, Unknown
<1>14. HeaderLength <= Len(buf) /\ FrameLength <= Len(buf)
  <2>1. CASE f.tag = LENGTH_PREFIXED
    <3>1. 3 \in 1..Len(e) /\ buf[3] = Len(f.raw)
      BY <1>7, <1>8, <1>11, <2>1
    <3> QED
      BY <1>7, <1>8, <1>12, <2>1, <3>1 DEF HeaderLength, FrameLength
  <2>2. CASE f.tag # LENGTH_PREFIXED
    <3>1. f.tag \in FixedTag
      BY <1>13, <2>2 DEF Known
    <3> QED
      BY <1>7, <1>8, <1>12, <2>2, <3>1 DEF HeaderLength, FrameLength
  <2> QED
    BY <2>1, <2>2
<1>15. Complete
  BY <1>1, <1>12, <1>13, <1>14 DEF Complete
<1> QED
  BY <1>15 DEF Idle, Parsing

\* However the stream is cut, the frames that come out are those the printer sent,
\* in order and with their payloads; none is missing when all has been read
\* (StatusParser.feed, DeviceState.ingest).
THEOREM FramesCameThrough == Unambiguous => (LinkSpec => []FramesAsSent)
<1> SUFFICES ASSUME Unambiguous PROVE LinkSpec => []FramesAsSent
  OBVIOUS
<1>1. WordInv => FramesAsSent
  <2> SUFFICES ASSUME WordInv PROVE FramesAsSent
    OBVIOUS
  <2>1. PICK k \in Nat, b \in Nat, p \in [1..(Len(sent) + 1) -> Nat] :
          Framed(k, b, p) /\ Heard(k)
    BY DEF WordInv, HeardInv
  <2>2. k \in 0..Len(sent) /\ FeedbackInv
    BY <2>1 DEF Framed, WordInv
  <2>3. \E n \in 0..Len(sent) : frames \o found = Understood(sent)[n]
    BY <2>1, <2>2 DEF Heard
  <2>4. ASSUME Idle, wire = <<>>
        PROVE  /\ frames = Understood(sent)[Len(sent)]
               /\ completed = Cardinality(Completions(sent))
    <3>1. k = Len(sent)
      BY <2>1, <2>2, <2>4, AllPassed
    <3>2. found = <<>> /\ frames \in Seq(Frame) /\ completed \in Nat /\ sent \in Seq(Reply)
      BY <2>2, <2>4 DEF Idle, FeedbackInv
    <3>3. frames = Understood(sent)[Len(sent)]
      BY <2>1, <3>1, <3>2 DEF Heard
    <3>4. Completions(found) = {} /\ Cardinality(Completions(found)) = 0
      BY <3>2, FS_EmptySet DEF Completions
    <3>5. {n \in Completions(sent) : n <= k} = Completions(sent)
      BY <3>1, <3>2 DEF Completions
    <3>6. completed = Cardinality(Completions(sent))
      <4>1. completed + 0 = Cardinality({n \in Completions(sent) : n <= k})
        BY <2>1, <3>4, Zenon DEF Heard, PassedCount
      <4>2. completed + 0 = completed
        BY <3>2
      <4> QED
        BY <3>5, <4>1, <4>2, Zenon
    <3> QED
      BY <3>3, <3>6
  <2> QED
    BY <2>3, <2>4 DEF FramesAsSent
<1>2. LinkInit => WordInv
  BY WordInit
<1>3. WordInv /\ [LinkNext]_vars => WordInv'
  BY WordStep
<1> QED
  BY <1>1, <1>2, <1>3, PTL DEF LinkSpec

-----------------------------------------------------------------------------
(***************************************************************************)
(* The types.  That the pieces the printer still expects are never fewer   *)
(* than none says something of the writes: no piece of a body reaches the  *)
(* printer that its header did not announce.                               *)
(***************************************************************************)

\* What the printer expects after a unit.
Follows(e, u, f) == f = IF u = "header" THEN Rows ELSE IF u = "body" THEN e - 1 ELSE e

\* What it expects along s, which takes it from a to z.
Path(s, a, z) == \E d \in [0..Len(s) -> 0..Rows] :
    /\ d[0] = a /\ d[Len(s)] = z
    /\ \A k \in 1..Len(s) : Follows(d[k - 1], s[k], d[k])

Heading == {<<paper, "header">>, <<"header">>}

\* A frame still to be written: its heading or, when h is 0, nothing of it,
\* b pieces, and a feed.
Shaped(t, h, b) == \A w \in 1..Len(t) :
    t[w] \in IF w <= h THEN Heading ELSE IF w <= h + b THEN {<<"body">>} ELSE {<<"feed">>}

\* Of a frame whose heading has been written, no more is left than the
\* printer will expect by then.
Covered(t, e) == \E h \in 0..1, b \in 0..Rows : Shaped(t, h, b) /\ (h = 0 => b <= e)

DueInv ==
    /\ \E e \in 0..Rows : Path(air, due, e) /\ (pc = "frame" => Covered(todo, e))
    /\ pc = "session" => \A w \in 1..Len(todo) : todo[w] \in {<<"query">>, <<paper>>}

LEMMA PathAppend ==
    ASSUME NEW s \in Seq(Unit), NEW u \in Unit, NEW a, NEW e \in 0..Rows, NEW f \in 0..Rows,
           Path(s, a, e), Follows(e, u, f)
    PROVE  Path(Append(s, u), a, f)
<1>1. PICK d \in [0..Len(s) -> 0..Rows] :
        /\ d[0] = a /\ d[Len(s)] = e
        /\ \A k \in 1..Len(s) : Follows(d[k - 1], s[k], d[k])
  BY DEF Path
<1> DEFINE g == [k \in 0..(Len(s) + 1) |-> IF k <= Len(s) THEN d[k] ELSE f]
<1>2. /\ Len(Append(s, u)) = Len(s) + 1 /\ Len(s) \in Nat
      /\ Append(s, u)[Len(s) + 1] = u
      /\ \A k \in 1..Len(s) : Append(s, u)[k] = s[k]
  OBVIOUS
<1>3. /\ g \in [0..(Len(s) + 1) -> 0..Rows]
      /\ \A k \in 0..Len(s) : g[k] = d[k]
      /\ g[Len(s) + 1] = f
  BY <1>2
<1> HIDE DEF g
<1>4. g[0] = a
  BY <1>1, <1>2, <1>3
<1>5. ASSUME NEW k \in 1..(Len(s) + 1) PROVE Follows(g[k - 1], Append(s, u)[k], g[k])
  <2>1. CASE k = Len(s) + 1
    <3>1. g[k - 1] = e /\ g[k] = f /\ Append(s, u)[k] = u
      BY <1>1, <1>2, <1>3, <2>1
    <3> QED
      BY <3>1
  <2>2. CASE k # Len(s) + 1
    <3>1. k \in 1..Len(s) /\ k - 1 \in 0..Len(s) /\ k \in 0..Len(s)
      BY <1>2, <2>2
    <3>2. g[k - 1] = d[k - 1] /\ g[k] = d[k] /\ Append(s, u)[k] = s[k]
      BY <1>2, <1>3, <3>1
    <3> QED
      BY <1>1, <3>1, <3>2
  <2> QED
    BY <2>1, <2>2
<1> QED
  BY <1>2, <1>3, <1>4, <1>5 DEF Path

LEMMA PathTail ==
    ASSUME NEW s \in Seq(Unit), s # <<>>, NEW a, NEW z, Path(s, a, z)
    PROVE  \E c \in 0..Rows : Follows(a, Head(s), c) /\ Path(Tail(s), c, z)
<1>1. PICK d \in [0..Len(s) -> 0..Rows] :
        /\ d[0] = a /\ d[Len(s)] = z
        /\ \A k \in 1..Len(s) : Follows(d[k - 1], s[k], d[k])
  BY DEF Path
<1>2. /\ Len(s) \in Nat /\ Len(s) >= 1 /\ Head(s) = s[1] /\ Len(Tail(s)) = Len(s) - 1
      /\ \A k \in 1..(Len(s) - 1) : Tail(s)[k] = s[k + 1]
  OBVIOUS
<1> DEFINE g == [k \in 0..(Len(s) - 1) |-> d[k + 1]]
<1>3. /\ g \in [0..(Len(s) - 1) -> 0..Rows]
      /\ \A k \in 0..(Len(s) - 1) : g[k] = d[k + 1]
  BY <1>2
<1> HIDE DEF g
<1>4. g[0] = d[1] /\ g[Len(s) - 1] = z /\ d[1] \in 0..Rows
  BY <1>1, <1>2, <1>3
<1>5. ASSUME NEW k \in 1..(Len(s) - 1) PROVE Follows(g[k - 1], Tail(s)[k], g[k])
  <2>1. k + 1 \in 1..Len(s) /\ k - 1 \in 0..(Len(s) - 1) /\ k \in 0..(Len(s) - 1) /\ (k - 1) + 1 = k
    BY <1>2
  <2>2. Follows(d[(k + 1) - 1], s[k + 1], d[k + 1]) /\ (k + 1) - 1 = k
    BY <1>1, <2>1
  <2> QED
    BY <1>2, <1>3, <2>1, <2>2
<1>6. Path(Tail(s), d[1], z)
  BY <1>2, <1>3, <1>4, <1>5 DEF Path
<1>7. Follows(a, Head(s), d[1])
  BY <1>1, <1>2
<1> QED
  BY <1>4, <1>6, <1>7

LEMMA ShapedParts ==
    ASSUME NEW t \in Seq(Seq(Unit)), t # <<>>, NEW h \in 0..1, NEW b \in 0..Rows,
           Shaped(t, h, b)
    PROVE  /\ h = 1 => /\ Head(t) \in Heading
                       /\ Shaped(Tail(t), 0, b)
                       /\ Shaped(<< <<"header">> >> \o Tail(t), 1, b)
           /\ h = 0 /\ b > 0 => Head(t) = <<"body">> /\ Shaped(Tail(t), 0, b - 1)
           /\ h = 0 /\ b = 0 => Head(t) = <<"feed">> /\ Shaped(Tail(t), 0, 0)
<1>1. Rows \in Nat /\ b \in Nat
  BY LinkAssumption
<1>2. /\ Head(t) = t[1] /\ 1 \in 1..Len(t) /\ Len(Tail(t)) = Len(t) - 1 /\ Len(t) \in Nat
      /\ \A w \in 1..Len(Tail(t)) : Tail(t)[w] = t[w + 1] /\ w + 1 \in 1..Len(t)
  OBVIOUS
<1>3. Head(t) \in IF 1 <= h THEN Heading ELSE IF 1 <= h + b THEN {<<"body">>} ELSE {<<"feed">>}
  BY <1>2 DEF Shaped
<1>4. ASSUME NEW w \in 1..Len(Tail(t))
      PROVE  Tail(t)[w] \in IF w <= h - 1 THEN Heading
                            ELSE IF w <= h - 1 + b THEN {<<"body">>} ELSE {<<"feed">>}
  <2>1. t[w + 1] \in IF w + 1 <= h THEN Heading
                     ELSE IF w + 1 <= h + b THEN {<<"body">>} ELSE {<<"feed">>}
    BY <1>2 DEF Shaped
  <2>2. w \in Nat /\ (w + 1 <= h <=> w <= h - 1) /\ (w + 1 <= h + b <=> w <= h - 1 + b)
    BY <1>1, <1>2
  <2> QED
    BY <1>2, <2>1, <2>2
<1>5. CASE h = 1
  <2>1. Shaped(Tail(t), 0, b)
    BY <1>1, <1>2, <1>4, <1>5 DEF Shaped
  <2>2. Tail(t) \in Seq(Seq(Unit)) /\ << <<"header">> >> \in Seq(Seq(Unit))
    BY DEF Unit
  <2> DEFINE v == << <<"header">> >> \o Tail(t)
  <2>3. /\ Len(v) = Len(t) /\ v[1] = <<"header">>
        /\ \A w \in 2..Len(v) : v[w] = t[w]
    BY <1>2, <2>2
  <2> HIDE DEF v
  <2>4. ASSUME NEW w \in 1..Len(v)
        PROVE  v[w] \in IF w <= 1 THEN Heading
                        ELSE IF w <= 1 + b THEN {<<"body">>} ELSE {<<"feed">>}
    <3>1. CASE w = 1
      <4>1. <<"header">> \in Heading
        BY DEF Heading
      <4>2. v[w] \in Heading
        BY <2>3, <3>1, <4>1
      <4>3. w <= 1
        BY <3>1
      <4> QED
        BY <4>2, <4>3
    <3>2. CASE w # 1
      <4>1. w \in 2..Len(v) /\ w \in 1..Len(t)
        BY <1>2, <2>3, <3>2
      <4> QED
        BY <1>5, <2>3, <4>1 DEF Shaped
    <3> QED
      BY <3>1, <3>2
  <2>5. Shaped(v, 1, b)
    BY <2>4 DEF Shaped
  <2> QED
    BY <1>3, <1>5, <2>1, <2>5 DEF v
<1>6. CASE h = 0 /\ b > 0
  <2>1. Shaped(Tail(t), 0, b - 1)
    BY <1>1, <1>2, <1>4, <1>6 DEF Shaped
  <2> QED
    BY <1>1, <1>3, <1>6, <2>1
<1>7. CASE h = 0 /\ b = 0
  <2>1. Shaped(Tail(t), 0, 0)
    BY <1>1, <1>2, <1>4, <1>7 DEF Shaped
  <2> QED
    BY <1>3, <1>7, <2>1
<1> QED
  BY <1>1, <1>5, <1>6, <1>7

LEMMA CutUnits ==
    /\ \A u \in Unit : Len(<<u>>) = 1 /\ SubSeq(<<u>>, 1, 1) = <<u>>
    /\ \A u, v \in Unit : /\ Len(<<u, v>>) = 2
                          /\ SubSeq(<<u, v>>, 1, 1) = <<u>>
                          /\ SubSeq(<<u, v>>, 1 + 1, 2) = <<v>>
                          /\ SubSeq(<<u, v>>, 1, 2) = <<u, v>>
<1>1. ASSUME NEW s \in Seq(Unit), NEW m \in 1..Len(s)
      PROVE  SubSeq(s, m, m) = <<s[m]>>
  <2>1. m \in m..Len(s) /\ m \in Int /\ m + 1 \in Int /\ m < m + 1
    OBVIOUS
  <2>2. SubSeq(s, m, m) = <<s[m]>> \o SubSeq(s, m + 1, m)
    BY <2>1, SubSeqRecursiveFirst
  <2>3. SubSeq(s, m + 1, m) = <<>>
    BY <2>1, SubSeqEmpty
  <2>4. <<s[m]>> \o <<>> = <<s[m]>>
    BY <2>1
  <2> QED
    BY <2>2, <2>3, <2>4
<1>2. ASSUME NEW u \in Unit PROVE Len(<<u>>) = 1 /\ SubSeq(<<u>>, 1, 1) = <<u>>
  <2>1. Len(<<u>>) = 1 /\ <<u>> \in Seq(Unit) /\ <<u>>[1] = u /\ 1 \in 1..Len(<<u>>)
    OBVIOUS
  <2> QED
    BY <1>1, <2>1
<1>3. ASSUME NEW u \in Unit, NEW v \in Unit
      PROVE  /\ Len(<<u, v>>) = 2
             /\ SubSeq(<<u, v>>, 1, 1) = <<u>>
             /\ SubSeq(<<u, v>>, 1 + 1, 2) = <<v>>
             /\ SubSeq(<<u, v>>, 1, 2) = <<u, v>>
  <2> DEFINE s == <<u, v>>
  <2>1. /\ Len(s) = 2 /\ s \in Seq(Unit) /\ s[1] = u /\ s[2] = v
        /\ 1 \in 1..Len(s) /\ 2 \in 1..Len(s) /\ 1 + 1 = 2
    OBVIOUS
  <2> HIDE DEF s
  <2>2. SubSeq(s, 1, 1) = <<u>> /\ SubSeq(s, 2, 2) = <<v>>
    BY <1>1, <2>1
  <2>3. SubSeq(s, 1, 2) = s
    <3>1. SubSeq(s, 1, Len(s)) = s
      BY <2>1, SubSeqFull
    <3> QED
      BY <2>1, <3>1
  <2> QED
    BY <2>1, <2>2, <2>3 DEF s
<1> QED
  BY <1>2, <1>3

\* Whatever part of a write leaves, the printer can take it; when something
\* does, the same holds of what remains.
LEMMA SendDue ==
    ASSUME PaperInv, DueInv, Writing, todo # <<>>, NEW n \in 0..Len(Head(todo))
    PROVE  \E f \in 0..Rows :
             /\ Path(air \o SubSeq(Head(todo), 1, n), due, f)
             /\ pc = "frame" /\ n # 0 =>
                  Covered(IF n = Len(Head(todo)) THEN Tail(todo)
                          ELSE <<SubSeq(Head(todo), n + 1, Len(Head(todo)))>> \o Tail(todo), f)
<1> DEFINE x == SubSeq(Head(todo), 1, n)
           rest == IF n = Len(Head(todo)) THEN Tail(todo)
                   ELSE <<SubSeq(Head(todo), n + 1, Len(Head(todo)))>> \o Tail(todo)
           Sent(f) == Path(air \o x, due, f) /\ (pc = "frame" /\ n # 0 => Covered(rest, f))
<1> SUFFICES \E f \in 0..Rows : Sent(f)
  OBVIOUS
<1>1. /\ air \in Seq(Unit) /\ todo \in Seq(Seq(Unit)) /\ paper \in Papers /\ paper \in Unit
      /\ Rows \in Nat /\ Rows >= 1 /\ Head(todo) = todo[1] /\ 1 \in 1..Len(todo)
      /\ paper # "header" /\ paper # "body"
  <2>1. Allowed \subseteq Unit
    BY DEF Allowed
  <2>2. air \in Seq(Allowed) /\ todo \in Seq(Seq(Allowed)) /\ paper \in Papers
    BY DEF PaperInv
  <2>3. air \in Seq(Unit) /\ todo \in Seq(Seq(Unit))
    BY <2>1, <2>2
  <2> QED
    BY <2>2, <2>3, LinkAssumption DEF Unit, Papers
<1>2. PICK e \in 0..Rows : Path(air, due, e) /\ (pc = "frame" => Covered(todo, e))
  BY DEF DueInv
<1>3. CASE n = 0
  <2>1. air \o x = air
    BY <1>1, <1>3
  <2> QED
    BY <1>2, <1>3, <2>1
<1>4. ASSUME NEW u \in Unit, Head(todo) = <<u>>, n # 0
      PROVE  /\ air \o x = Append(air, u) /\ rest = Tail(todo)
             /\ n = 1
  <2>1. Len(Head(todo)) = 1
    BY <1>4, CutUnits
  <2>2. n \in 0..1
    BY <2>1
  <2>3. n = 1
    BY <1>4, <2>2
  <2>4. x = <<u>>
    BY <1>4, <2>3, CutUnits
  <2>5. air \o <<u>> = Append(air, u)
    BY <1>1, <1>4
  <2> QED
    BY <2>1, <2>3, <2>4, <2>5
<1> HIDE DEF rest, x, Sent
<1>5. ASSUME NEW u \in Unit, Head(todo) = <<u>>, n # 0, NEW f \in 0..Rows,
             Follows(e, u, f), pc = "frame" => Covered(Tail(todo), f)
      PROVE  \E g \in 0..Rows : Sent(g)
  <2>1. Path(Append(air, u), due, f)
    BY <1>1, <1>2, <1>5, PathAppend
  <2>2. Sent(f)
    BY <1>4, <1>5, <2>1 DEF Sent
  <2> QED
    BY <2>2
<1>6. CASE pc = "session" /\ n # 0
  <2>1. \/ Head(todo) = <<"query">> /\ "query" \in Unit
        \/ Head(todo) = <<paper>>
    BY <1>1, <1>6 DEF DueInv, Unit
  <2>2. Follows(e, "query", e) /\ Follows(e, paper, e)
    BY <1>1 DEF Follows
  <2>3. pc # "frame"
    BY <1>6
  <2> QED
    BY <1>1, <1>5, <1>6, <2>1, <2>2, <2>3
<1>7. CASE pc = "frame" /\ n # 0
  <2>1. PICK h \in 0..1, b \in 0..Rows : Shaped(todo, h, b) /\ (h = 0 => b <= e)
    BY <1>2, <1>7 DEF Covered
  <2>2. Rows \in 0..Rows /\ 0 \in 0..1 /\ 1 \in 0..1 /\ b <= Rows /\ 0 \in 0..Rows
    BY <1>1
  <2>3. "header" \in Unit /\ "body" \in Unit /\ "feed" \in Unit
    BY DEF Unit
  <2>4. CASE h = 1
    <3>1. /\ Head(todo) \in Heading /\ Shaped(Tail(todo), 0, b)
          /\ Shaped(<< <<"header">> >> \o Tail(todo), 1, b)
      BY <1>1, <2>1, <2>4, ShapedParts
    <3>2. Covered(Tail(todo), Rows) /\ Covered(<< <<"header">> >> \o Tail(todo), e)
      BY <2>2, <3>1 DEF Covered
    <3>3. Follows(e, "header", Rows) /\ Follows(e, paper, e)
      BY <1>1 DEF Follows
    <3>4. CASE Head(todo) = <<"header">>
      BY <1>5, <1>7, <2>2, <2>3, <3>2, <3>3, <3>4
    <3>5. CASE Head(todo) = <<paper, "header">>
      <4>1. Path(Append(air, paper), due, e) /\ Append(air, paper) \in Seq(Unit)
        BY <1>1, <1>2, <3>3, PathAppend
      <4>2. Path(Append(Append(air, paper), "header"), due, Rows)
        BY <2>2, <2>3, <3>3, <4>1, PathAppend
      <4>3. Len(Head(todo)) = 2 /\ n \in 1..2
        <5>1. Len(Head(todo)) = 2
          BY <1>1, <2>3, <3>5, CutUnits
        <5>2. n \in 0..2
          BY <5>1
        <5> QED
          BY <1>7, <5>1, <5>2
      <4>4. CASE n = 1
        <5>1. x = <<paper>> /\ rest = << <<"header">> >> \o Tail(todo)
          <6>1. Len(Head(todo)) = 2 /\ n # Len(Head(todo))
            <7>1. Len(Head(todo)) = 2
              BY <1>1, <2>3, <3>5, CutUnits
            <7> QED
              BY <4>4, <7>1
          <6>2. x = <<paper>>
            BY <1>1, <2>3, <3>5, <4>4, CutUnits DEF x
          <6>3. SubSeq(Head(todo), n + 1, Len(Head(todo))) = <<"header">>
            <7>1. SubSeq(<<paper, "header">>, 1 + 1, 2) = <<"header">>
              BY <1>1, <2>3, CutUnits
            <7>2. Len(Head(todo)) = 2
              BY <1>1, <2>3, <3>5, CutUnits
            <7> QED
              BY <3>5, <4>4, <7>1, <7>2
          <6> QED
            BY <6>1, <6>2, <6>3 DEF rest
        <5>2. air \o x = Append(air, paper)
          BY <1>1, <5>1
        <5>3. Sent(e)
          BY <3>2, <4>1, <5>1, <5>2 DEF Sent
        <5> QED
          BY <5>3
      <4>5. CASE n = 2
        <5>1. x = <<paper, "header">> /\ rest = Tail(todo)
          BY <1>1, <2>3, <3>5, <4>3, <4>5, CutUnits DEF x, rest
        <5>2. air \o x = Append(Append(air, paper), "header")
          BY <1>1, <2>3, <5>1
        <5>3. Sent(Rows)
          BY <3>2, <4>2, <5>1, <5>2 DEF Sent
        <5> QED
          BY <2>2, <5>3
      <4> QED
        BY <4>3, <4>4, <4>5
    <3> QED
      BY <3>1, <3>4, <3>5 DEF Heading
  <2>5. CASE h = 0 /\ b > 0
    <3>1. Head(todo) = <<"body">> /\ Shaped(Tail(todo), 0, b - 1)
      BY <1>1, <2>1, <2>5, ShapedParts
    <3>2. e - 1 \in 0..Rows /\ b - 1 \in 0..Rows /\ b - 1 <= e - 1
      BY <1>1, <2>1, <2>5
    <3>3. Covered(Tail(todo), e - 1)
      BY <2>2, <3>1, <3>2 DEF Covered
    <3>4. Follows(e, "body", e - 1)
      BY DEF Follows
    <3> QED
      BY <1>5, <1>7, <2>3, <3>1, <3>2, <3>3, <3>4
  <2>6. CASE h = 0 /\ b = 0
    <3>1. Head(todo) = <<"feed">> /\ Shaped(Tail(todo), 0, 0)
      BY <1>1, <2>1, <2>6, ShapedParts
    <3>2. Covered(Tail(todo), e)
      BY <2>1, <2>2, <2>6, <3>1 DEF Covered
    <3>3. Follows(e, "feed", e)
      BY DEF Follows
    <3> QED
      BY <1>5, <1>7, <2>3, <3>1, <3>2, <3>3
  <2> QED
    BY <2>1, <2>4, <2>5, <2>6
<1> QED
  BY <1>3, <1>6, <1>7 DEF Writing

LEMMA WriteDue ==
    ASSUME PaperInv, DueInv, WriteStream \/ WritePacket \/ WriteFails
    PROVE  DueInv'
<1>1. /\ Writing /\ todo # <<>> /\ UNCHANGED <<paper, due>>
      /\ todo \in Seq(Seq(Allowed)) /\ Head(todo) \in Seq(Allowed)
  <2>1. /\ Writing /\ todo # <<>> /\ UNCHANGED <<paper, due>>
    BY DEF WriteStream, WritePacket, WriteFails, feedbackVars, printer
  <2> QED
    BY <2>1, TodoParts DEF PaperInv
<1>2. Heading' = Heading
  BY <1>1 DEF Heading
<1>3. ASSUME NEW n \in 0..Len(Head(todo)), n # 0, Sends(n), UNCHANGED pc
      PROVE  DueInv'
  <2>1. PICK f \in 0..Rows :
          /\ Path(air', due, f)
          /\ pc = "frame" => Covered(todo', f)
    BY <1>1, <1>3, SendDue DEF Sends
  <2>2. pc = "frame" => Covered(todo, f)'
    BY <1>2, <2>1 DEF Covered, Shaped
  <2>3. ASSUME pc = "session", NEW w \in 1..Len(todo') PROVE todo'[w] \in {<<"query">>, <<paper>>}
    <3>1. Head(todo) \in {<<"query">>, <<paper>>}
      BY <1>1, <2>3 DEF DueInv
    <3>2. n = Len(Head(todo))
      <4>1. "query" \in Unit /\ paper \in Unit
        BY DEF PaperInv, Unit
      <4>2. Len(Head(todo)) = 1
        BY <3>1, <4>1, CutUnits
      <4>3. n \in 0..1
        BY <4>2
      <4>4. n # 0
        BY <1>3
      <4>5. n = 1
        BY <4>3, <4>4
      <4> QED
        BY <4>2, <4>5
    <3>3. todo' = Tail(todo)
      BY <1>3, <3>2 DEF Sends
    <3>4. w + 1 \in 1..Len(todo) /\ todo'[w] = todo[w + 1]
      BY <1>1, <2>3, <3>3
    <3> QED
      BY <2>3, <3>4 DEF DueInv
  <2>4. Path(air', due', f)
    BY <1>1, <2>1
  <2> QED
    BY <1>1, <1>3, <2>2, <2>3, <2>4 DEF DueInv, Path, Follows
<1>4. CASE WriteStream
  <2>1. Sends(Len(Head(todo))) /\ UNCHANGED pc
    BY <1>4 DEF WriteStream
  <2>2. Len(Head(todo)) # 0
    <3>1. Head(todo) = todo[1] /\ 1 \in 1..Len(todo)
      BY <1>1
    <3>2. CASE pc = "session"
      BY <3>1, <3>2 DEF DueInv
    <3>3. CASE pc = "frame"
      <4>1. PICK h \in 0..1, b \in 0..Rows : Shaped(todo, h, b)
        BY <3>3 DEF DueInv, Covered
      <4>2. Head(todo) \in Heading \cup {<<"body">>, <<"feed">>}
        BY <3>1, <4>1 DEF Shaped
      <4>3. <<>> \notin Heading \cup {<<"body">>, <<"feed">>}
        BY DEF Heading
      <4>4. Head(todo) # <<>>
        BY <4>2, <4>3
      <4> QED
        BY <1>1, <4>4
    <3> QED
      BY <1>1, <3>2, <3>3 DEF Writing
  <2> QED
    BY <1>1, <1>3, <2>1, <2>2
<1>5. CASE WritePacket
  <2>1. \E n \in 1..Len(Head(todo)) : Sends(n)
    BY <1>5 DEF WritePacket
  <2>2. UNCHANGED pc
    BY <1>5 DEF WritePacket
  <2> QED
    BY <1>1, <1>3, <2>1, <2>2
<1>6. CASE WriteFails
  <2>1. PICK n \in 0..Len(Head(todo)) : air' = air \o SubSeq(Head(todo), 1, n)
    BY <1>6 DEF WriteFails
  <2>2. pc' = "failed"
    BY <1>6 DEF WriteFails
  <2>3. PICK f \in 0..Rows : Path(air', due, f)
    BY <1>1, <2>1, SendDue
  <2> QED
    BY <1>1, <2>2, <2>3 DEF DueInv, Path, Follows
<1> QED
  BY <1>4, <1>5, <1>6

LEMMA DriverDue ==
    ASSUME PaperInv, DueInv, Driver
    PROVE  DueInv'
<1>1. /\ UNCHANGED <<paper, air, due>> /\ paper \in Papers
  BY DEF Driver, Connect, Initialised, PrintRaster, PrintTooTall, Await, Confirm, Assume, Return,
     printer, PaperInv
<1>2. PICK e \in 0..Rows : Path(air, due, e)
  BY DEF DueInv
<1>3. Path(air', due', e)
  BY <1>1, <1>2
<1>4. ASSUME pc' # "frame", pc' # "session" PROVE DueInv'
  BY <1>2, <1>3, <1>4 DEF DueInv, Path, Follows
<1>5. CASE Connect
  <2>1. CASE pc' = "session" /\ todo' = Session
    <3>1. \A w \in 1..Len(todo') : todo'[w] \in {<<"query">>, <<paper'>>}
      BY <1>1, <2>1 DEF Session
    <3> QED
      BY <1>2, <1>3, <2>1, <3>1 DEF DueInv, Path, Follows
  <2>2. CASE pc' = "failed"
    BY <1>4, <2>2
  <2> QED
    BY <1>5, <2>1, <2>2 DEF Connect
<1>6. CASE PrintRaster
  <2>1. pc' = "frame" /\ todo' = <<Preamble>> \o Body \o Feed
    BY <1>6 DEF PrintRaster
  <2>2. Rows \in Nat /\ Len(Body) = Rows /\ Body \in Seq({<<"body">>})
    BY LinkAssumption DEF Body
  <2>3. /\ Feed \in Seq({<<"feed">>}) /\ Len(Feed) \in Nat
        /\ \A w \in 1..Len(Feed) : Feed[w] = <<"feed">>
    <3>1. CASE Feed = <<>>
      BY <3>1
    <3>2. CASE Feed = << <<"feed">> >>
      <4>1. << <<"feed">> >> \in Seq({<<"feed">>})
        OBVIOUS
      <4> QED
        BY <3>2, <4>1
    <3> QED
      BY <3>1, <3>2 DEF Feed
  <2>4. /\ Len(todo') = 1 + Rows + Len(Feed) /\ todo'[1] = Preamble
        /\ \A w \in 2..(1 + Rows) : todo'[w] = <<"body">>
        /\ \A w \in (2 + Rows)..Len(todo') : todo'[w] = <<"feed">>
    <3> DEFINE q == <<Preamble>> \o Body
    <3>1. /\ q \in Seq({Preamble, <<"body">>}) /\ Len(q) = 1 + Rows /\ q[1] = Preamble
          /\ \A w \in 2..(1 + Rows) : q[w] = <<"body">>
      BY <2>2
    <3> HIDE DEF q
    <3>2. todo' = q \o Feed
      BY <2>1 DEF q
    <3>3. /\ Len(todo') = Len(q) + Len(Feed)
          /\ \A w \in 1..Len(q) : todo'[w] = q[w]
          /\ \A w \in 1..Len(Feed) : todo'[Len(q) + w] = Feed[w]
      <4>1. /\ q \in Seq({Preamble, <<"body">>, <<"feed">>})
            /\ Feed \in Seq({Preamble, <<"body">>, <<"feed">>})
        BY <2>3, <3>1
      <4> QED
        BY <3>2, <4>1, JoinParts
    <3>4. ASSUME NEW w \in (2 + Rows)..Len(todo') PROVE todo'[w] = <<"feed">>
      <4>1. w - (1 + Rows) \in 1..Len(Feed) /\ Len(q) + (w - (1 + Rows)) = w
        BY <2>2, <2>3, <3>1, <3>3
      <4> QED
        BY <2>3, <3>3, <4>1
    <3>5. 1 \in 1..Len(q) /\ \A w \in 2..(1 + Rows) : w \in 1..Len(q)
      BY <2>2, <3>1
    <3> QED
      BY <3>1, <3>3, <3>4, <3>5
  <2>5. Preamble \in Heading'
    BY <1>1 DEF Preamble, Heading
  <2>6. Shaped(todo, 1, Rows)'
    <3>1. ASSUME NEW w \in 1..Len(todo')
          PROVE  todo'[w] \in IF w <= 1 THEN Heading'
                              ELSE IF w <= 1 + Rows THEN {<<"body">>} ELSE {<<"feed">>}
      <4>1. CASE w = 1
        BY <2>4, <2>5, <4>1
      <4>2. CASE w # 1 /\ w <= 1 + Rows
        <5>1. w \in 2..(1 + Rows) /\ ~(w <= 1)
          BY <2>2, <2>3, <2>4, <4>2
        <5> QED
          BY <2>4, <4>2, <5>1
      <4>3. CASE ~(w <= 1 + Rows)
        <5>1. w \in (2 + Rows)..Len(todo') /\ ~(w <= 1)
          BY <2>2, <2>3, <2>4, <4>3
        <5> QED
          BY <2>4, <4>3, <5>1
      <4> QED
        BY <4>1, <4>2, <4>3
    <3> QED
      BY <3>1 DEF Shaped
  <2>7. Covered(todo, e)'
    BY <2>2, <2>6 DEF Covered
  <2>8. pc' # "session"
    BY <2>1
  <2> QED
    BY <1>2, <1>3, <2>7, <2>8 DEF DueInv, Path, Follows
<1>7. CASE Initialised \/ PrintTooTall \/ Await \/ Confirm \/ Assume
  <2>1. pc' # "frame" /\ pc' # "session"
    BY <1>7 DEF Initialised, PrintTooTall, Await, Confirm, Assume, Return
  <2> QED
    BY <1>4, <2>1
<1> QED
  BY <1>5, <1>6, <1>7 DEF Driver

LEMMA ReceiveDue ==
    ASSUME PaperInv, DueInv, Receive
    PROVE  DueInv'
<1>1. /\ air # <<>> /\ air' = Tail(air) /\ UNCHANGED <<paper, pc, todo>>
      /\ Follows(due, Head(air), due')
  <2>1. /\ air # <<>> /\ air' = Tail(air) /\ UNCHANGED <<paper, pc, todo>>
    BY DEF Receive, driver
  <2>2. CASE Head(air) = "query"
    <3>1. due' = due
      BY <2>2 DEF Receive
    <3> QED
      BY <2>1, <2>2, <3>1 DEF Follows
  <2>3. CASE Head(air) = "header"
    <3>1. due' = Rows
      BY <2>3 DEF Receive
    <3> QED
      BY <2>1, <2>3, <3>1 DEF Follows
  <2>4. CASE Head(air) = "body"
    <3>1. due' = due - 1
      BY <2>4 DEF Receive
    <3> QED
      BY <2>1, <2>4, <3>1 DEF Follows
  <2>5. CASE Head(air) \notin {"query", "header", "body"}
    <3>1. due' = due
      BY <2>5 DEF Receive
    <3> QED
      BY <2>1, <2>5, <3>1 DEF Follows
  <2> QED
    BY <2>1, <2>2, <2>3, <2>4, <2>5
<1>2. air \in Seq(Unit)
  BY DEF PaperInv, Allowed
<1>3. PICK e \in 0..Rows : Path(air, due, e) /\ (pc = "frame" => Covered(todo, e))
  BY DEF DueInv
<1>4. PICK c \in 0..Rows : Follows(due, Head(air), c) /\ Path(Tail(air), c, e)
  BY <1>1, <1>2, <1>3, PathTail
<1>5. c = due'
  BY <1>1, <1>4 DEF Follows
<1>6. Path(air', due', e)
  BY <1>1, <1>4, <1>5
<1>7. pc' = "frame" => Covered(todo, e)'
  BY <1>1, <1>3 DEF Covered, Shaped, Heading
<1>8. pc' = "session" => \A w \in 1..Len(todo') : todo'[w] \in {<<"query">>, <<paper'>>}
  BY <1>1 DEF DueInv
<1> QED
  BY <1>3, <1>6, <1>7, <1>8 DEF DueInv, Path, Follows

LEMMA DueStep == PaperInv /\ DueInv /\ [LinkNext]_vars => DueInv'
<1> SUFFICES ASSUME PaperInv, DueInv, [LinkNext]_vars PROVE DueInv'
  OBVIOUS
<1>1. CASE UNCHANGED <<paper, pc, todo, air, due>>
  <2>1. PICK e \in 0..Rows : Path(air, due, e) /\ (pc = "frame" => Covered(todo, e))
    BY DEF DueInv
  <2>2. Path(air, due, e)'
    BY <1>1, <2>1 DEF Path, Follows
  <2>3. (pc = "frame" => Covered(todo, e))'
    BY <1>1, <2>1 DEF Covered, Shaped, Heading
  <2>4. pc' = "session" => \A w \in 1..Len(todo') : todo'[w] \in {<<"query">>, <<paper'>>}
    BY <1>1 DEF DueInv
  <2> QED
    BY <2>1, <2>2, <2>3, <2>4 DEF DueInv
<1>2. CASE AckArrives \/ AckLapses
  BY <1>1, <1>2 DEF AckArrives, AckLapses, driver, printer
<1>3. CASE Speak \/ Hear \/ UNCHANGED vars
  BY <1>1, <1>3 DEF Speak, Hear, vars, linkVars, driver, printer
<1> QED
  BY <1>2, <1>3, DriverDue, WriteDue, ReceiveDue DEF LinkNext, Transport

LEMMA InitDue == LinkInit => DueInv
<1> SUFFICES ASSUME LinkInit PROVE DueInv
  OBVIOUS
<1>1. air = <<>> /\ due = 0 /\ pc = "closed" /\ Len(air) = 0
  BY DEF LinkInit
<1>2. Rows \in Nat
  BY LinkAssumption
<1> DEFINE d == [k \in 0..0 |-> 0]
<1>3. d \in [0..Len(air) -> 0..Rows] /\ d[0] = 0 /\ 0 \in 0..Rows
  BY <1>1, <1>2
<1> HIDE DEF d
<1>4. Path(air, 0, 0)
  BY <1>1, <1>3 DEF Path
<1> QED
  BY <1>1, <1>3, <1>4 DEF DueInv

\* The sequences and counters on both sides of the wire.
SpokenInv ==
    /\ buf \in Seq(Byte) /\ wire \in Seq(Byte) /\ found \in Seq(Frame) /\ completed \in Nat
    /\ owed \in Seq(Reply) /\ held \in Papers /\ gate \in {"clear", "set", "none"}
    /\ pc \in {"closed", "session", "ready", "frame", "wait", "sleep", "failed"}
    /\ before \in Nat /\ verdicts \in Seq({"confirmed", "assumed"})
    /\ fates \in Seq({"printed", "cancelled"}) /\ runaway \in BOOLEAN

LEMMA TakeTyped ==
    ASSUME SpokenInv, TakeFrame
    PROVE  buf' \in Seq(Byte) /\ found' \in Seq(Frame)
<1>1. /\ buf \in Seq(Byte) /\ found \in Seq(Frame) /\ Len(buf) >= 2 /\ Len(buf) \in Nat
      /\ Known(buf[2]) /\ Len(buf) >= HeaderLength /\ FrameLength <= Len(buf)
      /\ buf' = SubSeq(buf, FrameLength + 1, Len(buf))
  BY DEF SpokenInv, TakeFrame, Complete, Tagged, Drop
<1>2. FrameLength \in Nat /\ HeaderLength \in Nat
  <2>1. CASE buf[2] = LENGTH_PREFIXED
    <3>1. 3 \in 1..Len(buf)
      BY <1>1, <2>1 DEF HeaderLength
    <3>2. buf[3] \in Byte
      BY <1>1, <3>1
    <3> QED
      BY <2>1, <3>2 DEF FrameLength, HeaderLength, Byte
  <2>2. CASE buf[2] # LENGTH_PREFIXED
    <3>1. PayloadLength(buf[2]) \in Nat
      BY <1>1, <2>2, TagLengths DEF Known
    <3> QED
      BY <2>2, <3>1 DEF FrameLength, HeaderLength
  <2> QED
    BY <2>1, <2>2
<1>3. buf' \in Seq(Byte)
  BY <1>1, <1>2
<1>4. [tag |-> buf[2], raw |-> SubSeq(buf, HeaderLength + 1, FrameLength)] \in Frame
  <2>1. buf[2] \in Byte
    BY <1>1
  <2>2. SubSeq(buf, HeaderLength + 1, FrameLength) \in Seq(Byte)
    BY <1>1, <1>2
  <2> QED
    BY <2>1, <2>2 DEF Frame
<1> QED
  BY <1>1, <1>3, <1>4 DEF TakeFrame

LEMMA HearTyped ==
    ASSUME SpokenInv, Hear
    PROVE  SpokenInv'
<1>1. UNCHANGED <<owed, held, gate, pc, before, verdicts, fates, runaway>>
  BY DEF Hear, linkVars, driver, packets, printer
<1>2. /\ buf \in Seq(Byte) /\ wire \in Seq(Byte) /\ found \in Seq(Frame) /\ completed \in Nat
  BY DEF SpokenInv
<1>3. /\ buf' \in Seq(Byte) /\ wire' \in Seq(Byte) /\ found' \in Seq(Frame) /\ completed' \in Nat
  <2>1. CASE Resync
    BY <1>2, <2>1 DEF Resync, Drop
  <2>2. CASE SkipUnknown
    BY <1>2, <2>2 DEF SkipUnknown, Unknown, Tagged, Drop
  <2>3. CASE TakeFrame
    <3>1. UNCHANGED <<wire, completed>>
      BY <2>3 DEF TakeFrame
    <3> QED
      BY <1>2, <2>3, <3>1, TakeTyped
  <2>4. CASE Ingest
    <3>1. /\ completed' = completed + Cardinality(Completions(found)) /\ found' = <<>>
          /\ UNCHANGED <<buf, wire>>
      BY <2>4 DEF Ingest
    <3>2. Completions(found) \in SUBSET (1..Len(found)) /\ Len(found) \in Nat
      BY <1>2 DEF Completions
    <3>3. Cardinality(Completions(found)) \in Nat
      BY <3>2, MarksAppend
    <3> QED
      BY <1>2, <3>1, <3>3
  <2>5. CASE Read
    <3>1. PICK n \in 1..Len(wire) :
            /\ Absorb(SubSeq(wire, 1, n))
            /\ wire' = SubSeq(wire, n + 1, Len(wire))
      BY <2>5 DEF Read
    <3>2. SubSeq(wire, 1, n) \in Seq(Byte) /\ SubSeq(wire, n + 1, Len(wire)) \in Seq(Byte)
      BY <1>2, CutParts
    <3>3. buf' \in {buf, buf \o SubSeq(wire, 1, n)}
      BY <3>1 DEF Absorb
    <3>4. UNCHANGED <<found, completed>>
      BY <2>5 DEF Read
    <3>5. buf \o SubSeq(wire, 1, n) \in Seq(Byte)
      BY <1>2, <3>2
    <3> QED
      BY <1>2, <3>1, <3>2, <3>3, <3>4, <3>5
  <2> QED
    BY <2>1, <2>2, <2>3, <2>4, <2>5 DEF Hear, Parser
<1> QED
  BY <1>1, <1>3 DEF SpokenInv

LEMMA DriverTyped ==
    ASSUME SpokenInv, Driver
    PROVE  SpokenInv'
<1>1. UNCHANGED <<buf, wire, found, completed, owed, held, gate, fates, runaway>>
  BY DEF Driver, Connect, Initialised, PrintRaster, PrintTooTall, Await, Confirm, Assume, Return,
     feedbackVars, packets, printer
<1>2. pc' \in {"closed", "session", "ready", "frame", "wait", "sleep", "failed"}
  BY DEF Driver, Connect, Initialised, PrintRaster, PrintTooTall, Await, Confirm, Assume, Return
<1>3. before' \in Nat
  BY DEF Driver, Connect, Initialised, PrintRaster, PrintTooTall, Await, Confirm, Assume, Return,
     SpokenInv
<1>4. verdicts' \in Seq({"confirmed", "assumed"})
  <2>1. verdicts' \in {verdicts, Append(verdicts, "confirmed"), Append(verdicts, "assumed")}
    BY DEF Driver, Connect, Initialised, PrintRaster, PrintTooTall, Await, Confirm, Assume, Return
  <2>2. verdicts \in Seq({"confirmed", "assumed"})
    BY DEF SpokenInv
  <2>3. /\ Append(verdicts, "confirmed") \in Seq({"confirmed", "assumed"})
        /\ Append(verdicts, "assumed") \in Seq({"confirmed", "assumed"})
    BY <2>2
  <2> QED
    BY <2>1, <2>2, <2>3
<1> QED
  BY <1>1, <1>2, <1>3, <1>4 DEF SpokenInv

LEMMA TransportTyped ==
    ASSUME SpokenInv, Transport
    PROVE  SpokenInv'
<1>1. /\ UNCHANGED <<wire, found, completed, owed, held, before, verdicts, fates, runaway>>
      /\ pc' \in {pc, "failed"} /\ gate' \in {gate, "clear", "set"}
  BY DEF Transport, WriteStream, WritePacket, AckArrives, AckPacket, AckLapses, WriteFails,
     feedbackVars, driver, packets, printer
<1>2. UNCHANGED buf
  BY DEF Transport, WriteStream, WritePacket, AckArrives, AckPacket, Absorb, AckLapses, WriteFails,
     feedbackVars
<1> QED
  BY <1>1, <1>2 DEF SpokenInv

LEMMA PrinterTyped ==
    ASSUME SpokenInv, Receive \/ Speak
    PROVE  SpokenInv'
<1>1. CASE Receive
  <2>1. /\ UNCHANGED <<buf, wire, found, completed, gate, pc, before, verdicts>>
        /\ held' = IF Head(air) \in Papers THEN Head(air) ELSE held
    BY <1>1 DEF Receive, feedbackVars, driver, packets
  <2>2. held' \in Papers
    BY <2>1 DEF SpokenInv
  <2>3. /\ owed' = owed \/ \E f \in Answer \cup {Complete0F, Cancelled0B} : owed' = owed \o <<f>>
        /\ fates' \in {fates, Append(fates, "printed"), Append(fates, "cancelled")}
    <3>1. CASE Head(air) = "query"
      BY <1>1, <3>1 DEF Receive, Say
    <3>2. CASE Head(air) = "body"
      BY <1>1, <3>2 DEF Receive, Say, Ends
    <3>3. CASE Head(air) = "header"
      BY <1>1, <3>3 DEF Receive
    <3>4. CASE Head(air) \notin {"query", "body", "header"}
      BY <1>1, <3>4 DEF Receive
    <3> QED
      BY <3>1, <3>2, <3>3, <3>4
  <2>4. owed' \in Seq(Reply)
    <3>1. Answer \cup {Complete0F, Cancelled0B} \subseteq Reply
      BY LinkAssumption
    <3>2. owed \in Seq(Reply)
      BY DEF SpokenInv
    <3>3. \A f \in Answer \cup {Complete0F, Cancelled0B} : owed \o <<f>> \in Seq(Reply)
      BY <3>1, <3>2
    <3> QED
      BY <2>3, <3>2, <3>3
  <2>5. fates' \in Seq({"printed", "cancelled"})
    <3>1. fates \in Seq({"printed", "cancelled"})
      BY DEF SpokenInv
    <3>2. /\ Append(fates, "printed") \in Seq({"printed", "cancelled"})
          /\ Append(fates, "cancelled") \in Seq({"printed", "cancelled"})
      BY <3>1
    <3> QED
      BY <2>3, <3>1, <3>2
  <2>6. runaway' \in BOOLEAN
    <3>1. runaway' = (runaway \/ (Head(air) = "feed" /\ held = "gap"))
      BY <1>1 DEF Receive
    <3> QED
      BY <3>1, Zenon
  <2> QED
    BY <2>1, <2>2, <2>4, <2>5, <2>6 DEF SpokenInv
<1>2. CASE Speak
  <2>1. /\ UNCHANGED <<buf, found, completed, gate, pc, before, verdicts, held, fates, runaway>>
        /\ owed # <<>> /\ owed' = Tail(owed) /\ wire' = wire \o Encoded(Head(owed))
    BY <1>2 DEF Speak, Send, driver, packets
  <2>2. Head(owed) \in Reply /\ owed' \in Seq(Reply)
    BY <2>1 DEF SpokenInv
  <2>3. Encoded(Head(owed)) \in Seq(Byte)
    BY <2>2, EncodedParts
  <2>4. wire' \in Seq(Byte)
    BY <2>1, <2>3 DEF SpokenInv
  <2> QED
    BY <2>1, <2>2, <2>4 DEF SpokenInv
<1> QED
  BY <1>1, <1>2

LEMMA SpokenStep == SpokenInv /\ [LinkNext]_vars => SpokenInv'
<1> SUFFICES ASSUME SpokenInv, [LinkNext]_vars PROVE SpokenInv'
  OBVIOUS
<1>1. CASE UNCHANGED vars
  BY <1>1 DEF vars, feedbackVars, linkVars, driver, packets, printer, SpokenInv
<1> QED
  BY <1>1, DriverTyped, TransportTyped, PrinterTyped, HearTyped DEF LinkNext

LEMMA InitSpoken == LinkInit => SpokenInv
<1> SUFFICES ASSUME LinkInit PROVE SpokenInv
  OBVIOUS
<1>1. wire \in Seq(Byte)
  <2>1. wire \in Leftover \/ wire = <<>>
    BY DEF LinkInit, Init
  <2>2. Leftover \subseteq Seq(Byte)
    BY BoundAssumption
  <2>3. <<>> \in Seq(Byte)
    OBVIOUS
  <2> QED
    BY <2>1, <2>2, <2>3
<1>2. /\ buf = <<>> /\ found = <<>> /\ completed = 0 /\ owed = <<>> /\ held \in Papers
      /\ gate \in {"clear", "none"} /\ pc = "closed" /\ before = 0 /\ verdicts = <<>> /\ fates = <<>>
      /\ runaway \in BOOLEAN
  BY DEF LinkInit, Init
<1> QED
  BY <1>1, <1>2 DEF SpokenInv

\* Every variable of the connection keeps its type.  Of the printer that
\* means more than a type: what it still expects of a body is never less than
\* nothing nor more than a body, wherever a write is cut or fails.
THEOREM LinkTyped == LinkSpec => []LinkTypeOK
<1> DEFINE IInv == GateInv /\ PaperInv /\ DueInv /\ SpokenInv
<1>1. IInv => LinkTypeOK
  <2> SUFFICES ASSUME IInv PROVE LinkTypeOK
    OBVIOUS
  <2>1. todo \in Seq(Seq(Unit)) /\ air \in Seq(Unit) /\ paper \in Papers /\ runaway \in BOOLEAN
    <3>1. Allowed \subseteq Unit
      BY DEF Allowed
    <3>2. air \in Seq(Allowed) /\ todo \in Seq(Seq(Allowed)) /\ paper \in Papers
      BY DEF PaperInv
    <3>3. air \in Seq(Unit) /\ todo \in Seq(Seq(Unit))
      BY <3>1, <3>2
    <3>4. runaway \in BOOLEAN
      BY DEF SpokenInv
    <3> QED
      BY <3>2, <3>3, <3>4
  <2>2. due \in 0..Rows
    <3>1. PICK e \in 0..Rows : Path(air, due, e)
      BY DEF DueInv
    <3>2. PICK d \in [0..Len(air) -> 0..Rows] : d[0] = due
      BY <3>1 DEF Path
    <3>3. 0 \in 0..Len(air)
      BY <2>1
    <3> QED
      BY <3>2, <3>3
  <2>3. pending \in Nat /\ lapses \in Nat
    BY DEF GateInv
  <2> QED
    BY <2>1, <2>2, <2>3 DEF SpokenInv, LinkTypeOK
<1>2. LinkInit => IInv
  BY InitGate, InitPaper, InitDue, InitSpoken
<1>3. IInv /\ [LinkNext]_vars => IInv'
  BY GateStep, PaperStep, DueStep, SpokenStep
<1> HIDE DEF IInv
<1> QED
  BY <1>1, <1>2, <1>3, PTL DEF LinkSpec
=============================================================================
