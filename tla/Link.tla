-------------------------------- MODULE Link --------------------------------
(***************************************************************************)
(* One connection to the printer: the driver (device/d30.py) writes the    *)
(* session setup and frames through a transport (device/transport.py,      *)
(* device/ble.py) and waits for the printer to say it has finished, while  *)
(* another thread takes in what the printer says (Feedback).               *)
(*                                                                         *)
(* Bytes written are counted in units that mean something to the printer:  *)
(* a query, a paper type, the header of a raster, a piece of its body, a   *)
(* feed; density and the vendor's other settings are left out.  A socket   *)
(* takes a write whole or up to where it fails; on BLE a write is cut into *)
(* packets, each of which the printer acknowledges.                        *)
(***************************************************************************)
EXTENDS Feedback

CONSTANTS
    Answer,      \* the frames of Reply that answer a query
    Complete0F, Cancelled0B, \* ... that say a print is finished, or refused
    Rows,        \* pieces (chunk_bytes) of a frame's body
    FeedLines,   \* D30Config.feed_lines is not zero
    MaxFrames    \* bound: print_raster calls on the connection

ASSUME LinkAssumption ==
    /\ Answer \cup {Complete0F, Cancelled0B} \subseteq Reply
    /\ Complete0F.tag = PRINT_COMPLETE
    /\ \A f \in Answer \cup {Cancelled0B} : f.tag # PRINT_COMPLETE
    /\ {Rows, MaxFrames} \subseteq Nat \ {0}
    /\ FeedLines \in BOOLEAN

VARIABLES
    paper,    \* the tape loaded, D30Config.paper_type: "gap" or "continuous"
    pc,       \* where the driver is
    todo,     \* the writes this call has still to make, each a sequence of units
    gate,     \* BLE: the ACK event: "clear", "set", or "none" without notifications
    pending,  \* BLE: packets the printer has not acknowledged
    lapses,   \* BLE: waits for an acknowledgement that timed out
    before,   \* completed_before of this print_raster
    verdicts, \* what each print_raster returned: "confirmed" or "assumed"
    air,      \* units written that have not reached the printer
    held,     \* printer: the paper type it holds
    due,      \* printer: pieces of the body it still expects
    fates,    \* printer: what became of each frame: "printed" or "cancelled"
    owed,     \* printer: the frames it is about to send
    runaway   \* printer: it has been told to feed while it looks for a gap

driver   == <<paper, pc, todo, verdicts, before>>
packets  == <<gate, pending, lapses>>
printer  == <<held, due, fates, owed, runaway>>
linkVars == <<driver, packets, air, printer>>
vars     == <<feedbackVars, linkVars>>

Papers == {"gap", "continuous"}

Unit == {"query", "header", "body", "feed"} \cup Papers

LinkTypeOK ==
    /\ paper \in Papers /\ held \in Papers
    /\ pc \in {"closed", "session", "ready", "frame", "wait", "sleep", "failed"}
    /\ todo \in Seq(Seq(Unit)) /\ air \in Seq(Unit)
    /\ gate \in {"clear", "set", "none"}
    /\ pending \in Nat /\ lapses \in Nat /\ before \in Nat
    /\ verdicts \in Seq({"confirmed", "assumed"})
    /\ due \in 0..Rows /\ fates \in Seq({"printed", "cancelled"})
    /\ owed \in Seq(Reply) /\ runaway \in BOOLEAN

LinkInit ==
    /\ Init
    /\ paper \in Papers /\ held \in Papers
    /\ pc = "closed" /\ todo = <<>> /\ verdicts = <<>> /\ before = 0
    /\ gate = IF link = "ble" THEN "clear" ELSE "none"
    /\ pending = 0 /\ lapses = 0
    /\ air = <<>> /\ due = 0 /\ fates = <<>> /\ owed = <<>> /\ runaway = FALSE

-----------------------------------------------------------------------------
(***************************************************************************)
(* What is written (device/protocol.py).                                   *)
(***************************************************************************)

\* session_setup and telemetry_refresh; one query stands for all of them.
Session == << <<"query">>, <<paper>> >>

PreambleDefault == << "gap", "header" >>

\* print_preamble: the paper type once more, before the header.
Preamble == << paper, "header" >>

BodyAndMore == [n \in 1..(Rows + 1) |-> <<"body">>]

\* The raster in chunks.
Body == [n \in 1..Rows |-> <<"body">>]

\* ESC d after a frame on continuous tape.
Feed == IF paper = "continuous" /\ FeedLines THEN << <<"feed">> >> ELSE <<>>

-----------------------------------------------------------------------------
(***************************************************************************)
(* The driver.                                                             *)
(***************************************************************************)
Writing == pc \in {"session", "frame"}

\* A packet is on its way and its acknowledgement is awaited.
Gated == gate = "clear" /\ pending > 0

Connect ==
    /\ pc = "closed"
    /\ \/ pc' = "session" /\ todo' = Session
       \/ pc' = "failed" /\ UNCHANGED todo
    /\ UNCHANGED <<feedbackVars, paper, verdicts, before, packets, air, printer>>

\* The last write has returned.
Written == Writing /\ todo = <<>> /\ ~Gated

Initialised ==
    /\ pc = "session" /\ Written
    /\ pc' = "ready"
    /\ UNCHANGED <<feedbackVars, paper, todo, verdicts, before, packets, air, printer>>

PrintRaster ==
    /\ pc = "ready" /\ Len(verdicts) < MaxFrames
    /\ pc' = "frame"
    /\ before' = completed
    /\ todo' = <<Preamble>> \o Body \o Feed
    /\ UNCHANGED <<feedbackVars, paper, verdicts, packets, air, printer>>

\* A frame of more lines than the header can count is refused unsent.
PrintTooTall ==
    /\ pc = "ready"
    /\ pc' = "failed"
    /\ UNCHANGED <<feedbackVars, paper, todo, verdicts, before, packets, air, printer>>

\* _await_completion: a link that has said nothing at all is not expected to
\* announce completion either.
Silent == frames = <<>> /\ ~acked

Await ==
    /\ pc = "frame" /\ Written
    /\ pc' = IF Silent THEN "sleep" ELSE "wait"
    /\ UNCHANGED <<feedbackVars, paper, todo, verdicts, before, packets, air, printer>>

Return(verdict) ==
    /\ verdicts' = Append(verdicts, verdict)
    /\ pc' = "ready"
    /\ UNCHANGED <<feedbackVars, paper, todo, before, packets, air, printer>>

FinishedEarly == completed >= before

Finished == completed > before

Confirm == pc = "wait" /\ Finished /\ Return("confirmed")

\* The budget is used up: success is assumed.
Assume == pc \in {"wait", "sleep"} /\ Return("assumed")

-----------------------------------------------------------------------------
(***************************************************************************)
(* The transports.                                                         *)
(***************************************************************************)
Sends(n) ==
    /\ air' = air \o SubSeq(Head(todo), 1, n)
    /\ todo' = IF n = Len(Head(todo)) THEN Tail(todo)
               ELSE <<SubSeq(Head(todo), n + 1, Len(Head(todo)))>> \o Tail(todo)

\* sendall
WriteStream ==
    /\ Writing /\ todo # <<>> /\ link # "ble"
    /\ Sends(Len(Head(todo)))
    /\ UNCHANGED <<feedbackVars, paper, pc, verdicts, before, packets, printer>>

WritePacketUncleared ==
    /\ Writing /\ todo # <<>> /\ link = "ble" /\ ~Gated
    /\ \E n \in 1..Len(Head(todo)) : Sends(n)
    /\ pending' = pending + 1
    /\ UNCHANGED <<feedbackVars, paper, pc, verdicts, before, gate, lapses, printer>>

\* A packet holds what the MTU allows.
WritePacket ==
    /\ Writing /\ todo # <<>> /\ link = "ble" /\ ~Gated
    /\ \E n \in 1..Len(Head(todo)) : Sends(n)
    /\ gate' = "clear" /\ pending' = pending + 1
    /\ UNCHANGED <<feedbackVars, paper, pc, verdicts, before, lapses, printer>>

\* The printer acknowledges a packet: it is counted, and opens the gate.
AckArrives ==
    /\ pending > 0
    /\ AckPacket
    /\ gate' = "set" /\ pending' = pending - 1
    /\ UNCHANGED <<driver, lapses, air, printer>>

AckAwaited ==
    /\ Gated /\ pending = 0
    /\ UNCHANGED vars

\* "A missed ACK must not hang the print".
AckLapses ==
    /\ Gated
    /\ gate' = "set" /\ lapses' = lapses + 1
    /\ UNCHANGED <<feedbackVars, driver, pending, air, printer>>

\* The printer is gone, or its buffer stays full: a part of the write may
\* have left.
WriteFails ==
    /\ Writing /\ todo # <<>> /\ ~Gated
    /\ \E n \in 0..Len(Head(todo)) : air' = air \o SubSeq(Head(todo), 1, n)
    /\ pc' = "failed" /\ todo' = <<>>
    /\ UNCHANGED <<feedbackVars, paper, verdicts, before, packets, printer>>

-----------------------------------------------------------------------------
(***************************************************************************)
(* The printer.                                                            *)
(***************************************************************************)
Say(fs) == owed' = owed \o fs

\* A frame it does not like (a head too narrow, no media) it refuses as a
\* whole, and swallows its body.
Ends(fate) == fates' = Append(fates, fate)

Receive ==
    /\ air # <<>>
    /\ air' = Tail(air)
    /\ LET u == Head(air)
       IN  /\ held' = IF u \in Papers THEN u ELSE held
           /\ runaway' = (runaway \/ (u = "feed" /\ held = "gap"))
           /\ CASE u = "query"  -> /\ \E f \in Answer : Say(<<f>>)
                                   /\ UNCHANGED <<due, fates>>
                [] u = "header" -> /\ due' = Rows
                                   /\ UNCHANGED <<fates, owed>>
                [] u = "body"   -> /\ due' = due - 1
                                   /\ IF due > 1 THEN UNCHANGED <<fates, owed>>
                                      ELSE \/ Ends("printed") /\ Say(<<Complete0F>>)
                                           \/ Ends("cancelled") /\ Say(<<Cancelled0B>>)
                [] OTHER        -> UNCHANGED <<due, fates, owed>>
    /\ UNCHANGED <<feedbackVars, driver, packets>>

Speak ==
    /\ owed # <<>>
    /\ Send(Head(owed))
    /\ owed' = Tail(owed)
    /\ UNCHANGED <<driver, packets, air, held, due, fates, runaway>>

Hear == (Parser \/ Read) /\ UNCHANGED linkVars

Driver == Connect \/ Initialised \/ PrintRaster \/ PrintTooTall \/ Await \/ Confirm \/ Assume

Transport == WriteStream \/ WritePacket \/ AckArrives \/ AckLapses \/ WriteFails

LinkNext == Driver \/ Transport \/ Receive \/ Speak \/ Hear

LinkSpec == LinkInit /\ [][LinkNext]_vars

\* The driver runs; of the printer nothing is assumed.
LinkFairSpec ==
    /\ LinkSpec
    /\ WF_vars(Driver) /\ WF_vars(WriteStream) /\ WF_vars(WritePacket)
    /\ WF_vars(AckLapses)

-----------------------------------------------------------------------------
(***************************************************************************)
(* Properties.                                                             *)
(***************************************************************************)

\* "So writes never outrun what it can consume": the printer has at most one
\* packet to acknowledge, and one more for each wait that was given up.
Outpaced == pending <= 1 + lapses

Count(s, x) == Cardinality({n \in 1..Len(s) : s[n] = x})

\* A confirmation is the printer's word: of the frames whose wait ended with
\* one, so many have come out, whenever the replies were read, and whichever
\* waits were given up before.
ConfirmedHasFinished == Count(verdicts, "confirmed") <= Count(fates, "printed")

\* A printer that looks for gaps is never told to feed, whatever it held when
\* the connection was made.
NoRunaway == ~runaway

\* "A missed ACK must not hang the print", and neither must a reply that does
\* not come: print_raster returns or raises.
PrintReturns == pc = "frame" ~> pc \in {"ready", "failed"}
=============================================================================
