------------------------------- MODULE ZkFrames -------------------------------
(***************************************************************************)
(* Packets on the connection to a ZKTeco terminal (protocol.ts,            *)
(* zkteco-client.ts; the terminal is fake-device.ts).  A packet travels    *)
(* between a header and a checksum, TCP cuts the stream of packets where   *)
(* it likes, and a client that waits for an answer takes whatever is first *)
(* in its buffer.  ZkTerminal has the commands and their answers as whole  *)
(* packets; here is what makes them whole.                                 *)
(*                                                                         *)
(* Bytes are 0..Base-1, two of them a word; the magic number and the       *)
(* length of the header are one item each.  The command, session and reply *)
(* identifiers are bytes of the payload like the others.                   *)
(***************************************************************************)
EXTENDS Integers, Sequences

CONSTANTS
    None,
    Base,
    Payloads,    \* what packets may carry: sequences of bytes
    MaxPackets,  \* bound on packets sent
    MaxLines,    \* bound on connections
    MaxFaults,   \* bound on corrupt packets, timeouts and connections that drop
    Overlaps     \* two callers may connect at once

VARIABLES
    lines,   \* the connections made: up; sent (payloads, None for one damaged); wire (bytes not
             \* delivered yet)
    client,  \* line (the socket) or None; buffer; waiting (somebody is, for a packet)
    taken,   \* payloads given to callers since the connection was made
    left     \* packets and faults that may still be

frames == <<lines, client, taken, left>>

Init ==
    /\ lines = <<>>
    /\ client = [line |-> None, buffer |-> <<>>, waiting |-> FALSE]
    /\ taken = <<>>
    /\ left = [packets |-> MaxPackets, faults |-> MaxFaults]

-----------------------------------------------------------------------------
(* Packets.                                                                *)

Word == Base * Base

\* The sum of the words of a sequence of bytes, the last one filled with a zero.
SumOf(bytes) ==
    LET upTo[n \in 0..Len(bytes)] ==
            IF n = 0 THEN 0
            ELSE upTo[n - 1] + (IF n % 2 = 1 THEN bytes[n] ELSE Base * bytes[n])
    IN  upTo[Len(bytes)]

(* checksum16: the complement of the sum, whose carries are added again.   *)
(* Folding a sum until it is a word leaves zero only for zero.             *)
Checksum(bytes) ==
    LET sum == SumOf(bytes)
    IN  (Word - 1) - (IF sum = 0 THEN 0 ELSE 1 + ((sum - 1) % (Word - 1)))

\* No byte is like it.
Magic == Word

\* buildPacket.
Frame(payload) ==
    LET check == Checksum(payload) IN
    <<Magic, 2 + Len(payload), check % Base, check \div Base>> \o payload

\* corruptNextReply: the last byte of a packet inverted.
Corrupted(frame) == [frame EXCEPT ![Len(frame)] = (Base - 1) - @]

Header == 2

Partial == [kind |-> "partial", payload |-> <<>>, consumed |-> 0]
Invalid == [kind |-> "invalid", payload |-> <<>>, consumed |-> 0]

\* decodePacket: the packet the stream starts with.
Decoded(stream) ==
    IF Len(stream) < Header THEN Partial
    ELSE IF stream[1] # Magic THEN Invalid
    ELSE LET total == Header + stream[2]
             payload == SubSeq(stream, Header + 3, total)
         IN  IF Len(stream) < total THEN Partial
             ELSE IF stream[3] + Base * stream[4] # Checksum(payload) THEN Invalid
             ELSE [kind |-> "packet", payload |-> payload, consumed |-> total]

-----------------------------------------------------------------------------
(* The client.                                                             *)

Up(l) == l # None /\ lines[l].up

(* drain: whoever waits gets the packet the buffer starts with, or an      *)
(* error; what made the error stays.                                       *)
Drain(buffer) ==
    LET decoded == Decoded(buffer) IN
    CASE decoded.kind = "partial" ->
            client' = [client EXCEPT !.buffer = buffer, !.waiting = TRUE] /\ UNCHANGED taken
      [] decoded.kind = "invalid" ->
            client' = [client EXCEPT !.buffer = buffer, !.waiting = FALSE] /\ UNCHANGED taken
      [] decoded.kind = "packet" ->
            /\ client' = [client EXCEPT !.waiting = FALSE,
                             !.buffer = SubSeq(buffer, decoded.consumed + 1, Len(buffer))]
            /\ taken' = Append(taken, decoded.payload)

\* Mutant: a packet that came before it was waited for is not looked at.
ReceiveLater ==
    /\ client.line # None /\ ~client.waiting
    /\ client' = [client EXCEPT !.waiting = TRUE]
    /\ UNCHANGED <<lines, taken, left>>

\* receive, after a command is written or for the next packet of a bulk answer.
Receive ==
    /\ client.line # None /\ ~client.waiting
    /\ Drain(client.buffer)
    /\ UNCHANGED <<lines, left>>

\* onData, of any socket still there, with as much as has arrived.
Deliver ==
    /\ \E l \in DOMAIN lines : \E n \in 1..Len(lines[l].wire) :
          LET buffer == client.buffer \o SubSeq(lines[l].wire, 1, n) IN
          /\ lines[l].up
          /\ lines' = [lines EXCEPT ![l].wire = SubSeq(@, n + 1, Len(@))]
          /\ IF client.waiting THEN Drain(buffer)
             ELSE client' = [client EXCEPT !.buffer = buffer] /\ UNCHANGED taken
    /\ UNCHANGED left

Timeout ==
    /\ client.waiting /\ left.faults > 0
    /\ client' = [client EXCEPT !.waiting = FALSE]
    /\ left' = [left EXCEPT !.faults = @ - 1]
    /\ UNCHANGED <<lines, taken>>

\* open: whoever waits on another socket goes on waiting.
Open ==
    /\ Len(lines) < MaxLines
    /\ client.line = None \/ Overlaps
    /\ lines' = Append(lines, [up |-> TRUE, sent |-> <<>>, wire |-> <<>>])
    /\ client' = [client EXCEPT !.line = Len(lines) + 1, !.buffer = <<>>]
    /\ taken' = <<>>
    /\ UNCHANGED left

\* close; a socket that another took the place of stays open.
Close ==
    /\ client.line # None
    /\ lines' = [lines EXCEPT ![client.line].up = FALSE]
    /\ client' = [client EXCEPT !.line = None, !.waiting = FALSE]
    /\ UNCHANGED <<taken, left>>

-----------------------------------------------------------------------------
(* The terminal.                                                           *)

Send(l, frame, payload) ==
    lines' = [lines EXCEPT ![l].sent = Append(@, payload), ![l].wire = @ \o frame]

Reply ==
    /\ left.packets > 0
    /\ \E l \in DOMAIN lines, payload \in Payloads :
          lines[l].up /\ Send(l, Frame(payload), payload)
    /\ left' = [left EXCEPT !.packets = @ - 1]
    /\ UNCHANGED <<client, taken>>

ReplyCorrupted ==
    /\ left.packets > 0 /\ left.faults > 0
    /\ \E l \in DOMAIN lines, payload \in Payloads :
          lines[l].up /\ Send(l, Corrupted(Frame(payload)), None)
    /\ left' = [left EXCEPT !.packets = @ - 1, !.faults = @ - 1]
    /\ UNCHANGED <<client, taken>>

\* The connection drops, with what was on its way: whoever waits fails.
Hangup ==
    /\ left.faults > 0
    /\ \E l \in DOMAIN lines :
          lines[l].up /\ lines' = [lines EXCEPT ![l].up = FALSE, ![l].wire = <<>>]
    /\ client' = [client EXCEPT !.waiting = FALSE]
    /\ left' = [left EXCEPT !.faults = @ - 1]
    /\ UNCHANGED taken

Next ==
    \/ Open \/ Receive \/ Deliver \/ Timeout \/ Close
    \/ Reply \/ ReplyCorrupted \/ Hangup

Spec == Init /\ [][Next]_frames

-----------------------------------------------------------------------------
(* Properties.                                                             *)

(* However the stream is cut, whatever timed out and whichever packet came *)
(* damaged: the packets taken are the first ones the terminal sent on this *)
(* connection, in order and as it sent them, none twice and none damaged;  *)
(* and nobody waits for a packet that is there.                            *)
AnswersArrive ==
    /\ client.line # None =>
          LET sent == lines[client.line].sent IN
          /\ Len(taken) <= Len(sent)
          /\ \A k \in DOMAIN taken : taken[k] = sent[k]
    /\ client.waiting => Decoded(client.buffer).kind = "partial"
=============================================================================
