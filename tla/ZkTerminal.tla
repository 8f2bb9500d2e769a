----------------------------- MODULE ZkTerminal ------------------------------
(***************************************************************************)
(* Downloading the punches of a ZKTeco terminal (zkteco.adapter.ts,        *)
(* zkteco-client.ts; the terminal is fake-device.ts; the retries are those *)
(* of withRetry in device-sync.service.ts).                                *)
(*                                                                         *)
(* Commands go through one queue and one socket, one at a time; a command  *)
(* that timed out leaves the socket open, and its late answer is there     *)
(* when the next one waits.  Every synchronization has an adapter of its   *)
(* own: the row it is cached under has changed since.  Two commands stand  *)
(* for the five that ask what the terminal is, one of them a bulk read.    *)
(***************************************************************************)
EXTENDS Naturals, SequencesExt

CONSTANTS
    None,
    Chunk,        \* records in a packet of a bulk answer
    Attempts,     \* RETRY_ATTEMPTS
    MaxPunches,   \* bound on punches made at the terminal
    MaxWipes,     \* bound on wipes of its memory
    MaxFaults,    \* bound on timeouts, lost commands and dropped connections
    MaxSyncs

VARIABLES
    memory,   \* the records of the terminal, numbered as they are made
    made,
    asked,    \* commands the terminal has not looked at
    wire,     \* packets it has sent and nobody has taken
    queue,    \* commands of the client: the first one is under way
    attempt,  \* of the synchronization: its number, what it still waits for; or None
    link,     \* connected (what the adapter thinks) and open (the socket)
    cursor,   \* records read and the fingerprint of the last; or None
    got,      \* records ever returned
    used      \* wipes, faults and synchronizations so far

zkVars == <<memory, made, asked, wire, queue, attempt, link, cursor, got, used>>

Info == {"option", "sizes"}

Ack == [kind |-> "ACK_OK", data |-> <<>>]

\* A command as the queue has it; reading: what a bulk read has so far.
Command(name, n) == [name |-> name, attempt |-> n, sent |-> FALSE, reading |-> None]

-----------------------------------------------------------------------------
Init ==
    /\ memory = <<>> /\ made = 0
    /\ asked = <<>> /\ wire = <<>> /\ queue = <<>>
    /\ attempt = None
    /\ link = [connected |-> FALSE, open |-> FALSE]
    /\ cursor = None
    /\ got = {}
    /\ used = [wipes |-> 0, faults |-> 0, syncs |-> 0]

terminal == <<memory, made>>
socket == <<asked, wire>>
outcome == <<cursor, got>>

Fault == used.faults < MaxFaults /\ used' = [used EXCEPT !.faults = @ + 1]

-----------------------------------------------------------------------------
(* The terminal.                                                           *)

Punch ==
    /\ made < MaxPunches
    /\ made' = made + 1
    /\ memory' = Append(memory, made')
    /\ UNCHANGED <<socket, queue, attempt, link, outcome, used>>

Wipe ==
    /\ used.wipes < MaxWipes /\ memory # <<>>
    /\ used' = [used EXCEPT !.wipes = @ + 1]
    /\ memory' = <<>>
    /\ UNCHANGED <<made, socket, queue, attempt, link, outcome>>

\* PREPARE_DATA with the size, the chunks, ACK_OK.
Bulk ==
    <<[kind |-> "PREPARE_DATA", data |-> Len(memory)]>>
        \o [i \in 1..((Len(memory) + Chunk - 1) \div Chunk) |->
              [kind |-> "DATA", data |-> SubSeq(memory, (i - 1) * Chunk + 1,
                  IF i * Chunk < Len(memory) THEN i * Chunk ELSE Len(memory))]]
        \o <<Ack>>

Answer ==
    /\ asked # <<>>
    /\ wire' = wire \o (IF Head(asked) = "log" THEN Bulk ELSE <<Ack>>)
    /\ asked' = Tail(asked)
    /\ UNCHANGED <<terminal, queue, attempt, link, outcome, used>>

Ignore ==
    /\ asked # <<>> /\ Fault
    /\ asked' = Tail(asked)
    /\ UNCHANGED <<terminal, wire, queue, attempt, link, outcome>>

-----------------------------------------------------------------------------
(* A synchronization (withRetry).                                          *)

Sockets(open) == link' = [connected |-> open, open |-> open]

(* A new adapter: nothing of the last one's socket and queue remains.      *)
BeginSync ==
    /\ attempt = None /\ used.syncs < MaxSyncs
    /\ used' = [used EXCEPT !.syncs = @ + 1]
    /\ attempt' = [n |-> 1, at |-> "start", left |-> {}]
    /\ asked' = <<>> /\ wire' = <<>> /\ queue' = <<>>
    /\ Sockets(FALSE)
    /\ UNCHANGED <<terminal, outcome>>

\* connect returns at once if the adapter thinks it is connected.
StartAttempt ==
    /\ attempt # None /\ attempt.at = "start"
    /\ IF link.connected THEN UNCHANGED <<socket, link>>
       ELSE Sockets(TRUE) /\ asked' = <<>> /\ wire' = <<>>
    /\ link'.open
    /\ attempt' = [attempt EXCEPT !.at = "info", !.left = Info]
    /\ queue' = queue \o <<Command("option", attempt.n), Command("sizes", attempt.n)>>
    /\ UNCHANGED <<terminal, outcome, used>>

\* The attempt after this one, or the end of the synchronization.
NextAttempt(retryable) ==
    IF retryable /\ attempt.n < Attempts
    THEN [n |-> attempt.n + 1, at |-> "start", left |-> {}] ELSE None

(* assertConnected, of an attempt that found the socket gone: the next one *)
(* finds it gone too.                                                      *)
FailUnconnected ==
    /\ attempt # None /\ attempt.at = "start" /\ link.connected /\ ~link.open
    /\ attempt' = NextAttempt(TRUE)
    /\ UNCHANGED <<terminal, socket, queue, link, outcome, used>>

(* The terminal does not answer, or refuses the connection.                *)
FailConnect ==
    /\ attempt # None /\ attempt.at = "start" /\ ~link.connected /\ Fault
    /\ attempt' = NextAttempt(TRUE)
    /\ UNCHANGED <<terminal, socket, queue, link, outcome>>

-----------------------------------------------------------------------------
(* The client.                                                             *)

Mine(command) == attempt # None /\ attempt.n = command.attempt

Transmit ==
    /\ queue # <<>> /\ ~Head(queue).sent /\ link.open
    /\ asked' = Append(asked, Head(queue).name)
    /\ queue' = <<[Head(queue) EXCEPT !.sent = TRUE]>> \o Tail(queue)
    /\ UNCHANGED <<terminal, wire, attempt, link, outcome, used>>

Waiting == queue # <<>> /\ Head(queue).sent /\ link.open

\* The command under way has failed; so has the attempt, unless it already had.
Failed(retryable) ==
    /\ attempt' = IF Mine(Head(queue)) THEN NextAttempt(retryable) ELSE attempt
    /\ queue' = Tail(queue)

\* Mutant: a cursor within the memory is good, whatever the memory holds now.
ContinuableByCount(all) == cursor # None /\ cursor.count <= Len(all)

Continuable(all) ==
    /\ cursor # None /\ cursor.count <= Len(all)
    /\ cursor.count = 0 \/ all[cursor.count] = cursor.print

\* sync: what is beyond the cursor, or everything when the memory is another.
Downloaded(all) ==
    /\ got' = got \cup ToSet(IF Continuable(all) THEN SubSeq(all, cursor.count + 1, Len(all)) ELSE all)
    /\ cursor' = [count |-> Len(all), print |-> IF all = <<>> THEN None ELSE Last(all)]
    /\ attempt' = None

\* The command under way has its answer.
Succeeded(data) ==
    LET command == Head(queue)
        left == attempt.left \ {command.name}
    IN  IF ~Mine(command) THEN queue' = Tail(queue) /\ UNCHANGED <<attempt, outcome>>
        ELSE IF command.name = "log" THEN queue' = Tail(queue) /\ Downloaded(data)
        ELSE /\ attempt' = [attempt EXCEPT !.left = left]
             /\ queue' = Tail(queue) \o (IF left = {} THEN <<Command("log", attempt.n)>> ELSE <<>>)
             /\ UNCHANGED outcome

Reading(reading) ==
    /\ queue' = <<[Head(queue) EXCEPT !.reading = reading]>> \o Tail(queue)
    /\ UNCHANGED <<attempt, outcome>>

\* A bulk read has that much of what was announced.
Gathered(size, data) ==
    Reading([size |-> size, data |-> data, at |-> IF Len(data) < size THEN "data" ELSE "trailer"])

(* The packet that comes is the answer, whichever command it answers.      *)
Receive ==
    /\ Waiting /\ wire # <<>>
    /\ wire' = Tail(wire)
    /\ LET packet == Head(wire)
           reading == Head(queue).reading
       IN  IF Head(queue).name = "option" THEN Succeeded(<<>>)
           ELSE IF reading = None
           THEN IF packet.kind = "PREPARE_DATA" THEN Gathered(packet.data, <<>>)
                ELSE Succeeded(packet.data)
           ELSE IF reading.at = "trailer" \/ packet.kind = "ACK_OK" THEN Succeeded(reading.data)
           ELSE IF packet.kind = "DATA" THEN Gathered(reading.size, reading.data \o packet.data)
           ELSE Failed(FALSE) /\ UNCHANGED outcome
    /\ UNCHANGED <<terminal, asked, link, used>>

\* Only the trailer of a bulk answer is not missed.
Unanswered ==
    LET reading == Head(queue).reading
    IN  IF reading # None /\ reading.at = "trailer" THEN Succeeded(reading.data)
        ELSE Failed(TRUE) /\ UNCHANGED outcome

Timeout ==
    /\ Waiting /\ Fault
    /\ Unanswered
    /\ UNCHANGED <<terminal, socket, link>>

(* The connection is dropped; what was queued on it fails.                 *)
Drop ==
    /\ link.open /\ Fault
    /\ link' = [link EXCEPT !.open = FALSE]
    /\ asked' = <<>>
    /\ UNCHANGED <<terminal, wire, queue, attempt, outcome>>

FailQueued ==
    /\ queue # <<>> /\ ~link.open
    /\ Unanswered
    /\ UNCHANGED <<terminal, socket, link, used>>

Next ==
    \/ Punch \/ Wipe \/ Answer \/ Ignore
    \/ BeginSync \/ StartAttempt \/ FailUnconnected \/ FailConnect
    \/ Transmit \/ Receive \/ Timeout \/ Drop \/ FailQueued

Spec == Init /\ [][Next]_zkVars

-----------------------------------------------------------------------------
(* Properties.                                                             *)

(* Whatever answers came late or to the wrong command, and however the     *)
(* memory was wiped and filled again: as long as the terminal holds what   *)
(* the cursor describes, every record the next synchronization would pass  *)
(* over has been returned by an earlier one.                               *)
NothingPassedOver ==
    Continuable(memory) => \A i \in 1..cursor.count : memory[i] \in got
=============================================================================
