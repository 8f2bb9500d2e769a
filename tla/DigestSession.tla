---------------------------- MODULE DigestSession ----------------------------
(***************************************************************************)
(* The HTTP Digest session of a Hikvision adapter (isapi-client.ts,        *)
(* digest-auth.ts) with its terminal (fake-device.ts; the check of counts  *)
(* is what RFC 7616 lets a terminal do).  The client keeps the challenge   *)
(* it was last given and counts its requests under that nonce; the calls   *)
(* of a sync and of a probe share it.                                      *)
(***************************************************************************)
EXTENDS Integers, FiniteSets

CONSTANTS
    Callers,      \* who calls the terminal through the adapter
    None,
    Offerings,    \* sets of challenges a terminal may offer
    MaxCalls,     \* bound on calls
    MaxRenewals,  \* bound on nonces expired and passwords changed
    Shares        \* calls overlap also on a terminal that takes each count once

VARIABLES
    challenge,  \* the nonce of the client's challenge, or None
    count,      \* nonceCount
    terminal,   \* offers, strict (a count is taken once), nonce, taken (counts under it), known
                \* (the client's password is the terminal's)
    calls,      \* what each caller's request is at
    begun, renewals

vars == <<challenge, count, terminal, calls, begun, renewals>>

Idle == [at |-> "idle"]

Schemes == {"SHA-256", "MD5", "Basic", "other"}

Call(c, call) == calls' = [calls EXCEPT ![c] = call]

InProgress == {c \in Callers : calls[c].at \in {"sent", "answered"}}

-----------------------------------------------------------------------------
(* parseAuthChallenge: the strongest of those offered, or None.            *)
Rank(scheme) == CASE scheme = "SHA-256" -> 2 [] scheme = "MD5" -> 1 [] scheme = "Basic" -> 0

Strongest(offers) ==
    LET known == offers \ {"other"} IN
    IF known = {} THEN None ELSE CHOOSE s \in known : \A r \in known : Rank(r) <= Rank(s)

Init ==
    /\ challenge = None /\ count = 0
    /\ \E offers \in Offerings, strict \in BOOLEAN, known \in BOOLEAN :
          terminal = [offers |-> offers, strict |-> strict, nonce |-> 1, taken |-> {}, known |-> known]
    /\ calls = [c \in Callers |-> Idle]
    /\ begun = 0 /\ renewals = 0

\* digestAuthorization: what a request carries.
Header(nonce, nc) == [nonce |-> nonce, nc |-> nc]

\* Mutant: the request counts under whatever nonce is cached, but only once.
CountOnce == IF challenge = None THEN count ELSE 1

(* nonceCount, which counts the requests under the cached nonce.           *)
NextCount == IF challenge = None THEN count ELSE count + 1

(* request: the cached nonce is tried first.                               *)
Begin(c) ==
    /\ calls[c].at \in {"idle", "done"} /\ begun < MaxCalls
    /\ terminal.strict /\ ~Shares => InProgress = {}
    /\ begun' = begun + 1
    /\ count' = NextCount
    /\ Call(c, [at |-> "sent", try |-> 1, header |-> Header(challenge, count'),
                disturbed |-> FALSE])
    /\ UNCHANGED <<challenge, terminal, renewals>>

(* authorize, on the terminal: 200, or 401 with what it offers.            *)
Valid(header) ==
    /\ header.nonce = terminal.nonce /\ terminal.known
    /\ terminal.strict => header.nc \notin terminal.taken

Answer(c) ==
    /\ calls[c].at = "sent"
    /\ LET valid == Valid(calls[c].header)
       IN  /\ Call(c, [at |-> "answered", try |-> calls[c].try, ok |-> valid,
                       nonce |-> terminal.nonce, disturbed |-> calls[c].disturbed])
           /\ terminal' = IF valid THEN [terminal EXCEPT !.taken = @ \cup {calls[c].header.nc}]
                          ELSE terminal
    /\ UNCHANGED <<challenge, count, begun, renewals>>

Done(call, outcome) == [at |-> "done", outcome |-> outcome, disturbed |-> call.disturbed]

Accepted(c) ==
    /\ calls[c].at = "answered" /\ calls[c].ok
    /\ Call(c, Done(calls[c], "ok"))
    /\ UNCHANGED <<challenge, count, terminal, begun, renewals>>

(* A first 401: the request is repeated with the fresh challenge, unless   *)
(* none is understood or the password would be sent in clear.              *)
Challenged(c) ==
    /\ calls[c].at = "answered" /\ ~calls[c].ok /\ calls[c].try = 1
    /\ LET scheme == Strongest(terminal.offers) IN
       IF scheme \in {None, "Basic"}
       THEN /\ Call(c, Done(calls[c], "not offered"))
            /\ UNCHANGED <<challenge, count>>
       ELSE /\ challenge' = calls[c].nonce
            /\ count' = 1
            /\ Call(c, [at |-> "sent", try |-> 2, header |-> Header(challenge', 1),
                        disturbed |-> calls[c].disturbed])
    /\ UNCHANGED <<terminal, begun, renewals>>

(* A second 401 is taken for a wrong password.                             *)
Rejected(c) ==
    /\ calls[c].at = "answered" /\ ~calls[c].ok /\ calls[c].try = 2
    /\ challenge' = None
    /\ Call(c, Done(calls[c], "refused"))
    /\ UNCHANGED <<count, terminal, begun, renewals>>

\* The timeout, or a lost connection: what was cached stays.
Fail(c) ==
    /\ c \in InProgress
    /\ Call(c, Done(calls[c], "failed"))
    /\ UNCHANGED <<challenge, count, terminal, begun, renewals>>

-----------------------------------------------------------------------------
(* The terminal gives out another nonce, and may have had its password     *)
(* changed.                                                                *)

\* It is past the answer to its first try, or has sent a fresh nonce.
Committed(call) == call.at = "answered" \/ (call.at = "sent" /\ call.try = 2)

ExpireNonce(known) ==
    /\ renewals < MaxRenewals
    /\ renewals' = renewals + 1
    /\ terminal' = [terminal EXCEPT !.nonce = @ + 1, !.known = known, !.taken = {}]
    /\ calls' = [c \in Callers |->
          IF c \in InProgress /\ (Committed(calls[c]) \/ known # terminal.known)
          THEN [calls[c] EXCEPT !.disturbed = TRUE] ELSE calls[c]]
    /\ UNCHANGED <<challenge, count, begun>>

Handle(c) ==
    Begin(c) \/ Answer(c) \/ Accepted(c) \/ Challenged(c) \/ Rejected(c) \/ Fail(c)

Next == (\E c \in Callers : Handle(c)) \/ \E known \in BOOLEAN : ExpireNonce(known)

Spec == Init /\ [][Next]_vars

-----------------------------------------------------------------------------
(* Properties.                                                             *)

(* A call is told its password is wrong, which nobody tries again (the     *)
(* error is not retryable), only if it is: unless the nonce was replaced   *)
(* under its second try, an expired nonce costs one repetition and no more *)
(* (request, send).                                                        *)
RefusedForCause ==
    [][\A c \in Callers : Rejected(c) => calls[c].disturbed \/ ~terminal.known]_vars
=============================================================================
