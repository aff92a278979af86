---------------------------- MODULE GapiClient ----------------------------
(***************************************************************************)
(* The Google REST client, internal/gapi/client.go: one logical call takes *)
(* a token, then sends the request up to MaxRetries + 1 times until Google *)
(* gives an answer that is not worth a retry.                              *)
(*                                                                         *)
(* A Call is one invocation of Get, GetRaw, Post, Patch, Put, Delete or    *)
(* PostRaw; all of them run doRaw and then statusError.  Google and the    *)
(* network are the environment: a request on the wire may be executed      *)
(* whether or not the client still listens for the answer, and it may be   *)
(* answered 500 or 503 after it was executed.                              *)
(***************************************************************************)
EXTENDS Integers

CONSTANTS
    Calls,       \* the logical calls
    MaxRetries,  \* maxRetries
    Answers      \* the answers Google may give, see Answer

\* 401 is what an access token that has expired since the call took it is answered.
Statuses == {200, 400, 401, 403, 429, 500, 503}

\* error.status and error.errors[0].reason of the envelope; "" is "absent".
Canonicals == {"", "PERMISSION_DENIED"}
Legacies == {"", "forbidden", "rateLimitExceeded", "userRateLimitExceeded"}

\* "long" is over maxResponseBytes, "cut" ends in a read error.  retryAfter is the
\* Retry-After header in seconds, negative when it is absent or not a number.
Answer == [status : Statuses, canonical : Canonicals, legacy : Legacies,
           body : {"whole", "long", "cut"}, retryAfter : Int]

ASSUME MaxRetriesAssumption == MaxRetries \in Nat
ASSUME AnswersAssumption == Answers \subseteq Answer

NoAnswer == [status |-> 0]

Attempts == 0 .. MaxRetries

\* decodeError prefers the canonical status over the legacy reason.
ReasonOf(a) == IF a.canonical # "" THEN a.canonical ELSE a.legacy

IsRateLimitReason(reason) == reason \in {"rateLimitExceeded", "userRateLimitExceeded"}

\* Seeded fault: every 5xx is retried.
Retryable5xx(a) == a.status \in {429, 500, 503}

Retryable(a) ==
    \/ a.status \in {429, 503}
    \/ a.status = 403 /\ IsRateLimitReason(ReasonOf(a))

\* Seeded fault: one retry too many.
RetriesLeftOneMore(n) == n <= MaxRetries

RetriesLeft(n) == n < MaxRetries

\* Seeded fault: only a 5xx is an error.
StatusBelow500(a) == a.status < 500

\* statusError: nil only for 2xx.
StatusOK(a) == a.status = 200

VARIABLES
    pc,          \* pc[c]: where call c is in doRaw
    attempt,     \* attempt[c]: the loop variable
    cancelled,   \* cancelled[c]: the context of the call is done
    wire,        \* wire[c]: the attempts Google has neither handled nor lost
    reply,       \* reply[c]: the answer to the current attempt, once it arrives
    result,      \* result[c]: what the caller is given
    executed,    \* executed[c]: the attempts whose operation Google carried out
    unavailable  \* unavailable[c]: the attempts the client saw answered 503

vars == <<pc, attempt, cancelled, wire, reply, result, executed, unavailable>>

PCs == {"idle", "token", "send", "await", "backoff", "done"}
Results == {"none", "ok", "googleError", "badRequest", "noToken", "transport",
            "badBody", "ctxErr"}

TypeOK ==
    /\ pc \in [Calls -> PCs]
    /\ attempt \in [Calls -> Attempts]
    /\ cancelled \in [Calls -> BOOLEAN]
    /\ wire \in [Calls -> SUBSET Attempts]
    /\ reply \in [Calls -> Answers \union {NoAnswer}]
    /\ result \in [Calls -> Results]
    /\ executed \in [Calls -> SUBSET Attempts]
    /\ unavailable \in [Calls -> SUBSET Attempts]

Init ==
    /\ pc = [c \in Calls |-> "idle"]
    /\ attempt = [c \in Calls |-> 0]
    /\ cancelled = [c \in Calls |-> FALSE]
    /\ wire = [c \in Calls |-> {}]
    /\ reply = [c \in Calls |-> NoAnswer]
    /\ result = [c \in Calls |-> "none"]
    /\ executed = [c \in Calls |-> {}]
    /\ unavailable = [c \in Calls |-> {}]

Goto(c, from, to) ==
    /\ pc[c] = from
    /\ pc' = [pc EXCEPT ![c] = to]

\* doRaw returns r and the caller sees it.
Return(c, from, r) ==
    /\ Goto(c, from, "done")
    /\ result' = [result EXCEPT ![c] = r]

-----------------------------------------------------------------------------
(* The client. *)

\* The body is encoded and the URL joined first; either can fail.
Start(c) ==
    /\ \/ Goto(c, "idle", "token") /\ UNCHANGED result
       \/ Return(c, "idle", "badRequest")
    /\ UNCHANGED <<attempt, cancelled, wire, reply, executed, unavailable>>

\* The token is taken once, before the loop; every attempt reuses it.
AcquireToken(c) ==
    /\ \/ Goto(c, "token", "send") /\ UNCHANGED result
       \/ Return(c, "token", "noToken")
    /\ UNCHANGED <<attempt, cancelled, wire, reply, executed, unavailable>>

\* Seeded fault: the request is built without the context.
ContextIgnored(c) == TRUE

ContextLive(c) == ~cancelled[c]

\* http.Do puts the request on the wire unless the context is already done.
Send(c) ==
    /\ ContextLive(c)
    /\ Goto(c, "send", "await")
    /\ wire' = [wire EXCEPT ![c] = @ \union {attempt[c]}]
    /\ UNCHANGED <<attempt, cancelled, reply, result, executed, unavailable>>

\* Seeded fault: a transport error is retried like a 503.
TransportErrorRetried(c) ==
    /\ RetriesLeft(attempt[c])
    /\ Goto(c, "await", "backoff")
    /\ UNCHANGED <<attempt, cancelled, wire, reply, result, executed, unavailable>>

\* http.Do fails: it cannot connect or the context is done (from "send"), or the
\* 30 s timeout, a reset or a cancellation hits (from "await").  The request may
\* still be on its way to Google.  No transport error is retried.
TransportError(c) ==
    /\ \E from \in {"send", "await"} : Return(c, from, "transport")
    /\ UNCHANGED <<attempt, cancelled, wire, reply, executed, unavailable>>

\* What doRaw makes of the answer a to attempt n: the result it returns, or
\* "none" for another turn of the loop.
Verdict(a, n) ==
    CASE a.body # "whole" -> "badBody"
      [] a.body = "whole" /\ Retryable(a) /\ RetriesLeft(n) -> "none"
      [] OTHER -> IF StatusOK(a) THEN "ok" ELSE "googleError"

Receive(c) ==
    LET a == reply[c]
        v == Verdict(a, attempt[c])
    IN  /\ a # NoAnswer
        /\ IF v = "none"
             THEN Goto(c, "await", "backoff") /\ UNCHANGED result
             ELSE Return(c, "await", v)
        /\ unavailable' = IF a.status = 503
                            THEN [unavailable EXCEPT ![c] = @ \union {attempt[c]}]
                            ELSE unavailable
        /\ UNCHANGED <<attempt, cancelled, wire, reply, executed>>

\* Seeded fault: the retries are not counted.
BackoffUncounted(c) ==
    /\ Goto(c, "backoff", "send")
    /\ reply' = [reply EXCEPT ![c] = NoAnswer]
    /\ UNCHANGED <<attempt, cancelled, wire, result, executed, unavailable>>

\* The timer of the backoff fires; when the context is done too, select may
\* take either case.
BackoffElapsed(c) ==
    /\ Goto(c, "backoff", "send")
    /\ attempt' = [attempt EXCEPT ![c] = @ + 1]
    /\ reply' = [reply EXCEPT ![c] = NoAnswer]
    /\ UNCHANGED <<cancelled, wire, result, executed, unavailable>>

BackoffCancelled(c) ==
    /\ cancelled[c]
    /\ Return(c, "backoff", "ctxErr")
    /\ UNCHANGED <<attempt, cancelled, wire, reply, executed, unavailable>>

-----------------------------------------------------------------------------
(* The environment. *)

\* The MCP client cancels the request, its connection goes away, or the tool call
\* that made the call is over.
Cancel(c) ==
    /\ pc[c] # "idle"
    /\ ~cancelled[c]
    /\ cancelled' = [cancelled EXCEPT ![c] = TRUE]
    /\ UNCHANGED <<pc, attempt, wire, reply, result, executed, unavailable>>

\* Does Google carry the operation out when it answers a?  2xx: yes; a 5xx says
\* nothing about it; 4xx: no.
MayExecute(a) == a.status \in {200, 500, 503}
MustExecute(a) == a.status = 200

\* Google handles attempt n of c; the answer reaches the client only while the
\* client still waits for that attempt.
Handle(c, n, a, done) ==
    /\ n \in wire[c]
    /\ IF done THEN MayExecute(a) ELSE ~MustExecute(a)
    /\ wire' = [wire EXCEPT ![c] = @ \ {n}]
    /\ executed' = IF done THEN [executed EXCEPT ![c] = @ \union {n}] ELSE executed
    /\ reply' = IF pc[c] = "await" /\ attempt[c] = n
                  THEN [reply EXCEPT ![c] = a]
                  ELSE reply
    /\ UNCHANGED <<pc, attempt, cancelled, result, unavailable>>

-----------------------------------------------------------------------------

ClientStep(c) ==
    \/ Send(c)
    \/ TransportError(c)
    \/ Receive(c)
    \/ BackoffElapsed(c)
    \/ BackoffCancelled(c)

Next ==
    \E c \in Calls :
        \/ Start(c)
        \/ AcquireToken(c)
        \/ ClientStep(c)
        \/ Cancel(c)
        \/ \E n \in wire[c], a \in Answers, done \in BOOLEAN : Handle(c, n, a, done)

\* A call that has its token keeps running: http.Do returns within defaultTimeout,
\* and the backoff timer fires within maxRetryDelay.  Google promises nothing, and
\* the token source may never answer (DwdTokens, PersonalTokens).
Fairness == \A c \in Calls : WF_vars(ClientStep(c))

Spec == Init /\ [][Next]_vars /\ Fairness

-----------------------------------------------------------------------------
(* What the client promises. *)

\* Google may carry one call out twice only because it answered 503 after
\* carrying it out: of the attempts Google executed, each but the last one was
\* answered 503.  A lost or late answer is never followed by another request.
DuplicateOnlyAfterUnavailable ==
    \A c \in Calls : executed[c] \ {attempt[c]} \subseteq unavailable[c]

\* The results that tell the caller Google did not do it: nothing was sent, or a
\* 4xx with no 503 before it.  A 401 that follows a 503, when the token ran out
\* during the backoff, is none of them.
Refused(c) ==
    \/ result[c] \in {"badRequest", "noToken"}
    \/ /\ result[c] = "googleError"
       /\ reply[c].status \in {400, 401, 403, 429}
       /\ unavailable[c] = {}

\* When Google is said not to have done it, Google has not done it and holds no
\* request that it could still do.
RefusedMeansUntouched ==
    \A c \in Calls : Refused(c) => executed[c] = {} /\ wire[c] = {}

\* A throttled call is surfaced as an error only after every retry was spent.
ThrottledOnlyWhenExhausted ==
    \A c \in Calls :
        result[c] = "googleError" /\ Retryable(reply[c]) => attempt[c] = MaxRetries

\* Once the context of a call is done, no further request of it leaves.
NothingSentAfterCancel ==
    [][\A c \in Calls : cancelled[c] => wire'[c] \subseteq wire[c]]_vars

\* The state of call c as the contract of module Operation sees it.
Phase(c) ==
    CASE pc[c] = "idle" -> "idle"
      [] pc[c] = "done" -> "answered"
      [] OTHER -> "running"

Outcome(c) ==
    CASE result[c] = "none" -> "none"
      [] result[c] = "ok" -> "applied"
      [] Refused(c) -> "refused"
      [] OTHER -> "unknown"

Contract == INSTANCE Operation WITH
    phase <- [c \in Calls |-> Phase(c)],
    verdict <- [c \in Calls |-> Outcome(c)]

\* The client implements the contract: at most one execution per attempt, one
\* answer per call, and an answer that never overstates what Google did.
ImplementsContract == Contract!Spec

\* Every call that has its token returns, cancelled or not, whatever Google does.
EveryCallReturns == \A c \in Calls : pc[c] = "send" ~> pc[c] = "done"
=============================================================================
