--------------------------- MODULE ResourceServer ---------------------------
(***************************************************************************)
(* The HTTP mode, serve.go, internal/oidcauth/verifier.go and actor.go:    *)
(* every request is verified on its own, belongs to an MCP session, acts   *)
(* as the user its token maps to, and ends with the process.               *)
(*                                                                         *)
(* The MCP SDK, the OIDC library and net/http are external: the SDK keeps  *)
(* a session for the UserID it was opened with, the library checks the     *)
(* signature, issuer, audience and expiry, and ListenAndServe returns as   *)
(* soon as Shutdown is called.  What a token at Google is worth is module  *)
(* DwdTokens.                                                              *)
(***************************************************************************)
EXTENDS FiniteSets, Naturals

CONSTANTS
    Requests,  \* the requests under way at a time
    Sessions,  \* the sessions open at a time
    Bearers,   \* the bearer tokens there are, see Bearer
    Issuers,   \* cfg.Issuers
    Targets,   \* the users a call of the application tier may name
    None

\* A token: the issuer it names and the one that signed it, its subject, its claims
\* ("" is absent or blank) and how email_verified is encoded.
Bearer == [iss : STRING, signer : STRING, ours : BOOLEAN, sub : STRING, email : STRING,
           upn : STRING, verified : {"true", "\"true\"", "false", "absent"}]

ASSUME BearersAssumption == Bearers \subseteq Bearer
ASSUME IssuersAssumption == Issuers # {} /\ IsFiniteSet(Issuers)
ASSUME NoneAssumption ==
    /\ None \notin Bearers /\ None \notin Sessions /\ None \notin Targets
    /\ None \notin [userID : STRING, googleUser : STRING]

VARIABLES
    subjectClaim,          \* cfg.SubjectClaimOrDefault
    requireEmailVerified,  \* ~cfg.TrustUnverifiedEmail
    process,   \* "serving", "closing" once interrupted, "exited"
    grace,     \* the five seconds of shutdownCtx are over
    pc,        \* pc[r]: where request r is
    bearer,    \* bearer[r]: its token
    session,   \* session[r]: its session, None to open one
    target,    \* target[r]: the user an app_* tool names, None for the other tools
    info,      \* info[r]: its TokenInfo
    acted,     \* acted[r]: the user its tool acted as and the actor it logged
    status,    \* status[r]: its HTTP status
    opened     \* opened[s]: the TokenInfo session s was opened with

config == <<subjectClaim, requireEmailVerified>>
vars == <<config, process, grace, pc, bearer, session, target, info, acted, status,
          opened>>

PCs == {"idle", "verify", "session", "tool", "answer", "killed"}

TypeOK ==
    /\ subjectClaim \in {"email", "upn"} /\ requireEmailVerified \in BOOLEAN
    /\ process \in {"serving", "closing", "exited"} /\ grace \in BOOLEAN
    /\ pc \in [Requests -> PCs]
    /\ bearer \in [Requests -> Bearers \union {None}]
    /\ session \in [Requests -> Sessions \union {None}]
    /\ target \in [Requests -> Targets \union {None}]
    /\ status \in [Requests -> {0, 200, 401, 403, 404}]
    \* A tool runs only with a TokenInfo and in a session that is open.
    /\ \A r \in Requests : pc[r] \in {"session", "tool", "answer"} => info[r] # None
    /\ \A r \in Requests : pc[r] \in {"tool", "answer"} => opened[session[r]] # None

Init ==
    /\ subjectClaim \in {"email", "upn"}
    /\ requireEmailVerified \in BOOLEAN
    /\ process = "serving"
    /\ grace = FALSE
    /\ pc = [r \in Requests |-> "idle"]
    /\ bearer = [r \in Requests |-> None]
    /\ session = [r \in Requests |-> None]
    /\ target = [r \in Requests |-> None]
    /\ info = [r \in Requests |-> None]
    /\ acted = [r \in Requests |-> None]
    /\ status = [r \in Requests |-> 0]
    /\ opened = [s \in Sessions |-> None]

Goto(r, from, to) ==
    /\ process # "exited"
    /\ pc[r] = from
    /\ pc' = [pc EXCEPT ![r] = to]

\* What the server keeps of a request.
Forget(r) ==
    /\ bearer' = [bearer EXCEPT ![r] = None]
    /\ session' = [session EXCEPT ![r] = None]
    /\ target' = [target EXCEPT ![r] = None]
    /\ info' = [info EXCEPT ![r] = None]
    /\ acted' = [acted EXCEPT ![r] = None]

Respond(r, from, code) ==
    /\ Goto(r, from, "idle")
    /\ status' = [status EXCEPT ![r] = code]
    /\ Forget(r)

\* A request arrives at /mcp.
Arrive(r, b, s, t) ==
    /\ process = "serving"
    /\ Goto(r, "idle", "verify")
    /\ bearer' = [bearer EXCEPT ![r] = b]
    /\ session' = [session EXCEPT ![r] = s]
    /\ target' = [target EXCEPT ![r] = t]
    /\ status' = [status EXCEPT ![r] = 0]
    /\ UNCHANGED <<config, process, grace, info, acted, opened>>

-----------------------------------------------------------------------------
(* Verification. *)

\* verifierFor: one issuer needs no routing, several are chosen by the claim.
VerifierFor(b) ==
    IF Cardinality(Issuers) = 1 THEN CHOOSE i \in Issuers : TRUE
    ELSE IF b.iss \in Issuers THEN b.iss ELSE None

\* oidc.IDTokenVerifier.Verify; the expiry is left to Verify.
Genuine(b, issuer) ==
    b.iss = issuer /\ b.signer = issuer /\ b.ours

GoogleUser(b) == IF subjectClaim = "email" THEN b.email ELSE b.upn

ClaimIsTrue(v) == v \in {"true", "\"true\""}

\* Seeded fault: an email_verified that is absent passes.
EmailAcceptableIfAbsent(b) ==
    requireEmailVerified /\ subjectClaim = "email" => b.verified # "false"

EmailAcceptable(b) ==
    requireEmailVerified /\ subjectClaim = "email" => ClaimIsTrue(b.verified)

Verified(b) ==
    /\ VerifierFor(b) # None
    /\ Genuine(b, VerifierFor(b))
    /\ GoogleUser(b) # ""
    /\ EmailAcceptable(b)

\* Seeded fault: the TokenInfo names no UserID.
TokenInfoUnbound(b) == [userID |-> "", googleUser |-> GoogleUser(b)]

TokenInfo(b) == [userID |-> b.sub, googleUser |-> GoogleUser(b)]

\* RequireBearerToken and bearerVerifier; the token may have expired or the
\* keys of its issuer be out of reach.
Verify(r) ==
    /\ \/ /\ Goto(r, "verify", "session")
          /\ Verified(bearer[r])
          /\ info' = [info EXCEPT ![r] = TokenInfo(bearer[r])]
          /\ UNCHANGED <<bearer, session, target, acted, status>>
       \/ Respond(r, "verify", 401)
    /\ UNCHANGED <<config, process, grace, opened>>

-----------------------------------------------------------------------------
(* Sessions and tool calls. *)

OpenSession(r, s) ==
    /\ session[r] = None
    /\ opened[s] = None
    /\ Goto(r, "session", "tool")
    /\ session' = [session EXCEPT ![r] = s]
    /\ opened' = [opened EXCEPT ![s] = info[r]]
    /\ UNCHANGED <<config, process, grace, bearer, target, info, acted, status>>

\* The SDK compares the UserID, where the session has one.
Matches(r, s) == opened[s].userID \in {"", info[r].userID}

JoinSession(r) ==
    /\ pc[r] = "session" /\ session[r] # None
    /\ LET s == session[r] IN
       CASE opened[s] = None -> Respond(r, "session", 404)
         [] opened[s] # None /\ ~Matches(r, s) -> Respond(r, "session", 403)
         [] OTHER -> /\ Goto(r, "session", "tool")
                     /\ UNCHANGED <<bearer, session, target, info, acted, status>>
    /\ UNCHANGED <<config, process, grace, opened>>

\* Seeded fault: the user of the session, not of the request.
UserOnContextOfSession(r) == opened[session[r]].googleUser

\* userMiddleware.
UserOnContext(r) == info[r].googleUser

\* withActor, actorFromContext.
Actor(r) == UserOnContext(r)

\* asUser replaces the impersonated user and keeps the actor.
CallTool(r) ==
    /\ Goto(r, "tool", "answer")
    /\ acted' = [acted EXCEPT ![r] =
         [as |-> IF target[r] = None THEN UserOnContext(r) ELSE target[r],
          actor |-> Actor(r)]]
    /\ UNCHANGED <<config, process, grace, bearer, session, target, info, status, opened>>

Answer(r) ==
    /\ Respond(r, "answer", 200)
    /\ UNCHANGED <<config, process, grace, opened>>

\* Seeded fault: a request that is being answered no longer keeps its session.
InFlightUntilAnswer == {r \in Requests : pc[r] \notin {"idle", "killed", "answer"}}

InFlight == {r \in Requests : pc[r] \notin {"idle", "killed"}}

\* SessionTimeout: an idle session is forgotten.
CloseSession(s) ==
    /\ opened[s] # None
    /\ \A r \in InFlight : session[r] # s
    /\ opened' = [opened EXCEPT ![s] = None]
    /\ UNCHANGED <<config, process, grace, pc, bearer, session, target, info, acted,
                   status>>

-----------------------------------------------------------------------------
(* Shutdown. *)

\* The signal ends ctx; the goroutine calls Shutdown, which closes the listener.
Interrupt ==
    /\ process = "serving"
    /\ process' = "closing"
    /\ UNCHANGED <<config, grace, pc, bearer, session, target, info, acted, status,
                   opened>>

GraceOver ==
    /\ process = "closing" /\ ~grace
    /\ grace' = TRUE
    /\ UNCHANGED <<config, process, pc, bearer, session, target, info, acted, status,
                   opened>>

\* ListenAndServe has returned ErrServerClosed: serveHTTP, run and main return, and
\* the process ends, whatever Shutdown still waits for.
Exit ==
    /\ process = "closing"
    /\ process' = "exited"
    /\ pc' = [r \in Requests |-> IF r \in InFlight THEN "killed" ELSE pc[r]]
    /\ UNCHANGED <<config, grace, bearer, session, target, info, acted, status, opened>>

Serve(r) ==
    \/ Verify(r)
    \/ \E s \in Sessions : OpenSession(r, s)
    \/ JoinSession(r)
    \/ CallTool(r)
    \/ Answer(r)

Next ==
    \/ \E r \in Requests, b \in Bearers :
         \E s \in Sessions \union {None}, t \in Targets \union {None} : Arrive(r, b, s, t)
    \/ \E r \in Requests : Serve(r)
    \/ \E s \in Sessions : CloseSession(s)
    \/ Interrupt
    \/ GraceOver
    \/ Exit

Spec == Init /\ [][Next]_vars

-----------------------------------------------------------------------------

HasActed(r) == acted[r] # None

\* A request acts only for a token that a trusted issuer signed for this server and
\* that, where the claim is an email, vouches for it, unless the operator opted out.
OnlyTrustedActs ==
    \A r \in Requests : HasActed(r) =>
        /\ bearer[r].signer \in Issuers /\ bearer[r].iss = bearer[r].signer
        /\ bearer[r].ours
        /\ subjectClaim = "email" /\ requireEmailVerified =>
             bearer[r].verified \in {"true", "\"true\""}

\* Whatever session a request joins, it acts as the user of its own token; the
\* application tier acts as another user, and logs the one who asked.
ActsAsBearer ==
    \A r \in Requests : HasActed(r) =>
        /\ acted[r].actor = GoogleUser(bearer[r]) /\ acted[r].actor # ""
        /\ target[r] = None => acted[r].as = acted[r].actor

\* A session is used by one subject.
SessionKeepsItsSubject ==
    \A r \in Requests, q \in Requests :
        /\ pc[r] \in {"tool", "answer"} /\ pc[q] \in {"tool", "answer"}
        /\ session[r] = session[q]
        => bearer[r].sub = bearer[q].sub

\* serve.go: "serveHTTP shuts down gracefully when ctx is cancelled"; no request is
\* killed before the grace period of five seconds is over.
ShutsDownGracefully == grace \/ \A r \in Requests : pc[r] # "killed"
=============================================================================
