---------------------------- MODULE HttpServer -----------------------------
(***************************************************************************)
(* The path of a tool call through the delegated tier of the HTTP server:  *)
(* the Google client of module GapiClient, which takes its token from the  *)
(* token cache of module DwdTokens.  All requests share one client and one *)
(* cache; a request has one context, which carries its user and which      *)
(* either half may find done.                                              *)
(*                                                                         *)
(* DwdTokens gives the variables of the cache, Client those of the calls;  *)
(* the two meet where a call asks for its token and where it is given one. *)
(***************************************************************************)
EXTENDS DwdTokens, Integers

CONSTANTS MaxRetries, Answers

VARIABLES at, attempt, wire, reply, result, executed, unavailable

clientVars == <<at, attempt, wire, reply, result, executed, unavailable>>

serverVars == <<vars, clientVars>>

Client == INSTANCE GapiClient WITH
    Calls <- Requests,
    pc <- at,
    cancelled <- [r \in Requests |-> r \in ctxDone]

ASSUME ClientAssumption == MaxRetries \in Nat /\ Answers \subseteq Client!Answer

\* The two halves agree on how far a request is: the cache is asked by a call that
\* has been begun, and only a call that was handed a token gets past it.
ServerTypeOK ==
    /\ TypeOK
    /\ Client!TypeOK
    /\ \A r \in Requests :
         /\ pc[r] = "idle" <=> at[r] = "idle" \/ result[r] = "badRequest"
         /\ pc[r] \notin {"idle", "done"} => at[r] = "token"
         /\ at[r] \in {"send", "await", "backoff"} => token[r] # NoUser

ServerInit == Init /\ Client!Init

-----------------------------------------------------------------------------

\* A tool calls the client, whose arguments may be at fault; the context, with
\* the user on it, goes on to GoogleToken.
BeginCall(r, u) ==
    /\ Call(r, u)
    /\ Client!Start(r)
    /\ at'[r] = "token"

RejectCall(r) ==
    /\ UNCHANGED vars
    /\ Client!Start(r)
    /\ at'[r] = "done"

\* GoogleToken at work.
TokenStep(r) ==
    /\ Lock(r) \/ Local(r)
    /\ UNCHANGED clientVars

MintStep(r) ==
    /\ Mint(r)
    /\ UNCHANGED clientVars

\* Seeded fault: the error of GoogleToken is not looked at.
SendAnyway(r) == TRUE

\* GoogleToken has answered: the call goes on with a token or fails without one.
TokenTaken(r) == token[r] # NoUser

TakeToken(r) ==
    /\ pc[r] = "done"
    /\ UNCHANGED vars
    /\ Client!AcquireToken(r)
    /\ at'[r] = "send" <=> TokenTaken(r)

ClientRuns(r) ==
    /\ UNCHANGED vars
    /\ Client!ClientStep(r)

\* Google acts as the subject of the token on the request.
GoogleHandles(r) ==
    /\ UNCHANGED vars
    /\ \E n \in wire[r], a \in Answers, done \in BOOLEAN : Client!Handle(r, n, a, done)

ContextEnds(r) ==
    /\ Cancel(r)
    /\ UNCHANGED clientVars

TokenExpires(s) ==
    /\ Expire(s)
    /\ UNCHANGED clientVars

ServerNext ==
    \/ \E r \in Requests :
         \/ \E u \in Users \union {NoUser} : BeginCall(r, u)
         \/ RejectCall(r)
         \/ TokenStep(r)
         \/ MintStep(r)
         \/ TakeToken(r)
         \/ ClientRuns(r)
         \/ GoogleHandles(r)
         \/ ContextEnds(r)
    \/ \E s \in fresh : TokenExpires(s)

\* Both halves keep running as they do on their own; Google answers mints for the
\* responsive users and promises nothing about requests.
ServerFairness ==
    \A r \in Requests :
        /\ WF_serverVars(TokenStep(r))
        /\ WF_serverVars(user[r] \in Responsive /\ MintStep(r))
        /\ WF_serverVars(TakeToken(r) \/ ClientRuns(r))

ServerSpec == ServerInit /\ [][ServerNext]_serverVars /\ ServerFairness

-----------------------------------------------------------------------------

\* Google carries requests out, and holds requests to carry out, only with a token
\* of the user on the request's own context: on every attempt, however many
\* requests of other users share the client and the cache meanwhile.
ActsAsOwnUser ==
    \A r \in Requests :
        wire[r] \union executed[r] # {} => user[r] \in Users /\ token[r] = user[r]

\* A request whose context is done, also while it waits for the cache or for a
\* mint that does not look at contexts, sends nothing to Google any more.
NothingSentAfterEnd ==
    [][\A r \in Requests : r \in ctxDone => wire'[r] \subseteq wire[r]]_serverVars

\* Every call of a responsive user comes to its end, from its first step to its
\* answer, whatever Google does to the requests and to the mints of other users.
ResponsiveCallsReturn ==
    \A r \in Requests : (at[r] = "token" /\ user[r] \in Responsive) ~> at[r] = "done"
=============================================================================
