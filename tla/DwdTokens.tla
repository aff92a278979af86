----------------------------- MODULE DwdTokens -----------------------------
(***************************************************************************)
(* The domain-wide-delegation token cache of the HTTP mode,                *)
(* internal/googleauth/dwd.go: one token source per impersonated user,     *)
(* built on first use under a mutex, asked for a token outside it.         *)
(*                                                                         *)
(* A request is one GoogleToken call made for one tool call.  The source   *)
(* itself, oauth2.ReuseTokenSource over a JWT exchange, is external: it    *)
(* serializes its callers, hands out its token while that is valid, and    *)
(* otherwise mints one over HTTP without a timeout, using the context it   *)
(* was built with.                                                         *)
(***************************************************************************)
CONSTANTS
    Requests,   \* the requests
    Users,      \* the users on their contexts
    NoUser,     \* a context without a user
    NoRequest,  \* the mutex is free
    Background, \* a context that is never done
    Responsive  \* the users for whom every mint ends

ASSUME ResponsiveAssumption == Responsive \subseteq Users
ASSUME DistinctAssumption ==
    NoUser \notin Users /\ NoRequest \notin Requests /\ Background \notin Requests

VARIABLES
    pc,       \* pc[r]: where request r is in GoogleToken
    user,     \* user[r]: UserFromContext
    mu,       \* the holder of d.mu
    sources,  \* sources[u]: d.sources
    src,      \* src[r]: the local variable src
    fresh,    \* the sources that hold a valid token
    busy,     \* the sources that are minting
    token,    \* token[r]: the user the token handed to r acts as
    ctxDone   \* the requests whose context is done

vars == <<pc, user, mu, sources, src, fresh, busy, token, ctxDone>>

\* A token source: whom it impersonates, which request built it, and the context
\* it refreshes with.
Source == [subject : Users, builder : Requests, ctx : Requests \union {Background}]

NoSource == [subject |-> NoUser]

\* "mint" waits for the source, "minting" for Google.
PCs == {"idle", "lock", "held", "mint", "minting", "done"}

TypeOK ==
    /\ pc \in [Requests -> PCs]
    /\ user \in [Requests -> Users \union {NoUser}]
    /\ mu \in Requests \union {NoRequest}
    /\ sources \in [Users -> Source \union {NoSource}]
    /\ src \in [Requests -> Source \union {NoSource}]
    /\ fresh \subseteq Source
    /\ busy \subseteq Source
    /\ token \in [Requests -> Users \union {NoUser}]
    /\ ctxDone \subseteq Requests

Init ==
    /\ pc = [r \in Requests |-> "idle"]
    /\ user = [r \in Requests |-> NoUser]
    /\ mu = NoRequest
    /\ sources = [u \in Users |-> NoSource]
    /\ src = [r \in Requests |-> NoSource]
    /\ fresh = {}
    /\ busy = {}
    /\ token = [r \in Requests |-> NoUser]
    /\ ctxDone = {}

Goto(r, from, to) ==
    /\ pc[r] = from
    /\ pc' = [pc EXCEPT ![r] = to]

\* GoogleToken answers with a token that acts as u, or with an error.
Return(r, from, u) ==
    /\ Goto(r, from, "done")
    /\ token' = [token EXCEPT ![r] = u]

-----------------------------------------------------------------------------

\* A request arrives with a user on its context, or with none: errNoUser.
Call(r, u) ==
    /\ user' = [user EXCEPT ![r] = u]
    /\ IF u = NoUser
         THEN Return(r, "idle", NoUser)
         ELSE Goto(r, "idle", "lock") /\ UNCHANGED token
    /\ UNCHANGED <<mu, sources, src, fresh, busy, ctxDone>>

\* Seeded faults: the mutex held through the mint; one source for all.
MutexThroughMint == mu = NoRequest /\ \A s \in Requests : pc[s] \notin {"mint", "minting"}
AnyCached(r) ==
    IF \E u \in Users : sources[u] # NoSource
      THEN sources[CHOOSE u \in Users : sources[u] # NoSource]
      ELSE NoSource

MutexFree == mu = NoRequest

Cached(r) == sources[user[r]]

\* d.mu.Lock() and the lookup.
Lock(r) ==
    /\ MutexFree
    /\ Goto(r, "lock", "held")
    /\ mu' = r
    /\ src' = [src EXCEPT ![r] = Cached(r)]
    /\ UNCHANGED <<user, sources, fresh, busy, token, ctxDone>>

\* Seeded fault: the context of the request.
RequestContext(r) == r

\* The context newSource is given, context.WithoutCancel.
RefreshContext(r) == Background

NewSource(r) == [subject |-> user[r], builder |-> r, ctx |-> RefreshContext(r)]

\* The rest of the critical section: build and store the source on a miss.
Hit(r) ==
    /\ src[r] # NoSource
    /\ Goto(r, "held", "mint")
    /\ mu' = NoRequest
    /\ UNCHANGED <<user, sources, src, fresh, busy, token, ctxDone>>

Miss(r) ==
    /\ src[r] = NoSource
    /\ Goto(r, "held", "mint")
    /\ mu' = NoRequest
    /\ src' = [src EXCEPT ![r] = NewSource(r)]
    /\ sources' = [sources EXCEPT ![user[r]] = NewSource(r)]
    /\ UNCHANGED <<user, fresh, busy, token, ctxDone>>

\* newSource fails: nothing is cached.
MissFails(r) ==
    /\ src[r] = NoSource
    /\ Return(r, "held", NoUser)
    /\ mu' = NoRequest
    /\ UNCHANGED <<user, sources, src, fresh, busy, ctxDone>>

\* src.Token() with a valid token at hand.
Reuse(r) ==
    /\ Return(r, "mint", src[r].subject)
    /\ src[r] \in fresh \ busy
    /\ UNCHANGED <<user, mu, sources, src, fresh, busy, ctxDone>>

StartMint(r) ==
    /\ src[r] \notin fresh \union busy
    /\ Goto(r, "mint", "minting")
    /\ busy' = busy \union {src[r]}
    /\ UNCHANGED <<user, mu, sources, src, fresh, token, ctxDone>>

\* A source whose context is done can only fail.
MintWorks(r) ==
    /\ Return(r, "minting", src[r].subject)
    /\ src[r].ctx \notin ctxDone
    /\ fresh' = fresh \union {src[r]}
    /\ busy' = busy \ {src[r]}
    /\ UNCHANGED <<user, mu, sources, src, ctxDone>>

MintFails(r) ==
    /\ Return(r, "minting", NoUser)
    /\ busy' = busy \ {src[r]}
    /\ UNCHANGED <<user, mu, sources, src, fresh, ctxDone>>

-----------------------------------------------------------------------------

\* A token comes to within oauth2's margin of its expiry.
Expire(s) ==
    /\ s \in fresh
    /\ fresh' = fresh \ {s}
    /\ UNCHANGED <<pc, user, mu, sources, src, busy, token, ctxDone>>

\* The caller gives up, which GoogleToken does not notice, or the tool call is over
\* and the SDK cancels its context.
Cancel(r) ==
    /\ pc[r] # "idle"
    /\ r \notin ctxDone
    /\ ctxDone' = ctxDone \union {r}
    /\ UNCHANGED <<pc, user, mu, sources, src, fresh, busy, token>>

\* What the process itself does for r, without waiting for Google.
Local(r) == Hit(r) \/ Miss(r) \/ MissFails(r) \/ Reuse(r) \/ StartMint(r)

Mint(r) == MintWorks(r) \/ MintFails(r)

Next ==
    \/ \E r \in Requests :
         \/ \E u \in Users \union {NoUser} : Call(r, u)
         \/ Lock(r)
         \/ Local(r)
         \/ Mint(r)
         \/ Cancel(r)
    \/ \E s \in fresh : Expire(s)

\* Goroutines run and sync.Mutex starves nobody.  A mint may hang for ever (the
\* exchange has neither a timeout nor a context that ends), except for the users
\* Google is Responsive for.
Fairness ==
    /\ \A r \in Requests : WF_vars(Lock(r) \/ Local(r))
    /\ \A r \in Requests : WF_vars(user[r] \in Responsive /\ Mint(r))

Spec == Init /\ [][Next]_vars /\ Fairness

-----------------------------------------------------------------------------

\* Whatever the interleaving, a request acts as the user on its own context.
TokenIsForCaller ==
    \A r \in Requests : token[r] # NoUser => token[r] = user[r]

\* All requests of a user share one source: the one in the cache.
OneSourcePerUser ==
    \A r \in Requests :
        pc[r] \in {"mint", "minting"} => src[r] # NoSource /\ src[r] = sources[user[r]]

\* Concurrent requests of one user never mint twice at the same time.
SingleMintPerUser ==
    \A r, s \in Requests :
        pc[r] = "minting" /\ pc[s] = "minting" /\ user[r] = user[s] => r = s

\* The request that happened to build a source does not take it down when it
\* ends: a cached source refreshes with a context that is not done.
CachedSourceOutlivesRequest ==
    \A u \in Users : sources[u] # NoSource => sources[u].ctx \notin ctxDone
=============================================================================
