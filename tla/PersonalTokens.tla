--------------------------- MODULE PersonalTokens ---------------------------
(***************************************************************************)
(* The single-user token source of the stdio mode,                         *)
(* internal/googleauth/personal.go: the first GoogleToken call runs the    *)
(* loopback sign-in, later ones reuse and refresh its token, all of it     *)
(* under one mutex.                                                        *)
(*                                                                         *)
(* A caller is one GoogleToken call.  It makes at most one sign-in         *)
(* attempt, whose state parameter is the caller itself.  The browser, the  *)
(* token endpoint and the operating system's ports are the environment: a  *)
(* redirect of an abandoned attempt can reach the listener of a later one, *)
(* when the port is the same.                                              *)
(***************************************************************************)
CONSTANTS
    Callers,    \* the GoogleToken calls
    NoCaller,   \* nobody
    Background  \* a context that is never done

ASSUME DistinctAssumption == NoCaller \notin Callers /\ Background \notin Callers

VARIABLES
    pc,       \* pc[c]: where caller c is in GoogleToken
    ctxDone,  \* the callers whose context is done
    mu,       \* the holder of p.mu
    src,      \* p.src
    fresh,    \* the access token in p.src is valid
    grant,    \* the refresh token is still good at Google
    shown,    \* the attempts whose consent URL was shown
    resCh,    \* resCh[c]: the first result on the channel of c's sign-in
    got       \* got[c]: the attempt whose consent the token given to c rests on

vars == <<pc, ctxDone, mu, src, fresh, grant, shown, resCh, got>>

\* Whose consent the source rests on, and the context it refreshes with.
Source == [consent : Callers, ctx : Callers \union {Background}]
NoSource == [consent |-> NoCaller]

\* What a redirect carries: the state of an attempt, and a code, an error, or neither.
Redirect == [state : Callers, kind : {"code", "error", "empty"}]

\* What the handler puts on the channel: the state of the code, or an error.
Empty == [code |-> NoCaller, full |-> FALSE]
Result == [code : Callers \union {NoCaller}, full : BOOLEAN]
Failure == [code |-> NoCaller, full |-> TRUE]

PCs == {"idle", "lock", "held", "signIn", "exchange", "source", "refresh", "done"}

TypeOK ==
    /\ pc \in [Callers -> PCs]
    /\ ctxDone \subseteq Callers
    /\ mu \in Callers \union {NoCaller}
    /\ src \in Source \union {NoSource}
    /\ fresh \in BOOLEAN
    /\ grant \in BOOLEAN
    /\ shown \subseteq Callers
    /\ resCh \in [Callers -> Result]
    /\ got \in [Callers -> Callers \union {NoCaller}]

Init ==
    /\ pc = [c \in Callers |-> "idle"]
    /\ ctxDone = {}
    /\ mu = NoCaller
    /\ src = NoSource
    /\ fresh = FALSE
    /\ grant = FALSE
    /\ shown = {}
    /\ resCh = [c \in Callers |-> Empty]
    /\ got = [c \in Callers |-> NoCaller]

Goto(c, from, to) ==
    /\ pc[c] = from
    /\ pc' = [pc EXCEPT ![c] = to]

\* Return with a token that rests on the consent of attempt a, or with an error;
\* the deferred unlock runs, and the SDK cancels the context of the tool call.
Return(c, from, a) ==
    /\ Goto(c, from, "done")
    /\ got' = [got EXCEPT ![c] = a]
    /\ mu' = NoCaller
    /\ ctxDone' = ctxDone \union {c}

-----------------------------------------------------------------------------

Call(c) ==
    /\ Goto(c, "idle", "lock")
    /\ UNCHANGED <<ctxDone, mu, src, fresh, grant, shown, resCh, got>>

MutexFree == mu = NoCaller

\* p.mu.Lock() does not look at the context.
Lock(c) ==
    /\ MutexFree
    /\ Goto(c, "lock", "held")
    /\ mu' = c
    /\ UNCHANGED <<ctxDone, src, fresh, grant, shown, resCh, got>>

\* Seeded fault: an expired token counts as none.
NeedsSignInWhenStale == src = NoSource \/ ~fresh

NeedsSignIn == src = NoSource

\* The listener opens and the consent URL is shown, unless binding it fails.
BeginSignIn(c) ==
    /\ NeedsSignIn
    /\ \/ /\ Goto(c, "held", "signIn")
          /\ shown' = shown \union {c}
          /\ UNCHANGED <<got, mu, ctxDone>>
       \/ Return(c, "held", NoCaller) /\ UNCHANGED shown
    /\ UNCHANGED <<src, fresh, grant, resCh>>

SignedIn(c) ==
    /\ ~NeedsSignIn
    /\ Goto(c, "held", "source")
    /\ UNCHANGED <<ctxDone, mu, src, fresh, grant, shown, resCh, got>>

\* Seeded fault: the state is not compared.
StateUnchecked(c, r) == TRUE

StateMatches(c, r) == r.state = c

\* The verdict of the redirect handler: an error first, then the state, then the code.
Verdict(c, r) ==
    IF r.kind = "code" /\ StateMatches(c, r)
      THEN [code |-> r.state, full |-> TRUE]
      ELSE Failure

\* A redirect, of this attempt or of an earlier one, reaches the listener of c's
\* attempt.  Only the first result is ever read: later ones fill the channel, then
\* block their handlers for good.
Deliver(c, r) ==
    /\ r.state \in shown
    /\ pc[c] = "signIn"
    /\ resCh[c] = Empty
    /\ resCh' = [resCh EXCEPT ![c] = Verdict(c, r)]
    /\ UNCHANGED <<pc, ctxDone, mu, src, fresh, grant, shown, got>>

\* select: the context, or the first result.
SignInCancelled(c) ==
    /\ c \in ctxDone
    /\ Return(c, "signIn", NoCaller)
    /\ UNCHANGED <<src, fresh, grant, shown, resCh>>

TakeCode(c) ==
    /\ resCh[c].code # NoCaller
    /\ Goto(c, "signIn", "exchange")
    /\ UNCHANGED <<ctxDone, mu, src, fresh, grant, shown, resCh, got>>

\* Seeded fault: this error path forgets the mutex.
SignInFailsLocked(c) ==
    /\ resCh[c] = Failure
    /\ Goto(c, "signIn", "done")
    /\ ctxDone' = ctxDone \union {c}
    /\ UNCHANGED <<mu, src, fresh, grant, shown, resCh, got>>

SignInFails(c) ==
    /\ resCh[c] = Failure
    /\ Return(c, "signIn", NoCaller)
    /\ UNCHANGED <<src, fresh, grant, shown, resCh>>

\* Seeded faults: the context of the call; no context at all.
CallContext(c) == c
NilContext(c) == NoCaller

\* The context the source refreshes with, context.WithoutCancel.
RefreshContext(c) == Background

\* The token endpoint trades the code; the request carries the caller's context.
ExchangeWorks(c) ==
    /\ c \notin ctxDone
    /\ Goto(c, "exchange", "source")
    /\ src' = [consent |-> resCh[c].code, ctx |-> RefreshContext(c)]
    /\ fresh' = TRUE
    /\ grant' = TRUE
    /\ UNCHANGED <<ctxDone, mu, shown, resCh, got>>

ExchangeFails(c) ==
    /\ Return(c, "exchange", NoCaller)
    /\ UNCHANGED <<src, fresh, grant, shown, resCh>>

\* p.src.Token(), still under the mutex.
Reuse(c) ==
    /\ fresh
    /\ Return(c, "source", src.consent)
    /\ UNCHANGED <<src, fresh, grant, shown, resCh>>

BeginRefresh(c) ==
    /\ ~fresh
    /\ Goto(c, "source", "refresh")
    /\ UNCHANGED <<ctxDone, mu, src, fresh, grant, shown, resCh, got>>

RefreshWorks(c) ==
    /\ grant
    /\ src.ctx \notin ctxDone
    /\ Return(c, "refresh", src.consent)
    /\ fresh' = TRUE
    /\ UNCHANGED <<src, grant, shown, resCh>>

\* The source stays; the next caller asks it again.
RefreshFails(c) ==
    /\ Return(c, "refresh", NoCaller)
    /\ UNCHANGED <<src, fresh, grant, shown, resCh>>

-----------------------------------------------------------------------------

Expire ==
    /\ fresh
    /\ fresh' = FALSE
    /\ UNCHANGED <<pc, ctxDone, mu, src, grant, shown, resCh, got>>

\* Google ends the grant: revoked, or the seven days of a Testing-mode client.
Revoke ==
    /\ grant
    /\ grant' = FALSE
    /\ UNCHANGED <<pc, ctxDone, mu, src, fresh, shown, resCh, got>>

Cancel(c) ==
    /\ pc[c] \notin {"idle", "done"}
    /\ ctxDone' = ctxDone \union {c}
    /\ UNCHANGED <<pc, mu, src, fresh, grant, shown, resCh, got>>

\* What the process does for c by itself.
Local(c) ==
    \/ Lock(c)
    \/ BeginSignIn(c)
    \/ SignedIn(c)
    \/ SignInCancelled(c)
    \/ TakeCode(c)
    \/ SignInFails(c)
    \/ c \in ctxDone /\ ExchangeFails(c)
    \/ Reuse(c)
    \/ BeginRefresh(c)

\* The answers of the token endpoint.
TokenEndpoint(c) ==
    \/ ExchangeWorks(c)
    \/ ExchangeFails(c)
    \/ RefreshWorks(c)
    \/ RefreshFails(c)

Next ==
    \/ \E c \in Callers :
         \/ Call(c)
         \/ Local(c)
         \/ TokenEndpoint(c)
         \/ Cancel(c)
         \/ \E r \in Redirect : Deliver(c, r)
    \/ Expire
    \/ Revoke

\* Goroutines run and sync.Mutex starves nobody.  Nothing makes the user answer
\* the consent page, or the token endpoint answer a refresh.
Fairness == \A c \in Callers : WF_vars(Local(c))

Spec == Init /\ [][Next]_vars /\ Fairness

-----------------------------------------------------------------------------

\* The user is asked at most once: from the moment a source exists nobody starts a
\* sign-in, also not a caller that was waiting before it existed, and the source
\* is never replaced.
ConsentOnce ==
    [][src # NoSource =>
         /\ src' = src
         /\ \A c \in Callers : pc'[c] = "signIn" => pc[c] = "signIn"]_vars

\* One consent page, and one code exchange, at a time.
OneSignIn ==
    \A c, d \in Callers :
        {pc[c], pc[d]} \subseteq {"signIn", "exchange"} => c = d

\* A sign-in is completed only by the consent it asked for, never by a redirect
\* left over from an abandoned attempt.
OwnConsentOnly ==
    \A c \in Callers : pc[c] = "exchange" => resCh[c].code = c

\* The source works after the call that signed in has ended.
SourceOutlivesCall == src # NoSource => src.ctx \notin ctxDone

\* Somebody waits for the user or a code exchange, with a live context, or for a
\* refresh, which has none.
External ==
    \E c \in Callers :
        \/ pc[c] \in {"signIn", "exchange"} /\ c \notin ctxDone
        \/ pc[c] = "refresh"

\* Callers never block each other for good: unless the process ends up waiting for
\* ever for the user or for the token endpoint, every caller is answered.  In
\* particular the failure of one sign-in lets the next caller in.
EveryCallerAnswered ==
    <>[]External \/ \A c \in Callers : pc[c] = "lock" ~> pc[c] = "done"
=============================================================================
