------------------------ MODULE PersonalTokensProofs ------------------------
(***************************************************************************)
(* Mutual exclusion of the sign-in, the life of the source, and who waits  *)
(* for whom, for any set of callers.                                       *)
(***************************************************************************)
EXTENDS PersonalTokens, TLAPS

\* The states in which a caller holds p.mu.
Holding == {"held", "signIn", "exchange", "source", "refresh"}

MutexInv == \A c \in Callers : pc[c] \in Holding <=> mu = c

\* A source exists only outside the sign-in, and only refreshes with Background.
SourceInv ==
    /\ src # NoSource => src \in Source /\ src.ctx = Background
    /\ \A c \in Callers :
         /\ pc[c] \in {"signIn", "exchange"} => src = NoSource
         /\ pc[c] \in {"source", "refresh"} => src # NoSource

\* The channel of an attempt only ever holds the attempt's own code.
ChannelInv ==
    \A c \in Callers :
        /\ resCh[c].code \in {c, NoCaller}
        /\ pc[c] = "exchange" => resCh[c].code = c

IInv == TypeOK /\ MutexInv /\ SourceInv /\ ChannelInv

LEMMA SourceTyping == \A s \in Source : s # NoSource
  BY DistinctAssumption DEF Source, NoSource

LEMMA InitIInv == Init => IInv
<1> SUFFICES ASSUME Init PROVE IInv
  OBVIOUS
<1>1. Empty \in Result /\ Empty.code = NoCaller
  BY DEF Empty, Result
<1>2. TypeOK /\ SourceInv
  BY <1>1 DEF Init, TypeOK, SourceInv, PCs
<1>3. MutexInv
  BY DistinctAssumption DEF Init, MutexInv, Holding
<1>4. ChannelInv
  BY <1>1 DEF Init, ChannelInv
<1>. QED BY <1>2, <1>3, <1>4 DEF IInv

\* A step that moves one caller and leaves source and channels alone keeps the
\* invariant when it handles the mutex as the code does.
LEMMA MoveInv ==
    ASSUME IInv, TypeOK', NEW c \in Callers,
           \A d \in Callers \ {c} : pc'[d] = pc[d],
           UNCHANGED <<src, resCh>>,
           pc'[c] \in Holding <=> mu' = c,
           \A d \in Callers \ {c} : mu' = d <=> mu = d,
           pc'[c] \in {"signIn", "exchange"} => src = NoSource,
           pc'[c] \in {"source", "refresh"} => src # NoSource,
           pc'[c] = "exchange" => resCh[c].code = c
    PROVE  IInv'
<1>1. MutexInv'
  BY DEF IInv, MutexInv
<1>2. SourceInv'
  BY DEF IInv, SourceInv
<1>3. ChannelInv'
  BY DEF IInv, ChannelInv
<1>. QED BY <1>1, <1>2, <1>3 DEF IInv

LEMMA ReturnInv ==
    ASSUME IInv, NEW c \in Callers, NEW from \in Holding, NEW a \in Callers \union {NoCaller},
           Return(c, from, a), UNCHANGED <<src, grant, shown, resCh>>, fresh' \in BOOLEAN
    PROVE  IInv'
<1>1. TypeOK'
  BY DEF IInv, TypeOK, Return, Goto, PCs
<1>2. mu = c /\ pc'[c] = "done" /\ mu' = NoCaller
      /\ \A d \in Callers \ {c} : pc'[d] = pc[d]
  BY DEF IInv, TypeOK, MutexInv, Return, Goto, Holding
<1>. QED BY <1>1, <1>2, MoveInv, DistinctAssumption DEF Return, Holding

LEMMA LocalInv ==
    ASSUME IInv, NEW c \in Callers, Local(c)
    PROVE  IInv'
<1>1. CASE Lock(c)
  <2>1. TypeOK' /\ pc'[c] = "held" /\ mu' = c /\ mu = NoCaller /\ UNCHANGED <<src, resCh>>
        /\ \A d \in Callers \ {c} : pc'[d] = pc[d]
    BY <1>1 DEF IInv, TypeOK, Lock, MutexFree, Goto, PCs
  <2>. QED BY <2>1, MoveInv, DistinctAssumption DEF Holding
<1>2. CASE BeginSignIn(c)
  <2>1. CASE Goto(c, "held", "signIn")
    <3>1. TypeOK' /\ pc'[c] = "signIn" /\ src = NoSource /\ UNCHANGED <<src, resCh, mu>>
          /\ \A d \in Callers \ {c} : pc'[d] = pc[d]
      BY <1>2, <2>1 DEF IInv, TypeOK, BeginSignIn, NeedsSignIn, Goto, Return, PCs
    <3>2. mu = c
      BY <2>1 DEF IInv, MutexInv, Goto, Holding
    <3>. QED BY <3>1, <3>2, MoveInv DEF Holding
  <2>2. CASE Return(c, "held", NoCaller) /\ UNCHANGED shown
    BY <1>2, <2>2, ReturnInv DEF BeginSignIn, Holding, IInv, TypeOK
  <2>. QED BY <1>2, <2>1, <2>2 DEF BeginSignIn
<1>3. CASE SignedIn(c) \/ BeginRefresh(c)
  <2>1. TypeOK' /\ pc[c] \in {"held", "source"} /\ pc'[c] \in {"source", "refresh"}
        /\ src # NoSource /\ UNCHANGED <<src, resCh, mu>>
        /\ \A d \in Callers \ {c} : pc'[d] = pc[d]
    BY <1>3 DEF IInv, TypeOK, SourceInv, SignedIn, BeginRefresh, NeedsSignIn, Goto, PCs
  <2>2. mu = c
    BY <2>1 DEF IInv, MutexInv, Holding
  <2>. QED BY <2>1, <2>2, MoveInv DEF Holding
<1>4. CASE TakeCode(c)
  <2>1. TypeOK' /\ pc[c] = "signIn" /\ pc'[c] = "exchange" /\ src = NoSource
        /\ UNCHANGED <<src, resCh, mu>> /\ resCh[c].code = c
        /\ \A d \in Callers \ {c} : pc'[d] = pc[d]
    BY <1>4 DEF IInv, TypeOK, SourceInv, ChannelInv, TakeCode, Goto, PCs
  <2>2. mu = c
    BY <2>1 DEF IInv, MutexInv, Holding
  <2>. QED BY <2>1, <2>2, MoveInv DEF Holding
<1>5. CASE SignInCancelled(c) \/ SignInFails(c) \/ ExchangeFails(c)
  BY <1>5, ReturnInv DEF SignInCancelled, SignInFails, ExchangeFails, Holding, IInv, TypeOK
<1>6. CASE Reuse(c)
  <2>1. src \in Source
    BY <1>6 DEF IInv, SourceInv, Reuse, Return, Goto
  <2>2. src.consent \in Callers
    BY <2>1 DEF Source
  <2>. QED BY <1>6, <2>2, ReturnInv DEF Reuse, Holding, IInv, TypeOK
<1>. QED BY <1>1, <1>2, <1>3, <1>4, <1>5, <1>6 DEF Local

LEMMA TokenEndpointInv ==
    ASSUME IInv, NEW c \in Callers, TokenEndpoint(c)
    PROVE  IInv'
<1>1. CASE ExchangeWorks(c)
  <2>1. pc[c] = "exchange" /\ mu = c /\ resCh[c].code = c
    BY <1>1 DEF IInv, MutexInv, ChannelInv, ExchangeWorks, Goto, Holding
  <2>2. src' \in Source /\ src'.ctx = Background
    BY <1>1, <2>1 DEF ExchangeWorks, RefreshContext, Source
  <2>3. pc' = [pc EXCEPT ![c] = "source"] /\ UNCHANGED <<ctxDone, mu, shown, resCh, got>>
        /\ fresh' \in BOOLEAN /\ grant' \in BOOLEAN
    BY <1>1 DEF ExchangeWorks, Goto
  <2>4. TypeOK' /\ ChannelInv' /\ MutexInv'
    BY <2>1, <2>2, <2>3 DEF IInv, TypeOK, ChannelInv, MutexInv, PCs, Holding
  \* No other caller is in the sign-in: it would hold the mutex.
  <2>5. \A d \in Callers \ {c} : pc[d] \notin {"signIn", "exchange"}
    BY <2>1 DEF IInv, MutexInv, Holding
  <2>6. SourceInv'
    BY <2>1, <2>2, <2>3, <2>5, SourceTyping DEF IInv, TypeOK, SourceInv
  <2>. QED BY <2>4, <2>6 DEF IInv
<1>2. CASE RefreshWorks(c)
  <2>1. src \in Source
    BY <1>2 DEF IInv, SourceInv, RefreshWorks, Return, Goto
  <2>2. src.consent \in Callers
    BY <2>1 DEF Source
  <2>. QED BY <1>2, <2>2, ReturnInv DEF RefreshWorks, Holding, IInv, TypeOK
<1>3. CASE ExchangeFails(c) \/ RefreshFails(c)
  BY <1>3, ReturnInv DEF ExchangeFails, RefreshFails, Holding, IInv, TypeOK
<1>. QED BY <1>1, <1>2, <1>3 DEF TokenEndpoint

LEMMA DeliverInv ==
    ASSUME IInv, NEW c \in Callers, NEW r \in Redirect, Deliver(c, r)
    PROVE  IInv'
<1>1. Verdict(c, r) \in Result /\ Verdict(c, r).code \in {c, NoCaller}
  BY DEF Verdict, StateMatches, Redirect, Result, Failure
<1>. QED
  BY <1>1 DEF IInv, TypeOK, MutexInv, SourceInv, ChannelInv, Deliver

LEMMA EnvironmentInv ==
    ASSUME IInv,
           Expire \/ Revoke \/ (\E c \in Callers : Call(c) \/ Cancel(c)) \/ UNCHANGED vars
    PROVE  IInv'
<1>1. CASE \E c \in Callers : Call(c)
  <2> PICK c \in Callers : Call(c)
    BY <1>1
  <2>1. TypeOK' /\ pc'[c] = "lock" /\ pc[c] = "idle" /\ UNCHANGED <<mu, src, resCh>>
        /\ \A d \in Callers \ {c} : pc'[d] = pc[d]
    BY DEF IInv, TypeOK, Call, Goto, PCs
  <2>2. mu # c
    BY <2>1 DEF IInv, MutexInv, Holding
  <2>. QED BY <2>1, <2>2, MoveInv DEF Holding
<1>2. CASE Expire \/ Revoke \/ (\E c \in Callers : Cancel(c)) \/ UNCHANGED vars
  BY <1>2 DEF IInv, TypeOK, MutexInv, SourceInv, ChannelInv, Expire, Revoke, Cancel, vars
<1>. QED BY <1>1, <1>2

LEMMA NextIInv == IInv /\ [Next]_vars => IInv'
  BY LocalInv, TokenEndpointInv, DeliverInv, EnvironmentInv DEF Next

\* The inductive invariant holds in every reachable state.
THEOREM Invariance == Spec => []IInv
  BY InitIInv, NextIInv, PTL DEF Spec

\* Every variable keeps its type.
THEOREM TypeCorrect == Spec => []TypeOK
<1>1. IInv => TypeOK  BY DEF IInv
<1>. QED BY <1>1, Invariance, PTL

\* Two sign-ins never run at once.
THEOREM SignInExcludes == Spec => []OneSignIn
<1>1. IInv => OneSignIn  BY DEF IInv, MutexInv, Holding, OneSignIn
<1>. QED BY <1>1, Invariance, PTL

\* A sign-in completes only with the consent it asked for.
THEOREM OwnConsent == Spec => []OwnConsentOnly
<1>1. IInv => OwnConsentOnly  BY DEF IInv, ChannelInv, OwnConsentOnly
<1>. QED BY <1>1, Invariance, PTL

\* The source does not depend on the context of any call.
THEOREM SourceSurvives == Spec => []SourceOutlivesCall
<1>1. IInv => SourceOutlivesCall
  BY DistinctAssumption DEF IInv, TypeOK, SourceInv, SourceOutlivesCall
<1>. QED BY <1>1, Invariance, PTL

\* Once signed in, the user is never asked again and the source never changes.
THEOREM AskedOnce == Spec => ConsentOnce
<1>1. ASSUME IInv, Next, src # NoSource
      PROVE  src' = src /\ \A c \in Callers : pc'[c] = "signIn" => pc[c] = "signIn"
  <2>1. \A c \in Callers : ~ExchangeWorks(c)
    BY <1>1 DEF IInv, SourceInv, ExchangeWorks, Goto
  <2>2. \A c \in Callers : ~Goto(c, "held", "signIn") \/ ~NeedsSignIn
    BY <1>1 DEF NeedsSignIn
  <2>. QED
    BY <1>1, <2>1, <2>2
    DEF IInv, TypeOK, Next, Call, Local, Lock, BeginSignIn, SignedIn, SignInCancelled,
        TakeCode, SignInFails, Reuse, BeginRefresh, TokenEndpoint, ExchangeFails,
        RefreshWorks, RefreshFails, Cancel, Deliver, Expire, Revoke, Return, Goto, NeedsSignIn
<1>2. IInv /\ [Next]_vars =>
        [src # NoSource =>
          /\ src' = src
          /\ \A c \in Callers : pc'[c] = "signIn" => pc[c] = "signIn"]_vars
  BY <1>1
<1>. QED BY <1>2, Invariance, PTL DEF Spec, ConsentOnce

-----------------------------------------------------------------------------
(* Who waits for whom.                                                     *)

\* The guards of Local(c) for a caller that holds the mutex: it can go on by itself.
GoesOn(c) ==
    \/ pc[c] \in {"held", "source"}
    \/ pc[c] = "signIn" /\ (c \in ctxDone \/ resCh[c] # Empty)
    \/ pc[c] = "exchange" /\ c \in ctxDone

\* A result that has arrived is a code or a failure.
ResultInv == \A c \in Callers : resCh[c].full = FALSE => resCh[c] = Empty

LEMMA NextResultInv == IInv /\ ResultInv /\ [Next]_vars => ResultInv'
<1> SUFFICES ASSUME IInv, ResultInv, [Next]_vars PROVE ResultInv'
  OBVIOUS
<1>1. CASE UNCHANGED resCh
  BY <1>1 DEF ResultInv
<1>2. ASSUME NEW c \in Callers, NEW r \in Redirect, Deliver(c, r) PROVE ResultInv'
  <2>1. Verdict(c, r).full = TRUE
    BY DEF Verdict, Failure
  <2>. QED BY <1>2, <2>1 DEF Deliver, ResultInv, IInv, TypeOK
<1>. QED
  BY <1>1, <1>2
  DEF Next, Call, Local, Lock, BeginSignIn, SignedIn, SignInCancelled, TakeCode, SignInFails,
      Reuse, BeginRefresh, TokenEndpoint, ExchangeWorks, ExchangeFails, RefreshWorks,
      RefreshFails, Cancel, Expire, Revoke, vars

\* No error path of GoogleToken keeps the mutex: while it is taken, its holder can go
\* on by itself, or the process waits for the user or for the token endpoint.
HolderGoesOn ==
    mu # NoCaller => mu \in Callers /\ (GoesOn(mu) \/ External)

\* A sign-in that has its result knows what to do with it.
ResultIsRead ==
    \A c \in Callers :
        pc[c] = "signIn" /\ resCh[c] # Empty => resCh[c].code = c \/ resCh[c] = Failure

\* Callers block each other only as long as one of them has something to do, or the
\* user or Google has.
THEOREM NobodyIsStuck == Spec => [](HolderGoesOn /\ ResultIsRead)
<1>1. IInv /\ ResultInv => HolderGoesOn
  BY DEF IInv, TypeOK, MutexInv, Holding, HolderGoesOn, GoesOn, External
<1>2. IInv /\ ResultInv => ResultIsRead
  <2> SUFFICES ASSUME IInv, ResultInv, NEW c \in Callers, resCh[c] # Empty, resCh[c].code # c
               PROVE  resCh[c] = Failure
    BY DEF ResultIsRead
  <2>1. resCh[c] \in Result /\ resCh[c].code = NoCaller /\ resCh[c].full = TRUE
    BY DEF IInv, TypeOK, ChannelInv, ResultInv, Result
  <2>. QED BY <2>1 DEF Result, Failure
<1>3. Init => ResultInv
  BY DEF Init, ResultInv
<1>. QED BY <1>1, <1>2, <1>3, NextResultInv, Invariance, PTL DEF Spec
=============================================================================
