------------------------- MODULE HttpServerProofs --------------------------
(***************************************************************************)
(* The token cache by itself: isolation and sharing, for any set of        *)
(* requests and users.  The composed server takes only steps of its two    *)
(* halves, so what is proved of the cache and of the client holds in it;   *)
(* the halves together act as the right user, and keep the contract that   *)
(* the client keeps alone.                                                 *)
(***************************************************************************)
EXTENDS HttpServer, TLAPS

-----------------------------------------------------------------------------
(* The cache by itself. *)

\* The holder of the mutex is the one request in the critical section.
MutexInv == \A r \in Requests : pc[r] = "held" <=> mu = r

\* A cached source impersonates its key and depends on no request.
CacheInv ==
    \A u \in Users : sources[u] # NoSource =>
        sources[u].subject = u /\ sources[u].ctx = Background

\* What a request holds is what the cache holds for its user.
LocalInv ==
    \A r \in Requests :
        /\ pc[r] \in {"lock", "held", "mint", "minting"} => user[r] \in Users
        /\ pc[r] \in {"held", "mint", "minting"} => src[r] = sources[user[r]]
        /\ pc[r] \in {"mint", "minting"} => src[r] # NoSource
        /\ pc[r] # "done" => token[r] = NoUser

\* A minting request occupies its source alone.
BusyInv ==
    /\ \A r \in Requests : pc[r] = "minting" => src[r] \in busy
    /\ \A r, s \in Requests :
         pc[r] = "minting" /\ pc[s] = "minting" /\ src[r] = src[s] => r = s

IInv == TypeOK /\ MutexInv /\ CacheInv /\ LocalInv /\ BusyInv /\ TokenIsForCaller

LEMMA SourceTyping == \A s \in Source : s # NoSource
  BY DistinctAssumption DEF Source, NoSource

LEMMA InitIInv == Init => IInv
  BY DistinctAssumption
  DEF Init, IInv, TypeOK, MutexInv, CacheInv, LocalInv, BusyInv, TokenIsForCaller, PCs

LEMMA CallInv ==
    ASSUME IInv, NEW r \in Requests, NEW u \in Users \union {NoUser}, Call(r, u)
    PROVE  IInv'
<1>1. TypeOK'
  BY DEF IInv, TypeOK, Call, Goto, Return, PCs
<1>2. MutexInv' /\ CacheInv'
  BY DEF IInv, TypeOK, MutexInv, CacheInv, Call, Goto, Return
<1>3. LocalInv'
  <2>1. pc[r] = "idle" /\ pc'[r] \in {"lock", "done"} /\ (pc'[r] = "lock" => u \in Users)
    BY DEF IInv, TypeOK, Call, Goto, Return
  <2>2. user'[r] = u /\ UNCHANGED <<src, sources>> /\ token[r] = NoUser
        /\ (pc'[r] = "lock" => UNCHANGED token)
    BY <2>1 DEF IInv, TypeOK, LocalInv, Call, Goto, Return
  <2>3. \A q \in Requests \ {r} :
          pc'[q] = pc[q] /\ user'[q] = user[q] /\ token'[q] = token[q]
    BY DEF IInv, TypeOK, Call, Goto, Return
  <2>. QED BY <2>1, <2>2, <2>3 DEF IInv, LocalInv
<1>4. BusyInv'
  BY DEF IInv, TypeOK, BusyInv, Call, Goto, Return
<1>5. TokenIsForCaller'
  BY DEF IInv, TypeOK, TokenIsForCaller, LocalInv, Call, Goto, Return
<1>. QED BY <1>1, <1>2, <1>3, <1>4, <1>5 DEF IInv

LEMMA LockInv ==
    ASSUME IInv, NEW r \in Requests, Lock(r)
    PROVE  IInv'
<1>1. user[r] \in Users
  BY DEF IInv, LocalInv, Lock, Goto
<1>2. TypeOK'
  BY <1>1 DEF IInv, TypeOK, Lock, Cached, Goto, PCs
<1>3. MutexInv' /\ CacheInv'
  BY DistinctAssumption DEF IInv, TypeOK, MutexInv, CacheInv, Lock, MutexFree, Goto
<1>4. LocalInv' /\ BusyInv' /\ TokenIsForCaller'
  BY <1>1 DEF IInv, TypeOK, LocalInv, BusyInv, TokenIsForCaller, Lock, Cached, Goto
<1>. QED BY <1>2, <1>3, <1>4 DEF IInv

LEMMA HitInv ==
    ASSUME IInv, NEW r \in Requests, Hit(r)
    PROVE  IInv'
<1>1. TypeOK' /\ MutexInv' /\ CacheInv'
  BY DistinctAssumption DEF IInv, TypeOK, MutexInv, CacheInv, Hit, Goto, PCs
<1>2. LocalInv' /\ BusyInv' /\ TokenIsForCaller'
  BY DEF IInv, TypeOK, LocalInv, BusyInv, TokenIsForCaller, Hit, Goto
<1>. QED BY <1>1, <1>2 DEF IInv

LEMMA NewSourceTyping ==
    ASSUME NEW r \in Requests, user[r] \in Users
    PROVE  /\ NewSource(r) \in Source /\ NewSource(r) # NoSource
           /\ NewSource(r).subject = user[r] /\ NewSource(r).ctx = Background
  BY SourceTyping DEF NewSource, Source, RefreshContext

LEMMA MissInv ==
    ASSUME IInv, NEW r \in Requests, Miss(r)
    PROVE  IInv'
<1>1. pc[r] = "held" /\ mu = r /\ user[r] \in Users /\ sources[user[r]] = NoSource
  BY DEF IInv, MutexInv, LocalInv, Miss, Goto
<1> DEFINE s == NewSource(r)
<1>2. s \in Source /\ s # NoSource /\ s.subject = user[r] /\ s.ctx = Background
  BY <1>1, NewSourceTyping
<1> HIDE DEF s
<1>3. /\ src' = [src EXCEPT ![r] = s] /\ sources' = [sources EXCEPT ![user[r]] = s]
      /\ pc' = [pc EXCEPT ![r] = "mint"] /\ mu' = NoRequest
      /\ UNCHANGED <<user, fresh, busy, token, ctxDone>>
  BY DEF Miss, Goto, s
<1>4. TypeOK' /\ CacheInv' /\ TokenIsForCaller'
  BY <1>1, <1>2, <1>3 DEF IInv, TypeOK, CacheInv, TokenIsForCaller, PCs
<1>5. MutexInv'
  BY <1>1, <1>3, DistinctAssumption DEF IInv, TypeOK, MutexInv
\* No other request is past the lookup for this user: its source would be the
\* cached one, and there is none; nor is another one in the critical section.
<1>6. \A q \in Requests \ {r} :
        /\ pc[q] # "held"
        /\ pc[q] \in {"mint", "minting"} => user[q] # user[r]
  BY <1>1 DEF IInv, MutexInv, LocalInv
<1>7. LocalInv'
  BY <1>1, <1>2, <1>3, <1>6 DEF IInv, TypeOK, LocalInv
<1>8. BusyInv'
  BY <1>1, <1>3 DEF IInv, TypeOK, BusyInv
<1>. QED BY <1>4, <1>5, <1>7, <1>8 DEF IInv

LEMMA MissFailsInv ==
    ASSUME IInv, NEW r \in Requests, MissFails(r)
    PROVE  IInv'
<1>1. TypeOK' /\ MutexInv' /\ CacheInv'
  BY DistinctAssumption DEF IInv, TypeOK, MutexInv, CacheInv, MissFails, Return, Goto, PCs
<1>2. LocalInv' /\ BusyInv' /\ TokenIsForCaller'
  BY DEF IInv, TypeOK, LocalInv, BusyInv, TokenIsForCaller, MissFails, Return, Goto
<1>. QED BY <1>1, <1>2 DEF IInv

\* The source a request uses impersonates the request's own user.
LEMMA SourceOfCaller ==
    ASSUME IInv, NEW r \in Requests, pc[r] \in {"mint", "minting"}
    PROVE  src[r] \in Source /\ src[r].subject = user[r] /\ user[r] \in Users
  BY DEF IInv, TypeOK, CacheInv, LocalInv

LEMMA ReuseInv ==
    ASSUME IInv, NEW r \in Requests, Reuse(r)
    PROVE  IInv'
<1>1. src[r].subject = user[r] /\ user[r] \in Users
  BY SourceOfCaller DEF Reuse, Return, Goto
<1>2. TypeOK' /\ MutexInv' /\ CacheInv'
  BY <1>1 DEF IInv, TypeOK, MutexInv, CacheInv, Reuse, Return, Goto, PCs
<1>3. LocalInv' /\ BusyInv' /\ TokenIsForCaller'
  BY <1>1 DEF IInv, TypeOK, LocalInv, BusyInv, TokenIsForCaller, Reuse, Return, Goto
<1>. QED BY <1>2, <1>3 DEF IInv

LEMMA StartMintInv ==
    ASSUME IInv, NEW r \in Requests, StartMint(r)
    PROVE  IInv'
<1>1. src[r] \in Source /\ src[r] \notin busy
  BY SourceOfCaller DEF StartMint, Goto
<1>2. TypeOK' /\ MutexInv' /\ CacheInv'
  BY <1>1 DEF IInv, TypeOK, MutexInv, CacheInv, StartMint, Goto, PCs
<1>3. LocalInv' /\ BusyInv' /\ TokenIsForCaller'
  BY <1>1 DEF IInv, TypeOK, LocalInv, BusyInv, TokenIsForCaller, StartMint, Goto
<1>. QED BY <1>2, <1>3 DEF IInv

LEMMA MintInv ==
    ASSUME IInv, NEW r \in Requests, Mint(r)
    PROVE  IInv'
<1>1. src[r] \in Source /\ src[r].subject = user[r] /\ user[r] \in Users
  BY SourceOfCaller DEF Mint, MintWorks, MintFails, Return, Goto
<1>2. TypeOK' /\ MutexInv' /\ CacheInv'
  BY <1>1 DEF IInv, TypeOK, MutexInv, CacheInv, Mint, MintWorks, MintFails, Return, Goto, PCs
<1>3. LocalInv' /\ TokenIsForCaller'
  BY <1>1 DEF IInv, TypeOK, LocalInv, TokenIsForCaller, Mint, MintWorks, MintFails, Return, Goto
<1>4. BusyInv'
  BY DEF IInv, TypeOK, BusyInv, Mint, MintWorks, MintFails, Return, Goto
<1>. QED BY <1>2, <1>3, <1>4 DEF IInv

LEMMA EnvironmentInv ==
    ASSUME IInv,
           \/ \E r \in Requests : Cancel(r)
           \/ \E s \in fresh : Expire(s)
           \/ UNCHANGED vars
    PROVE  IInv'
  BY DEF IInv, TypeOK, MutexInv, CacheInv, LocalInv, BusyInv, TokenIsForCaller,
         Cancel, Expire, vars

LEMMA NextIInv == IInv /\ [Next]_vars => IInv'
  BY CallInv, LockInv, HitInv, MissInv, MissFailsInv, ReuseInv, StartMintInv, MintInv,
     EnvironmentInv DEF Next, Local

\* The inductive invariant of the cache holds in every reachable state.
THEOREM Invariance == Spec => []IInv
  BY InitIInv, NextIInv, PTL DEF Spec

\* Every variable keeps its type.
THEOREM TypeCorrect == Spec => []TypeOK
<1>1. IInv => TypeOK  BY DEF IInv
<1>. QED BY <1>1, Invariance, PTL

\* No request is ever handed a token that acts as someone else.
THEOREM Isolation == Spec => []TokenIsForCaller
<1>1. IInv => TokenIsForCaller  BY DEF IInv
<1>. QED BY <1>1, Invariance, PTL

\* Every request past the lookup uses the one cached source of its user.
THEOREM Sharing == Spec => []OneSourcePerUser
<1>1. IInv => OneSourcePerUser  BY DEF IInv, LocalInv, OneSourcePerUser
<1>. QED BY <1>1, Invariance, PTL

\* One user's token is never minted by two requests at once.
THEOREM SingleMint == Spec => []SingleMintPerUser
<1>1. IInv => SingleMintPerUser  BY DEF IInv, LocalInv, BusyInv, SingleMintPerUser
<1>. QED BY <1>1, Invariance, PTL

\* A cached source keeps working after the request that built it has ended.
THEOREM SourcesSurvive == Spec => []CachedSourceOutlivesRequest
<1>1. IInv => CachedSourceOutlivesRequest
  BY DistinctAssumption DEF IInv, TypeOK, CacheInv, CachedSourceOutlivesRequest
<1>. QED BY <1>1, Invariance, PTL

-----------------------------------------------------------------------------
(* Who waits for whom.                                                     *)

\* A source is occupied by a request that mints with it, never left occupied.
OwnedInv == \A s \in busy : \E r \in Requests : pc[r] = "minting" /\ src[r] = s

LEMMA NextOwnedInv == IInv /\ OwnedInv /\ [Next]_vars => OwnedInv'
<1> SUFFICES ASSUME IInv, OwnedInv, [Next]_vars PROVE OwnedInv'
  OBVIOUS
<1>1. ASSUME NEW r \in Requests, pc[r] # "minting", busy' = busy,
             \A q \in Requests \ {r} : pc'[q] = pc[q] /\ src'[q] = src[q]
      PROVE  OwnedInv'
  BY <1>1 DEF OwnedInv
<1>2. ASSUME NEW r \in Requests,
             \/ \E u \in Users \union {NoUser} : Call(r, u)
             \/ Lock(r) \/ Hit(r) \/ Miss(r) \/ MissFails(r) \/ Reuse(r)
      PROVE  OwnedInv'
  <2>1. /\ pc[r] # "minting" /\ busy' = busy
        /\ \A q \in Requests \ {r} : pc'[q] = pc[q] /\ src'[q] = src[q]
    BY <1>2 DEF Call, Lock, Hit, Miss, MissFails, Reuse, Goto, Return, IInv, TypeOK
  <2>. QED BY <1>1, <2>1
<1>3. ASSUME NEW r \in Requests, StartMint(r) PROVE OwnedInv'
  <2>1. /\ pc[r] = "mint" /\ pc'[r] = "minting" /\ busy' = busy \union {src[r]} /\ src' = src
        /\ \A q \in Requests \ {r} : pc'[q] = pc[q]
    BY <1>3 DEF StartMint, Goto, IInv, TypeOK
  <2>. QED BY <2>1 DEF OwnedInv
<1>4. ASSUME NEW r \in Requests, Mint(r) PROVE OwnedInv'
  <2>1. /\ busy' = busy \ {src[r]} /\ src' = src
        /\ \A q \in Requests \ {r} : pc'[q] = pc[q]
    BY <1>4 DEF Mint, MintWorks, MintFails, Goto, Return, IInv, TypeOK
  <2>. QED BY <2>1 DEF OwnedInv
<1>5. ASSUME \/ \E r \in Requests : Cancel(r)
             \/ \E s \in fresh : Expire(s)
             \/ UNCHANGED vars
      PROVE  OwnedInv'
  BY <1>5 DEF Cancel, Expire, vars, OwnedInv
<1>. QED BY <1>2, <1>3, <1>4, <1>5 DEF Next, Local

\* The mutex is held by a request inside the critical section, which never waits for
\* Google; and who waits for a source waits for a mint of its own user.
WaitsOnlyForOwnUser ==
    /\ mu # NoRequest => mu \in Requests /\ pc[mu] = "held"
    /\ \A r \in Requests : pc[r] = "mint" /\ src[r] \in busy =>
         \E q \in Requests : pc[q] = "minting" /\ user[q] = user[r]

LEMMA OwnWaits == IInv /\ OwnedInv => WaitsOnlyForOwnUser
<1> SUFFICES ASSUME IInv, OwnedInv PROVE WaitsOnlyForOwnUser
  OBVIOUS
<1>1. mu # NoRequest => mu \in Requests /\ pc[mu] = "held"
  BY DEF IInv, TypeOK, MutexInv
<1>2. ASSUME NEW r \in Requests, pc[r] = "mint", src[r] \in busy
      PROVE  \E q \in Requests : pc[q] = "minting" /\ user[q] = user[r]
  <2>1. PICK q \in Requests : pc[q] = "minting" /\ src[q] = src[r]
    BY <1>2 DEF OwnedInv
  <2>2. src[q].subject = user[q] /\ src[r].subject = user[r]
    BY <1>2, <2>1, SourceOfCaller
  <2>. QED BY <2>1, <2>2
<1>. QED BY <1>1, <1>2 DEF WaitsOnlyForOwnUser

-----------------------------------------------------------------------------
(* The cache in the server. *)

\* The calls move the cache only by its own steps.
LEMMA StepOfCache == [ServerNext]_serverVars => [Next]_vars
  BY DEF ServerNext, BeginCall, RejectCall, TokenStep, MintStep, TakeToken, ClientRuns,
         GoogleHandles, ContextEnds, TokenExpires, Next, serverVars

LEMMA InitOfCache == ServerInit => Init
  BY DEF ServerInit

\* The inductive invariant of the cache, with the calls around it.
THEOREM CacheInvariance == ServerSpec => []IInv
<1>1. ServerInit => IInv
  BY InitOfCache, InitIInv
<1>2. IInv /\ [ServerNext]_serverVars => IInv'
  BY StepOfCache, NextIInv
<1>. QED BY <1>1, <1>2, PTL DEF ServerSpec

\* The end of the tool call that built a source does not end the source.
THEOREM ServerSourcesSurvive == ServerSpec => []CachedSourceOutlivesRequest
<1>1. IInv => CachedSourceOutlivesRequest
  BY DistinctAssumption DEF IInv, TypeOK, CacheInv, CachedSourceOutlivesRequest
<1>. QED BY <1>1, CacheInvariance, PTL

\* However long Google takes over one user's token, no call of another user waits
\* for it: not at the mutex of the cache and not at a source.
THEOREM NoWaitForOthers == ServerSpec => []WaitsOnlyForOwnUser
<1>1. ServerInit => OwnedInv
  BY DEF ServerInit, Init, OwnedInv
<1>2. IInv /\ OwnedInv /\ [ServerNext]_serverVars => OwnedInv'
  BY StepOfCache, NextOwnedInv
<1>. QED BY <1>1, <1>2, OwnWaits, CacheInvariance, PTL DEF ServerSpec

-----------------------------------------------------------------------------
(* The calls in the server. *)

\* The proofs about the client; the lengths of its waits play no part here.
Calls == INSTANCE GapiClientProofs WITH
    Calls <- Requests,
    pc <- at,
    cancelled <- [r \in Requests |-> r \in ctxDone],
    MaxDuration <- 0, Second <- 0, BaseDelay <- 0, MaxDelay <- 0

\* Client and Calls are the same definitions over the same variables.
LEMMA SameInit == Client!Init => Calls!Init
  BY DEF Client!Init, Calls!Init, Client!NoAnswer, Calls!NoAnswer

LEMMA SameNext == Client!Next => Calls!Next
  BY DEF Client!Next, Client!Start, Client!AcquireToken, Client!ClientStep, Client!Send,
         Client!ContextLive, Client!TransportError, Client!Receive, Client!Verdict,
         Client!Retryable, Client!IsRateLimitReason, Client!ReasonOf, Client!RetriesLeft,
         Client!StatusOK, Client!BackoffElapsed, Client!BackoffCancelled, Client!Cancel,
         Client!Handle, Client!MayExecute, Client!MustExecute, Client!Goto, Client!Return,
         Client!NoAnswer,
         Calls!Next, Calls!Start, Calls!AcquireToken, Calls!ClientStep, Calls!Send,
         Calls!ContextLive, Calls!TransportError, Calls!Receive, Calls!Verdict,
         Calls!Retryable, Calls!IsRateLimitReason, Calls!ReasonOf, Calls!RetriesLeft,
         Calls!StatusOK, Calls!BackoffElapsed, Calls!BackoffCancelled, Calls!Cancel,
         Calls!Handle, Calls!MayExecute, Calls!MustExecute, Calls!Goto, Calls!Return,
         Calls!NoAnswer

\* What the client assumes of its constants is what the server assumes.
LEMMA SameAssumptions == MaxRetries \in Nat /\ Answers \subseteq Calls!Answer
  BY ClientAssumption
  DEF Client!Answer, Calls!Answer, Client!Statuses, Calls!Statuses, Client!Canonicals,
      Calls!Canonicals, Client!Legacies, Calls!Legacies

LEMMA SameTypes == Calls!TypeOK => Client!TypeOK
  BY DEF Client!TypeOK, Calls!TypeOK, Client!PCs, Calls!PCs, Client!Results, Calls!Results,
         Client!Attempts, Calls!Attempts, Client!NoAnswer, Calls!NoAnswer

-----------------------------------------------------------------------------
(* What ties the two halves together.                                      *)

\* The cache is at work for a call exactly while the call is in "token", and
\* whatever has been sent was sent with a token.
Link(r) ==
    /\ pc[r] = "idle" <=> at[r] = "idle" \/ result[r] = "badRequest"
    /\ pc[r] \notin {"idle", "done"} => at[r] = "token"
    /\ at[r] \in {"send", "await", "backoff"} => token[r] # NoUser
    /\ wire[r] \union executed[r] # {} => token[r] # NoUser

ServerInv == IInv /\ Calls!IInv /\ \A r \in Requests : Link(r)

LEMMA InitServerInv == ServerInit => ServerInv
<1>1. ServerInit => IInv /\ Calls!IInv
  <2>1. Calls!Init => Calls!IInv
    BY SameAssumptions, Calls!InitIInv
  <2>. QED BY <2>1, InitOfCache, InitIInv, SameInit DEF ServerInit
<1>2. ServerInit => \A r \in Requests : Link(r)
  BY DEF ServerInit, Init, Client!Init, Link
<1>. QED BY <1>1, <1>2 DEF ServerInv

\* The cache moves the calls only by ending their contexts.
LEMMA StepOfClient ==
    ASSUME ServerInv, [ServerNext]_serverVars
    PROVE  [Client!Next]_(Client!vars)
<1>1. ASSUME NEW r \in Requests,
             \/ \E u \in Users \union {NoUser} : BeginCall(r, u)
             \/ RejectCall(r) \/ TakeToken(r) \/ ClientRuns(r) \/ GoogleHandles(r)
      PROVE  Client!Next
  BY <1>1 DEF BeginCall, RejectCall, TakeToken, ClientRuns, GoogleHandles, Client!Next
<1>2. ASSUME NEW r \in Requests, ContextEnds(r) PROVE Client!Next
  <2>1. at[r] # "idle" /\ r \notin ctxDone /\ ctxDone' = ctxDone \union {r}
    BY <1>2 DEF ServerInv, Link, ContextEnds, Cancel
  <2>2. [q \in Requests |-> q \in ctxDone']
          = [[q \in Requests |-> q \in ctxDone] EXCEPT ![r] = TRUE]
    <3> DEFINE f == [q \in Requests |-> q \in ctxDone]
               g == [q \in Requests |-> q \in ctxDone']
    <3>1. \A q \in Requests \ {r} : q \in ctxDone' <=> q \in ctxDone
      BY <2>1
    <3>2. r \in ctxDone'
      BY <2>1
    <3>3. ASSUME NEW q \in Requests PROVE g[q] = [f EXCEPT ![r] = TRUE][q]
      <4>1. CASE q = r
        <5>1. (q \in ctxDone') = TRUE
          BY <3>2, <4>1
        <5>. QED BY <4>1, <5>1
      <4>2. CASE q # r
        <5>1. (q \in ctxDone') = (q \in ctxDone)
          BY <3>1, <4>2
        <5>2. [f EXCEPT ![r] = TRUE][q] = f[q]
          BY <4>2
        <5>. QED BY <5>1, <5>2
      <4>. QED BY <4>1, <4>2
    <3>4. DOMAIN g = Requests /\ DOMAIN [f EXCEPT ![r] = TRUE] = Requests
      OBVIOUS
    <3>. QED BY <3>3, <3>4, Zenon
  <2>3. Client!Cancel(r)
    BY <1>2, <2>1, <2>2 DEF ContextEnds, Client!Cancel, clientVars
  <2>. QED BY <2>3 DEF Client!Next
<1>3. ASSUME UNCHANGED <<ctxDone, clientVars>> PROVE UNCHANGED Client!vars
  BY <1>3 DEF Client!vars, clientVars
<1>4. ASSUME NEW r \in Requests, TokenStep(r) \/ MintStep(r)
      PROVE  UNCHANGED <<ctxDone, clientVars>>
  BY <1>4 DEF TokenStep, MintStep, Lock, Local, Hit, Miss, MissFails, Reuse, StartMint,
              Mint, MintWorks, MintFails
<1>5. ASSUME NEW s \in fresh, TokenExpires(s) PROVE UNCHANGED <<ctxDone, clientVars>>
  BY <1>5 DEF TokenExpires, Expire
<1>6. UNCHANGED serverVars => UNCHANGED <<ctxDone, clientVars>>
  BY DEF serverVars, vars
<1>. QED BY <1>1, <1>2, <1>3, <1>4, <1>5, <1>6 DEF ServerNext

\* The other requests keep what Link is about.
Fixed(q) ==
    /\ pc'[q] = pc[q] /\ at'[q] = at[q] /\ result'[q] = result[q]
    /\ token'[q] = token[q] /\ wire'[q] = wire[q] /\ executed'[q] = executed[q]

LEMMA FixedLink ==
    ASSUME NEW q, Link(q), Fixed(q)
    PROVE  Link(q)'
  BY DEF Link, Fixed

\* What the halves guarantee of the state a step starts from.
LEMMA Halves ==
    ASSUME ServerInv
    PROVE  /\ TypeOK /\ Client!TypeOK
           /\ \A r \in Requests :
                /\ Link(r)
                /\ pc[r] # "done" => token[r] = NoUser
                /\ at[r] = "done" <=> result[r] # "none"
                /\ at[r] \in {"idle", "token"} => wire[r] \union executed[r] = {}
  BY SameTypes
  DEF ServerInv, IInv, LocalInv, Calls!IInv, Calls!CallInv, Calls!WireInv, Calls!ExecutedInv,
      Calls!ControlInv

LEMMA BeginCallLink ==
    ASSUME ServerInv, NEW r \in Requests, NEW u \in Users \union {NoUser}, BeginCall(r, u)
    PROVE  Link(r)' /\ \A q \in Requests \ {r} : Fixed(q)
  BY Halves
  DEF BeginCall, Call, Goto, Return, Client!Start, Client!Goto, Client!Return, Link, Fixed,
      TypeOK, Client!TypeOK

LEMMA RejectCallLink ==
    ASSUME ServerInv, NEW r \in Requests, RejectCall(r)
    PROVE  Link(r)' /\ \A q \in Requests \ {r} : Fixed(q)
  BY Halves
  DEF RejectCall, vars, Client!Start, Client!Goto, Client!Return, Link, Fixed,
      TypeOK, Client!TypeOK

LEMMA TokenStepLink ==
    ASSUME ServerInv, NEW r \in Requests, TokenStep(r) \/ MintStep(r)
    PROVE  Link(r)' /\ \A q \in Requests \ {r} : Fixed(q)
<1>1. /\ pc[r] \notin {"idle", "done"} /\ pc'[r] # "idle"
      /\ UNCHANGED clientVars
      /\ \A q \in Requests \ {r} : pc'[q] = pc[q] /\ token'[q] = token[q]
  BY Halves
  DEF TokenStep, MintStep, Lock, Local, Hit, Miss, MissFails, Reuse, StartMint, Mint,
      MintWorks, MintFails, Goto, Return, TypeOK
<1>. QED BY <1>1, Halves DEF clientVars, Link, Fixed

LEMMA TakeTokenLink ==
    ASSUME ServerInv, NEW r \in Requests, TakeToken(r)
    PROVE  Link(r)' /\ \A q \in Requests \ {r} : Fixed(q)
  BY Halves
  DEF TakeToken, TokenTaken, vars, Client!AcquireToken, Client!Goto, Client!Return, Link,
      Fixed, TypeOK, Client!TypeOK

\* Once the loop runs, no result says that the arguments were at fault.
LEMMA ClientRunsLink ==
    ASSUME ServerInv, NEW r \in Requests, ClientRuns(r)
    PROVE  Link(r)' /\ \A q \in Requests \ {r} : Fixed(q)
<1>1. /\ at[r] \in {"send", "await", "backoff"} /\ at'[r] \notin {"idle", "token"}
      /\ result'[r] # "badRequest" \/ result'[r] = result[r]
      /\ UNCHANGED <<pc, token, executed>>
      /\ \A q \in Requests \ {r} :
           at'[q] = at[q] /\ result'[q] = result[q] /\ wire'[q] = wire[q]
  BY Halves
  DEF ClientRuns, vars, Client!ClientStep, Client!Send, Client!TransportError,
      Client!Receive, Client!Verdict, Client!BackoffElapsed, Client!BackoffCancelled,
      Client!Goto, Client!Return, Client!TypeOK
<1>. QED BY <1>1, Halves DEF Link, Fixed

LEMMA GoogleHandlesLink ==
    ASSUME ServerInv, NEW r \in Requests, GoogleHandles(r)
    PROVE  Link(r)' /\ \A q \in Requests \ {r} : Fixed(q)
  BY Halves DEF GoogleHandles, vars, Client!Handle, Link, Fixed, TypeOK, Client!TypeOK

LEMMA NextServerInv == ServerInv /\ [ServerNext]_serverVars => ServerInv'
<1> SUFFICES ASSUME ServerInv, [ServerNext]_serverVars PROVE ServerInv'
  OBVIOUS
<1>1. IInv'
  BY StepOfCache, NextIInv DEF ServerInv
<1>2. Calls!IInv'
  <2>1. Calls!Next \/ UNCHANGED Calls!vars
    BY StepOfClient, SameNext DEF Client!vars, Calls!vars
  <2>. QED BY SameAssumptions, <2>1, Calls!NextIInv DEF ServerInv
<1>3. ASSUME NEW r \in Requests, Link(r)' /\ \A q \in Requests \ {r} : Fixed(q)
      PROVE  \A q \in Requests : Link(q)'
  BY <1>3, FixedLink DEF ServerInv
<1>4. ASSUME \A q \in Requests : Fixed(q) PROVE \A q \in Requests : Link(q)'
  BY <1>4, FixedLink DEF ServerInv
<1>5. ASSUME \/ \E r \in Requests : ContextEnds(r)
             \/ \E s \in fresh : TokenExpires(s)
             \/ UNCHANGED serverVars
      PROVE  \A q \in Requests : Fixed(q)
  BY <1>5 DEF ContextEnds, Cancel, TokenExpires, Expire, clientVars, vars, serverVars, Fixed
<1>6. \A q \in Requests : Link(q)'
  BY <1>3, <1>4, <1>5, BeginCallLink, RejectCallLink, TokenStepLink, TakeTokenLink,
     ClientRunsLink, GoogleHandlesLink DEF ServerNext
<1>. QED BY <1>1, <1>2, <1>6 DEF ServerInv

\* The inductive invariant of the server.
THEOREM ServerInvariance == ServerSpec => []ServerInv
  BY InitServerInv, NextServerInv, PTL DEF ServerSpec

-----------------------------------------------------------------------------

\* Cache and calls keep their types and agree on how far each request is.
THEOREM ServerTypeCorrect == ServerSpec => []ServerTypeOK
<1>1. ServerInv => ServerTypeOK
  BY Halves DEF ServerTypeOK, Link
<1>. QED BY <1>1, ServerInvariance, PTL

\* However many requests of other users share the client and the cache, Google
\* acts as the user on the request's own context.
THEOREM ActingUser == ServerSpec => []ActsAsOwnUser
<1>1. ServerInv => ActsAsOwnUser
  BY Halves DEF ServerInv, IInv, TypeOK, TokenIsForCaller, Link, ActsAsOwnUser
<1>. QED BY <1>1, ServerInvariance, PTL

\* A call whose context is done sends nothing more, whatever the cache does for it.
THEOREM EndedCallsAreSilent == ServerSpec => NothingSentAfterEnd
<1>1. ServerInv /\ [ServerNext]_serverVars =>
        [\A r \in Requests : r \in ctxDone => wire'[r] \subseteq wire[r]]_serverVars
  <2> SUFFICES ASSUME ServerInv, ServerNext, NEW r \in Requests, r \in ctxDone
               PROVE  wire'[r] \subseteq wire[r]
    OBVIOUS
  <2>1. Client!Next \/ UNCHANGED Client!vars
    BY StepOfClient
  <2>2. CASE UNCHANGED Client!vars
    BY <2>2 DEF Client!vars
  <2>3. ASSUME NEW q \in Requests, Client!Send(q) PROVE q \notin ctxDone
    BY <2>3 DEF Client!Send, Client!ContextLive
  <2>4. ASSUME NEW q \in Requests, Client!Send(q) PROVE wire'[r] \subseteq wire[r]
    BY <2>3, <2>4, Halves DEF Client!Send, Client!TypeOK
  <2>5. ASSUME NEW q \in Requests, NEW n \in wire[q], NEW a \in Answers,
               NEW done \in BOOLEAN, Client!Handle(q, n, a, done)
        PROVE  wire'[r] \subseteq wire[r]
    BY <2>5, Halves DEF Client!Handle, Client!TypeOK
  <2>6. ASSUME NEW q \in Requests,
               \/ Client!Start(q) \/ Client!AcquireToken(q) \/ Client!TransportError(q)
               \/ Client!Receive(q) \/ Client!BackoffElapsed(q)
               \/ Client!BackoffCancelled(q) \/ Client!Cancel(q)
        PROVE  wire' = wire
    BY <2>6
    DEF Client!Start, Client!AcquireToken, Client!TransportError, Client!Receive,
        Client!BackoffElapsed, Client!BackoffCancelled, Client!Cancel
  <2>. QED BY <2>1, <2>2, <2>4, <2>5, <2>6 DEF Client!Next, Client!ClientStep
<1>. QED BY <1>1, ServerInvariance, PTL DEF ServerSpec, NothingSentAfterEnd

\* The server runs its client as the client is specified: every safety property of
\* GapiClient holds of the calls of the server.
THEOREM ServerRunsClient == ServerSpec => Client!Init /\ [][Client!Next]_(Client!vars)
<1>1. ServerInit => Client!Init
  BY DEF ServerInit
<1>2. ServerInv /\ [ServerNext]_serverVars => [Client!Next]_(Client!vars)
  BY StepOfClient
<1>. QED BY <1>1, <1>2, ServerInvariance, PTL DEF ServerSpec

LEMMA SameAnswers ==
    Calls!IInv => Client!DuplicateOnlyAfterUnavailable /\ Client!RefusedMeansUntouched
<1>1. Calls!IInv => Client!DuplicateOnlyAfterUnavailable
  BY DEF Calls!IInv, Calls!CallInv, Calls!ExecutedInv, Client!DuplicateOnlyAfterUnavailable
<1>2. Calls!IInv => Calls!RefusedMeansUntouched
  BY SameAssumptions, Calls!RefusedUntouched
<1>3. Calls!RefusedMeansUntouched => Client!RefusedMeansUntouched
  BY DEF Calls!RefusedMeansUntouched, Client!RefusedMeansUntouched, Client!Refused,
         Calls!Refused
<1>. QED BY <1>1, <1>2, <1>3

\* The answers of the server's calls mean what the client says they mean: nothing was
\* carried out twice but for a 503, and what is reported refused is not done and
\* never will be, whichever user it was for.
THEOREM ServerAnswersAreTrue ==
    ServerSpec => [](Client!DuplicateOnlyAfterUnavailable /\ Client!RefusedMeansUntouched)
<1>1. ServerInv => Client!DuplicateOnlyAfterUnavailable /\ Client!RefusedMeansUntouched
  BY SameAnswers DEF ServerInv
<1>. QED BY <1>1, ServerInvariance, PTL

\* The server keeps the contract of module Operation with every tool that calls
\* Google: through the cache, with all users on one client.
THEOREM ServerKeepsContract == ServerSpec => Calls!Contract!Spec
<1>1. ServerInit => Calls!Contract!Init
  BY SameAssumptions, Calls!InitImplements, SameInit DEF ServerInit
<1>2. ServerInv /\ ServerInv' /\ [ServerNext]_serverVars
        => [Calls!Contract!Next]_(Calls!Contract!vars)
  <2>1. ServerInv /\ [ServerNext]_serverVars => Calls!Next \/ UNCHANGED Calls!vars
    BY StepOfClient, SameNext DEF Client!vars, Calls!vars
  <2>2. Calls!IInv /\ Calls!IInv' /\ [Calls!Next]_(Calls!vars)
          => [Calls!Contract!Next]_(Calls!Contract!vars)
    BY SameAssumptions, Calls!StepImplements
  <2>. QED BY <2>1, <2>2 DEF ServerInv
<1>. QED BY <1>1, <1>2, ServerInvariance, PTL DEF ServerSpec, Calls!Contract!Spec
=============================================================================
