------------------------ MODULE ResourceServerProofs ------------------------
(***************************************************************************)
(* Who a request acts for, for any set of requests, sessions, tokens and   *)
(* issuers.                                                                *)
(***************************************************************************)
EXTENDS ResourceServer, TLAPS

Infos == [userID : STRING, googleUser : STRING]
Deeds == [as : STRING \union Targets, actor : STRING]

\* The records a request and a session hold.
RecordTypes ==
    /\ info \in [Requests -> Infos \union {None}]
    /\ opened \in [Sessions -> Infos \union {None}]
    /\ acted \in [Requests -> Deeds \union {None}]

\* Past verification a request holds what its own, verified, token says.
IdentityInv(r) ==
    /\ pc[r] = "verify" => bearer[r] \in Bearers
    /\ pc[r] \in {"session", "tool", "answer"} =>
         /\ bearer[r] \in Bearers
         /\ Verified(bearer[r])
         /\ info[r] = TokenInfo(bearer[r])

\* The session of a request under way is open, for the subject of the request.
SessionInv(r) ==
    pc[r] \in {"tool", "answer"} =>
        /\ session[r] \in Sessions
        /\ opened[session[r]] # None
        /\ opened[session[r]].userID \in {"", info[r].userID}

\* What a request has done it has done as its token says; a request that was killed
\* keeps its token.
DeedInv(r) ==
    acted[r] # None =>
        /\ pc[r] \in {"answer", "killed"}
        /\ bearer[r] \in Bearers
        /\ Verified(bearer[r])
        /\ acted[r].actor = GoogleUser(bearer[r])
        /\ target[r] = None => acted[r].as = acted[r].actor

\* A session with a UserID was opened by a token of that subject.
OpenedInv == \A s \in Sessions : opened[s] # None => \E b \in Bearers : opened[s].userID = b.sub

IInv ==
    /\ TypeOK
    /\ RecordTypes
    /\ OpenedInv
    /\ \A r \in Requests : IdentityInv(r) /\ SessionInv(r) /\ DeedInv(r)

LEMMA InitIInv == Init => IInv
<1> SUFFICES ASSUME Init PROVE IInv
  OBVIOUS
<1>1. TypeOK /\ RecordTypes /\ OpenedInv
  BY DEF Init, TypeOK, RecordTypes, OpenedInv, PCs
<1>2. \A r \in Requests : IdentityInv(r) /\ SessionInv(r) /\ DeedInv(r)
  BY DEF Init, IdentityInv, SessionInv, DeedInv
<1>. QED BY <1>1, <1>2 DEF IInv

\* The claim a token is mapped by, and what it is mapped to.
LEMMA TokenTyping ==
    ASSUME NEW b \in Bearers
    PROVE  /\ b.sub \in STRING /\ GoogleUser(b) \in STRING
           /\ TokenInfo(b) \in Infos /\ TokenInfo(b) # None
           /\ TokenInfo(b).userID = b.sub /\ TokenInfo(b).googleUser = GoogleUser(b)
<1>1. b \in Bearer
  BY BearersAssumption
<1>2. b.sub \in STRING /\ b.email \in STRING /\ b.upn \in STRING
  BY <1>1 DEF Bearer
<1>3. GoogleUser(b) \in STRING
  BY <1>2 DEF GoogleUser
<1>. QED BY <1>2, <1>3, NoneAssumption DEF TokenInfo, Infos

\* The one who opened a token to verify it trusted its issuer.
LEMMA VerifiedMeans ==
    ASSUME NEW b \in Bearers, Verified(b)
    PROVE  /\ b.signer \in Issuers /\ b.iss = b.signer /\ b.ours
           /\ GoogleUser(b) # "" /\ EmailAcceptable(b)
<1>1. CASE Cardinality(Issuers) = 1
  <2>1. (CHOOSE i \in Issuers : TRUE) \in Issuers
    BY IssuersAssumption
  <2>. QED BY <1>1, <2>1 DEF Verified, VerifierFor, Genuine
<1>2. CASE Cardinality(Issuers) # 1
  BY <1>2 DEF Verified, VerifierFor, Genuine
<1>. QED BY <1>1, <1>2

-----------------------------------------------------------------------------
(* One lemma per action: the parts about the acting request; the others    *)
(* keep their state.                                                       *)

Untouched(q) ==
    /\ pc'[q] = pc[q] /\ bearer'[q] = bearer[q] /\ session'[q] = session[q]
    /\ target'[q] = target[q] /\ info'[q] = info[q] /\ acted'[q] = acted[q]

RequestInv(r) == IdentityInv(r) /\ SessionInv(r) /\ DeedInv(r)

\* Sessions may be opened but none is closed or given to somebody else.
SessionsKept == \A s \in Sessions : opened[s] # None => opened'[s] = opened[s]

LEMMA UntouchedInv ==
    ASSUME NEW q, RequestInv(q), Untouched(q), SessionsKept, UNCHANGED config
    PROVE  RequestInv(q)'
<1>1. /\ Verified(bearer[q])' = Verified(bearer[q])
      /\ TokenInfo(bearer[q])' = TokenInfo(bearer[q])
      /\ GoogleUser(bearer[q])' = GoogleUser(bearer[q])
  BY DEF Untouched, config, Verified, GoogleUser, EmailAcceptable, TokenInfo
<1>2. IdentityInv(q)'
  BY <1>1 DEF RequestInv, IdentityInv, Untouched
<1>3. SessionInv(q)'
  BY DEF RequestInv, SessionInv, Untouched, SessionsKept
<1>4. DeedInv(q)'
  BY <1>1 DEF RequestInv, DeedInv, Untouched
<1>. QED BY <1>2, <1>3, <1>4 DEF RequestInv

\* The step of a request, and what has to be shown of it.
Preserved(r) ==
    /\ TypeOK' /\ RecordTypes' /\ OpenedInv' /\ RequestInv(r)'
    /\ SessionsKept /\ UNCHANGED config
    /\ \A q \in Requests \ {r} : Untouched(q)

LEMMA ArriveInv ==
    ASSUME IInv, NEW r \in Requests, NEW b \in Bearers, NEW s \in Sessions \union {None},
           NEW t \in Targets \union {None}, Arrive(r, b, s, t)
    PROVE  Preserved(r)
<1>1. TypeOK' /\ RecordTypes' /\ OpenedInv'
  BY DEF IInv, TypeOK, RecordTypes, OpenedInv, Arrive, Goto, PCs, config
<1>2. pc'[r] = "verify" /\ acted'[r] = None /\ bearer'[r] \in Bearers
  BY DEF IInv, TypeOK, DeedInv, Arrive, Goto
<1>3. SessionsKept /\ UNCHANGED config /\ \A q \in Requests \ {r} : Untouched(q)
  BY DEF IInv, TypeOK, Arrive, Goto, SessionsKept, Untouched
<1>. QED BY <1>1, <1>2, <1>3 DEF Preserved, RequestInv, IdentityInv, SessionInv, DeedInv

\* An answered request is forgotten.
LEMMA RespondInv ==
    ASSUME IInv, NEW r \in Requests, NEW from, NEW code \in {200, 401, 403, 404},
           Respond(r, from, code), UNCHANGED <<config, process, grace, opened>>
    PROVE  Preserved(r)
<1>1. TypeOK' /\ RecordTypes' /\ OpenedInv'
  BY DEF IInv, TypeOK, RecordTypes, OpenedInv, Respond, Forget, Goto, PCs, config
<1>2. pc'[r] = "idle" /\ acted'[r] = None
  BY DEF IInv, TypeOK, RecordTypes, Respond, Forget, Goto
<1>3. SessionsKept /\ \A q \in Requests \ {r} : Untouched(q)
  BY DEF IInv, TypeOK, RecordTypes, Respond, Forget, Goto, SessionsKept, Untouched
<1>. QED BY <1>1, <1>2, <1>3 DEF Preserved, RequestInv, IdentityInv, SessionInv, DeedInv

LEMMA VerifyInv ==
    ASSUME IInv, NEW r \in Requests, Verify(r)
    PROVE  Preserved(r)
<1>1. CASE Respond(r, "verify", 401)
  BY <1>1, RespondInv DEF Verify
<1>2. CASE ~Respond(r, "verify", 401)
  <2> DEFINE b == bearer[r]
  <2>1. /\ pc[r] = "verify" /\ pc' = [pc EXCEPT ![r] = "session"]
        /\ info' = [info EXCEPT ![r] = TokenInfo(b)]
        /\ UNCHANGED <<bearer, session, target, acted, status, config, process, grace, opened>>
        /\ b \in Bearers /\ Verified(b)
    BY <1>2 DEF Verify, Goto, IInv, IdentityInv
  <2>2. TokenInfo(b) \in Infos /\ TokenInfo(b) # None
    BY <2>1, TokenTyping
  <2>3. TypeOK' /\ RecordTypes' /\ OpenedInv'
    BY <2>1, <2>2 DEF IInv, TypeOK, RecordTypes, OpenedInv, PCs, config
  <2>4. Verified(b)' /\ TokenInfo(b)' = TokenInfo(b)
    BY <2>1 DEF config, Verified, GoogleUser, EmailAcceptable, TokenInfo
  <2>5. RequestInv(r)'
    <3>1. pc'[r] = "session" /\ info'[r] = TokenInfo(b) /\ bearer'[r] = b
      BY <2>1 DEF IInv, TypeOK, RecordTypes
    <3>2. acted'[r] = None
      BY <2>1 DEF IInv, DeedInv
    <3>. QED BY <2>1, <2>4, <3>1, <3>2 DEF RequestInv, IdentityInv, SessionInv, DeedInv
  <2>6. SessionsKept /\ \A q \in Requests \ {r} : Untouched(q)
    BY <2>1 DEF IInv, TypeOK, RecordTypes, SessionsKept, Untouched
  <2>. QED BY <2>1, <2>3, <2>5, <2>6 DEF Preserved
<1>. QED BY <1>1, <1>2

\* A session that is opened belongs to the subject who opens it.
LEMMA OpenSessionInv ==
    ASSUME IInv, NEW r \in Requests, NEW s \in Sessions, OpenSession(r, s)
    PROVE  Preserved(r)
<1>1. /\ pc[r] = "session" /\ opened[s] = None
      /\ bearer[r] \in Bearers /\ Verified(bearer[r]) /\ info[r] = TokenInfo(bearer[r])
  BY DEF OpenSession, Goto, IInv, IdentityInv
<1>2. info[r] \in Infos /\ info[r] # None /\ info[r].userID = bearer[r].sub
  BY <1>1, TokenTyping
<1>3. TypeOK'
  <2>1. \A q \in Requests : pc'[q] \in {"session", "tool", "answer"} => info'[q] # None
    BY <1>1, <1>2 DEF OpenSession, Goto, IInv, TypeOK
  <2>2. ASSUME NEW q \in Requests, pc'[q] \in {"tool", "answer"}
        PROVE  opened'[session'[q]] # None
    <3>1. \A x \in Sessions : opened'[x] = IF x = s THEN info[r] ELSE opened[x]
      BY DEF OpenSession, IInv, RecordTypes
    <3>2. CASE q = r
      <4>1. session'[r] = s
        BY DEF OpenSession, IInv, TypeOK
      <4>. QED BY <1>2, <3>1, <3>2, <4>1
    <3>3. CASE q # r
      <4>1. pc'[q] = pc[q] /\ session'[q] = session[q]
        BY <3>3 DEF OpenSession, Goto, IInv, TypeOK
      <4>2. session[q] \in Sessions /\ opened[session[q]] # None
        BY <2>2, <4>1 DEF IInv, SessionInv
      <4>. QED BY <1>2, <3>1, <4>1, <4>2
    <3>. QED BY <3>2, <3>3
  <2>. QED BY <2>1, <2>2 DEF OpenSession, Goto, IInv, TypeOK, PCs, config
<1>4. RecordTypes' /\ OpenedInv'
  BY <1>1, <1>2 DEF OpenSession, IInv, RecordTypes, OpenedInv
<1>5. Verified(bearer[r])' /\ TokenInfo(bearer[r])' = TokenInfo(bearer[r])
  BY <1>1 DEF OpenSession, config, Verified, GoogleUser, EmailAcceptable, TokenInfo
<1>6. RequestInv(r)'
  <2>1. pc'[r] = "tool" /\ session'[r] = s /\ opened'[s] = info[r]
        /\ UNCHANGED <<bearer, info, acted>>
    BY DEF OpenSession, Goto, IInv, TypeOK, RecordTypes
  <2>2. acted[r] = None
    BY <1>1 DEF IInv, DeedInv
  <2>. QED BY <1>1, <1>2, <1>5, <2>1, <2>2 DEF RequestInv, IdentityInv, SessionInv, DeedInv
<1>7. SessionsKept /\ UNCHANGED config /\ \A q \in Requests \ {r} : Untouched(q)
  BY <1>1 DEF OpenSession, Goto, IInv, TypeOK, RecordTypes, SessionsKept, Untouched
<1>. QED BY <1>3, <1>4, <1>6, <1>7 DEF Preserved

LEMMA JoinSessionInv ==
    ASSUME IInv, NEW r \in Requests, JoinSession(r)
    PROVE  Preserved(r)
<1> DEFINE s == session[r]
<1>1. CASE Respond(r, "session", 404) \/ Respond(r, "session", 403)
  BY <1>1, RespondInv DEF JoinSession
<1>2. CASE ~(Respond(r, "session", 404) \/ Respond(r, "session", 403))
  <2>1. /\ pc[r] = "session" /\ pc' = [pc EXCEPT ![r] = "tool"]
        /\ s # None /\ opened[s] # None /\ Matches(r, s)
        /\ UNCHANGED <<bearer, session, target, info, acted, status, config, process, grace,
                       opened>>
    BY <1>2 DEF JoinSession, Goto
  <2>2. s \in Sessions /\ info[r] # None
    BY <2>1 DEF IInv, TypeOK
  <2>3. TypeOK' /\ RecordTypes' /\ OpenedInv'
    BY <2>1, <2>2 DEF IInv, TypeOK, RecordTypes, OpenedInv, PCs, config
  <2>4. Verified(bearer[r])' /\ TokenInfo(bearer[r])' = TokenInfo(bearer[r])
    BY <2>1 DEF config, Verified, GoogleUser, EmailAcceptable, TokenInfo, IInv, IdentityInv
  <2>5. RequestInv(r)'
    <3>1. IdentityInv(r)'
      BY <2>1, <2>4 DEF IInv, TypeOK, IdentityInv
    <3>2. SessionInv(r)'
      BY <2>1, <2>2 DEF IInv, TypeOK, SessionInv, Matches
    <3>3. DeedInv(r)'
      BY <2>1 DEF IInv, TypeOK, DeedInv
    <3>. QED BY <3>1, <3>2, <3>3 DEF RequestInv
  <2>6. SessionsKept /\ \A q \in Requests \ {r} : Untouched(q)
    BY <2>1 DEF IInv, TypeOK, RecordTypes, SessionsKept, Untouched
  <2>. QED BY <2>1, <2>3, <2>5, <2>6 DEF Preserved
<1>. QED BY <1>1, <1>2

LEMMA CallToolInv ==
    ASSUME IInv, NEW r \in Requests, CallTool(r)
    PROVE  Preserved(r)
<1> DEFINE user == GoogleUser(bearer[r])
<1>1. pc[r] = "tool" /\ pc' = [pc EXCEPT ![r] = "answer"]
      /\ UNCHANGED <<config, process, grace, bearer, session, target, info, status, opened>>
  BY DEF CallTool, Goto
<1>2. bearer[r] \in Bearers /\ Verified(bearer[r]) /\ UserOnContext(r) = user
      /\ user \in STRING
  BY <1>1, TokenTyping DEF IInv, IdentityInv, UserOnContext
<1>3. /\ acted'[r] \in Deeds /\ acted'[r].actor = user
      /\ target[r] = None => acted'[r].as = user
      /\ acted' \in [Requests -> Deeds \union {None}]
      /\ \A q \in Requests \ {r} : acted'[q] = acted[q]
  <2> DEFINE deed == [as |-> IF target[r] = None THEN user ELSE target[r], actor |-> user]
  <2>1. acted' = [acted EXCEPT ![r] = deed]
    BY <1>2 DEF CallTool, Actor
  <2>2. deed \in Deeds
    BY <1>2 DEF IInv, TypeOK, Deeds
  <2>3. acted \in [Requests -> Deeds \union {None}]
    BY DEF IInv, RecordTypes
  <2>. QED BY <2>1, <2>2, <2>3
<1>4. TypeOK'
  BY <1>1 DEF IInv, TypeOK, PCs, config
<1>5. RecordTypes' /\ OpenedInv'
  BY <1>1, <1>3 DEF IInv, RecordTypes, OpenedInv
<1>6. pc'[r] = "answer"
  BY <1>1 DEF IInv, TypeOK
<1>7. IdentityInv(r)' /\ SessionInv(r)'
  BY <1>1, <1>6
  DEF IInv, IdentityInv, SessionInv, config, Verified, GoogleUser, EmailAcceptable, TokenInfo
<1>8. DeedInv(r)'
  BY <1>1, <1>2, <1>3, <1>6
  DEF DeedInv, config, Verified, GoogleUser, EmailAcceptable
<1>9. SessionsKept /\ \A q \in Requests \ {r} : Untouched(q)
  BY <1>1, <1>3 DEF IInv, TypeOK, SessionsKept, Untouched
<1>. QED BY <1>1, <1>4, <1>5, <1>7, <1>8, <1>9 DEF Preserved, RequestInv

LEMMA ServeInv ==
    ASSUME IInv, NEW r \in Requests, Serve(r)
    PROVE  Preserved(r)
<1>1. CASE Answer(r)
  BY <1>1, RespondInv DEF Answer
<1>. QED BY <1>1, VerifyInv, OpenSessionInv, JoinSessionInv, CallToolInv DEF Serve

\* Only a session without a request under way is closed.
LEMMA CloseSessionInv ==
    ASSUME IInv, NEW s \in Sessions, CloseSession(s)
    PROVE  IInv'
<1>1. \A r \in Requests : pc[r] \in {"tool", "answer"} => session[r] # s
  BY DEF CloseSession, InFlight
<1>2. opened' = [opened EXCEPT ![s] = None] /\ opened \in [Sessions -> Infos \union {None}]
      /\ UNCHANGED <<config, process, grace, pc, bearer, session, target, info, acted, status>>
  BY DEF CloseSession, IInv, RecordTypes
<1>3. TypeOK' /\ RecordTypes' /\ OpenedInv'
  <2>1. TypeOK'
    <3>1. ASSUME NEW r \in Requests, pc[r] \in {"tool", "answer"}
          PROVE  opened'[session[r]] # None
      BY <1>1, <1>2, <3>1 DEF IInv, SessionInv
    <3>. QED BY <1>2, <3>1 DEF IInv, TypeOK, config
  <2>2. RecordTypes' /\ OpenedInv'
    BY <1>2 DEF IInv, RecordTypes, OpenedInv
  <2>. QED BY <2>1, <2>2
<1>4. ASSUME NEW r \in Requests PROVE RequestInv(r)'
  <2>1. /\ Verified(bearer[r])' = Verified(bearer[r])
        /\ TokenInfo(bearer[r])' = TokenInfo(bearer[r])
        /\ GoogleUser(bearer[r])' = GoogleUser(bearer[r])
    BY <1>2 DEF config, Verified, GoogleUser, EmailAcceptable, TokenInfo
  <2>2. IdentityInv(r)'
    BY <1>2, <2>1 DEF IInv, IdentityInv
  <2>3. SessionInv(r)'
    BY <1>1, <1>2 DEF IInv, SessionInv
  <2>4. DeedInv(r)'
    BY <1>2, <2>1 DEF IInv, DeedInv
  <2>. QED BY <2>2, <2>3, <2>4 DEF RequestInv
<1>. QED BY <1>3, <1>4 DEF IInv, RequestInv

\* A request that is killed is in none of the phases the invariants are about.
LEMMA ExitInv ==
    ASSUME IInv, Exit
    PROVE  IInv'
<1>1. /\ \A r \in Requests :
           pc'[r] = IF pc[r] \notin {"idle", "killed"} THEN "killed" ELSE pc[r]
      /\ pc' \in [Requests -> PCs] /\ process' = "exited"
      /\ UNCHANGED <<config, grace, bearer, session, target, info, acted, status, opened>>
  BY DEF Exit, InFlight, IInv, TypeOK, PCs
<1>2. TypeOK' /\ RecordTypes' /\ OpenedInv'
  BY <1>1 DEF IInv, TypeOK, RecordTypes, OpenedInv, config
<1>3. ASSUME NEW r \in Requests PROVE RequestInv(r)'
  BY <1>1
  DEF IInv, RequestInv, IdentityInv, SessionInv, DeedInv, config, Verified, GoogleUser,
      EmailAcceptable, TokenInfo
<1>. QED BY <1>2, <1>3 DEF IInv, RequestInv

LEMMA QuietInv ==
    ASSUME IInv, Interrupt \/ GraceOver \/ UNCHANGED vars
    PROVE  IInv'
<1>1. /\ process' \in {"serving", "closing", "exited"} /\ grace' \in BOOLEAN
      /\ UNCHANGED <<config, pc, bearer, session, target, info, acted, status, opened>>
  BY DEF Interrupt, GraceOver, vars, IInv, TypeOK
<1>2. TypeOK' /\ RecordTypes' /\ OpenedInv'
  BY <1>1 DEF IInv, TypeOK, RecordTypes, OpenedInv, config
<1>3. ASSUME NEW r \in Requests PROVE RequestInv(r)'
  BY <1>1
  DEF IInv, RequestInv, IdentityInv, SessionInv, DeedInv, config, Verified, GoogleUser,
      EmailAcceptable, TokenInfo
<1>. QED BY <1>2, <1>3 DEF IInv, RequestInv

LEMMA NextIInv == IInv /\ [Next]_vars => IInv'
<1> SUFFICES ASSUME IInv, [Next]_vars PROVE IInv'
  OBVIOUS
<1>1. ASSUME NEW r \in Requests, Preserved(r) PROVE IInv'
  <2>1. ASSUME NEW q \in Requests \ {r} PROVE RequestInv(q)'
    BY <1>1, UntouchedInv DEF Preserved, IInv, RequestInv
  <2>. QED BY <1>1, <2>1 DEF Preserved, IInv, RequestInv
<1>. QED BY <1>1, ArriveInv, ServeInv, CloseSessionInv, ExitInv, QuietInv DEF Next

-----------------------------------------------------------------------------

\* The inductive invariant holds in every reachable state.
THEOREM Invariance == Spec => []IInv
  BY InitIInv, NextIInv, PTL DEF Spec

\* Every variable keeps its type, and a tool runs verified and in an open session.
THEOREM TypeCorrect == Spec => []TypeOK
<1>1. IInv => TypeOK  BY DEF IInv
<1>. QED BY <1>1, Invariance, PTL

\* Nobody acts without a token that a trusted issuer signed for this server.
THEOREM TrustedOnly == Spec => []OnlyTrustedActs
<1>1. IInv => OnlyTrustedActs
  BY VerifiedMeans DEF IInv, DeedInv, OnlyTrustedActs, HasActed, EmailAcceptable, ClaimIsTrue
<1>. QED BY <1>1, Invariance, PTL

\* Whatever session it joins, a request acts as, and is logged as, the user of its
\* own token.
THEOREM ActingAsBearer == Spec => []ActsAsBearer
<1>1. IInv => ActsAsBearer
  BY VerifiedMeans DEF IInv, DeedInv, ActsAsBearer, HasActed
<1>. QED BY <1>1, Invariance, PTL

\* A session keeps to one subject, where every token has one.
THEOREM SessionsAreBound ==
    ASSUME \A b \in Bearers : b.sub # ""
    PROVE  Spec => []SessionKeepsItsSubject
<1>1. IInv => SessionKeepsItsSubject
  <2> SUFFICES ASSUME IInv, NEW r \in Requests, NEW q \in Requests,
                      pc[r] \in {"tool", "answer"}, pc[q] \in {"tool", "answer"},
                      session[r] = session[q]
               PROVE  bearer[r].sub = bearer[q].sub
    BY DEF SessionKeepsItsSubject
  <2>1. info[r].userID = bearer[r].sub /\ info[q].userID = bearer[q].sub
    BY TokenTyping DEF IInv, IdentityInv
  <2>2. /\ session[r] \in Sessions /\ opened[session[r]] # None
        /\ opened[session[r]].userID \in {"", info[r].userID}
    BY DEF IInv, SessionInv
  <2>3. opened[session[r]].userID \in {"", info[q].userID}
    BY DEF IInv, SessionInv
  <2>4. opened[session[r]].userID # ""
    BY <2>2 DEF IInv, OpenedInv
  <2>. QED BY <2>1, <2>2, <2>3, <2>4
<1>. QED BY <1>1, Invariance, PTL
=============================================================================
