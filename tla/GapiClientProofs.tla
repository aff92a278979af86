------------------------- MODULE GapiClientProofs -------------------------
(***************************************************************************)
(* The safety of GapiClient for every set of calls, every MaxRetries and   *)
(* every set of answers; how much a call has left to do; its waits; and    *)
(* that it implements Operation.                                           *)
(***************************************************************************)
EXTENDS Backoff, TLAPS

\* At most one request of a call is anywhere but at Google: the one of the
\* current attempt, before its answer, never carried out yet.
WireInv(c) ==
    /\ wire[c] \subseteq {attempt[c]}
    /\ wire[c] \intersect executed[c] = {}
    /\ pc[c] \in {"idle", "token", "send", "backoff"} => wire[c] = {}
    /\ reply[c] # NoAnswer => wire[c] = {}

\* What the client has seen accounts for what Google carried out.
ExecutedInv(c) ==
    /\ executed[c] \ {attempt[c]} \subseteq unavailable[c]
    /\ executed[c] \subseteq 0 .. attempt[c]
    /\ unavailable[c] \subseteq 0 .. attempt[c]
    /\ pc[c] \in {"idle", "token"} => executed[c] = {} /\ unavailable[c] = {}
    /\ pc[c] = "send" => attempt[c] \notin executed[c] \union unavailable[c]
    /\ reply[c] # NoAnswer /\ attempt[c] \in executed[c] => MayExecute(reply[c])
    /\ reply[c] # NoAnswer /\ MustExecute(reply[c]) => attempt[c] \in executed[c]

\* The answer on which the client acted is the one it still holds.
ControlInv(c) ==
    /\ pc[c] = "done" <=> result[c] # "none"
    /\ pc[c] \in {"idle", "token", "send"} => reply[c] = NoAnswer
    /\ pc[c] = "backoff" =>
         /\ reply[c] # NoAnswer
         /\ Retryable(reply[c])
         /\ attempt[c] < MaxRetries
         /\ reply[c].status = 503 => attempt[c] \in unavailable[c]
    /\ result[c] = "ok" => reply[c] # NoAnswer /\ StatusOK(reply[c])
    /\ result[c] = "googleError" =>
         /\ reply[c] # NoAnswer
         /\ Retryable(reply[c]) => attempt[c] = MaxRetries
    /\ result[c] \in {"badRequest", "noToken"} => executed[c] = {} /\ wire[c] = {}

CallInv(c) == WireInv(c) /\ ExecutedInv(c) /\ ControlInv(c)

IInv == TypeOK /\ \A c \in Calls : CallInv(c)

\* NoAnswer is none of Google's answers.
LEMMA AnswerTyping ==
    \A a \in Answers : a # NoAnswer /\ a.status \in Statuses /\ a \in Answer
  BY AnswersAssumption DEF Answer, NoAnswer, Statuses

LEMMA InitIInv == Init => IInv
  BY MaxRetriesAssumption
  DEF Init, IInv, TypeOK, CallInv, WireInv, ExecutedInv, ControlInv, Attempts, PCs, Results

-----------------------------------------------------------------------------
(* One lemma per action: the types, and the invariant of the acting call.  *)
(* The other calls keep all their state.                                   *)

Unmoved(d) ==
    /\ pc'[d] = pc[d] /\ attempt'[d] = attempt[d] /\ wire'[d] = wire[d]
    /\ reply'[d] = reply[d] /\ result'[d] = result[d]
    /\ executed'[d] = executed[d] /\ unavailable'[d] = unavailable[d]

LEMMA UnmovedInv ==
    ASSUME NEW d, CallInv(d), Unmoved(d)
    PROVE  CallInv(d)'
  BY DEF CallInv, WireInv, ExecutedInv, ControlInv, Unmoved

LEMMA StartInv ==
    ASSUME IInv, NEW c \in Calls, Start(c)
    PROVE  TypeOK' /\ CallInv(c)' /\ \A d \in Calls \ {c} : Unmoved(d)
  BY DEF IInv, TypeOK, CallInv, WireInv, ExecutedInv, ControlInv, Start, Goto, Return,
         PCs, Results, Unmoved

LEMMA AcquireTokenInv ==
    ASSUME IInv, NEW c \in Calls, AcquireToken(c)
    PROVE  TypeOK' /\ CallInv(c)' /\ \A d \in Calls \ {c} : Unmoved(d)
<1>1. TypeOK' /\ \A d \in Calls \ {c} : Unmoved(d)
  BY DEF IInv, TypeOK, AcquireToken, Goto, Return, PCs, Results, Unmoved
<1>2. CallInv(c)'
  BY DEF IInv, TypeOK, CallInv, WireInv, ExecutedInv, ControlInv, AcquireToken, Goto, Return,
         Attempts
<1>. QED BY <1>1, <1>2

LEMMA SendInv ==
    ASSUME IInv, NEW c \in Calls, Send(c)
    PROVE  TypeOK' /\ CallInv(c)' /\ \A d \in Calls \ {c} : Unmoved(d)
<1>1. TypeOK' /\ \A d \in Calls \ {c} : Unmoved(d)
  BY DEF IInv, TypeOK, Send, Goto, PCs, Unmoved
<1>2. CallInv(c)'
  BY DEF IInv, TypeOK, CallInv, WireInv, ExecutedInv, ControlInv, Send, ContextLive, Goto
<1>. QED BY <1>1, <1>2

LEMMA TransportErrorInv ==
    ASSUME IInv, NEW c \in Calls, TransportError(c)
    PROVE  TypeOK' /\ CallInv(c)' /\ \A d \in Calls \ {c} : Unmoved(d)
<1>1. TypeOK' /\ \A d \in Calls \ {c} : Unmoved(d)
  BY DEF IInv, TypeOK, TransportError, Goto, Return, PCs, Results, Unmoved
<1>2. CallInv(c)'
  BY DEF IInv, TypeOK, CallInv, WireInv, ExecutedInv, ControlInv, TransportError, Goto, Return
<1>. QED BY <1>1, <1>2

\* The verdict on an answer, read backwards.
LEMMA VerdictMeans ==
    ASSUME NEW a \in Answers, NEW n \in Attempts
    PROVE  /\ Verdict(a, n) \in {"none", "ok", "googleError", "badBody"}
           /\ Verdict(a, n) = "none" => Retryable(a) /\ n < MaxRetries
           /\ Verdict(a, n) = "ok" => StatusOK(a)
           /\ Verdict(a, n) = "googleError" => (Retryable(a) => n = MaxRetries)
  BY MaxRetriesAssumption, AnswerTyping
  DEF Verdict, RetriesLeft, Attempts, Answer, StatusOK

LEMMA ReceiveInv ==
    ASSUME IInv, NEW c \in Calls, Receive(c)
    PROVE  TypeOK' /\ CallInv(c)' /\ \A d \in Calls \ {c} : Unmoved(d)
<1> DEFINE v == Verdict(reply[c], attempt[c])
<1>1. /\ reply[c] \in Answers /\ attempt[c] \in Attempts
      /\ v \in {"none", "ok", "googleError", "badBody"}
      /\ v = "none" => Retryable(reply[c]) /\ attempt[c] < MaxRetries
      /\ v = "ok" => StatusOK(reply[c])
      /\ v = "googleError" => (Retryable(reply[c]) => attempt[c] = MaxRetries)
  BY VerdictMeans DEF Receive, IInv, TypeOK
<1> HIDE DEF v
<1>2. /\ pc[c] = "await" /\ reply[c] # NoAnswer
      /\ UNCHANGED <<attempt, cancelled, wire, reply, executed>>
      /\ \/ v = "none" /\ pc' = [pc EXCEPT ![c] = "backoff"] /\ UNCHANGED result
         \/ /\ v # "none" /\ pc' = [pc EXCEPT ![c] = "done"]
            /\ result' = [result EXCEPT ![c] = v]
      /\ unavailable' = IF reply[c].status = 503
                          THEN [unavailable EXCEPT ![c] = @ \union {attempt[c]}]
                          ELSE unavailable
  BY DEF Receive, Goto, Return, v
<1>3. TypeOK' /\ \A d \in Calls \ {c} : Unmoved(d)
  BY <1>1, <1>2 DEF IInv, TypeOK, PCs, Results, Unmoved
<1>4. attempt[c] \in 0 .. attempt[c]
  BY <1>1, MaxRetriesAssumption DEF Attempts
<1>5. CallInv(c)'
  BY <1>1, <1>2, <1>4 DEF IInv, TypeOK, CallInv, WireInv, ExecutedInv, ControlInv
<1>. QED BY <1>3, <1>5

LEMMA BackoffElapsedInv ==
    ASSUME IInv, NEW c \in Calls, BackoffElapsed(c)
    PROVE  TypeOK' /\ CallInv(c)' /\ \A d \in Calls \ {c} : Unmoved(d)
<1>1. /\ attempt[c] \in 0 .. MaxRetries - 1
      /\ attempt'[c] = attempt[c] + 1
      /\ pc[c] = "backoff" /\ pc'[c] = "send"
  BY MaxRetriesAssumption
  DEF IInv, TypeOK, CallInv, ControlInv, BackoffElapsed, Goto, Attempts
<1>2. TypeOK' /\ \A d \in Calls \ {c} : Unmoved(d)
  BY <1>1, MaxRetriesAssumption
  DEF IInv, TypeOK, BackoffElapsed, Goto, PCs, Unmoved, Attempts
<1>3. /\ wire'[c] = {} /\ reply'[c] = NoAnswer /\ result'[c] = result[c]
      /\ executed'[c] = executed[c] /\ unavailable'[c] = unavailable[c]
  BY DEF IInv, TypeOK, CallInv, WireInv, BackoffElapsed, Goto
<1>4. WireInv(c)'
  BY <1>1, <1>3 DEF WireInv
\* A retryable answer to an executed attempt can only be a 503.
<1>5. executed[c] \subseteq unavailable[c]
  BY <1>1 DEF IInv, CallInv, ExecutedInv, ControlInv, MayExecute, Retryable
<1>6. executed[c] \subseteq 0 .. attempt[c] /\ unavailable[c] \subseteq 0 .. attempt[c]
  BY DEF IInv, CallInv, ExecutedInv
<1>7. attempt'[c] \notin 0 .. attempt[c] /\ 0 .. attempt[c] \subseteq 0 .. attempt'[c]
  BY <1>1
<1>8. ExecutedInv(c)'
  BY <1>1, <1>3, <1>5, <1>6, <1>7 DEF ExecutedInv
<1>9. ControlInv(c)'
  BY <1>1, <1>3 DEF IInv, CallInv, ControlInv
<1>. QED BY <1>2, <1>4, <1>8, <1>9 DEF CallInv

LEMMA BackoffCancelledInv ==
    ASSUME IInv, NEW c \in Calls, BackoffCancelled(c)
    PROVE  TypeOK' /\ CallInv(c)' /\ \A d \in Calls \ {c} : Unmoved(d)
<1>1. TypeOK' /\ \A d \in Calls \ {c} : Unmoved(d)
  BY DEF IInv, TypeOK, BackoffCancelled, Goto, Return, PCs, Results, Unmoved
<1>2. CallInv(c)'
  BY DEF IInv, TypeOK, CallInv, WireInv, ExecutedInv, ControlInv, BackoffCancelled, Goto, Return
<1>. QED BY <1>1, <1>2

LEMMA CancelInv ==
    ASSUME IInv, NEW c \in Calls, Cancel(c)
    PROVE  TypeOK' /\ \A d \in Calls : Unmoved(d)
  BY DEF IInv, TypeOK, Cancel, Unmoved

LEMMA HandleInv ==
    ASSUME IInv, NEW c \in Calls, NEW n \in wire[c], NEW a \in Answers,
           NEW done \in BOOLEAN, Handle(c, n, a, done)
    PROVE  TypeOK' /\ CallInv(c)' /\ \A d \in Calls \ {c} : Unmoved(d)
<1>1. n = attempt[c] /\ attempt[c] \in Attempts /\ wire[c] = {attempt[c]}
      /\ attempt[c] \notin executed[c] /\ reply[c] = NoAnswer
  BY DEF IInv, TypeOK, CallInv, WireInv
<1>2. TypeOK' /\ \A d \in Calls \ {c} : Unmoved(d)
  BY <1>1 DEF IInv, TypeOK, Handle, Unmoved
<1>3. /\ wire'[c] = {}
      /\ executed'[c] = IF done THEN executed[c] \union {attempt[c]} ELSE executed[c]
      /\ reply'[c] = IF pc[c] = "await" THEN a ELSE NoAnswer
      /\ pc'[c] = pc[c] /\ attempt'[c] = attempt[c] /\ result'[c] = result[c]
      /\ unavailable'[c] = unavailable[c]
      /\ pc[c] \in {"await", "done"}
  BY <1>1 DEF IInv, TypeOK, CallInv, WireInv, Handle, PCs
<1>4. WireInv(c)'
  BY <1>3 DEF WireInv
<1>5. attempt[c] \in 0 .. attempt[c]
  BY <1>1, MaxRetriesAssumption DEF Attempts
<1>6. ExecutedInv(c)'
  BY <1>1, <1>3, <1>5 DEF IInv, CallInv, ExecutedInv, Handle
<1>7. ControlInv(c)'
  <2>1. wire[c] # {}
    BY <1>1
  <2>2. result[c] \notin {"badRequest", "noToken", "ok", "googleError"}
    BY <1>1, <2>1 DEF IInv, CallInv, ControlInv
  <2>. QED BY <1>3, <2>2 DEF IInv, CallInv, ControlInv
<1>. QED BY <1>2, <1>4, <1>6, <1>7 DEF CallInv

-----------------------------------------------------------------------------

LEMMA NextIInv == IInv /\ [Next]_vars => IInv'
<1>1. ASSUME IInv, NEW c \in Calls,
             TypeOK' /\ CallInv(c)' /\ \A d \in Calls \ {c} : Unmoved(d)
      PROVE  IInv'
  BY <1>1, UnmovedInv DEF IInv
<1>2. ASSUME IInv, NEW c \in Calls, Start(c) PROVE IInv'
  BY <1>2, <1>1, StartInv
<1>3. ASSUME IInv, NEW c \in Calls, AcquireToken(c) \/ ClientStep(c) PROVE IInv'
  BY <1>3, <1>1, AcquireTokenInv, SendInv, TransportErrorInv, ReceiveInv,
     BackoffElapsedInv, BackoffCancelledInv DEF ClientStep
<1>4. ASSUME IInv, NEW c \in Calls, Cancel(c) PROVE IInv'
  BY <1>4, CancelInv, UnmovedInv DEF IInv
<1>5. ASSUME IInv, NEW c \in Calls, NEW n \in wire[c], NEW a \in Answers,
             NEW done \in BOOLEAN, Handle(c, n, a, done)
      PROVE  IInv'
  BY <1>5, <1>1, HandleInv
<1>6. ASSUME IInv, UNCHANGED vars PROVE IInv'
  BY <1>6 DEF IInv, TypeOK, CallInv, WireInv, ExecutedInv, ControlInv, vars
<1>. QED BY <1>2, <1>3, <1>4, <1>5, <1>6 DEF Next

\* The inductive invariant holds in every reachable state.
THEOREM Invariance == Spec => []IInv
  BY InitIInv, NextIInv, PTL DEF Spec

\* The attempts of a call stay within MaxRetries + 1, and every variable keeps its type.
THEOREM TypeCorrect == Spec => []TypeOK
<1>1. IInv => TypeOK  BY DEF IInv
<1>. QED BY <1>1, Invariance, PTL

\* A call is carried out twice only because Google answered 503 to the first time.
THEOREM NoBlindResend == Spec => []DuplicateOnlyAfterUnavailable
<1>1. IInv => DuplicateOnlyAfterUnavailable
  BY DEF IInv, CallInv, ExecutedInv, DuplicateOnlyAfterUnavailable
<1>. QED BY <1>1, Invariance, PTL

LEMMA RefusedUntouched == IInv => RefusedMeansUntouched
<1>1. ASSUME IInv, NEW c \in Calls, Refused(c)
      PROVE  executed[c] = {} /\ wire[c] = {}
  <2>1. CASE result[c] \in {"badRequest", "noToken"}
    BY <1>1, <2>1 DEF IInv, CallInv, ControlInv
  <2>2. CASE result[c] = "googleError" /\ reply[c].status \in {400, 401, 403, 429}
             /\ unavailable[c] = {}
    BY <1>1, <2>2 DEF IInv, CallInv, WireInv, ExecutedInv, ControlInv, MayExecute
  <2>. QED BY <1>1, <2>1, <2>2 DEF Refused
<1>. QED BY <1>1 DEF RefusedMeansUntouched

\* A refusal leaves nothing at Google and nothing on the way to it.
THEOREM RefusalIsFinal == Spec => []RefusedMeansUntouched
  BY RefusedUntouched, Invariance, PTL

\* Throttling reaches the caller only once the retries are spent.
THEOREM ThrottlingIsRetried == Spec => []ThrottledOnlyWhenExhausted
<1>1. IInv => ThrottledOnlyWhenExhausted
  BY DEF IInv, CallInv, ControlInv, ThrottledOnlyWhenExhausted
<1>. QED BY <1>1, Invariance, PTL

\* A cancelled call puts nothing more on the wire.
THEOREM CancelStopsSending == Spec => NothingSentAfterCancel
<1>1. TypeOK /\ [Next]_vars => [\A c \in Calls : cancelled[c] => wire'[c] \subseteq wire[c]]_vars
  BY DEF TypeOK, Next, ClientStep, Start, AcquireToken, Send, ContextLive, TransportError,
         Receive, BackoffElapsed, BackoffCancelled, Cancel, Handle, vars
<1>. QED BY <1>1, TypeCorrect, PTL DEF Spec, NothingSentAfterCancel
-----------------------------------------------------------------------------
(* How much a call has left to do.                                         *)

\* The steps a call with a token may still take: three for every attempt left.
StepsLeft(c) ==
    LET left == MaxRetries - attempt[c]
    IN  CASE pc[c] = "send" -> 3 * left + 3
          [] pc[c] = "await" -> 3 * left + 2
          [] pc[c] = "backoff" -> 3 * left + 1
          [] OTHER -> 0

\* Whatever Google answers, and whoever cancels, each step of the loop in doRaw uses
\* one of them up, and nothing gives one back.
NoStepBack(c) ==
    pc[c] \notin {"idle", "token"} =>
        /\ StepsLeft(c) \in 0 .. 3 * (MaxRetries + 1)
        /\ StepsLeft(c)' <= StepsLeft(c)
        /\ ClientStep(c) => StepsLeft(c)' < StepsLeft(c)

StepsRunOut == [][\A c \in Calls : NoStepBack(c)]_vars

\* A call never spends the steps of another one.
LEMMA UnmovedSteps ==
    ASSUME IInv, NEW d \in Calls, Unmoved(d)
    PROVE  StepsLeft(d)' = StepsLeft(d)
  BY DEF StepsLeft, Unmoved

LEMMA StepsAreBounded ==
    ASSUME IInv, NEW c \in Calls
    PROVE  StepsLeft(c) \in 0 .. 3 * (MaxRetries + 1)
<1>1. attempt[c] \in 0 .. MaxRetries
  BY DEF IInv, TypeOK, Attempts
<1>. QED BY <1>1, MaxRetriesAssumption DEF StepsLeft

LEMMA ClientStepUsesOne ==
    ASSUME IInv, NEW c \in Calls, ClientStep(c)
    PROVE  StepsLeft(c)' < StepsLeft(c)
<1>1. attempt[c] \in 0 .. MaxRetries
  BY DEF IInv, TypeOK, Attempts
<1>2. CASE Send(c)
  <2>1. pc[c] = "send" /\ pc'[c] = "await" /\ attempt'[c] = attempt[c]
    BY <1>2 DEF Send, Goto, IInv, TypeOK
  <2>. QED BY <1>1, <2>1, MaxRetriesAssumption DEF StepsLeft
<1>3. ASSUME pc[c] \in {"send", "await", "backoff"}, pc'[c] = "done"
      PROVE  StepsLeft(c)' < StepsLeft(c)
  BY <1>1, <1>3, MaxRetriesAssumption DEF StepsLeft
<1>4. CASE TransportError(c) \/ BackoffCancelled(c)
  BY <1>3, <1>4 DEF TransportError, BackoffCancelled, Return, Goto, IInv, TypeOK
<1>5. CASE Receive(c)
  <2>1. /\ pc[c] = "await" /\ attempt'[c] = attempt[c]
        /\ pc'[c] \in {"backoff", "done"}
    BY <1>5 DEF Receive, Return, Goto, IInv, TypeOK
  <2>. QED BY <1>1, <1>3, <2>1, MaxRetriesAssumption DEF StepsLeft
<1>6. CASE BackoffElapsed(c)
  <2>1. pc[c] = "backoff" /\ pc'[c] = "send" /\ attempt'[c] = attempt[c] + 1
    BY <1>6 DEF BackoffElapsed, Goto, IInv, TypeOK
  <2>. QED BY <1>1, <2>1, MaxRetriesAssumption DEF StepsLeft
<1>. QED BY <1>2, <1>4, <1>5, <1>6 DEF ClientStep

\* A step of another call, of Google or of the caller uses none.
LEMMA OthersUseNone ==
    ASSUME IInv, [Next]_vars, NEW c \in Calls, pc[c] \notin {"idle", "token"}, ~ClientStep(c)
    PROVE  StepsLeft(c)' = StepsLeft(c)
<1>1. ASSUME NEW d \in Calls, Start(d) \/ AcquireToken(d) \/ ClientStep(d)
      PROVE  StepsLeft(c)' = StepsLeft(c)
  <2>1. d # c
    BY <1>1 DEF Start, AcquireToken, Goto, Return
  <2>. QED BY <1>1, <2>1, UnmovedSteps, StartInv, AcquireTokenInv, SendInv,
              TransportErrorInv, ReceiveInv, BackoffElapsedInv, BackoffCancelledInv
           DEF ClientStep
<1>2. ASSUME \/ \E d \in Calls : Cancel(d)
             \/ \E d \in Calls : \E n \in wire[d], a \in Answers, done \in BOOLEAN :
                  Handle(d, n, a, done)
             \/ UNCHANGED vars
      PROVE  StepsLeft(c)' = StepsLeft(c)
  <2>1. UNCHANGED <<pc, attempt>>
    BY <1>2 DEF Cancel, Handle, vars
  <2>. QED BY <2>1 DEF StepsLeft
<1>. QED BY <1>1, <1>2 DEF Next

\* The loop of doRaw ends: a call with its token takes at most three steps for each
\* of its MaxRetries + 1 attempts.
THEOREM LoopEnds == Spec => StepsRunOut
<1>1. ASSUME IInv, [Next]_vars, NEW c \in Calls, pc[c] \notin {"idle", "token"}
      PROVE  NoStepBack(c)
  <2>1. StepsLeft(c) \in 0 .. 3 * (MaxRetries + 1) /\ StepsLeft(c)' \in Int
    <3>1. attempt'[c] \in 0 .. MaxRetries
      BY <1>1, NextIInv DEF IInv, TypeOK, Attempts
    <3>2. StepsLeft(c)' \in Int
      BY <3>1, MaxRetriesAssumption DEF StepsLeft
    <3>. QED BY <1>1, <3>2, StepsAreBounded
  <2>2. StepsLeft(c) \in Int
    BY <2>1, MaxRetriesAssumption
  <2>3. CASE ClientStep(c)
    BY <1>1, <2>1, <2>2, <2>3, ClientStepUsesOne DEF NoStepBack
  <2>4. CASE ~ClientStep(c)
    BY <1>1, <2>1, <2>2, <2>4, OthersUseNone DEF NoStepBack
  <2>. QED BY <2>3, <2>4
<1>2. IInv /\ [Next]_vars => [\A c \in Calls : NoStepBack(c)]_vars
  BY <1>1 DEF NoStepBack
<1>. QED BY <1>2, Invariance, PTL DEF Spec, StepsRunOut

-----------------------------------------------------------------------------
(* The waits between the attempts.                                         *)

\* Clamping bounds any Duration, and is the identity up to the cap.
LEMMA ClampBounds ==
    ASSUME NEW d \in Int
    PROVE  ClampDelay(d) \in 0 .. MaxDelay /\ (d >= 0 => ClampDelay(d) = Capped(d))
  BY DurationAssumption DEF ClampDelay, Capped

\* Whatever is a Duration does not wrap; anything else wraps to one.
LEMMA WrapFits ==
    ASSUME NEW n \in Int
    PROVE  Wrap(n) \in Int /\ (n \in 0 .. MaxDuration => Wrap(n) = n)
<1> DEFINE M == MaxDuration + 1
<1>1. M \in Nat /\ M > 0 /\ 2 * M \in Nat /\ 2 * M > 0
  BY DurationAssumption
<1>2. (n + M) % (2 * M) \in Int
  BY <1>1
<1>3. ASSUME n \in 0 .. MaxDuration PROVE (n + M) % (2 * M) = n + M
  <2>1. n + M \in 0 .. 2 * M - 1
    BY <1>3, DurationAssumption
  <2>2. \A k, w \in Nat : k < w => k % w = k
    OBVIOUS
  <2>. QED BY <1>1, <2>1, <2>2
<1>. QED BY <1>1, <1>2, <1>3, DurationAssumption DEF Wrap

\* Every wait stays within the cap, and is what the server asked for when that
\* is a Duration.
THEOREM WaitsFollowServer == Spec => []WaitFollowsServer
<1>1. ASSUME NEW a \in Answers, NEW n \in Nat
      PROVE  /\ RetryDelay(a, n) \in 0 .. MaxDelay
             /\ a.retryAfter >= 0 /\ a.retryAfter * Second <= MaxDuration =>
                  RetryDelay(a, n) = Capped(a.retryAfter * Second)
  <2> DEFINE asked == a.retryAfter * Second
             length == IF a.retryAfter >= 0 THEN asked ELSE BaseDelay * 2^n
  <2>1. a.retryAfter \in Int
    BY AnswersAssumption DEF Answer
  <2>2. asked \in Int /\ BaseDelay * 2^n \in Int /\ (a.retryAfter >= 0 => asked >= 0)
    BY <2>1, DurationAssumption
  <2>3. length \in Int /\ (a.retryAfter >= 0 => length = asked)
    BY <2>2
  <2>4. RetryDelay(a, n) = ClampDelay(Wrap(length))
    BY DEF RetryDelay
  <2> HIDE DEF length, asked
  <2>5. Wrap(length) \in Int /\ ClampDelay(Wrap(length)) \in 0 .. MaxDelay
    BY <2>3, WrapFits, ClampBounds
  <2>6. ASSUME a.retryAfter >= 0, asked <= MaxDuration
        PROVE  ClampDelay(Wrap(length)) = Capped(asked)
    <3>1. length = asked /\ asked \in 0 .. MaxDuration
      BY <2>2, <2>3, <2>6, DurationAssumption
    <3>2. Wrap(length) = asked
      BY <3>1, <2>3, WrapFits
    <3>. QED BY <3>1, <3>2, <2>2, ClampBounds
  <2>. QED BY <2>4, <2>5, <2>6 DEF asked
<1>2. ASSUME IInv, NEW c \in Calls, pc[c] = "backoff"
      PROVE  reply[c] \in Answers /\ attempt[c] \in Nat
  BY <1>2, MaxRetriesAssumption DEF IInv, TypeOK, CallInv, ControlInv, Attempts
<1>3. IInv => WaitFollowsServer
  BY <1>1, <1>2 DEF WaitFollowsServer
<1>. QED BY <1>3, Invariance, PTL

-----------------------------------------------------------------------------
(* The client implements the contract of module Operation.                 *)

LEMMA InitImplements == Init => Contract!Init
<1>1. ASSUME Init, NEW c \in Calls PROVE Phase(c) = "idle" /\ Outcome(c) = "none"
  <2>1. pc[c] = "idle" /\ result[c] = "none"
    BY <1>1 DEF Init
  <2>2. Phase(c) = "idle"
    BY <2>1 DEF Phase
  <2>. QED BY <2>1, <2>2 DEF Outcome, Refused
<1>. QED BY <1>1 DEF Init, Contract!Init

\* What the contract sees of a call depends on pc, result, reply and unavailable,
\* and on the last two only once the call is done.
LEMMA SameView ==
    ASSUME IInv, NEW d \in Calls, pc'[d] = pc[d], result'[d] = result[d],
           pc[d] = "done" => reply'[d] = reply[d] /\ unavailable'[d] = unavailable[d]
    PROVE  Phase(d)' = Phase(d) /\ Outcome(d)' = Outcome(d)
  BY DEF IInv, TypeOK, CallInv, ControlInv, Phase, Outcome, Refused

LEMMA UnmovedView ==
    ASSUME IInv, NEW d \in Calls, Unmoved(d)
    PROVE  Phase(d)' = Phase(d) /\ Outcome(d)' = Outcome(d)
  BY SameView DEF Unmoved

\* A step of the client that leaves the call running is a stutter.
LEMMA StutterImplements ==
    ASSUME IInv, IInv', NEW c \in Calls, \A d \in Calls \ {c} : Unmoved(d),
           pc[c] \notin {"idle", "done"}, pc'[c] \notin {"idle", "done"},
           UNCHANGED executed
    PROVE  UNCHANGED Contract!vars
<1>1. Phase(c)' = Phase(c) /\ Outcome(c)' = Outcome(c)
  <2>1. result[c] = "none" /\ result'[c] = "none"
    BY DEF IInv, CallInv, ControlInv
  <2>2. Phase(c) = "running" /\ Phase(c)' = "running"
    BY DEF Phase
  <2>. QED BY <2>1, <2>2 DEF Outcome, Refused
<1>2. \A d \in Calls : Phase(d)' = Phase(d) /\ Outcome(d)' = Outcome(d)
  BY <1>1, UnmovedView
<1>. QED BY <1>2 DEF Contract!vars

\* A step that returns answers the contract's call: "applied" and "refused" mean
\* what the contract says by the invariant.
LEMMA ReturnImplements ==
    ASSUME IInv, IInv', NEW c \in Calls, \A d \in Calls \ {c} : Unmoved(d),
           pc[c] # "done", pc'[c] = "done", UNCHANGED executed
    PROVE  \E v \in Contract!Verdicts : Contract!AnswerCall(c, v)
<1> DEFINE v == Outcome(c)'
<1>1. result'[c] # "none" /\ result[c] = "none" /\ Phase(c) # "answered"
      /\ Phase(c)' = "answered"
  BY DEF IInv, TypeOK, CallInv, ControlInv, Phase
<1>2. v \in Contract!Verdicts
  BY <1>1 DEF Outcome, Contract!Verdicts
<1>3. v = "applied" => executed[c] # {}
  BY <1>1 DEF Outcome, IInv, CallInv, ControlInv, ExecutedInv, MustExecute, StatusOK
<1>4. v = "refused" => executed[c] = {}
  <2>1. RefusedMeansUntouched'
    BY RefusedUntouched, PTL
  <2>. QED BY <1>1, <2>1 DEF Outcome, RefusedMeansUntouched
<1>5. \A d \in Calls \ {c} : Phase(d)' = Phase(d) /\ Outcome(d)' = Outcome(d)
  BY UnmovedView
<1>6. [d \in Calls |-> Phase(d)]' = [[d \in Calls |-> Phase(d)] EXCEPT ![c] = "answered"]
  BY <1>1, <1>5
<1>7. [d \in Calls |-> Outcome(d)]' = [[d \in Calls |-> Outcome(d)] EXCEPT ![c] = v]
  BY <1>5
<1>8. Contract!AnswerCall(c, v)
  BY <1>1, <1>3, <1>4, <1>6, <1>7 DEF Contract!AnswerCall
<1>. QED BY <1>2, <1>8

LEMMA StartImplements ==
    ASSUME IInv, IInv', NEW c \in Calls, Start(c)
    PROVE  Contract!Begin(c) \/ \E v \in Contract!Verdicts : Contract!AnswerCall(c, v)
<1>1. \A d \in Calls \ {c} : Unmoved(d)
  BY StartInv
<1>2. pc[c] = "idle" /\ UNCHANGED executed
  BY DEF Start, Goto, Return
<1>3. CASE pc'[c] = "done"
  BY <1>1, <1>2, <1>3, ReturnImplements
<1>4. CASE pc'[c] = "token"
  <2>1. result[c] = "none" /\ result'[c] = "none"
    BY <1>2, <1>4 DEF IInv, CallInv, ControlInv
  <2>2. Phase(c) = "idle" /\ Phase(c)' = "running"
    BY <1>2, <1>4 DEF Phase
  <2>3. Outcome(c) = "none" /\ Outcome(c)' = "none"
    BY <2>1 DEF Outcome, Refused
  <2>4. \A d \in Calls \ {c} : Phase(d)' = Phase(d) /\ Outcome(d)' = Outcome(d)
    BY <1>1, UnmovedView
  <2>. QED BY <1>2, <2>2, <2>3, <2>4 DEF Contract!Begin
<1>. QED BY <1>3, <1>4 DEF Start, Goto, Return, IInv, TypeOK

\* A step of the running client returns or stutters.
LEMMA ClientImplements ==
    ASSUME IInv, IInv', NEW c \in Calls, AcquireToken(c) \/ ClientStep(c)
    PROVE  Contract!Next \/ UNCHANGED Contract!vars
<1>1. \A d \in Calls \ {c} : Unmoved(d)
  BY AcquireTokenInv, SendInv, TransportErrorInv, ReceiveInv, BackoffElapsedInv,
     BackoffCancelledInv DEF ClientStep
<1>2. UNCHANGED executed
  BY DEF ClientStep, AcquireToken, Send, TransportError, Receive, BackoffElapsed,
         BackoffCancelled
<1>3. pc[c] \notin {"idle", "done"} /\ pc'[c] # "idle"
  BY DEF ClientStep, AcquireToken, Send, TransportError, Receive, BackoffElapsed,
         BackoffCancelled, Goto, Return, IInv, TypeOK
<1>4. CASE pc'[c] = "done"
  BY <1>1, <1>2, <1>3, <1>4, ReturnImplements DEF Contract!Next
<1>5. CASE pc'[c] # "done"
  BY <1>1, <1>2, <1>3, <1>5, StutterImplements
<1>. QED BY <1>4, <1>5

LEMMA CancelImplements ==
    ASSUME IInv, NEW c \in Calls, Cancel(c)
    PROVE  UNCHANGED Contract!vars
<1>1. \A d \in Calls : Unmoved(d)
  BY CancelInv
<1>2. UNCHANGED executed
  BY DEF Cancel
<1>. QED BY <1>1, <1>2, UnmovedView DEF Contract!vars

\* Google carries out an attempt, or leaves it, with nothing said to the caller.
LEMMA HandleImplements ==
    ASSUME IInv, IInv', NEW c \in Calls, NEW n \in wire[c], NEW a \in Answers,
           NEW done \in BOOLEAN, Handle(c, n, a, done)
    PROVE  Contract!Execute(c, n) \/ UNCHANGED Contract!vars
<1>1. \A d \in Calls \ {c} : Unmoved(d)
  BY HandleInv
<1>2. pc[c] \notin {"idle", "token", "send", "backoff"} /\ UNCHANGED <<pc, result>>
  BY DEF IInv, CallInv, WireInv, Handle
<1>3. pc[c] = "done" => reply'[c] = reply[c] /\ unavailable'[c] = unavailable[c]
  BY DEF Handle
<1>4. \A d \in Calls : Phase(d)' = Phase(d) /\ Outcome(d)' = Outcome(d)
  BY <1>1, <1>2, <1>3, UnmovedView, SameView
<1>5. CASE ~done
  BY <1>4, <1>5 DEF Handle, Contract!vars
<1>6. CASE done
  <2>1. n \in Attempts \ executed[c]
    BY DEF IInv, TypeOK, CallInv, WireInv
  <2>2. Phase(c) # "idle"
    BY <1>2 DEF Phase
  <2>3. Outcome(c) # "refused"
    BY RefusedUntouched DEF Outcome, RefusedMeansUntouched
  <2>4. executed' = [executed EXCEPT ![c] = @ \union {n}]
    BY <1>6 DEF Handle
  <2>. QED BY <1>4, <2>1, <2>2, <2>3, <2>4 DEF Contract!Execute
<1>. QED BY <1>5, <1>6

\* Every step of the client and of Google is a step of the contract or a stutter.
LEMMA StepImplements ==
    IInv /\ IInv' /\ [Next]_vars => [Contract!Next]_(Contract!vars)
<1>1. ASSUME IInv, IInv', NEW c \in Calls, Start(c) PROVE Contract!Next
  BY <1>1, StartImplements DEF Contract!Next
<1>2. ASSUME IInv, IInv', NEW c \in Calls, NEW n \in wire[c], NEW a \in Answers,
             NEW done \in BOOLEAN, Handle(c, n, a, done)
      PROVE  Contract!Next \/ UNCHANGED Contract!vars
  <2>1. n \in Attempts
    BY <1>2 DEF IInv, TypeOK
  <2>. QED BY <1>2, <2>1, HandleImplements DEF Contract!Next
<1>3. ASSUME IInv, UNCHANGED vars PROVE UNCHANGED Contract!vars
  <2>1. \A d \in Calls : Unmoved(d)
    BY <1>3 DEF Unmoved, vars
  <2>. QED BY <1>3, <2>1, UnmovedView DEF Contract!vars, vars
<1>. QED BY <1>1, <1>2, <1>3, ClientImplements, CancelImplements DEF Next

\* The client implements the contract.
THEOREM ContractHolds == Spec => ImplementsContract
  BY InitImplements, StepImplements, Invariance, PTL
  DEF Spec, Contract!Spec, ImplementsContract
=============================================================================
