------------------------------ MODULE Backoff ------------------------------
(***************************************************************************)
(* How long the Google client waits between two attempts: retryDelay and   *)
(* clampDelay of internal/gapi/client.go, in the arithmetic of             *)
(* time.Duration, a signed integer that wraps.                             *)
(*                                                                         *)
(* The delay is a function of the answer in hand and of the attempt, so it *)
(* needs no variable: while a call is in "backoff" it is                   *)
(* RetryDelay(reply[c], attempt[c]).                                       *)
(***************************************************************************)
EXTENDS GapiClient

CONSTANTS
    MaxDuration,  \* the largest time.Duration, 2^63 - 1 nanoseconds in the code
    Second,       \* time.Second
    BaseDelay,    \* baseRetryDelay
    MaxDelay      \* maxRetryDelay

ASSUME DurationAssumption ==
    /\ MaxDuration \in Nat /\ Second \in Nat /\ BaseDelay \in Nat /\ MaxDelay \in Nat
    /\ MaxDelay <= MaxDuration

\* A product that does not fit keeps its low bits.
Wrap(n) == ((n + MaxDuration + 1) % (2 * (MaxDuration + 1))) - (MaxDuration + 1)

\* Seeded fault: only the upper bound is enforced.
ClampAbove(d) == IF d > MaxDelay THEN MaxDelay ELSE d

ClampDelay(d) ==
    CASE d < 0 -> 0
      [] d > MaxDelay -> MaxDelay
      [] OTHER -> d

\* The Retry-After of the answer if it has one, else baseRetryDelay << attempt.
RetryDelay(a, n) ==
    ClampDelay(Wrap(IF a.retryAfter >= 0 THEN a.retryAfter * Second ELSE BaseDelay * 2^n))

\* d, or the longest wait the client accepts.
Capped(d) == IF d < MaxDelay THEN d ELSE MaxDelay

\* A wait is never negative and never longer than the cap, whatever the header
\* says; and it is the capped wait Google asked for, as long as that many seconds
\* are a time.Duration at all.  (Beyond it the product wraps before it is clamped,
\* and the wait is anything between none and the cap.)
WaitFollowsServer ==
    \A c \in Calls :
        pc[c] = "backoff" =>
          LET asked == reply[c].retryAfter * Second
              wait == RetryDelay(reply[c], attempt[c])
          IN  /\ wait \in 0 .. MaxDelay
              /\ reply[c].retryAfter >= 0 /\ asked <= MaxDuration => wait = Capped(asked)
=============================================================================
