--------------------------- MODULE MCGapiClient ---------------------------
(***************************************************************************)
(* GapiClient and Backoff for TLC: one call (calls share no state in these *)
(* modules) with the retries of the code, and one answer of each kind the  *)
(* client tells apart.                                                     *)
(*                                                                         *)
(* Durations are scaled: 5 units are a second, a Duration has 7 bits.  A   *)
(* Retry-After of 12 seconds is over the cap and fits; 13 wraps to a       *)
(* negative Duration, 26 to a short positive one.                          *)
(***************************************************************************)
EXTENDS Backoff

Plain(status) ==
    [status |-> status, canonical |-> "", legacy |-> "", body |-> "whole", retryAfter |-> -1]

RateLimited == [Plain(403) EXCEPT !.legacy = "rateLimitExceeded"]

MCAnswers ==
    {Plain(s) : s \in {200, 400, 401, 429, 500, 503}}
      \union {RateLimited, [Plain(403) EXCEPT !.legacy = "forbidden"],
              [RateLimited EXCEPT !.canonical = "PERMISSION_DENIED"]}
      \union {[Plain(200) EXCEPT !.body = "long"], [Plain(503) EXCEPT !.body = "cut"]}
      \union {[Plain(429) EXCEPT !.retryAfter = s] : s \in {1, 12, 13, 26}}
=============================================================================
