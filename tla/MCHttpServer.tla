--------------------------- MODULE MCHttpServer ---------------------------
(***************************************************************************)
(* HttpServer for TLC: Google carries the request out, refuses the token   *)
(* as expired, or is unavailable.                                          *)
(***************************************************************************)
EXTENDS HttpServer

Plain(status) ==
    [status |-> status, canonical |-> "", legacy |-> "", body |-> "whole", retryAfter |-> -1]

MCAnswers == {Plain(s) : s \in {200, 401, 503}}
=============================================================================
