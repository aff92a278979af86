------------------------- MODULE MCResourceServer -------------------------
(***************************************************************************)
(* ResourceServer for TLC: two people of one issuer, one of another with   *)
(* the same subject, a token of a stranger, one for another audience, one  *)
(* whose email is not vouched for, one with no claim to map.               *)
(***************************************************************************)
EXTENDS ResourceServer, TLC

Token(iss, sub, user) ==
    [iss |-> iss, signer |-> iss, ours |-> TRUE, sub |-> sub, email |-> user, upn |-> user,
     verified |-> "true"]

Ann == Token("A", "1", "ann")

MCBearers ==
    {Ann,
     [Token("A", "2", "bob") EXCEPT !.verified = "\"true\""],
     Token("B", "1", "cy"),
     [Ann EXCEPT !.signer = "X"],
     [Ann EXCEPT !.ours = FALSE],
     [Token("A", "3", "dan") EXCEPT !.verified = "absent"],
     [Token("B", "4", "eve") EXCEPT !.email = "", !.verified = "false"]}

Symmetry == Permutations(Sessions) \union Permutations(Requests)
=============================================================================
