--------------------------- MODULE MCWriteTools ---------------------------
(***************************************************************************)
(* WriteTools for TLC: the tools that differ in tier, gate or Prepare, and *)
(* target lists with a duplicate, a duplicate only after trimming, and a   *)
(* blank.                                                                  *)
(***************************************************************************)
EXTENDS WriteTools

A == [name |-> "a", padded |-> FALSE]
PaddedA == [name |-> "a", padded |-> TRUE]
B == [name |-> "b", padded |-> FALSE]
Blank == [name |-> "", padded |-> TRUE]

MCTargetLists == {<<>>, <<A>>, <<A, B>>, <<A, PaddedA>>, <<Blank, B>>}

Kind(tier, gate, prepare) == [tier |-> tier, gate |-> gate, prepare |-> prepare]

MCTools ==
    {Kind("user", "sends", TRUE),     \* calendar_respond_to_event
     Kind("user", "writes", FALSE),   \* directory_update_user
     Kind("app", "writes", FALSE),    \* app_set_vacation
     Kind("app", "sends", FALSE),     \* app_send_mail
     Kind("bulk", "writes", FALSE)}   \* app_bulk_user_suspend
=============================================================================
