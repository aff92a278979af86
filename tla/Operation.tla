----------------------------- MODULE Operation -----------------------------
(***************************************************************************)
(* What a caller of the Google client may rely on, said without tokens,    *)
(* attempts, backoff or transport: an operation is carried out at most     *)
(* MaxExecutions times, is answered once, and the answer tells as much     *)
(* about Google's side as the client can know.                             *)
(*   applied   Google has carried it out                                   *)
(*   refused   Google has not carried it out and never will                *)
(*   unknown   either; a late execution is still possible                  *)
(***************************************************************************)
EXTENDS Naturals

CONSTANTS Calls, Attempts

VARIABLES
    phase,     \* phase[c]: "idle", "running" or "answered"
    verdict,   \* verdict[c]: what the answer says, "none" before it
    executed   \* executed[c]: the attempts Google carried out

vars == <<phase, verdict, executed>>

Verdicts == {"applied", "refused", "unknown"}

Init ==
    /\ phase = [c \in Calls |-> "idle"]
    /\ verdict = [c \in Calls |-> "none"]
    /\ executed = [c \in Calls |-> {}]

Begin(c) ==
    /\ phase[c] = "idle"
    /\ phase' = [phase EXCEPT ![c] = "running"]
    /\ UNCHANGED <<verdict, executed>>

\* Attempts are carried out at most once each; once refused, none is.
Execute(c, n) ==
    /\ phase[c] # "idle"
    /\ verdict[c] # "refused"
    /\ n \in Attempts \ executed[c]
    /\ executed' = [executed EXCEPT ![c] = @ \union {n}]
    /\ UNCHANGED <<phase, verdict>>

AnswerCall(c, v) ==
    /\ phase[c] # "answered"
    /\ v = "applied" => executed[c] # {}
    /\ v = "refused" => executed[c] = {}
    /\ phase' = [phase EXCEPT ![c] = "answered"]
    /\ verdict' = [verdict EXCEPT ![c] = v]
    /\ UNCHANGED executed

Next ==
    \E c \in Calls :
        \/ Begin(c)
        \/ \E n \in Attempts : Execute(c, n)
        \/ \E v \in Verdicts : AnswerCall(c, v)

Spec == Init /\ [][Next]_vars
=============================================================================
