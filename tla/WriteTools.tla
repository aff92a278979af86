----------------------------- MODULE WriteTools -----------------------------
(***************************************************************************)
(* How a mutating tool call runs: runWrite of write.go with its two gates, *)
(* appApply of powerful_app_tools.go and runBulk of powerful_app_bulk.go   *)
(* with their audit log, calls running concurrently in a process that may  *)
(* die.                                                                    *)
(*                                                                         *)
(* A call's requests to Google are operations of module Operation, the     *)
(* contract GapiClient implements: the answer may be an error although     *)
(* Google carried the operation out, or will.  The client first asks its   *)
(* token source, which may fail and may hang (DwdTokens, PersonalTokens).  *)
(***************************************************************************)
EXTENDS Naturals, Sequences, FiniteSets

CONSTANTS
    Calls,       \* the tool calls
    Tools,       \* the mutating tools, see Tool
    TargetLists, \* the target lists a call may be given
    MaxTargets   \* the length of the longest

\* tier: the caller's own data, one impersonated user, or a batch of directory
\* entries.  prepare: the plan has a Prepare step.
Tool == [tier : {"user", "app", "bulk"}, gate : {"writes", "sends"}, prepare : BOOLEAN]

\* A target as given: its trimmed name, "" when blank, and whether it has blanks
\* around it.
Trimmed(t) == t.name

ASSUME ToolsAssumption == Tools \subseteq Tool
ASSUME TargetListsAssumption ==
    /\ MaxTargets \in Nat \ {0}
    /\ \A l \in TargetLists :
         l \in Seq([name : STRING, padded : BOOLEAN]) /\ Len(l) <= MaxTargets

Operations == Calls \X (1 .. MaxTargets)

VARIABLES
    allowWrites, allowSends,   \* the two gates, fixed when the process starts
    alive,                     \* the process runs
    pc,                        \* pc[c]: where call c is
    tool,                      \* tool[c]: the tool it calls
    targets,                   \* targets[c]: what it is to change
    outcome,                   \* outcome[c]: applied or error for each target tried
    out,                       \* out[c]: what the caller is told
    contacted,                 \* the calls that asked the client for anything, a read included
    log,                       \* the audit log of the application tier
    phase, verdict, executed   \* Google's operations, see Operation

google == <<phase, verdict, executed>>
vars == <<allowWrites, allowSends, alive, pc, tool, targets, outcome, out, contacted,
          log, google>>

Google == INSTANCE Operation WITH Calls <- Operations, Attempts <- {1}

\* A call in readToken or token is inside the client, which waits for its token.
PCs == {"idle", "gate", "prepare", "readToken", "read", "mutate", "token", "wait", "log",
        "done"}

TypeOK ==
    /\ {allowWrites, allowSends, alive} \subseteq BOOLEAN
    /\ pc \in [Calls -> PCs]
    /\ \A c \in Calls : pc[c] # "idle" => tool[c] \in Tools
    /\ \A c \in Calls : Len(outcome[c]) <= Len(targets[c])
    /\ outcome \in [Calls -> Seq({"applied", "error"})]
    /\ out \in [Calls -> {"none", "dryRun", "applied", "error"}]
    /\ contacted \subseteq Calls
    /\ log \subseteq [call : Calls, applied : Nat, errors : Nat]

Init ==
    /\ allowWrites \in BOOLEAN
    /\ allowSends \in BOOLEAN
    /\ alive = TRUE
    /\ pc = [c \in Calls |-> "idle"]
    /\ tool = [c \in Calls |-> CHOOSE t \in Tools : TRUE]
    /\ targets = [c \in Calls |-> <<>>]
    /\ outcome = [c \in Calls |-> <<>>]
    /\ out = [c \in Calls |-> "none"]
    /\ contacted = {}
    /\ log = {}
    /\ Google!Init

Goto(c, from, to) ==
    /\ alive
    /\ pc[c] = from
    /\ pc' = [pc EXCEPT ![c] = to]

Return(c, from, o) ==
    /\ Goto(c, from, "done")
    /\ out' = [out EXCEPT ![c] = o]

Gates == <<allowWrites, allowSends>>

-----------------------------------------------------------------------------

\* Seeded fault: targets are compared as given.
DistinctUntrimmed(l) == \A i, j \in DOMAIN l : l[i] = l[j] => i = j

\* runBulk compares the targets after trimming.
Distinct(l) == \A i, j \in DOMAIN l : Trimmed(l[i]) = Trimmed(l[j]) => i = j

Acceptable(l) ==
    /\ l # <<>>
    /\ \A i \in DOMAIN l : Trimmed(l[i]) # ""
    /\ Distinct(l)

\* The handler checks its arguments: runBulk its list, every handler its own.
Invoke(c, t, l) ==
    /\ tool' = [tool EXCEPT ![c] = t]
    /\ targets' = [targets EXCEPT ![c] = l]
    /\ \/ Acceptable(l) /\ Goto(c, "idle", "gate") /\ UNCHANGED out
       \/ Return(c, "idle", "error")
    /\ UNCHANGED <<Gates, alive, outcome, contacted, log, google>>

\* Seeded fault: the write gate opens the send gate.
WritesOpenSends(g) == allowWrites \/ (g = "sends" /\ allowSends)

\* gateSettings.
GateOpen(g) == IF g = "sends" THEN allowSends ELSE allowWrites

\* A closed gate ends the call with a preview.
CheckGate(c) ==
    /\ IF GateOpen(tool[c].gate)
         THEN /\ Goto(c, "gate", IF tool[c].prepare THEN "prepare" ELSE "mutate")
              /\ UNCHANGED out
         ELSE Return(c, "gate", "dryRun")
    /\ UNCHANGED <<Gates, alive, tool, targets, outcome, contacted, log, google>>

\* Prepare reads the current state; its failure aborts the call.
BeginRead(c) ==
    /\ Goto(c, "prepare", "readToken")
    /\ contacted' = contacted \union {c}
    /\ UNCHANGED <<Gates, alive, tool, targets, outcome, out, log, google>>

Prepare(c) ==
    /\ \/ Goto(c, "read", "mutate") /\ UNCHANGED out
       \/ Return(c, "read", "error")
    /\ UNCHANGED <<Gates, alive, tool, targets, outcome, contacted, log, google>>

Current(c) == <<c, Len(outcome[c]) + 1>>

\* Seeded fault: a batch waits for the earlier targets to have been applied.
MutateInOrder(c) ==
    /\ Goto(c, "mutate", "token")
    /\ \A i \in DOMAIN outcome[c] : outcome[c][i] = "applied"
    /\ contacted' = contacted \union {c}
    /\ UNCHANGED <<Gates, alive, tool, targets, outcome, out, log, google>>

\* The request for the next target; for a plan the one request there is.
Mutate(c) ==
    /\ Goto(c, "mutate", "token")
    /\ contacted' = contacted \union {c}
    /\ UNCHANGED <<Gates, alive, tool, targets, outcome, out, log, google>>

\* The client has its token and talks to Google.
Token(c) ==
    /\ \/ Goto(c, "readToken", "read") /\ UNCHANGED google
       \/ Goto(c, "token", "wait") /\ Google!Begin(Current(c))
    /\ UNCHANGED <<Gates, alive, tool, targets, outcome, out, contacted, log>>

\* Seeded faults: a batch stops at its first error; it runs one past its list; an
\* error counts as applied.
OnePastLast(c, v) == Len(outcome[c]) = Len(targets[c])
StopAtError(c, v) == v # "applied" \/ Len(outcome[c]) + 1 = Len(targets[c])
AnyAnswerIsApplied(v) == "applied"

LastTarget(c, v) == Len(outcome[c]) + 1 = Len(targets[c])

OutcomeOf(v) == IF v = "applied" THEN "applied" ELSE "error"

\* runWrite and appApply: an error ends the call unlogged.
AnsweredPlan(c, from, v) ==
    CASE OutcomeOf(v) = "error" -> Return(c, from, "error")
      [] OutcomeOf(v) = "applied" /\ tool[c].tier = "user" -> Return(c, from, "applied")
      [] OTHER -> Goto(c, from, "log") /\ UNCHANGED out

\* runBulk: an error is recorded and the loop goes on.
AnsweredTarget(c, from, v) ==
    /\ Goto(c, from, IF LastTarget(c, v) THEN "log" ELSE "mutate")
    /\ UNCHANGED out

Answer(c, from, v) ==
    /\ pc[c] = from
    /\ Google!AnswerCall(Current(c), v)
    /\ outcome' = [outcome EXCEPT ![c] = Append(@, OutcomeOf(v))]
    /\ IF tool[c].tier = "bulk" THEN AnsweredTarget(c, from, v) ELSE AnsweredPlan(c, from, v)
    /\ UNCHANGED <<Gates, alive, tool, targets, contacted, log>>

Answered(c, v) == Answer(c, "wait", v)

\* The token source fails: the read is not made, the request never sent.
NoToken(c) ==
    \/ /\ Return(c, "readToken", "error")
       /\ UNCHANGED <<Gates, alive, tool, targets, outcome, contacted, log, google>>
    \/ Answer(c, "token", "refused")

Count(c, o) == Cardinality({i \in DOMAIN outcome[c] : outcome[c][i] = o})

\* Seeded fault: the call returns without its log line when a target failed.
LogOnlySuccess(c) ==
    /\ Return(c, "log", "applied")
    /\ log' = IF Count(c, "error") > 0 THEN log
              ELSE log \union {[call |-> c, applied |-> Count(c, "applied"), errors |-> 0]}
    /\ UNCHANGED <<Gates, alive, tool, targets, outcome, contacted, google>>

\* The log line is written once, before the call returns.
WriteLog(c) ==
    /\ Return(c, "log", "applied")
    /\ log' = log \union
         {[call |-> c, applied |-> Count(c, "applied"), errors |-> Count(c, "error")]}
    /\ UNCHANGED <<Gates, alive, tool, targets, outcome, contacted, google>>

-----------------------------------------------------------------------------

\* Google carries an operation out, before or after the client stopped waiting.
GoogleExecutes(op) ==
    /\ Google!Execute(op, 1)
    /\ UNCHANGED <<Gates, alive, pc, tool, targets, outcome, out, contacted, log>>

\* The process is killed; nothing of its state is persistent.
Crash ==
    /\ alive
    /\ alive' = FALSE
    /\ UNCHANGED <<Gates, pc, tool, targets, outcome, out, contacted, log, google>>

\* What a call does itself, the client that talks to Google included.
Step(c) ==
    \/ CheckGate(c)
    \/ BeginRead(c)
    \/ Prepare(c)
    \/ Mutate(c)
    \/ \E v \in Google!Verdicts : Answered(c, v)
    \/ WriteLog(c)

\* A plan has one target, whatever it is.
ListsFor(t) == IF t.tier = "bulk"
                 THEN TargetLists
                 ELSE {l \in TargetLists : Len(l) = 1 /\ Acceptable(l)}

Next ==
    \/ \E c \in Calls, t \in Tools : \E l \in ListsFor(t) : Invoke(c, t, l)
    \/ \E c \in Calls : Step(c) \/ Token(c) \/ NoToken(c)
    \/ \E op \in Operations : GoogleExecutes(op)
    \/ Crash

\* A call that runs keeps running, and once it has a token the client returns
\* (EveryCallReturns of GapiClient).  Nothing makes the token source answer: a mint has
\* no timeout, and a sign-in or a refresh neither.
Fairness == \A c \in Calls : WF_vars(Step(c))

Spec == Init /\ [][Next]_vars /\ Fairness

-----------------------------------------------------------------------------

Touched(c) == {i \in 1 .. MaxTargets : executed[<<c, i>>] # {}}

\* While its gate is closed a call sends Google nothing, not even the read of its
\* Prepare step; and neither gate opens the other.
ClosedGateIsSilent ==
    \A c \in Calls :
        pc[c] # "idle" /\ ~(IF tool[c].gate = "sends" THEN allowSends ELSE allowWrites)
        => c \notin contacted /\ Touched(c) = {}

\* A batch changes an entry once at most, also when it is named twice.
BulkOncePerTarget ==
    \A c \in Calls : \A i, j \in Touched(c) :
        Trimmed(targets[c][i]) = Trimmed(targets[c][j]) => i = j

\* A batch is never cut short: once it is answered every target was tried, and the
\* log accounts for each.
BulkIsComplete ==
    \A c \in Calls : tool[c].tier = "bulk" /\ out[c] = "applied" =>
        /\ Len(outcome[c]) = Len(targets[c])
        /\ \E e \in log : e.call = c /\ e.applied + e.errors = Len(targets[c])

\* The log never claims more than Google has done, and one call has one line.
LogIsTruthful ==
    \A e \in log :
        /\ e.applied <= Cardinality(Touched(e.call))
        /\ \A f \in log : f.call = e.call => f = e

\* What the application tier reports as applied is in the log.
ReportedIsLogged ==
    \A c \in Calls :
        tool[c].tier # "user" /\ out[c] = "applied" => \E e \in log : e.call = c

\* Every call is answered unless the process dies or the token source never answers
\* it: no error and no other call keeps a batch from its next target.
EveryCallAnswered ==
    \A c \in Calls :
        \/ <>[](pc[c] \in {"readToken", "token"})
        \/ pc[c] = "gate" ~> (pc[c] = "done" \/ ~alive)
=============================================================================
