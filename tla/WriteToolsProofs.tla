-------------------------- MODULE WriteToolsProofs --------------------------
(***************************************************************************)
(* The gates, the batches and the audit log of WriteTools, for any set of  *)
(* calls, tools and target lists; how much a call has left to do; and what *)
(* it asks of Google.                                                      *)
(***************************************************************************)
EXTENDS WriteTools, FiniteSetTheorems, TLAPS

Types ==
    /\ TypeOK
    /\ DOMAIN tool = Calls
    /\ targets \in [Calls -> TargetLists \union {<<>>}]
    /\ phase \in [Operations -> {"idle", "running", "answered"}]
    /\ executed \in [Operations -> SUBSET {1}]

\* How many operations call c has asked Google for.
Asked(c) == Len(outcome[c]) + (IF pc[c] = "wait" THEN 1 ELSE 0)

\* Where a call is before its first change, and from the open gate on.
Before == {"gate", "prepare", "readToken", "read"}
Open == {"prepare", "readToken", "read", "mutate", "token", "wait", "log"}

\* Only an acceptable list is worked on, and only to its end.
ProgressInv(c) ==
    /\ pc[c] \in {"idle"} \union Before => outcome[c] = <<>>
    /\ pc[c] \in Before \union {"mutate", "token", "wait"} =>
         Acceptable(targets[c]) /\ Len(outcome[c]) < Len(targets[c])
    /\ outcome[c] # <<>> => Acceptable(targets[c])
    /\ pc[c] = "log" =>
         /\ tool[c].tier # "user"
         /\ tool[c].tier = "bulk" => Len(outcome[c]) = Len(targets[c])
    /\ pc[c] # "done" => out[c] = "none"

\* Nothing is sent before the gate was found open.
GateInv(c) ==
    /\ pc[c] \in Open \/ c \in contacted =>
         GateOpen(tool[c].gate)
    /\ c \in contacted => pc[c] \notin {"idle", "gate"}
    /\ pc[c] \in {"readToken", "read", "token", "wait"} \/ outcome[c] # <<>> => c \in contacted

\* Google carries out what was asked, and has carried out what it said it had.
GoogleInv(c) ==
    \A i \in 1 .. MaxTargets :
        /\ executed[<<c, i>>] # {} => phase[<<c, i>>] # "idle"
        /\ phase[<<c, i>>] # "idle" => i <= Asked(c)
        /\ i \in DOMAIN outcome[c] /\ outcome[c][i] = "applied" => executed[<<c, i>>] # {}

LogLine(c) == [call |-> c, applied |-> Count(c, "applied"), errors |-> Count(c, "error")]

\* The line of a call is written when its outcome is final.
LogInv(c) ==
    /\ \A e \in log : e.call = c => pc[c] = "done" /\ e = LogLine(c)
    /\ tool[c].tier # "user" /\ out[c] = "applied" => LogLine(c) \in log
    /\ tool[c].tier = "bulk" /\ out[c] = "applied" => Len(outcome[c]) = Len(targets[c])

CallInv(c) == ProgressInv(c) /\ GateInv(c) /\ GoogleInv(c) /\ LogInv(c)

IInv == Types /\ \A c \in Calls : CallInv(c)

-----------------------------------------------------------------------------

\* Sequences of names, and how long they are.
LEMMA ListTyping ==
    ASSUME NEW l \in TargetLists \union {<<>>}
    PROVE  /\ Len(l) \in Nat /\ Len(l) <= MaxTargets /\ DOMAIN l = 1 .. Len(l)
           /\ l = <<>> <=> Len(l) = 0
           /\ MaxTargets \in Nat
<1>1. MaxTargets \in Nat
  BY TargetListsAssumption
<1>2. CASE l = <<>>
  BY <1>1, <1>2
<1>3. CASE l \in TargetLists
  BY <1>1, <1>3, TargetListsAssumption
<1>. QED BY <1>1, <1>2, <1>3

\* The outcomes that say o are counted by a natural number.
LEMMA CountTyping ==
    ASSUME NEW c, outcome[c] \in Seq({"applied", "error"}), NEW o
    PROVE  /\ IsFiniteSet({i \in DOMAIN outcome[c] : outcome[c][i] = o})
           /\ Count(c, o) \in Nat
<1> DEFINE S == {i \in DOMAIN outcome[c] : outcome[c][i] = o}
<1>1. DOMAIN outcome[c] = 1 .. Len(outcome[c]) /\ Len(outcome[c]) \in Nat
  OBVIOUS
<1>2. IsFiniteSet(1 .. Len(outcome[c]))
  BY <1>1, FS_Interval
<1>3. S \subseteq 1 .. Len(outcome[c])
  BY <1>1
<1>4. IsFiniteSet(S)
  BY <1>2, <1>3, FS_Subset
<1>5. Cardinality(S) \in Nat
  BY <1>4, FS_CardinalityType
<1>. QED BY <1>4, <1>5 DEF Count

\* Every outcome is one or the other.
LEMMA CountsAddUp ==
    ASSUME NEW c, outcome[c] \in Seq({"applied", "error"})
    PROVE  Count(c, "applied") + Count(c, "error") = Len(outcome[c])
<1> DEFINE D == DOMAIN outcome[c]
           S == {i \in D : outcome[c][i] = "applied"}
           T == {i \in D : outcome[c][i] = "error"}
<1>1. D = 1 .. Len(outcome[c]) /\ Len(outcome[c]) \in Nat
      /\ \A i \in D : outcome[c][i] \in {"applied", "error"}
  OBVIOUS
<1>2. S \union T = D /\ S \intersect T = {}
  BY <1>1
<1>3. IsFiniteSet(S) /\ IsFiniteSet(T)
  BY CountTyping
<1>4. Cardinality(S \union T) = Cardinality(S) + Cardinality(T) - Cardinality(S \intersect T)
  BY <1>3, FS_Union
<1>5. Cardinality(S \intersect T) = 0
  BY <1>2, FS_EmptySet
<1>6. Cardinality(D) = Len(outcome[c])
  <2> DEFINE n == Len(outcome[c])
  <2>1. D = 1 .. n /\ n \in Nat
    BY <1>1
  <2> HIDE DEF n, D
  <2>2. Cardinality(1 .. n) = IF 1 > n THEN 0 ELSE n - 1 + 1
    BY <2>1, FS_Interval
  <2>3. Cardinality(D) = n
    BY <2>1, <2>2
  <2>. QED BY <2>3 DEF n
<1>7. Cardinality(S) \in Nat /\ Cardinality(T) \in Nat
  BY <1>3, FS_CardinalityType
<1>8. Cardinality(D) = Cardinality(S) + Cardinality(T) - Cardinality(S \intersect T)
  BY <1>2, <1>4
<1> HIDE DEF D, S, T
<1>9. Cardinality(S) + Cardinality(T) = Len(outcome[c])
  BY <1>5, <1>6, <1>7, <1>8
<1>. QED BY <1>9 DEF Count, S, T, D

LEMMA InitIInv == Init => IInv
<1> SUFFICES ASSUME Init PROVE IInv
  OBVIOUS
<1>1. Types
  BY DEF Init, Google!Init, Types, TypeOK, PCs
<1>2. ASSUME NEW c \in Calls PROVE CallInv(c)
  BY <1>2 DEF Init, Google!Init, CallInv, ProgressInv, Before, GateInv, Open, GoogleInv, LogInv, Operations
<1>. QED BY <1>1, <1>2 DEF IInv

-----------------------------------------------------------------------------
(* One lemma per action: the parts about the acting call; the others keep  *)
(* their state.                                                            *)

Same(d) ==
    /\ pc'[d] = pc[d] /\ tool'[d] = tool[d] /\ targets'[d] = targets[d]
    /\ outcome'[d] = outcome[d] /\ out'[d] = out[d]
    /\ d \in contacted' <=> d \in contacted
    /\ \A i \in 1 .. MaxTargets :
         phase'[<<d, i>>] = phase[<<d, i>>] /\ executed'[<<d, i>>] = executed[<<d, i>>]

\* Only call c may have added to the log.
LogGrows(c) == log \subseteq log' /\ \A e \in log' : e \in log \/ e.call = c

\* What call c does, and what its token source does to it.
Moves(c) == Step(c) \/ Token(c) \/ NoToken(c)

\* What has to be shown of a step of call c.
Preserved(c) ==
    /\ Types' /\ CallInv(c)'
    /\ UNCHANGED Gates /\ LogGrows(c)
    /\ \A d \in Calls \ {c} : Same(d)

LEMMA SameInv ==
    ASSUME NEW d, CallInv(d), Same(d), UNCHANGED Gates, log \subseteq log',
           \A e \in log' : e.call = d => e \in log
    PROVE  CallInv(d)'
<1>1. Count(d, "applied")' = Count(d, "applied") /\ Count(d, "error")' = Count(d, "error")
  BY DEF Same, Count
<1>2. LogLine(d)' = LogLine(d)
  BY <1>1 DEF LogLine
<1>3. LogInv(d)'
  BY <1>2 DEF CallInv, LogInv, Same
<1>4. ProgressInv(d)'
  BY DEF CallInv, ProgressInv, Before, Same, Acceptable, Distinct, Trimmed
<1>5. GateInv(d)'
  BY DEF CallInv, GateInv, Open, Same, GateOpen, Gates
<1>6. GoogleInv(d)'
  BY DEF CallInv, GoogleInv, Same, Asked
<1>. QED BY <1>3, <1>4, <1>5, <1>6 DEF CallInv

\* A call whose outcome does not change and which writes no line keeps its lines.
LEMMA NoNewLine ==
    ASSUME NEW c \in Calls, LogInv(c), outcome'[c] = outcome[c], log' = log,
           \A e \in log : e.call = c => pc'[c] = "done",
           tool'[c].tier # "user" /\ out'[c] = "applied" =>
               tool[c].tier # "user" /\ out[c] = "applied",
           tool'[c].tier = "bulk" /\ out'[c] = "applied" =>
               Len(outcome[c]) = Len(targets'[c])
    PROVE  LogInv(c)'
<1>1. Count(c, "applied")' = Count(c, "applied") /\ Count(c, "error")' = Count(c, "error")
  BY DEF Count
<1>2. LogLine(c)' = LogLine(c)
  BY <1>1 DEF LogLine
<1>. QED BY <1>2 DEF LogInv

Outs == {"none", "dryRun", "applied", "error"}

\* A call that goes on or returns, and changes only who was contacted.
LEMMA MoveTypes ==
    ASSUME Types, NEW c \in Calls, pc[c] # "idle", NEW p \in PCs, NEW o \in Outs,
           pc' = [pc EXCEPT ![c] = p], out' = [out EXCEPT ![c] = o],
           contacted' \subseteq Calls,
           UNCHANGED <<Gates, alive, tool, targets, outcome, log, google>>
    PROVE  Types'
<1>1. pc' \in [Calls -> PCs]
  BY DEF Types, TypeOK
<1>2. out' \in [Calls -> Outs]
  BY DEF Types, TypeOK, Outs
<1>3. \A d \in Calls : pc'[d] # "idle" => tool'[d] \in Tools
  BY DEF Types, TypeOK
<1>4. UNCHANGED <<allowWrites, allowSends, alive, tool, targets, outcome, log, phase, executed>>
  BY DEF Gates, google
<1>. QED BY <1>1, <1>2, <1>3, <1>4 DEF Types, TypeOK, Outs

LEMMA InvokeInv ==
    ASSUME IInv, NEW c \in Calls, NEW t \in Tools, NEW l \in ListsFor(t), Invoke(c, t, l)
    PROVE  Preserved(c)
<1>1. PICK p \in {"gate", "done"}, o \in {"none", "error"} :
      /\ pc[c] = "idle" /\ pc' = [pc EXCEPT ![c] = p] /\ out' = [out EXCEPT ![c] = o]
      /\ p = "gate" => Acceptable(l) /\ o = "none"
      /\ tool' = [tool EXCEPT ![c] = t] /\ targets' = [targets EXCEPT ![c] = l]
      /\ UNCHANGED <<Gates, alive, outcome, contacted, log, google>>
  BY DEF IInv, Types, TypeOK, CallInv, ProgressInv, Invoke, Goto, Return
<1>0. pc'[c] = p /\ out'[c] = o /\ tool'[c] = t /\ targets'[c] = l
  BY <1>1 DEF IInv, Types, TypeOK
<1>2. l \in TargetLists /\ Len(l) \in Nat /\ (l # <<>> => Len(l) > 0)
  <2>1. l \in TargetLists
    BY DEF ListsFor
  <2>. QED BY <2>1, ListTyping
<1>3. outcome[c] = <<>> /\ c \notin contacted /\ \A e \in log : e.call # c
  BY <1>1 DEF IInv, CallInv, ProgressInv, Before, GateInv, LogInv
<1>4. \A d \in Calls \ {c} : Same(d)
  BY <1>1 DEF IInv, Types, TypeOK, Same, google
<1>5. Types'
  <2>1. \A d \in Calls : Len(outcome'[d]) <= Len(targets'[d])
    BY <1>1, <1>2, <1>3 DEF IInv, Types, TypeOK
  <2>2. DOMAIN tool' = Calls /\ \A d \in Calls : pc'[d] # "idle" => tool'[d] \in Tools
    BY <1>1 DEF IInv, Types, TypeOK
  <2>3. targets' \in [Calls -> TargetLists \union {<<>>}]
    BY <1>1, <1>2 DEF IInv, Types
  <2>4. pc' \in [Calls -> PCs]
    BY <1>1 DEF IInv, Types, TypeOK, PCs
  <2>5. out' \in [Calls -> {"none", "dryRun", "applied", "error"}]
    BY <1>1 DEF IInv, Types, TypeOK
  <2>. QED BY <1>1, <2>1, <2>2, <2>3, <2>4, <2>5 DEF IInv, Types, TypeOK, Gates, google
<1>6. ProgressInv(c)'
  <2>1. targets'[c] = l /\ outcome'[c] = <<>>
    BY <1>1, <1>3 DEF IInv, Types
  <2>2. Acceptable(l) => Len(l) > 0
    BY <1>2 DEF Acceptable
  <2>3. Acceptable(l) => Acceptable(targets[c])' /\ Len(outcome'[c]) < Len(targets'[c])
    <3>1. Acceptable(l) => Acceptable(targets[c])'
      BY <2>1 DEF Acceptable, Distinct, Trimmed
    <3>. QED BY <1>2, <2>1, <2>2, <3>1
  <2>. QED BY <1>0, <1>1, <2>1, <2>3 DEF ProgressInv, Before
<1>7. GateInv(c)'
  BY <1>0, <1>1, <1>3 DEF GateInv, Open
<1>8. GoogleInv(c)'
  BY <1>0, <1>1 DEF IInv, CallInv, GoogleInv, Asked, google
<1>9. LogInv(c)'
  BY <1>0, <1>1, <1>3 DEF LogInv
<1>. QED BY <1>1, <1>4, <1>5, <1>6, <1>7, <1>8, <1>9 DEF Preserved, CallInv, LogGrows

\* The gate and the Prepare step touch where the call is and who was contacted.
LEMMA CheckGateInv ==
    ASSUME IInv, NEW c \in Calls, CheckGate(c)
    PROVE  Preserved(c)
<1>1. PICK p \in PCs, o \in Outs :
      /\ pc[c] = "gate" /\ pc' = [pc EXCEPT ![c] = p] /\ out' = [out EXCEPT ![c] = o]
      /\ \/ p \in {"prepare", "mutate"} /\ GateOpen(tool[c].gate) /\ o = "none"
         \/ p = "done" /\ o = "dryRun"
      /\ UNCHANGED <<Gates, alive, tool, targets, outcome, contacted, log, google>>
  BY DEF IInv, Types, TypeOK, CallInv, ProgressInv, CheckGate, Goto, Return, PCs, Outs
<1>0. pc'[c] = p /\ out'[c] = o
  BY <1>1 DEF IInv, Types, TypeOK
<1>2. Types'
  BY <1>1, MoveTypes DEF IInv, Types, TypeOK
<1>3. \A d \in Calls \ {c} : Same(d)
  BY <1>1 DEF IInv, Types, TypeOK, Same, google
<1>4. ProgressInv(c)'
  BY <1>0, <1>1 DEF IInv, CallInv, ProgressInv, Before, Acceptable, Distinct, Trimmed
<1>5. GateInv(c)'
  BY <1>0, <1>1 DEF IInv, CallInv, GateInv, Open, ProgressInv, Before, GateOpen, Gates
<1>6. GoogleInv(c)'
  BY <1>0, <1>1 DEF IInv, CallInv, GoogleInv, Asked, google
<1>7. LogInv(c)'
  <2>1. \A e \in log : e.call # c
    BY <1>1 DEF IInv, CallInv, LogInv
  <2>. QED BY <1>0, <1>1, <2>1 DEF LogInv
<1>. QED BY <1>1, <1>2, <1>3, <1>4, <1>5, <1>6, <1>7 DEF Preserved, CallInv, LogGrows

LEMMA BeginReadInv ==
    ASSUME IInv, NEW c \in Calls, BeginRead(c)
    PROVE  Preserved(c)
<1>1. PICK p \in PCs, o \in Outs :
      /\ pc[c] = "prepare" /\ pc' = [pc EXCEPT ![c] = p] /\ out' = [out EXCEPT ![c] = o]
      /\ p = "readToken" /\ o = "none"
      /\ contacted' = contacted \union {c}
      /\ UNCHANGED <<Gates, alive, tool, targets, outcome, log, google>>
  BY DEF IInv, Types, TypeOK, CallInv, ProgressInv, BeginRead, Goto, PCs, Outs
<1>0. pc'[c] = p /\ out'[c] = o
  BY <1>1 DEF IInv, Types, TypeOK
<1>2. Types'
  BY <1>1, MoveTypes DEF IInv, Types, TypeOK
<1>3. \A d \in Calls \ {c} : Same(d)
  BY <1>1 DEF IInv, Types, TypeOK, Same, google
<1>4. ProgressInv(c)'
  BY <1>0, <1>1 DEF IInv, CallInv, ProgressInv, Before, Acceptable, Distinct, Trimmed
<1>5. GateInv(c)'
  BY <1>0, <1>1 DEF IInv, CallInv, GateInv, Open, GateOpen, Gates
<1>6. GoogleInv(c)'
  BY <1>0, <1>1 DEF IInv, CallInv, GoogleInv, Asked, google
<1>7. LogInv(c)'
  <2>1. \A e \in log : e.call # c
    BY <1>1 DEF IInv, CallInv, LogInv
  <2>. QED BY <1>0, <1>1, <2>1 DEF LogInv
<1>. QED BY <1>1, <1>2, <1>3, <1>4, <1>5, <1>6, <1>7 DEF Preserved, CallInv, LogGrows

LEMMA PrepareInv ==
    ASSUME IInv, NEW c \in Calls, Prepare(c)
    PROVE  Preserved(c)
<1>1. PICK p \in PCs, o \in Outs :
      /\ pc[c] = "read" /\ pc' = [pc EXCEPT ![c] = p] /\ out' = [out EXCEPT ![c] = o]
      /\ \/ p = "mutate" /\ o = "none"
         \/ p = "done" /\ o = "error"
      /\ UNCHANGED <<Gates, alive, tool, targets, outcome, contacted, log, google>>
  BY DEF IInv, Types, TypeOK, CallInv, ProgressInv, Prepare, Goto, Return, PCs, Outs
<1>0. pc'[c] = p /\ out'[c] = o
  BY <1>1 DEF IInv, Types, TypeOK
<1>2. Types'
  BY <1>1, MoveTypes DEF IInv, Types, TypeOK
<1>3. \A d \in Calls \ {c} : Same(d)
  BY <1>1 DEF IInv, Types, TypeOK, Same, google
<1>4. ProgressInv(c)'
  BY <1>0, <1>1 DEF IInv, CallInv, ProgressInv, Before, Acceptable, Distinct, Trimmed
<1>5. GateInv(c)'
  BY <1>0, <1>1 DEF IInv, CallInv, GateInv, Open, GateOpen, Gates
<1>6. GoogleInv(c)'
  BY <1>0, <1>1 DEF IInv, CallInv, GoogleInv, Asked, google
<1>7. LogInv(c)'
  <2>1. \A e \in log : e.call # c
    BY <1>1 DEF IInv, CallInv, LogInv
  <2>. QED BY <1>0, <1>1, <2>1 DEF LogInv
<1>. QED BY <1>1, <1>2, <1>3, <1>4, <1>5, <1>6, <1>7 DEF Preserved, CallInv, LogGrows

\* The operation a call sends is one of its own, and not beyond its list.
LEMMA CurrentTyping ==
    ASSUME IInv, NEW c \in Calls, pc[c] \in {"token", "wait"}
    PROVE  /\ Len(outcome[c]) \in Nat /\ Len(targets[c]) \in Nat
           /\ Len(outcome[c]) < Len(targets[c])
           /\ Len(outcome[c]) + 1 \in 1 .. MaxTargets
           /\ outcome[c] \in Seq({"applied", "error"})
           /\ Current(c) \in Operations
<1>1. outcome[c] \in Seq({"applied", "error"}) /\ targets[c] \in TargetLists \union {<<>>}
  BY DEF IInv, Types, TypeOK
<1>2. Len(targets[c]) \in Nat /\ Len(targets[c]) <= MaxTargets /\ MaxTargets \in Nat
  BY <1>1, ListTyping
<1>3. Len(outcome[c]) \in Nat
  BY <1>1
<1>4. Len(outcome[c]) < Len(targets[c])
  BY DEF IInv, CallInv, ProgressInv
<1>5. Len(outcome[c]) + 1 \in 1 .. MaxTargets
  BY <1>2, <1>3, <1>4
<1>. QED BY <1>1, <1>2, <1>3, <1>4, <1>5 DEF Current, Operations

LEMMA MutateInv ==
    ASSUME IInv, NEW c \in Calls, Mutate(c)
    PROVE  Preserved(c)
<1>1. /\ pc[c] = "mutate" /\ pc' = [pc EXCEPT ![c] = "token"]
      /\ contacted' = contacted \union {c}
      /\ UNCHANGED <<Gates, alive, tool, targets, outcome, out, log, google>>
  BY DEF Mutate, Goto
<1>0. pc'[c] = "token" /\ out[c] = "none"
  BY <1>1 DEF IInv, Types, TypeOK, CallInv, ProgressInv
<1>2. Types'
  <2>1. pc' \in [Calls -> PCs] /\ contacted' \subseteq Calls
    BY <1>1 DEF IInv, Types, TypeOK, PCs
  <2>2. \A d \in Calls : pc'[d] # "idle" => tool'[d] \in Tools
    BY <1>1 DEF IInv, Types, TypeOK
  <2>. QED BY <1>1, <2>1, <2>2 DEF IInv, Types, TypeOK, Gates, google
<1>3. \A d \in Calls \ {c} : Same(d)
  BY <1>1 DEF IInv, Types, TypeOK, Same, google
<1>4. ProgressInv(c)'
  BY <1>0, <1>1 DEF IInv, CallInv, ProgressInv, Before, Acceptable, Distinct, Trimmed
<1>5. GateInv(c)'
  BY <1>0, <1>1 DEF IInv, CallInv, GateInv, Open, GateOpen, Gates
<1>6. GoogleInv(c)'
  BY <1>0, <1>1 DEF IInv, CallInv, GoogleInv, Asked, google
<1>7. LogInv(c)'
  <2>1. \A e \in log : e.call # c
    BY <1>1 DEF IInv, CallInv, LogInv
  <2>. QED BY <1>0, <1>1, <2>1 DEF LogInv
<1>. QED BY <1>1, <1>2, <1>3, <1>4, <1>5, <1>6, <1>7 DEF Preserved, CallInv, LogGrows

\* The token source answers the read, or fails it.
LEMMA ReadTokenInv ==
    ASSUME IInv, NEW c \in Calls, NEW p \in {"read", "done"}, NEW o \in {"none", "error"},
           pc[c] = "readToken", pc' = [pc EXCEPT ![c] = p], out' = [out EXCEPT ![c] = o],
           p = "read" => o = "none",
           p = "done" => o = "error",
           UNCHANGED <<Gates, alive, tool, targets, outcome, contacted, log, google>>
    PROVE  Preserved(c)
<1>1. pc'[c] = p /\ out'[c] = o
  BY DEF IInv, Types, TypeOK
<1>2. Types'
  BY MoveTypes DEF IInv, Types, TypeOK, PCs, Outs
<1>3. \A d \in Calls \ {c} : Same(d)
  BY DEF IInv, Types, TypeOK, Same, google
<1>4. ProgressInv(c)'
  BY <1>1 DEF IInv, CallInv, ProgressInv, Before, Acceptable, Distinct, Trimmed
<1>5. GateInv(c)'
  BY <1>1 DEF IInv, CallInv, GateInv, Open, GateOpen, Gates
<1>6. GoogleInv(c)'
  BY <1>1 DEF IInv, CallInv, GoogleInv, Asked, google
<1>7. LogInv(c)'
  <2>1. \A e \in log : e.call # c
    BY DEF IInv, CallInv, LogInv
  <2>. QED BY <1>1, <2>1 DEF LogInv
<1>. QED BY <1>2, <1>3, <1>4, <1>5, <1>6, <1>7 DEF Preserved, CallInv, LogGrows

\* The request goes out.
LEMMA SendInv ==
    ASSUME IInv, NEW c \in Calls, pc[c] = "token", pc' = [pc EXCEPT ![c] = "wait"],
           Google!Begin(Current(c)),
           UNCHANGED <<Gates, alive, tool, targets, outcome, out, contacted, log>>
    PROVE  Preserved(c)
<1> DEFINE k == Len(outcome[c]) + 1
<1>1. /\ pc[c] = "token" /\ pc' = [pc EXCEPT ![c] = "wait"]
      /\ phase' = [phase EXCEPT ![<<c, k>>] = "running"]
      /\ UNCHANGED <<Gates, alive, tool, targets, outcome, out, contacted, log, executed>>
  BY DEF Google!Begin, Current
<1>2. /\ Len(outcome[c]) \in Nat /\ Len(targets[c]) \in Nat
      /\ Len(outcome[c]) < Len(targets[c]) /\ k \in 1 .. MaxTargets
  BY <1>1, CurrentTyping
<1> HIDE DEF k
<1>3. pc'[c] = "wait" /\ \A i \in 1 .. MaxTargets : i # k => phase'[<<c, i>>] = phase[<<c, i>>]
  BY <1>1, <1>2 DEF IInv, Types, TypeOK, Operations
<1>4. Types'
  <2>1. pc' \in [Calls -> PCs] /\ contacted' \subseteq Calls
    BY <1>1 DEF IInv, Types, TypeOK, PCs
  <2>2. phase' \in [Operations -> {"idle", "running", "answered"}]
    BY <1>1 DEF IInv, Types
  <2>3. \A d \in Calls : pc'[d] # "idle" => tool'[d] \in Tools
    BY <1>1 DEF IInv, Types, TypeOK
  <2>. QED BY <1>1, <2>1, <2>2, <2>3 DEF IInv, Types, TypeOK, Gates
<1>5. \A d \in Calls \ {c} : Same(d)
  <2>1. \A d \in Calls \ {c} : \A i \in 1 .. MaxTargets : phase'[<<d, i>>] = phase[<<d, i>>]
    BY <1>1, <1>2 DEF IInv, Types, Operations
  <2>. QED BY <1>1, <2>1 DEF IInv, Types, TypeOK, Same
<1>6. ProgressInv(c)'
  <2>1. /\ Acceptable(targets[c]) /\ Len(outcome[c]) < Len(targets[c])
        /\ out[c] = "none"
    BY <1>1 DEF IInv, CallInv, ProgressInv
  <2>2. /\ targets'[c] = targets[c] /\ outcome'[c] = outcome[c]
        /\ out'[c] = out[c] /\ tool'[c] = tool[c]
    BY <1>1
  <2>. QED BY <1>3, <2>1, <2>2 DEF ProgressInv, Before
<1>7. GateInv(c)'
  BY <1>1, <1>3 DEF IInv, CallInv, GateInv, Open, GateOpen, Gates
<1>8. GoogleInv(c)'
  <2>1. Asked(c)' = k /\ Asked(c) = Len(outcome[c])
    BY <1>1, <1>2, <1>3 DEF Asked, k
  <2>2. \A i \in 1 .. MaxTargets : phase'[<<c, i>>] # "idle" => i <= k
    BY <1>2, <1>3, <2>1 DEF IInv, CallInv, GoogleInv, k
  <2>3. phase'[<<c, k>>] = "running"
    BY <1>1, <1>2 DEF IInv, Types, Operations
  <2>4. ASSUME NEW i \in 1 .. MaxTargets
        PROVE  /\ executed'[<<c, i>>] # {} => phase'[<<c, i>>] # "idle"
               /\ i \in DOMAIN outcome'[c] /\ outcome'[c][i] = "applied" => executed'[<<c, i>>] # {}
    BY <1>1, <1>3, <2>3 DEF IInv, CallInv, GoogleInv
  <2>. QED BY <2>1, <2>2, <2>4 DEF GoogleInv
<1>9. LogInv(c)'
  <2>1. \A e \in log : e.call # c
    BY <1>1 DEF IInv, CallInv, LogInv
  <2>2. out'[c] = "none"
    BY <1>1 DEF IInv, CallInv, ProgressInv
  <2>. QED BY <1>1, <2>1, <2>2 DEF LogInv
<1>. QED BY <1>1, <1>4, <1>5, <1>6, <1>7, <1>8, <1>9 DEF Preserved, CallInv, LogGrows

LEMMA TokenInv ==
    ASSUME IInv, NEW c \in Calls, Token(c)
    PROVE  Preserved(c)
<1>1. CASE Goto(c, "readToken", "read") /\ UNCHANGED google
  <2>1. out' = [out EXCEPT ![c] = "none"]
    BY <1>1 DEF Token, Goto, IInv, Types, TypeOK, CallInv, ProgressInv
  <2>. QED BY <1>1, <2>1, ReadTokenInv DEF Token, Goto
<1>2. CASE Goto(c, "token", "wait") /\ Google!Begin(Current(c))
  BY <1>2, SendInv DEF Token, Goto
<1>. QED BY <1>1, <1>2 DEF Token

\* What the answer to the current target does to the call.
AnsweredTo(c, from, p, o, v) ==
    /\ pc[c] = from /\ pc' = [pc EXCEPT ![c] = p] /\ out' = [out EXCEPT ![c] = o]
    /\ v = "applied" => executed[Current(c)] # {}
    /\ phase' = [phase EXCEPT ![Current(c)] = "answered"]
    /\ outcome' = [outcome EXCEPT ![c] = Append(@, OutcomeOf(v))]
    /\ p = "mutate" => Len(outcome[c]) + 1 # Len(targets[c])
    /\ p = "log" => /\ tool[c].tier # "user"
                    /\ tool[c].tier = "bulk" => Len(outcome[c]) + 1 = Len(targets[c])
    /\ p # "done" => o = "none"
    /\ o = "applied" => tool[c].tier = "user"
    /\ UNCHANGED <<Gates, alive, tool, targets, contacted, log, executed>>

LEMMA AnswerMeans ==
    ASSUME IInv, NEW c \in Calls, NEW from \in {"token", "wait"},
           NEW v \in Google!Verdicts, Answer(c, from, v)
    PROVE  \E p \in {"mutate", "log", "done"}, o \in Outs : AnsweredTo(c, from, p, o, v)
<1>1. /\ pc[c] = from
      /\ v = "applied" => executed[Current(c)] # {}
      /\ phase' = [phase EXCEPT ![Current(c)] = "answered"]
      /\ outcome' = [outcome EXCEPT ![c] = Append(@, OutcomeOf(v))]
      /\ UNCHANGED <<Gates, alive, tool, targets, contacted, log, executed>>
  BY DEF Answer, Google!AnswerCall
<1>2. out[c] = "none" /\ out = [out EXCEPT ![c] = "none"]
  <2>1. out[c] = "none"
    BY <1>1 DEF IInv, CallInv, ProgressInv
  <2>2. out \in [Calls -> Outs]
    BY DEF IInv, Types, TypeOK, Outs
  <2>. QED BY <2>1, <2>2
<1>3. CASE tool[c].tier = "bulk"
  <2>1. AnsweredTarget(c, from, v)
    BY <1>3 DEF Answer
  <2>2. CASE LastTarget(c, v)
    <3>1. AnsweredTo(c, from, "log", "none", v)
      BY <1>1, <1>2, <1>3, <2>1, <2>2 DEF AnsweredTarget, LastTarget, Goto, AnsweredTo
    <3>. QED BY <3>1 DEF Outs
  <2>3. CASE ~LastTarget(c, v)
    <3>1. AnsweredTo(c, from, "mutate", "none", v)
      BY <1>1, <1>2, <1>3, <2>1, <2>3 DEF AnsweredTarget, LastTarget, Goto, AnsweredTo
    <3>. QED BY <3>1 DEF Outs
  <2>. QED BY <2>2, <2>3
<1>4. CASE tool[c].tier # "bulk"
  <2>1. AnsweredPlan(c, from, v)
    BY <1>4 DEF Answer
  <2>2. CASE Return(c, from, "error")
    <3>1. AnsweredTo(c, from, "done", "error", v)
      BY <1>1, <2>2 DEF Return, Goto, AnsweredTo
    <3>. QED BY <3>1 DEF Outs
  <2>3. CASE tool[c].tier = "user" /\ Return(c, from, "applied")
    <3>1. AnsweredTo(c, from, "done", "applied", v)
      BY <1>1, <2>3 DEF Return, Goto, AnsweredTo
    <3>. QED BY <3>1 DEF Outs
  <2>4. CASE tool[c].tier # "user" /\ Goto(c, from, "log") /\ UNCHANGED out
    <3>1. AnsweredTo(c, from, "log", "none", v)
      BY <1>1, <1>2, <1>4, <2>4 DEF Goto, AnsweredTo
    <3>. QED BY <3>1 DEF Outs
  <2>. QED BY <2>1, <2>2, <2>3, <2>4 DEF AnsweredPlan, OutcomeOf
<1>. QED BY <1>3, <1>4

LEMMA AnswerInv ==
    ASSUME IInv, NEW c \in Calls, NEW from \in {"token", "wait"},
           NEW v \in Google!Verdicts, Answer(c, from, v)
    PROVE  Preserved(c)
<1> DEFINE k == Len(outcome[c]) + 1
           w == OutcomeOf(v)
<1>1. PICK p \in {"mutate", "log", "done"}, o \in Outs : AnsweredTo(c, from, p, o, v)
  BY AnswerMeans
<1>2. /\ pc[c] = from /\ pc' = [pc EXCEPT ![c] = p] /\ out' = [out EXCEPT ![c] = o]
      /\ v = "applied" => executed[<<c, k>>] # {}
      /\ phase' = [phase EXCEPT ![<<c, k>>] = "answered"]
      /\ outcome' = [outcome EXCEPT ![c] = Append(@, w)]
      /\ p = "mutate" => k # Len(targets[c])
      /\ p = "log" => tool[c].tier # "user" /\ (tool[c].tier = "bulk" => k = Len(targets[c]))
      /\ p # "done" => o = "none"
      /\ o = "applied" => tool[c].tier = "user"
      /\ UNCHANGED <<Gates, alive, tool, targets, contacted, log, executed>>
  BY <1>1 DEF AnsweredTo, Current
<1>3. /\ Len(outcome[c]) \in Nat /\ Len(targets[c]) \in Nat
      /\ Len(outcome[c]) < Len(targets[c]) /\ k \in 1 .. MaxTargets
      /\ outcome[c] \in Seq({"applied", "error"})
  BY <1>2, CurrentTyping
<1>4. w \in {"applied", "error"} /\ (w = "applied" => v = "applied")
  BY DEF OutcomeOf
<1>5. /\ outcome'[c] = Append(outcome[c], w)
      /\ pc'[c] = p /\ out'[c] = o /\ phase'[<<c, k>>] = "answered"
      /\ \A d \in Calls \ {c} : outcome'[d] = outcome[d]
  BY <1>2, <1>3 DEF IInv, Types, TypeOK, Operations
<1>6. /\ Len(outcome'[c]) = k /\ DOMAIN outcome'[c] = 1 .. k /\ outcome'[c] # <<>>
      /\ outcome'[c] \in Seq({"applied", "error"})
      /\ outcome'[c][k] = w /\ \A i \in 1 .. k : i # k => i \in DOMAIN outcome[c]
      /\ \A i \in 1 .. k : i # k => outcome'[c][i] = outcome[c][i]
  BY <1>3, <1>4, <1>5
<1> HIDE DEF k, w
<1>7. \A i \in 1 .. MaxTargets : i # k => phase'[<<c, i>>] = phase[<<c, i>>]
  BY <1>2, <1>3 DEF IInv, Types, Operations
<1>8. Types'
  <2>1. pc' \in [Calls -> PCs]
    BY <1>2 DEF IInv, Types, TypeOK, PCs
  <2>2. out' \in [Calls -> {"none", "dryRun", "applied", "error"}]
    BY <1>2 DEF IInv, Types, TypeOK, Outs
  <2>3. phase' \in [Operations -> {"idle", "running", "answered"}]
    BY <1>2 DEF IInv, Types
  <2>4. \A d \in Calls : pc'[d] # "idle" => tool'[d] \in Tools
    BY <1>2 DEF IInv, Types, TypeOK
  <2>5. outcome' \in [Calls -> Seq({"applied", "error"})]
    <3>1. DOMAIN outcome' = Calls /\ outcome' = [d \in Calls |-> outcome'[d]]
      BY <1>2 DEF IInv, Types, TypeOK
    <3>2. \A d \in Calls : outcome'[d] \in Seq({"applied", "error"})
      BY <1>5, <1>6 DEF IInv, Types, TypeOK
    <3>. QED BY <3>1, <3>2
  <2>6. \A d \in Calls : Len(outcome'[d]) <= Len(targets'[d])
    <3>1. Len(outcome'[c]) <= Len(targets'[c])
      BY <1>2, <1>3, <1>6 DEF k
    <3>. QED BY <3>1, <1>2, <1>5 DEF IInv, Types, TypeOK
  <2>. QED BY <1>2, <2>1, <2>2, <2>3, <2>4, <2>5, <2>6 DEF IInv, Types, TypeOK, Gates
<1>9. \A d \in Calls \ {c} : Same(d)
  <2>1. \A d \in Calls \ {c} : \A i \in 1 .. MaxTargets : phase'[<<d, i>>] = phase[<<d, i>>]
    BY <1>2, <1>3 DEF IInv, Types, Operations
  <2>2. \A d \in Calls \ {c} : pc'[d] = pc[d] /\ out'[d] = out[d]
    BY <1>2 DEF IInv, Types, TypeOK
  <2>. QED BY <1>2, <1>5, <2>1, <2>2 DEF Same
<1>10. ProgressInv(c)'
  <2>1. Acceptable(targets[c])'
    BY <1>2 DEF IInv, CallInv, ProgressInv, Before, Acceptable, Distinct, Trimmed
  <2>2. p = "mutate" => Len(outcome'[c]) < Len(targets'[c])
    BY <1>2, <1>3, <1>6 DEF k
  <2>. QED BY <1>2, <1>5, <1>6, <2>1, <2>2 DEF ProgressInv, Before
<1>11. GateInv(c)'
  BY <1>2, <1>5 DEF IInv, CallInv, GateInv, Open, GateOpen, Gates
<1>12. GoogleInv(c)'
  <2>1. Asked(c)' = k /\ Asked(c) \in Nat /\ Asked(c) <= k
    <3>1. pc'[c] # "wait" /\ k \in Nat /\ k = Len(outcome[c]) + 1
      BY <1>3, <1>5 DEF k
    <3>2. Asked(c)' = k
      BY <1>6, <3>1 DEF Asked
    <3>3. Asked(c) \in {Len(outcome[c]) + 0, Len(outcome[c]) + 1}
      BY DEF Asked
    <3>4. Len(outcome[c]) \in Nat
      BY <1>3
    <3>. QED BY <3>1, <3>2, <3>3, <3>4
  <2>2. ASSUME NEW i \in 1 .. MaxTargets, i # k
        PROVE  /\ executed'[<<c, i>>] # {} => phase'[<<c, i>>] # "idle"
               /\ phase'[<<c, i>>] # "idle" => i <= k
               /\ i \in DOMAIN outcome'[c] /\ outcome'[c][i] = "applied" => executed'[<<c, i>>] # {}
    BY <1>2, <1>6, <1>7, <2>1, <2>2 DEF IInv, CallInv, GoogleInv
  <2>3. /\ phase'[<<c, k>>] # "idle" /\ k <= k
        /\ outcome'[c][k] = "applied" => executed'[<<c, k>>] # {}
    <3>1. phase'[<<c, k>>] # "idle" /\ k <= k
      BY <1>3, <1>5
    <3>2. outcome'[c][k] = "applied" => executed[<<c, k>>] # {}
      BY <1>2, <1>4, <1>6
    <3>. QED BY <1>2, <3>1, <3>2
  <2>. QED BY <2>1, <2>2, <2>3 DEF GoogleInv
<1>13. LogInv(c)'
  <2>1. \A e \in log : e.call # c
    BY <1>2 DEF IInv, CallInv, LogInv
  <2>2. o = "applied" => tool'[c].tier = "user"
    BY <1>2
  <2>. QED BY <1>2, <1>5, <2>1, <2>2 DEF LogInv
<1>. QED BY <1>2, <1>8, <1>9, <1>10, <1>11, <1>12, <1>13 DEF Preserved, CallInv, LogGrows

\* The token source fails: the read is given up, or the target counts as an error.
LEMMA NoTokenInv ==
    ASSUME IInv, NEW c \in Calls, NoToken(c)
    PROVE  Preserved(c)
<1>1. CASE Return(c, "readToken", "error") /\
           UNCHANGED <<Gates, alive, tool, targets, outcome, contacted, log, google>>
  BY <1>1, ReadTokenInv DEF Return, Goto
<1>2. CASE Answer(c, "token", "refused")
  BY <1>2, AnswerInv DEF Google!Verdicts
<1>. QED BY <1>1, <1>2 DEF NoToken

LEMMA WriteLogInv ==
    ASSUME IInv, NEW c \in Calls, WriteLog(c)
    PROVE  Preserved(c)
<1>1. /\ pc[c] = "log" /\ pc' = [pc EXCEPT ![c] = "done"]
      /\ out' = [out EXCEPT ![c] = "applied"]
      /\ log' = log \union {LogLine(c)}
      /\ UNCHANGED <<Gates, alive, tool, targets, outcome, contacted, google>>
  BY DEF WriteLog, Return, Goto, LogLine
<1>2. pc'[c] = "done" /\ out'[c] = "applied"
  BY <1>1 DEF IInv, Types, TypeOK
<1>3. LogLine(c) \in [call : Calls, applied : Nat, errors : Nat] /\ LogLine(c).call = c
  <2>1. outcome[c] \in Seq({"applied", "error"})
    BY DEF IInv, Types, TypeOK
  <2>2. Count(c, "applied") \in Nat /\ Count(c, "error") \in Nat
    BY <2>1, CountTyping
  <2>. QED BY <2>2 DEF LogLine
<1>4. LogLine(c)' = LogLine(c)
  BY <1>1 DEF LogLine, Count
<1>5. Types'
  <2>1. pc' \in [Calls -> PCs]
    BY <1>1 DEF IInv, Types, TypeOK, PCs
  <2>2. out' \in [Calls -> {"none", "dryRun", "applied", "error"}]
    BY <1>1 DEF IInv, Types, TypeOK
  <2>3. \A d \in Calls : pc'[d] # "idle" => tool'[d] \in Tools
    BY <1>1 DEF IInv, Types, TypeOK
  <2>4. log' \subseteq [call : Calls, applied : Nat, errors : Nat]
    BY <1>1, <1>3 DEF IInv, Types, TypeOK
  <2>. QED BY <1>1, <2>1, <2>2, <2>3, <2>4 DEF IInv, Types, TypeOK, Gates, google
<1>6. \A d \in Calls \ {c} : Same(d)
  BY <1>1 DEF IInv, Types, TypeOK, Same, google
<1>7. ProgressInv(c)'
  BY <1>1, <1>2 DEF IInv, CallInv, ProgressInv, Before, Acceptable, Distinct, Trimmed
<1>8. GateInv(c)'
  BY <1>1, <1>2 DEF IInv, CallInv, GateInv, Open, GateOpen, Gates
<1>9. GoogleInv(c)'
  BY <1>1, <1>2 DEF IInv, CallInv, GoogleInv, Asked, google
<1>10. LogInv(c)'
  <2>1. \A e \in log : e.call # c
    BY <1>1 DEF IInv, CallInv, LogInv
  <2>2. tool[c].tier = "bulk" => Len(outcome[c]) = Len(targets[c])
    BY <1>1 DEF IInv, CallInv, ProgressInv
  <2>. QED BY <1>1, <1>2, <1>4, <2>1, <2>2 DEF LogInv
<1>11. LogGrows(c)
  BY <1>1, <1>3 DEF LogGrows
<1>. QED BY <1>1, <1>5, <1>6, <1>7, <1>8, <1>9, <1>10, <1>11 DEF Preserved, CallInv

-----------------------------------------------------------------------------
(* Steps that are of no call.                                              *)

\* An execution is of an operation that was asked for, and takes nothing back.
LEMMA ExecutesInv ==
    ASSUME IInv, NEW op \in Operations, GoogleExecutes(op)
    PROVE  IInv'
<1>1. /\ phase[op] # "idle"
      /\ executed' = [executed EXCEPT ![op] = @ \union {1}]
      /\ UNCHANGED <<Gates, alive, pc, tool, targets, outcome, out, contacted, log, phase>>
  BY DEF GoogleExecutes, Google!Execute
<1>2. \A o \in Operations : executed[o] \subseteq executed'[o] /\ (o # op => executed'[o] = executed[o])
  BY <1>1 DEF IInv, Types
<1>3. Types'
  <2>1. executed' \in [Operations -> SUBSET {1}]
    BY <1>1 DEF IInv, Types
  <2>2. \A d \in Calls : pc'[d] # "idle" => tool'[d] \in Tools
    BY <1>1 DEF IInv, Types, TypeOK
  <2>. QED BY <1>1, <2>1, <2>2 DEF IInv, Types, TypeOK, Gates
<1>4. ASSUME NEW c \in Calls PROVE CallInv(c)'
  <2>1. CallInv(c)
    BY DEF IInv
  <2>2. ProgressInv(c)'
    BY <1>1, <2>1 DEF CallInv, ProgressInv, Before, Acceptable, Distinct, Trimmed
  <2>3. GateInv(c)'
    BY <1>1, <2>1 DEF CallInv, GateInv, Open, GateOpen, Gates
  <2>4. GoogleInv(c)'
    <3>1. Asked(c)' = Asked(c)
      BY <1>1 DEF Asked
    <3>2. ASSUME NEW i \in 1 .. MaxTargets
          PROVE  /\ executed'[<<c, i>>] # {} => phase[<<c, i>>] # "idle"
                 /\ phase[<<c, i>>] # "idle" => i <= Asked(c)
                 /\ i \in DOMAIN outcome[c] /\ outcome[c][i] = "applied" => executed'[<<c, i>>] # {}
      <4>1. <<c, i>> \in Operations
        BY DEF Operations
      <4>2. executed[<<c, i>>] \subseteq executed'[<<c, i>>]
            /\ (<<c, i>> # op => executed'[<<c, i>>] = executed[<<c, i>>])
        BY <1>2, <4>1
      <4>3. /\ executed[<<c, i>>] # {} => phase[<<c, i>>] # "idle"
            /\ phase[<<c, i>>] # "idle" => i <= Asked(c)
            /\ i \in DOMAIN outcome[c] /\ outcome[c][i] = "applied" => executed[<<c, i>>] # {}
        BY <2>1 DEF CallInv, GoogleInv
      <4>. QED BY <1>1, <4>2, <4>3
    <3>. QED BY <1>1, <3>1, <3>2 DEF GoogleInv
  <2>5. LogInv(c)'
    <3>1. \A e \in log : e.call = c => pc'[c] = "done"
      BY <1>1, <2>1 DEF CallInv, LogInv
    <3>. QED BY <1>1, <2>1, <3>1, NoNewLine DEF CallInv, LogInv
  <2>. QED BY <2>2, <2>3, <2>4, <2>5 DEF CallInv
<1>. QED BY <1>3, <1>4 DEF IInv

\* A step that changes at most whether the process is alive.
LEMMA IdleInv ==
    ASSUME IInv, alive' \in BOOLEAN,
           UNCHANGED <<Gates, pc, tool, targets, outcome, out, contacted, log, google>>
    PROVE  IInv'
<1>1. Types'
  BY DEF IInv, Types, TypeOK, Gates, google
<1>2. ASSUME NEW c \in Calls PROVE CallInv(c)'
  <2>1. CallInv(c) /\ Same(c)
    BY DEF IInv, Same, google
  <2>. QED BY <2>1, SameInv
<1>. QED BY <1>1, <1>2 DEF IInv

\* What is shown of one call carries over to all.
LEMMA PreservedInv ==
    ASSUME IInv, NEW c \in Calls, Preserved(c)
    PROVE  IInv'
<1>1. ASSUME NEW d \in Calls PROVE CallInv(d)'
  <2>1. CASE d = c
    BY <2>1 DEF Preserved
  <2>2. CASE d # c
    <3>1. CallInv(d) /\ Same(d) /\ UNCHANGED Gates /\ log \subseteq log'
      BY <2>2 DEF IInv, Preserved, LogGrows
    <3>2. \A e \in log' : e.call = d => e \in log
      BY <2>2 DEF Preserved, LogGrows
    <3>. QED BY <3>1, <3>2, SameInv
  <2>. QED BY <2>1, <2>2
<1>. QED BY <1>1 DEF IInv, Preserved

LEMMA NextIInv == IInv /\ [Next]_vars => IInv'
<1> SUFFICES ASSUME IInv, [Next]_vars PROVE IInv'
  OBVIOUS
<1>1. ASSUME NEW c \in Calls, NEW t \in Tools, NEW l \in ListsFor(t), Invoke(c, t, l)
      PROVE  IInv'
  BY <1>1, InvokeInv, PreservedInv
<1>2. ASSUME NEW c \in Calls, Moves(c) PROVE IInv'
  <2>1. CASE CheckGate(c)
    BY <2>1, CheckGateInv, PreservedInv
  <2>2. CASE Prepare(c)
    BY <2>2, PrepareInv, PreservedInv
  <2>3. CASE Mutate(c)
    BY <2>3, MutateInv, PreservedInv
  <2>4. ASSUME NEW v \in Google!Verdicts, Answered(c, v) PROVE IInv'
    BY <2>4, AnswerInv, PreservedInv DEF Answered
  <2>5. CASE WriteLog(c)
    BY <2>5, WriteLogInv, PreservedInv
  <2>6. CASE BeginRead(c)
    BY <2>6, BeginReadInv, PreservedInv
  <2>7. CASE Token(c) \/ NoToken(c)
    BY <2>7, TokenInv, NoTokenInv, PreservedInv
  <2>. QED BY <1>2, <2>1, <2>2, <2>3, <2>4, <2>5, <2>6, <2>7 DEF Moves, Step
<1>3. ASSUME NEW op \in Operations, GoogleExecutes(op) PROVE IInv'
  BY <1>3, ExecutesInv
<1>4. CASE Crash
  BY <1>4, IdleInv DEF Crash
<1>5. CASE UNCHANGED vars
  <2>1. alive' \in BOOLEAN
    BY <1>5 DEF vars, IInv, Types, TypeOK
  <2>. QED BY <1>5, <2>1, IdleInv DEF vars, Gates
<1>. QED BY <1>1, <1>2, <1>3, <1>4, <1>5 DEF Next, Moves

-----------------------------------------------------------------------------
(* What follows from the invariant.                                        *)

\* Google has only what was asked for, which is within the list of the call.
LEMMA TouchedIsAsked ==
    ASSUME IInv, NEW c \in Calls, NEW i \in Touched(c)
    PROVE  /\ c \in contacted /\ Acceptable(targets[c])
           /\ i \in DOMAIN targets[c]
<1>1. i \in 1 .. MaxTargets /\ MaxTargets \in Nat /\ i <= Asked(c)
  <2>1. i \in 1 .. MaxTargets /\ executed[<<c, i>>] # {}
    BY DEF Touched
  <2>. QED BY <2>1, TargetListsAssumption DEF IInv, CallInv, GoogleInv
<1>2. /\ outcome[c] \in Seq({"applied", "error"}) /\ Len(outcome[c]) \in Nat
      /\ Len(outcome[c]) <= Len(targets[c])
      /\ outcome[c] = <<>> => Len(outcome[c]) = 0
  BY DEF IInv, Types, TypeOK
<1>3. Len(targets[c]) \in Nat /\ DOMAIN targets[c] = 1 .. Len(targets[c])
  <2>1. targets[c] \in TargetLists \union {<<>>}
    BY DEF IInv, Types
  <2>. QED BY <2>1, ListTyping
<1>4. pc[c] = "wait" \/ outcome[c] # <<>>
  <2>1. pc[c] # "wait" => i <= Len(outcome[c])
    BY <1>1, <1>2 DEF Asked
  <2>. QED BY <1>1, <1>2, <2>1
<1>5. c \in contacted /\ Acceptable(targets[c])
  BY <1>4 DEF IInv, CallInv, GateInv, ProgressInv, Before
<1>6. Asked(c) \in Nat /\ Asked(c) <= Len(targets[c])
  <2>1. CASE pc[c] = "wait"
    <3>1. Len(outcome[c]) < Len(targets[c]) /\ Asked(c) = Len(outcome[c]) + 1
      BY <2>1 DEF Asked, IInv, CallInv, ProgressInv
    <3>. QED BY <1>2, <1>3, <3>1
  <2>2. CASE pc[c] # "wait"
    BY <1>2, <1>3, <2>2 DEF Asked
  <2>. QED BY <2>1, <2>2
<1>. QED BY <1>1, <1>3, <1>5, <1>6

LEMMA SilentMeans == IInv => ClosedGateIsSilent
<1> SUFFICES ASSUME IInv, NEW c \in Calls,
                    ~(IF tool[c].gate = "sends" THEN allowSends ELSE allowWrites)
             PROVE  c \notin contacted /\ Touched(c) = {}
  BY DEF ClosedGateIsSilent
<1>1. c \notin contacted
  BY DEF IInv, CallInv, GateInv, GateOpen
<1>. QED BY <1>1, TouchedIsAsked

LEMMA OnceMeans == IInv => BulkOncePerTarget
<1> SUFFICES ASSUME IInv, NEW c \in Calls, NEW i \in Touched(c), NEW j \in Touched(c),
                    Trimmed(targets[c][i]) = Trimmed(targets[c][j])
             PROVE  i = j
  BY DEF BulkOncePerTarget
<1>1. i \in DOMAIN targets[c] /\ j \in DOMAIN targets[c] /\ Acceptable(targets[c])
  BY TouchedIsAsked
<1>. QED BY <1>1 DEF Acceptable, Distinct

LEMMA CompleteMeans == IInv => BulkIsComplete
<1> SUFFICES ASSUME IInv, NEW c \in Calls, tool[c].tier = "bulk", out[c] = "applied"
             PROVE  /\ Len(outcome[c]) = Len(targets[c])
                    /\ \E e \in log : e.call = c /\ e.applied + e.errors = Len(targets[c])
  BY DEF BulkIsComplete
<1>1. Len(outcome[c]) = Len(targets[c]) /\ LogLine(c) \in log
  BY DEF IInv, CallInv, LogInv
<1>2. Count(c, "applied") + Count(c, "error") = Len(outcome[c])
  <2>1. outcome[c] \in Seq({"applied", "error"})
    BY DEF IInv, Types, TypeOK
  <2>. QED BY <2>1, CountsAddUp
<1>3. LogLine(c).call = c /\ LogLine(c).applied + LogLine(c).errors = Len(targets[c])
  BY <1>1, <1>2 DEF LogLine
<1>. QED BY <1>1, <1>3

LEMMA TruthfulMeans == IInv => LogIsTruthful
<1> SUFFICES ASSUME IInv, NEW e \in log
             PROVE  /\ e.applied <= Cardinality(Touched(e.call))
                    /\ \A f \in log : f.call = e.call => f = e
  BY DEF LogIsTruthful
<1> DEFINE c == e.call
           S == {i \in DOMAIN outcome[c] : outcome[c][i] = "applied"}
<1>1. c \in Calls
  BY DEF IInv, Types, TypeOK
<1>2. \A f \in log : f.call = c => f = LogLine(c)
  BY <1>1 DEF IInv, CallInv, LogInv
<1>3. e.applied = Cardinality(S)
  <2>1. e = LogLine(c)
    BY <1>2
  <2>2. LogLine(c).applied = Count(c, "applied")
    BY DEF LogLine
  <2>. QED BY <2>1, <2>2 DEF Count
<1>4. IsFiniteSet(Touched(c))
  <2>1. IsFiniteSet(1 .. MaxTargets)
    BY TargetListsAssumption, FS_Interval
  <2>2. Touched(c) \subseteq 1 .. MaxTargets
    BY DEF Touched
  <2>. QED BY <2>1, <2>2, FS_Subset
<1>5. S \subseteq Touched(c)
  <2>1. DOMAIN outcome[c] \subseteq 1 .. MaxTargets
    <3>1. /\ outcome[c] \in Seq({"applied", "error"}) /\ Len(outcome[c]) <= Len(targets[c])
          /\ targets[c] \in TargetLists \union {<<>>}
      BY <1>1 DEF IInv, Types, TypeOK
    <3>2. Len(targets[c]) \in Nat /\ Len(targets[c]) <= MaxTargets /\ MaxTargets \in Nat
      BY <3>1, ListTyping
    <3>. QED BY <3>1, <3>2
  <2>. QED BY <1>1, <2>1 DEF IInv, CallInv, GoogleInv, Touched
<1>6. Cardinality(S) <= Cardinality(Touched(c))
  BY <1>4, <1>5, FS_Subset
<1>. QED BY <1>2, <1>3, <1>6

LEMMA ReportedMeans == IInv => ReportedIsLogged
<1> SUFFICES ASSUME IInv, NEW c \in Calls, tool[c].tier # "user", out[c] = "applied"
             PROVE  \E e \in log : e.call = c
  BY DEF ReportedIsLogged
<1>1. LogLine(c) \in log
  BY DEF IInv, CallInv, LogInv
<1>. QED BY <1>1 DEF LogLine

THEOREM Invariance == Spec => []IInv
  BY InitIInv, NextIInv, PTL DEF Spec

\* The variables keep their types, whatever the interleaving of calls, Google and a
\* crash.
THEOREM TypeCorrect == Spec => []TypeOK
<1>1. IInv => TypeOK
  BY DEF IInv, Types
<1>. QED BY <1>1, Invariance, PTL

\* runWrite asks its gate before Prepare and before the change, appApply and runBulk
\* before anything: behind a closed gate Google hears nothing of a call.
THEOREM ClosedGates == Spec => []ClosedGateIsSilent
  BY SilentMeans, Invariance, PTL

\* runBulk's comparison of trimmed targets suffices: no entry is changed twice by one
\* batch, however late Google carries the changes out.
THEOREM OncePerTarget == Spec => []BulkOncePerTarget
  BY OnceMeans, Invariance, PTL

\* runBulk tries every target and its log line accounts for all of them.
THEOREM Completeness == Spec => []BulkIsComplete
  BY CompleteMeans, Invariance, PTL

\* A line of the audit log is the only one of its call and claims no change that
\* Google has not made.
THEOREM TruthfulLog == Spec => []LogIsTruthful
  BY TruthfulMeans, Invariance, PTL

\* What appApply and runBulk report as applied is in the audit log.
THEOREM LoggedReports == Spec => []ReportedIsLogged
  BY ReportedMeans, Invariance, PTL

-----------------------------------------------------------------------------
(* How much a call has left to do.                                         *)

\* The steps a call may still take: three for every target left, and those around.
StepsLeft(c) ==
    LET left == 3 * (Len(targets[c]) - Len(outcome[c]))
    IN  CASE pc[c] = "gate" -> left + 6
          [] pc[c] = "prepare" -> left + 5
          [] pc[c] = "readToken" -> left + 4
          [] pc[c] = "read" -> left + 3
          [] pc[c] = "mutate" -> left + 2
          [] pc[c] = "token" -> left + 1
          [] pc[c] = "wait" -> left
          [] pc[c] = "log" -> 1
          [] OTHER -> 0

\* However its requests are answered and whatever the other calls do, each step of a
\* call uses one of them up, and nothing gives one back.
NoStepBack(c) ==
    pc[c] # "idle" =>
        /\ StepsLeft(c) \in 0 .. 3 * MaxTargets + 6
        /\ StepsLeft(c)' <= StepsLeft(c)
        /\ Moves(c) => StepsLeft(c)' < StepsLeft(c)

StepsRunOut == [][\A c \in Calls : NoStepBack(c)]_vars

LEMMA LengthTyping ==
    ASSUME IInv, NEW c \in Calls
    PROVE  /\ Len(outcome[c]) \in Nat /\ Len(targets[c]) \in Nat
           /\ Len(outcome[c]) <= Len(targets[c]) /\ Len(targets[c]) <= MaxTargets
           /\ MaxTargets \in Nat /\ pc[c] \in PCs
           /\ pc[c] \in Before \union {"mutate", "token", "wait"} =>
                Len(outcome[c]) < Len(targets[c])
<1>1. outcome[c] \in Seq({"applied", "error"}) /\ targets[c] \in TargetLists \union {<<>>}
      /\ Len(outcome[c]) <= Len(targets[c]) /\ pc[c] \in PCs
  BY DEF IInv, Types, TypeOK
<1>2. Len(targets[c]) \in Nat /\ Len(targets[c]) <= MaxTargets /\ MaxTargets \in Nat
  BY <1>1, ListTyping
<1>3. Len(outcome[c]) \in Nat
  BY <1>1
<1>. QED BY <1>1, <1>2, <1>3 DEF IInv, CallInv, ProgressInv, Before

LEMMA StepsAreBounded ==
    ASSUME IInv, NEW c \in Calls
    PROVE  StepsLeft(c) \in 0 .. 3 * MaxTargets + 6
<1> DEFINE n == Len(targets[c])
           k == Len(outcome[c])
<1>1. k \in Nat /\ n \in Nat /\ k <= n /\ n <= MaxTargets /\ MaxTargets \in Nat
  BY LengthTyping
<1>2. StepsLeft(c) \in {3 * (n - k) + 6, 3 * (n - k) + 5, 3 * (n - k) + 4, 3 * (n - k) + 3,
                       3 * (n - k) + 2, 3 * (n - k) + 1, 3 * (n - k), 1, 0}
  BY DEF StepsLeft
<1> HIDE DEF n, k
<1>. QED BY <1>1, <1>2

LEMMA StepUsesOne ==
    ASSUME IInv, NEW c \in Calls, Moves(c)
    PROVE  StepsLeft(c)' < StepsLeft(c)
<1> DEFINE left == 3 * (Len(targets[c]) - Len(outcome[c]))
<1>1. /\ left \in Nat /\ Len(targets[c]) \in Nat /\ Len(outcome[c]) \in Nat
      /\ pc[c] \in Before \union {"mutate", "token", "wait"} => left >= 3
  <2> DEFINE n == Len(targets[c])
             k == Len(outcome[c])
  <2>1. /\ k \in Nat /\ n \in Nat /\ k <= n
        /\ pc[c] \in Before \union {"mutate", "token", "wait"} => k < n
    BY LengthTyping
  <2> HIDE DEF n, k
  <2>2. 3 * (n - k) \in Nat /\ (k < n => 3 * (n - k) >= 3)
    BY <2>1
  <2>. QED BY <2>1, <2>2 DEF n, k
<1>2. ASSUME UNCHANGED <<targets, outcome>>,
             \/ pc[c] = "gate" /\ pc'[c] \in {"prepare", "mutate", "done"}
             \/ pc[c] = "prepare" /\ pc'[c] = "readToken"
             \/ pc[c] = "readToken" /\ pc'[c] \in {"read", "done"}
             \/ pc[c] = "read" /\ pc'[c] \in {"mutate", "done"}
             \/ pc[c] = "mutate" /\ pc'[c] = "token"
             \/ pc[c] = "token" /\ pc'[c] = "wait"
             \/ pc[c] = "log" /\ pc'[c] = "done"
      PROVE  StepsLeft(c)' < StepsLeft(c)
  <2>1. left' = left
    BY <1>2
  <2> HIDE DEF left
  <2>2. StepsLeft(c)' < StepsLeft(c)
    <3>1. /\ pc[c] = "gate" => StepsLeft(c) = left + 6
          /\ pc[c] = "prepare" => StepsLeft(c) = left + 5
          /\ pc[c] = "readToken" => StepsLeft(c) = left + 4
          /\ pc[c] = "read" => StepsLeft(c) = left + 3
          /\ pc[c] = "mutate" => StepsLeft(c) = left + 2
          /\ pc[c] = "token" => StepsLeft(c) = left + 1
          /\ pc[c] = "log" => StepsLeft(c) = 1
      BY DEF StepsLeft, left
    <3>2. /\ pc'[c] = "prepare" => StepsLeft(c)' = left' + 5
          /\ pc'[c] = "readToken" => StepsLeft(c)' = left' + 4
          /\ pc'[c] = "read" => StepsLeft(c)' = left' + 3
          /\ pc'[c] = "mutate" => StepsLeft(c)' = left' + 2
          /\ pc'[c] = "token" => StepsLeft(c)' = left' + 1
          /\ pc'[c] = "wait" => StepsLeft(c)' = left'
          /\ pc'[c] = "done" => StepsLeft(c)' = 0
      BY DEF StepsLeft, left
    <3>. QED BY <1>1, <1>2, <2>1, <3>1, <3>2
  <2>. QED BY <2>2
<1>3. CASE CheckGate(c) \/ BeginRead(c) \/ Prepare(c) \/ Mutate(c) \/ WriteLog(c)
  BY <1>2, <1>3 DEF CheckGate, BeginRead, Prepare, Mutate, WriteLog, Goto, Return,
                    IInv, Types, TypeOK
<1>5. CASE Token(c)
  BY <1>2, <1>5 DEF Token, Goto, IInv, Types, TypeOK
<1>6. CASE /\ Return(c, "readToken", "error")
           /\ UNCHANGED <<Gates, alive, tool, targets, outcome, contacted, log, google>>
  BY <1>2, <1>6 DEF Return, Goto, IInv, Types, TypeOK
<1>4. ASSUME NEW from \in {"token", "wait"}, NEW v \in Google!Verdicts, Answer(c, from, v)
      PROVE  StepsLeft(c)' < StepsLeft(c)
  <2>1. PICK p \in {"mutate", "log", "done"}, o \in Outs : AnsweredTo(c, from, p, o, v)
    BY <1>4, AnswerMeans
  <2>2. /\ pc[c] = from /\ pc'[c] = p
        /\ targets'[c] = targets[c] /\ outcome'[c] = Append(outcome[c], OutcomeOf(v))
    BY <2>1 DEF AnsweredTo, IInv, Types, TypeOK
  <2>3. Len(outcome'[c]) = Len(outcome[c]) + 1
    <3> DEFINE w == OutcomeOf(v)
    <3>1. outcome[c] \in Seq({"applied", "error"}) /\ w \in {"applied", "error"}
      BY DEF IInv, Types, TypeOK, OutcomeOf
    <3>2. outcome'[c] = Append(outcome[c], w)
      BY <2>2
    <3> HIDE DEF w
    <3>. QED BY <3>1, <3>2
  <2>4. left >= 3 /\ left' = left - 3
    <3> DEFINE n == Len(targets[c])
               k == Len(outcome[c])
    <3>1. left' = 3 * (n - (k + 1)) /\ left = 3 * (n - k)
      BY <2>2, <2>3
    <3>2. n \in Nat /\ k \in Nat /\ left >= 3
      BY <1>1, <2>2
    <3> HIDE DEF n, k, left
    <3>. QED BY <3>1, <3>2
  <2> HIDE DEF left
  <2>5. StepsLeft(c) \in {left, left + 1} /\ StepsLeft(c)' \in {left' + 2, 1, 0}
    BY <2>2 DEF StepsLeft, left
  <2>. QED BY <1>1, <2>4, <2>5
<1>. QED BY <1>3, <1>4, <1>5, <1>6 DEF Moves, Step, NoToken, Answered, Google!Verdicts

\* A step of another call, of Google or of the operating system uses none.
LEMMA OthersUseNone ==
    ASSUME IInv, [Next]_vars, NEW c \in Calls, pc[c] # "idle", ~Moves(c)
    PROVE  StepsLeft(c)' = StepsLeft(c)
<1>1. ASSUME NEW d \in Calls, d # c, Preserved(d) PROVE StepsLeft(c)' = StepsLeft(c)
  BY <1>1 DEF Preserved, Same, StepsLeft
<1>2. ASSUME NEW d \in Calls, NEW t \in Tools, NEW l \in ListsFor(t), Invoke(d, t, l)
      PROVE  StepsLeft(c)' = StepsLeft(c)
  <2>1. d # c
    BY <1>2 DEF Invoke, Goto, Return
  <2>. QED BY <1>1, <1>2, <2>1, InvokeInv
<1>3. ASSUME NEW d \in Calls, Moves(d) PROVE StepsLeft(c)' = StepsLeft(c)
  <2>1. Preserved(d)
    BY <1>3, CheckGateInv, BeginReadInv, PrepareInv, MutateInv, AnswerInv, WriteLogInv,
       TokenInv, NoTokenInv DEF Moves, Step, Answered
  <2>. QED BY <1>1, <1>3, <2>1
<1>4. ASSUME (\E op \in Operations : GoogleExecutes(op)) \/ Crash \/ UNCHANGED vars
      PROVE  StepsLeft(c)' = StepsLeft(c)
  <2>1. UNCHANGED <<pc, targets, outcome>>
    BY <1>4 DEF GoogleExecutes, Crash, vars
  <2>. QED BY <2>1 DEF StepsLeft
<1>. QED BY <1>2, <1>3, <1>4 DEF Next, Moves

\* A call never turns back: runWrite and appApply take a few steps, runBulk three for
\* each target and the log line, however many targets fail.
THEOREM CallsEnd == Spec => StepsRunOut
<1>1. ASSUME IInv, [Next]_vars, NEW c \in Calls, pc[c] # "idle" PROVE NoStepBack(c)
  <2>1. StepsLeft(c) \in 0 .. 3 * MaxTargets + 6 /\ StepsLeft(c) \in Int
    BY <1>1, StepsAreBounded, LengthTyping
  <2>2. CASE Moves(c)
    <3>1. StepsLeft(c)' < StepsLeft(c)
      BY <1>1, <2>2, StepUsesOne
    <3>2. StepsLeft(c)' \in Int
      <4>1. IInv'
        BY <1>1, NextIInv
      <4>2. outcome'[c] \in Seq({"applied", "error"})
            /\ targets'[c] \in TargetLists \union {<<>>}
        BY <4>1 DEF IInv, Types, TypeOK
      <4>3. Len(outcome'[c]) \in Nat /\ Len(targets'[c]) \in Nat
        BY <4>2, ListTyping
      <4>. QED BY <4>3 DEF StepsLeft
    <3>. QED BY <2>1, <3>1, <3>2 DEF NoStepBack
  <2>3. CASE ~Moves(c)
    BY <1>1, <2>1, <2>3, OthersUseNone DEF NoStepBack
  <2>. QED BY <2>2, <2>3
<1>2. IInv /\ [Next]_vars => [\A c \in Calls : NoStepBack(c)]_vars
  BY <1>1 DEF NoStepBack
<1>. QED BY <1>2, Invariance, PTL DEF Spec, StepsRunOut

-----------------------------------------------------------------------------
(* What the tools ask of Google.                                           *)

\* A tool call uses operations as Operation lets it, once each and in order: nothing
\* else in the model moves them.
THEOREM UsesOperations == Spec => Google!Spec
<1>1. Init => Google!Init
  BY DEF Init
<1>2. ASSUME IInv, [Next]_vars PROVE [Google!Next]_(Google!vars)
  <2>1. ASSUME NEW c \in Calls, NEW t \in Tools, NEW l \in ListsFor(t), Invoke(c, t, l)
        PROVE  UNCHANGED Google!vars
    BY <2>1 DEF Invoke, google, Google!vars
  <2>2. ASSUME NEW c \in Calls, CheckGate(c) \/ BeginRead(c) \/ Prepare(c) \/ Mutate(c)
                                \/ WriteLog(c)
        PROVE  UNCHANGED Google!vars
    BY <2>2 DEF CheckGate, BeginRead, Prepare, Mutate, WriteLog, google, Google!vars
  <2>3. ASSUME NEW c \in Calls, Token(c) PROVE [Google!Next]_(Google!vars)
    <3>1. CASE Goto(c, "readToken", "read") /\ UNCHANGED google
      BY <3>1 DEF google, Google!vars
    <3>2. CASE Goto(c, "token", "wait") /\ Google!Begin(Current(c))
      <4>1. Current(c) \in Operations
        BY <1>2, <3>2, CurrentTyping DEF Goto
      <4>. QED BY <3>2, <4>1 DEF Google!Next
    <3>. QED BY <2>3, <3>1, <3>2 DEF Token
  <2>4. ASSUME NEW c \in Calls, NEW from \in {"token", "wait"}, NEW v \in Google!Verdicts,
               Answer(c, from, v)
        PROVE  Google!Next
    <3>1. Current(c) \in Operations
      BY <1>2, <2>4, CurrentTyping DEF Answer
    <3>. QED BY <2>4, <3>1 DEF Answer, Google!Next
  <2>7. ASSUME NEW c \in Calls, NoToken(c) PROVE [Google!Next]_(Google!vars)
    <3>1. CASE UNCHANGED google
      BY <3>1 DEF google, Google!vars
    <3>2. CASE Answer(c, "token", "refused")
      BY <2>4, <3>2 DEF Google!Verdicts
    <3>. QED BY <2>7, <3>1, <3>2 DEF NoToken
  <2>5. ASSUME NEW op \in Operations, GoogleExecutes(op) PROVE Google!Next
    BY <2>5 DEF GoogleExecutes, Google!Next
  <2>6. Crash \/ UNCHANGED vars => UNCHANGED Google!vars
    BY DEF Crash, vars, google, Google!vars
  <2>. QED BY <1>2, <2>1, <2>2, <2>3, <2>4, <2>5, <2>6, <2>7 DEF Next, Step, Answered
<1>. QED BY <1>1, <1>2, Invariance, PTL DEF Spec, Google!Spec
=============================================================================
