----------------------- MODULE ReadModifyWriteProofs -----------------------
(***************************************************************************)
(* What a tool that sends back what it read may change, for any set of     *)
(* calls and requests and any editing by others that keeps the shape of    *)
(* the resource; and what such a tool asks of Google.                      *)
(***************************************************************************)
EXTENDS ReadModifyWrite, TLAPS

Fields == {"enable", "text", "restrict", "start", "html"}

\* Vacation settings have their fields and integer bounds; anything without an
\* "enable" is an event.
Shaped(s) == "enable" \in DOMAIN s => DOMAIN s = Fields /\ s.start \subseteq Int

\* What Google and the callers are expected to hand in.
ShapedInputs ==
    /\ \A s \in Initial : Shaped(s)
    /\ \A s : Shaped(s) => \A t \in Edits(s) : Shaped(t) /\ DOMAIN t = DOMAIN s
    /\ \A r \in Requests : r.tool \notin {"rsvp", "appSetVacation"} => r.start \subseteq Int

\* A list of attendees with nothing but the caller's own entry changed, up to what
\* others changed meanwhile.
RsvpCurrent(r, b, s, stale) ==
    r.tool = "rsvp" =>
        \A p \in DOMAIN s \ stale : b[p] # s[p] => p = r.self /\ s[p] # "absent"

\* Settings with nothing but the named fields changed, up to what others changed.
VacationCurrent(r, b, s, stale) ==
    r.tool = "setVacation" =>
        /\ \A e \in {"text", "restrict"} \ (Named(r) \union stale) : b[e] = s[e]
        /\ "start" \notin Named(r) \union stale => Second(b.start) = Second(s.start)

\* A body fits the resource and is as current as others let it be.
BodyInv(r, b, s, stale) ==
    /\ DOMAIN b = DOMAIN s
    /\ r.tool # "rsvp" => "enable" \in DOMAIN s
    /\ Shaped(b)
    /\ RsvpCurrent(r, b, s, stale)
    /\ VacationCurrent(r, b, s, stale)

\* A list of attendees is the one that was read but for the caller, who was on it.
RsvpAsRead(r, b, rd) ==
    r.tool = "rsvp" =>
        /\ DOMAIN b = DOMAIN rd
        /\ \A p \in DOMAIN b : IF p = r.self THEN rd[p] # "absent" ELSE b[p] = rd[p]

Types ==
    /\ edits \in 0 .. MaxEdits
    /\ pc \in [Calls -> PCs]
    /\ req \in [Calls -> Requests \union {NoRequest}]
    /\ DOMAIN body = Calls /\ DOMAIN read = Calls
    /\ phase \in [Calls -> {"idle", "running", "answered"}]
    /\ \A c \in Calls : changed[c] \subseteq DOMAIN stored

CallInv(c) ==
    /\ pc[c] # "idle" => req[c] \in Requests /\ Fits(req[c])
    /\ pc[c] = "read" => req[c].tool # "appSetVacation"
    /\ phase[c] # "idle" => pc[c] \in {"await", "done"}
    /\ pc[c] \in {"send", "await"} \/ phase[c] # "idle" =>
         /\ BodyInv(req[c], body[c], stored, changed[c])
         /\ RsvpAsRead(req[c], body[c], read[c])

IInv == Types /\ Shaped(stored) /\ \A c \in Calls : CallInv(c)

-----------------------------------------------------------------------------
(* The bodies, as they are built. *)

\* An RSVP's list differs from what was read in the caller's entry.
LEMMA RsvpBodyIsCurrent ==
    ASSUME NEW r, r.tool = "rsvp", NEW s, Shaped(s), "enable" \notin DOMAIN s,
           NEW b \in RsvpBody(r, s), NEW stale
    PROVE  BodyInv(r, b, s, stale) /\ RsvpAsRead(r, b, s)
<1>1. Invited(r, s) /\ b = [s EXCEPT ![r.self] = r.reply]
  BY DEF RsvpBody
<1>2. DOMAIN b = DOMAIN s
  BY <1>1
<1>3. \A p \in DOMAIN s : p # r.self => b[p] = s[p]
  BY <1>1
<1>. QED BY <1>1, <1>2, <1>3 DEF Invited, BodyInv, Shaped, RsvpCurrent, VacationCurrent,
                                   RsvpAsRead

\* Dropping the fraction of a second leaves the second.
LEMMA SecondIsKept ==
    ASSUME NEW t \in Int
    PROVE  1000 * (t \div 1000) \in Int /\ (1000 * (t \div 1000)) \div 1000 = t \div 1000
  OBVIOUS

\* Merged settings keep what the call does not name.
LEMMA MergedIsCurrent ==
    ASSUME NEW r, r.tool # "rsvp", r.start \subseteq Int, NEW s, Shaped(s), "enable" \in DOMAIN s,
           NEW b \in MergedVacationBody(r, s), NEW stale
    PROVE  BodyInv(r, b, s, stale)
<1>1. b = Merged(r, s) /\ ~StartRefused(r.start, s.start)
  BY DEF MergedVacationBody
<1>2. DOMAIN b = Fields /\ DOMAIN s = Fields /\ s.start \subseteq Int
  BY <1>1 DEF Merged, Fields, Shaped
<1>3. /\ "text" \notin Named(r) => b.text = s.text
      /\ "restrict" \notin Named(r) => b.restrict = s.restrict
      /\ b.start = StartBody(r.start, s.start)
  BY <1>1 DEF Merged, Named
<1>4. CASE r.start # {}
  <2>1. b.start \subseteq Int /\ "start" \in Named(r)
    BY <1>3, <1>4 DEF StartBody, Named
  <2>. QED BY <1>2, <1>3, <2>1 DEF BodyInv, Shaped, RsvpCurrent, VacationCurrent
<1>5. CASE r.start = {}
  <2>1. \A t \in s.start : t > 0 /\ ToRFC3339(t) = {1000 * (t \div 1000)}
    BY <1>1, <1>5 DEF StartRefused, ToRFC3339
  <2>2. b.start = UNION {ToRFC3339(t) : t \in s.start}
    BY <1>3, <1>5 DEF StartBody
  <2>3. b.start = {1000 * (t \div 1000) : t \in s.start}
    BY <2>1, <2>2
  <2>4. b.start \subseteq Int /\ Second(b.start) = Second(s.start)
    <3>1. b.start \subseteq Int
      BY <1>2, <2>3, SecondIsKept
    <3>2. Second(b.start) = {(1000 * (t \div 1000)) \div 1000 : t \in s.start}
      BY <2>3 DEF Second
    <3>. QED BY <1>2, <3>1, <3>2, SecondIsKept DEF Second
  <2>. QED BY <1>2, <1>3, <2>4 DEF BodyInv, Shaped, RsvpCurrent, VacationCurrent
<1>. QED BY <1>4, <1>5

\* Whoever overwrites the resource, a body stays as current as its stale entries say.
LEMMA OverwrittenIsCurrent ==
    ASSUME NEW r, NEW b, NEW s, NEW t, NEW stale, BodyInv(r, b, s, stale),
           DOMAIN t = DOMAIN s, Shaped(s)
    PROVE  BodyInv(r, b, t, stale \union Differing(s, t))
<1>1. \A e \in DOMAIN s : e \notin Differing(s, t) => t[e] = s[e]
  BY DEF Differing
<1>2. RsvpCurrent(r, b, t, stale \union Differing(s, t))
  BY <1>1 DEF BodyInv, RsvpCurrent
<1>3. VacationCurrent(r, b, t, stale \union Differing(s, t))
  <2>1. r.tool = "setVacation" => DOMAIN s = Fields
    BY DEF BodyInv, Shaped
  <2>. QED BY <1>1, <2>1 DEF BodyInv, VacationCurrent, Fields
<1>. QED BY <1>2, <1>3 DEF BodyInv

\* A body that has become the resource is current.
LEMMA OwnIsCurrent ==
    ASSUME NEW r, NEW b, NEW stale, Shaped(b), r.tool # "rsvp" => "enable" \in DOMAIN b
    PROVE  BodyInv(r, b, b, stale)
  BY DEF BodyInv, RsvpCurrent, VacationCurrent

-----------------------------------------------------------------------------
(* One step. *)

LEMMA InitIInv == ShapedInputs /\ Init => IInv
<1> SUFFICES ASSUME ShapedInputs, Init PROVE IInv
  OBVIOUS
<1>1. Types
  BY MaxEditsAssumption DEF Init, Google!Init, Types, PCs
<1>2. \A c \in Calls : CallInv(c)
  BY DEF Init, Google!Init, CallInv
<1>. QED BY <1>1, <1>2 DEF Init, ShapedInputs, IInv

\* A step of call c that leaves the resource alone, and what is to be shown of it.
Others(c) == \A d \in Calls \ {c} :
    pc'[d] = pc[d] /\ req'[d] = req[d] /\ body'[d] = body[d] /\ read'[d] = read[d]
    /\ phase'[d] = phase[d]

LEMMA LocalStep ==
    ASSUME IInv, NEW c \in Calls, Types', UNCHANGED <<stored, changed>>, Others(c), CallInv(c)'
    PROVE  IInv'
<1>1. ASSUME NEW d \in Calls \ {c} PROVE CallInv(d)'
  BY DEF IInv, CallInv, Others, Fits
<1>. QED BY <1>1 DEF IInv

LEMMA InvokeInv ==
    ASSUME ShapedInputs, IInv, NEW c \in Calls, NEW r \in Requests, Invoke(c, r)
    PROVE  IInv'
<1>1. PICK p \in {"read", "send"} :
        /\ pc[c] = "idle" /\ pc' = [pc EXCEPT ![c] = p]
        /\ req' = [req EXCEPT ![c] = r] /\ Fits(r)
        /\ p = "read" => UNCHANGED body /\ r.tool # "appSetVacation"
        /\ p = "send" => r.tool = "appSetVacation" /\ body' = [body EXCEPT ![c] = AppVacationBody(r)]
        /\ UNCHANGED <<stored, edits, read, changed, google>>
  BY DEF Invoke, Goto
<1>2. Types'
  BY <1>1 DEF IInv, Types, PCs, google
<1>3. Others(c)
  BY <1>1 DEF IInv, Types, Others, google
<1>4. pc'[c] = p /\ req'[c] = r /\ phase'[c] = "idle"
  BY <1>1 DEF IInv, Types, CallInv, google
<1>5. ASSUME p = "send" PROVE BodyInv(r, body'[c], stored, changed[c])
  <2>1. body'[c] = AppVacationBody(r) /\ r.tool = "appSetVacation"
    BY <1>1, <1>5 DEF IInv, Types
  <2>2. "enable" \in DOMAIN stored /\ DOMAIN stored = Fields
    BY <1>1, <2>1 DEF Fits, IInv, Shaped
  <2>3. DOMAIN body'[c] = Fields /\ body'[c].start = {}
    <3>1. DOMAIN AppVacationBody(r) = Fields
      BY DEF AppVacationBody, Fields
    <3>2. AppVacationBody(r).start = {}
      BY DEF AppVacationBody
    <3>. QED BY <2>1, <3>1, <3>2
  <2>. QED BY <2>1, <2>2, <2>3 DEF BodyInv, Shaped, RsvpCurrent, VacationCurrent
<1>6. CallInv(c)'
  <2>1. Fits(r)'
    BY <1>1 DEF Fits
  <2>2. p = "send" => RsvpAsRead(r, body'[c], read'[c])
    BY <1>1 DEF RsvpAsRead
  <2>. QED BY <1>1, <1>4, <1>5, <2>1, <2>2 DEF CallInv
<1>. QED BY <1>1, <1>2, <1>3, <1>6, LocalStep

\* What Prepare returns is built from the resource as it is.
LEMMA PrepareInv ==
    ASSUME ShapedInputs, IInv, NEW c \in Calls, Prepare(c)
    PROVE  IInv'
<1>1. PICK b \in Bodies(req[c], stored) :
        /\ pc[c] = "read" /\ pc' = [pc EXCEPT ![c] = "send"]
        /\ body' = [body EXCEPT ![c] = b] /\ read' = [read EXCEPT ![c] = stored]
        /\ UNCHANGED <<stored, edits, req, changed, google>>
  BY DEF Prepare, Goto
<1>2. Types'
  BY <1>1 DEF IInv, Types, PCs, google
<1>3. Others(c)
  BY <1>1 DEF IInv, Types, Others, google
<1>4. /\ pc'[c] = "send" /\ body'[c] = b /\ read'[c] = stored /\ phase'[c] = "idle"
      /\ req[c] \in Requests /\ Fits(req[c]) /\ Shaped(stored)
  BY <1>1 DEF IInv, Types, CallInv, google
<1>5. BodyInv(req[c], b, stored, changed[c]) /\ RsvpAsRead(req[c], b, stored)
  <2>1. CASE req[c].tool = "rsvp"
    BY <1>1, <1>4, <2>1, RsvpBodyIsCurrent DEF Bodies, Fits
  <2>2. CASE req[c].tool = "appSetVacation"
    BY <1>1, <2>2 DEF IInv, CallInv
  <2>3. CASE req[c].tool \notin {"rsvp", "appSetVacation"}
    <3>1. req[c].start \subseteq Int
      BY <1>4, <2>3 DEF ShapedInputs
    <3>. QED BY <1>1, <1>4, <2>3, <3>1, MergedIsCurrent DEF Bodies, Fits, RsvpAsRead
  <2>. QED BY <2>1, <2>2, <2>3
<1>6. CallInv(c)'
  <2>1. Fits(req[c])'
    BY <1>1, <1>4 DEF Fits
  <2>. QED BY <1>1, <1>4, <1>5, <2>1 DEF CallInv
<1>. QED BY <1>1, <1>2, <1>3, <1>6, LocalStep

\* Giving up, sending and being answered change no resource and no body.
LEMMA MoveInv ==
    ASSUME IInv, NEW c \in Calls,
           PrepareFails(c) \/ Send(c) \/ \E v \in Google!Verdicts : Answered(c, v)
    PROVE  IInv'
<1>1. PICK p \in {"await", "done"}, h \in {"idle", "running", "answered"} :
        /\ pc[c] \in {"read", "send", "await"} /\ pc' = [pc EXCEPT ![c] = p]
        /\ phase' = [phase EXCEPT ![c] = h]
        /\ h # "idle" => pc[c] \in {"send", "await"}
        /\ h = "idle" => phase[c] = "idle" /\ p = "done"
        /\ UNCHANGED <<stored, edits, req, body, read, changed>>
  <2>1. CASE PrepareFails(c)
    <3>1. phase[c] = "idle" /\ phase' = [phase EXCEPT ![c] = "idle"]
      BY <2>1 DEF PrepareFails, Goto, IInv, Types, CallInv, google
    <3>. QED BY <2>1, <3>1 DEF PrepareFails, Goto
  <2>2. CASE Send(c)
    BY <2>2 DEF Send, Goto, Google!Begin
  <2>3. ASSUME NEW v \in Google!Verdicts, Answered(c, v)
        PROVE  pc[c] = "await" /\ pc' = [pc EXCEPT ![c] = "done"]
               /\ phase' = [phase EXCEPT ![c] = "answered"]
               /\ UNCHANGED <<stored, edits, req, body, read, changed>>
    BY <2>3 DEF Answered, Goto, Google!AnswerCall
  <2>. QED BY <2>1, <2>2, <2>3
<1>2. Types'
  BY <1>1 DEF IInv, Types, PCs
<1>3. Others(c)
  BY <1>1 DEF IInv, Types, Others
<1>4. pc'[c] = p /\ phase'[c] = h
  BY <1>1 DEF IInv, Types
<1>5. CallInv(c)'
  <2>1. CallInv(c)
    BY DEF IInv
  <2>2. Fits(req[c])'
    BY <1>1, <2>1 DEF CallInv, Fits
  <2>. QED BY <1>1, <1>4, <2>1, <2>2 DEF CallInv
<1>. QED BY <1>1, <1>2, <1>3, <1>5, LocalStep

\* The resource is replaced: what every call holds grows stale by the difference.
LEMMA OverwriteInv ==
    ASSUME IInv, NEW by, NEW s, Overwrite(by, s), DOMAIN s = DOMAIN stored, Shaped(s),
           by \in Calls => body[by] = s,
           edits' \in 0 .. MaxEdits, UNCHANGED <<pc, req, body, read, phase>>
    PROVE  IInv'
<1>1. /\ stored' = s
      /\ \A c \in Calls : changed'[c] = IF c # by /\ pc[c] \notin {"idle", "read"}
                                          THEN changed[c] \union Differing(stored, s)
                                          ELSE changed[c]
  BY DEF Overwrite
<1>2. Types'
  <2>1. \A c \in Calls : changed'[c] \subseteq DOMAIN stored'
    BY <1>1 DEF IInv, Types, Differing
  <2>. QED BY <2>1 DEF IInv, Types
<1>3. ASSUME NEW c \in Calls PROVE CallInv(c)'
  <2>1. CallInv(c) /\ Shaped(stored)
    BY DEF IInv
  <2>2. pc[c] # "idle" => Fits(req[c])'
    BY <1>1, <2>1 DEF CallInv, Fits
  <2>3. ASSUME pc[c] \in {"send", "await"} \/ phase[c] # "idle"
        PROVE  BodyInv(req[c], body[c], stored', changed'[c])
    <3>1. BodyInv(req[c], body[c], stored, changed[c]) /\ pc[c] \notin {"idle", "read"}
      BY <2>1, <2>3 DEF CallInv
    <3>2. CASE c # by
      <4>1. changed'[c] = changed[c] \union Differing(stored, s)
        BY <1>1, <3>1, <3>2
      <4>. QED BY <1>1, <2>1, <3>1, <4>1, OverwrittenIsCurrent
    <3>3. CASE c = by
      <4>1. body[c] = s /\ (req[c].tool # "rsvp" => "enable" \in DOMAIN s)
        BY <3>1, <3>3 DEF BodyInv
      <4>. QED BY <1>1, <4>1, OwnIsCurrent
    <3>. QED BY <3>2, <3>3
  <2>. QED BY <2>1, <2>2, <2>3 DEF CallInv
<1>. QED BY <1>1, <1>2, <1>3 DEF IInv

\* A write is applied only after it was sent, with the body it was sent with.
LEMMA AppliedBody ==
    ASSUME IInv, NEW c \in Calls, NEW n \in Attempts, Apply(c, n)
    PROVE  /\ BodyInv(req[c], body[c], stored, changed[c])
           /\ RsvpAsRead(req[c], body[c], read[c])
           /\ Overwrite(c, body[c]) /\ stored' = body[c]
  BY DEF Apply, Google!Execute, Overwrite, IInv, CallInv

LEMMA ApplyInv ==
    ASSUME IInv, NEW c \in Calls, NEW n \in Attempts, Apply(c, n)
    PROVE  IInv'
<1>1. DOMAIN body[c] = DOMAIN stored /\ Shaped(body[c]) /\ Overwrite(c, body[c])
  BY AppliedBody DEF BodyInv
<1>2. UNCHANGED <<edits, pc, req, body, read, phase>>
  BY DEF Apply, Google!Execute
<1>3. edits' \in 0 .. MaxEdits
  BY <1>2 DEF IInv, Types
<1>. QED BY <1>1, <1>2, <1>3, OverwriteInv

LEMMA EditInv ==
    ASSUME ShapedInputs, IInv, NEW s \in Edits(stored), Edit(s)
    PROVE  IInv'
<1>1. Shaped(s) /\ DOMAIN s = DOMAIN stored
  BY DEF IInv, ShapedInputs
<1>2. /\ edits < MaxEdits /\ edits' = edits + 1 /\ Overwrite(NoRequest, s)
      /\ UNCHANGED <<pc, req, body, read, phase>>
  BY DEF Edit, google
<1>3. edits' \in 0 .. MaxEdits
  BY <1>2, MaxEditsAssumption DEF IInv, Types
<1>. QED BY <1>1, <1>2, <1>3, CallsAssumption, OverwriteInv

LEMMA NextIInv == ShapedInputs /\ IInv /\ [Next]_vars => IInv'
<1> SUFFICES ASSUME ShapedInputs, IInv, [Next]_vars PROVE IInv'
  OBVIOUS
<1>1. ASSUME NEW c \in Calls, NEW r \in Requests, Invoke(c, r) PROVE IInv'
  BY <1>1, InvokeInv
<1>2. ASSUME NEW c \in Calls, Prepare(c) PROVE IInv'
  BY <1>2, PrepareInv
<1>3. ASSUME NEW c \in Calls, PrepareFails(c) \/ Send(c) \/ \E v \in Google!Verdicts : Answered(c, v)
      PROVE  IInv'
  BY <1>3, MoveInv
<1>4. ASSUME NEW c \in Calls, NEW n \in Attempts, Apply(c, n) PROVE IInv'
  BY <1>4, ApplyInv
<1>5. ASSUME NEW s \in Edits(stored), Edit(s) PROVE IInv'
  BY <1>5, EditInv
<1>6. CASE UNCHANGED vars
  <2>1. UNCHANGED <<stored, edits, pc, req, body, read, changed, phase>>
    BY <1>6 DEF vars, google
  <2>2. Types' /\ Shaped(stored)'
    BY <2>1 DEF IInv, Types
  <2>3. \A c \in Calls : CallInv(c)'
    BY <2>1 DEF IInv, CallInv, Fits
  <2>. QED BY <2>2, <2>3 DEF IInv
<1>. QED BY <1>1, <1>2, <1>3, <1>4, <1>5, <1>6 DEF Next

\* What a write does to the resource, from the invariant.
LEMMA AppliesMeans ==
    ASSUME IInv, NEW c \in Calls, NEW tool, Applies(c, tool)
    PROVE  /\ BodyInv(req[c], body[c], stored, changed[c])
           /\ RsvpAsRead(req[c], body[c], read[c])
           /\ stored' = body[c] /\ req[c].tool = tool
  BY AppliedBody DEF Applies

THEOREM Invariance ==
    ASSUME ShapedInputs
    PROVE  Spec => []IInv
<1>1. Init => IInv
  BY InitIInv
<1>2. IInv /\ [Next]_vars => IInv'
  BY NextIInv
<1>. QED BY <1>1, <1>2, PTL DEF Spec

\* The variables keep their types; a body always has the fields of the resource.
THEOREM TypeCorrect ==
    ASSUME ShapedInputs
    PROVE  Spec => []TypeOK
<1>1. IInv => TypeOK
  BY DEF IInv, Types, TypeOK, CallInv, BodyInv
<1>2. Spec => []IInv
  BY Invariance
<1>. QED BY <1>1, <1>2, PTL

\* calendar_respond_to_event sends the whole list of attendees back.  What nobody else
\* touched keeps its value but for the caller's entry; what somebody did touch after the
\* read is undone, a removal too; and nobody joins who was not on the list that was read.
THEOREM RsvpChangesOwnEntry ==
    ASSUME ShapedInputs
    PROVE  Spec => OwnEntryOnly
<1> DEFINE Untouched(c) == \A p \in Differing(stored, stored') \ changed[c] :
                             p = req[c].self /\ stored[p] # "absent"
           AsRead(c) == /\ DOMAIN stored' = DOMAIN read[c]
                        /\ \A p \in DOMAIN stored' :
                             /\ p # req[c].self => stored'[p] = read[c][p]
                             /\ stored'[p] # "absent" => read[c][p] # "absent"
           Own == \A c \in Calls : Applies(c, "rsvp") =>
                    /\ \A p \in Differing(stored, stored') \ changed[c] :
                         p = req[c].self /\ stored[p] # "absent"
                    /\ DOMAIN stored' = DOMAIN read[c]
                    /\ \A p \in DOMAIN stored' :
                         /\ p # req[c].self => stored'[p] = read[c][p]
                         /\ stored'[p] # "absent" => read[c][p] # "absent"
<1>1. IInv => Own
  <2> SUFFICES ASSUME IInv, NEW c \in Calls, Applies(c, "rsvp")
               PROVE  Untouched(c) /\ AsRead(c)
    OBVIOUS
  <2>1. /\ RsvpCurrent(req[c], stored', stored, changed[c]) /\ req[c].tool = "rsvp"
        /\ RsvpAsRead(req[c], stored', read[c])
    BY AppliesMeans DEF BodyInv
  <2>2. Untouched(c)
    BY <2>1 DEF RsvpCurrent, Differing
  <2>3. AsRead(c)
    BY <2>1 DEF RsvpAsRead
  <2>. QED BY <2>2, <2>3
<1>2. Spec => []IInv
  BY Invariance
<1>. QED BY <1>1, <1>2, PTL DEF OwnEntryOnly

\* gmail_set_vacation carries over what it was not given, although epochMillisToRFC3339
\* rewrites the bounds it read.
THEOREM VacationCarriesOver ==
    ASSUME ShapedInputs
    PROVE  Spec => OmittedCarriedOver
<1> DEFINE Kept == \A c \in Calls : Applies(c, "setVacation") =>
         /\ \A e \in {"text", "restrict"} \ (Named(req[c]) \union changed[c]) :
              stored'[e] = stored[e]
         /\ "start" \notin Named(req[c]) \union changed[c] =>
              Second(stored'.start) = Second(stored.start)
<1>1. IInv => Kept
  <2> SUFFICES ASSUME IInv, NEW c \in Calls, Applies(c, "setVacation")
               PROVE  /\ \A e \in {"text", "restrict"} \ (Named(req[c]) \union changed[c]) :
                           stored'[e] = stored[e]
                      /\ "start" \notin Named(req[c]) \union changed[c] =>
                           Second(stored'.start) = Second(stored.start)
    OBVIOUS
  <2>1. VacationCurrent(req[c], stored', stored, changed[c]) /\ req[c].tool = "setVacation"
    BY AppliesMeans DEF BodyInv
  <2>. QED BY <2>1 DEF VacationCurrent
<1>2. Spec => []IInv
  BY Invariance
<1>. QED BY <1>1, <1>2, PTL DEF OmittedCarriedOver

\* "Anything omitted keeps its stored value" is wrong of two fields at most: the HTML
\* body, which the PUT clears, and the bounds, which lose their fraction of a second.
OmittedLosesHtmlOnly ==
    [][\A c \in Calls : Applies(c, "setVacation") /\ changed[c] = {} =>
         /\ Differing(stored, stored') \subseteq Named(req[c]) \union {"html", "start"}
         /\ "start" \in Named(req[c]) \/ Second(stored'.start) = Second(stored.start)]_vars

\* How far gmail_set_vacation departs from its description, when nothing interferes
\* with the call, on the first attempt and on a retry.
THEOREM VacationLoses ==
    ASSUME ShapedInputs
    PROVE  Spec => OmittedLosesHtmlOnly
<1> DEFINE Lost == \A c \in Calls : Applies(c, "setVacation") /\ changed[c] = {} =>
         /\ Differing(stored, stored') \subseteq Named(req[c]) \union {"html", "start"}
         /\ "start" \in Named(req[c]) \/ Second(stored'.start) = Second(stored.start)
<1>1. IInv => Lost
  <2> SUFFICES ASSUME IInv, NEW c \in Calls, Applies(c, "setVacation"), changed[c] = {}
               PROVE  /\ Differing(stored, stored')
                           \subseteq Named(req[c]) \union {"html", "start"}
                      /\ \/ "start" \in Named(req[c])
                         \/ Second(stored'.start) = Second(stored.start)
    OBVIOUS
  <2>1. BodyInv(req[c], stored', stored, changed[c]) /\ req[c].tool = "setVacation"
    BY AppliesMeans
  <2>2. DOMAIN stored = Fields
    BY <2>1 DEF BodyInv, IInv, Shaped
  <2>3. \A e \in {"text", "restrict"} \ Named(req[c]) : stored'[e] = stored[e]
    BY <2>1 DEF BodyInv, VacationCurrent
  <2>4. "enable" \in Named(req[c])
    BY DEF Named
  <2>5. Differing(stored, stored') \subseteq Named(req[c]) \union {"html", "start"}
    BY <2>2, <2>3, <2>4 DEF Differing, Fields
  <2>. QED BY <2>1, <2>5 DEF BodyInv, VacationCurrent
<1>2. Spec => []IInv
  BY Invariance
<1>. QED BY <1>1, <1>2, PTL DEF OmittedLosesHtmlOnly

\* The tools use operations as Operation lets them, however the resource changes
\* meanwhile: nothing is carried out that was not sent, or that was refused.
THEOREM UsesOperations == Spec => Google!Spec
<1>1. Init => Google!Init
  BY DEF Init
<1>2. [Next]_vars => [Google!Next]_(Google!vars)
  <2>1. ASSUME NEW c \in Calls,
               (\E r \in Requests : Invoke(c, r)) \/ PrepareFails(c) \/ Prepare(c)
        PROVE  UNCHANGED google
    BY <2>1 DEF Invoke, PrepareFails, Prepare
  <2>2. ASSUME NEW c \in Calls, Send(c) PROVE Google!Next
    BY <2>2 DEF Send, Google!Next
  <2>3. ASSUME NEW c \in Calls, NEW v \in Google!Verdicts, Answered(c, v) PROVE Google!Next
    BY <2>3 DEF Answered, Google!Next
  <2>4. ASSUME NEW c \in Calls, NEW n \in Attempts, Apply(c, n) PROVE Google!Next
    BY <2>4 DEF Apply, Google!Next
  <2>5. ASSUME (\E s \in Edits(stored) : Edit(s)) \/ UNCHANGED vars PROVE UNCHANGED google
    BY <2>5 DEF Edit, vars
  <2>. QED BY <2>1, <2>2, <2>3, <2>4, <2>5 DEF Next, google, Google!vars
<1>. QED BY <1>1, <1>2, PTL DEF Spec, Google!Spec
=============================================================================
