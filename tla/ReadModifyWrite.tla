-------------------------- MODULE ReadModifyWrite --------------------------
(***************************************************************************)
(* The tools that change a part of a Google resource whose write replaces  *)
(* the whole: calendar_respond_to_event (the attendees of an event) and    *)
(* gmail_set_vacation read it in their Prepare step and send it back       *)
(* changed; app_set_vacation sends its own.  Both gates are open, see      *)
(* WriteTools.                                                             *)
(*                                                                         *)
(* Between the read and the write, and between a write and its retry, the  *)
(* resource is changed by other calls and by its owners.  No request       *)
(* carries an etag: Google takes whatever arrives.                         *)
(***************************************************************************)
EXTENDS Integers, FiniteSets

CONSTANTS
    Calls,      \* the tool calls
    Requests,   \* what they ask for, see Request
    Initial,    \* what the resource may hold at first
    Edits(_),   \* what its owners may turn it into
    MaxEdits    \* how often they do

Replies == {"accepted", "declined", "tentative"}

\* An RSVP; the vacation settings as a call gives them, where "" and {} are omitted;
\* the same of the application tier.  text stands for the subject and the body,
\* restrict for both restrictions, start for both bounds, in milliseconds.
Rsvp(p, reply) == [tool |-> "rsvp", self |-> p, reply |-> reply]
SetVacation(enable, text, restrict, start) ==
    [tool |-> "setVacation", enable |-> enable, text |-> text, restrict |-> restrict,
     start |-> start]
AppSetVacation(enable, text) ==
    [tool |-> "appSetVacation", enable |-> enable, text |-> text]

NoRequest == [tool |-> "none"]

ASSUME CallsAssumption == NoRequest \notin Calls
ASSUME MaxEditsAssumption == MaxEdits \in Nat

VARIABLES
    stored,      \* the resource: entries to values
    edits,       \* how often its owners changed it
    pc,          \* pc[c]: where call c is
    req,         \* req[c]: its request
    body,        \* body[c]: what c sends, on every attempt
    read,        \* read[c]: what the Prepare step of c read, NoBody before; a history
    changed,     \* changed[c]: the entries others changed since body[c] was built
    phase, verdict, executed   \* the writes at Google, see Operation

google == <<phase, verdict, executed>>
vars == <<stored, edits, pc, req, body, read, changed, google>>

\* One retry stands for all of them.
Attempts == {1, 2}
Google == INSTANCE Operation

NoBody == [none |-> TRUE]

PCs == {"idle", "read", "send", "await", "done"}

TypeOK ==
    /\ edits \in 0 .. MaxEdits
    /\ pc \in [Calls -> PCs]
    /\ req \in [Calls -> Requests \union {NoRequest}]
    /\ \A c \in Calls :
         /\ pc[c] \in {"send", "await"} => DOMAIN body[c] = DOMAIN stored
         /\ changed[c] \subseteq DOMAIN stored

Init ==
    /\ stored \in Initial
    /\ edits = 0
    /\ pc = [c \in Calls |-> "idle"]
    /\ req = [c \in Calls |-> NoRequest]
    /\ body = [c \in Calls |-> NoBody]
    /\ read = [c \in Calls |-> NoBody]
    /\ changed = [c \in Calls |-> {}]
    /\ Google!Init

Goto(c, from, to) ==
    /\ pc[c] = from
    /\ pc' = [pc EXCEPT ![c] = to]

-----------------------------------------------------------------------------
(* The bodies. *)

Invited(r, cur) == r.self \in DOMAIN cur /\ cur[r.self] # "absent"

\* Seeded faults: a list with the caller alone; everybody else marked as removed.
RsvpPartial(r, cur) ==
    IF Invited(r, cur) THEN {[p \in {r.self} |-> r.reply]} ELSE {}
RsvpAlone(r, cur) ==
    IF Invited(r, cur)
      THEN {[p \in DOMAIN cur |-> IF p = r.self THEN r.reply ELSE "absent"]}
      ELSE {}

\* rsvpBody: the attendees as read, the caller's entry changed; none when the
\* caller is not among them.
RsvpBody(r, cur) ==
    IF Invited(r, cur) THEN {[cur EXCEPT ![r.self] = r.reply]} ELSE {}

\* epochMillisToRFC3339 drops the fraction of a second of a positive time and
\* leaves any other value alone, which rfc3339ToEpochMillis then refuses.
ToRFC3339(t) == IF t > 0 THEN {1000 * (t \div 1000)} ELSE {}

\* setVacationTime.
StartBody(specified, current) ==
    IF specified # {} THEN specified ELSE UNION {ToRFC3339(t) : t \in current}

StartRefused(specified, current) ==
    specified = {} /\ \E t \in current : ToRFC3339(t) = {}

\* Seeded fault: an omitted text is sent empty.
MergedTextBlank(r, cur) ==
    [enable |-> r.enable, text |-> r.text,
     restrict |-> IF r.restrict # {} THEN TRUE \in r.restrict ELSE cur.restrict,
     start |-> StartBody(r.start, cur.start), html |-> ""]

\* What the call specifies over what is stored.  vacationFields does not name
\* responseBodyHtml: it is neither read nor sent, so the PUT clears it.
Merged(r, cur) ==
    [enable |-> r.enable,
     text |-> IF r.text # "" THEN r.text ELSE cur.text,
     restrict |-> IF r.restrict # {} THEN TRUE \in r.restrict ELSE cur.restrict,
     start |-> StartBody(r.start, cur.start),
     html |-> ""]

\* mergedVacationBody fails on a stored bound that it cannot write back.
MergedVacationBody(r, cur) ==
    IF StartRefused(r.start, cur.start) THEN {} ELSE {Merged(r, cur)}

\* app_set_vacation reads nothing: what it does not send is cleared.
AppVacationBody(r) ==
    [enable |-> r.enable, text |-> IF r.enable THEN r.text ELSE "",
     restrict |-> FALSE, start |-> {}, html |-> ""]

\* The result of Prepare: one body, or none when it fails.
Bodies(r, cur) == IF r.tool = "rsvp" THEN RsvpBody(r, cur) ELSE MergedVacationBody(r, cur)

\* A request reaches the resource it is about.
Fits(r) == (r.tool = "rsvp") <=> ("enable" \notin DOMAIN stored)

-----------------------------------------------------------------------------

Invoke(c, r) ==
    /\ Fits(r)
    /\ req' = [req EXCEPT ![c] = r]
    /\ IF r.tool = "appSetVacation"
         THEN Goto(c, "idle", "send") /\ body' = [body EXCEPT ![c] = AppVacationBody(r)]
         ELSE Goto(c, "idle", "read") /\ UNCHANGED body
    /\ UNCHANGED <<stored, edits, read, changed, google>>

\* Prepare cannot read the resource or will not change it: nothing is sent.
PrepareFails(c) ==
    /\ Goto(c, "read", "done")
    /\ UNCHANGED <<stored, edits, req, body, read, changed, google>>

Prepare(c) ==
    /\ Goto(c, "read", "send")
    /\ \E b \in Bodies(req[c], stored) : body' = [body EXCEPT ![c] = b]
    /\ read' = [read EXCEPT ![c] = stored]
    /\ UNCHANGED <<stored, edits, req, changed, google>>

Send(c) ==
    /\ Goto(c, "send", "await")
    /\ Google!Begin(c)
    /\ UNCHANGED <<stored, edits, req, body, read, changed>>

Answered(c, v) ==
    /\ Goto(c, "await", "done")
    /\ Google!AnswerCall(c, v)
    /\ UNCHANGED <<stored, edits, req, body, read, changed>>

\* The entries in which two values of the resource differ.
Differing(s, t) == {e \in DOMAIN s : s[e] # t[e]}

\* Somebody turned the resource into s: every other call now holds a stale copy.
Overwrite(by, s) ==
    /\ stored' = s
    /\ changed' = [c \in Calls |->
                     IF c # by /\ pc[c] \notin {"idle", "read"}
                       THEN changed[c] \union Differing(stored, s)
                       ELSE changed[c]]

\* Google carries out attempt n of the write of c, now or after c was answered.
Apply(c, n) ==
    /\ Google!Execute(c, n)
    /\ Overwrite(c, body[c])
    /\ UNCHANGED <<edits, pc, req, body, read>>

\* The owner of the mailbox, the organizer or an attendee changes it directly.
Edit(s) ==
    /\ edits < MaxEdits
    /\ s # stored
    /\ edits' = edits + 1
    /\ Overwrite(NoRequest, s)
    /\ UNCHANGED <<pc, req, body, read, google>>

-----------------------------------------------------------------------------

Next ==
    \/ \E c \in Calls :
         \/ \E r \in Requests : Invoke(c, r)
         \/ PrepareFails(c)
         \/ Prepare(c)
         \/ Send(c)
         \/ \E v \in Google!Verdicts : Answered(c, v)
         \/ \E n \in Attempts : Apply(c, n)
    \/ \E s \in Edits(stored) : Edit(s)

Spec == Init /\ [][Next]_vars

-----------------------------------------------------------------------------

Applies(c, tool) == req[c].tool = tool /\ \E n \in Attempts : Apply(c, n)

\* An RSVP changes the caller's own entry, and only where there is one; any other
\* entry only when it changed after the list was read.  Such an entry is not kept: the
\* write puts everybody but the caller back as read, so that one taken off meanwhile,
\* the caller too, is on the list again.  Who was not on it when it was read never is.
OwnEntryOnly ==
    [][\A c \in Calls : Applies(c, "rsvp") =>
         /\ \A p \in Differing(stored, stored') \ changed[c] :
              p = req[c].self /\ stored[p] # "absent"
         /\ DOMAIN stored' = DOMAIN read[c]
         /\ \A p \in DOMAIN stored' :
              /\ p # req[c].self => stored'[p] = read[c][p]
              /\ stored'[p] # "absent" => read[c][p] # "absent"]_vars

\* The entries a set_vacation call names.
Named(r) ==
    {"enable"} \union {e \in {"text"} : r.text # ""}
               \union {e \in {"restrict"} : r.restrict # {}}
               \union {e \in {"start"} : r.start # {}}

Second(start) == {t \div 1000 : t \in start}

\* gmail_set_vacation, switching off included, keeps what it was not given: the
\* fields it reads, the times to the second, unless they changed after the read.
OmittedCarriedOver ==
    [][\A c \in Calls : Applies(c, "setVacation") =>
         /\ \A e \in {"text", "restrict"} \ (Named(req[c]) \union changed[c]) :
              stored'[e] = stored[e]
         /\ "start" \notin Named(req[c]) \union changed[c] =>
              Second(stored'.start) = Second(stored.start)]_vars

\* The description of gmail_set_vacation: "Anything omitted keeps its stored value",
\* of a call that nothing interferes with.
OmittedKeepsValue ==
    [][\A c \in Calls : Applies(c, "setVacation") /\ changed[c] = {} /\ executed[c] = {} =>
         Differing(stored, stored') \subseteq Named(req[c])]_vars
=============================================================================
