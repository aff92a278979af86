------------------------- MODULE MCReadModifyWrite -------------------------
(***************************************************************************)
(* ReadModifyWrite for TLC: an event with two attendees and one that may   *)
(* be added, or the vacation settings of one mailbox.  The start is a      *)
(* whole second, a fraction, or the epoch.                                 *)
(***************************************************************************)
EXTENDS ReadModifyWrite

People == {"alice", "bob", "carol"}
Event(alice, bob, carol) == [p \in People |->
    CASE p = "alice" -> alice [] p = "bob" -> bob [] p = "carol" -> carol]

Vacation(enable, text, restrict, start, html) ==
    [enable |-> enable, text |-> text, restrict |-> restrict, start |-> start, html |-> html]

MCInitial ==
    {Event("needsAction", "needsAction", "absent")}
      \union {Vacation(TRUE, "away", TRUE, s, "") : s \in {{}, {0}, {2000}, {2500}}}
      \union {Vacation(TRUE, "", FALSE, {}, "<b>away</b>")}

MCRequests ==
    {Rsvp("alice", "accepted"), Rsvp("bob", "declined"), Rsvp("carol", "accepted"),
     SetVacation(FALSE, "", {}, {}), SetVacation(TRUE, "back soon", {FALSE}, {}),
     SetVacation(TRUE, "", {}, {3000}), AppSetVacation(FALSE, "")}

\* An attendee answers or is added or taken off; the owner changes one setting.
MCEdits(s) ==
    IF "enable" \in DOMAIN s
      THEN {[s EXCEPT !.text = "in Rome"], [s EXCEPT !.restrict = ~@],
            [s EXCEPT !.start = {4000}]}
      ELSE {[s EXCEPT ![p] = r] : p \in People, r \in {"tentative", "absent"}}
=============================================================================
