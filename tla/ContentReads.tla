---------------------------- MODULE ContentReads ----------------------------
(***************************************************************************)
(* How the text of a message and of a file reaches the model:              *)
(* messageBody and htmlToText of gmail_tools.go, drive_get_file_content of *)
(* drive_tools.go, and truncateUTF8 of tools.go, which caps both.          *)
(*                                                                         *)
(* A text is a sequence of lexemes.  htmlToText is its scanning loop, one  *)
(* turn per step, whose jump over a code element is measured in a lower    *)
(* case copy of the text and may end within a lexeme; a lexeme it does not *)
(* start at is written byte by byte.  drive_get_file_content reads a file  *)
(* in two requests, between which somebody may upload another revision.    *)
(***************************************************************************)
EXTENDS Integers, Sequences, FiniteSetsExt

CONSTANTS
    Messages,    \* the messages gmail_get_message may be asked for, see Part
    Files,       \* what a file may hold, see File
    MaxBytes,    \* maxBodyBytes, maxFileContentBytes
    MaxResponse  \* maxResponseBytes of the Google client

\* A rune of text of 1 to 4 bytes, or a byte that occurs in none (width 0), and how
\* many bytes strings.ToLower makes of it: one for the two of U+0130, three for a byte
\* that is no rune.  "arrow" is the ">" of a "-->".
Rune == [kind : {"text", "arrow"}, name : {""}, closing : {FALSE}, width : 0 .. 4,
         lowered : 1 .. 4]

\* A tag by its name in lower case; "comment" is "<!--", "angle" is a "<" that opens no
\* tag.  Only "tag", at its end, and "arrow" hold a ">".
Lexeme == Rune \union
    [kind : {"tag", "comment", "angle"}, name : STRING, closing : BOOLEAN,
     width : Nat \ {0}, lowered : Nat]

\* A leaf of the MIME tree, in depth-first order; its data may be missing or not be
\* base64.  Only in HTML does a "<" mean anything.
Part ==
    [type : {"text/html"}, data : {"none", "bad", "good"}, text : Seq(Lexeme)] \union
    [type : {"text/plain", "other"}, data : {"none", "bad", "good"}, text : Seq(Rune)]

\* kind: a Google document with a text export, one without, a textual MIME type, or
\* any other.
File == [kind : {"document", "form", "textual", "binary"}, text : Seq(Rune)]

ASSUME MessagesAssumption == Messages \subseteq Seq(Part)
ASSUME FilesAssumption == Files \subseteq File
ASSUME CapAssumption == MaxBytes \in Nat /\ MaxResponse \in Nat /\ MaxBytes <= MaxResponse

VARIABLES
    message,   \* the message asked for, <<>> when it is a file
    file,      \* what the file holds now, NoFile when it is a message
    pc,        \* where the tool is
    meta,      \* meta.MimeType
    replaced,  \* the file was replaced since its metadata was read
    body,      \* the text that is read
    i, into,   \* htmlToText: the next lexeme, and how many of its bytes are behind
    shown,     \* htmlToText: what was written: a position in body for the whole lexeme,
               \* its negative for one byte of it, 0 for a newline
    result     \* what the tool returns: the text before the cut, and how much is kept

vars == <<message, file, pc, meta, replaced, body, i, into, shown, result>>

NoFile == [kind |-> "none", text |-> <<>>]
NoResult == [status |-> "none", text |-> <<>>, kept |-> 0, truncated |-> FALSE]

Bytes(x) == IF x.width = 0 THEN 1 ELSE x.width

\* The lexeme that is shown, whole or in part.
Place(x) == IF x < 0 THEN -x ELSE x

\* What is written keeps the order of the document.
Precedes(x, y) == Place(x) < Place(y) \/ (x = y /\ x < 0)

TypeOK ==
    /\ message \in Seq(Part) /\ file \in Files \union {NoFile}
    /\ pc \in {"body", "html", "cut", "meta", "content", "done"}
    /\ meta \in {"", "document", "form", "textual", "binary"} /\ replaced \in BOOLEAN
    /\ body \in Seq(Lexeme) /\ shown \in Seq(Int)
    /\ i \in 1 .. Len(body) + 1
    /\ into \in Nat /\ into < (IF i <= Len(body) THEN Bytes(body[i]) ELSE 1)
    /\ \A k \in DOMAIN shown :
         /\ Place(shown[k]) \in 0 .. Len(body)
         /\ shown[k] > 0 => body[shown[k]] \in Rune
    /\ \A k, l \in DOMAIN shown : k < l /\ shown[l] # 0 => Precedes(shown[k], shown[l])
    /\ result.status \in {"none", "ok", "error"} /\ (pc = "done" <=> result # NoResult)

Init ==
    /\ \/ message \in Messages /\ file = NoFile /\ pc = "body"
       \/ message = <<>> /\ file \in Files /\ pc = "meta"
    /\ meta = "" /\ replaced = FALSE
    /\ body = <<>> /\ i = 1 /\ into = 0 /\ shown = <<>>
    /\ result = NoResult

Goto(from, to) == pc = from /\ pc' = to

-----------------------------------------------------------------------------
(* Choosing the part. *)

PartsOfType(m, type) == {k \in DOMAIN m : m[k].type = type /\ m[k].data # "none"}

\* firstPartOfType, for plain text and then for HTML; 0 when there is neither.
Chosen(m) ==
    CASE PartsOfType(m, "text/plain") # {} -> Min(PartsOfType(m, "text/plain"))
      [] PartsOfType(m, "text/plain") = {} /\ PartsOfType(m, "text/html") # {} ->
           Min(PartsOfType(m, "text/html"))
      [] OTHER -> 0

Readable(m) == Chosen(m) # 0 /\ m[Chosen(m)].data = "good"

Positions(t) == [k \in 1 .. Len(t) |-> k]

\* messageBody: a part that is missing or does not decode reads as an empty body.
ReadBody ==
    /\ IF ~Readable(message)
         THEN Goto("body", "cut") /\ UNCHANGED <<body, shown>>
         ELSE LET part == message[Chosen(message)] IN
              /\ body' = part.text
              /\ IF part.type = "text/html"
                   THEN Goto("body", "html") /\ UNCHANGED shown
                   ELSE Goto("body", "cut") /\ shown' = Positions(part.text)
    /\ UNCHANGED <<message, file, meta, replaced, i, into, result>>

-----------------------------------------------------------------------------
(* htmlToText. *)

CodeElements == {"script", "style", "head"}
Blocks == {"br", "p", "div", "header"}

\* strings.Index finds "</head" in "</header" too.
Closes(x, name) ==
    /\ x.kind = "tag" /\ x.closing
    /\ x.name = name \/ (name = "head" /\ x.name = "header")

\* The first of the lexemes in S, or the end of the text.
FirstOf(S) == IF S = {} THEN Len(body) + 1 ELSE Min(S)

AtLexeme(kinds) == pc = "html" /\ i <= Len(body) /\ into = 0 /\ body[i].kind \in kinds

WriteText ==
    /\ AtLexeme({"text", "arrow"})
    /\ shown' = Append(shown, i)
    /\ i' = i + 1
    /\ UNCHANGED <<message, file, pc, meta, replaced, body, into, result>>

\* Within a lexeme no byte is a "<".
WriteByte ==
    /\ pc = "html" /\ into > 0
    /\ shown' = Append(shown, -i)
    /\ IF into + 1 < Bytes(body[i])
         THEN into' = into + 1 /\ i' = i
         ELSE into' = 0 /\ i' = i + 1
    /\ UNCHANGED <<message, file, pc, meta, replaced, body, result>>

\* Seeded fault: that there is no ">" any more is not checked.
PastAngleUnchecked(k) ==
    FirstOf({l \in k .. Len(body) : body[l].kind \in {"tag", "arrow"}}) + 1

PastAngle(k) ==
    LET next == FirstOf({l \in k .. Len(body) : body[l].kind \in {"tag", "arrow"}})
    IN  IF next > Len(body) THEN next ELSE next + 1

\* A comment, and a "<" that opens no tag, end at the next ">"; without one the rest
\* of the text is dropped.
SkipToAngle ==
    /\ AtLexeme({"comment", "angle"})
    /\ i' = PastAngle(i)
    /\ UNCHANGED <<message, file, pc, meta, replaced, body, into, shown, result>>

\* The sums of the first k of w.
Sums(w) ==
    LET at[k \in 0 .. Len(w)] == IF k = 0 THEN 0 ELSE at[k-1] + w[k]
    IN  at

\* Where the lexemes of t end, in t itself and in its lower case copy.
EndsOf(t) == Sums([k \in 1 .. Len(t) |-> Bytes(t[k])])
LoweredEndsOf(t) == Sums([k \in 1 .. Len(t) |-> t[k].lowered])

\* The lexeme that byte n of the text is in, and how far; at or past the end of the
\* text the loop is over.
PlaceAt(n) ==
    LET l == FirstOf({m \in 1 .. Len(body) : n < EndsOf(body)[m]})
    IN  <<l, IF l > Len(body) THEN 0 ELSE n - EndsOf(body)[l-1]>>

\* The closing tags that the lower case copy of what follows k holds.
Closers(k) == {l \in k + 1 .. Len(body) : Closes(body[l], body[k].name)}

\* Seeded faults: the contents are not skipped; the search starts at the tag itself.
AfterTagKeepingCode(k) == <<k + 1, 0>>
AfterTagFromItself(k) ==
    LET closers == {l \in k .. Len(body) : Closes(body[l], body[k].name)}
    IN  IF closers = {} THEN <<k + 1, 0>> ELSE <<Min(closers), 0>>

\* The distance to the closing tag, as the lower case copy has it, is taken in the text
\* itself.  The name of a tag is compared without its slash: a closing tag of a code
\* element searches for the next one just like an opening tag.
AfterTag(k) ==
    IF body[k].name \in CodeElements /\ Closers(k) # {}
      THEN LET lowered == LoweredEndsOf(body)
           IN  PlaceAt(EndsOf(body)[k] + (lowered[Min(Closers(k))-1] - lowered[k]))
      ELSE <<k + 1, 0>>

Tag ==
    /\ AtLexeme({"tag"})
    /\ shown' = IF body[i].name \in Blocks THEN Append(shown, 0) ELSE shown
    /\ i' = AfterTag(i)[1]
    /\ into' = AfterTag(i)[2]
    /\ UNCHANGED <<message, file, pc, meta, replaced, body, result>>

\* collapseBlankLines and TrimSpace: one blank line at most, none at either end.
Put(t, k) ==
    LET n == Len(t)
    IN  IF k = 0 /\ (n = 0 \/ (n > 1 /\ t[n] = 0 /\ t[n-1] = 0)) THEN t ELSE Append(t, k)

Collapsed(s) ==
    LET upTo[k \in 0 .. Len(s)] == IF k = 0 THEN <<>> ELSE Put(upTo[k-1], s[k])
    IN  upTo

Legible(s) ==
    LET lines == Collapsed(s)[Len(s)]
    IN  SubSeq(lines, 1, Max({0} \union {k \in DOMAIN lines : lines[k] # 0}))

EndOfHtml ==
    /\ i > Len(body)
    /\ Goto("html", "cut")
    /\ shown' = Legible(shown)
    /\ UNCHANGED <<message, file, meta, replaced, body, i, into, result>>

-----------------------------------------------------------------------------
(* drive_get_file_content. *)

Fail(from) ==
    /\ Goto(from, "done")
    /\ result' = [NoResult EXCEPT !.status = "error"]
    /\ UNCHANGED <<body, shown>>

\* Seeded fault: only Google's own types are refused.
ReadableKindAny(kind) == kind # "form"

\* googleAppsExports, textualMIME.
ReadableKind(kind) == kind \in {"document", "textual"}

\* The metadata decides whether and how the content is asked for.
ReadMeta ==
    /\ \/ /\ ReadableKind(file.kind)
          /\ Goto("meta", "content")
          /\ meta' = file.kind
          /\ UNCHANGED <<body, shown, result>>
       \/ Fail("meta") /\ UNCHANGED meta
    /\ UNCHANGED <<message, file, replaced, i, into>>

Width(t, x) == IF x <= 0 THEN 1 ELSE Bytes(t[x])

\* The number of bytes up to each place of s, whose elements are those of shown.
Offset(t, s) == Sums([k \in 1 .. Len(s) |-> Width(t, s[k])])

Size(t, s) == Offset(t, s)[Len(s)]

\* The content as it is by now; the client refuses a response that is too long.
ReadContent ==
    /\ \/ /\ Size(file.text, Positions(file.text)) <= MaxResponse
          /\ Goto("content", "cut")
          /\ body' = file.text
          /\ shown' = Positions(file.text)
          /\ UNCHANGED result
       \/ Fail("content")
    /\ UNCHANGED <<message, file, meta, replaced, i, into>>

\* A new revision is uploaded, perhaps of another MIME type; a Google document stays
\* one.
Replace ==
    /\ pc \in {"meta", "content"}
    /\ \E f \in Files \ {file} :
         /\ f.kind = file.kind \/ {f.kind, file.kind} = {"textual", "binary"}
         /\ file' = f
    /\ replaced' = (pc = "content")
    /\ UNCHANGED <<message, pc, meta, body, i, into, shown, result>>

-----------------------------------------------------------------------------
(* truncateUTF8. *)

\* A rune, or a byte of a tag, which is one: a byte of a rune of text is none.
Whole(t, x) == IF x < 0 THEN t[-x] \notin Rune ELSE x = 0 \/ t[x].width # 0

\* A rune ends at byte n of the text s.
EndsRune(t, s, n) == \E k \in DOMAIN s : Offset(t, s)[k] = n /\ Whole(t, s[k])

\* Seeded fault: at most two bytes are taken off.
DroppedTwo(t, s) ==
    CHOOSE d \in 0 .. 2 :
        /\ d = 2 \/ d = MaxBytes \/ EndsRune(t, s, MaxBytes - d)
        /\ \A e \in 0 .. d - 1 : ~EndsRune(t, s, MaxBytes - e)

\* What the loop takes off the first MaxBytes bytes: it stops at the end of a rune,
\* after three bytes, or with nothing left.
Dropped(t, s) ==
    CHOOSE d \in 0 .. Min({3, MaxBytes}) :
        /\ d = Min({3, MaxBytes}) \/ EndsRune(t, s, MaxBytes - d)
        /\ \A e \in 0 .. d - 1 : ~EndsRune(t, s, MaxBytes - e)

Kept(t, s) == IF Size(t, s) <= MaxBytes THEN Size(t, s) ELSE MaxBytes - Dropped(t, s)

Cut ==
    /\ Goto("cut", "done")
    /\ result' = [status |-> "ok", text |-> shown, kept |-> Kept(body, shown),
                  truncated |-> Size(body, shown) > MaxBytes]
    /\ UNCHANGED <<message, file, meta, replaced, body, i, into, shown>>

-----------------------------------------------------------------------------

\* What the tool does on its own.
Step ==
    \/ ReadBody
    \/ WriteText
    \/ WriteByte
    \/ SkipToAngle
    \/ Tag
    \/ EndOfHtml
    \/ Cut

Next == Step \/ ReadMeta \/ ReadContent \/ Replace

\* The tool runs; nothing makes its requests return, which may wait for a token for
\* ever, see WriteTools.
Spec == Init /\ [][Next]_vars /\ WF_vars(Step)

-----------------------------------------------------------------------------
(* What an HTML text says: a reader that keeps track of where it is. *)

\* Where lexeme x leads from context c: prose, a comment, or the contents of a code
\* element.
Past(c, x) ==
    CASE c = "prose" ->
           IF x.kind = "comment" THEN "comment"
           ELSE IF x.kind = "tag" /\ ~x.closing /\ x.name \in CodeElements THEN x.name
           ELSE "prose"
      [] c = "comment" -> IF x.kind = "arrow" THEN "prose" ELSE "comment"
      [] OTHER -> IF x.kind = "tag" /\ x.closing /\ x.name = c THEN "prose" ELSE c

\* What follows position k of t stands in.
Context(t) ==
    LET in[k \in 0 .. Len(t)] == IF k = 0 THEN "prose" ELSE Past(in[k-1], t[k])
    IN  in

TextIn(t, contexts) ==
    LET in == Context(t)
    IN  {k \in DOMAIN t : t[k].kind \in {"text", "arrow"} /\ in[k-1] \in contexts}

\* Comments and code elements are closed, what is closed was opened, and no "<" stands
\* for itself; what only a body has does not occur in the head.
WellFormed(t) ==
    LET in == Context(t)
    IN  /\ in[Len(t)] = "prose"
        /\ \A k \in DOMAIN t :
             /\ t[k].kind = "angle" => in[k-1] # "prose"
             /\ t[k].closing /\ in[k-1] = "prose" =>
                  /\ t[k].name \notin CodeElements
                  /\ \E j \in 1 .. k - 1 : t[j].name = t[k].name /\ ~t[j].closing
             /\ t[k].name = "header" => in[k-1] # "head"

\* No comment holds a ">" before its end.
PlainComments(t) ==
    LET in == Context(t)
    IN  \A k \in DOMAIN t : t[k].kind = "tag" => in[k-1] # "comment"

\* No tag outside the code elements is closed by a tag within one of another name.
Untangled(t) ==
    LET in == Context(t)
    IN  \A k, l \in DOMAIN t :
          /\ k < l /\ t[k].kind = "tag" /\ t[k].name \in CodeElements
          /\ ~({in[k-1], in[k]} \subseteq CodeElements)
          /\ Closes(t[l], t[k].name)
          => in[l-1] \in {t[k].name, "prose", "comment"}

\* No code element is closed before another one of its name, or a header after the
\* head.
ClosedOnce(t) ==
    \A k, l \in DOMAIN t :
        k < l /\ t[k].kind = "tag" /\ t[k].closing /\ t[k].name \in CodeElements
        => ~Closes(t[l], t[k].name)

\* Lower case changes no distance between a code element's tag and the end of one: a
\* shrinking rune there leads the scan to land before the end, any other behind it.
Steady(t) ==
    \A k, l \in DOMAIN t :
        k < l /\ t[k].kind = "tag" /\ t[k].name \in CodeElements /\ Closes(t[l], t[k].name)
        => LoweredEndsOf(t)[l-1] - LoweredEndsOf(t)[k] = EndsOf(t)[l-1] - EndsOf(t)[k]

IsHtml ==
    message # <<>> /\ Readable(message) /\ message[Chosen(message)].type = "text/html"

Shown == {Place(shown[k]) : k \in DOMAIN shown} \ {0}

-----------------------------------------------------------------------------

\* Where lower case keeps the distances: the contents of a code element never reach the
\* model, whatever comments surround it, unless it holds the closing tag of another one
\* that came before; and all the prose does, in a message that has one element of each
\* name.
ShowsProse ==
    pc = "cut" /\ IsHtml /\ WellFormed(body) /\ Steady(body) =>
        /\ Untangled(body) => Shown \intersect TextIn(body, CodeElements) = {}
        /\ PlainComments(body) /\ ClosedOnce(body) => Shown = TextIn(body, {"prose"})

\* gmail_tools.go: "script and style contents are dropped", "it is code, not prose":
\* and prose is not code, also where no rune changes its length.
ProseIsKept ==
    pc = "cut" /\ IsHtml /\ WellFormed(body) /\ Steady(body) /\ PlainComments(body) =>
        TextIn(body, {"prose"}) \subseteq Shown

\* The cap never splits a rune and costs three bytes at most; of a text in UTF-8 it
\* keeps every rune that fits; and the flag is set exactly when something is missing.
CutsAtRune ==
    LET s == result.text
        size == Size(body, s)
        ends == {Offset(body, s)[k] : k \in 0 .. Len(s)}
        utf8 == \A k \in DOMAIN s : Whole(body, s[k])
    IN  result.status = "ok" =>
          /\ result.kept \in ends
          /\ result.kept <= MaxBytes
          /\ result.kept >= Min({size, MaxBytes - 3})
          /\ utf8 => result.kept = Max({n \in ends : n <= MaxBytes})
          /\ result.truncated <=> result.kept < size

\* What has no text form is never handed out as text, unless the file was replaced
\* between the two requests; a file that nobody replaces is handed out as declared.
FileAsDeclared ==
    result.status = "ok" /\ file # NoFile /\ ~replaced =>
        /\ file.kind \in {"document", "textual"}
        /\ meta = file.kind
        /\ body = file.text

\* Once Google has answered the read ends: the scan of a text never turns in place.
ReadEnds == pc \in {"body", "cut"} ~> pc = "done"
=============================================================================
