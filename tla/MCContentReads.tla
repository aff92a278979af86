--------------------------- MODULE MCContentReads ---------------------------
(***************************************************************************)
(* ContentReads for TLC: every HTML text of up to four lexemes, those of   *)
(* five with one kind of code element, with comments or with text that     *)
(* lower case shortens or lengthens, of seven paragraphs, and of a head    *)
(* with a header after it; messages of several parts; and files over, at   *)
(* and under both limits, in UTF-8 and not.                                *)
(***************************************************************************)
EXTENDS ContentReads

Text(width) == [kind |-> "text", name |-> "", closing |-> FALSE, width |-> width,
                lowered |-> IF width = 0 THEN 3 ELSE width]
Arrow == [Text(1) EXCEPT !.kind = "arrow"]

\* U+0130 becomes "i", U+023A grows from two bytes to three.
Shrinks == [Text(2) EXCEPT !.lowered = 1]
Grows == [Text(2) EXCEPT !.lowered = 3]

Mark(kind, name, closing, width) ==
    [kind |-> kind, name |-> name, closing |-> closing, width |-> width, lowered |-> width]
Comment == Mark("comment", "", FALSE, 4)
Angle == Mark("angle", "", FALSE, 1)
Open(name) == Mark("tag", name, FALSE, Len(name) + 2)
Close(name) == Mark("tag", name, TRUE, Len(name) + 3)

Lexemes ==
    {Text(1), Open("style"), Close("style"), Open("head"), Close("head"), Close("header"),
     Open("p"), Comment, Arrow, Angle}

Html(t) == [type |-> "text/html", data |-> "good", text |-> t]
Plain(t) == [Html(t) EXCEPT !.type = "text/plain"]
Empty(type) == [type |-> type, data |-> "none", text |-> <<>>]
Bad(type) == [Empty(type) EXCEPT !.data = "bad"]

Runes == UNION {[1 .. n -> {Text(w) : w \in 0 .. 4}] : n \in 0 .. 3}

HtmlTexts ==
    UNION {[1 .. n -> Lexemes] : n \in 1 .. 4}
      \union [1 .. 5 -> {Text(1), Open("style"), Close("style"), Open("p"),
                         Comment, Arrow}]
      \union [1 .. 5 -> {Text(0), Text(1), Shrinks, Grows, Open("style"), Close("style")}]
      \union [1 .. 7 -> {Text(2), Open("p")}]
      \union {<<Open("head"), Text(1), Close("head"), Text(1), Open("header"), Text(1),
                Close("header")>>,
              \* A style element before a head that holds one, or only its end.
              <<Open("style"), Close("style"), Open("head"), Open("style"), Close("style"),
                Text(1), Close("head")>>,
              <<Comment, Open("p"), Open("style"), Arrow, Open("head"),
                Close("style"), Text(1), Close("head")>>,
              <<Open("head"), Open("style"), Close("style"), Text(1), Close("head"), Text(1),
                Open("style"), Close("style"), Text(1)>>}

MCMessages ==
    {<<Html(t)>> : t \in HtmlTexts}
      \union {<<Plain(t)>> : t \in Runes}
      \union {<<Empty("other")>>, <<Bad("text/html")>>,
              <<Html(<<Text(1)>>), Plain(<<Text(2)>>)>>,
              <<Empty("text/plain"), Html(<<Text(1)>>), Html(<<Text(2)>>)>>,
              <<Bad("text/plain"), Html(<<Text(1)>>)>>}

MCFiles ==
    [kind : {"textual", "document"}, text : Runes]
      \union [kind : {"form", "binary"}, text : {<<>>, <<Text(0), Text(0)>>}]
=============================================================================
