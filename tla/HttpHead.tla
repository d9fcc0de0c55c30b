------------------------------ MODULE HttpHead ------------------------------
(***************************************************************************)
(* The byte-fed parser of core/src/ota/http.rs for the head of an HTTP     *)
(* response, and what it should accept.                                    *)
(*                                                                         *)
(* A response is a sequence of tokens <<kind, n>>, each for the bytes the  *)
(* code treats alike: "eol" ends a line (CRLF or LF), "status" is a whole  *)
(* status line with its code, "length" and "chunked" are the two headers   *)
(* the parser knows, "field" is any other header and "junk" is text with   *)
(* no colon in it.  Everything after the blank line is body.               *)
(***************************************************************************)
EXTENDS Naturals, SequencesExt

CONSTANT MaxHead  \* MAX_HEAD_BYTES, in tokens

ASSUME HeadAssumption == MaxHead \in Nat \ {0}

Eol == <<"eol", 0>>

(***************************************************************************)
(* HeadParser.                                                             *)
(***************************************************************************)
\* event is NeedMore ("more"), Complete, or the reason of a Reject.
NewParser ==
  [state |-> "status", event |-> "more", line |-> <<>>, total |-> 0,
   status |-> 0, length |-> {}, chunked |-> FALSE]

Ended(p, event) == [p EXCEPT !.state = "done", !.event = event]

Accepts(status) == status \in 200..299 \/ status = 404

\* The blank line.
Finish(p) ==
  Ended(p, CASE p.chunked -> "transfer_encoding"
             [] ~p.chunked /\ ~Accepts(p.status) -> "unexpected_status"
             [] ~p.chunked /\ Accepts(p.status) /\ p.length = {} /\ p.status # 404 -> "missing_content_length"
             [] OTHER -> "complete")

IsStatusLine(line) == Len(line) = 1 /\ line[1][1] = "status"

StatusLine(p) ==
  IF IsStatusLine(p.line)
  THEN [p EXCEPT !.status = p.line[1][2], !.state = "headers", !.line = <<>>]
  ELSE Ended(p, "malformed_status")

\* A header has a colon, and a length has nothing but its digits after it.  Of
\* the tokens only those for headers bring a colon.
WellFormed(line) ==
  /\ \E i \in DOMAIN line : line[i][1] \in {"length", "chunked", "field"}
  /\ line[1][1] = "length" => Len(line) = 1

\* Mutant: the last of several lengths counts.
LastLengthCounts(p, n) == [p EXCEPT !.length = {n}, !.line = <<>>]

TakeLength(p, n) ==
  IF p.length # {}
  THEN Ended(p, "duplicate_content_length")
  ELSE [p EXCEPT !.length = {n}, !.line = <<>>]

Header(p) ==
  LET kind == p.line[1][1]
  IN  CASE ~WellFormed(p.line) -> Ended(p, "malformed_header")
        [] WellFormed(p.line) /\ kind = "length" -> TakeLength(p, p.line[1][2])
        [] OTHER -> [p EXCEPT !.chunked = @ \/ kind = "chunked", !.line = <<>>]

LineEnds(p) ==
  CASE p.state = "status" -> StatusLine(p)
    [] p.state = "headers" /\ p.line = <<>> -> Finish(p)
    [] OTHER -> Header(p)

\* A parser that has ended takes nothing more.
Push(p, b) ==
  LET q == [p EXCEPT !.total = @ + 1]
  IN  CASE p.event # "more" -> p
        [] p.event = "more" /\ q.total > MaxHead -> Ended(q, "oversized_header")
        [] p.event = "more" /\ q.total <= MaxHead /\ b = Eol -> LineEnds(q)
        [] OTHER -> [q EXCEPT !.line = Append(@, b)]

Feed(p, chunk) ==
  LET fed[i \in 0..Len(chunk)] == IF i = 0 THEN p ELSE Push(fed[i - 1], chunk[i])
  IN  fed[Len(chunk)]

(***************************************************************************)
(* What a good head is, read off the response as a whole.                  *)
(***************************************************************************)
\* s ends with the first blank line after the status line.
EndsHead(s) ==
  LET blank == {i \in 2..Len(s) : s[i] = Eol /\ s[i - 1] = Eol}
  IN  blank = {Len(s)} /\ s[1] # Eol

\* The lines of s start after an end of line; the status line at 1.
Starts(s) == {i \in 2..Len(s) : s[i - 1] = Eol /\ s[i] # Eol}
LineAt(s, i) ==
  SubSeq(s, i, CHOOSE j \in i..Len(s) : s[j + 1] = Eol /\ \A k \in i..j : s[k] # Eol)
Declared(s) == {i \in Starts(s) : s[i][1] = "length"}

IsHead(s) ==
  /\ Len(s) \in 2..MaxHead
  /\ EndsHead(s)
  /\ s[1][1] = "status" /\ s[2] = Eol /\ Accepts(s[1][2])
  /\ \A i \in Starts(s) : WellFormed(LineAt(s, i)) /\ s[i][1] # "chunked"
  /\ \A i, j \in Declared(s) : i = j
  /\ Declared(s) = {} => s[1][2] = 404
=============================================================================
