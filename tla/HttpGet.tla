------------------------------- MODULE HttpGet -------------------------------
(***************************************************************************)
(* One GET of app/src/ota/transport.rs: the head is fed to the parser as   *)
(* the network delivers it, what was read past it is kept as leftover, and *)
(* the body is read from the leftover first and from the connection then.  *)
(*                                                                         *)
(* resp is everything the server sends before it closes the connection     *)
(* ("Connection: close"); the code sees it in pieces of any size.          *)
(***************************************************************************)
EXTENDS HttpHead

CONSTANTS
  ReadChunk,  \* READ_CHUNK, in tokens
  UsizeMod    \* a usize counts modulo this, a u64 does not

ASSUME GetAssumption == ReadChunk \in Nat \ {0} /\ UsizeMod \in Nat \ {0}

VARIABLES
  resp,      \* the response
  at,        \* tokens of it that were read
  parser,    \* the HeadParser
  leftover,  \* body tokens read with the head and not consumed yet
  got        \* body tokens consumed

getVars == <<resp, at, parser, leftover, got>>

Closed == /\ resp = <<>> /\ at = 0 /\ parser = NewParser
          /\ leftover = <<>> /\ got = <<>>

\* The connection is dropped with the buffers around it.
Close == /\ resp' = <<>> /\ at' = 0 /\ parser' = NewParser
         /\ leftover' = <<>> /\ got' = <<>>

\* write_all and flush of the request; the server's answer is on its way.
Send(answer) ==
  /\ resp' = answer
  /\ at' = 0 /\ parser' = NewParser /\ leftover' = <<>> /\ got' = <<>>

AtMost(a, b) == IF a <= b THEN a ELSE b
Unread == Len(resp) - at
Piece(n) == SubSeq(resp, at + 1, at + n)

\* Mutant: the token that ended the head is taken for the first of the body.
ExtraWithBlank(chunk, total) == SubSeq(chunk, total - at, Len(chunk))

\* buf[i + 1..n]: what of the chunk lies behind the head.
Extra(chunk, total) == SubSeq(chunk, total - at + 1, Len(chunk))

\* One read of the head; the loop ends with the parser.
ReadHead ==
  \E n \in 1..AtMost(ReadChunk, Unread) :
    LET chunk == Piece(n)
        p == Feed(parser, chunk)
    IN  /\ parser' = p
        /\ at' = at + n
        /\ leftover' = IF p.event = "complete" THEN Extra(chunk, p.total) ELSE <<>>
        /\ UNCHANGED <<resp, got>>

\* One read of at most room tokens of the body.
ReadBody(room) ==
  \/ /\ leftover # <<>>
     /\ LET n == AtMost(room, Len(leftover))
        IN  /\ got' = got \o SubSeq(leftover, 1, n)
            /\ leftover' = SubSeq(leftover, n + 1, Len(leftover))
     /\ UNCHANGED <<resp, at, parser>>
  \/ /\ leftover = <<>>
     /\ \E n \in 1..AtMost(room, Unread) :
          got' = got \o Piece(n) /\ at' = at + n
     /\ UNCHANGED <<resp, parser, leftover>>

\* A read that returns 0.
AtEof == leftover = <<>> /\ Unread = 0

\* The peer or the path closes the connection in order, before its time.
CutShort ==
  /\ Unread > 0
  /\ resp' = SubSeq(resp, 1, at)
  /\ UNCHANGED <<at, parser, leftover, got>>

\* len as usize
AsUsize(n) == n % UsizeMod

Status == parser.status
Length == CHOOSE n \in parser.length : TRUE
=============================================================================
