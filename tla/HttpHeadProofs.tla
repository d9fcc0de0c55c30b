--------------------------- MODULE HttpHeadProofs ---------------------------
(***************************************************************************)
(* Proofs about the head parser, for every response and every limit on the *)
(* head.  Where HttpHead says what a good head is by its lines, the proofs *)
(* say it by the positions of the response, so that the tokens the parser  *)
(* has not seen yet do not matter.                                         *)
(***************************************************************************)
EXTENDS HttpHead, SequenceTheorems, WellFoundedInduction, TLAPS

Kinds == {"eol", "status", "length", "chunked", "field", "junk", "digit", "nl", "hex", "block"}
Token == Kinds \X Nat

Events ==
  {"more", "complete", "transfer_encoding", "unexpected_status", "missing_content_length",
   "malformed_status", "malformed_header", "duplicate_content_length", "oversized_header"}

Parser ==
  [state : {"status", "headers", "done"}, event : Events, line : Seq(Token), total : Nat,
   status : Nat, length : SUBSET Nat, chunked : BOOLEAN]

-----------------------------------------------------------------------------
(***************************************************************************)
(* Numbers and sequences.                                                  *)
(***************************************************************************)
\* A set of numbers has a least one.
LEMMA Least ==
  ASSUME NEW T \in SUBSET Nat, T # {}
  PROVE  \E m \in T : \A n \in T : m <= n
<1> DEFINE R == OpToRel(<, Nat)
<1>1. IsWellFoundedOn(R, Nat)
  BY NatLessThanWellFounded
<1>2. PICK m \in T : \A n \in T : ~(<<n, m>> \in R)
  <2> HIDE DEF R
  <2>1. QED  BY <1>1, WFMin
<1>3. \A n \in T : <<n, m>> \in R <=> n < m
  BY DEF OpToRel
<1>4. \A n \in T : n \in Nat /\ m \in Nat /\ ~(n < m)
  BY <1>2, <1>3
<1>5. \A n \in T : m <= n
  BY <1>4
<1>6. QED  BY <1>5

\* A part of a sequence: its length, its members.
LEMMA PartIs ==
  ASSUME NEW S, NEW s \in Seq(S), NEW m \in Nat \ {0}, NEW n \in 0..Len(s)
  PROVE  /\ SubSeq(s, m, n) \in Seq(S)
         /\ Len(SubSeq(s, m, n)) = IF m <= n THEN n - m + 1 ELSE 0
         /\ \A i \in 1..(n - m + 1) : SubSeq(s, m, n)[i] = s[m + i - 1]
<1>1. \A i \in m..n : s[i] \in S
  BY ElementOfSeq
<1>2. m \in Int /\ n \in Int
  OBVIOUS
<1>3. QED  BY <1>1, <1>2, SubSeqProperties

\* Parts with the same members are the same.
LEMMA SameParts ==
  ASSUME NEW S, NEW s \in Seq(S), NEW t \in Seq(S),
         NEW m \in Nat \ {0}, NEW n \in 0..Len(s), n <= Len(t), \A i \in m..n : s[i] = t[i]
  PROVE  SubSeq(s, m, n) = SubSeq(t, m, n)
<1> DEFINE a == SubSeq(s, m, n)
           b == SubSeq(t, m, n)
<1>1. n \in 0..Len(t)
  OBVIOUS
<1>2. /\ a \in Seq(S) /\ Len(a) = IF m <= n THEN n - m + 1 ELSE 0
      /\ \A i \in 1..(n - m + 1) : a[i] = s[m + i - 1]
  BY PartIs
<1>3. /\ b \in Seq(S) /\ Len(b) = IF m <= n THEN n - m + 1 ELSE 0
      /\ \A i \in 1..(n - m + 1) : b[i] = t[m + i - 1]
  BY <1>1, PartIs
<1> HIDE DEF a, b
<1>4. \A i \in 1..Len(a) : a[i] = b[i]
  BY <1>2, <1>3
<1>5. a = b
  BY <1>2, <1>3, <1>4, SeqEqual
<1>6. QED  BY <1>5 DEF a, b

-----------------------------------------------------------------------------
(***************************************************************************)
(* A good head by positions.                                               *)
(***************************************************************************)
\* A header line of w goes from i up to the end of line at e.
Line(w, i, e) ==
  /\ i < e /\ w[i - 1] = Eol /\ w[e] = Eol
  /\ \A k \in i..(e - 1) : w[k] # Eol

DeclaredIn(w, n) == {i \in 2..n : w[i][1] = "length" /\ \E e \in 2..n : Line(w, i, e)}

Blank(w, i) == w[i - 1] = Eol /\ w[i] = Eol

GoodLines(w, n) == \A i, e \in 2..n : Line(w, i, e) => WellFormed(SubSeq(w, i, e - 1))

Chunked(w, n) == \E i, e \in 2..n : Line(w, i, e) /\ w[i][1] = "chunked"

GoodHead(w, n) ==
  /\ n \in 2..MaxHead
  /\ Blank(w, n) /\ \A i \in 2..(n - 1) : ~Blank(w, i)
  /\ w[1][1] = "status" /\ w[2] = Eol /\ Accepts(w[1][2])
  /\ GoodLines(w, n) /\ ~Chunked(w, n)
  /\ \A i, j \in DeclaredIn(w, n) : i = j
  /\ DeclaredIn(w, n) = {} => w[1][2] = 404

\* Every line that starts before an end of line ends.
LEMMA LineEndsSomewhere ==
  ASSUME NEW w, NEW n \in Nat, w[n] = Eol, NEW i \in 2..n, w[i - 1] = Eol, w[i] # Eol
  PROVE  \E e \in 2..n : Line(w, i, e)
<1> DEFINE T == {e \in i..n : w[e] = Eol}
<1>1. T \in SUBSET Nat /\ T # {}
  OBVIOUS
<1>2. PICK e \in T : \A f \in T : e <= f
  BY <1>1, Least
<1>3. \A k \in i..(e - 1) : w[k] # Eol
  BY <1>2
<1>4. Line(w, i, e)
  BY <1>3 DEF Line
<1>5. QED  BY <1>4

\* The line HttpHead reads off a response.
LEMMA LineAtIs ==
  ASSUME NEW s \in Seq(Token), NEW i \in 2..Len(s), NEW e \in 2..Len(s), Line(s, i, e)
  PROVE  LineAt(s, i) = SubSeq(s, i, e - 1)
<1> DEFINE Ends(j) == s[j + 1] = Eol /\ \A k \in i..j : s[k] # Eol
           c == CHOOSE j \in i..Len(s) : Ends(j)
<1>1. e - 1 \in i..Len(s) /\ Ends(e - 1)
  BY DEF Line
<1>2. \A j \in i..Len(s) : Ends(j) => j = e - 1
  <2>1. SUFFICES ASSUME NEW j \in i..Len(s), Ends(j) PROVE j = e - 1
    OBVIOUS
  <2>2. ~(j < e - 1)
    <3>1. j < e - 1 => j + 1 \in i..(e - 1)
      OBVIOUS
    <3>2. QED  BY <2>1, <3>1 DEF Line
  <2>3. ~(j > e - 1)
    <3>1. j > e - 1 => e \in i..j
      BY DEF Line
    <3>2. QED  BY <2>1, <3>1 DEF Line
  <2>4. QED  BY <2>2, <2>3
<1>3. c = e - 1
  BY <1>1, <1>2
<1>4. LineAt(s, i) = SubSeq(s, i, c)
  BY DEF LineAt
<1>5. QED  BY <1>3, <1>4

\* What IsHead says of the first n tokens of w, said of w.
LEMMA HeadByPosition ==
  ASSUME NEW w \in Seq(Token), NEW n \in 0..Len(w)
  PROVE  /\ IsHead(SubSeq(w, 1, n)) <=> GoodHead(w, n)
         /\ GoodHead(w, n) => Declared(SubSeq(w, 1, n)) = DeclaredIn(w, n)
<1> DEFINE s == SubSeq(w, 1, n)
<1>1. s \in Seq(Token) /\ Len(s) = n /\ \A i \in 1..n : s[i] = w[i]
  <2>1. /\ s \in Seq(Token) /\ Len(s) = IF 1 <= n THEN n - 1 + 1 ELSE 0
        /\ \A i \in 1..(n - 1 + 1) : s[i] = w[1 + i - 1]
    BY PartIs
  <2> HIDE DEF s
  <2>2. QED  BY <2>1
<1>2. \A i \in 2..n : s[i - 1] = w[i - 1] /\ s[i] = w[i]
  BY <1>1
<1>3. \A i, e \in 2..n : Line(s, i, e) <=> Line(w, i, e)
  BY <1>1, <1>2 DEF Line
<1> HIDE DEF s
<1>4. \A i, e \in 2..n : Line(w, i, e) =>
        i \in Starts(s) /\ LineAt(s, i) = SubSeq(w, i, e - 1)
  <2>1. SUFFICES ASSUME NEW i \in 2..n, NEW e \in 2..n, Line(w, i, e)
                 PROVE  i \in Starts(s) /\ LineAt(s, i) = SubSeq(w, i, e - 1)
    OBVIOUS
  <2>2. LineAt(s, i) = SubSeq(s, i, e - 1)
    BY <1>1, <1>3, <2>1, LineAtIs
  <2>3. e - 1 \in 0..Len(s) /\ e - 1 <= Len(w) /\ \A k \in i..(e - 1) : s[k] = w[k]
    BY <1>1
  <2>4. SubSeq(s, i, e - 1) = SubSeq(w, i, e - 1)
    BY <1>1, <2>3, SameParts
  <2>5. i \in Starts(s)
    BY <1>1, <1>2, <2>1 DEF Starts, Line
  <2>6. QED  BY <2>2, <2>4, <2>5
<1>5. n \in 2..MaxHead => (EndsHead(s) <=> /\ Blank(w, n) /\ \A i \in 2..(n - 1) : ~Blank(w, i)
                                           /\ w[1] # Eol)
  <2>1. SUFFICES ASSUME n \in 2..MaxHead
                 PROVE  EndsHead(s) <=> /\ Blank(w, n) /\ \A i \in 2..(n - 1) : ~Blank(w, i)
                                        /\ w[1] # Eol
    OBVIOUS
  <2>2. {i \in 2..Len(s) : s[i] = Eol /\ s[i - 1] = Eol} = {i \in 2..n : Blank(w, i)}
    BY <1>1, <1>2 DEF Blank
  <2>3. {i \in 2..n : Blank(w, i)} = {n} <=> Blank(w, n) /\ \A i \in 2..(n - 1) : ~Blank(w, i)
    BY <2>1
  <2>4. s[1] = w[1]
    BY <1>1, <2>1
  <2>5. QED  BY <1>1, <2>2, <2>3, <2>4 DEF EndsHead
<1>6. ASSUME n \in 2..MaxHead, w[n] = Eol
      PROVE  \A i \in Starts(s) : i \in 2..n /\ \E e \in 2..n : Line(w, i, e)
  <2>1. \A i \in Starts(s) : i \in 2..n /\ w[i - 1] = Eol /\ w[i] # Eol
    BY <1>1, <1>2 DEF Starts
  <2>2. QED  BY <1>6, <2>1, LineEndsSomewhere
<1>7. ASSUME n \in 2..MaxHead, w[n] = Eol
      PROVE  Declared(s) = DeclaredIn(w, n)
  <2>1. \A i \in Starts(s) : s[i][1] = w[i][1]
    BY <1>1, <1>7, <1>6
  <2>2. QED  BY <1>4, <1>6, <1>7, <2>1 DEF Declared, DeclaredIn
<1>8. ASSUME n \in 2..MaxHead, w[n] = Eol
      PROVE  (\A i \in Starts(s) : WellFormed(LineAt(s, i)) /\ s[i][1] # "chunked")
               <=> GoodLines(w, n) /\ ~Chunked(w, n)
  <2>1. \A i \in Starts(s) : s[i][1] = w[i][1]
    BY <1>1, <1>8, <1>6
  <2>2. QED  BY <1>4, <1>6, <1>8, <2>1 DEF GoodLines, Chunked
<1>9. n \in 2..MaxHead => s[1] = w[1] /\ s[2] = w[2]
  BY <1>1
<1>10. w[1][1] = "status" => w[1] # Eol
  BY DEF Eol
<1>11. Blank(w, n) => w[n] = Eol
  BY DEF Blank
<1>12. IsHead(s) <=> GoodHead(w, n)
  <2>1. CASE n \notin 2..MaxHead
    BY <1>1, <2>1 DEF IsHead, GoodHead
  <2>2. CASE n \in 2..MaxHead /\ w[n] # Eol
    BY <1>5, <1>11, <2>2 DEF IsHead, GoodHead
  <2>3. CASE n \in 2..MaxHead /\ w[n] = Eol
    BY <1>1, <1>5, <1>7, <1>8, <1>9, <1>10, <2>3 DEF IsHead, GoodHead
  <2>4. QED  BY <2>1, <2>2, <2>3
<1>13. GoodHead(w, n) => Declared(s) = DeclaredIn(w, n)
  BY <1>7, <1>11 DEF GoodHead
<1>14. QED  BY <1>12, <1>13 DEF s

-----------------------------------------------------------------------------
(***************************************************************************)
(* The parser after the first n tokens of w.                               *)
(***************************************************************************)
\* No head begins with the first n tokens of w, nor does one end in them.
NoHead(w, n) ==
  \A v \in Seq(Token) :
    n <= Len(v) /\ (\A i \in 1..n : v[i] = w[i]) => \A k \in 1..Len(v) : ~GoodHead(v, k)

StatusRead(p, w, n) ==
  /\ p.state = "status" /\ p.line = SubSeq(w, 1, n)
  /\ \A i \in 1..n : w[i] # Eol
  /\ p.length = {} /\ ~p.chunked

\* The line being read starts behind the last end of line.
HeadersRead(p, w, n) ==
  /\ p.state = "headers"
  /\ n >= 2 /\ w[1] = <<"status", p.status>> /\ w[2] = Eol
  /\ \A i \in 2..n : ~Blank(w, i)
  /\ \E b \in 2..n : /\ w[b] = Eol /\ p.line = SubSeq(w, b + 1, n)
                     /\ \A i \in (b + 1)..n : w[i] # Eol
  /\ GoodLines(w, n)
  /\ p.length = {w[i][2] : i \in DeclaredIn(w, n)}
  /\ \A i, j \in DeclaredIn(w, n) : i = j
  /\ p.chunked <=> Chunked(w, n)

ParserIs(p, w, n) ==
  /\ p \in Parser /\ p.total <= MaxHead + 1
  /\ \A a, b \in p.length : a = b
  /\ p.event = "more" =>
       p.total = n /\ n <= MaxHead /\ (StatusRead(p, w, n) \/ HeadersRead(p, w, n))
  /\ p.event = "complete" =>
       /\ p.total \in 1..n /\ GoodHead(w, p.total)
       /\ w[1] = <<"status", p.status>>
       /\ p.length = {w[i][2] : i \in DeclaredIn(w, p.total)}
  /\ p.event \notin {"more", "complete"} => p.total \in 1..n /\ NoHead(w, p.total)

\* A new parser has read nothing.
LEMMA NewParserIs ==
  ASSUME NEW w \in Seq(Token)
  PROVE  ParserIs(NewParser, w, 0)
<1>1. SubSeq(w, 1, 0) = <<>>
  BY SubSeqEmpty
<1>2. NewParser \in Parser
  <2>1. <<>> \in Seq(Token)
    BY EmptySeq
  <2>2. QED  BY <2>1 DEF NewParser, Parser, Events
<1>3. StatusRead(NewParser, w, 0)
  BY <1>1 DEF NewParser, StatusRead
<1>4. QED
  BY <1>2, <1>3, HeadAssumption DEF ParserIs, NewParser

\* What a parser knows depends on what it has read and on nothing behind it.
LEMMA ParserSeesPrefix ==
  ASSUME NEW w \in Seq(Token), NEW v \in Seq(Token), NEW n \in Nat, n <= Len(w), n <= Len(v),
         \A i \in 1..n : v[i] = w[i], NEW p, ParserIs(p, w, n)
  PROVE  ParserIs(p, v, n)
<1>1. \A m, k \in Nat : 0 < m /\ k <= n => SubSeq(v, m, k) = SubSeq(w, m, k)
  <2>1. SUFFICES ASSUME NEW m \in Nat, NEW k \in Nat, 0 < m, k <= n
                 PROVE  SubSeq(v, m, k) = SubSeq(w, m, k)
    OBVIOUS
  <2>2. m \in Nat \ {0} /\ k \in 0..Len(v) /\ k <= Len(w) /\ \A i \in m..k : v[i] = w[i]
    <3>1. \A i \in m..k : i \in 1..n
      BY <2>1
    <3>2. Len(v) \in Nat /\ Len(w) \in Nat
      OBVIOUS
    <3>3. QED  BY <2>1, <3>1, <3>2
  <2>3. QED  BY <2>2, SameParts
<1>2. \A i \in 2..n : v[i] = w[i] /\ v[i - 1] = w[i - 1]
  OBVIOUS
<1>3. \A i, e \in 2..n : Line(v, i, e) <=> Line(w, i, e)
  <2>1. SUFFICES ASSUME NEW i \in 2..n, NEW e \in 2..n
                 PROVE  Line(v, i, e) <=> Line(w, i, e)
    OBVIOUS
  <2>2. \A k \in i..(e - 1) : k \in 1..n /\ v[k] = w[k]
    OBVIOUS
  <2>3. QED  BY <1>2, <2>2 DEF Line
<1>4. ASSUME NEW k \in 0..n
      PROVE  /\ DeclaredIn(v, k) = DeclaredIn(w, k) /\ (Chunked(v, k) <=> Chunked(w, k))
             /\ GoodLines(v, k) <=> GoodLines(w, k)
             /\ \A i \in 2..k : Blank(v, i) <=> Blank(w, i)
             /\ \A i \in DeclaredIn(w, k) : v[i] = w[i]
  <2>1. \A i \in 2..k : i \in 2..n
    OBVIOUS
  <2>2. DeclaredIn(v, k) = DeclaredIn(w, k)
    BY <1>2, <1>3, <2>1 DEF DeclaredIn
  <2>3. Chunked(v, k) <=> Chunked(w, k)
    BY <1>2, <1>3, <2>1 DEF Chunked
  <2>4. \A i, e \in 2..k : SubSeq(v, i, e - 1) = SubSeq(w, i, e - 1)
    BY <1>1
  <2>5. GoodLines(v, k) <=> GoodLines(w, k)
    BY <1>3, <2>1, <2>4 DEF GoodLines
  <2>6. \A i \in 2..k : Blank(v, i) <=> Blank(w, i)
    BY <1>2, <2>1 DEF Blank
  <2>7. \A i \in DeclaredIn(w, k) : v[i] = w[i]
    BY <1>2, <2>1 DEF DeclaredIn
  <2>8. QED  BY <2>2, <2>3, <2>5, <2>6, <2>7
<1>5. ASSUME p.event = "more", StatusRead(p, w, n)
      PROVE  StatusRead(p, v, n)
  BY <1>1, <1>5 DEF StatusRead
<1>6. ASSUME p.event = "more", HeadersRead(p, w, n)
      PROVE  HeadersRead(p, v, n)
  <2>1. n >= 2 /\ v[1] = w[1] /\ v[2] = w[2]
    BY <1>2, <1>6 DEF HeadersRead
  <2>2. PICK b \in 2..n : /\ w[b] = Eol /\ p.line = SubSeq(w, b + 1, n)
                          /\ \A i \in (b + 1)..n : w[i] # Eol
    BY <1>6 DEF HeadersRead
  <2>3. v[b] = Eol /\ p.line = SubSeq(v, b + 1, n) /\ \A i \in (b + 1)..n : v[i] # Eol
    <3>1. b + 1 \in Nat /\ 0 < b + 1 /\ n <= n /\ \A i \in (b + 1)..n : i \in 2..n
      OBVIOUS
    <3>2. SubSeq(v, b + 1, n) = SubSeq(w, b + 1, n)
      BY <1>1, <3>1
    <3>3. QED  BY <1>2, <2>2, <3>1, <3>2
  <2>4. n \in 0..n /\ {w[i][2] : i \in DeclaredIn(w, n)} = {v[i][2] : i \in DeclaredIn(v, n)}
    BY <1>4
  <2>5. QED  BY <1>4, <1>6, <2>1, <2>3, <2>4 DEF HeadersRead
<1>7. ASSUME p.event = "complete"
      PROVE  /\ GoodHead(v, p.total) /\ v[1] = <<"status", p.status>>
             /\ p.length = {v[i][2] : i \in DeclaredIn(v, p.total)}
  <2>1. p.total \in 0..n /\ p.total \in 2..n /\ GoodHead(w, p.total)
    BY <1>7 DEF ParserIs, GoodHead
  <2>2. v[1] = w[1] /\ v[2] = w[2]
    BY <1>2, <2>1
  <2>3. {w[i][2] : i \in DeclaredIn(w, p.total)} = {v[i][2] : i \in DeclaredIn(v, p.total)}
    BY <1>4, <2>1
  <2>4. \A i \in 2..p.total : Blank(v, i) <=> Blank(w, i)
    BY <1>4, <2>1
  <2>5. GoodHead(v, p.total)
    BY <1>4, <2>1, <2>2, <2>4 DEF GoodHead
  <2>6. QED  BY <1>7, <2>2, <2>3, <2>5 DEF ParserIs
<1>8. ASSUME p.event \notin {"more", "complete"}
      PROVE  NoHead(v, p.total)
  <2>1. p.total \in 1..n /\ NoHead(w, p.total)
    BY <1>8 DEF ParserIs
  <2>2. \A i \in 1..p.total : v[i] = w[i]
    BY <2>1
  <2>3. QED  BY <2>1, <2>2 DEF NoHead
<1>9. QED
  BY <1>5, <1>6, <1>7, <1>8 DEF ParserIs

\* A parser that still reads has seen no head.
LEMMA NotYet ==
  ASSUME NEW w \in Seq(Token), NEW n \in Nat, NEW p, ParserIs(p, w, n), p.event = "more",
         NEW v \in Seq(Token), \A i \in 1..n : v[i] = w[i], NEW k \in 1..n
  PROVE  ~GoodHead(v, k)
<1> SUFFICES ASSUME GoodHead(v, k) PROVE FALSE
  OBVIOUS
<1>1. k \in 2..n /\ v[k] = Eol /\ v[k - 1] = Eol
  BY DEF GoodHead, Blank
<1>2. Blank(w, k)
  <2>1. k - 1 \in 1..n
    BY <1>1
  <2>2. QED  BY <1>1, <2>1 DEF Blank
<1>3. ~StatusRead(p, w, n) /\ ~HeadersRead(p, w, n)
  BY <1>1, <1>2 DEF StatusRead, HeadersRead, Blank
<1>4. QED  BY <1>3 DEF ParserIs

\* So it is enough for the reason of a refusal to rule out a head that ends at
\* the token that was refused or behind it.
LEMMA RefusedFor ==
  ASSUME NEW w \in Seq(Token), NEW n \in Nat, NEW p, ParserIs(p, w, n), p.event = "more",
         \A v \in Seq(Token) : \A k \in 1..Len(v) :
           n + 1 <= k /\ (\A i \in 1..(n + 1) : v[i] = w[i]) => ~GoodHead(v, k)
  PROVE  NoHead(w, n + 1)
<1> SUFFICES ASSUME NEW v \in Seq(Token), n + 1 <= Len(v), \A i \in 1..(n + 1) : v[i] = w[i],
                    NEW k \in 1..Len(v)
             PROVE  ~GoodHead(v, k)
  BY DEF NoHead
<1>1. CASE n + 1 <= k
  BY <1>1
<1>2. CASE k \in 1..n
  <2>1. \A i \in 1..n : v[i] = w[i]
    OBVIOUS
  <2>2. QED  BY <1>2, <2>1, NotYet
<1>3. Len(v) \in Nat
  OBVIOUS
<1>4. QED  BY <1>1, <1>2, <1>3

\* One more token.
LEMMA PartGrows ==
  ASSUME NEW w \in Seq(Token), NEW n \in Nat, n < Len(w), NEW m \in 1..(n + 1)
  PROVE  SubSeq(w, m, n + 1) = Append(SubSeq(w, m, n), w[n + 1])
<1>1. m \in 1..Len(w) /\ n + 1 \in m..Len(w)
  OBVIOUS
<1>2. SubSeq(w, m, n + 1) = SubSeq(w, m, n + 1 - 1) \o <<w[n + 1]>>
  BY <1>1, SubSeqRecursiveSecond
<1>3. m \in Nat \ {0} /\ n \in 0..Len(w) /\ n + 1 \in 1..Len(w) /\ n + 1 - 1 = n
  OBVIOUS
<1>4. SubSeq(w, m, n) \in Seq(Token) /\ w[n + 1] \in Token
  BY <1>3, PartIs, ElementOfSeq
<1>5. QED  BY <1>2, <1>3, <1>4, AppendIsConcat

\* A token that ends no line leaves the lines as they are.
LEMMA NoLineEnds ==
  ASSUME NEW w, NEW n \in Nat, \A i \in 2..n : ~Line(w, i, n + 1)
  PROVE  /\ DeclaredIn(w, n + 1) = DeclaredIn(w, n)
         /\ Chunked(w, n + 1) <=> Chunked(w, n)
         /\ GoodLines(w, n + 1) <=> GoodLines(w, n)
<1>1. \A i, e \in 2..(n + 1) : Line(w, i, e) => i \in 2..n /\ e \in 2..n
  <2>1. SUFFICES ASSUME NEW i \in 2..(n + 1), NEW e \in 2..(n + 1), Line(w, i, e)
                 PROVE  i \in 2..n /\ e \in 2..n
    OBVIOUS
  <2>2. i < e
    BY <2>1 DEF Line
  <2>3. i \in 2..n
    BY <2>2
  <2>4. e # n + 1
    BY <2>1, <2>3
  <2>5. QED  BY <2>3, <2>4
<1>2. 2..n \subseteq 2..(n + 1)
  OBVIOUS
<1>3. QED  BY <1>1, <1>2 DEF DeclaredIn, Chunked, GoodLines

\* An end of line ends the line behind the last one.
LEMMA OneLineEnds ==
  ASSUME NEW w, NEW n \in Nat, NEW b \in 2..(n - 1), w[b] = Eol, w[n + 1] = Eol,
         \A i \in (b + 1)..n : w[i] # Eol
  PROVE  /\ Line(w, b + 1, n + 1)
         /\ \A i, e \in 2..(n + 1) : Line(w, i, e) =>
              (i \in 2..n /\ e \in 2..n) \/ (i = b + 1 /\ e = n + 1)
         /\ \A i \in DeclaredIn(w, n) : i # b + 1
<1>1. Line(w, b + 1, n + 1)
  <2>1. b + 1 < n + 1 /\ b + 1 - 1 = b /\ n + 1 - 1 = n
    OBVIOUS
  <2>2. QED  BY <2>1 DEF Line
<1>2. ASSUME NEW i \in 2..(n + 1), NEW e \in 2..(n + 1), Line(w, i, e)
      PROVE  (i \in 2..n /\ e \in 2..n) \/ (i = b + 1 /\ e = n + 1)
  <2>1. i < e /\ w[i - 1] = Eol /\ \A k \in i..(e - 1) : w[k] # Eol
    BY <1>2 DEF Line
  <2>2. CASE e # n + 1
    BY <2>1, <2>2
  <2>3. CASE e = n + 1
    <3>1. ~(b >= i)
      <4>1. b >= i => b \in i..(e - 1)
        BY <2>3
      <4>2. QED  BY <2>1, <4>1
    <3>2. ~(i - 1 > b)
      <4>1. i - 1 > b => i - 1 \in (b + 1)..n
        BY <2>1, <2>3
      <4>2. QED  BY <2>1, <4>1
    <3>3. QED  BY <2>3, <3>1, <3>2
  <2>4. QED  BY <2>2, <2>3
<1>3. ASSUME NEW e \in 2..n, Line(w, b + 1, e)
      PROVE  FALSE
  <2>1. e \in (b + 1)..n /\ w[e] = Eol
    BY <1>3 DEF Line
  <2>2. QED  BY <2>1
<1>4. QED  BY <1>1, <1>2, <1>3 DEF DeclaredIn

-----------------------------------------------------------------------------
(***************************************************************************)
(* One token.                                                              *)
(***************************************************************************)
Counted(p) == [p EXCEPT !.total = @ + 1]

\* A parser with one field changed.
LEMMA StateSet ==
  ASSUME NEW p \in Parser, NEW x \in {"status", "headers", "done"}
  PROVE  LET q == [p EXCEPT !.state = x]
         IN  /\ q \in Parser /\ q.state = x
             /\ q.event = p.event /\ q.line = p.line /\ q.total = p.total
             /\ q.status = p.status /\ q.length = p.length /\ q.chunked = p.chunked
  BY DEF Parser

LEMMA EventSet ==
  ASSUME NEW p \in Parser, NEW x \in Events
  PROVE  LET q == [p EXCEPT !.event = x]
         IN  /\ q \in Parser /\ q.event = x
             /\ q.state = p.state /\ q.line = p.line /\ q.total = p.total
             /\ q.status = p.status /\ q.length = p.length /\ q.chunked = p.chunked
  BY DEF Parser

LEMMA LineSet ==
  ASSUME NEW p \in Parser, NEW x \in Seq(Token)
  PROVE  LET q == [p EXCEPT !.line = x]
         IN  /\ q \in Parser /\ q.line = x
             /\ q.state = p.state /\ q.event = p.event /\ q.total = p.total
             /\ q.status = p.status /\ q.length = p.length /\ q.chunked = p.chunked
  BY DEF Parser

LEMMA TotalSet ==
  ASSUME NEW p \in Parser, NEW x \in Nat
  PROVE  LET q == [p EXCEPT !.total = x]
         IN  /\ q \in Parser /\ q.total = x
             /\ q.state = p.state /\ q.event = p.event /\ q.line = p.line
             /\ q.status = p.status /\ q.length = p.length /\ q.chunked = p.chunked
  BY DEF Parser

LEMMA StatusSet ==
  ASSUME NEW p \in Parser, NEW x \in Nat
  PROVE  LET q == [p EXCEPT !.status = x]
         IN  /\ q \in Parser /\ q.status = x
             /\ q.state = p.state /\ q.event = p.event /\ q.line = p.line
             /\ q.total = p.total /\ q.length = p.length /\ q.chunked = p.chunked
  BY DEF Parser

LEMMA LengthSet ==
  ASSUME NEW p \in Parser, NEW x \in SUBSET Nat
  PROVE  LET q == [p EXCEPT !.length = x]
         IN  /\ q \in Parser /\ q.length = x
             /\ q.state = p.state /\ q.event = p.event /\ q.line = p.line
             /\ q.total = p.total /\ q.status = p.status /\ q.chunked = p.chunked
  BY DEF Parser

LEMMA ChunkedSet ==
  ASSUME NEW p \in Parser, NEW x \in BOOLEAN
  PROVE  LET q == [p EXCEPT !.chunked = x]
         IN  /\ q \in Parser /\ q.chunked = x
             /\ q.state = p.state /\ q.event = p.event /\ q.line = p.line
             /\ q.total = p.total /\ q.status = p.status /\ q.length = p.length
  BY DEF Parser

LEMMA CountedIs ==
  ASSUME NEW p \in Parser
  PROVE  /\ Counted(p) \in Parser /\ Counted(p).total = p.total + 1
         /\ Counted(p).state = p.state /\ Counted(p).event = p.event
         /\ Counted(p).line = p.line /\ Counted(p).status = p.status
         /\ Counted(p).length = p.length /\ Counted(p).chunked = p.chunked
<1>1. p.total + 1 \in Nat
  BY DEF Parser
<1>2. QED  BY <1>1, TotalSet DEF Counted

LEMMA EndedFields ==
  ASSUME NEW p \in Parser, NEW event \in Events
  PROVE  /\ Ended(p, event) \in Parser /\ Ended(p, event).event = event
         /\ Ended(p, event).line = p.line /\ Ended(p, event).total = p.total
         /\ Ended(p, event).status = p.status /\ Ended(p, event).length = p.length
         /\ Ended(p, event).chunked = p.chunked
<1> DEFINE a == [p EXCEPT !.state = "done"]
<1>1. /\ a \in Parser /\ a.line = p.line /\ a.total = p.total /\ a.status = p.status
      /\ a.length = p.length /\ a.chunked = p.chunked
  BY StateSet
<1>2. Ended(p, event) = [a EXCEPT !.event = event]
  BY DEF Ended
<1> HIDE DEF a
<1>3. QED  BY <1>1, <1>2, EventSet

\* What Push does, case by case.
LEMMA PushIs ==
  ASSUME NEW p \in Parser, NEW b
  PROVE  /\ p.event # "more" => Push(p, b) = p
         /\ p.event = "more" /\ p.total + 1 > MaxHead =>
              Push(p, b) = Ended(Counted(p), "oversized_header")
         /\ p.event = "more" /\ p.total + 1 <= MaxHead /\ b = Eol =>
              Push(p, b) = LineEnds(Counted(p))
         /\ p.event = "more" /\ p.total + 1 <= MaxHead /\ b # Eol =>
              Push(p, b) = [Counted(p) EXCEPT !.line = Append(@, b)]
<1>1. p.total + 1 \in Nat /\ Counted(p).total = p.total + 1
  BY DEF Parser, Counted
<1>2. ~(p.total + 1 > MaxHead /\ p.total + 1 <= MaxHead)
  BY <1>1, HeadAssumption
<1>3. Push(p, b) =
        CASE p.event # "more" -> p
          [] p.event = "more" /\ Counted(p).total > MaxHead -> Ended(Counted(p), "oversized_header")
          [] p.event = "more" /\ Counted(p).total <= MaxHead /\ b = Eol -> LineEnds(Counted(p))
          [] OTHER -> [Counted(p) EXCEPT !.line = Append(@, b)]
  BY DEF Push, Counted
<1>4. CASE p.event # "more"
  BY <1>1, <1>3, <1>4
<1>5. CASE p.event = "more" /\ p.total + 1 > MaxHead
  BY <1>1, <1>2, <1>3, <1>5
<1>6. CASE p.event = "more" /\ p.total + 1 <= MaxHead /\ b = Eol
  BY <1>1, <1>2, <1>3, <1>6
<1>7. CASE p.event = "more" /\ p.total + 1 <= MaxHead /\ b # Eol
  BY <1>1, <1>2, <1>3, <1>7
<1>8. QED  BY <1>1, <1>4, <1>5, <1>6, <1>7, HeadAssumption

\* A refusal counts the token and changes nothing else.
LEMMA EndedIs ==
  ASSUME NEW w \in Seq(Token), NEW n \in Nat, n < Len(w), NEW p, ParserIs(p, w, n),
         p.event = "more", NEW event \in Events \ {"more", "complete"}, NoHead(w, n + 1)
  PROVE  ParserIs(Ended(Counted(p), event), w, n + 1)
<1> DEFINE q == Ended(Counted(p), event)
<1>1. p \in Parser /\ p.total = n /\ n <= MaxHead
  BY DEF ParserIs
<1>2. q \in Parser /\ q.total = n + 1 /\ q.event = event /\ q.length = p.length
  BY <1>1, CountedIs, EndedFields
<1> HIDE DEF q
<1>3. n + 1 <= MaxHead + 1 /\ n + 1 \in 1..(n + 1)
  BY <1>1, HeadAssumption
<1>4. ParserIs(q, w, n + 1)
  BY <1>2, <1>3 DEF ParserIs
<1>5. QED  BY <1>4 DEF q

\* The first line.
LEMMA StatusLineIs ==
  ASSUME NEW w \in Seq(Token), NEW n \in Nat, n < Len(w), NEW p, ParserIs(p, w, n),
         p.event = "more", n + 1 <= MaxHead, StatusRead(p, w, n), w[n + 1] = Eol
  PROVE  ParserIs(StatusLine(Counted(p)), w, n + 1)
<1> DEFINE q == Counted(p)
<1>1. p \in Parser /\ p.total = n
  BY DEF ParserIs
<1>2. q \in Parser /\ q.total = n + 1 /\ q.event = "more" /\ q.line = p.line /\ q.length = p.length
      /\ q.chunked = p.chunked
  BY <1>1, CountedIs
<1> HIDE DEF q
<1>3. /\ p.line \in Seq(Token) /\ Len(p.line) = n /\ \A i \in 1..n : p.line[i] = w[i]
  <2>1. 1 \in Nat \ {0} /\ n \in 0..Len(w)
    OBVIOUS
  <2>2. /\ SubSeq(w, 1, n) \in Seq(Token) /\ Len(SubSeq(w, 1, n)) = IF 1 <= n THEN n - 1 + 1 ELSE 0
        /\ \A i \in 1..(n - 1 + 1) : SubSeq(w, 1, n)[i] = w[1 + i - 1]
    BY <2>1, PartIs
  <2>3. QED  BY <2>2 DEF StatusRead
<1>4. CASE IsStatusLine(p.line)
  <2>1. n = 1 /\ w[1][1] = "status"
    BY <1>3, <1>4 DEF IsStatusLine
  <2>2. w[1] \in Token
    BY <2>1, ElementOfSeq
  <2>3. w[1] = <<"status", w[1][2]>> /\ w[1][2] \in Nat
    BY <2>1, <2>2 DEF Token
  <2> DEFINE r == [q EXCEPT !.status = q.line[1][2], !.state = "headers", !.line = <<>>]
  <2>4. StatusLine(q) = r
    BY <1>2, <1>4 DEF StatusLine
  <2>5. p.line[1] = w[1]
    BY <1>3, <2>1
  <2>6. /\ r \in Parser /\ r.total = 2 /\ r.event = "more" /\ r.state = "headers" /\ r.line = <<>>
        /\ r.status = w[1][2] /\ r.length = {} /\ ~r.chunked
    <3> DEFINE q1 == [q EXCEPT !.status = q.line[1][2]]
               q2 == [q1 EXCEPT !.state = "headers"]
    <3>1. <<>> \in Seq(Token)
      BY EmptySeq
    <3>2. q1 \in Parser /\ q1.total = 2 /\ q1.event = "more" /\ q1.status = w[1][2]
          /\ q1.length = {} /\ ~q1.chunked
      <4>1. q.line[1][2] = w[1][2] /\ q.length = {} /\ ~q.chunked /\ q.total = 2
        BY <1>2, <2>1, <2>5 DEF StatusRead
      <4>2. QED  BY <1>2, <2>3, <4>1, StatusSet
    <3>3. r = [q2 EXCEPT !.line = <<>>]
      OBVIOUS
    <3> HIDE DEF q1, r
    <3>4. q2 \in Parser /\ q2.total = 2 /\ q2.event = "more" /\ q2.state = "headers"
          /\ q2.status = w[1][2] /\ q2.length = {} /\ ~q2.chunked
      BY <3>2, StateSet
    <3> HIDE DEF q2
    <3>5. QED  BY <3>1, <3>3, <3>4, LineSet
  <2> HIDE DEF r
  <2>7. w[2] = Eol /\ w[1] # Eol /\ ~Blank(w, 2)
    BY <2>1, <2>3 DEF Eol, Blank
  <2>8. \A i, e \in 2..2 : ~Line(w, i, e)
    BY DEF Line
  <2>9. DeclaredIn(w, 2) = {} /\ ~Chunked(w, 2) /\ GoodLines(w, 2)
    BY <2>8 DEF DeclaredIn, Chunked, GoodLines
  <2>10. SubSeq(w, 2 + 1, 2) = <<>>
    BY SubSeqEmpty
  <2>11. HeadersRead(r, w, 2)
    <3>1. w[1] = <<"status", r.status>>
      BY <2>3, <2>6
    <3>2. \E b \in 2..2 : /\ w[b] = Eol /\ r.line = SubSeq(w, b + 1, 2)
                          /\ \A i \in (b + 1)..2 : w[i] # Eol
      BY <2>6, <2>7, <2>10
    <3>3. QED  BY <2>6, <2>7, <2>9, <3>1, <3>2 DEF HeadersRead
  <2>12. ParserIs(r, w, 2)
    BY <2>1, <2>6, <2>11, HeadAssumption DEF ParserIs
  <2>13. QED  BY <2>1, <2>4, <2>12 DEF q
<1>5. CASE ~IsStatusLine(p.line)
  <2>1. StatusLine(q) = Ended(q, "malformed_status")
    BY <1>2, <1>5 DEF StatusLine
  <2>2. ASSUME NEW v \in Seq(Token), NEW k \in 1..Len(v), n + 1 <= k,
               \A i \in 1..(n + 1) : v[i] = w[i], GoodHead(v, k)
        PROVE  FALSE
    <3>1. v[1][1] = "status" /\ v[2] = Eol /\ v[n + 1] = Eol
      BY <2>2 DEF GoodHead
    <3>2. CASE n = 0
      BY <3>1, <3>2 DEF Eol
    <3>3. CASE n = 1
      BY <1>3, <1>5, <2>2, <3>1, <3>3 DEF IsStatusLine
    <3>4. CASE n >= 2
      BY <2>2, <3>1, <3>4 DEF StatusRead
    <3>5. QED  BY <3>2, <3>3, <3>4
  <2>3. NoHead(w, n + 1)
    BY <2>2, RefusedFor
  <2>4. ParserIs(Ended(Counted(p), "malformed_status"), w, n + 1)
    BY <2>3, EndedIs DEF Events
  <2>5. QED  BY <2>1, <2>4 DEF q
<1>6. QED  BY <1>4, <1>5

\* Text in a line.
LEMMA TextRead ==
  ASSUME NEW w \in Seq(Token), NEW n \in Nat, n < Len(w), NEW p, ParserIs(p, w, n),
         p.event = "more", n + 1 <= MaxHead, w[n + 1] # Eol
  PROVE  ParserIs([Counted(p) EXCEPT !.line = Append(@, w[n + 1])], w, n + 1)
<1> DEFINE c == Counted(p)
           q == [c EXCEPT !.line = Append(c.line, w[n + 1])]
<1>1. p \in Parser /\ p.total = n /\ w[n + 1] \in Token
  BY ElementOfSeq DEF ParserIs
<1>2. /\ q \in Parser /\ q.total = n + 1 /\ q.event = "more" /\ q.line = Append(p.line, w[n + 1])
      /\ q.state = p.state /\ q.status = p.status /\ q.length = p.length /\ q.chunked = p.chunked
  <2>1. Append(p.line, w[n + 1]) \in Seq(Token)
    BY <1>1, AppendProperties DEF Parser
  <2>2. /\ c \in Parser /\ c.total = n + 1 /\ c.event = "more" /\ c.line = p.line
        /\ c.state = p.state /\ c.status = p.status /\ c.length = p.length /\ c.chunked = p.chunked
    BY <1>1, CountedIs
  <2> DEFINE x == Append(c.line, w[n + 1])
  <2>3. x \in Seq(Token) /\ x = Append(p.line, w[n + 1]) /\ q = [c EXCEPT !.line = x]
    BY <2>1, <2>2
  <2> HIDE DEF c, q, x
  <2>4. QED  BY <2>2, <2>3, LineSet
<1> HIDE DEF q
<1>3. CASE StatusRead(p, w, n)
  <2>1. SubSeq(w, 1, n + 1) = Append(SubSeq(w, 1, n), w[n + 1])
    BY PartGrows
  <2>2. StatusRead(q, w, n + 1)
    BY <1>2, <1>3, <2>1 DEF StatusRead
  <2>3. ParserIs(q, w, n + 1)
    BY <1>2, <2>2, HeadAssumption DEF ParserIs
  <2>4. QED  BY <2>3 DEF q
<1>4. CASE HeadersRead(p, w, n)
  <2>1. PICK b \in 2..n : /\ w[b] = Eol /\ p.line = SubSeq(w, b + 1, n)
                          /\ \A i \in (b + 1)..n : w[i] # Eol
    BY <1>4 DEF HeadersRead
  <2>2. SubSeq(w, b + 1, n + 1) = Append(SubSeq(w, b + 1, n), w[n + 1])
    <3>1. b + 1 \in 1..(n + 1)
      OBVIOUS
    <3>2. QED  BY <3>1, PartGrows
  <2>3. /\ b \in 2..(n + 1) /\ q.line = SubSeq(w, b + 1, n + 1)
        /\ \A i \in (b + 1)..(n + 1) : w[i] # Eol
    BY <1>2, <2>1, <2>2
  <2>4. \A i \in 2..n : ~Line(w, i, n + 1)
    BY DEF Line
  <2>5. /\ DeclaredIn(w, n + 1) = DeclaredIn(w, n) /\ (Chunked(w, n + 1) <=> Chunked(w, n))
        /\ GoodLines(w, n + 1) <=> GoodLines(w, n)
    BY <2>4, NoLineEnds
  <2>6. \A i \in 2..(n + 1) : ~Blank(w, i)
    BY <1>4 DEF HeadersRead, Blank
  <2>7. HeadersRead(q, w, n + 1)
    <3>1. /\ q.state = "headers" /\ n + 1 >= 2 /\ w[1] = <<"status", q.status>> /\ w[2] = Eol
          /\ GoodLines(w, n + 1) /\ \A i, j \in DeclaredIn(w, n + 1) : i = j
          /\ q.chunked <=> Chunked(w, n + 1)
      BY <1>2, <1>4, <2>5 DEF HeadersRead
    <3>2. q.length = {w[i][2] : i \in DeclaredIn(w, n + 1)}
      BY <1>2, <1>4, <2>5 DEF HeadersRead
    <3>3. QED  BY <2>1, <2>3, <2>6, <3>1, <3>2 DEF HeadersRead
  <2>8. ParserIs(q, w, n + 1)
    BY <1>2, <2>7, HeadAssumption DEF ParserIs
  <2>9. QED  BY <2>8 DEF q
<1>5. QED  BY <1>3, <1>4 DEF ParserIs


\* The blank line.
LEMMA FinishIs ==
  ASSUME NEW w \in Seq(Token), NEW n \in Nat, n < Len(w), NEW p, ParserIs(p, w, n),
         p.event = "more", n + 1 <= MaxHead, HeadersRead(p, w, n), p.line = <<>>,
         w[n + 1] = Eol
  PROVE  ParserIs(Finish(Counted(p)), w, n + 1)
<1> DEFINE q == Counted(p)
<1>1. p \in Parser /\ p.total = n
  BY DEF ParserIs
<1>2. /\ q \in Parser /\ q.total = n + 1 /\ q.status = p.status /\ q.length = p.length
      /\ q.chunked = p.chunked
  BY <1>1, CountedIs
<1> HIDE DEF q
<1>3. n >= 2 /\ w[n] = Eol
  <2>1. PICK b \in 2..n : w[b] = Eol /\ p.line = SubSeq(w, b + 1, n)
    BY DEF HeadersRead
  <2>2. b + 1 \in Nat \ {0} /\ n \in 0..Len(w)
    OBVIOUS
  <2>3. Len(SubSeq(w, b + 1, n)) = IF b + 1 <= n THEN n - (b + 1) + 1 ELSE 0
    BY <2>2, PartIs
  <2>4. ~(b + 1 <= n)
    BY <2>1, <2>3
  <2>5. QED  BY <2>1, <2>4
<1>4. Blank(w, n + 1)
  BY <1>3 DEF Blank
<1>5. \A i \in 2..n : ~Line(w, i, n + 1)
  <2>1. \A i \in 2..n : n \in i..(n + 1 - 1)
    OBVIOUS
  <2>2. QED  BY <1>3, <2>1 DEF Line
<1>6. /\ DeclaredIn(w, n + 1) = DeclaredIn(w, n) /\ (Chunked(w, n + 1) <=> p.chunked)
      /\ GoodLines(w, n + 1) /\ p.length = {w[i][2] : i \in DeclaredIn(w, n + 1)}
      /\ \A i, j \in DeclaredIn(w, n + 1) : i = j
  BY <1>5, NoLineEnds DEF HeadersRead
<1>7. w[1] = <<"status", p.status>> /\ w[2] = Eol /\ \A i \in 2..n : ~Blank(w, i)
  BY DEF HeadersRead
<1>8. p.length = {} <=> DeclaredIn(w, n + 1) = {}
  BY <1>6
<1>9. ASSUME \/ p.chunked
             \/ ~Accepts(p.status)
             \/ p.length = {} /\ p.status # 404,
             NEW event \in Events \ {"more", "complete"}
      PROVE  ParserIs(Ended(q, event), w, n + 1)
  <2>1. ASSUME NEW v \in Seq(Token), NEW k \in 1..Len(v), n + 1 <= k,
               \A i \in 1..(n + 1) : v[i] = w[i], GoodHead(v, k)
        PROVE  FALSE
    <3>1. Blank(v, n + 1)
      <4>1. n + 1 - 1 \in 1..(n + 1) /\ n + 1 \in 1..(n + 1)
        BY <1>3
      <4>2. QED  BY <1>4, <2>1, <4>1 DEF Blank
    <3>2. k = n + 1
      <4>1. Len(v) \in Nat
        OBVIOUS
      <4>2. n + 1 \in 2..(k - 1) => FALSE
        BY <2>1, <3>1 DEF GoodHead
      <4>3. QED  BY <1>3, <2>1, <4>1, <4>2
    <3>3. GoodHead(w, n + 1)
      <4>1. SubSeq(v, 1, n + 1) = SubSeq(w, 1, n + 1)
        <5>1. n + 1 \in 0..Len(v) /\ n + 1 <= Len(w) /\ \A i \in 1..(n + 1) : v[i] = w[i]
          BY <2>1, <3>2
        <5>2. 1 \in Nat \ {0}
          OBVIOUS
        <5>3. QED  BY <5>1, <5>2, SameParts
      <4>2. n + 1 \in 0..Len(v) /\ n + 1 \in 0..Len(w)
        BY <2>1, <3>2
      <4>3. QED  BY <2>1, <3>2, <4>1, <4>2, HeadByPosition
    <3>4. w[1][1] = "status" /\ w[1][2] = p.status
      BY <1>7
    <3>5. QED  BY <1>6, <1>8, <1>9, <3>3, <3>4 DEF GoodHead
  <2>2. NoHead(w, n + 1)
    BY <2>1, RefusedFor
  <2>3. QED  BY <1>9, <2>2, EndedIs DEF q
<1>10. ASSUME ~p.chunked, Accepts(p.status), p.length = {} => p.status = 404
       PROVE  ParserIs(Ended(q, "complete"), w, n + 1)
  <2> DEFINE r == Ended(q, "complete")
  <2>1. /\ r \in Parser /\ r.total = n + 1 /\ r.event = "complete"
        /\ r.status = p.status /\ r.length = p.length
    BY <1>2, EndedFields DEF Events
  <2> HIDE DEF r
  <2>2. GoodHead(w, n + 1)
    <3>1. n + 1 \in 2..MaxHead /\ n + 1 - 1 = n
      BY <1>3, HeadAssumption
    <3>2. w[1][1] = "status" /\ w[1][2] = p.status
      BY <1>7
    <3>3. QED  BY <1>4, <1>6, <1>7, <1>8, <1>10, <3>1, <3>2 DEF GoodHead
  <2>3. n + 1 \in 1..(n + 1) /\ n + 1 <= MaxHead + 1
    BY HeadAssumption
  <2>4. ParserIs(r, w, n + 1)
    BY <1>6, <1>7, <2>1, <2>2, <2>3 DEF ParserIs
  <2>5. QED  BY <2>4 DEF r
<1>11. CASE p.chunked
  <2>1. Finish(q) = Ended(q, "transfer_encoding")
    BY <1>2, <1>11 DEF Finish
  <2>2. QED  BY <1>9, <1>11, <2>1 DEF q, Events
<1>12. CASE ~p.chunked /\ ~Accepts(p.status)
  <2>1. Finish(q) = Ended(q, "unexpected_status")
    BY <1>2, <1>12 DEF Finish
  <2>2. QED  BY <1>9, <1>12, <2>1 DEF q, Events
<1>13. CASE ~p.chunked /\ Accepts(p.status) /\ p.length = {} /\ p.status # 404
  <2>1. Finish(q) = Ended(q, "missing_content_length")
    BY <1>2, <1>13 DEF Finish
  <2>2. QED  BY <1>9, <1>13, <2>1 DEF q, Events
<1>14. CASE ~p.chunked /\ Accepts(p.status) /\ ~(p.length = {} /\ p.status # 404)
  <2>1. Finish(q) = Ended(q, "complete")
    BY <1>2, <1>14 DEF Finish
  <2>2. QED  BY <1>10, <1>14, <2>1 DEF q
<1>15. QED  BY <1>11, <1>12, <1>13, <1>14

\* A header.
LEMMA HeaderIs ==
  ASSUME NEW w \in Seq(Token), NEW n \in Nat, n < Len(w), NEW p, ParserIs(p, w, n),
         p.event = "more", n + 1 <= MaxHead, HeadersRead(p, w, n), p.line # <<>>,
         w[n + 1] = Eol
  PROVE  ParserIs(Header(Counted(p)), w, n + 1)
<1> DEFINE q == Counted(p)
<1>1. p \in Parser /\ p.total = n
  BY DEF ParserIs
<1>2. /\ q \in Parser /\ q.total = n + 1 /\ q.event = "more" /\ q.state = "headers"
      /\ q.line = p.line /\ q.status = p.status /\ q.length = p.length /\ q.chunked = p.chunked
  BY <1>1, CountedIs DEF HeadersRead
<1> HIDE DEF q
<1>3. PICK b \in 2..n : /\ w[b] = Eol /\ p.line = SubSeq(w, b + 1, n)
                        /\ \A i \in (b + 1)..n : w[i] # Eol
  BY DEF HeadersRead
<1>4. b \in 2..(n - 1) /\ p.line[1] = w[b + 1]
  <2>1. b + 1 \in Nat \ {0} /\ n \in 0..Len(w)
    OBVIOUS
  <2>2. /\ Len(SubSeq(w, b + 1, n)) = IF b + 1 <= n THEN n - (b + 1) + 1 ELSE 0
        /\ \A i \in 1..(n - (b + 1) + 1) : SubSeq(w, b + 1, n)[i] = w[b + 1 + i - 1]
    BY <2>1, PartIs
  <2>3. p.line \in Seq(Token)
    BY <1>1 DEF Parser
  <2>4. Len(p.line) # 0
    BY <2>3, EmptySeq
  <2>5. b + 1 <= n
    BY <1>3, <2>2, <2>4
  <2>6. 1 \in 1..(n - (b + 1) + 1)
    BY <2>5
  <2>7. p.line[1] = w[b + 1 + 1 - 1]
    BY <1>3, <2>2, <2>6
  <2>8. QED  BY <2>5, <2>7
<1>5. /\ Line(w, b + 1, n + 1)
      /\ \A i, e \in 2..(n + 1) : Line(w, i, e) =>
           (i \in 2..n /\ e \in 2..n) \/ (i = b + 1 /\ e = n + 1)
      /\ \A i \in DeclaredIn(w, n) : i # b + 1
  BY <1>3, <1>4, OneLineEnds
<1>6. b + 1 \in 2..(n + 1) /\ n + 1 \in 2..(n + 1) /\ 2..n \subseteq 2..(n + 1)
      /\ b + 1 \in 1..Len(w) /\ n + 1 - 1 = n
  BY <1>4
<1>7. w[b + 1] \in Token /\ w[b + 1][2] \in Nat
  BY <1>6, ElementOfSeq DEF Token
<1>8. DeclaredIn(w, n) \subseteq DeclaredIn(w, n + 1)
  BY <1>6 DEF DeclaredIn
<1>9. w[b + 1][1] = "length" => DeclaredIn(w, n + 1) = DeclaredIn(w, n) \union {b + 1}
  BY <1>5, <1>6 DEF DeclaredIn
<1>10. w[b + 1][1] # "length" => DeclaredIn(w, n + 1) = DeclaredIn(w, n)
  BY <1>5, <1>6 DEF DeclaredIn
<1>11. Chunked(w, n + 1) <=> Chunked(w, n) \/ w[b + 1][1] = "chunked"
  BY <1>5, <1>6 DEF Chunked
<1>12. ASSUME WellFormed(p.line)
       PROVE  GoodLines(w, n + 1)
  <2>1. ASSUME NEW i \in 2..(n + 1), NEW e \in 2..(n + 1), Line(w, i, e)
        PROVE  WellFormed(SubSeq(w, i, e - 1))
    <3>1. CASE i \in 2..n /\ e \in 2..n
      BY <2>1, <3>1 DEF GoodLines, HeadersRead
    <3>2. CASE i = b + 1 /\ e = n + 1
      BY <1>3, <1>6, <1>12, <3>2
    <3>3. QED  BY <1>5, <2>1, <3>1, <3>2
  <2>2. QED  BY <2>1 DEF GoodLines
<1>13. ASSUME NEW v \in Seq(Token), NEW k \in 1..Len(v), n + 1 <= k,
              \A i \in 1..(n + 1) : v[i] = w[i], GoodHead(v, k)
       PROVE  /\ WellFormed(p.line)
              /\ \A i, j \in DeclaredIn(w, n + 1) : i = j
  <2>1. \A i \in 2..(n + 1) : v[i] = w[i] /\ v[i - 1] = w[i - 1]
    BY <1>13
  <2>2. \A i, e \in 2..(n + 1) : Line(w, i, e) => Line(v, i, e)
    <3>1. SUFFICES ASSUME NEW i \in 2..(n + 1), NEW e \in 2..(n + 1), Line(w, i, e)
                   PROVE  Line(v, i, e)
      OBVIOUS
    <3>2. \A l \in i..(e - 1) : l \in 2..(n + 1)
      OBVIOUS
    <3>3. QED  BY <2>1, <3>1, <3>2 DEF Line
  <2>3. Len(v) \in Nat /\ 2..(n + 1) \subseteq 2..k
    BY <1>13
  <2>4. DeclaredIn(w, n + 1) \subseteq DeclaredIn(v, k)
    BY <2>1, <2>2, <2>3 DEF DeclaredIn
  <2>5. SubSeq(v, b + 1, n) = SubSeq(w, b + 1, n)
    <3>1. b + 1 \in Nat \ {0} /\ n \in 0..Len(v) /\ n <= Len(w) /\ \A i \in (b + 1)..n : v[i] = w[i]
      BY <1>13, <2>1, <2>3
    <3>2. QED  BY <3>1, SameParts
  <2>6. WellFormed(SubSeq(v, b + 1, n + 1 - 1))
    BY <1>5, <1>6, <1>13, <2>2, <2>3 DEF GoodHead, GoodLines
  <2>7. WellFormed(p.line)
    BY <1>3, <1>6, <2>5, <2>6
  <2>8. \A i, j \in DeclaredIn(v, k) : i = j
    BY <1>13 DEF GoodHead
  <2>9. QED  BY <2>4, <2>7, <2>8
<1>14. ASSUME \/ ~WellFormed(p.line)
              \/ ~\A i, j \in DeclaredIn(w, n + 1) : i = j,
              NEW event \in Events \ {"more", "complete"}
       PROVE  ParserIs(Ended(q, event), w, n + 1)
  <2>1. NoHead(w, n + 1)
    BY <1>13, <1>14, RefusedFor
  <2>2. QED  BY <1>14, <2>1, EndedIs DEF q
<1>15. ASSUME NEW r \in Parser, r.total = n + 1, r.event = "more", r.state = "headers",
              r.line = <<>>, r.status = p.status, WellFormed(p.line),
              r.length = {w[i][2] : i \in DeclaredIn(w, n + 1)},
              \A i, j \in DeclaredIn(w, n + 1) : i = j,
              r.chunked <=> Chunked(w, n + 1)
       PROVE  ParserIs(r, w, n + 1)
  <2>1. SubSeq(w, n + 1 + 1, n + 1) = <<>>
    BY SubSeqEmpty
  <2>2. \A i \in 2..(n + 1) : ~Blank(w, i)
    <3>1. n \in (b + 1)..n
      BY <1>4
    <3>2. w[n + 1 - 1] # Eol
      BY <1>3, <1>6, <3>1
    <3>3. ~Blank(w, n + 1) /\ \A i \in 2..n : ~Blank(w, i)
      BY <3>2 DEF HeadersRead, Blank
    <3>4. \A i \in 2..(n + 1) : i \in 2..n \/ i = n + 1
      OBVIOUS
    <3>5. QED  BY <3>3, <3>4
  <2>3. \E c \in 2..(n + 1) : /\ w[c] = Eol /\ r.line = SubSeq(w, c + 1, n + 1)
                              /\ \A i \in (c + 1)..(n + 1) : w[i] # Eol
    BY <1>6, <1>15, <2>1
  <2>4. n + 1 >= 2 /\ w[1] = <<"status", r.status>> /\ w[2] = Eol
    BY <1>4, <1>15 DEF HeadersRead
  <2>5. HeadersRead(r, w, n + 1)
    BY <1>12, <1>15, <2>2, <2>3, <2>4 DEF HeadersRead
  <2>6. \A x, y \in r.length : x = y
    BY <1>15
  <2>7. QED  BY <1>15, <2>5, <2>6, HeadAssumption DEF ParserIs
<1>16. CASE ~WellFormed(p.line)
  <2>1. Header(q) = Ended(q, "malformed_header")
    BY <1>2, <1>16 DEF Header
  <2>2. QED  BY <1>14, <1>16, <2>1 DEF q, Events
<1>17. CASE WellFormed(p.line) /\ w[b + 1][1] = "length" /\ p.length # {}
  <2>1. Header(q) = Ended(q, "duplicate_content_length")
    BY <1>2, <1>4, <1>17 DEF Header, TakeLength
  <2>2. \E i \in DeclaredIn(w, n + 1) : i # b + 1
    BY <1>5, <1>8, <1>17 DEF HeadersRead
  <2>3. ~\A i, j \in DeclaredIn(w, n + 1) : i = j
    BY <1>9, <1>17, <2>2
  <2>4. QED  BY <1>14, <2>1, <2>3 DEF q, Events
<1>18. CASE WellFormed(p.line) /\ w[b + 1][1] = "length" /\ p.length = {}
  <2> DEFINE a == [q EXCEPT !.length = {w[b + 1][2]}]
             r == [a EXCEPT !.line = <<>>]
  <2>1. Header(q) = r
    BY <1>2, <1>4, <1>18 DEF Header, TakeLength
  <2>2. /\ a \in Parser /\ a.total = n + 1 /\ a.event = "more" /\ a.state = "headers"
        /\ a.status = p.status /\ a.length = {w[b + 1][2]} /\ a.chunked = p.chunked
    BY <1>2, <1>7, LengthSet
  <2> HIDE DEF a
  <2>3. <<>> \in Seq(Token)
    BY EmptySeq
  <2>4. /\ r \in Parser /\ r.total = n + 1 /\ r.event = "more" /\ r.state = "headers"
        /\ r.line = <<>> /\ r.status = p.status /\ r.length = {w[b + 1][2]}
        /\ r.chunked = p.chunked
    BY <2>2, <2>3, LineSet
  <2> HIDE DEF r
  <2>5. DeclaredIn(w, n) = {}
    BY <1>18 DEF HeadersRead
  <2>6. DeclaredIn(w, n + 1) = {b + 1}
    BY <1>9, <1>18, <2>5
  <2>7. r.chunked <=> Chunked(w, n + 1)
    BY <1>11, <1>18, <2>4 DEF HeadersRead
  <2>8. r.length = {w[i][2] : i \in DeclaredIn(w, n + 1)}
    BY <2>4, <2>6
  <2>9. \A i, j \in DeclaredIn(w, n + 1) : i = j
    BY <2>6
  <2>10. QED  BY <1>15, <1>18, <2>1, <2>4, <2>7, <2>8, <2>9 DEF q
<1>19. CASE WellFormed(p.line) /\ w[b + 1][1] # "length"
  <2> DEFINE c == p.chunked \/ w[b + 1][1] = "chunked"
             a == [q EXCEPT !.chunked = c]
             r == [a EXCEPT !.line = <<>>]
  <2>1. Header(q) = r
    BY <1>2, <1>4, <1>19 DEF Header
  <2>2. /\ a \in Parser /\ a.total = n + 1 /\ a.event = "more" /\ a.state = "headers"
        /\ a.status = p.status /\ a.length = p.length /\ a.chunked = c
    <3>1. c \in BOOLEAN
      BY <1>1 DEF Parser
    <3> HIDE DEF c
    <3>2. QED  BY <1>2, <3>1, ChunkedSet
  <2> HIDE DEF a
  <2>3. <<>> \in Seq(Token)
    BY EmptySeq
  <2>4. /\ r \in Parser /\ r.total = n + 1 /\ r.event = "more" /\ r.state = "headers"
        /\ r.line = <<>> /\ r.status = p.status /\ r.length = p.length
        /\ r.chunked = c
    <3> HIDE DEF c
    <3>1. QED  BY <2>2, <2>3, LineSet
  <2> HIDE DEF r
  <2>5. r.chunked <=> Chunked(w, n + 1)
    BY <1>11, <2>4 DEF HeadersRead
  <2>6. r.length = {w[i][2] : i \in DeclaredIn(w, n + 1)}
    BY <1>10, <1>19, <2>4 DEF HeadersRead
  <2>7. \A i, j \in DeclaredIn(w, n + 1) : i = j
    BY <1>10, <1>19 DEF HeadersRead
  <2>8. QED  BY <1>15, <1>19, <2>1, <2>4, <2>5, <2>6, <2>7 DEF q
<1>20. QED  BY <1>16, <1>17, <1>18, <1>19 DEF q

\* Whatever the token is, the parser knows what it has read.
LEMMA PushReads ==
  ASSUME NEW w \in Seq(Token), NEW n \in Nat, n < Len(w), NEW p, ParserIs(p, w, n)
  PROVE  ParserIs(Push(p, w[n + 1]), w, n + 1)
<1>1. p \in Parser
  BY DEF ParserIs
<1>2. CASE p.event # "more"
  <2>1. Push(p, w[n + 1]) = p
    BY <1>1, <1>2, PushIs
  <2>2. 1..n \subseteq 1..(n + 1)
    OBVIOUS
  <2>3. ParserIs(p, w, n + 1)
    BY <1>2, <2>2 DEF ParserIs
  <2>4. QED  BY <2>1, <2>3
<1>3. CASE p.event = "more"
  <2>1. p.total = n
    BY <1>3 DEF ParserIs
  <2>2. CASE n + 1 > MaxHead
    <3>1. Push(p, w[n + 1]) = Ended(Counted(p), "oversized_header")
      BY <1>1, <1>3, <2>1, <2>2, PushIs
    <3>2. ASSUME NEW v \in Seq(Token), NEW k \in 1..Len(v), n + 1 <= k
          PROVE  ~GoodHead(v, k)
      <4>1. Len(v) \in Nat /\ k \notin 2..MaxHead
        BY <2>2, <3>2, HeadAssumption
      <4>2. QED  BY <4>1 DEF GoodHead
    <3>3. NoHead(w, n + 1)
      BY <1>3, <3>2, RefusedFor
    <3>4. QED  BY <1>3, <3>1, <3>3, EndedIs DEF Events
  <2>3. CASE n + 1 <= MaxHead /\ w[n + 1] # Eol
    <3>1. Push(p, w[n + 1]) = [Counted(p) EXCEPT !.line = Append(@, w[n + 1])]
      BY <1>1, <1>3, <2>1, <2>3, PushIs
    <3>2. QED  BY <1>3, <2>3, <3>1, TextRead
  <2>4. CASE n + 1 <= MaxHead /\ w[n + 1] = Eol
    <3> DEFINE q == Counted(p)
    <3>1. Push(p, w[n + 1]) = LineEnds(q)
      BY <1>1, <1>3, <2>1, <2>4, PushIs
    <3>2. q.state = p.state /\ q.line = p.line
      BY <1>1, CountedIs
    <3> HIDE DEF q
    <3>3. CASE StatusRead(p, w, n)
      <4>1. LineEnds(q) = StatusLine(q)
        BY <3>2, <3>3 DEF LineEnds, StatusRead
      <4>2. QED  BY <1>3, <2>4, <3>1, <3>3, <4>1, StatusLineIs DEF q
    <3>4. CASE HeadersRead(p, w, n) /\ p.line = <<>>
      <4>1. LineEnds(q) = Finish(q)
        BY <3>2, <3>4 DEF LineEnds, HeadersRead
      <4>2. QED  BY <1>3, <2>4, <3>1, <3>4, <4>1, FinishIs DEF q
    <3>5. CASE HeadersRead(p, w, n) /\ p.line # <<>>
      <4>1. LineEnds(q) = Header(q)
        BY <3>2, <3>5 DEF LineEnds, HeadersRead
      <4>2. QED  BY <1>3, <2>4, <3>1, <3>5, <4>1, HeaderIs DEF q
    <3>6. QED  BY <1>3, <3>3, <3>4, <3>5 DEF ParserIs
  <2>5. QED  BY <2>2, <2>3, <2>4, HeadAssumption
<1>4. QED  BY <1>2, <1>3

\* A parser that still reads takes the token.
LEMMA PushCounts ==
  ASSUME NEW p \in Parser, NEW b
  PROVE  Push(p, b).total = IF p.event = "more" THEN p.total + 1 ELSE p.total
<1> DEFINE q == Counted(p)
<1>1. q \in Parser /\ q.total = p.total + 1
  BY CountedIs
<1>2. \A event : Ended(q, event).total = q.total
  BY <1>1 DEF Ended, Parser
<1>3. LineEnds(q).total = q.total
  <2> HIDE DEF q
  <2>1. StatusLine(q).total = q.total
    BY <1>1, <1>2 DEF StatusLine, Parser
  <2>2. Finish(q).total = q.total
    BY <1>2 DEF Finish
  <2>3. \A n : TakeLength(q, n).total = q.total
    BY <1>1, <1>2 DEF TakeLength, Parser
  <2>4. Header(q).total = q.total
    <3>1. CASE ~WellFormed(q.line)
      BY <1>2, <3>1 DEF Header
    <3>2. CASE WellFormed(q.line) /\ q.line[1][1] = "length"
      BY <2>3, <3>2 DEF Header
    <3>3. CASE WellFormed(q.line) /\ q.line[1][1] # "length"
      BY <1>1, <3>3 DEF Header, Parser
    <3>4. QED  BY <3>1, <3>2, <3>3
  <2>5. QED  BY <2>1, <2>2, <2>4 DEF LineEnds
<1>4. [q EXCEPT !.line = Append(@, b)].total = q.total
  BY <1>1 DEF Parser
<1>5. p.total + 1 > MaxHead \/ p.total + 1 <= MaxHead
  BY HeadAssumption DEF Parser
<1>6. QED  BY <1>1, <1>2, <1>3, <1>4, <1>5, PushIs

-----------------------------------------------------------------------------
(***************************************************************************)
(* One read.                                                               *)
(***************************************************************************)
\* The parsers between the tokens of a chunk.
FedBy(fed, p, chunk, n) ==
  fed = [i \in 0..n |-> IF i = 0 THEN p ELSE Push(fed[i - 1], chunk[i])]

\* They exist, so Feed is the last of them.
LEMMA FeedIs ==
  ASSUME NEW p, NEW chunk, Len(chunk) \in Nat
  PROVE  \E fed : FedBy(fed, p, chunk, Len(chunk)) /\ Feed(p, chunk) = fed[Len(chunk)]
<1> DEFINE Odd == {n \in Nat : ~\E fed : FedBy(fed, p, chunk, n)}
<1>1. Odd = {}
  <2> SUFFICES ASSUME Odd # {} PROVE FALSE
    OBVIOUS
  <2>1. PICK n \in Odd : \A k \in Odd : n <= k
    BY Least
  <2>2. n # 0
    <3>1. FedBy([i \in 0..0 |-> p], p, chunk, 0)
      BY DEF FedBy
    <3>2. QED  BY <3>1
  <2>3. n - 1 \in Nat /\ n - 1 \notin Odd
    <3>1. n \in Nat /\ n - 1 \in Nat /\ ~(n <= n - 1)
      BY <2>2
    <3>2. QED  BY <2>1, <3>1
  <2>4. PICK fed : FedBy(fed, p, chunk, n - 1)
    BY <2>3
  <2> DEFINE more == [i \in 0..n |-> IF i = n THEN Push(fed[n - 1], chunk[n]) ELSE fed[i]]
  <2>5. \A i \in 0..n : more[i] = IF i = 0 THEN p ELSE Push(more[i - 1], chunk[i])
    BY <2>2, <2>4 DEF FedBy
  <2>6. FedBy(more, p, chunk, n)
    BY <2>5 DEF FedBy
  <2>7. QED  BY <2>1, <2>6
<1>2. PICK fed : FedBy(fed, p, chunk, Len(chunk))
  BY <1>1
<1>3. Feed(p, chunk) = (CHOOSE f : FedBy(f, p, chunk, Len(chunk)))[Len(chunk)]
  BY DEF Feed, FedBy
<1>4. FedBy(CHOOSE f : FedBy(f, p, chunk, Len(chunk)), p, chunk, Len(chunk))
  BY <1>2
<1>5. QED  BY <1>3, <1>4

\* However many tokens a read delivers, the parser knows what it has read, and
\* a parser that still read has taken one of them at least.
LEMMA FeedReads ==
  ASSUME NEW w \in Seq(Token), NEW m \in Nat, NEW n \in Nat \ {0}, m + n <= Len(w),
         NEW p, ParserIs(p, w, m), p.event = "more"
  PROVE  /\ ParserIs(Feed(p, SubSeq(w, m + 1, m + n)), w, m + n)
         /\ Feed(p, SubSeq(w, m + 1, m + n)).total > m
<1> DEFINE chunk == SubSeq(w, m + 1, m + n)
<1>1. Len(chunk) = n /\ \A i \in 1..n : chunk[i] = w[m + i]
  <2>1. m + 1 \in Nat \ {0} /\ m + n \in 0..Len(w)
    OBVIOUS
  <2>2. /\ Len(chunk) = IF m + 1 <= m + n THEN m + n - (m + 1) + 1 ELSE 0
        /\ \A i \in 1..(m + n - (m + 1) + 1) : chunk[i] = w[m + 1 + i - 1]
    BY <2>1, PartIs
  <2> HIDE DEF chunk
  <2>3. \A i \in 1..n : i \in 1..(m + n - (m + 1) + 1) /\ m + 1 + i - 1 = m + i
    OBVIOUS
  <2>4. QED  BY <2>2, <2>3
<1> HIDE DEF chunk
<1>2. PICK fed : FedBy(fed, p, chunk, n) /\ Feed(p, chunk) = fed[n]
  BY <1>1, FeedIs
<1>3. fed[0] = p /\ \A i \in 1..n : fed[i] = Push(fed[i - 1], w[m + i])
  <2>1. \A i \in 0..n : fed[i] = IF i = 0 THEN p ELSE Push(fed[i - 1], chunk[i])
    BY <1>2 DEF FedBy
  <2>2. QED  BY <1>1, <2>1
<1> DEFINE Good(i) == ParserIs(fed[i], w, m + i) /\ (fed[i].total > m \/ i = 0)
           Odd == {i \in 0..n : ~Good(i)}
<1>4. Odd = {}
  <2> SUFFICES ASSUME Odd # {} PROVE FALSE
    OBVIOUS
  <2>1. Odd \in SUBSET Nat
    OBVIOUS
  <2>2. PICK i \in Odd : \A k \in Odd : i <= k
    BY <2>1, Least
  <2>3. i # 0
    BY <1>3
  <2>4. i \in 1..n /\ i - 1 \in 0..n /\ Good(i - 1)
    <3>1. i \in Nat /\ i - 1 \in 0..n /\ ~(i <= i - 1)
      BY <2>3
    <3>2. QED  BY <2>2, <2>3, <3>1
  <2> DEFINE k == m + i - 1
             q == fed[i - 1]
  <2>5. k \in Nat /\ k < Len(w) /\ k + 1 = m + i /\ m + (i - 1) = k
    BY <2>4
  <2>6. ParserIs(q, w, k) /\ fed[i] = Push(q, w[k + 1])
    BY <1>3, <2>4, <2>5
  <2>7. ParserIs(fed[i], w, m + i)
    <3> HIDE DEF k, q
    <3>1. QED  BY <2>5, <2>6, PushReads
  <2>8. fed[i].total > m
    <3>1. q \in Parser /\ q.total \in Nat
      BY <2>6 DEF ParserIs, Parser
    <3>2. q.total > m \/ (q.event = "more" /\ q.total = m)
      <4>1. CASE i - 1 = 0
        BY <1>3, <2>5, <2>6, <4>1 DEF ParserIs
      <4>2. CASE i - 1 # 0
        BY <2>4, <4>2
      <4>3. QED  BY <4>1, <4>2
    <3> HIDE DEF k, q
    <3>3. QED  BY <2>6, <3>1, <3>2, PushCounts
  <2>9. QED  BY <2>2, <2>7, <2>8
<1>5. Good(n)
  BY <1>4
<1>6. QED  BY <1>2, <1>5 DEF chunk

\* There is one way to feed a chunk.
LEMMA FedOnce ==
  ASSUME NEW p, NEW chunk, NEW n \in Nat, NEW a, NEW b,
         FedBy(a, p, chunk, n), FedBy(b, p, chunk, n)
  PROVE  \A i \in 0..n : a[i] = b[i]
<1> DEFINE Odd == {i \in 0..n : a[i] # b[i]}
<1> SUFFICES ASSUME Odd # {} PROVE FALSE
  OBVIOUS
<1>1. Odd \in SUBSET Nat
  OBVIOUS
<1>2. PICK i \in Odd : \A k \in Odd : i <= k
  BY <1>1, Least
<1>3. \A k \in 0..n : /\ a[k] = IF k = 0 THEN p ELSE Push(a[k - 1], chunk[k])
                      /\ b[k] = IF k = 0 THEN p ELSE Push(b[k - 1], chunk[k])
  BY DEF FedBy
<1>4. i # 0
  BY <1>3
<1>5. i - 1 \in 0..n /\ ~(i <= i - 1)
  BY <1>4
<1>6. a[i - 1] = b[i - 1]
  BY <1>2, <1>5
<1>7. QED  BY <1>3, <1>4, <1>6

\* core/src/ota/http.rs:1-8: how the response is cut into reads makes no
\* difference: two reads leave the parser where one would have left it.
THEOREM FeedInPieces ==
  ASSUME NEW p, NEW s \in Seq(Token), NEW t \in Seq(Token)
  PROVE  Feed(Feed(p, s), t) = Feed(p, s \o t)
<1> DEFINE l == Len(s)
           m == Len(t)
<1>1. l \in Nat /\ m \in Nat /\ Len(s \o t) = l + m
  OBVIOUS
<1>2. /\ \A i \in 1..l : (s \o t)[i] = s[i]
      /\ \A i \in (l + 1)..(l + m) : (s \o t)[i] = t[i - l]
  OBVIOUS
<1> HIDE DEF l, m
<1>3. PICK f : FedBy(f, p, s, l) /\ Feed(p, s) = f[l]
  BY <1>1, FeedIs DEF l
<1>4. PICK g : FedBy(g, f[l], t, m) /\ Feed(f[l], t) = g[m]
  BY <1>1, FeedIs DEF m
<1>5. PICK h : FedBy(h, p, s \o t, l + m) /\ Feed(p, s \o t) = h[l + m]
  <2>1. Len(s \o t) \in Nat
    BY <1>1
  <2>2. QED  BY <1>1, <2>1, FeedIs
<1> DEFINE j == [i \in 0..(l + m) |-> IF i <= l THEN f[i] ELSE g[i - l]]
<1>6. \A i \in 0..(l + m) : j[i] = IF i = 0 THEN p ELSE Push(j[i - 1], (s \o t)[i])
  <2>1. /\ \A i \in 0..l : f[i] = IF i = 0 THEN p ELSE Push(f[i - 1], s[i])
        /\ \A i \in 0..m : g[i] = IF i = 0 THEN f[l] ELSE Push(g[i - 1], t[i])
    BY <1>3, <1>4 DEF FedBy
  <2> SUFFICES ASSUME NEW i \in 0..(l + m)
               PROVE  j[i] = IF i = 0 THEN p ELSE Push(j[i - 1], (s \o t)[i])
    OBVIOUS
  <2>2. CASE i <= l
    <3>1. i \in 0..l /\ (i # 0 => i - 1 \in 0..(l + m) /\ i - 1 <= l /\ (s \o t)[i] = s[i])
      BY <1>1, <1>2, <2>2
    <3>2. j[i] = f[i] /\ (i # 0 => j[i - 1] = f[i - 1])
      BY <2>2, <3>1
    <3>3. QED  BY <2>1, <3>1, <3>2
  <2>3. CASE i > l
    <3>1. /\ i # 0 /\ i - l \in 0..m /\ i - l # 0 /\ i - 1 \in 0..(l + m)
          /\ (s \o t)[i] = t[i - l]
      BY <1>1, <1>2, <2>3
    <3>2. j[i] = Push(g[i - l - 1], t[i - l])
      BY <1>1, <2>1, <2>3, <3>1
    <3>3. j[i - 1] = g[i - l - 1]
      <4>1. CASE i - 1 = l
        <5>1. j[i - 1] = f[l] /\ i - l - 1 = 0 /\ 0 \in 0..m
          BY <1>1, <3>1, <4>1
        <5>2. QED  BY <2>1, <5>1
      <4>2. CASE i - 1 > l
        <5>1. i - 1 - l = i - l - 1
          BY <1>1
        <5>2. QED  BY <1>1, <3>1, <4>2, <5>1
      <4>3. QED  BY <1>1, <2>3, <4>1, <4>2
    <3>4. QED  BY <3>1, <3>2, <3>3
  <2>4. QED  BY <1>1, <2>2, <2>3
<1>7. FedBy(j, p, s \o t, l + m)
  BY <1>6 DEF FedBy
<1>8. j[l + m] = g[m]
  <2>1. CASE m = 0
    <3>1. j[l + m] = f[l]
      BY <1>1, <2>1
    <3>2. g[m] = f[l]
      BY <1>4, <2>1 DEF FedBy
    <3>3. QED  BY <3>1, <3>2
  <2>2. CASE m # 0
    <3>1. l + m \in 0..(l + m) /\ ~(l + m <= l) /\ l + m - l = m
      BY <1>1, <2>2
    <3>2. j[l + m] = g[l + m - l]
      BY <1>1, <2>2
    <3>3. QED  BY <3>1, <3>2
  <2>3. QED  BY <2>1, <2>2
<1> HIDE DEF j
<1>9. j[l + m] = h[l + m]
  <2>1. PICK n \in Nat : n = l + m
    BY <1>1
  <2>2. FedBy(j, p, s \o t, n) /\ FedBy(h, p, s \o t, n) /\ n \in 0..n
    BY <1>5, <1>7, <2>1
  <2>3. j[n] = h[n]
    BY <2>1, <2>2, FedOnce
  <2>4. QED  BY <2>1, <2>3
<1>10. QED  BY <1>3, <1>4, <1>5, <1>8, <1>9

\* core/src/ota/http.rs:1-8: a response is accepted if and only if a good head
\* begins it, and at the token that ends that head, whatever follows it.
THEOREM ParserExact ==
  ASSUME NEW w \in Seq(Token)
  PROVE  LET p == Feed(NewParser, w)
         IN  /\ p.event = "complete" <=> \E k \in 1..Len(w) : IsHead(SubSeq(w, 1, k))
             /\ \A k \in 1..Len(w) : IsHead(SubSeq(w, 1, k)) => k = p.total
<1> DEFINE p == Feed(NewParser, w)
           n == Len(w)
<1>1. n \in Nat /\ \A k \in 1..n : k \in 0..n /\ k \in Nat
  OBVIOUS
<1>2. ParserIs(p, w, n)
  <2>1. CASE n = 0
    <3>1. PICK fed : FedBy(fed, NewParser, w, n) /\ p = fed[n]
      BY <1>1, FeedIs
    <3>2. fed[0] = NewParser
      BY <2>1, <3>1 DEF FedBy
    <3>3. QED  BY <2>1, <3>1, <3>2, NewParserIs
  <2>2. CASE n # 0
    <3>1. ParserIs(NewParser, w, 0) /\ NewParser.event = "more"
      BY NewParserIs DEF NewParser
    <3>2. ParserIs(Feed(NewParser, SubSeq(w, 0 + 1, 0 + n)), w, 0 + n)
      <4>1. n \in Nat \ {0} /\ 0 \in Nat /\ 0 + n <= Len(w)
        BY <1>1, <2>2
      <4> HIDE DEF n
      <4>2. QED  BY <3>1, <4>1, FeedReads
    <3>3. SubSeq(w, 0 + 1, 0 + n) = w /\ 0 + n = n
      OBVIOUS
    <3>4. QED  BY <3>2, <3>3
  <2>3. QED  BY <2>1, <2>2
<1>3. \A k \in 1..n : IsHead(SubSeq(w, 1, k)) <=> GoodHead(w, k)
  BY <1>1, HeadByPosition
<1> HIDE DEF p
<1>4. CASE p.event = "complete"
  <2>1. p.total \in 1..n /\ GoodHead(w, p.total)
    BY <1>2, <1>4 DEF ParserIs
  <2>2. ASSUME NEW k \in 1..n, GoodHead(w, k) PROVE k = p.total
    <3>1. /\ k \in 2..MaxHead /\ Blank(w, k) /\ \A i \in 2..(k - 1) : ~Blank(w, i)
          /\ p.total \in 2..MaxHead /\ Blank(w, p.total)
          /\ \A i \in 2..(p.total - 1) : ~Blank(w, i)
      BY <2>1, <2>2 DEF GoodHead
    <3>2. ~(k < p.total) /\ ~(p.total < k)
      BY <3>1, HeadAssumption
    <3>3. QED  BY <3>1, <3>2, HeadAssumption
  <2>3. QED  BY <1>3, <1>4, <2>1, <2>2 DEF p
<1>5. CASE p.event = "more"
  <2>1. \A k \in 1..n : ~GoodHead(w, k)
    BY <1>1, <1>2, <1>5, NotYet
  <2>2. QED  BY <1>3, <1>5, <2>1 DEF p
<1>6. CASE p.event \notin {"more", "complete"}
  <2>1. p.total \in 1..n /\ NoHead(w, p.total)
    BY <1>2, <1>6 DEF ParserIs
  <2>2. \A k \in 1..n : ~GoodHead(w, k)
    BY <1>1, <2>1 DEF NoHead
  <2>3. QED  BY <1>3, <1>6, <2>2 DEF p
<1>7. QED  BY <1>4, <1>5, <1>6

=============================================================================
