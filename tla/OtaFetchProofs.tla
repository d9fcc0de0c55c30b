--------------------------- MODULE OtaFetchProofs ---------------------------
(***************************************************************************)
(* Proofs about an update check, for every limit, slot, set of versions    *)
(* from 1 to 99 and number of runs of the script: what one GET delivers,   *)
(* and what the three of them together make of files that change under     *)
(* them.                                                                   *)
(***************************************************************************)
EXTENDS DeployProofs, HttpHeadProofs, FiniteSetTheorems

(***************************************************************************)
(* The inductive invariant.                                                *)
(***************************************************************************)
\* The files of the server.  A digest file holds the digest of a run with its
\* version, whole or without the end of its line: only that much of another
\* digest can be left of it.
HoldsDigest(v, content) ==
  content = <<>> \/ \E b \in 1..Build : builds[b] = v /\ content \in {HexOf[b], ShaOf[b]}

FilesInv ==
  /\ builds \in Seq(Versions) /\ Build \in 2..MaxBuilds
  /\ script \in {"idle", "bin", "binRest", "sha", "shaRest", "version", "versionRest", "prune", "trigger"}
  /\ version = <<>> \/ \E v \in Versions : version = TextOf[v]
  /\ DOMAIN bin \subseteq Versions /\ \A v \in DOMAIN bin : bin[v] \in Seq(Token)
  /\ DOMAIN sha \subseteq Versions /\ \A v \in DOMAIN sha : HoldsDigest(v, sha[v])

\* The connection: what was read of the response is what the parser, the
\* leftover and the caller have of it.
ReadSoFar ==
  /\ resp \in Seq(Token) /\ at \in 0..Len(resp)
  /\ leftover \in Seq(Token) /\ got \in Seq(Token)
  /\ ParserIs(parser, resp, at)

HeadInv ==
  step = "head" =>
    /\ got = <<>>
    /\ parser.event = "more" => leftover = <<>>
    /\ parser.event = "complete" => leftover = SubSeq(resp, parser.total + 1, at)

BodyInv ==
  step = "body" =>
    /\ parser.event = "complete" /\ Status = 200
    /\ got \o leftover = SubSeq(resp, parser.total + 1, at)
    /\ stage # "mark" => Len(got) <= Wanted
    /\ stage = "mark" => Len(got) = Length
    /\ stage = "bin" => Length <= SlotSize
    /\ stage \in {"version", "sha"} => AsUsize(Length) <= TextMax

GetInv ==
  /\ stage \in {"wait", "version", "sha", "bin", "mark"} /\ step \in {"open", "head", "body"}
  /\ stage = "wait" => step = "open"
  /\ stage = "mark" => step = "body"
  /\ step = "open" => Closed
  /\ ReadSoFar /\ HeadInv /\ BodyInv

\* What a response may hold: the text of a version that was published since
\* the check started, or digits of the digest of one run of the version that
\* is being fetched.
Lacks(r, kind) == \A i \in 1..Len(r) : r[i][1] # kind

Carries(r, text) ==
  /\ Len(r) <= Len(Serves(text))
  /\ \A i \in 1..Len(r) : r[i] = Serves(text)[i]

HexFrom(r, b) == \A i \in 1..Len(r) : r[i][1] = "hex" => r[i] = <<"hex", b>>

AnswerInv ==
  /\ stage = "version" =>
       Lacks(resp, "digit") \/ \E v \in seen \ {0} : Carries(resp, TextOf[v])
  /\ stage = "sha" =>
       Lacks(resp, "hex") \/ \E b \in 1..Build : builds[b] = remote /\ HexFrom(resp, b)

\* What the check goes after.
ChosenInv ==
  /\ running \in 1..Build /\ {trigger, calm, short} \subseteq BOOLEAN
  /\ remote \in 0..99 /\ seen \subseteq Versions \union {0}
  /\ Len(expected) \in {0, HexLen}
  /\ stage \in {"wait", "version"} => remote = 0 /\ ~short
  /\ stage = "version" => Published \in seen
  /\ stage \in {"bin", "mark"} => \E b \in 1..Build : builds[b] = remote /\ expected = HexOf[b]
  /\ AsksForPublished /\ WholeRelease

FetchInv == FilesInv /\ GetInv /\ AnswerInv /\ ChosenInv

-----------------------------------------------------------------------------
(***************************************************************************)
(* Sequences of tokens.                                                    *)
(***************************************************************************)
LEMMA TimesIs ==
  ASSUME NEW t \in Token, NEW n \in Nat
  PROVE  /\ Times(t, n) \in Seq(Token) /\ Len(Times(t, n)) = n
         /\ \A i \in 1..n : Times(t, n)[i] = t
  BY DEF Times

\* What the files are made of.
LEMMA LineEndToken == Nl \in Token
  BY DEF Nl, Token, Kinds

LEMMA BuildTokens ==
  ASSUME NEW b \in 1..MaxBuilds
  PROVE  <<"block", b>> \in Token /\ <<"hex", b>> \in Token
<1>1. b \in Nat
  BY DeployAssumption
<1>2. QED  BY <1>1 DEF Token, Kinds

LEMMA ImageIs ==
  ASSUME NEW b \in 1..MaxBuilds
  PROVE  ImageOf[b] \in Seq(Token) /\ Len(ImageOf[b]) = NumBlocks
<1> DEFINE t == <<"block", b>>
<1>1. ImageOf[b] = Times(t, NumBlocks)
  BY DEF ImageOf
<1>2. t \in Token /\ NumBlocks \in Nat
  BY BuildTokens, DeployAssumption
<1> HIDE DEF t
<1>3. QED  BY <1>1, <1>2, TimesIs

\* A digest, with the end of its line and without.
LEMMA HexIs ==
  ASSUME NEW b \in 1..MaxBuilds
  PROVE  /\ HexOf[b] \in Seq(Token) /\ Len(HexOf[b]) = HexLen
         /\ \A i \in 1..HexLen : HexOf[b][i] = <<"hex", b>>
<1> DEFINE t == <<"hex", b>>
<1>1. HexOf[b] = Times(t, HexLen)
  BY DEF HexOf
<1>2. t \in Token /\ HexLen \in Nat
  BY BuildTokens, DeployAssumption
<1> HIDE DEF t
<1>3. /\ Times(t, HexLen) \in Seq(Token) /\ Len(Times(t, HexLen)) = HexLen
      /\ \A i \in 1..HexLen : Times(t, HexLen)[i] = t
  BY <1>2, TimesIs
<1>4. QED  BY <1>1, <1>3 DEF t

LEMMA ShaIs ==
  ASSUME NEW b \in 1..MaxBuilds
  PROVE  /\ ShaOf[b] \in Seq(Token) /\ Len(ShaOf[b]) = HexLen + 1
         /\ \A i \in 1..HexLen : ShaOf[b][i] = <<"hex", b>>
         /\ ShaOf[b][HexLen + 1] = Nl
<1> DEFINE h == HexOf[b]
           e == <<Nl>>
<1>1. ShaOf[b] = h \o e
  BY DEF ShaOf
<1>2. /\ h \in Seq(Token) /\ Len(h) = HexLen /\ \A i \in 1..HexLen : h[i] = <<"hex", b>>
  BY HexIs
<1>3. e \in Seq(Token) /\ Len(e) = 1 /\ e[1] = Nl
  BY LineEndToken
<1> HIDE DEF h, e
<1>4. /\ h \o e \in Seq(Token) /\ Len(h \o e) = Len(h) + Len(e)
      /\ \A i \in 1..(Len(h) + Len(e)) :
           (h \o e)[i] = IF i <= Len(h) THEN h[i] ELSE e[i - Len(h)]
  BY <1>2, <1>3, ConcatProperties
<1>5. /\ \A i \in 1..HexLen : (h \o e)[i] = h[i]
      /\ (h \o e)[HexLen + 1] = e[1]
  BY <1>2, <1>3, <1>4, DeployAssumption
<1>6. QED  BY <1>1, <1>2, <1>3, <1>4, <1>5

\* Digests of different runs differ.
LEMMA HexDiffers ==
  ASSUME NEW a \in 1..MaxBuilds, NEW b \in 1..MaxBuilds, HexOf[a] = HexOf[b]
  PROVE  a = b
<1>1. 1 \in 1..HexLen
  BY DeployAssumption
<1>2. <<"hex", a>> = <<"hex", b>>
  BY <1>1, HexIs
<1>3. QED  BY <1>2

LEMMA TextTokens ==
  ASSUME NEW v \in Versions
  PROVE  TextOf[v] \in Seq(Token)
<1> DEFINE d == [i \in DOMAIN Digits(v) |-> <<"digit", Digits(v)[i]>>]
           e == <<Nl>>
<1>1. v \in 1..99
  BY DeployAssumption
<1>2. TextOf[v] = d \o e
  BY DEF TextOf
<1>3. Digits(v) \in Seq(Nat)
  BY <1>1 DEF Digits
<1>4. d \in Seq(Token)
  BY <1>3 DEF Token, Kinds
<1>5. e \in Seq(Token)
  BY LineEndToken
<1> HIDE DEF d, e
<1>6. QED  BY <1>2, <1>4, <1>5, ConcatProperties

\* What is left in a digest file that is written over: the new digest.
LEMMA DigestOverwritten ==
  ASSUME NEW b \in 1..MaxBuilds, NEW old,
         old = <<>> \/ \E a \in 1..MaxBuilds : old \in {HexOf[a], ShaOf[a]},
         NEW c \in Partial(old, ShaOf[b])
  PROVE  c \in {<<>>, HexOf[b], ShaOf[b]}
<1> DEFINE new == ShaOf[b]
           front == SubSeq(new, 1, HexLen)
           rest == SubSeq(old, HexLen + 1, Len(old))
<1>1. /\ new \in Seq(Token) /\ Len(new) = HexLen + 1
      /\ \A i \in 1..HexLen : new[i] = <<"hex", b>>
      /\ new[HexLen + 1] = Nl
  BY ShaIs
<1>2. c = <<>> \/ c = front \o rest
  <2>1. Len(new) - 1 = HexLen
    BY <1>1, DeployAssumption
  <2> HIDE DEF new
  <2>2. c = <<>> \/ c = SubSeq(new, 1, Len(new) - 1) \o SubSeq(old, Len(new), Len(old))
    BY DEF Partial, new
  <2>3. QED  BY <1>1, <2>1, <2>2
<1> HIDE DEF new
<1>3. front = HexOf[b]
  <2>1. 1 \in Nat \ {0} /\ HexLen \in 0..Len(new) /\ HexLen - 1 + 1 = HexLen
    BY <1>1, DeployAssumption
  <2>2. /\ front \in Seq(Token) /\ Len(front) = IF 1 <= HexLen THEN HexLen - 1 + 1 ELSE 0
        /\ \A i \in 1..(HexLen - 1 + 1) : front[i] = new[1 + i - 1]
    BY <1>1, <2>1, PartIs
  <2> HIDE DEF front
  <2>3. Len(front) = HexLen /\ \A i \in 1..HexLen : front[i] = <<"hex", b>>
    BY <1>1, <2>2, DeployAssumption
  <2> DEFINE hex == HexOf[b]
  <2>4. hex \in Seq(Token) /\ Len(hex) = HexLen /\ \A i \in 1..HexLen : hex[i] = <<"hex", b>>
    BY HexIs
  <2> HIDE DEF hex
  <2>5. front = hex
    BY <2>2, <2>3, <2>4, SeqEqual
  <2>6. QED  BY <2>5 DEF hex
<1>4. rest \in {<<>>, <<Nl>>}
  <2>1. CASE old = <<>>
    <3>1. Len(old) = 0 /\ 0 < HexLen + 1
      BY <2>1, DeployAssumption
    <3>2. QED  BY <3>1, SubSeqEmpty, DeployAssumption
  <2>2. ASSUME NEW a \in 1..MaxBuilds, old = HexOf[a]
        PROVE  rest = <<>>
    <3>1. Len(old) = HexLen /\ HexLen < HexLen + 1
      BY <2>2, HexIs, DeployAssumption
    <3>2. QED  BY <3>1, SubSeqEmpty, DeployAssumption
  <2>3. ASSUME NEW a \in 1..MaxBuilds, old = ShaOf[a]
        PROVE  rest = <<Nl>>
    <3>1. old \in Seq(Token) /\ Len(old) = HexLen + 1 /\ old[HexLen + 1] = Nl
      BY <2>3, ShaIs
    <3>2. HexLen + 1 \in Nat \ {0} /\ HexLen + 1 \in 0..Len(old)
          /\ HexLen + 1 - (HexLen + 1) + 1 = 1
      BY <3>1, DeployAssumption
    <3>3. /\ rest \in Seq(Token)
          /\ Len(rest) = IF HexLen + 1 <= HexLen + 1 THEN HexLen + 1 - (HexLen + 1) + 1 ELSE 0
          /\ \A i \in 1..(HexLen + 1 - (HexLen + 1) + 1) : rest[i] = old[HexLen + 1 + i - 1]
      BY <3>1, <3>2, PartIs
    <3> HIDE DEF rest
    <3>4. Len(rest) = 1 /\ rest[1] = Nl
      BY <3>1, <3>2, <3>3, DeployAssumption
    <3>5. <<Nl>> \in Seq(Token) /\ Len(<<Nl>>) = 1
      BY LineEndToken
    <3>6. QED  BY <3>3, <3>4, <3>5, SeqEqual
  <2>4. QED  BY <2>1, <2>2, <2>3
<1> HIDE DEF front, rest
<1>5. front \o <<>> = HexOf[b] /\ front \o <<Nl>> = ShaOf[b]
  <2>1. front \o <<>> = front
    BY <1>3, HexIs, ConcatEmptySeq
  <2>2. QED  BY <1>3, <2>1 DEF ShaOf
<1>6. QED  BY <1>2, <1>4, <1>5

-----------------------------------------------------------------------------
(***************************************************************************)
(* The files.                                                              *)
(***************************************************************************)
LEMMA FilesInit ==
  ASSUME DeployInit
  PROVE  FilesInv
<1>1. PICK v \in Versions, w \in Versions :
        /\ v < w /\ builds = <<v, w>>
        /\ bin = [f \in {v, w} |-> IF f = v THEN ImageOf[1] ELSE ImageOf[2]]
        /\ sha = [f \in {v, w} |-> IF f = v THEN ShaOf[1] ELSE ShaOf[2]]
        /\ version = TextOf[v] \/ version = TextOf[w]
  BY DEF DeployInit
<1>2. 1 \in 1..MaxBuilds /\ 2 \in 1..MaxBuilds /\ 2 \in 2..MaxBuilds
  BY DeployAssumption
<1>3. /\ builds \in Seq(Versions) /\ Build = 2 /\ builds[1] = v /\ builds[2] = w
  BY <1>1 DEF Build
<1>4. ImageOf[1] \in Seq(Token) /\ ImageOf[2] \in Seq(Token)
  BY <1>2, ImageIs
<1>5. DOMAIN bin \subseteq Versions /\ \A f \in DOMAIN bin : bin[f] \in Seq(Token)
  BY <1>1, <1>4
<1>6. DOMAIN sha \subseteq Versions /\ \A f \in DOMAIN sha : HoldsDigest(f, sha[f])
  BY <1>1, <1>3 DEF HoldsDigest
<1>7. script = "idle"
  BY DEF DeployInit
<1>8. QED  BY <1>1, <1>2, <1>3, <1>5, <1>6, <1>7 DEF FilesInv

\* A copy of the image leaves a sequence of tokens.
LEMMA ImageCopied ==
  ASSUME FilesInv, CopyBin
  PROVE  FilesInv'
<1>1. /\ UNCHANGED <<builds, sha, version>> /\ script' \in {"binRest", "sha"}
      /\ Build' = Build
  BY CommandOrder DEF CopyBin, Build
<1>2. /\ Build \in 1..MaxBuilds /\ Version \in Versions
  BY DeployAssumption DEF FilesInv, Build, Version
<1> DEFINE new == ImageOf[Build]
           old == Contents(bin, Version)
<1>3. new \in Seq(Token) /\ Len(new) \in Nat \ {0}
  BY <1>2, ImageIs, DeployAssumption
<1>4. old \in Seq(Token)
  BY EmptySeq DEF Contents, FilesInv
<1> HIDE DEF new, old
<1>5. \A c \in Partial(old, new) : c \in Seq(Token)
  <2> DEFINE front == SubSeq(new, 1, Len(new) - 1)
             rest == SubSeq(old, Len(new), Len(old))
  <2>1. <<>> \in Seq(Token)
    BY EmptySeq
  <2>2. front \in Seq(Token)
    <3>1. 1 \in Nat \ {0} /\ Len(new) - 1 \in 0..Len(new)
      BY <1>3
    <3>2. QED  BY <1>3, <3>1, PartIs
  <2>3. rest \in Seq(Token)
    <3>1. Len(old) \in 0..Len(old)
      BY <1>4
    <3>2. QED  BY <1>3, <1>4, <3>1, PartIs
  <2> HIDE DEF front, rest
  <2>4. front \o rest \in Seq(Token)
    BY <2>2, <2>3, ConcatProperties
  <2>5. QED  BY <2>1, <2>4 DEF Partial, front, rest
<1>6. PICK c \in Seq(Token) : bin' = Put(bin, Version, c)
  BY <1>3, <1>5 DEF CopyBin, new, old
<1>7. DOMAIN bin' \subseteq Versions /\ \A v \in DOMAIN bin' : bin'[v] \in Seq(Token)
  BY <1>2, <1>6 DEF Put, FilesInv
<1>8. (\A v \in DOMAIN sha : HoldsDigest(v, sha[v]))'
  BY <1>1 DEF FilesInv, HoldsDigest
<1>9. QED  BY <1>1, <1>7, <1>8 DEF FilesInv

\* A copy of the digest leaves the new one, or nothing.
LEMMA DigestCopied ==
  ASSUME FilesInv, CopySha
  PROVE  FilesInv'
<1>1. /\ UNCHANGED <<builds, bin, version>> /\ script' \in {"shaRest", "version"}
      /\ Build' = Build
  BY CommandOrder DEF CopySha, Build
<1>2. /\ Build \in 1..MaxBuilds /\ 1..Build \subseteq 1..MaxBuilds /\ Build \in 1..Build
      /\ Version \in Versions /\ builds[Build] = Version
  BY DeployAssumption DEF FilesInv, Build, Version
<1> DEFINE old == Contents(sha, Version)
<1>3. old = <<>> \/ \E a \in 1..MaxBuilds : old \in {HexOf[a], ShaOf[a]}
  BY <1>2 DEF Contents, FilesInv, HoldsDigest
<1> HIDE DEF old
<1>4. PICK c \in {<<>>, HexOf[Build], ShaOf[Build]} : sha' = Put(sha, Version, c)
  <2>1. \A c \in Partial(old, ShaOf[Build]) : c \in {<<>>, HexOf[Build], ShaOf[Build]}
    BY <1>2, <1>3, DigestOverwritten
  <2>2. QED  BY <2>1 DEF CopySha, old
<1>5. HoldsDigest(Version, c)
  BY <1>2, <1>4 DEF HoldsDigest
<1>6. DOMAIN sha' \subseteq Versions /\ \A v \in DOMAIN sha' : HoldsDigest(v, sha'[v])
  BY <1>2, <1>4, <1>5 DEF Put, FilesInv
<1>7. (\A v \in DOMAIN sha : HoldsDigest(v, sha[v]))'
  BY <1>1, <1>6 DEF HoldsDigest
<1>8. QED  BY <1>1, <1>6, <1>7 DEF FilesInv

\* Every step keeps the files what they are.
LEMMA FilesStep ==
  ASSUME FilesInv, [Next]_vars
  PROVE  FilesInv'
<1>1. CASE BuildImage
  <2>1. PICK w \in Versions : builds' = Append(builds, w)
    BY <1>1 DEF BuildImage
  <2>2. /\ builds' \in Seq(Versions) /\ Build' = Build + 1
        /\ \A b \in 1..Build : builds'[b] = builds[b]
    BY <2>1 DEF FilesInv, Build
  <2>3. script' = "bin" /\ UNCHANGED <<bin, sha, version>> /\ Build < MaxBuilds
    BY <1>1 DEF BuildImage, Commands, files
  <2>4. Build' \in 2..MaxBuilds
    BY <2>2, <2>3, DeployAssumption DEF FilesInv
  <2>5. (\A v \in DOMAIN sha : HoldsDigest(v, sha[v]))'
    <3>1. 1..Build \subseteq 1..Build'
      BY <2>2 DEF FilesInv
    <3>2. QED  BY <2>2, <2>3, <3>1 DEF FilesInv, HoldsDigest
  <2>6. QED  BY <2>2, <2>3, <2>4, <2>5 DEF FilesInv
<1>2. CASE WriteVersion
  <2>1. UNCHANGED <<builds, bin, sha, Build>> /\ script' \in {"versionRest", "prune"}
    BY <1>2, CommandOrder DEF WriteVersion, Build
  <2>2. Version \in Versions
    BY DEF FilesInv, Build, Version
  <2>3. version' = <<>> \/ \E v \in Versions : version' = TextOf[v]
    BY <1>2, <2>2 DEF WriteVersion
  <2>4. QED  BY <2>1, <2>3 DEF FilesInv, HoldsDigest
<1>3. CASE Prune
  <2>1. UNCHANGED <<builds, version, Build>> /\ script' \in {"prune", "trigger"}
    BY <1>3 DEF Prune, Build
  <2>2. /\ DOMAIN bin' \subseteq DOMAIN bin /\ \A v \in DOMAIN bin' : bin'[v] = bin[v]
        /\ DOMAIN sha' \subseteq DOMAIN sha /\ \A v \in DOMAIN sha' : sha'[v] = sha[v]
    BY <1>3 DEF Prune, Restrict
  <2>3. (\A v \in DOMAIN sha : HoldsDigest(v, sha[v]))'
    BY <2>1, <2>2 DEF FilesInv, HoldsDigest
  <2>4. /\ DOMAIN bin' \subseteq Versions /\ \A v \in DOMAIN bin' : bin'[v] \in Seq(Token)
        /\ DOMAIN sha' \subseteq Versions
    BY <2>2 DEF FilesInv
  <2>5. QED  BY <2>1, <2>3, <2>4 DEF FilesInv
<1>4. CASE Script
  BY <1>1, <1>2, <1>3, <1>4, ImageCopied, DigestCopied DEF Script
<1>5. CASE script' = "idle" /\ UNCHANGED <<builds, files>>
  BY <1>5 DEF files, FilesInv, HoldsDigest, Build
<1>6. CASE UNCHANGED deployVars
  BY <1>6 DEF deployVars, files, FilesInv, HoldsDigest, Build
<1>7. CASE Announce \/ ScriptFails
  BY <1>5, <1>7 DEF Announce, Publish, ScriptFails, Abort
<1>8. CASE Check \/ FetchFails \/ PowerLoss \/ Overtaken \/ ConnectionCut \/ CalmChanges
  BY <1>6, <1>8
  DEF Check, CheckStarts, Request, HeadArrives, HeadOver, HeadCut, BodyArrives,
      GotVersion, NextGet, NoUpdate, GotSha, ShaInvalid, GotImage, ImageRefused, SysReset,
      Boot, BackToWait, FetchFails, PowerLoss, Overtaken, ConnectionCut, CalmChanges
<1>9. QED
  BY <1>4, <1>6, <1>7, <1>8 DEF Next, vars

-----------------------------------------------------------------------------
(***************************************************************************)
(* The connection.                                                         *)
(***************************************************************************)
\* The length of a parser that stays as it is.
LEMMA SameLength ==
  ASSUME parser' = parser, stage' = stage
  PROVE  Length' = Length /\ Status' = Status /\ Wanted' = Wanted
<1>1. Length' = Length
  BY DEF Length
<1>2. QED  BY <1>1 DEF Status, Wanted

\* A complete head with a status that is no 404 has one length.
LEMMA LengthIs ==
  ASSUME ReadSoFar, parser.event = "complete", Status = 200
  PROVE  parser.length = {Length} /\ Length \in Nat /\ Wanted \in Nat
<1>1. parser.length # {}
  <2>1. GoodHead(resp, parser.total) /\ resp[1] = <<"status", 200>>
    BY DEF ReadSoFar, ParserIs, Status
  <2>2. DeclaredIn(resp, parser.total) # {}
    BY <2>1 DEF GoodHead
  <2>3. parser.length = {resp[i][2] : i \in DeclaredIn(resp, parser.total)}
    BY DEF ReadSoFar, ParserIs
  <2>4. QED  BY <2>2, <2>3
<1>2. Length \in parser.length
  BY <1>1 DEF Length
<1>3. parser.length \subseteq Nat /\ \A a, b \in parser.length : a = b
  BY DEF ReadSoFar, ParserIs, Parser
<1>4. Length \in Nat
  BY <1>2, <1>3
<1>5. AsUsize(Length) \in Nat
  BY <1>4, GetAssumption DEF AsUsize
<1>6. QED  BY <1>2, <1>3, <1>4, <1>5 DEF Wanted

\* A connection that is closed.
LEMMA ClosedReads ==
  ASSUME Closed
  PROVE  ReadSoFar
<1>1. resp \in Seq(Token) /\ at \in 0..Len(resp)
  BY EmptySeq DEF Closed
<1>2. leftover \in Seq(Token) /\ got \in Seq(Token)
  BY EmptySeq DEF Closed
<1>3. ParserIs(parser, resp, at)
  BY <1>1, NewParserIs DEF Closed
<1>4. QED  BY <1>1, <1>2, <1>3 DEF ReadSoFar

LEMMA ConnectionInit ==
  ASSUME Init
  PROVE  GetInv
BY ClosedReads DEF Init, GetInv, HeadInv, BodyInv

\* Whatever closes the connection.
LEMMA CloseKeeps ==
  ASSUME Close, step' = "open", stage' \in {"wait", "version", "sha", "bin"}
  PROVE  GetInv'
<1>1. Closed'
  BY DEF Close, Closed
<1>2. ReadSoFar'
  BY <1>1, ClosedReads, PTL
<1>3. QED  BY <1>1, <1>2 DEF GetInv, HeadInv, BodyInv

\* A new answer.
LEMMA SendKeeps ==
  ASSUME NEW answer \in Seq(Token), Send(answer),
         stage \in {"version", "sha", "bin"}, step' = "head", stage' = stage
  PROVE  GetInv'
<1>1. /\ resp' \in Seq(Token) /\ at' \in 0..Len(resp')
      /\ leftover' \in Seq(Token) /\ got' \in Seq(Token)
  BY EmptySeq DEF Send
<1>2. ParserIs(parser', resp', at')
  BY NewParserIs DEF Send
<1>3. HeadInv'
  <2>1. parser'.event = "more"
    BY DEF Send, NewParser
  <2>2. QED  BY <2>1 DEF HeadInv, Send
<1>4. BodyInv'
  BY DEF BodyInv
<1>5. ReadSoFar'
  BY <1>1, <1>2 DEF ReadSoFar
<1>6. QED  BY <1>3, <1>4, <1>5 DEF GetInv

\* Whatever happens to the tokens that were not read yet.
LEMMA RestChanges ==
  ASSUME GetInv, resp' \in Seq(Token), at <= Len(resp'),
         \A i \in 1..at : resp'[i] = resp[i],
         UNCHANGED <<at, parser, leftover, got, stage, step>>, step # "open"
  PROVE  GetInv'
<1>1. resp \in Seq(Token) /\ at \in Nat /\ at <= Len(resp) /\ at \in 0..Len(resp')
  BY DEF GetInv, ReadSoFar
<1>2. ParserIs(parser, resp', at)
  BY <1>1, ParserSeesPrefix DEF GetInv, ReadSoFar
<1>3. ReadSoFar'
  BY <1>1, <1>2 DEF GetInv, ReadSoFar
<1>4. parser.event = "complete" =>
        SubSeq(resp', parser.total + 1, at) = SubSeq(resp, parser.total + 1, at)
  <2>1. SUFFICES ASSUME parser.event = "complete"
                 PROVE  SubSeq(resp', parser.total + 1, at) = SubSeq(resp, parser.total + 1, at)
    OBVIOUS
  <2>2. parser.total \in 1..at
    BY <2>1 DEF GetInv, ReadSoFar, ParserIs
  <2> DEFINE m == parser.total + 1
  <2>3. m \in Nat \ {0} /\ at \in 0..Len(resp') /\ at <= Len(resp)
        /\ \A i \in m..at : resp'[i] = resp[i]
    BY <1>1, <2>2
  <2> HIDE DEF m
  <2>4. SubSeq(resp', m, at) = SubSeq(resp, m, at)
    BY <1>1, <2>3, SameParts
  <2>5. QED  BY <2>4 DEF m
<1>5. HeadInv'
  BY <1>4 DEF GetInv, HeadInv
<1>6. BodyInv'
  <2>1. Length' = Length /\ Status' = Status /\ Wanted' = Wanted
    BY SameLength
  <2>2. QED  BY <1>4, <2>1 DEF GetInv, BodyInv
<1>7. QED  BY <1>3, <1>5, <1>6 DEF GetInv

\* One read of the head.
LEMMA HeadKeeps ==
  ASSUME GetInv, HeadArrives
  PROVE  GetInv'
<1>1. /\ step = "head" /\ parser.event = "more" /\ stage' = stage /\ step' = "head"
      /\ got = <<>> /\ got' = <<>> /\ resp' = resp
  BY DEF HeadArrives, ReadHead, device, check, GetInv, HeadInv
<1>2. /\ resp \in Seq(Token) /\ at \in Nat /\ at <= Len(resp) /\ ParserIs(parser, resp, at)
  BY DEF GetInv, ReadSoFar
<1>3. PICK n \in 1..AtMost(ReadChunk, Unread) :
        LET chunk == Piece(n)
            p == Feed(parser, chunk)
        IN  /\ parser' = p
            /\ at' = at + n
            /\ leftover' = IF p.event = "complete" THEN Extra(chunk, p.total) ELSE <<>>
  BY DEF HeadArrives, ReadHead
<1>4. n \in Nat \ {0} /\ at + n <= Len(resp)
  BY <1>2, GetAssumption DEF AtMost, Unread
<1> DEFINE chunk == SubSeq(resp, at + 1, at + n)
<1>5. /\ ParserIs(parser', resp, at + n) /\ parser'.total > at
      /\ leftover' = IF parser'.event = "complete" THEN Extra(chunk, parser'.total) ELSE <<>>
  BY <1>1, <1>2, <1>3, <1>4, FeedReads DEF Piece
<1>6. /\ chunk \in Seq(Token) /\ Len(chunk) = n
      /\ \A i \in 1..n : chunk[i] = resp[at + i]
  <2> DEFINE lo == at + 1
             hi == at + n
  <2>1. lo \in Nat \ {0} /\ hi \in 0..Len(resp)
    BY <1>2, <1>4
  <2>2. lo = at + 1 /\ hi = at + n /\ chunk = SubSeq(resp, lo, hi)
    OBVIOUS
  <2> HIDE DEF chunk, lo, hi
  <2>3. /\ chunk \in Seq(Token)
        /\ Len(chunk) = IF lo <= hi THEN hi - lo + 1 ELSE 0
        /\ \A i \in 1..(hi - lo + 1) : chunk[i] = resp[lo + i - 1]
    BY <1>2, <2>1, <2>2, PartIs
  <2>4. Len(chunk) = n /\ hi - lo + 1 = n
    BY <1>2, <1>4, <2>2, <2>3
  <2>5. ASSUME NEW i \in 1..n PROVE chunk[i] = resp[at + i]
    <3>1. lo + i - 1 = at + i
      BY <1>2, <1>4, <2>2
    <3>2. QED  BY <2>3, <2>4, <3>1
  <2>6. QED  BY <2>3, <2>4, <2>5
<1> HIDE DEF chunk
<1>7. ASSUME parser'.event = "complete"
      PROVE  leftover' = SubSeq(resp, parser'.total + 1, at + n) /\ leftover' \in Seq(Token)
  <2> DEFINE t == parser'.total
             a == SubSeq(chunk, t - at + 1, n)
             b == SubSeq(resp, t + 1, at + n)
  <2>1. t \in Nat /\ t > at /\ t <= at + n
    BY <1>2, <1>4, <1>5, <1>7 DEF ParserIs
  <2>2. leftover' = a
    BY <1>5, <1>6, <1>7 DEF Extra
  <2>3. /\ a \in Seq(Token) /\ Len(a) = IF t - at + 1 <= n THEN n - (t - at + 1) + 1 ELSE 0
        /\ \A i \in 1..(n - (t - at + 1) + 1) : a[i] = chunk[t - at + 1 + i - 1]
    <3>1. t - at + 1 \in Nat \ {0} /\ n \in 0..Len(chunk)
      BY <1>2, <1>4, <1>6, <2>1
    <3> HIDE DEF t
    <3>2. QED  BY <1>6, <3>1, PartIs
  <2>4. /\ b \in Seq(Token) /\ Len(b) = IF t + 1 <= at + n THEN at + n - (t + 1) + 1 ELSE 0
        /\ \A i \in 1..(at + n - (t + 1) + 1) : b[i] = resp[t + 1 + i - 1]
    <3>1. t + 1 \in Nat \ {0} /\ at + n \in 0..Len(resp)
      BY <1>2, <1>4, <2>1
    <3> HIDE DEF t
    <3>2. QED  BY <1>2, <3>1, PartIs
  <2> HIDE DEF a, b, t
  <2>5. Len(a) = Len(b)
    BY <1>2, <1>4, <2>1, <2>3, <2>4
  <2>6. \A i \in 1..Len(a) : a[i] = b[i]
    <3>1. TAKE i \in 1..Len(a)
    <3>2. i \in Nat /\ i <= n - (t - at + 1) + 1 /\ t - at + i \in 1..n /\ t - at + 1 + i - 1 = t - at + i
      BY <1>2, <1>4, <2>1, <2>3
    <3>3. a[i] = chunk[t - at + i]
      BY <1>2, <1>4, <2>1, <2>3, <3>2
    <3>4. chunk[t - at + i] = resp[at + (t - at + i)]
      BY <1>6, <3>2
    <3>7. at + (t - at + i) = t + 1 + i - 1
      BY <1>2, <2>1, <3>2
    <3>5. b[i] = resp[t + 1 + i - 1]
      BY <1>2, <1>4, <2>1, <2>4, <3>2
    <3>6. QED  BY <3>3, <3>4, <3>5, <3>7
  <2>7. a = b
    BY <2>3, <2>4, <2>5, <2>6, SeqEqual
  <2>8. QED  BY <2>2, <2>3, <2>7 DEF b, t
<1>8. leftover' \in Seq(Token)
  BY <1>5, <1>7, EmptySeq
<1>9. ReadSoFar'
  <2>1. at' \in 0..Len(resp')
    BY <1>1, <1>2, <1>3, <1>4
  <2>2. QED  BY <1>1, <1>2, <1>3, <1>5, <1>8, <2>1, EmptySeq DEF ReadSoFar
<1>10. HeadInv'
  BY <1>1, <1>3, <1>5, <1>7 DEF HeadInv
<1>11. BodyInv'
  BY <1>1 DEF BodyInv
<1>12. QED  BY <1>1, <1>9, <1>10, <1>11 DEF GetInv

\* A front that moves from one sequence to the end of another.
LEMMA FrontMoves ==
  ASSUME NEW S, NEW g \in Seq(S), NEW l \in Seq(S), NEW n \in 0..Len(l)
  PROVE  /\ g \o SubSeq(l, 1, n) \in Seq(S) /\ SubSeq(l, n + 1, Len(l)) \in Seq(S)
         /\ (g \o SubSeq(l, 1, n)) \o SubSeq(l, n + 1, Len(l)) = g \o l
         /\ Len(g \o SubSeq(l, 1, n)) = Len(g) + n
<1> DEFINE a == SubSeq(l, 1, n)
           b == SubSeq(l, n + 1, Len(l))
<1>1. a \in Seq(S) /\ Len(a) = n
  <2>1. 1 \in Nat \ {0} /\ n - 1 + 1 = n
    OBVIOUS
  <2>2. a \in Seq(S) /\ Len(a) = IF 1 <= n THEN n - 1 + 1 ELSE 0
    BY <2>1, PartIs
  <2> HIDE DEF a
  <2>3. QED  BY <2>2
<1>2. b \in Seq(S)
  <2>1. n + 1 \in Nat \ {0} /\ Len(l) \in 0..Len(l)
    OBVIOUS
  <2>2. QED  BY <2>1, PartIs
<1>3. a \o b = l
  <2>1. 1 \in 1..(Len(l) + 1) /\ n \in (1 - 1)..Len(l) /\ Len(l) \in n..Len(l)
    OBVIOUS
  <2>2. a \o b = SubSeq(l, 1, Len(l))
    BY <2>1, ConcatAdjacentSubSeq
  <2>3. QED  BY <2>2, SubSeqFull
<1> HIDE DEF a, b
<1>4. (g \o a) \o b = g \o (a \o b)
  <2>1. \A s, t, u \in Seq(S) : (s \o t) \o u = s \o (t \o u)
    BY ConcatAssociative, SMTT(60)
  <2>2. QED  BY <1>1, <1>2, <2>1, Zenon
<1>5. g \o a \in Seq(S) /\ Len(g \o a) = Len(g) + Len(a)
  BY <1>1, ConcatProperties
<1>6. QED  BY <1>1, <1>2, <1>3, <1>4, <1>5 DEF a, b

\* A read of the body leaves the mark alone: there is nothing left to ask for.
LEMMA MarkHasAll ==
  ASSUME GetInv, step = "body", Len(got) < Wanted
  PROVE  stage # "mark"
<1>1. Length \in Nat /\ Len(got) \in Nat
  BY LengthIs DEF GetInv, BodyInv, ReadSoFar
<1>2. AsUsize(Length) \in Nat /\ AsUsize(Length) <= Length
  BY <1>1, GetAssumption DEF AsUsize
<1>3. QED  BY <1>1, <1>2 DEF GetInv, BodyInv, Wanted

\* One read of the body.
LEMMA BodyKeeps ==
  ASSUME GetInv, BodyArrives
  PROVE  GetInv'
<1>1. /\ step = "body" /\ step' = "body" /\ stage' = stage /\ UNCHANGED <<resp, parser>>
      /\ Len(got) < Wanted /\ ReadBody(Wanted - Len(got))
  BY DEF BodyArrives, ReadBody, device, check
<1>2. stage # "mark" /\ Wanted \in Nat
  BY <1>1, MarkHasAll, LengthIs DEF GetInv, BodyInv
<1>3. /\ resp \in Seq(Token) /\ at \in Nat /\ at <= Len(resp) /\ ParserIs(parser, resp, at)
      /\ leftover \in Seq(Token) /\ got \in Seq(Token) /\ Len(got) \in Nat
  BY DEF GetInv, ReadSoFar
<1>4. /\ parser.event = "complete" /\ parser.total \in 1..at
      /\ got \o leftover = SubSeq(resp, parser.total + 1, at)
  BY <1>1, <1>3 DEF GetInv, BodyInv, ParserIs
<1>5. Wanted - Len(got) \in Nat
  BY <1>1, <1>2, <1>3
<1>6. /\ leftover' \in Seq(Token) /\ got' \in Seq(Token) /\ Len(got') <= Wanted
      /\ at' \in at..Len(resp) /\ got' \o leftover' = SubSeq(resp, parser.total + 1, at')
  <2>1. CASE leftover # <<>>
    <3> DEFINE n == AtMost(Wanted - Len(got), Len(leftover))
    <3>1. /\ got' = got \o SubSeq(leftover, 1, n) /\ at' = at
          /\ leftover' = SubSeq(leftover, n + 1, Len(leftover))
      BY <1>1, <2>1 DEF ReadBody
    <3>2. n \in 0..Len(leftover) /\ n <= Wanted - Len(got)
      BY <1>3, <1>5 DEF AtMost
    <3> HIDE DEF n
    <3>3. /\ got \o SubSeq(leftover, 1, n) \in Seq(Token)
          /\ SubSeq(leftover, n + 1, Len(leftover)) \in Seq(Token)
          /\ (got \o SubSeq(leftover, 1, n)) \o SubSeq(leftover, n + 1, Len(leftover)) = got \o leftover
          /\ Len(got \o SubSeq(leftover, 1, n)) = Len(got) + n
      <4>1. \A g, l \in Seq(Token) : \A k \in 0..Len(l) :
              /\ g \o SubSeq(l, 1, k) \in Seq(Token) /\ SubSeq(l, k + 1, Len(l)) \in Seq(Token)
              /\ (g \o SubSeq(l, 1, k)) \o SubSeq(l, k + 1, Len(l)) = g \o l
              /\ Len(g \o SubSeq(l, 1, k)) = Len(g) + k
        BY FrontMoves, Zenon
      <4>2. QED  BY <1>3, <3>2, <4>1, Zenon
    <3>4. /\ got' \in Seq(Token) /\ leftover' \in Seq(Token)
          /\ got' \o leftover' = got \o leftover /\ Len(got') = Len(got) + n
      BY <3>1, <3>3, Zenon
    <3>5. Len(got') <= Wanted /\ at' \in at..Len(resp)
      BY <1>2, <1>3, <3>1, <3>2, <3>4
    <3>6. QED  BY <1>4, <3>1, <3>4, <3>5, Zenon
  <2>2. CASE leftover = <<>>
    <3>1. PICK n \in 1..AtMost(Wanted - Len(got), Unread) :
            got' = got \o Piece(n) /\ at' = at + n /\ leftover' = leftover
      BY <1>1, <2>2 DEF ReadBody
    <3>2. n \in Nat \ {0} /\ n <= Wanted - Len(got) /\ at + n <= Len(resp)
      BY <1>3, <1>5 DEF AtMost, Unread
    <3> DEFINE lo == at + 1
               hi == at + n
               m == parser.total + 1
    <3>3. Piece(n) = SubSeq(resp, lo, hi)
      BY DEF Piece
    <3>4. /\ lo = at + 1 /\ hi = at + n /\ m = parser.total + 1
          /\ lo \in Nat \ {0} /\ hi \in 0..Len(resp) /\ m \in 1..(Len(resp) + 1)
          /\ at \in (m - 1)..Len(resp) /\ hi \in at..Len(resp)
      BY <1>3, <1>4, <3>2
    <3> HIDE DEF lo, hi, m
    <3>5. /\ Piece(n) \in Seq(Token) /\ Len(Piece(n)) = IF lo <= hi THEN hi - lo + 1 ELSE 0
      BY <1>3, <3>3, <3>4, PartIs
    <3>6. Len(Piece(n)) = n
      BY <1>3, <3>2, <3>4, <3>5
    <3>7. got = SubSeq(resp, m, at)
      BY <1>3, <1>4, <2>2, <3>4, ConcatEmptySeq
    <3>8. SubSeq(resp, m, at) \o SubSeq(resp, at + 1, hi) = SubSeq(resp, m, hi)
      BY <1>3, <3>4, ConcatAdjacentSubSeq
    <3>9. got' = SubSeq(resp, m, hi)
      BY <3>1, <3>3, <3>4, <3>7, <3>8
    <3>10. got' \in Seq(Token) /\ Len(got') = Len(got) + n
      <4> DEFINE piece == Piece(n)
      <4>1. piece \in Seq(Token) /\ Len(piece) = n /\ got' = got \o piece
        BY <3>1, <3>5, <3>6
      <4> HIDE DEF piece
      <4>2. got \o piece \in Seq(Token) /\ Len(got \o piece) = Len(got) + Len(piece)
        BY <1>3, <4>1, ConcatProperties
      <4>3. QED  BY <4>1, <4>2
    <3>11. got' \o leftover' = got'
      BY <2>2, <3>1, <3>10, ConcatEmptySeq
    <3>12. got' \o leftover' = SubSeq(resp, parser.total + 1, at')
      BY <3>1, <3>4, <3>9, <3>11
    <3>13. Len(got') <= Wanted /\ at' \in at..Len(resp)
      BY <1>2, <1>3, <3>1, <3>2, <3>10
    <3>14. QED  BY <1>3, <3>1, <3>10, <3>12, <3>13
  <2>3. QED  BY <2>1, <2>2
<1>7. ParserIs(parser, resp, at')
  <2>1. parser.total \in 1..at'
    BY <1>3, <1>4, <1>6
  <2>2. QED  BY <1>3, <1>4, <2>1 DEF ParserIs
<1>8. at' \in 0..Len(resp')
  BY <1>1, <1>3, <1>6
<1>9. ReadSoFar'
  BY <1>1, <1>3, <1>6, <1>7, <1>8 DEF ReadSoFar
<1>10. Length' = Length /\ Status' = Status /\ Wanted' = Wanted
  BY <1>1, SameLength
<1>11. BodyInv'
  BY <1>1, <1>2, <1>4, <1>6, <1>10 DEF GetInv, BodyInv
<1>12. HeadInv'
  BY <1>1 DEF HeadInv
<1>13. QED  BY <1>1, <1>2, <1>9, <1>11, <1>12 DEF GetInv

\* The body is read if the head is good and short enough.
LEMMA HeadOverKeeps ==
  ASSUME GetInv, HeadOver
  PROVE  GetInv'
<1>1. CASE BackToWait
  BY <1>1, CloseKeeps DEF BackToWait
<1>2. CASE ~BackToWait
  <2>1. /\ step = "head" /\ parser.event = "complete" /\ Status = 200
        /\ stage = "bin" => FitsSlot(Length)
        /\ stage \in {"version", "sha"} => FitsText(Length)
        /\ step' = "body" /\ UNCHANGED <<resp, at, parser, leftover, got, stage>>
    BY <1>2 DEF HeadOver, getVars
  <2>2. Length' = Length /\ Status' = Status /\ Wanted' = Wanted
    BY <2>1, SameLength
  <2>3. Wanted \in Nat /\ ReadSoFar /\ leftover \in Seq(Token)
    BY <2>1, LengthIs DEF GetInv, ReadSoFar
  <2>4. got = <<>> /\ got \o leftover = SubSeq(resp, parser.total + 1, at)
    BY <2>1, <2>3, ConcatEmptySeq DEF GetInv, HeadInv
  <2>5. Len(got) <= Wanted
    BY <2>3, <2>4
  <2>6. BodyInv'
    BY <2>1, <2>2, <2>4, <2>5 DEF BodyInv, FitsSlot, FitsText, GetInv
  <2>7. QED  BY <2>1, <2>3, <2>6 DEF GetInv, HeadInv, ReadSoFar
<1>3. QED  BY <1>1, <1>2

-----------------------------------------------------------------------------
(***************************************************************************)
(* The answers.                                                            *)
(***************************************************************************)
\* Tokens that are no part of a file's text.
Plain == (Kinds \ {"digit", "hex"}) \X Nat

LEMMA PlainIs ==
  ASSUME NEW r \in Seq(Plain)
  PROVE  r \in Seq(Token) /\ Lacks(r, "digit") /\ Lacks(r, "hex")
<1>1. Plain \subseteq Token
  BY DEF Plain, Token
<1>2. r \in Seq(Token)
  BY <1>1, SeqMonotonic
<1>3. \A i \in 1..Len(r) : r[i] \in Plain
  BY ElementOfSeq
<1>4. \A t \in Plain : t[1] # "digit" /\ t[1] # "hex"
  BY DEF Plain
<1>5. QED  BY <1>2, <1>3, <1>4 DEF Lacks

LEMMA LinesArePlain ==
  ASSUME NEW lines \in Seq(Plain)
  PROVE  HeadLines(lines) \in Seq(Plain)
<1> DEFINE n == 2 * Len(lines) + 1
           e(i) == IF i % 2 = 1 /\ i < 2 * Len(lines) THEN lines[(i + 1) \div 2] ELSE Eol
<1>1. n \in Nat
  OBVIOUS
<1>2. ASSUME NEW i \in 1..n PROVE e(i) \in Plain
  <2>1. CASE i % 2 = 1 /\ i < 2 * Len(lines)
    <3>1. (i + 1) \div 2 \in 1..Len(lines)
      BY <2>1
    <3>2. QED  BY <2>1, <3>1, ElementOfSeq
  <2>2. CASE ~(i % 2 = 1 /\ i < 2 * Len(lines))
    <3>1. Eol \in Plain
      BY DEF Eol, Plain, Kinds
    <3>2. QED  BY <2>2, <3>1
  <2>3. QED  BY <2>1, <2>2
<1>3. [i \in 1..n |-> e(i)] \in Seq(Plain)
  BY <1>1, <1>2
<1>4. QED  BY <1>3 DEF HeadLines

\* A header line with its number.
LEMMA PlainToken ==
  ASSUME NEW n \in Nat, NEW k \in {"status", "length", "chunked", "field", "junk", "nl"}
  PROVE  <<k, n>> \in Plain
BY DEF Plain, Kinds

\* An answer with a file behind its head.
LEMMA ServesIs ==
  ASSUME NEW c \in Seq(Token)
  PROVE  LET r == Serves(c)
         IN  /\ r \in Seq(Token) /\ Len(r) = 5 + Len(c)
             /\ r[1] = Ok /\ r[2] = Eol /\ r[3] = LengthOf(Len(c)) /\ r[4] = Eol /\ r[5] = Eol
             /\ \A j \in 1..Len(c) : r[5 + j] = c[j]
             /\ \A i \in 1..5 : r[i] \in Plain
<1> DEFINE n == Len(c)
           lines == <<Ok, LengthOf(n)>>
           head == HeadLines(lines)
<1>1. n = Len(c) /\ n \in Nat
  OBVIOUS
<1> HIDE DEF n
<1>2. Ok \in Plain /\ LengthOf(n) \in Plain
  BY <1>1 DEF Ok, LengthOf, Plain, Kinds
<1>3. lines \in Seq(Plain) /\ Len(lines) = 2 /\ lines[1] = Ok /\ lines[2] = LengthOf(n)
  BY <1>2
<1> HIDE DEF lines
<1>4. /\ Len(head) = 5 /\ head[1] = Ok /\ head[2] = Eol /\ head[3] = LengthOf(n)
      /\ head[4] = Eol /\ head[5] = Eol
  BY <1>3 DEF HeadLines
<1>5. head \in Seq(Plain) /\ head \in Seq(Token)
  BY <1>3, LinesArePlain, PlainIs
<1> HIDE DEF head
<1>6. /\ head \o c \in Seq(Token) /\ Len(head \o c) = 5 + n
      /\ \A i \in 1..(5 + n) : (head \o c)[i] = IF i <= 5 THEN head[i] ELSE c[i - 5]
  <2>1. /\ head \o c \in Seq(Token) /\ Len(head \o c) = Len(head) + Len(c)
        /\ \A i \in 1..(Len(head) + Len(c)) :
             (head \o c)[i] = IF i <= Len(head) THEN head[i] ELSE c[i - Len(head)]
    BY <1>5, ConcatProperties
  <2>2. QED  BY <1>1, <1>4, <2>1
<1>7. \A i \in 1..5 : (head \o c)[i] = head[i] /\ head[i] \in Plain
  BY <1>1, <1>4, <1>5, <1>6, ElementOfSeq
<1>8. \A j \in 1..n : (head \o c)[5 + j] = c[j]
  BY <1>1, <1>6
<1>9. Serves(c) = head \o c
  BY DEF Serves, head, lines, n
<1>10. QED  BY <1>1, <1>4, <1>6, <1>7, <1>8, <1>9

\* The answers of another shape.
LEMMA OddTextIsPlain ==
  ASSUME NEW r \in OddText
  PROVE  r \in Seq(Plain)
<1> DEFINE many == <<Ok>> \o Times(<<"field", 0>>, MaxHead \div 2)
           l1 == << <<"status", 500>>, LengthOf(2)>>
           l2 == << <<"status", 206>>, LengthOf(2)>>
           l3 == <<Ok, <<"field", 0>> >>
           l4 == <<Ok, LengthOf(2), LengthOf(1)>>
           l5 == <<Ok, <<"chunked", 0>>, LengthOf(2)>>
           l6 == <<Ok, <<"junk", 0>> >>
           l7 == <<Ok, Ok, LengthOf(2)>>
           l8 == <<Ok, LengthOf(UsizeMod + 1)>>
           Lines == {l1, l2, l3, l4, l5, l6, l7, l8, many}
<1>1. /\ <<"status", 500>> \in Plain /\ <<"status", 206>> \in Plain /\ Ok \in Plain
      /\ LengthOf(1) \in Plain /\ LengthOf(2) \in Plain /\ LengthOf(UsizeMod + 1) \in Plain
      /\ <<"field", 0>> \in Plain /\ <<"chunked", 0>> \in Plain /\ <<"junk", 0>> \in Plain
      /\ Nl \in Plain
  BY GetAssumption DEF Ok, LengthOf, Nl, Plain, Kinds
<1>2. many \in Seq(Plain)
  <2> DEFINE ok == <<Ok>>
             t == <<"field", 0>>
             m == MaxHead \div 2
             f == Times(t, m)
  <2>1. ok \in Seq(Plain)
    BY <1>1
  <2>2. f \in Seq(Plain)
    <3>1. m \in Nat
      BY HeadAssumption
    <3>2. t \in Plain
      BY <1>1
    <3> HIDE DEF m, t
    <3>3. QED  BY <3>1, <3>2 DEF Times
  <2>3. many = ok \o f
    OBVIOUS
  <2> HIDE DEF ok, f, many
  <2>4. QED  BY <2>1, <2>2, <2>3, ConcatProperties
<1> HIDE DEF many
<1>3. \A lines \in Lines : lines \in Seq(Plain)
  <2>1. /\ l1 \in Seq(Plain) /\ l2 \in Seq(Plain) /\ l3 \in Seq(Plain)
        /\ l4 \in Seq(Plain) /\ l5 \in Seq(Plain) /\ l6 \in Seq(Plain)
        /\ l7 \in Seq(Plain) /\ l8 \in Seq(Plain)
    BY <1>1
  <2> HIDE DEF l1, l2, l3, l4, l5, l6, l7, l8
  <2>2. QED  BY <1>2, <2>1
<1>4. PICK lines \in Lines : r = HeadLines(lines) \o Times(Nl, TextMax + 1)
  BY DEF OddText, many
<1> HIDE DEF Lines
<1>5. HeadLines(lines) \in Seq(Plain)
  BY <1>3, <1>4, LinesArePlain
<1> DEFINE nls == Times(Nl, TextMax + 1)
<1>6. nls \in Seq(Plain)
  <2>1. Nl \in Plain /\ TextMax + 1 \in Nat
    BY <1>1, FetchAssumption
  <2>2. QED  BY <2>1 DEF Times
<1> HIDE DEF nls
<1>7. HeadLines(lines) \o nls \in Seq(Plain)
  BY <1>5, <1>6, ConcatProperties
<1>8. QED  BY <1>4, <1>7 DEF nls

LEMMA OddImageIs ==
  ASSUME NEW r \in OddImage
  PROVE  r \in Seq(Token)
<1> DEFINE t == <<"block", 1>>
           lines == <<Ok, LengthOf(UsizeMod + 1)>>
           h == HeadLines(lines)
           f == Times(t, SlotSize + 1)
<1>1. r = h \o f
  BY DEF OddImage
<1>2. h \in Seq(Token)
  <2>1. Ok \in Plain /\ LengthOf(UsizeMod + 1) \in Plain
    BY GetAssumption DEF Ok, LengthOf, Plain, Kinds
  <2>2. lines \in Seq(Plain)
    BY <2>1
  <2> HIDE DEF lines
  <2>3. QED  BY <2>2, LinesArePlain, PlainIs
<1>3. f \in Seq(Token)
  <2>1. t \in Token /\ SlotSize + 1 \in Nat
    BY FetchAssumption DEF Token, Kinds
  <2> HIDE DEF t
  <2>2. QED  BY <2>1, TimesIs
<1> HIDE DEF h, f
<1>4. QED  BY <1>1, <1>2, <1>3, ConcatProperties

LEMMA NotFoundIsPlain == NotFound \in Seq(Plain)
<1> DEFINE lines == << <<"status", 404>>, <<"field", 0>> >>
<1>1. <<"status", 404>> \in Plain /\ <<"field", 0>> \in Plain
  BY DEF Plain, Kinds
<1>2. lines \in Seq(Plain)
  BY <1>1
<1> HIDE DEF lines
<1>3. QED  BY <1>2, LinesArePlain DEF NotFound, lines

\* A file that is empty has nothing of either kind.
LEMMA EmptyLacks ==
  ASSUME NEW kind \in {"digit", "hex"}
  PROVE  Lacks(Serves(<<>>), kind)
<1> DEFINE c == <<>>
<1>1. c \in Seq(Token) /\ Len(c) = 0
  BY EmptySeq
<1> HIDE DEF c
<1>2. Len(Serves(c)) = 5 + Len(c) /\ \A i \in 1..5 : Serves(c)[i] \in Plain
  BY <1>1, ServesIs
<1>3. \A t \in Plain : t[1] # kind
  BY DEF Plain
<1>4. QED  BY <1>1, <1>2, <1>3 DEF Lacks, c

\* A digest file tells the digits of one run.
LEMMA DigestHexFrom ==
  ASSUME NEW b \in 1..MaxBuilds, NEW c \in {HexOf[b], ShaOf[b]}
  PROVE  HexFrom(Serves(c), b)
<1>1. /\ c \in Seq(Token) /\ Len(c) \in {HexLen, HexLen + 1}
      /\ \A i \in 1..HexLen : c[i] = <<"hex", b>>
      /\ Len(c) = HexLen + 1 => c[HexLen + 1] = Nl
  <2>1. CASE c = HexOf[b]
    BY <2>1, HexIs, DeployAssumption
  <2>2. CASE c = ShaOf[b]
    BY <2>2, ShaIs, DeployAssumption
  <2>3. QED  BY <2>1, <2>2
<1>2. /\ Len(Serves(c)) = 5 + Len(c) /\ \A i \in 1..5 : Serves(c)[i] \in Plain
      /\ \A j \in 1..Len(c) : Serves(c)[5 + j] = c[j]
  BY <1>1, ServesIs
<1>3. \A t \in Plain : t[1] # "hex"
  BY DEF Plain
<1>4. ASSUME NEW i \in 1..Len(Serves(c)), Serves(c)[i][1] = "hex"
      PROVE  Serves(c)[i] = <<"hex", b>>
  <2>1. i \notin 1..5
    BY <1>2, <1>3, <1>4
  <2>2. i - 5 \in 1..Len(c) /\ 5 + (i - 5) = i
    BY <1>1, <1>2, <2>1, DeployAssumption
  <2>3. Serves(c)[i] = c[i - 5]
    BY <1>2, <2>2
  <2>4. i - 5 \in 1..HexLen \/ c[i - 5] = Nl
    BY <1>1, <2>2, DeployAssumption
  <2>5. Nl[1] # "hex"
    BY DEF Nl
  <2>6. QED  BY <1>1, <1>4, <2>3, <2>4, <2>5
<1>5. QED  BY <1>4 DEF HexFrom

\* The contents the server may answer with.
LEMMA ContentIs ==
  ASSUME FilesInv
  PROVE  /\ Content \subseteq Seq(Token)
         /\ stage = "sha" => \A c \in Content : HoldsDigest(remote, c)
<1>1. version \in Seq(Token)
  BY TextTokens, EmptySeq DEF FilesInv
<1>2. \A v \in DOMAIN bin : bin[v] \in Seq(Token)
  BY DEF FilesInv
<1>3. ASSUME NEW v \in DOMAIN sha PROVE sha[v] \in Seq(Token)
  <2>1. 1..Build \subseteq 1..MaxBuilds
    BY DeployAssumption DEF FilesInv
  <2>2. sha[v] = <<>> \/ \E b \in 1..MaxBuilds : sha[v] \in {HexOf[b], ShaOf[b]}
    BY <2>1 DEF FilesInv, HoldsDigest
  <2>3. QED  BY <2>2, HexIs, ShaIs, EmptySeq
<1>4. CASE stage = "version"
  BY <1>1, <1>4 DEF Content
<1>5. CASE stage = "sha"
  <2>1. Content = {sha[v] : v \in DOMAIN sha \intersect {remote}}
    BY <1>5 DEF Content
  <2>2. \A v \in DOMAIN sha : HoldsDigest(v, sha[v])
    BY DEF FilesInv
  <2>3. QED  BY <1>3, <1>5, <2>1, <2>2
<1>6. CASE stage \notin {"version", "sha"}
  <2>1. Content = {bin[v] : v \in DOMAIN bin \intersect {remote}}
    BY <1>6 DEF Content
  <2>2. QED  BY <1>2, <1>6, <2>1
<1>7. QED  BY <1>4, <1>5, <1>6

\* The version that is published has a text of its own.
LEMMA PublishedText ==
  ASSUME FilesInv
  PROVE  /\ Published \in Versions \union {0} /\ 0 \notin Versions
         /\ version = <<>> \/ (Published # 0 /\ version = TextOf[Published])
<1>1. 0 \notin Versions
  BY DeployAssumption
<1>2. Published \in Versions \union {0}
  BY DEF Published
<1>3. ASSUME version # <<>> PROVE Published # 0 /\ version = TextOf[Published]
  <2>1. PICK v \in Versions : version = TextOf[v]
    BY <1>3 DEF FilesInv
  <2>2. QED  BY <1>1, <2>1, PublishedIs
<1>4. QED  BY <1>1, <1>2, <1>3

\* What a request may be answered with.
LEMMA AnswerIs ==
  ASSUME FilesInv, ChosenInv, NEW r \in Honest \union Odd
  PROVE  /\ r \in Seq(Token)
         /\ stage = "version" =>
              Lacks(r, "digit") \/ \E v \in seen \ {0} : Carries(r, TextOf[v])
         /\ stage = "sha" =>
              Lacks(r, "hex") \/ \E b \in 1..Build : builds[b] = remote /\ HexFrom(r, b)
<1>1. CASE r \in Seq(Plain)
  BY <1>1, PlainIs
<1>2. CASE r \in Odd
  <2>1. stage = "version" => r \in OddText
    BY <1>2 DEF Odd
  <2>2. stage # "sha"
    BY <1>2 DEF Odd
  <2>3. stage \notin {"version", "sha"} => r \in OddImage
    BY <1>2 DEF Odd
  <2>4. QED  BY <1>1, <2>1, <2>2, <2>3, OddTextIsPlain, OddImageIs
<1>3. ASSUME NEW c \in Content, r = Serves(c)
      PROVE  /\ r \in Seq(Token)
             /\ stage = "version" =>
                  Lacks(r, "digit") \/ \E v \in seen \ {0} : Carries(r, TextOf[v])
             /\ stage = "sha" =>
                  Lacks(r, "hex") \/ \E b \in 1..Build : builds[b] = remote /\ HexFrom(r, b)
  <2>1. c \in Seq(Token)
    BY ContentIs
  <2>2. r \in Seq(Token)
    BY <1>3, <2>1, ServesIs
  <2>3. ASSUME stage = "version"
        PROVE  Lacks(r, "digit") \/ \E v \in seen \ {0} : Carries(r, TextOf[v])
    <3>1. c = version
      BY <2>3 DEF Content
    <3>2. CASE version = <<>>
      BY <1>3, <3>1, <3>2, EmptyLacks
    <3>3. CASE Published # 0 /\ version = TextOf[Published]
      <4>1. Published \in seen \ {0}
        BY <2>3, <3>3 DEF ChosenInv
      <4>2. Len(r) \in Nat /\ r = Serves(TextOf[Published])
        BY <1>3, <2>2, <3>1, <3>3
      <4>3. Carries(r, TextOf[Published])
        BY <4>2 DEF Carries
      <4>4. QED  BY <4>1, <4>3
    <3>4. QED  BY <3>2, <3>3, PublishedText
  <2>4. ASSUME stage = "sha"
        PROVE  Lacks(r, "hex") \/ \E b \in 1..Build : builds[b] = remote /\ HexFrom(r, b)
    <3>1. HoldsDigest(remote, c)
      BY <2>4, ContentIs
    <3>2. CASE c = <<>>
      BY <1>3, <3>2, EmptyLacks
    <3>3. ASSUME NEW b \in 1..Build, builds[b] = remote, c \in {HexOf[b], ShaOf[b]}
          PROVE  HexFrom(r, b)
      <4>1. b \in 1..MaxBuilds
        BY DeployAssumption DEF FilesInv
      <4>2. QED  BY <1>3, <3>3, <4>1, DigestHexFrom
    <3>4. QED  BY <3>1, <3>2, <3>3 DEF HoldsDigest
  <2>5. QED  BY <2>2, <2>3, <2>4
<1>4. QED  BY <1>1, <1>2, <1>3, NotFoundIsPlain DEF Honest

LEMMA RequestKeeps ==
  ASSUME FetchInv, Request
  PROVE  GetInv' /\ AnswerInv' /\ ChosenInv'
<1>1. PICK r \in Honest \union Odd : Send(r)
  BY DEF Request
<1>2. /\ stage \in {"version", "sha", "bin"} /\ step' = "head" /\ resp' = r
      /\ UNCHANGED <<deployVars, stage, remote, expected, seen, short, running, trigger, calm>>
  BY <1>1 DEF Request, Send
<1>3. UNCHANGED <<builds, version, Build, Published>>
  BY <1>2 DEF deployVars, files, Build, Published
<1>4. r \in Seq(Token)
  BY AnswerIs DEF FetchInv
<1>5. GetInv'
  BY <1>1, <1>2, <1>4, SendKeeps
<1>6. AnswerInv'
  BY <1>2, <1>3, AnswerIs DEF FetchInv, AnswerInv
<1>7. ChosenInv'
  BY <1>2, <1>3 DEF FetchInv, ChosenInv, AsksForPublished, WholeRelease
<1>8. QED  BY <1>5, <1>6, <1>7

-----------------------------------------------------------------------------
(***************************************************************************)
(* The other steps, by what they do to the check.                          *)
(***************************************************************************)
\* The check is over, or the device restarts.
Returned ==
  /\ stage' = "wait" /\ step' = "open" /\ remote' = 0 /\ expected' = <<>>
  /\ seen' = {} /\ short' = FALSE /\ Close
  /\ running' \in 1..Build /\ trigger' \in BOOLEAN /\ calm' = calm
  /\ UNCHANGED deployVars

LEMMA ReturnedKeeps ==
  ASSUME FetchInv, Returned
  PROVE  GetInv' /\ AnswerInv' /\ ChosenInv'
<1>1. GetInv'
  BY CloseKeeps DEF Returned
<1>2. AnswerInv'
  BY DEF Returned, AnswerInv
<1>3. /\ Build' = Build /\ calm' \in BOOLEAN /\ stage' = "wait" /\ remote' = 0
      /\ expected' = <<>> /\ Len(expected') = 0
  BY EmptySeq DEF Returned, deployVars, Build, FetchInv, ChosenInv
<1>4. ChosenInv'
  <2>1. running' \in 1..Build' /\ seen' \subseteq Versions \union {0} /\ remote' \in 0..99
    BY <1>3 DEF Returned
  <2>2. {trigger', calm', short'} \subseteq BOOLEAN
    <3>1. trigger' \in BOOLEAN /\ calm' \in BOOLEAN /\ short' \in BOOLEAN
      BY <1>3 DEF Returned
    <3>2. QED  BY <3>1
  <2>3. AsksForPublished' /\ WholeRelease' /\ ~short'
    BY <1>3 DEF Returned, AsksForPublished, WholeRelease
  <2>4. QED  BY <1>3, <2>1, <2>2, <2>3 DEF ChosenInv
<1>5. QED  BY <1>1, <1>2, <1>4

LEMMA ReturnsAre ==
  ASSUME FetchInv, HeadCut \/ NoUpdate \/ ShaInvalid \/ ImageRefused \/ SysReset \/ FetchFails
                     \/ PowerLoss \/ (HeadOver /\ BackToWait)
  PROVE  Returned
<1>1. running \in 1..Build /\ trigger \in BOOLEAN
  BY DEF FetchInv, ChosenInv
<1>2. CASE BackToWait
  BY <1>1, <1>2 DEF BackToWait, KeepTrigger, Returned
<1>3. CASE \E b \in 1..Build : Boot(b)
  BY <1>3 DEF Boot, Returned
<1>4. QED
  BY <1>1, <1>2, <1>3
  DEF HeadCut, NoUpdate, ShaInvalid, ImageRefused, SysReset, FetchFails, PowerLoss

\* The server moves on: the connection and what the check is after stay.
Served ==
  /\ UNCHANGED <<getVars, stage, step, remote, expected, short, running>>
  /\ trigger' \in BOOLEAN /\ calm' \in BOOLEAN
  /\ builds \in Seq(Versions) /\ Build' \in Nat /\ Build <= Build'
  /\ \A b \in 1..Build : builds'[b] = builds[b]
  /\ seen' \subseteq Versions \union {0}
  /\ IF stage = "version" THEN seen \union {Published'} \subseteq seen' ELSE seen' = seen

LEMMA ServedKeeps ==
  ASSUME FetchInv, Served
  PROVE  GetInv' /\ AnswerInv' /\ ChosenInv'
<1>1. /\ UNCHANGED <<resp, at, parser, leftover, got, stage, step, remote, expected, short, running>>
      /\ 1..Build \subseteq 1..Build' /\ \A b \in 1..Build : builds'[b] = builds[b]
  BY DEF Served, getVars, Build
<1>2. GetInv'
  <2>1. Length' = Length /\ Status' = Status /\ Wanted' = Wanted
    BY <1>1, SameLength
  <2>2. ReadSoFar'
    BY <1>1 DEF FetchInv, GetInv, ReadSoFar
  <2>3. HeadInv'
    BY <1>1 DEF FetchInv, GetInv, HeadInv
  <2>4. BodyInv'
    BY <1>1, <2>1 DEF FetchInv, GetInv, BodyInv
  <2>5. QED  BY <1>1, <2>2, <2>3, <2>4 DEF FetchInv, GetInv, Closed
<1>3. AnswerInv'
  <2>1. stage = "version" =>
          Lacks(resp, "digit") \/ \E v \in seen' \ {0} : Carries(resp, TextOf[v])
    BY DEF FetchInv, AnswerInv, Served
  <2>2. stage = "sha" =>
          Lacks(resp, "hex") \/ \E b \in 1..Build' : builds'[b] = remote /\ HexFrom(resp, b)
    BY <1>1 DEF FetchInv, AnswerInv
  <2>3. QED  BY <1>1, <2>1, <2>2 DEF AnswerInv
<1>4. ChosenInv'
  <2>1. /\ running' \in 1..Build' /\ {trigger', calm', short'} \subseteq BOOLEAN
        /\ remote' \in 0..99 /\ seen' \subseteq Versions \union {0}
        /\ Len(expected') \in {0, HexLen}
        /\ stage' \in {"wait", "version"} => remote' = 0 /\ ~short'
        /\ stage' = "version" => Published' \in seen'
    BY <1>1 DEF Served, FetchInv, ChosenInv
  <2>2. stage' \in {"bin", "mark"} => \E b \in 1..Build' : builds'[b] = remote' /\ expected' = HexOf[b]
    BY <1>1 DEF FetchInv, ChosenInv
  <2>3. AsksForPublished'
    <3>1. stage # "version" => seen' = seen
      BY DEF Served
    <3>2. QED  BY <1>1, <3>1 DEF FetchInv, ChosenInv, AsksForPublished
  <2>4. WholeRelease'
    BY <1>1 DEF FetchInv, ChosenInv, WholeRelease
  <2>5. QED  BY <2>1, <2>2, <2>3, <2>4 DEF ChosenInv
<1>5. QED  BY <1>2, <1>3, <1>4

LEMMA ServerSteps ==
  ASSUME FetchInv, Script \/ Announce \/ ScriptFails \/ CalmChanges \/ UNCHANGED vars
  PROVE  Served
<1>1. /\ trigger \in BOOLEAN /\ calm \in BOOLEAN /\ builds \in Seq(Versions) /\ Build \in Nat
      /\ seen \subseteq Versions \union {0} /\ (stage = "version" => Published \in seen)
  BY DEF FetchInv, FilesInv, ChosenInv, Build
<1>2. CASE Script
  <2>1. Published' \in Versions \union {0}
    BY DEF Published
  <2>2. /\ seen' = IF stage = "version" THEN seen \union {Published'} ELSE seen
        /\ UNCHANGED <<getVars, stage, step, remote, expected, short, running, trigger, calm>>
    BY <1>2 DEF Script
  <2>3. builds' = builds \/ \E v \in Versions : builds' = Append(builds, v)
    BY <1>2 DEF Script, BuildImage, CopyBin, CopySha, WriteVersion, Prune
  <2>4. Build' \in Nat /\ Build <= Build' /\ \A b \in 1..Build : builds'[b] = builds[b]
    BY <1>1, <2>3 DEF Build
  <2>5. trigger' \in BOOLEAN /\ calm' \in BOOLEAN
    BY <1>1, <2>2
  <2>6. /\ seen' \subseteq Versions \union {0}
        /\ IF stage = "version" THEN seen \union {Published'} \subseteq seen' ELSE seen' = seen
    BY <1>1, <2>1, <2>2
  <2>7. UNCHANGED <<getVars, stage, step, remote, expected, short, running>>
    BY <2>2
  <2>8. QED  BY <1>1, <2>4, <2>5, <2>6, <2>7, Zenon DEF Served
<1>3. CASE Announce \/ ScriptFails \/ CalmChanges \/ UNCHANGED vars
  <2>1. /\ UNCHANGED <<builds, version, getVars, check, running>>
        /\ trigger' \in BOOLEAN /\ calm' \in BOOLEAN
    BY <1>1, <1>3
    DEF Announce, Publish, ScriptFails, Abort, CalmChanges, vars, deployVars, device, files
  <2>2. Published' = Published /\ Build' = Build
    BY <2>1 DEF Published, Build
  <2>3. UNCHANGED <<getVars, stage, step, remote, expected, short, running, seen, builds>>
    BY <2>1 DEF check
  <2>4. Build' \in Nat /\ Build <= Build' /\ \A b \in 1..Build : builds'[b] = builds[b]
    BY <1>1, <2>2, <2>3
  <2>5. /\ seen' \subseteq Versions \union {0}
        /\ IF stage = "version" THEN seen \union {Published'} \subseteq seen' ELSE seen' = seen
    BY <1>1, <2>2, <2>3
  <2>6. UNCHANGED <<getVars, stage, step, remote, expected, short, running>>
    BY <2>3
  <2>7. QED  BY <1>1, <2>1, <2>4, <2>5, <2>6, Zenon DEF Served
<1>4. QED  BY <1>2, <1>3

\* Reads, and what becomes of the tokens that are still to be read.
LEMMA ReadKeeps ==
  ASSUME FetchInv, GetInv', UNCHANGED <<deployVars, calm>>,
         UNCHANGED <<stage, remote, expected, seen, short, running, trigger>>,
         stage = "mark" => got' = got,
         stage \in {"version", "sha"} =>
           Len(resp') <= Len(resp) /\ \A i \in 1..Len(resp') : resp'[i] = resp[i]
  PROVE  AnswerInv' /\ ChosenInv'
<1>1. UNCHANGED <<builds, Build, Published>>
  BY DEF deployVars, files, Build, Published
<1>2. AnswerInv'
  <2>1. resp \in Seq(Token) /\ resp' \in Seq(Token)
    BY DEF FetchInv, GetInv, ReadSoFar
  <2>2. ASSUME stage \in {"version", "sha"}
        PROVE  /\ \A kind \in {"digit", "hex"} : Lacks(resp, kind) => Lacks(resp', kind)
               /\ \A b : HexFrom(resp, b) => HexFrom(resp', b)
    BY <2>1, <2>2 DEF Lacks, HexFrom
  <2>3. ASSUME stage = "version", NEW v \in seen \ {0}, Carries(resp, TextOf[v])
        PROVE  Carries(resp', TextOf[v])
    <3>1. v \in Versions /\ TextOf[v] \in Seq(Token)
      BY TextTokens DEF FetchInv, ChosenInv
    <3>2. Len(Serves(TextOf[v])) \in Nat
      BY <3>1, ServesIs
    <3>3. QED  BY <2>1, <2>3, <3>2 DEF Carries
  <2>4. QED  BY <1>1, <2>2, <2>3 DEF FetchInv, AnswerInv
<1>3. ChosenInv'
  BY <1>1 DEF FetchInv, ChosenInv, AsksForPublished, WholeRelease
<1>4. QED  BY <1>2, <1>3

LEMMA CheckStartsKeeps ==
  ASSUME FetchInv, CheckStarts
  PROVE  GetInv' /\ AnswerInv' /\ ChosenInv'
<1>1. /\ stage = "wait" /\ step = "open" /\ Closed /\ stage' = "version" /\ step' = "open"
      /\ trigger' = FALSE /\ seen' = {Published}
      /\ UNCHANGED <<resp, at, parser, leftover, got, builds, version, running, remote, expected, short, calm>>
  BY DEF CheckStarts, FetchInv, GetInv, getVars, deployVars, files
<1>2. Published' = Published /\ Build' = Build
  BY <1>1 DEF Published, Build
<1>3. Closed'
  BY <1>1 DEF Closed
<1>4. GetInv'
  <2>1. ReadSoFar'
    BY <1>3, ClosedReads, PTL
  <2>2. QED  BY <1>1, <1>3, <2>1 DEF GetInv, HeadInv, BodyInv
<1>5. AnswerInv'
  BY <1>1, <1>3 DEF AnswerInv, Closed, Lacks
<1>6. ChosenInv'
  BY <1>1, <1>2, PublishedText DEF FetchInv, ChosenInv, AsksForPublished, WholeRelease
<1>7. QED  BY <1>4, <1>5, <1>6

-----------------------------------------------------------------------------
(***************************************************************************)
(* What the texts say.                                                     *)
(***************************************************************************)
\* The values of the digits read so far.
ValueBy(value, t) ==
  value = [i \in 0..Len(t) |-> IF i = 0 THEN 0 ELSE 10 * value[i - 1] + t[i][2]]

\* A version has one digit or two.
LEMMA NumberIs ==
  ASSUME NEW t, Len(t) \in {1, 2}, t[1][2] \in Nat, Len(t) = 2 => t[2][2] \in Nat
  PROVE  Number(t) = IF Len(t) = 1 THEN t[1][2] ELSE 10 * t[1][2] + t[2][2]
<1> DEFINE a == t[1][2]
           b == t[2][2]
           g == [i \in 0..Len(t) |-> IF i = 0 THEN 0 ELSE IF i = 1 THEN a ELSE 10 * a + b]
           f == CHOOSE value : ValueBy(value, t)
<1>1. ValueBy(g, t)
  <2>1. \A i \in 0..Len(t) : g[i] = IF i = 0 THEN 0 ELSE 10 * g[i - 1] + t[i][2]
    <3>1. CASE Len(t) = 1
      <4>1. 0..Len(t) = {0, 1}
        BY <3>1
      <4>2. QED  BY <4>1
    <3>2. CASE Len(t) = 2
      <4>1. 0..Len(t) = {0, 1, 2}
        BY <3>2
      <4>2. QED  BY <4>1
    <3>3. QED  BY <3>1, <3>2
  <2>2. QED  BY <2>1 DEF ValueBy
<1>2. ValueBy(f, t)
  BY <1>1
<1>3. Number(t) = f[Len(t)]
  BY DEF Number, ValueBy
<1> HIDE DEF f
<1>4. /\ f[0] = 0 /\ f[1] = 10 * f[0] + t[1][2]
      /\ Len(t) = 2 => f[2] = 10 * f[1] + t[2][2]
  BY <1>2 DEF ValueBy
<1> DEFINE x == t[1][2]
           y == t[2][2]
<1>5. x \in Nat /\ f[1] = 10 * f[0] + x /\ f[0] = 0
      /\ (Len(t) = 2 => f[2] = 10 * f[1] + y)
  BY <1>4
<1> HIDE DEF x, y
<1>6. f[1] = x /\ (Len(t) = 2 => f[2] = 10 * x + y)
  BY <1>5
<1>7. Number(t) = IF Len(t) = 1 THEN x ELSE 10 * x + y
  BY <1>3, <1>6
<1>8. QED  BY <1>7 DEF x, y

\* What is left of a text between its first and its last token that ends no line.
LEMMA TrimIs ==
  ASSUME NEW s \in Seq(Token), NEW t \in TrimAscii(s)
  PROVE  \E i, j \in 1..Len(s) :
           /\ s[i] # Nl /\ s[j] # Nl /\ i <= j
           /\ \A k \in 1..Len(s) : s[k] # Nl => i <= k /\ k <= j
           /\ t \in Seq(Token) /\ Len(t) = j - i + 1
           /\ \A k \in 1..Len(t) : t[k] = s[i + k - 1]
<1> DEFINE kept == {i \in DOMAIN s : s[i] # Nl}
<1>1. DOMAIN s = 1..Len(s) /\ Len(s) \in Nat
  BY LenProperties
<1>2. PICK i \in kept, j \in kept :
        /\ \A k \in kept : i <= k
        /\ \A k \in kept : k <= j
        /\ t = SubSeq(s, i, j)
  <2> DEFINE first == {k \in kept : \A l \in kept : k <= l}
             last == {k \in kept : \A l \in kept : l <= k}
  <2>1. TrimAscii(s) = {SubSeq(s, i, j) : i \in first, j \in last}
    BY DEF TrimAscii
  <2>2. first \subseteq kept /\ last \subseteq kept
        /\ (\A i \in first : \A k \in kept : i <= k) /\ (\A j \in last : \A k \in kept : k <= j)
    OBVIOUS
  <2> HIDE DEF kept, first, last
  <2>3. \E i \in first : \E j \in last : t = SubSeq(s, i, j)
    BY <2>1
  <2>4. QED  BY <2>2, <2>3
<1>3. i \in 1..Len(s) /\ j \in 1..Len(s) /\ i <= j /\ s[i] # Nl /\ s[j] # Nl
  BY <1>1, <1>2
<1>4. /\ t \in Seq(Token) /\ Len(t) = IF i <= j THEN j - i + 1 ELSE 0
      /\ \A k \in 1..(j - i + 1) : t[k] = s[i + k - 1]
  <2>1. i \in Nat \ {0} /\ j \in 0..Len(s)
    BY <1>1, <1>3
  <2>2. QED  BY <1>2, <2>1, PartIs
<1>5. Len(t) = j - i + 1 /\ \A k \in 1..Len(t) : t[k] = s[i + k - 1]
  BY <1>3, <1>4
<1>6. \A k \in 1..Len(s) : s[k] # Nl => i <= k /\ k <= j
  BY <1>1, <1>2
<1>7. QED  BY <1>3, <1>4, <1>5, <1>6

\* The tokens that were consumed are those behind the head.
LEMMA GotIsResp ==
  ASSUME GetInv, step = "body"
  PROVE  /\ got \in Seq(Token) /\ resp \in Seq(Token) /\ parser.total \in 1..Len(resp)
         /\ Len(got) <= Len(resp) - parser.total
         /\ \A k \in 1..Len(got) : got[k] = resp[parser.total + k]
<1> DEFINE h == parser.total
           lo == h + 1
           s == SubSeq(resp, lo, at)
<1>1. /\ resp \in Seq(Token) /\ at \in 0..Len(resp) /\ got \in Seq(Token)
      /\ leftover \in Seq(Token) /\ h \in 1..at /\ got \o leftover = s
  BY DEF GetInv, BodyInv, ReadSoFar, ParserIs
<1>2. lo \in Nat \ {0} /\ lo = h + 1
  BY <1>1
<1> HIDE DEF h, lo
<1>3. /\ Len(s) = IF lo <= at THEN at - lo + 1 ELSE 0
      /\ \A i \in 1..(at - lo + 1) : s[i] = resp[lo + i - 1]
  BY <1>1, <1>2, PartIs
<1> HIDE DEF s
<1>4. Len(s) = at - h /\ \A i \in 1..(at - h) : s[i] = resp[h + i]
  <2>1. Len(s) = at - h
    BY <1>1, <1>2, <1>3
  <2>2. ASSUME NEW i \in 1..(at - h) PROVE s[i] = resp[h + i]
    <3>1. i \in 1..(at - lo + 1) /\ lo + i - 1 = h + i
      BY <1>1, <1>2
    <3>2. QED  BY <1>3, <3>1
  <2>3. QED  BY <2>1, <2>2
<1>5. /\ Len(got \o leftover) = Len(got) + Len(leftover)
      /\ \A i \in 1..(Len(got) + Len(leftover)) : (got \o leftover)[i] =
           IF i <= Len(got) THEN got[i] ELSE leftover[i - Len(got)]
  BY <1>1, ConcatProperties
<1>6. Len(got) \in Nat /\ Len(leftover) \in Nat /\ Len(got) + Len(leftover) = at - h
  BY <1>1, <1>4, <1>5
<1>7. ASSUME NEW k \in 1..Len(got) PROVE got[k] = resp[h + k]
  <2>1. k \in 1..(Len(got) + Len(leftover)) /\ k <= Len(got) /\ k \in 1..(at - h)
    BY <1>6
  <2>2. QED  BY <1>1, <1>4, <1>5, <2>1
<1>8. Len(got) <= Len(resp) - h /\ h \in 1..Len(resp)
  BY <1>1, <1>6
<1>9. QED  BY <1>1, <1>7, <1>8 DEF h

\* A digest comes from one run of the version that is being fetched.
LEMMA DigestIs ==
  ASSUME FetchInv, step = "body", stage = "sha", NEW d \in ParseSha(got)
  PROVE  Len(d) = HexLen /\ \E b \in 1..Build : builds[b] = remote /\ d = HexOf[b]
<1>1. /\ got \in Seq(Token) /\ resp \in Seq(Token) /\ parser.total \in 1..Len(resp)
      /\ Len(got) <= Len(resp) - parser.total
      /\ \A k \in 1..Len(got) : got[k] = resp[parser.total + k]
  BY GotIsResp DEF FetchInv
<1>2. d \in TrimAscii(got) /\ Len(d) = HexLen /\ \A k \in DOMAIN d : d[k][1] = "hex"
  BY DEF ParseSha
<1>3. PICK i \in 1..Len(got), j \in 1..Len(got) :
        /\ d \in Seq(Token) /\ Len(d) = j - i + 1 /\ i <= j
        /\ \A k \in 1..Len(d) : d[k] = got[i + k - 1]
  BY <1>1, <1>2, TrimIs
<1>4. ASSUME NEW k \in 1..HexLen
      PROVE  /\ parser.total + (i + k - 1) \in 1..Len(resp)
             /\ d[k] = resp[parser.total + (i + k - 1)] /\ d[k][1] = "hex"
  <2>1. k \in 1..Len(d) /\ i + k - 1 \in 1..Len(got)
    BY <1>1, <1>2, <1>3, DeployAssumption
  <2>2. d[k] = got[i + k - 1] /\ d[k][1] = "hex"
    BY <1>2, <1>3, <2>1, LenProperties
  <2>3. parser.total + (i + k - 1) \in 1..Len(resp)
    BY <1>1, <2>1
  <2>4. QED  BY <1>1, <2>1, <2>2, <2>3
<1>5. 1 \in 1..HexLen
  BY DeployAssumption
<1>6. ~Lacks(resp, "hex")
  BY <1>4, <1>5 DEF Lacks
<1>7. PICK b \in 1..Build : builds[b] = remote /\ HexFrom(resp, b)
  BY <1>6 DEF FetchInv, AnswerInv
<1>8. \A k \in 1..HexLen : d[k] = <<"hex", b>>
  BY <1>4, <1>7 DEF HexFrom
<1>9. b \in 1..MaxBuilds
  BY DeployAssumption DEF FetchInv, FilesInv
<1> DEFINE h == HexOf[b]
<1>10. h \in Seq(Token) /\ Len(h) = HexLen /\ \A k \in 1..HexLen : h[k] = <<"hex", b>>
  BY <1>9, HexIs
<1> HIDE DEF h
<1>11. d = h
  BY <1>2, <1>3, <1>8, <1>10, SeqEqual
<1>12. QED  BY <1>2, <1>7, <1>11 DEF h

\* A text, token by token.
LEMMA TextEnds ==
  ASSUME NEW v \in Versions
  PROVE  LET t == TextOf[v]
         IN  /\ v \in 1..99 /\ t \in Seq(Token) /\ Len(t) \in {2, 3} /\ t[Len(t)] = Nl
             /\ Len(t) = 2 => v < 10 /\ t[1] = <<"digit", v>>
             /\ Len(t) = 3 => v >= 10 /\ t[1] = <<"digit", v \div 10>> /\ t[2] = <<"digit", v % 10>>
             /\ \A i \in 1..Len(t) : t[i] # Eol
<1> DEFINE t == TextOf[v]
           d == [i \in DOMAIN Digits(v) |-> <<"digit", Digits(v)[i]>>]
           e == <<Nl>>
<1>1. v \in 1..99 /\ t \in Seq(Token)
  BY DeployAssumption, TextTokens
<1>2. t = d \o e
  BY DEF TextOf
<1>3. Digits(v) \in Seq(Nat) /\ Len(Digits(v)) = IF v < 10 THEN 1 ELSE 2
  BY <1>1 DEF Digits
<1>4. d \in Seq(Token) /\ Len(d) = Len(Digits(v))
  <2> DEFINE s == Digits(v)
  <2>1. s \in Seq(Nat)
    BY <1>3
  <2> HIDE DEF s
  <2>2. DOMAIN s = 1..Len(s) /\ Len(s) \in Nat
    BY <2>1, LenProperties
  <2> DEFINE f == [i \in DOMAIN s |-> <<"digit", s[i]>>]
  <2>3. \A i \in 1..Len(s) : s[i] \in Nat
    BY <2>1, ElementOfSeq
  <2>4. \A i \in 1..Len(s) : <<"digit", s[i]>> \in Token
    BY <2>3 DEF Token, Kinds
  <2>5. f \in Seq(Token) /\ Len(f) = Len(s)
    BY <2>4, <2>2
  <2>6. QED  BY <2>5 DEF s
<1>5. e \in Seq(Token) /\ Len(e) = 1 /\ e[1] = Nl
  BY LineEndToken
<1> HIDE DEF d, e, t
<1>6. /\ Len(t) = Len(d) + Len(e)
      /\ \A i \in 1..(Len(d) + Len(e)) : t[i] = IF i <= Len(d) THEN d[i] ELSE e[i - Len(d)]
  <2>1. /\ Len(d \o e) = Len(d) + Len(e)
        /\ \A i \in 1..(Len(d) + Len(e)) :
             (d \o e)[i] = IF i <= Len(d) THEN d[i] ELSE e[i - Len(d)]
    BY <1>4, <1>5, ConcatProperties
  <2>2. QED  BY <1>2, <2>1
<1>7. Len(t) = (IF v < 10 THEN 2 ELSE 3) /\ t[Len(t)] = Nl
  <2>1. Len(d) \in Nat /\ Len(t) = Len(d) + 1
    BY <1>4, <1>5, <1>6
  <2>2. Len(t) \in 1..(Len(d) + Len(e)) /\ ~(Len(t) <= Len(d)) /\ Len(t) - Len(d) = 1
    BY <1>5, <2>1
  <2>3. t[Len(t)] = e[1]
    BY <1>6, <2>2
  <2>4. QED  BY <1>3, <1>4, <1>5, <2>1, <2>3
<1>8. /\ v < 10 => t[1] = <<"digit", v>>
      /\ v >= 10 => t[1] = <<"digit", v \div 10>> /\ t[2] = <<"digit", v % 10>>
  BY TextIs DEF t
<1>9. \A i \in 1..Len(t) : t[i] # Eol
  <2>1. Nl # Eol /\ <<"digit", v>> # Eol /\ <<"digit", v \div 10>> # Eol /\ <<"digit", v % 10>> # Eol
    BY DEF Nl, Eol
  <2>2. CASE v < 10
    <3>1. 1..Len(t) = {1, 2}
      BY <1>7, <2>2
    <3>2. QED  BY <1>7, <1>8, <2>1, <2>2, <3>1
  <2>3. CASE v >= 10
    <3>1. 1..Len(t) = {1, 2, 3} /\ Len(t) = 3
      BY <1>1, <1>7, <2>3
    <3>2. QED  BY <1>7, <1>8, <2>1, <2>3, <3>1
  <2>4. QED  BY <1>1, <2>2, <2>3
<1>10. QED
  <2>1. v < 10 \/ v >= 10
    BY <1>1
  <2>2. (v < 10 => Len(t) = 2) /\ (v >= 10 => Len(t) = 3)
    BY <1>1, <1>7
  <2>3. QED  BY <1>1, <1>7, <1>8, <1>9, <2>1, <2>2 DEF t

\* Where a response carries a text, its head ends before the text and declares
\* its length.
LEMMA CarriesIs ==
  ASSUME FetchInv, step = "body", stage = "version",
         NEW v \in Versions, Carries(resp, TextOf[v])
  PROVE  /\ Wanted = Len(TextOf[v])
         /\ Len(got) \in Nat /\ Len(got) <= Len(TextOf[v])
         /\ \A k \in 1..Len(got) : got[k] = TextOf[v][k]
<1> DEFINE t == TextOf[v]
           n == Len(t)
           h == parser.total
<1>1. t \in Seq(Token) /\ n \in {2, 3} /\ \A i \in 1..n : t[i] # Eol
  BY TextEnds
<1> HIDE DEF t
<1>2. /\ Len(Serves(t)) = 5 + n
      /\ Serves(t)[1] = Ok /\ Serves(t)[2] = Eol /\ Serves(t)[3] = LengthOf(n)
      /\ Serves(t)[4] = Eol /\ Serves(t)[5] = Eol
      /\ \A j \in 1..n : Serves(t)[5 + j] = t[j]
  BY <1>1, ServesIs
<1> HIDE DEF n
<1>3. /\ resp \in Seq(Token) /\ Len(resp) \in Nat /\ h \in 1..Len(resp)
      /\ GoodHead(resp, h) /\ parser.length = {resp[i][2] : i \in DeclaredIn(resp, h)}
  BY LenProperties DEF FetchInv, GetInv, BodyInv, ReadSoFar, ParserIs
<1>4. Len(resp) <= 5 + n /\ \A i \in 1..Len(resp) : resp[i] = Serves(t)[i]
  BY <1>2 DEF Carries, t
<1> HIDE DEF h
<1>5. h >= 2 /\ resp[h - 1] = Eol /\ resp[h] = Eol
  BY <1>3 DEF GoodHead, Blank
<1>6. h = 5
  <2>1. Ok # Eol /\ LengthOf(n) # Eol
    BY DEF Ok, LengthOf, Eol
  <2>2. h # 2 /\ h # 3 /\ h # 4
    <3>1. h = 2 => resp[1] = Eol
      BY <1>5
    <3>2. h = 3 => resp[3] = Eol
      BY <1>5
    <3>3. h = 4 => resp[3] = Eol
      BY <1>5
    <3>4. h = 2 => resp[1] = Ok
      BY <1>2, <1>3, <1>4
    <3>5. h \in {3, 4} => resp[3] = LengthOf(n)
      BY <1>2, <1>3, <1>4
    <3>6. QED  BY <2>1, <3>1, <3>2, <3>3, <3>4, <3>5
  <2>3. ~(h > 5)
    <3>1. SUFFICES ASSUME h > 5 PROVE FALSE
      OBVIOUS
    <3>2. h - 5 \in 1..n /\ 5 + (h - 5) = h
      BY <1>1, <1>3, <1>4, <3>1
    <3>3. resp[h] = t[h - 5]
      BY <1>2, <1>3, <1>4, <3>2
    <3>4. QED  BY <1>1, <1>5, <3>2, <3>3
  <2>4. QED  BY <1>3, <1>5, <2>2, <2>3
<1>7. /\ resp[2] = Eol /\ resp[3] = LengthOf(n) /\ resp[4] = Eol /\ resp[5] = Eol
  BY <1>2, <1>3, <1>4, <1>6
<1>8. \A i \in DeclaredIn(resp, h) : resp[i][2] = n
  <2>1. ASSUME NEW i \in DeclaredIn(resp, h) PROVE i = 3
    <3>1. i \in 2..5 /\ resp[i][1] = "length"
      BY <1>6 DEF DeclaredIn
    <3>2. Eol[1] # "length"
      BY DEF Eol
    <3>3. QED  BY <1>7, <3>1, <3>2
  <2>2. LengthOf(n)[2] = n
    BY DEF LengthOf
  <2>3. QED  BY <1>7, <2>1, <2>2
<1>9. parser.length = {Length} /\ Length \in Nat
  BY LengthIs DEF FetchInv, GetInv, BodyInv
<1>10. Length = n
  <2>1. Length \in {resp[i][2] : i \in DeclaredIn(resp, h)}
    BY <1>3, <1>9
  <2>2. QED  BY <1>8, <2>1
<1>11. Wanted = n
  <2>1. n < UsizeMod /\ n \in Nat
    BY <1>1, FetchAssumption DEF n, t
  <2>2. AsUsize(n) = n
    BY <2>1, GetAssumption DEF AsUsize
  <2>3. QED  BY <1>10, <2>2 DEF Wanted
<1>12. /\ got \in Seq(Token) /\ Len(got) <= Len(resp) - h
       /\ \A k \in 1..Len(got) : got[k] = resp[h + k]
  BY GotIsResp DEF FetchInv, h
<1>13. Len(got) \in Nat /\ Len(got) <= n
  BY <1>1, <1>3, <1>4, <1>6, <1>12
<1>14. ASSUME NEW k \in 1..Len(got) PROVE got[k] = t[k]
  <2>1. 5 + k \in 1..Len(resp) /\ k \in 1..n
    BY <1>1, <1>3, <1>6, <1>12, <1>13
  <2>2. got[k] = resp[5 + k]
    BY <1>6, <1>12
  <2>3. QED  BY <1>2, <1>4, <2>1, <2>2
<1>15. QED  BY <1>11, <1>13, <1>14 DEF n, t

\* What is read is a number, and the whole of a text is a version published
\* since the check started.
LEMMA VersionIs ==
  ASSUME FetchInv, step = "body", stage = "version", NEW x \in ParseVersion(got)
  PROVE  /\ x \in 0..99
         /\ Len(got) = Wanted => x \in seen
         /\ x # 0 /\ \E v \in seen \ {0} : v \in Versions /\ x \in {v, v \div 10}
<1>1. PICK t \in TrimAscii(got) : x = Number(t) /\ \A k \in DOMAIN t : t[k][1] = "digit"
  BY DEF ParseVersion
<1>2. /\ got \in Seq(Token) /\ resp \in Seq(Token) /\ parser.total \in 1..Len(resp)
      /\ Len(got) <= Len(resp) - parser.total
      /\ \A k \in 1..Len(got) : got[k] = resp[parser.total + k]
  BY GotIsResp DEF FetchInv
<1>3. PICK i \in 1..Len(got), j \in 1..Len(got) :
        /\ got[i] # Nl /\ got[j] # Nl /\ i <= j
        /\ \A k \in 1..Len(got) : got[k] # Nl => i <= k /\ k <= j
        /\ t \in Seq(Token) /\ Len(t) = j - i + 1
        /\ \A k \in 1..Len(t) : t[k] = got[i + k - 1]
  BY <1>1, <1>2, TrimIs
<1>4. Len(got) \in Nat /\ 1 \in 1..Len(t) /\ DOMAIN t = 1..Len(t)
  BY <1>2, <1>3, LenProperties
<1>5. ~Lacks(resp, "digit")
  <2>1. parser.total + i \in 1..Len(resp) /\ got[i] = resp[parser.total + i]
    BY <1>2, <1>3
  <2>2. t[1] = got[i] /\ t[1][1] = "digit"
    <3>1. i + 1 - 1 = i
      BY <1>3
    <3>2. QED  BY <1>1, <1>3, <1>4, <3>1
  <2>3. QED  BY <2>1, <2>2 DEF Lacks
<1>6. PICK v \in seen \ {0} : Carries(resp, TextOf[v])
  BY <1>5 DEF FetchInv, AnswerInv
<1>7. v \in Versions
  BY DEF FetchInv, ChosenInv
<1> DEFINE s == TextOf[v]
<1>8. /\ Wanted = Len(s) /\ Len(got) <= Len(s)
      /\ \A k \in 1..Len(got) : got[k] = s[k]
  BY <1>6, <1>7, CarriesIs
<1>9. /\ v \in 1..99 /\ Len(s) \in {2, 3} /\ s[Len(s)] = Nl
      /\ Len(s) = 2 => v < 10 /\ s[1] = <<"digit", v>>
      /\ Len(s) = 3 => v >= 10 /\ s[1] = <<"digit", v \div 10>> /\ s[2] = <<"digit", v % 10>>
  BY <1>7, TextEnds
<1> HIDE DEF s
<1> DEFINE q == v \div 10
           r == v % 10
<1>10. /\ q \in 0..9 /\ r \in 0..9 /\ v = 10 * q + r
       /\ Len(s) = 3 => s[1] = <<"digit", q>> /\ s[2] = <<"digit", r>>
  BY <1>9
<1> HIDE DEF q, r
<1>11. i = 1
  <2>1. 1 \in 1..Len(got) /\ s[1] # Nl
    <3>1. Nl # <<"digit", v>> /\ Nl # <<"digit", q>>
      BY DEF Nl
    <3>2. 1 \in 1..Len(got)
      BY <1>3, <1>4
    <3>3. QED  BY <1>9, <1>10, <3>1, <3>2
  <2>2. got[1] # Nl
    BY <1>8, <2>1
  <2>3. i <= 1
    BY <1>3, <2>1, <2>2
  <2>4. QED  BY <1>3, <2>3
<1>12. j < Len(s) /\ Len(t) = j /\ \A k \in 1..j : t[k] = s[k]
  <2>1. j # Len(s)
    BY <1>3, <1>8, <1>9
  <2>2. j <= Len(s) /\ Len(t) = j
    BY <1>3, <1>4, <1>8, <1>9, <1>11
  <2>3. ASSUME NEW k \in 1..j PROVE t[k] = s[k]
    <3>1. i + k - 1 = k /\ k \in 1..Len(got) /\ k \in 1..Len(t)
      BY <1>3, <1>4, <1>11, <2>2
    <3>2. QED  BY <1>3, <1>8, <3>1
  <2>4. QED  BY <1>3, <1>9, <2>1, <2>2, <2>3
<1>13. CASE j = Len(s) - 1
  <2>1. x = v
    <3>1. CASE Len(s) = 2
      <4>1. Len(t) = 1 /\ t[1] = <<"digit", v>>
        BY <1>9, <1>12, <1>13, <3>1
      <4>2. t[1][2] = v /\ v \in Nat
        BY <1>9, <4>1
      <4>3. QED  BY <1>1, <4>1, <4>2, NumberIs
    <3>2. CASE Len(s) = 3
      <4>1. Len(t) = 2 /\ t[1] = <<"digit", q>> /\ t[2] = <<"digit", r>>
        BY <1>10, <1>12, <1>13, <3>2
      <4>2. t[1][2] = q /\ t[2][2] = r /\ q \in Nat /\ r \in Nat
        BY <1>10, <4>1
      <4>3. x = 10 * q + r
        <5>1. Len(t) \in {1, 2} /\ t[1][2] \in Nat /\ t[2][2] \in Nat
          BY <4>1, <4>2
        <5>2. Number(t) = IF Len(t) = 1 THEN t[1][2] ELSE 10 * t[1][2] + t[2][2]
          BY <5>1, NumberIs
        <5>3. QED  BY <1>1, <4>1, <4>2, <5>2
      <4>4. QED  BY <1>10, <4>3
    <3>3. QED  BY <1>9, <3>1, <3>2
  <2>2. QED  BY <1>6, <1>7, <1>9, <2>1
<1>14. CASE j # Len(s) - 1
  <2>1. Len(s) = 3 /\ j = 1
    BY <1>3, <1>9, <1>12, <1>14
  <2>2. Len(t) = 1 /\ t[1] = <<"digit", q>>
    BY <1>10, <1>12, <2>1
  <2>3. t[1][2] = q /\ q \in Nat
    BY <1>10, <2>2
  <2>4. x = q
    BY <1>1, <2>2, <2>3, NumberIs
  <2>5. Len(got) # Wanted
    <3>1. SUFFICES ASSUME Len(got) = Wanted PROVE FALSE
      OBVIOUS
    <3>2. 2 \in 1..Len(got)
      BY <1>8, <2>1, <3>1
    <3>3. got[2] = <<"digit", r>> /\ Nl # <<"digit", r>>
      BY <1>8, <1>10, <2>1, <3>2 DEF Nl
    <3>4. 2 <= j
      BY <1>3, <3>2, <3>3
    <3>5. QED  BY <2>1, <3>4
  <2>6. x \in 0..99 /\ x # 0 /\ x = v \div 10
    <3>1. v >= 10
      BY <1>9, <2>1
    <3>2. q = v \div 10 /\ q \in 0..9 /\ (v >= 10 => q # 0)
      BY <1>9, <1>10 DEF q
    <3>3. QED  BY <2>4, <3>1, <3>2
  <2>7. QED  BY <1>6, <1>7, <2>5, <2>6
<1>15. QED  BY <1>13, <1>14

-----------------------------------------------------------------------------
(***************************************************************************)
(* The steps of the device.                                                *)
(***************************************************************************)
\* A body that is over was read whole, or its connection has ended before.
LEMMA OverIs ==
  ASSUME GetInv, BodyOver, stage # "mark"
  PROVE  Len(got) = Wanted \/ (AtEof /\ Len(got) < Wanted)
<1>1. step = "body" /\ Len(got) <= Wanted /\ Len(got) \in Nat /\ Wanted \in Nat
  BY LengthIs DEF BodyOver, GetInv, BodyInv, ReadSoFar
<1>2. QED  BY <1>1 DEF BodyOver

LEMMA GotVersionKeeps ==
  ASSUME FetchInv, GotVersion
  PROVE  GetInv' /\ AnswerInv' /\ ChosenInv'
<1>1. PICK v \in ParseVersion(got) : remote' = v /\ seen' = seen \intersect {v}
  BY DEF GotVersion
<1>2. /\ BodyOver /\ step = "body" /\ stage = "version" /\ ~short /\ stage' = "sha" /\ step' = "open"
      /\ short' = (short \/ (AtEof /\ Len(got) < Wanted)) /\ Close
      /\ UNCHANGED <<builds, expected, running, trigger, calm>>
  BY DEF GotVersion, NextGet, BodyOver, deployVars, FetchInv, ChosenInv
<1>3. GetInv'
  BY <1>2, CloseKeeps
<1>4. resp' = <<>>
  BY <1>2 DEF Close
<1>5. AnswerInv'
  BY <1>2, <1>4 DEF AnswerInv, Lacks
<1>6. v \in 0..99 /\ (Len(got) = Wanted => v \in seen)
  BY <1>2, VersionIs
<1>7. AsksForPublished'
  <2>1. Len(got) = Wanted \/ short'
    BY <1>2, OverIs DEF FetchInv
  <2>2. QED  BY <1>1, <1>6, <2>1 DEF AsksForPublished
<1>8. short' \in BOOLEAN /\ Build' = Build
  BY <1>2 DEF Build
<1>9. ChosenInv'
  BY <1>1, <1>2, <1>6, <1>7, <1>8 DEF FetchInv, ChosenInv, WholeRelease
<1>10. QED  BY <1>3, <1>5, <1>9

LEMMA GotShaKeeps ==
  ASSUME FetchInv, GotSha
  PROVE  GetInv' /\ AnswerInv' /\ ChosenInv'
<1>1. PICK d \in ParseSha(got) : expected' = d
  BY DEF GotSha
<1>2. /\ step = "body" /\ stage = "sha" /\ stage' = "bin" /\ step' = "open"
      /\ short' = (short \/ (AtEof /\ Len(got) < Wanted)) /\ Close
      /\ UNCHANGED <<builds, remote, seen, running, trigger, calm>>
  BY DEF GotSha, NextGet, BodyOver, deployVars
<1>3. GetInv'
  BY <1>2, CloseKeeps
<1>4. AnswerInv'
  BY <1>2 DEF AnswerInv
<1>5. Len(d) = HexLen /\ \E b \in 1..Build : builds[b] = remote /\ d = HexOf[b]
  BY <1>2, DigestIs
<1>6. short' \in BOOLEAN /\ (short => short') /\ short \in BOOLEAN /\ Build' = Build
  BY <1>2 DEF Build, FetchInv, ChosenInv
<1>7. AsksForPublished'
  BY <1>2, <1>6 DEF FetchInv, ChosenInv, AsksForPublished
<1>8. ChosenInv'
  BY <1>1, <1>2, <1>5, <1>6, <1>7 DEF FetchInv, ChosenInv, WholeRelease
<1>9. QED  BY <1>3, <1>4, <1>8

LEMMA GotImageKeeps ==
  ASSUME FetchInv, GotImage
  PROVE  GetInv' /\ AnswerInv' /\ ChosenInv'
<1>1. /\ step = "body" /\ stage = "bin" /\ stage' = "mark" /\ Len(got) = Wanted /\ Matches(expected)
      /\ UNCHANGED <<resp, at, parser, leftover, got, builds, step, remote, expected, seen, short>>
      /\ UNCHANGED <<running, trigger, calm>>
  BY DEF GotImage, BodyOver, getVars, deployVars
<1>2. Length' = Length /\ Status' = Status /\ Wanted = Length
  BY <1>1 DEF Length, Status, Wanted
<1>3. GetInv'
  BY <1>1, <1>2 DEF FetchInv, GetInv, ReadSoFar, HeadInv, BodyInv
<1>4. AnswerInv'
  BY <1>1 DEF AnswerInv
<1>5. PICK b \in 1..Build : expected = HexOf[b] /\ got = ImageOf[b]
  BY <1>1 DEF Matches
<1>6. PICK a \in 1..Build : builds[a] = remote /\ expected = HexOf[a]
  BY <1>1 DEF FetchInv, ChosenInv
<1>7. a = b
  <2>1. 1..Build \subseteq 1..MaxBuilds
    BY DeployAssumption DEF FetchInv, FilesInv
  <2>2. a \in 1..MaxBuilds /\ b \in 1..MaxBuilds /\ HexOf[a] = HexOf[b]
    BY <1>5, <1>6, <2>1
  <2>3. QED  BY <2>2, HexDiffers
<1>8. Build' = Build
  BY <1>1 DEF Build
<1>9. WholeRelease'
  BY <1>1, <1>5, <1>6, <1>7, <1>8 DEF WholeRelease
<1>10. ChosenInv'
  BY <1>1, <1>8, <1>9 DEF FetchInv, ChosenInv, AsksForPublished
<1>11. QED  BY <1>3, <1>4, <1>10

LEMMA ReadsKeep ==
  ASSUME FetchInv, HeadArrives \/ BodyArrives \/ (HeadOver /\ ~BackToWait)
  PROVE  GetInv' /\ AnswerInv' /\ ChosenInv'
<1>1. /\ UNCHANGED <<deployVars, calm, stage, remote, expected, seen, short, running, trigger>>
      /\ resp' = resp
  BY DEF HeadArrives, BodyArrives, HeadOver, ReadHead, ReadBody, device, check, getVars
<1>2. GetInv'
  BY HeadKeeps, BodyKeeps, HeadOverKeeps DEF FetchInv
<1>3. stage = "mark" => got' = got
  BY MarkHasAll DEF HeadArrives, BodyArrives, HeadOver, FetchInv, GetInv
<1>4. QED  BY <1>1, <1>2, <1>3, ReadKeeps

\* The image is written over while it is read.
LEMMA OvertakenKeeps ==
  ASSUME FetchInv, Overtaken
  PROVE  GetInv' /\ AnswerInv' /\ ChosenInv'
<1>1. /\ UNCHANGED <<deployVars, calm, stage, remote, expected, seen, short, running, trigger>>
      /\ UNCHANGED <<at, parser, leftover, got, step>> /\ stage = "bin" /\ step # "open"
  BY DEF Overtaken, device, check
<1>2. PICK n \in 0..NumBlocks, file \in Content :
        LET head == HeadLines(<<Ok, LengthOf(n)>>)
            now == head \o SubSeq(file, 1, AtMost(n, Len(file)))
        IN  \E k \in Len(head)..Len(resp) :
              at <= k /\ resp' = SubSeq(resp, 1, k) \o SubSeq(now, k + 1, Len(now))
  BY DEF Overtaken
<1> DEFINE lines == <<Ok, LengthOf(n)>>
           head == HeadLines(lines)
           part == SubSeq(file, 1, AtMost(n, Len(file)))
           now == head \o part
<1>3. now \in Seq(Token) /\ Len(head) \in Nat
  <2>1. n \in Nat /\ file \in Seq(Token)
    BY ContentIs, DeployAssumption DEF FetchInv
  <2>2. Ok \in Plain /\ LengthOf(n) \in Plain
    BY <2>1 DEF Ok, LengthOf, Plain, Kinds
  <2>3. lines \in Seq(Plain)
    BY <2>2
  <2> HIDE DEF lines
  <2>4. head \in Seq(Token)
    BY <2>3, LinesArePlain, PlainIs
  <2>5. part \in Seq(Token)
    <3> DEFINE m == AtMost(n, Len(file))
    <3>1. m \in 0..Len(file)
      BY <2>1 DEF AtMost
    <3> HIDE DEF m
    <3>2. SubSeq(file, 1, m) \in Seq(Token)
      BY <2>1, <3>1, PartIs
    <3>3. QED  BY <3>2 DEF m
  <2> HIDE DEF head, part
  <2>6. QED  BY <2>4, <2>5, ConcatProperties, LenProperties
<1>4. PICK k \in Len(head)..Len(resp) :
        at <= k /\ resp' = SubSeq(resp, 1, k) \o SubSeq(now, k + 1, Len(now))
  BY <1>2
<1> HIDE DEF lines, head, part, now
<1>5. resp \in Seq(Token) /\ k \in 0..Len(resp) /\ at \in Nat
  BY <1>3, <1>4 DEF FetchInv, GetInv, ReadSoFar
<1> DEFINE front == SubSeq(resp, 1, k)
           rest == SubSeq(now, k + 1, Len(now))
<1>6. front \in Seq(Token) /\ Len(front) = k /\ \A i \in 1..k : front[i] = resp[i]
  <2>1. /\ front \in Seq(Token) /\ Len(front) = IF 1 <= k THEN k - 1 + 1 ELSE 0
        /\ \A i \in 1..(k - 1 + 1) : front[i] = resp[1 + i - 1]
    BY <1>5, PartIs
  <2> HIDE DEF front
  <2>2. QED  BY <1>5, <2>1
<1>7. rest \in Seq(Token)
  <2> DEFINE lo == k + 1
             hi == Len(now)
  <2>1. lo \in Nat \ {0} /\ hi \in 0..Len(now)
    BY <1>3, <1>5
  <2> HIDE DEF lo, hi
  <2>2. SubSeq(now, lo, hi) \in Seq(Token)
    BY <1>3, <2>1, PartIs
  <2>3. QED  BY <2>2 DEF lo, hi
<1>8. resp' = front \o rest
  BY <1>4
<1> HIDE DEF front, rest
<1>9. /\ front \o rest \in Seq(Token) /\ Len(front \o rest) = Len(front) + Len(rest)
      /\ \A i \in 1..(Len(front) + Len(rest)) :
           (front \o rest)[i] = IF i <= Len(front) THEN front[i] ELSE rest[i - Len(front)]
  BY <1>6, <1>7, ConcatProperties
<1>10. Len(rest) \in Nat
  BY <1>7
<1>11. resp' \in Seq(Token) /\ at <= Len(resp') /\ \A i \in 1..at : resp'[i] = resp[i]
  <2>1. resp' \in Seq(Token) /\ Len(resp') = k + Len(rest) /\ k \in Nat
    BY <1>5, <1>6, <1>8, <1>9
  <2>2. at <= Len(resp') /\ at <= k
    <3>1. at <= k
      BY <1>4
    <3> DEFINE n1 == Len(resp')
               n2 == Len(rest)
    <3>2. n1 = k + n2 /\ n2 \in Nat /\ k \in Nat /\ at \in Nat
      BY <1>5, <1>10, <2>1
    <3> HIDE DEF n1, n2
    <3>3. at <= n1
      BY <3>1, <3>2
    <3>4. QED  BY <3>1, <3>3 DEF n1
  <2>3. ASSUME NEW i \in 1..at PROVE resp'[i] = resp[i]
    <3>1. i \in 1..k /\ i \in 1..(Len(front) + Len(rest)) /\ i <= Len(front)
      BY <1>5, <1>6, <1>10, <2>1, <2>2
    <3>2. (front \o rest)[i] = front[i]
      BY <1>9, <3>1
    <3>3. QED  BY <1>6, <1>8, <3>1, <3>2
  <2>4. QED  BY <2>1, <2>2, <2>3
<1>12. GetInv'
  BY <1>1, <1>11, RestChanges DEF FetchInv
<1>13. QED  BY <1>1, <1>12, ReadKeeps

\* The connection ends before its time.
LEMMA CutKeeps ==
  ASSUME FetchInv, ConnectionCut
  PROVE  GetInv' /\ AnswerInv' /\ ChosenInv'
<1>1. /\ UNCHANGED <<deployVars, calm, stage, remote, expected, seen, short, running, trigger>>
      /\ UNCHANGED <<at, parser, leftover, got, step>> /\ step # "open"
      /\ resp' = SubSeq(resp, 1, at)
  BY DEF ConnectionCut, CutShort, device, check
<1>2. resp \in Seq(Token) /\ at \in 0..Len(resp) /\ Len(resp) \in Nat
  BY DEF FetchInv, GetInv, ReadSoFar
<1> DEFINE front == SubSeq(resp, 1, at)
<1>3. /\ front \in Seq(Token) /\ Len(front) = IF 1 <= at THEN at - 1 + 1 ELSE 0
      /\ \A i \in 1..(at - 1 + 1) : front[i] = resp[1 + i - 1]
  BY <1>2, PartIs
<1> HIDE DEF front
<1>4. Len(front) = at /\ \A i \in 1..at : front[i] = resp[i]
  BY <1>2, <1>3
<1>5. resp' = front
  BY <1>1 DEF front
<1>6. /\ resp' \in Seq(Token) /\ Len(resp') = at /\ at <= Len(resp)
      /\ \A i \in 1..at : resp'[i] = resp[i]
  BY <1>2, <1>3, <1>4, <1>5
<1>7. GetInv'
  BY <1>1, <1>2, <1>6, RestChanges DEF FetchInv
<1>8. QED  BY <1>1, <1>6, <1>7, ReadKeeps

\* Every step keeps the invariant.
LEMMA FetchStep ==
  ASSUME FetchInv, [Next]_vars
  PROVE  FetchInv'
<1>1. FilesInv'
  BY FilesStep DEF FetchInv
<1>2. GetInv' /\ AnswerInv' /\ ChosenInv'
  <2>1. CASE HeadCut \/ NoUpdate \/ ShaInvalid \/ ImageRefused \/ SysReset \/ FetchFails
               \/ PowerLoss \/ (HeadOver /\ BackToWait)
    BY <2>1, ReturnsAre, ReturnedKeeps
  <2>2. CASE Script \/ Announce \/ ScriptFails \/ CalmChanges \/ UNCHANGED vars
    BY <2>2, ServerSteps, ServedKeeps
  <2>3. CASE HeadArrives \/ BodyArrives \/ (HeadOver /\ ~BackToWait)
    BY <2>3, ReadsKeep
  <2>4. CASE CheckStarts \/ Request \/ GotVersion \/ GotSha \/ GotImage \/ Overtaken \/ ConnectionCut
    BY <2>4, CheckStartsKeeps, RequestKeeps, GotVersionKeeps, GotShaKeeps, GotImageKeeps,
       OvertakenKeeps, CutKeeps
  <2>5. QED  BY <2>1, <2>2, <2>3, <2>4 DEF Next, Check
<1>3. QED  BY <1>1, <1>2 DEF FetchInv

LEMMA FetchStarts ==
  ASSUME Init
  PROVE  FetchInv
<1>1. FilesInv /\ GetInv
  BY FilesInit, ConnectionInit DEF Init
<1>2. AnswerInv
  BY DEF Init, AnswerInv
<1>3. Len(expected) = 0 /\ remote \in 0..99 /\ seen \subseteq Versions \union {0}
  BY EmptySeq DEF Init
<1>4. running \in 1..Build /\ trigger \in BOOLEAN /\ calm \in BOOLEAN /\ short \in BOOLEAN
  BY DEF Init
<1>5. ChosenInv
  BY <1>3, <1>4 DEF Init, ChosenInv, AsksForPublished, WholeRelease
<1>6. QED  BY <1>1, <1>2, <1>5 DEF FetchInv

-----------------------------------------------------------------------------
(***************************************************************************)
(* The theorems.                                                           *)
(***************************************************************************)
LEMMA FetchAlways == Spec => []FetchInv
<1>1. Init => FetchInv
  BY FetchStarts
<1>2. FetchInv /\ [Next]_vars => FetchInv'
  BY FetchStep
<1>3. QED  BY <1>1, <1>2, PTL DEF Spec

\* However the response is cut into reads, the parser accepts it at the token
\* that ends a good head and nowhere else, with the status and the length that
\* head states; a response it refuses begins with no good head.
THEOREM HeadStaysExact == Spec => []HeadExact
<1>1. ASSUME FetchInv PROVE HeadExact
  <2> DEFINE h == parser.total
             read == SubSeq(resp, 1, h)
  <2>1. resp \in Seq(Token) /\ at \in 0..Len(resp) /\ ParserIs(parser, resp, at)
    BY <1>1 DEF FetchInv, GetInv, ReadSoFar
  <2>2. h \in 0..at
    BY <2>1 DEF ParserIs
  <2>3. h \in 0..Len(resp)
    BY <2>1, <2>2
  <2> HIDE DEF h
  <2>4. /\ IsHead(read) <=> GoodHead(resp, h)
        /\ GoodHead(resp, h) => Declared(read) = DeclaredIn(resp, h)
    BY <2>1, <2>3, HeadByPosition
  <2>5. read \in Seq(Token) /\ Len(read) = h /\ \A i \in 1..h : read[i] = resp[i]
    <3>1. /\ read \in Seq(Token) /\ Len(read) = IF 1 <= h THEN h - 1 + 1 ELSE 0
          /\ \A i \in 1..(h - 1 + 1) : read[i] = resp[1 + i - 1]
      BY <2>1, <2>3, PartIs
    <3> HIDE DEF read
    <3>2. QED  BY <2>3, <3>1
  <2> HIDE DEF read
  <2>6. ASSUME parser.event = "complete"
        PROVE  /\ IsHead(read) /\ <<"status", Status>> = read[1]
               /\ parser.length = {read[i][2] : i \in Declared(read)}
    <3>1. /\ h \in 1..at /\ GoodHead(resp, h) /\ resp[1] = <<"status", Status>>
          /\ parser.length = {resp[i][2] : i \in DeclaredIn(resp, h)}
      BY <2>1, <2>6 DEF ParserIs, Status, h
    <3>2. \A i \in DeclaredIn(resp, h) : read[i] = resp[i]
      BY <2>5 DEF DeclaredIn
    <3>3. read[1] = resp[1]
      BY <2>5, <3>1
    <3>4. {read[i][2] : i \in DeclaredIn(resp, h)} = {resp[i][2] : i \in DeclaredIn(resp, h)}
      BY <3>2
    <3>5. QED  BY <2>4, <3>1, <3>3, <3>4
  <2>7. ASSUME parser.event = "more" PROVE ~IsHead(read)
    <3>1. h = at
      BY <2>1, <2>7 DEF ParserIs, h
    <3>2. ~GoodHead(resp, h)
      <4>1. CASE h = 0
        BY <4>1 DEF GoodHead
      <4>2. CASE h # 0
        <5>1. h \in 1..h /\ h \in Nat /\ ParserIs(parser, resp, h)
          BY <2>1, <2>2, <3>1, <4>2
        <5>2. QED  BY <2>1, <2>7, <5>1, NotYet
      <4>3. QED  BY <4>1, <4>2
    <3>3. QED  BY <2>4, <3>2
  <2>8. ASSUME parser.event \notin {"more", "complete"}, NEW k \in 1..Len(resp)
        PROVE  ~IsHead(SubSeq(resp, 1, k))
    <3>1. h <= Len(resp) /\ NoHead(resp, h)
      BY <2>1, <2>3, <2>8 DEF ParserIs, h
    <3>2. ~GoodHead(resp, k)
      BY <2>1, <3>1 DEF NoHead
    <3>3. k \in 0..Len(resp)
      OBVIOUS
    <3>4. QED  BY <2>1, <3>2, <3>3, HeadByPosition
  <2>9. QED  BY <2>6, <2>7, <2>8 DEF HeadExact, read, h
<1>2. QED  BY <1>1, FetchAlways, PTL

\* No body byte is lost, doubled or taken from the head on its way through the
\* leftover buffer.
THEOREM NothingGetsLost == Spec => []NothingLost
<1>1. FetchInv => NothingLost
  BY DEF FetchInv, GetInv, BodyInv, NothingLost
<1>2. QED  BY <1>1, FetchAlways, PTL

\* Nothing is written behind the slot, whatever 64-bit length is declared.
THEOREM FlashStaysWithinSlot == Spec => []FlashWithinSlot
<1>1. ASSUME FetchInv PROVE FlashWithinSlot
  <2>1. SUFFICES ASSUME stage = "bin" PROVE Len(got) <= SlotSize
    BY DEF FlashWithinSlot
  <2>2. CASE step = "body"
    <3>1. Len(got) <= Length /\ Length <= SlotSize
      BY <1>1, <2>1, <2>2 DEF FetchInv, GetInv, BodyInv, Wanted
    <3>2. Len(got) \in Nat /\ Length \in Nat
      BY <1>1, <2>2, LengthIs DEF FetchInv, GetInv, BodyInv, ReadSoFar
    <3>3. QED  BY <3>1, <3>2, FetchAssumption
  <2>3. CASE step # "body"
    <3>1. got = <<>>
      BY <1>1, <2>3 DEF FetchInv, GetInv, HeadInv, Closed
    <3>2. QED  BY <3>1, FetchAssumption
  <2>4. QED  BY <2>2, <2>3
<1>2. QED  BY <1>1, FetchAlways, PTL

\* The buffer of a version or digest text holds what is read into it, though a
\* 64-bit length passes for a short one.
THEOREM TextStaysWithinBuffer == Spec => []TextWithinBuffer
<1>1. ASSUME FetchInv PROVE TextWithinBuffer
  <2>1. SUFFICES ASSUME stage \in {"version", "sha"} PROVE Len(got) <= TextMax
    BY DEF TextWithinBuffer
  <2>2. CASE step = "body"
    <3>1. Len(got) <= Wanted /\ Wanted <= TextMax
      BY <1>1, <2>1, <2>2 DEF FetchInv, GetInv, BodyInv, Wanted
    <3>2. Len(got) \in Nat /\ Wanted \in Nat
      BY <1>1, <2>2, LengthIs DEF FetchInv, GetInv, BodyInv, ReadSoFar
    <3>3. QED  BY <3>1, <3>2, FetchAssumption
  <2>3. CASE step # "body"
    <3>1. got = <<>>
      BY <1>1, <2>3 DEF FetchInv, GetInv, HeadInv, Closed
    <3>2. QED  BY <3>1, FetchAssumption
  <2>4. QED  BY <2>2, <2>3 DEF FetchInv, GetInv
<1>2. QED  BY <1>1, FetchAlways, PTL

\* An image is marked only when it is one whole release of the version the check
\* was after, though its files are replaced under the check and its connections
\* end anywhere.
THEOREM MarkedIsWholeRelease == Spec => []WholeRelease
<1>1. FetchInv => WholeRelease
  BY DEF FetchInv, ChosenInv
<1>2. QED  BY <1>1, FetchAlways, PTL

\* The device goes after a version that was published while it checked, and not
\* after one it read into a text that was cut, torn or being rewritten, unless
\* the connection ended before the text did.
THEOREM AlwaysAsksForPublished == Spec => []AsksForPublished
<1>1. FetchInv => AsksForPublished
  BY DEF FetchInv, ChosenInv
<1>2. QED  BY <1>1, FetchAlways, PTL

\* Every variable of a check, of the connection and of the server stays in its
\* range.
THEOREM FetchTypeCorrect == Spec => []TypeOK
<1>1. Init => PublishInv /\ KeptInv
  BY PublishInit, KeptInit DEF Init
<1>2. PublishInv /\ KeptInv /\ [Next]_vars => PublishInv' /\ KeptInv'
  BY PublishStep, KeptStep
<1>3. ASSUME FetchInv, KeptInv PROVE TypeOK
  <2>1. Cardinality(parser.length) <= 1
    <3>1. \A a, b \in parser.length : a = b
      BY <1>3 DEF FetchInv, GetInv, ReadSoFar, ParserIs
    <3>2. CASE parser.length = {}
      BY <3>2, FS_EmptySet
    <3>3. ASSUME NEW a \in parser.length PROVE Cardinality(parser.length) <= 1
      <4>1. parser.length = {a}
        BY <3>1
      <4>2. Cardinality({a}) = 1
        BY FS_Singleton
      <4>3. QED  BY <4>1, <4>2
    <3>4. QED  BY <3>2, <3>3
  <2>2. /\ stage \in {"wait", "version", "sha", "bin", "mark"} /\ step \in {"open", "head", "body"}
        /\ at \in 0..Len(resp) /\ parser.total <= MaxHead + 1
    BY <1>3 DEF FetchInv, GetInv, ReadSoFar, ParserIs
  <2>3. /\ running \in 1..Build /\ remote \in 0..99 /\ {trigger, calm, short} \subseteq BOOLEAN
        /\ seen \subseteq Versions \union {0} /\ Len(expected) \in {0, HexLen}
    BY <1>3 DEF FetchInv, ChosenInv
  <2>4. /\ script \in {"idle", "bin", "binRest", "sha", "shaRest", "version", "versionRest", "prune", "trigger"}
        /\ Build \in 1..MaxBuilds /\ DOMAIN bin \subseteq Versions /\ DOMAIN sha \subseteq Versions
    BY <1>3 DEF FetchInv, FilesInv
  <2>5. latest \in Versions /\ {prior, doomed} \subseteq Versions \union {0}
    BY <1>3 DEF KeptInv
  <2>6. QED  BY <2>1, <2>2, <2>3, <2>4, <2>5 DEF TypeOK
<1>4. QED  BY <1>1, <1>2, <1>3, FetchAlways, PTL DEF Spec

=============================================================================
