------------------------------ MODULE OtaFetch ------------------------------
(***************************************************************************)
(* One update check (check_and_update of app/src/ota/task.rs) against the  *)
(* server deploy.sh publishes to: three GETs on three connections, while   *)
(* the files behind them are replaced, pruned and announced.               *)
(*                                                                         *)
(* An image that is marked boots and is confirmed here; what else may      *)
(* become of it is the subject of OtaUpdate.                               *)
(***************************************************************************)
EXTENDS HttpGet, Deploy, FiniteSets

CONSTANTS
  TextMax,   \* VERSION_MAX_BYTES and SHA_MAX_BYTES, in tokens
  SlotSize   \* ACTIVE_BYTES, in blocks

\* A usize counts the bytes of any version text.
ASSUME FetchAssumption ==
  /\ TextMax \in Nat /\ SlotSize \in Nat /\ NumBlocks <= SlotSize
  /\ \A v \in Versions : Len(TextOf[v]) < UsizeMod

VARIABLES
  stage,     \* wait, the file of the current GET, or mark
  step,      \* open, head or body
  running,   \* the build that runs; crate::VERSION is its version
  remote,    \* the version being fetched
  expected,  \* the digest the image must have
  trigger,   \* TRIGGER holds a request
  calm,      \* commands, connections and power hold, answers are honest
  seen,      \* history: versions published until this check knew its own
  short      \* history: a text of this check ended before its length

check == <<stage, step, remote, expected, seen, short>>
device == <<check, running, trigger>>
vars == <<getVars, deployVars, device, calm>>

Init ==
  /\ Closed /\ DeployInit
  /\ stage = "wait" /\ step = "open" /\ remote = 0 /\ expected = <<>>
  /\ running \in {b \in 1..Build : b = 1 \/ Published = builds[2]} /\ trigger = TRUE /\ calm \in BOOLEAN
  /\ seen = {} /\ short = FALSE

(***************************************************************************)
(* The server (external).                                                  *)
(***************************************************************************)
HeadLines(lines) ==
  [i \in 1..(2 * Len(lines) + 1) |->
     IF i % 2 = 1 /\ i < 2 * Len(lines) THEN lines[(i + 1) \div 2] ELSE Eol]
Ok == <<"status", 200>>
NotFound == HeadLines(<< <<"status", 404>>, <<"field", 0>> >>)
LengthOf(n) == <<"length", n>>

\* The directory's answer for the file of this stage.
Content ==
  CASE stage = "version" -> {version}
    [] stage = "sha" -> {sha[v] : v \in DOMAIN sha \intersect {remote}}
    [] OTHER -> {bin[v] : v \in DOMAIN bin \intersect {remote}}

Serves(content) == HeadLines(<<Ok, LengthOf(Len(content))>>) \o content
Honest == IF Content = {} THEN {NotFound} ELSE {Serves(c) : c \in Content}

\* Answers of another shape: a front end that fails, encodes or pads, and a
\* length that a usize would cut down to one byte before a body that is larger
\* than the buffer.  The GET is the same at every stage, so each answer is given
\* at one of them.
OddText ==
  {HeadLines(lines) \o Times(Nl, TextMax + 1) : lines \in
     {<< <<"status", 500>>, LengthOf(2)>>,
      << <<"status", 206>>, LengthOf(2)>>,
      <<Ok, <<"field", 0>> >>,
      <<Ok, LengthOf(2), LengthOf(1)>>,
      <<Ok, <<"chunked", 0>>, LengthOf(2)>>,
      <<Ok, <<"junk", 0>> >>,
      <<Ok, Ok, LengthOf(2)>>,
      <<Ok, LengthOf(UsizeMod + 1)>>,
      <<Ok>> \o Times(<<"field", 0>>, MaxHead \div 2)}}

\* The same for the image: cut down to one block, and larger than the slot.
OddImage ==
  {HeadLines(<<Ok, LengthOf(UsizeMod + 1)>>) \o Times(<<"block", 1>>, SlotSize + 1)}

Odd ==
  CASE stage = "version" -> OddText
    [] stage = "sha" -> {}
    [] OTHER -> OddImage

\* While scp writes over the image the rest of an answer comes from the new
\* file, up to the length the head has promised.
Overtaken ==
  /\ stage = "bin" /\ step # "open"
  /\ \E n \in 0..NumBlocks, file \in Content :
       LET head == HeadLines(<<Ok, LengthOf(n)>>)
           now == head \o SubSeq(file, 1, AtMost(n, Len(file)))
       IN  /\ IsPrefix(head, resp) /\ Len(resp) = Len(head) + n
           /\ \E k \in Len(head)..Len(resp) :
                /\ at <= k
                /\ resp' = SubSeq(resp, 1, k) \o SubSeq(now, k + 1, Len(now))
  /\ resp' # resp
  /\ UNCHANGED <<at, parser, leftover, got, deployVars, device, calm>>

(***************************************************************************)
(* ota_task and check_and_update.                                          *)
(***************************************************************************)
\* TRIGGER.wait() takes the request.
CheckStarts ==
  /\ stage = "wait" /\ trigger
  /\ trigger' = FALSE
  /\ stage' = "version" /\ step' = "open"
  /\ seen' = {Published}
  /\ UNCHANGED <<getVars, deployVars, running, remote, expected, short, calm>>

\* Mutant: a request that came during the check is dropped with it.
ForgetTrigger == trigger' = FALSE

KeepTrigger == trigger' = trigger

\* Any return of check_and_update: an error, a 404, nothing to update.
BackToWait ==
  /\ stage' = "wait" /\ step' = "open" /\ remote' = 0 /\ expected' = <<>>
  /\ seen' = {} /\ short' = FALSE
  /\ Close
  /\ KeepTrigger
  /\ UNCHANGED <<deployVars, running, calm>>

\* resolve, open and send: the file is read when the request arrives.  Bound:
\* odd answers are given before the script runs for the last time.
Request ==
  /\ stage \in {"version", "sha", "bin"} /\ step = "open"
  /\ \E answer \in IF calm \/ script # "idle" \/ Build = MaxBuilds THEN Honest ELSE Honest \union Odd : Send(answer)
  /\ step' = "head"
  /\ UNCHANGED <<deployVars, stage, remote, expected, seen, short, running, trigger, calm>>

\* The network fails in any await of the check.
FetchFails == stage \in {"version", "sha", "bin"} /\ ~calm /\ BackToWait

HeadArrives ==
  /\ step = "head" /\ parser.event = "more"
  /\ ReadHead
  /\ UNCHANGED <<deployVars, device, calm>>

\* Mutant: the length of the image is cast before it is compared.
CastFirst(n) == AsUsize(n) <= SlotSize

\* apply_update compares in u64.
FitsSlot(n) == n <= SlotSize

FitsText(n) == AsUsize(n) <= TextMax

\* The parser has ended: the body is read unless status or length forbid it.
HeadOver ==
  /\ step = "head" /\ parser.event # "more"
  /\ IF /\ parser.event = "complete" /\ Status = 200
        /\ IF stage = "bin" THEN FitsSlot(Length) ELSE FitsText(Length)
     THEN /\ step' = "body"
          /\ UNCHANGED <<getVars, deployVars, stage, remote, expected, seen, short, running, trigger, calm>>
     ELSE BackToWait

\* FetchError::Closed
HeadCut == step = "head" /\ parser.event = "more" /\ Unread = 0 /\ BackToWait

\* Mutant: a text's length is cast where it is compared, and read as it is.
WantedUncut == Length

\* The tokens asked for: a text's length is a usize, an image's a u64.
Wanted == IF stage = "bin" THEN Length ELSE AsUsize(Length)

BodyArrives ==
  /\ step = "body" /\ Len(got) < Wanted
  /\ ReadBody(Wanted - Len(got))
  /\ UNCHANGED <<deployVars, device, calm>>

\* Mutant: one read is taken for the whole body.
BodyOverAtOnce == step = "body" /\ (got # <<>> \/ AtEof)

\* The loop ends with the last token asked for, or with the connection.
BodyOver == step = "body" /\ (Len(got) = Wanted \/ AtEof)

TrimAscii(s) ==
  LET kept == {i \in DOMAIN s : s[i] # Nl}
  IN  {SubSeq(s, i, j) : i \in {k \in kept : \A l \in kept : k <= l},
                         j \in {k \in kept : \A l \in kept : l <= k}}

Number(t) ==
  LET value[i \in 0..Len(t)] == IF i = 0 THEN 0 ELSE 10 * value[i - 1] + t[i][2]
  IN  value[Len(t)]

\* The values a version text stands for: one, or none.
ParseVersion(s) ==
  {Number(t) : t \in {u \in TrimAscii(s) : \A i \in DOMAIN u : u[i][1] = "digit"}}

\* Mutant: any number of hex digits will do.
ParseShaAnyLength(s) == {t \in TrimAscii(s) : \A i \in DOMAIN t : t[i][1] = "hex"}

ParseSha(s) == {t \in TrimAscii(s) : Len(t) = HexLen /\ \A i \in DOMAIN t : t[i][1] = "hex"}

\* The next GET, on a connection of its own.
NextGet(file) ==
  /\ stage' = file /\ step' = "open"
  /\ short' = (short \/ (AtEof /\ Len(got) < Wanted))
  /\ Close
  /\ UNCHANGED <<deployVars, running, trigger, calm>>

\* decide: any version but the running one is an update.
GotVersion ==
  /\ BodyOver /\ stage = "version"
  /\ \E v \in ParseVersion(got) :
       /\ v # builds[running]
       /\ remote' = v /\ seen' = seen \intersect {v}
  /\ NextGet("sha")
  /\ UNCHANGED expected

NoUpdate ==
  /\ BodyOver /\ stage = "version"
  /\ ParseVersion(got) \subseteq {builds[running]}
  /\ BackToWait

GotSha ==
  /\ BodyOver /\ stage = "sha"
  /\ \E d \in ParseSha(got) : expected' = d
  /\ NextGet("bin")
  /\ UNCHANGED <<remote, seen>>

ShaInvalid == BodyOver /\ stage = "sha" /\ ParseSha(got) = {} /\ BackToWait

\* Mutant: the digest is not compared.
MatchesAnything(d) == Len(got) = Wanted

\* The digest of what was read: no two images share one.
Matches(d) == \E b \in 1..Build : d = HexOf[b] /\ got = ImageOf[b]

\* total = content_length and the digest is the expected one: mark_updated.
GotImage ==
  /\ BodyOver /\ stage = "bin"
  /\ Len(got) = Wanted /\ Matches(expected)
  /\ stage' = "mark"
  /\ UNCHANGED <<getVars, deployVars, step, remote, expected, seen, short, running, trigger, calm>>

ImageRefused ==
  /\ BodyOver /\ stage = "bin"
  /\ ~(Len(got) = Wanted /\ Matches(expected))
  /\ BackToWait

\* A reset: main starts the OTA task with a request.
Boot(b) ==
  /\ running' = b /\ trigger' = TRUE
  /\ stage' = "wait" /\ step' = "open" /\ remote' = 0 /\ expected' = <<>>
  /\ seen' = {} /\ short' = FALSE
  /\ Close
  /\ UNCHANGED <<deployVars, calm>>

\* sys_reset after the mark; the trial may fail unless all is calm.
SysReset ==
  /\ stage = "mark"
  /\ \/ \E b \in 1..Build : got = ImageOf[b] /\ Boot(b)
     \/ ~calm /\ Boot(running)

PowerLoss == ~calm /\ Boot(running)

Check ==
  \/ CheckStarts \/ Request \/ HeadArrives \/ HeadOver \/ HeadCut \/ BodyArrives
  \/ GotVersion \/ NoUpdate \/ GotSha \/ ShaInvalid \/ GotImage \/ ImageRefused
  \/ SysReset

(***************************************************************************)
(* The script and the path between.                                        *)
(***************************************************************************)
Script ==
  /\ (BuildImage /\ resp \notin OddText \union OddImage) \/ CopyBin \/ CopySha \/ WriteVersion \/ Prune
  /\ seen' = IF stage = "version" THEN seen \union {Published'} ELSE seen
  /\ UNCHANGED <<getVars, stage, step, remote, expected, short, running, trigger, calm>>

\* One QoS 0 message: it arrives, or is lost.
Announce ==
  /\ Publish
  /\ trigger' = TRUE \/ (~calm /\ trigger' = trigger)
  /\ UNCHANGED <<getVars, check, running, calm>>

ScriptFails == ~calm /\ Abort /\ UNCHANGED <<getVars, device, calm>>

ConnectionCut ==
  /\ step # "open" /\ stage # "mark" /\ ~calm
  /\ CutShort
  /\ UNCHANGED <<deployVars, device, calm>>

CalmChanges == calm' = ~calm /\ UNCHANGED <<getVars, deployVars, device>>

Next ==
  \/ Check \/ FetchFails \/ PowerLoss \/ Script \/ Announce \/ ScriptFails
  \/ Overtaken \/ ConnectionCut \/ CalmChanges

Spec == Init /\ [][Next]_vars

\* The executor polls the OTA task, and every read of an open connection
\* returns (with bytes, an end or a timeout).
FairSpec == Spec /\ WF_vars(Check)

(***************************************************************************)
(* Properties.                                                             *)
(***************************************************************************)
\* Every variable stays in its range.
TypeOK ==
  /\ stage \in {"wait", "version", "sha", "bin", "mark"}
  /\ step \in {"open", "head", "body"}
  /\ running \in 1..Build
  /\ remote \in 0..99
  /\ {trigger, calm, short} \subseteq BOOLEAN
  /\ seen \subseteq Versions \union {0}
  /\ at \in 0..Len(resp)
  /\ parser.total <= MaxHead + 1 /\ Cardinality(parser.length) <= 1
  /\ Len(expected) \in {0, HexLen}
  /\ script \in {"idle", "bin", "binRest", "sha", "shaRest", "version", "versionRest", "prune", "trigger"}
  /\ Build \in 1..MaxBuilds
  /\ DOMAIN bin \subseteq Versions /\ DOMAIN sha \subseteq Versions
  /\ latest \in Versions /\ {prior, doomed} \subseteq Versions \union {0}

\* core/src/ota/http.rs:1-8: however the response is cut into reads, the
\* parser accepts it at the token that ends a good head and nowhere else, with
\* the status and the length that head states.
HeadExact ==
  LET read == SubSeq(resp, 1, parser.total)
  IN  /\ parser.event = "complete" =>
           /\ IsHead(read)
           /\ <<"status", Status>> = read[1]
           /\ parser.length = {read[i][2] : i \in Declared(read)}
      /\ parser.event = "more" => ~IsHead(read)
      /\ parser.event \notin {"more", "complete"} =>
           \A k \in 1..Len(resp) : ~IsHead(SubSeq(resp, 1, k))

\* app/src/ota/transport.rs:236-294: no body byte is lost, doubled or taken
\* from the head on its way through the leftover buffer.
NothingLost ==
  step = "body" => got \o leftover = SubSeq(resp, parser.total + 1, at)

\* core/src/ota/session.rs:43-45: an image is marked only when it is one whole
\* release of the version the check was after, though its files are replaced
\* under the check and its connections end anywhere.
WholeRelease ==
  stage = "mark" => \E b \in 1..Build : got = ImageOf[b] /\ builds[b] = remote

\* core/src/ota/session.rs:43-45: nothing is written behind the slot, whatever
\* 64-bit length the server declares.
FlashWithinSlot == stage = "bin" => Len(got) <= SlotSize

\* app/src/ota/task.rs:93-101, 140-149: the buffer of a version or digest text
\* holds what is read into it, though a 64-bit length passes for a short one.
TextWithinBuffer == stage \in {"version", "sha"} => Len(got) <= TextMax

BuiltOnce(v) == \A a, b \in 1..Build : builds[a] = v /\ builds[b] = v => a = b

\* README.md:303-305: the version the server names has its whole pair, through
\* copies and runs that fail anywhere, if no other run used the same VERSION.
AdvertisedIsWhole ==
  Published # 0 /\ BuiltOnce(Published) =>
    \E b \in 1..Build : builds[b] = Published /\ PairIs(Published, b)

\* README.md:307-308: a device that read the version published before the last
\* one still finds its pair, however many runs there were, if the version has
\* risen since and no run that failed left a pair in between.
PreviousIsKept ==
  /\ prior # 0 /\ prior < latest
  /\ \A w \in DOMAIN bin : ~(prior < w /\ w < latest)
  => prior \in DOMAIN bin \intersect DOMAIN sha

\* README.md:173-178: the device goes after a version that was published while
\* it checked, and not after one it read into a text that was cut, torn or
\* being rewritten, unless the connection ended before the text did.
AsksForPublished == remote # 0 /\ ~short => remote \in seen

Phase ==
  CASE stage \in {"wait", "version"} -> "idle"
    [] stage \in {"sha", "bin"} -> "asked"
    [] OTHER -> "marked"

\* The builds whose image is in the slot that is marked.
Marked == IF stage = "mark" THEN {b \in DOMAIN ImageOf : got = ImageOf[b]} ELSE {}

Promise == INSTANCE Rollout WITH
  releases <- builds, phase <- Phase, target <- remote, slot <- Marked

\* README.md:173-175, 307-308 and core/src/ota/session.rs:43-45 together: the
\* device changes only to a whole build of the version it went after, which was
\* not the one it ran, and it goes after nothing but the version of some run of
\* the script, or its first digit when the line was cut.
KeepsRollout == Promise!Spec

\* The published release can be fetched, and nothing disturbs it.
Offered ==
  /\ calm /\ script = "idle"
  /\ \E b \in 1..Build : PairIs(Published, b)

\* README.md:177-180, 302-303: a request to check that finds a release on offer
\* brings the device to it as long as it stays on offer, even when it comes in
\* the middle of a check that is after another one.
ReleaseReached == trigger /\ Offered ~> ~Offered \/ builds[running] = Published

\* README.md:303-305: publishing the version last means that a failed copy
\* never advertises an incomplete release.
NeverAdvertisesIncomplete ==
  script = "idle" /\ Published # 0 => \E b \in 1..Build : PairIs(Published, b)
=============================================================================
