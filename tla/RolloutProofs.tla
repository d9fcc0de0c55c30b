---------------------------- MODULE RolloutProofs ----------------------------
(***************************************************************************)
(* The proof that a check against the server implements Rollout, for every *)
(* set of versions from 1 to 99, size and number of runs of the script.    *)
(***************************************************************************)
EXTENDS OtaFetchProofs

\* What a check has seen the server name is the version of some run.
SeenInv == \A v \in seen \ {0} : \E b \in 1..Build : builds[b] = v

-----------------------------------------------------------------------------
(***************************************************************************)
(* The versions a check may go after.                                      *)
(***************************************************************************)
\* The server names the version of some run, or none.
LEMMA NamesARun ==
  ASSUME PublishInv, Published # 0
  PROVE  \E b \in 1..Build : builds[b] = Published
<1>1. Published \in Versions /\ version = TextOf[Published]
  BY DEF Published
<1>2. QED  BY <1>1 DEF PublishInv, OriginInv

\* A run is added, or the runs stay as they are.
LEMMA RunsGrow ==
  ASSUME FetchInv, [Next]_vars
  PROVE  /\ builds \in Seq(Versions) /\ Build \in Nat /\ Build' \in Nat /\ Build <= Build'
         /\ \A b \in 1..Build : builds'[b] = builds[b]
<1>1. builds \in Seq(Versions) /\ Build \in Nat
  BY DEF FetchInv, FilesInv, Build
<1>2. CASE builds' = builds
  BY <1>1, <1>2 DEF Build
<1>3. CASE Script
  BY <1>1, <1>3, ServerSteps DEF Served
<1>4. Script \/ builds' = builds
  BY DEF Next, Check, CheckStarts, Request, HeadArrives, HeadOver, HeadCut, BodyArrives,
         GotVersion, NoUpdate, GotSha, ShaInvalid, GotImage, ImageRefused, SysReset, FetchFails,
         PowerLoss, Announce, Publish, ScriptFails, Abort, Overtaken, ConnectionCut,
         CalmChanges, BackToWait, Boot, NextGet, vars, deployVars
<1>5. QED  BY <1>2, <1>3, <1>4

LEMMA SeenStep ==
  ASSUME FetchInv, PublishInv, SeenInv, [Next]_vars
  PROVE  SeenInv'
<1>1. PublishInv'
  BY PublishStep
<1>2. /\ Build \in Nat /\ Build' \in Nat /\ 1..Build \subseteq 1..Build'
      /\ \A b \in 1..Build : builds'[b] = builds[b]
  BY RunsGrow
<1>3. \A v : (\E b \in 1..Build : builds[b] = v) => \E b \in 1..Build' : builds'[b] = v
  BY <1>2
<1>4. Published' # 0 => \E b \in 1..Build' : builds'[b] = Published'
  <2>1. Published' # 0 => Published' \in Versions /\ version' = TextOf[Published']
    BY DEF Published
  <2>2. QED  BY <1>1, <2>1 DEF PublishInv, OriginInv
<1>5. Published # 0 => \E b \in 1..Build : builds[b] = Published
  BY NamesARun
<1>6. \/ seen' \subseteq seen \/ seen' \subseteq {Published}
      \/ seen' \subseteq seen \union {Published'}
  <2>1. CASE CheckStarts
    BY <2>1 DEF CheckStarts
  <2>2. CASE Script
    BY <2>2 DEF Script
  <2>3. CASE GotVersion
    BY <2>3 DEF GotVersion
  <2>4. CASE seen' = {} \/ seen' = seen
    BY <2>4
  <2>5. QED
    BY <2>1, <2>2, <2>3, <2>4
    DEF Next, Check, Request, HeadArrives, HeadOver, HeadCut, BodyArrives,
        NoUpdate, GotSha, ShaInvalid, GotImage, ImageRefused, SysReset, FetchFails,
        PowerLoss, Announce, ScriptFails, Overtaken, ConnectionCut,
        CalmChanges, BackToWait, Boot, NextGet, vars, device, check
<1>7. QED  BY <1>3, <1>4, <1>5, <1>6 DEF SeenInv

-----------------------------------------------------------------------------
(***************************************************************************)
(* The steps.                                                              *)
(***************************************************************************)
\* No two builds have the same image.
LEMMA ImagesDiffer ==
  ASSUME NEW a \in 1..MaxBuilds, NEW b \in 1..MaxBuilds, ImageOf[a] = ImageOf[b]
  PROVE  a = b
<1>1. 1 \in 1..NumBlocks
  BY DeployAssumption
<1>2. \A c \in 1..MaxBuilds : ImageOf[c][1] = <<"block", c>>
  BY <1>1 DEF ImageOf, Times
<1>3. QED  BY <1>2

\* Where the abstract device is.
LEMMA PhaseIs ==
  /\ stage \in {"wait", "version"} => Phase = "idle" /\ Marked = {}
  /\ stage \in {"sha", "bin"} => Phase = "asked" /\ Marked = {}
  /\ stage = "mark" => Phase = "marked" /\ Marked = {b \in 1..MaxBuilds : got = ImageOf[b]}
  BY DEF Phase, Marked, ImageOf

\* A check that is over, or a device that restarts as what it was.
LEMMA ReturnsAreAbstract ==
  ASSUME FetchInv, stage' = "wait", remote' = 0, UNCHANGED <<builds, running>>
  PROVE  [Promise!Next]_(Promise!vars)
<1>1. Phase' = "idle" /\ Marked' = {}
  BY DEF Phase, Marked
<1>2. CASE stage \in {"wait", "version"}
  <2>1. Phase = "idle" /\ Marked = {} /\ remote = 0
    BY <1>2, PhaseIs DEF FetchInv, ChosenInv
  <2>2. QED  BY <1>1, <2>1 DEF Promise!vars
<1>3. CASE stage \notin {"wait", "version"}
  <2>1. Phase # "idle"
    BY <1>3 DEF Phase
  <2>2. Promise!GiveUp
    BY <1>1, <2>1 DEF Promise!GiveUp
  <2>3. QED  BY <2>2 DEF Promise!Next
<1>4. QED  BY <1>2, <1>3

\* A reset after the mark, into the image that was marked.
LEMMA InstallIsAbstract ==
  ASSUME FetchInv, SysReset
  PROVE  [Promise!Next]_(Promise!vars)
<1>1. stage = "mark" /\ stage' = "wait" /\ remote' = 0 /\ UNCHANGED builds
  BY DEF SysReset, Boot, deployVars
<1>2. CASE running' = running
  BY <1>1, <1>2, ReturnsAreAbstract
<1>3. ASSUME NEW b \in 1..Build, got = ImageOf[b], running' = b
      PROVE  Promise!Install
  <2>1. b \in 1..MaxBuilds
    BY DeployAssumption DEF FetchInv, FilesInv
  <2>2. Phase = "marked" /\ running' \in Marked
    BY <1>1, <1>3, <2>1, PhaseIs
  <2>3. Phase' = "idle" /\ Marked' = {}
    BY <1>1 DEF Phase, Marked, ImageOf
  <2>4. QED  BY <1>1, <2>2, <2>3 DEF Promise!Install
<1>4. QED  BY <1>2, <1>3 DEF SysReset, Boot, Promise!Next

\* A version that is not the one that runs.
LEMMA AskIsAbstract ==
  ASSUME FetchInv, SeenInv, GotVersion
  PROVE  Promise!Ask
<1>1. PICK x \in ParseVersion(got) : x # builds[running] /\ remote' = x
  BY DEF GotVersion
<1>2. /\ stage = "version" /\ step = "body" /\ stage' = "sha"
      /\ UNCHANGED <<builds, running>>
  BY DEF GotVersion, BodyOver, NextGet, deployVars
<1>3. PICK v \in seen \ {0} : x # 0 /\ x \in {v, v \div 10}
  BY <1>2, VersionIs
<1>4. PICK b \in 1..Build : builds[b] = v
  BY <1>3 DEF SeenInv
<1>5. b \in DOMAIN builds
  BY DEF FetchInv, FilesInv, Build
<1>6. remote' \in Promise!Readings(builds[b]) \ {builds[running]}
  BY <1>1, <1>3, <1>4 DEF Promise!Readings
<1>7. Phase = "idle" /\ Marked = {} /\ Phase' = "asked" /\ Marked' = {}
  BY <1>2 DEF Phase, Marked, ImageOf
<1>8. QED  BY <1>2, <1>5, <1>6, <1>7 DEF Promise!Ask

\* A whole image with the digest of the version asked for.
LEMMA MarkIsAbstract ==
  ASSUME FetchInv, FetchInv', GotImage
  PROVE  Promise!Mark
<1>1. /\ stage = "bin" /\ stage' = "mark"
      /\ UNCHANGED <<builds, running, remote, got>>
  BY DEF GotImage, getVars, deployVars
<1>2. PICK b \in 1..Build' : got' = ImageOf[b] /\ builds'[b] = remote'
  BY <1>1 DEF FetchInv, ChosenInv, WholeRelease
<1>3. Build' = Build /\ builds \in Seq(Versions) /\ b \in 1..MaxBuilds /\ b \in DOMAIN builds
  <2>1. Build' = Build
    BY <1>1 DEF Build
  <2>2. QED  BY <1>2, <2>1, DeployAssumption DEF FetchInv, FilesInv, Build
<1>4. Phase = "asked" /\ Phase' = "marked" /\ Marked' = {a \in 1..MaxBuilds : got' = ImageOf[a]}
  BY <1>1 DEF Phase, Marked, ImageOf
<1>5. Marked' = {b}
  BY <1>2, <1>3, <1>4, ImagesDiffer
<1>6. QED  BY <1>1, <1>2, <1>4, <1>3, <1>5 DEF Promise!Mark

\* A run of the script, or one of its commands.
LEMMA ServerIsAbstract ==
  ASSUME FetchInv, Script \/ Announce \/ ScriptFails \/ CalmChanges \/ UNCHANGED vars
  PROVE  [Promise!Next]_(Promise!vars)
<1>1. UNCHANGED <<stage, remote, got, running>>
  BY ServerSteps DEF Served, getVars
<1>2. Phase' = Phase /\ Marked' = Marked
  BY <1>1 DEF Phase, Marked
<1>3. builds' = builds \/ \E v \in Versions : builds' = Append(builds, v)
  BY DEF Script, BuildImage, CopyBin, CopySha, WriteVersion, Prune,
         Announce, Publish, ScriptFails, Abort, CalmChanges, vars, deployVars
<1>4. QED  BY <1>1, <1>2, <1>3 DEF Promise!vars, Promise!Next, Promise!Release

\* What a GET does in between.
LEMMA GetIsAbstract ==
  ASSUME FetchInv,
         CheckStarts \/ Request \/ HeadArrives \/ (HeadOver /\ ~BackToWait) \/ BodyArrives
           \/ GotSha \/ Overtaken \/ ConnectionCut
  PROVE  UNCHANGED Promise!vars
<1>1. UNCHANGED <<builds, running, remote>>
  BY DEF CheckStarts, Request, HeadArrives, HeadOver, BodyArrives, GotSha, NextGet, Overtaken,
         ConnectionCut, deployVars, device, check
<1>2. CASE CheckStarts \/ GotSha
  <2>1. \/ stage = "wait" /\ stage' = "version"
        \/ stage = "sha" /\ stage' = "bin"
    BY <1>2 DEF CheckStarts, GotSha, NextGet
  <2>2. Phase' = Phase /\ Marked' = Marked
    BY <2>1 DEF Phase, Marked, ImageOf
  <2>3. QED  BY <1>1, <2>2 DEF Promise!vars
<1>3. CASE Request \/ HeadArrives \/ (HeadOver /\ ~BackToWait) \/ BodyArrives \/ Overtaken \/ ConnectionCut
  <2>1. stage' = stage
    BY <1>3 DEF Request, HeadArrives, HeadOver, BodyArrives, Overtaken, ConnectionCut, device, check
  <2>2. stage = "mark" => got' = got
    BY <1>3, MarkHasAll
    DEF FetchInv, GetInv, Request, HeadArrives, HeadOver, BodyArrives, Overtaken, ConnectionCut
  <2>3. Phase' = Phase /\ Marked' = Marked
    BY <2>1, <2>2 DEF Phase, Marked
  <2>4. QED  BY <1>1, <2>3 DEF Promise!vars
<1>4. QED  BY <1>2, <1>3

LEMMA RolloutStep ==
  ASSUME FetchInv, FetchInv', SeenInv, [Next]_vars
  PROVE  [Promise!Next]_(Promise!vars)
<1>1. CASE HeadCut \/ NoUpdate \/ ShaInvalid \/ ImageRefused \/ FetchFails \/ PowerLoss
             \/ (HeadOver /\ BackToWait)
  <2>1. stage' = "wait" /\ remote' = 0 /\ UNCHANGED <<builds, running>>
    BY <1>1 DEF HeadCut, NoUpdate, ShaInvalid, ImageRefused, FetchFails, PowerLoss, BackToWait,
                Boot, deployVars
  <2>2. QED  BY <2>1, ReturnsAreAbstract
<1>2. CASE SysReset
  BY <1>2, InstallIsAbstract
<1>3. CASE GotVersion
  BY <1>3, AskIsAbstract DEF Promise!Next
<1>4. CASE GotImage
  BY <1>4, MarkIsAbstract DEF Promise!Next
<1>5. CASE Script \/ Announce \/ ScriptFails \/ CalmChanges \/ UNCHANGED vars
  BY <1>5, ServerIsAbstract
<1>6. CASE CheckStarts \/ Request \/ HeadArrives \/ (HeadOver /\ ~BackToWait) \/ BodyArrives
             \/ GotSha \/ Overtaken \/ ConnectionCut
  BY <1>6, GetIsAbstract
<1>7. QED  BY <1>1, <1>2, <1>3, <1>4, <1>5, <1>6 DEF Next, Check

LEMMA RolloutInit ==
  ASSUME Init
  PROVE  Promise!Init /\ SeenInv
<1>1. FetchInv
  BY FetchStarts
<1>2. builds \in Seq(Versions) /\ running \in DOMAIN builds
  BY <1>1 DEF FetchInv, FilesInv, ChosenInv, Build
<1>3. Phase = "idle" /\ Marked = {} /\ remote = 0 /\ seen = {}
  BY PhaseIs DEF Init
<1>4. QED  BY <1>2, <1>3 DEF Promise!Init, SeenInv

-----------------------------------------------------------------------------
\* Publishing and updating implement Rollout: the device changes only to a whole
\* build of the version it went after, and goes after nothing but the version of
\* some run of the script, or its first digit when the line was cut.
THEOREM FetchKeepsRollout == Spec => KeepsRollout
<1>1. Init => PublishInv
  BY PublishInit DEF Init
<1>2. PublishInv /\ [Next]_vars => PublishInv'
  BY PublishStep
<1>3. Promise!Init /\ [][Promise!Next]_(Promise!vars) => Promise!Spec
  BY DEF Promise!Spec
<1>4. QED
  BY <1>1, <1>2, <1>3, RolloutInit, RolloutStep, SeenStep, FetchAlways, PTL
  DEF Spec, KeepsRollout
==============================================================================
