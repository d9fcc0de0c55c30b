---------------------------- MODULE DeployProofs ----------------------------
(***************************************************************************)
(* Proofs about the publication side of OtaFetch, for every set of         *)
(* versions from 1 to 99, image size, digest length and number of runs.    *)
(***************************************************************************)
EXTENDS OtaFetch, SequenceTheorems, TLAPS

(***************************************************************************)
(* The version file.                                                       *)
(***************************************************************************)
\* The front of a concatenation.
LEMMA ConcatFront ==
  ASSUME NEW S, NEW s \in Seq(S), NEW t \in Seq(S), NEW i \in 1..Len(s)
  PROVE  Len(s \o t) = Len(s) + Len(t) /\ (s \o t)[i] = s[i]
<1>1. i \in 1..(Len(s) + Len(t)) /\ i <= Len(s)
  OBVIOUS
<1>2. QED  BY <1>1, ConcatProperties

\* What a text holds: its digits, and the end of the line.
LEMMA TextIs ==
  ASSUME NEW v \in Versions
  PROVE  /\ v < 10 => Len(TextOf[v]) = 2 /\ TextOf[v][1] = <<"digit", v>>
         /\ v >= 10 =>
              /\ Len(TextOf[v]) = 3
              /\ TextOf[v][1] = <<"digit", v \div 10>> /\ TextOf[v][2] = <<"digit", v % 10>>
<1> DEFINE d == [i \in DOMAIN Digits(v) |-> <<"digit", Digits(v)[i]>>]
           e == <<Nl>>
           S == {<<"digit", v>>, <<"digit", v \div 10>>, <<"digit", v % 10>>, Nl}
<1>1. v \in 1..99
  BY DeployAssumption
<1>2. TextOf[v] = d \o e
  BY DEF TextOf
<1>3. CASE v < 10
  <2>1. Digits(v) = <<v>>
    BY <1>3 DEF Digits
  <2>2. d = << <<"digit", v>> >>
    BY <2>1
  <2>3. d \in Seq(S) /\ e \in Seq(S) /\ Len(e) = 1 /\ Len(d) = 1 /\ d[1] = <<"digit", v>>
    BY <2>2
  <2> HIDE DEF d, e, S
  <2>4. \A i \in 1..Len(d) : Len(d \o e) = Len(d) + Len(e) /\ (d \o e)[i] = d[i]
    BY <2>3, ConcatFront
  <2>5. Len(TextOf[v]) = 2 /\ TextOf[v][1] = <<"digit", v>>
    BY <1>2, <2>3, <2>4
  <2>6. QED  BY <1>1, <1>3, <2>5
<1>4. CASE v >= 10
  <2>1. Digits(v) = <<v \div 10, v % 10>>
    BY <1>1, <1>4 DEF Digits
  <2>2. d = << <<"digit", v \div 10>>, <<"digit", v % 10>> >>
    BY <2>1
  <2>3. /\ d \in Seq(S) /\ e \in Seq(S) /\ Len(e) = 1 /\ Len(d) = 2
        /\ d[1] = <<"digit", v \div 10>> /\ d[2] = <<"digit", v % 10>>
    BY <2>2
  <2> HIDE DEF d, e, S
  <2>4. \A i \in 1..Len(d) : Len(d \o e) = Len(d) + Len(e) /\ (d \o e)[i] = d[i]
    BY <2>3, ConcatFront
  <2>5. /\ Len(TextOf[v]) = 3
        /\ TextOf[v][1] = <<"digit", v \div 10>> /\ TextOf[v][2] = <<"digit", v % 10>>
    BY <1>2, <2>3, <2>4
  <2>6. QED  BY <1>1, <1>4, <2>5
<1>5. QED  BY <1>1, <1>3, <1>4

\* No two versions share a text, and none is empty.
LEMMA TextsDiffer ==
  ASSUME NEW v \in Versions, NEW w \in Versions
  PROVE  /\ TextOf[v] = TextOf[w] => v = w
         /\ TextOf[v] # <<>>
<1>1. v \in 1..99 /\ w \in 1..99
  BY DeployAssumption
<1>2. ASSUME NEW u \in Versions, u < 10
      PROVE  Len(TextOf[u]) = 2 /\ TextOf[u][1] = <<"digit", u>>
  BY <1>2, TextIs
<1>3. ASSUME NEW u \in Versions, u >= 10
      PROVE  /\ Len(TextOf[u]) = 3
             /\ TextOf[u][1] = <<"digit", u \div 10>> /\ TextOf[u][2] = <<"digit", u % 10>>
  BY <1>3, TextIs
<1>4. (v < 10 \/ v >= 10) /\ (w < 10 \/ w >= 10)
  BY <1>1
<1>5. TextOf[v] # <<>>
  <2>1. Len(TextOf[v]) # 0
    BY <1>2, <1>3, <1>4
  <2>2. QED  BY <2>1
<1>6. ASSUME TextOf[v] = TextOf[w] PROVE v = w
  <2>1. CASE v < 10 /\ w < 10
    <3>1. <<"digit", v>> = <<"digit", w>>
      BY <1>2, <1>6, <2>1
    <3>2. QED  BY <3>1
  <2>2. CASE v >= 10 /\ w >= 10
    <3>1. /\ <<"digit", v \div 10>> = <<"digit", w \div 10>>
          /\ <<"digit", v % 10>> = <<"digit", w % 10>>
      BY <1>3, <1>6, <2>2
    <3>2. v \div 10 = w \div 10 /\ v % 10 = w % 10
      BY <3>1
    <3>3. QED  BY <1>1, <3>2
  <2>3. CASE (v < 10 /\ w >= 10) \/ (v >= 10 /\ w < 10)
    <3>1. Len(TextOf[v]) # Len(TextOf[w])
      <4>1. CASE v < 10 /\ w >= 10
        BY <1>2, <1>3, <4>1
      <4>2. CASE v >= 10 /\ w < 10
        BY <1>2, <1>3, <4>2
      <4>3. QED  BY <2>3, <4>1, <4>2
    <3>2. QED  BY <1>6, <3>1
  <2>4. QED  BY <1>4, <2>1, <2>2, <2>3
<1>7. QED  BY <1>5, <1>6

\* What the version file publishes, by what it holds.
LEMMA PublishedIs ==
  /\ version = <<>> => Published = 0
  /\ \A v \in Versions : version = TextOf[v] => Published = v
  BY TextsDiffer DEF Published

-----------------------------------------------------------------------------
(***************************************************************************)
(* The files.                                                              *)
(***************************************************************************)
\* Putting a file in place leaves the others alone.
LEMMA PutIs ==
  ASSUME NEW store, NEW v, NEW content
  PROVE  /\ v \in DOMAIN Put(store, v, content) /\ Put(store, v, content)[v] = content
         /\ \A w \in DOMAIN store \ {v} :
              w \in DOMAIN Put(store, v, content) /\ Put(store, v, content)[w] = store[w]
  BY DEF Put

\* The order of the commands.
LEMMA CommandOrder ==
  /\ Then("bin") = "sha" /\ Then("sha") = "version"
  /\ Then("version") = "prune"
<1>1. /\ DOMAIN Commands = 1..5
      /\ Commands[1] = "bin" /\ Commands[2] = "sha" /\ Commands[3] = "version"
      /\ Commands[4] = "prune" /\ Commands[5] = "trigger"
  BY DEF Commands
<1>2. ASSUME NEW c, NEW i \in DOMAIN Commands, Commands[i] = c,
             \A j \in DOMAIN Commands : Commands[j] = c => j = i
      PROVE  Then(c) = Commands[1 + i]
  BY <1>2 DEF Then
<1>3. Then("bin") = Commands[1 + 1]
  BY <1>1, <1>2
<1>4. Then("sha") = Commands[1 + 2]
  BY <1>1, <1>2
<1>5. Then("version") = Commands[1 + 3]
  BY <1>1, <1>2
<1>6. QED  BY <1>1, <1>3, <1>4, <1>5

-----------------------------------------------------------------------------
(***************************************************************************)
(* The inductive invariant.  The pair of the current run is in place from  *)
(* the command that rewrites the version file on; until then the version   *)
(* that is published comes from an earlier run, whose pair the copies may  *)
(* only touch if both runs have the same VERSION.                          *)
(***************************************************************************)
Copying == script \in {"bin", "binRest", "sha", "shaRest", "version"}

PairInv ==
  /\ script \in {"sha", "shaRest"} => Version \in DOMAIN bin /\ bin[Version] = ImageOf[Build]
  /\ script \in {"version", "versionRest", "prune", "trigger"} => PairIs(Version, Build)

VersionInv ==
  /\ script = "versionRest" => version = <<>>
  /\ script \in {"prune", "trigger"} => version = TextOf[Version]

OriginInv ==
  \A v \in Versions : version = TextOf[v] =>
    \E b \in 1..Build :
      /\ builds[b] = v /\ (Copying => b < Build)
      /\ BuiltOnce(v) => PairIs(v, b)

\* Between the two files of a pair that is pruned.
DoomedInv == doomed # 0 => script = "prune" /\ doomed \notin DOMAIN bin

PublishInv ==
  /\ builds \in Seq(Versions) /\ Build \in Nat \ {0}
  /\ PairInv /\ VersionInv /\ OriginInv /\ DoomedInv

\* The invariant says what the property says of the version file's number.
LEMMA PublishedHasPair ==
  ASSUME PublishInv
  PROVE  AdvertisedIsWhole
<1>1. 0 \notin Versions
  BY DeployAssumption
<1>2. Published # 0 => Published \in Versions /\ version = TextOf[Published]
  BY <1>1 DEF Published
<1>3. QED
  BY <1>2 DEF PublishInv, OriginInv, AdvertisedIsWhole

\* The invariant holds at first.
LEMMA PublishInit ==
  ASSUME DeployInit
  PROVE  PublishInv
<1>1. PICK v \in Versions, w \in Versions :
        /\ v < w /\ builds = <<v, w>>
        /\ bin = [f \in {v, w} |-> IF f = v THEN ImageOf[1] ELSE ImageOf[2]]
        /\ sha = [f \in {v, w} |-> IF f = v THEN ShaOf[1] ELSE ShaOf[2]]
        /\ version = TextOf[v] \/ version = TextOf[w]
  BY DEF DeployInit
<1>2. /\ builds \in Seq(Versions) /\ Build = 2 /\ builds[1] = v /\ builds[2] = w
  BY <1>1 DEF Build
<1>3. v # w
  BY <1>1, DeployAssumption
<1>4. PairIs(v, 1) /\ PairIs(w, 2)
  BY <1>1, <1>3 DEF PairIs
<1>5. script = "idle" /\ doomed = 0
  BY DEF DeployInit
<1>6. OriginInv
  BY <1>1, <1>2, <1>4, <1>5, TextsDiffer DEF OriginInv, Copying
<1>7. QED
  BY <1>2, <1>5, <1>6 DEF PublishInv, PairInv, VersionInv, DoomedInv

\* Putting a file of the current run in place keeps the pair of every version
\* that has one run only.
LEMMA CopyKeepsOrigin ==
  ASSUME PublishInv, Copying, NEW content,
         \/ bin' = Put(bin, Version, content) /\ sha' = sha
         \/ sha' = Put(sha, Version, content) /\ bin' = bin,
         UNCHANGED <<builds, version>>
  PROVE  OriginInv'
<1> SUFFICES ASSUME NEW v \in Versions, version = TextOf[v]
             PROVE  \E b \in 1..Build :
                      /\ builds[b] = v /\ b < Build
                      /\ BuiltOnce(v) => PairIs(v, b)'
  BY DEF OriginInv, Build, BuiltOnce
<1>1. PICK b \in 1..Build :
        builds[b] = v /\ b < Build /\ (BuiltOnce(v) => PairIs(v, b))
  BY DEF PublishInv, OriginInv
<1>2. ASSUME BuiltOnce(v) PROVE PairIs(v, b)'
  <2>1. Version # v
    BY <1>1, <1>2 DEF BuiltOnce, Version, PublishInv
  <2>2. QED
    BY <1>1, <1>2, <2>1, PutIs DEF PairIs
<1>3. QED  BY <1>1, <1>2

\* Building an image adds a run and touches no file.
LEMMA BuildStep ==
  ASSUME PublishInv, BuildImage
  PROVE  PublishInv'
<1>1. PICK w \in Versions : builds' = Append(builds, w)
  BY DEF BuildImage
<1>2. /\ builds' \in Seq(Versions) /\ Build' = Build + 1 /\ Build \in Nat \ {0}
      /\ \A b \in 1..Build : builds'[b] = builds[b]
  BY <1>1 DEF PublishInv, Build
<1>3. script' = "bin" /\ UNCHANGED files /\ doomed' = 0
  BY DEF BuildImage, Commands, PublishInv, DoomedInv
<1>4. ASSUME NEW v \in Versions, version' = TextOf[v]
      PROVE  \E b \in 1..Build' :
               /\ builds'[b] = v /\ b < Build'
               /\ BuiltOnce(v)' => PairIs(v, b)'
  <2>1. PICK b \in 1..Build : builds[b] = v /\ (BuiltOnce(v) => PairIs(v, b))
    BY <1>3, <1>4 DEF PublishInv, OriginInv, files
  <2>2. BuiltOnce(v)' => BuiltOnce(v)
    BY <1>2 DEF BuiltOnce
  <2>3. PairIs(v, b)' <=> PairIs(v, b)
    BY <1>3 DEF PairIs, files
  <2>4. QED  BY <1>2, <2>1, <2>2, <2>3
<1>5. OriginInv'
  BY <1>4 DEF OriginInv
<1>6. QED
  BY <1>2, <1>3, <1>5 DEF PublishInv, PairInv, VersionInv, DoomedInv

\* The copies end with the whole pair of the current run in place.
LEMMA CopyStep ==
  ASSUME PublishInv, CopyBin \/ CopySha
  PROVE  PublishInv'
<1>1. PICK content :
        /\ Copying /\ UNCHANGED <<builds, version>>
        /\ \/ bin' = Put(bin, Version, content) /\ sha' = sha
           \/ sha' = Put(sha, Version, content) /\ bin' = bin
  BY DEF CopyBin, CopySha, Copying
<1>2. OriginInv'
  BY <1>1, CopyKeepsOrigin
<1>3. script' \in {"binRest", "sha", "shaRest", "version"}
  BY CommandOrder DEF CopyBin, CopySha
<1>4. UNCHANGED <<Version, Build>>
  BY <1>1 DEF Version, Build
<1>5. PairInv'
  <2>1. CASE CopyBin
    BY <1>4, <2>1, PutIs, CommandOrder DEF CopyBin, PairInv
  <2>2. CASE CopySha
    BY <1>4, <2>2, PutIs, CommandOrder DEF CopySha, PairInv, PairIs, PublishInv
  <2>3. QED  BY <2>1, <2>2
<1>6. doomed' = 0
  BY DEF CopyBin, CopySha, PublishInv, DoomedInv
<1>7. QED
  BY <1>1, <1>2, <1>3, <1>4, <1>5, <1>6 DEF PublishInv, VersionInv, DoomedInv

\* The version file is rewritten over a whole pair.
LEMMA VersionStep ==
  ASSUME PublishInv, WriteVersion
  PROVE  PublishInv'
<1>1. UNCHANGED <<builds, bin, sha, Version, Build>> /\ doomed' = 0
  BY DEF WriteVersion, Version, Build, PublishInv, DoomedInv
<1>2. CASE script = "version"
  <2>1. script' = "versionRest" /\ version' = <<>>
    BY <1>2 DEF WriteVersion
  <2>2. QED
    BY <1>1, <1>2, <2>1, TextsDiffer
    DEF PublishInv, PairInv, PairIs, VersionInv, OriginInv, DoomedInv
<1>3. CASE script = "versionRest"
  <2>1. script' = "prune" /\ version' = TextOf[Version] /\ PairIs(Version, Build)
    BY <1>3, CommandOrder DEF WriteVersion, PublishInv, PairInv
  <2>2. PairIs(Version, Build)' /\ PairInv' /\ VersionInv'
    BY <1>1, <2>1 DEF PairInv, PairIs, VersionInv
  <2>3. Version \in Versions /\ builds[Build] = Version /\ Build \in 1..Build
    BY DEF PublishInv, Version, Build
  <2>4. OriginInv'
    BY <1>1, <2>1, <2>2, <2>3, TextsDiffer DEF OriginInv, Copying
  <2>5. QED  BY <1>1, <2>2, <2>4 DEF PublishInv, DoomedInv
<1>4. QED  BY <1>2, <1>3 DEF WriteVersion

\* The pair that is published is not pruned.
LEMMA PruneStep ==
  ASSUME PublishInv, Prune
  PROVE  PublishInv'
<1>1. UNCHANGED <<builds, version, Version, Build>> /\ script' \in {"prune", "trigger"}
  BY DEF Prune, Version, Build
<1>2. PairIs(Version, Build) /\ version = TextOf[Version]
  BY DEF PublishInv, PairInv, VersionInv, Prune
<1>3. Version # doomed
  BY <1>2, DeployAssumption DEF PublishInv, DoomedInv, PairIs, Version, Build
<1>4. PairIs(Version, Build)'
  <2>1. CASE \E v \in DOMAIN bin : ~Kept(v) /\ bin' = Restrict(bin, DOMAIN bin \ {v}) /\ sha' = sha
    BY <1>1, <1>2, <2>1 DEF Kept, PairIs, Restrict
  <2>2. CASE sha' = Restrict(sha, DOMAIN sha \ {doomed}) /\ bin' = bin
    BY <1>1, <1>2, <1>3, <2>2 DEF PairIs, Restrict
  <2>3. CASE UNCHANGED <<bin, sha>>
    BY <1>1, <1>2, <2>3 DEF PairIs
  <2>4. QED  BY <2>1, <2>2, <2>3 DEF Prune
<1>5. Version \in Versions /\ builds[Build] = Version /\ Build \in 1..Build
  BY DEF PublishInv, Version, Build
<1>6. OriginInv'
  BY <1>1, <1>2, <1>4, <1>5, TextsDiffer DEF OriginInv, Copying
<1>7. DoomedInv'
  BY DEF Prune, Restrict, DoomedInv
<1>8. QED
  BY <1>1, <1>2, <1>4, <1>6, <1>7 DEF PublishInv, PairInv, VersionInv

\* Every step keeps the invariant.
LEMMA PublishStep ==
  ASSUME PublishInv, [Next]_vars
  PROVE  PublishInv'
<1>1. CASE Script
  BY <1>1, BuildStep, CopyStep, VersionStep, PruneStep DEF Script
<1>2. CASE script # "prune" /\ script' = "idle" /\ UNCHANGED <<builds, files, doomed>>
  BY <1>2
  DEF files, PublishInv, PairInv, VersionInv, OriginInv, DoomedInv, Copying, Build,
      Version, BuiltOnce, PairIs
<1>3. CASE UNCHANGED deployVars
  BY <1>3
  DEF deployVars, files, PublishInv, PairInv, VersionInv, OriginInv, DoomedInv, Copying,
      Build, Version, BuiltOnce, PairIs
<1>4. CASE Announce \/ ScriptFails
  BY <1>2, <1>4 DEF Announce, Publish, ScriptFails, Abort
<1>5. CASE Check \/ FetchFails \/ PowerLoss \/ Overtaken \/ ConnectionCut \/ CalmChanges
  BY <1>3, <1>5
  DEF Check, CheckStarts, Request, HeadArrives, HeadOver, HeadCut, BodyArrives,
      GotVersion, NextGet, NoUpdate, GotSha, ShaInvalid, GotImage, ImageRefused, SysReset,
      Boot, BackToWait, FetchFails, PowerLoss, Overtaken, ConnectionCut, CalmChanges
<1>6. QED
  BY <1>1, <1>3, <1>4, <1>5 DEF Next, vars

\* The version the server names has its whole pair, through copies and runs
\* that fail anywhere, if no other run used the same VERSION.
THEOREM AdvertisedStaysWhole == Spec => []AdvertisedIsWhole
<1>1. Init => PublishInv
  BY PublishInit DEF Init
<1>2. PublishInv => AdvertisedIsWhole
  BY PublishedHasPair
<1>3. QED
  BY <1>1, <1>2, PublishStep, PTL DEF Spec

-----------------------------------------------------------------------------
(***************************************************************************)
(* What pruning keeps.  It takes the largest version below the current     *)
(* one, so sets of versions need one.                                      *)
(***************************************************************************)
\* A set of digits has a largest one.
LEMMA LargestDigit ==
  ASSUME NEW T \in SUBSET (0..9), T # {}
  PROVE  \E m \in T : \A w \in T : w <= m
<1>1. CASE \E m \in T : m >= 5
  <2>1. \A w \in T : w \in {0, 1, 2, 3, 4, 5, 6, 7, 8, 9}
    OBVIOUS
  <2>2. QED  BY <1>1, <2>1
<1>2. CASE \A m \in T : m < 5
  <2>1. \A w \in T : w \in {0, 1, 2, 3, 4}
    BY <1>2
  <2>2. PICK m \in T : TRUE
    OBVIOUS
  <2>3. CASE 4 \in T  BY <2>1, <2>3
  <2>4. CASE 4 \notin T /\ 3 \in T  BY <2>1, <2>4
  <2>5. CASE 4 \notin T /\ 3 \notin T  BY <2>1, <2>2, <2>5
  <2>6. QED  BY <2>3, <2>4, <2>5
<1>3. QED  BY <1>1, <1>2

\* And so has a set of versions.
LEMMA Largest ==
  ASSUME NEW T \in SUBSET (0..99), T # {}
  PROVE  \E m \in T : \A w \in T : w <= m
<1> DEFINE I == {w \div 10 : w \in T}
<1>1. I \in SUBSET (0..9) /\ I # {}
  <2>1. \A w \in T : w \div 10 \in 0..9
    OBVIOUS
  <2>2. PICK w \in T : TRUE
    OBVIOUS
  <2>3. w \div 10 \in I
    OBVIOUS
  <2>4. QED  BY <2>1, <2>3
<1>2. PICK i \in I : \A j \in I : j <= i
  BY <1>1, LargestDigit
<1> DEFINE U == {w % 10 : w \in {x \in T : x \div 10 = i}}
<1>3. U \in SUBSET (0..9) /\ U # {}
  OBVIOUS
<1>4. PICK u \in U : \A j \in U : j <= u
  BY <1>3, LargestDigit
<1>5. PICK m \in T : m \div 10 = i /\ m % 10 = u
  OBVIOUS
<1>6. ASSUME NEW w \in T PROVE w <= m
  <2>1. w \div 10 <= i /\ (w \div 10 = i => w % 10 <= u)
    BY <1>2, <1>4
  <2>2. QED  BY <1>5, <2>1
<1>7. QED  BY <1>5, <1>6

\* The last version named keeps its pair, and so does the one before it unless
\* pruning had a reason to prefer another.
KeptInv ==
  /\ latest \in Versions /\ prior \in Versions \union {0} /\ doomed \in Versions \union {0}
  /\ DOMAIN bin \subseteq Versions
  /\ latest \in DOMAIN bin \intersect DOMAIN sha
  /\ script \in {"prune", "trigger"} => latest = Version
  /\ PreviousIsKept

\* The invariant holds at first.
LEMMA KeptInit ==
  ASSUME DeployInit
  PROVE  KeptInv
<1>1. PICK v \in Versions, w \in Versions :
        /\ bin = [f \in {v, w} |-> IF f = v THEN ImageOf[1] ELSE ImageOf[2]]
        /\ sha = [f \in {v, w} |-> IF f = v THEN ShaOf[1] ELSE ShaOf[2]]
        /\ (latest = v /\ prior = 0) \/ (latest = w /\ prior = v)
  BY DEF DeployInit
<1>2. DOMAIN bin = {v, w} /\ DOMAIN sha = {v, w}
  BY <1>1
<1>3. PreviousIsKept
  BY <1>1, <1>2 DEF PreviousIsKept
<1>4. QED
  BY <1>1, <1>2, <1>3 DEF DeployInit, KeptInv

\* A copy adds files and takes none away.
LEMMA CopyKeeps ==
  ASSUME PublishInv, KeptInv, CopyBin \/ CopySha
  PROVE  KeptInv'
<1>1. Version \in Versions /\ UNCHANGED Version
  BY DEF PublishInv, Version, Build, CopyBin, CopySha
<1>2. /\ DOMAIN bin \subseteq DOMAIN bin' /\ DOMAIN bin' \subseteq Versions
      /\ DOMAIN sha \subseteq DOMAIN sha'
  BY <1>1 DEF CopyBin, CopySha, Put, KeptInv
<1>3. UNCHANGED <<latest, prior, doomed>> /\ script' \notin {"prune", "trigger"}
  BY CommandOrder DEF CopyBin, CopySha, past
<1>4. PreviousIsKept'
  BY <1>2, <1>3 DEF KeptInv, PreviousIsKept
<1>5. QED
  BY <1>2, <1>3, <1>4 DEF KeptInv

\* The version that steps back had its pair.
LEMMA VersionKeeps ==
  ASSUME PublishInv, KeptInv, WriteVersion
  PROVE  KeptInv'
<1>1. UNCHANGED <<bin, sha, Version, doomed>>
  BY DEF WriteVersion, Version, Build
<1>2. CASE script = "version"
  BY <1>1, <1>2 DEF WriteVersion, past, KeptInv, PreviousIsKept
<1>3. CASE script = "versionRest"
  <2>1. /\ latest' = Version /\ prior' = IF latest = Version THEN prior ELSE latest
    BY <1>3 DEF WriteVersion
  <2>2. Version \in Versions /\ Version \in DOMAIN bin \intersect DOMAIN sha
    BY <1>3 DEF PublishInv, PairInv, PairIs, Version, Build
  <2>3. PreviousIsKept'
    BY <1>1, <2>1 DEF KeptInv, PreviousIsKept
  <2>4. QED
    BY <1>1, <2>1, <2>2, <2>3 DEF KeptInv
<1>4. QED  BY <1>2, <1>3 DEF WriteVersion

\* The previous version is the largest one below, or another one is between.
LEMMA PruneKeeps ==
  ASSUME PublishInv, KeptInv, Prune
  PROVE  KeptInv'
<1>1. UNCHANGED <<Version, latest, prior>> /\ latest = Version
  BY DEF Prune, Version, Build, past, KeptInv
<1>2. /\ DOMAIN bin' \subseteq DOMAIN bin
      /\ \A v \in DOMAIN bin : Kept(v) => v \in DOMAIN bin'
      /\ \A v \in DOMAIN bin \intersect DOMAIN sha : v \in DOMAIN sha'
      /\ doomed' \in DOMAIN bin \union {0} /\ script' \in {"prune", "trigger"}
  <2>1. CASE \E v \in DOMAIN bin :
               /\ ~Kept(v) /\ bin' = Restrict(bin, DOMAIN bin \ {v}) /\ doomed' = v
               /\ sha' = sha /\ script' = script
    BY <2>1 DEF Prune, Restrict
  <2>2. CASE /\ sha' = Restrict(sha, DOMAIN sha \ {doomed}) /\ doomed' = 0 /\ doomed # 0
             /\ bin' = bin /\ script' = script
    <3>1. doomed \notin DOMAIN bin
      BY <2>2 DEF PublishInv, DoomedInv
    <3>2. QED  BY <2>2, <3>1 DEF Prune, Restrict
  <2>3. CASE script' = "trigger" /\ doomed' = 0 /\ UNCHANGED <<bin, sha>>
    BY <2>3
  <2>4. QED  BY <2>1, <2>2, <2>3 DEF Prune
<1>3. Kept(Version)
  BY DEF Kept
<1>4. \A v \in Versions : v \in 0..99
  BY DeployAssumption
<1>5. \A v \in DOMAIN bin : v \in 0..99
  BY <1>4 DEF KeptInv
<1>6. PreviousIsKept'
  <2>1. SUFFICES ASSUME prior # 0, prior < Version,
                        \A w \in DOMAIN bin' : ~(prior < w /\ w < Version)
                 PROVE  prior \in DOMAIN bin' \intersect DOMAIN sha'
    BY <1>1 DEF PreviousIsKept
  <2> DEFINE T == {w \in DOMAIN bin : w < Version}
  <2>2. ASSUME NEW w \in T PROVE w <= prior
    <3>1. T \in SUBSET (0..99) /\ T # {}
      BY <1>5, <2>2
    <3>2. PICK m \in T : \A x \in T : x <= m
      BY <3>1, Largest
    <3>3. Kept(m)
      BY <1>1, <3>2 DEF Kept
    <3>4. m \in DOMAIN bin'
      BY <1>2, <3>2, <3>3
    <3>5. m <= prior
      BY <2>1, <3>1, <3>2, <3>4, DeployAssumption DEF KeptInv
    <3>6. QED  BY <2>2, <3>1, <3>2, <3>5, DeployAssumption DEF KeptInv
  <2>3. prior \in DOMAIN bin \intersect DOMAIN sha
    <3>1. prior \in 0..99 /\ Version \in 0..99
      BY <1>1, <1>4 DEF KeptInv
    <3>2. \A w \in DOMAIN bin : ~(prior < w /\ w < Version)
      BY <1>5, <2>2, <3>1
    <3>3. QED
      BY <1>1, <2>1, <3>2 DEF KeptInv, PreviousIsKept
  <2>4. Kept(prior)
    BY <2>1, <2>2 DEF Kept
  <2>5. QED  BY <1>2, <2>3, <2>4
<1>7. QED
  BY <1>1, <1>2, <1>3, <1>6 DEF KeptInv

\* Every step keeps the invariant.
LEMMA KeptStep ==
  ASSUME PublishInv, KeptInv, [Next]_vars
  PROVE  KeptInv'
<1>1. CASE BuildImage
  <2>1. script' = "bin" /\ UNCHANGED <<files, doomed>>
    BY <1>1 DEF BuildImage, Commands
  <2>2. QED
    BY <2>1 DEF files, past, KeptInv, PreviousIsKept
<1>2. CASE Script
  BY <1>1, <1>2, CopyKeeps, VersionKeeps, PruneKeeps DEF Script
<1>3. CASE script' = "idle" /\ UNCHANGED <<builds, files, doomed>>
  BY <1>3 DEF files, past, KeptInv, PreviousIsKept
<1>4. CASE UNCHANGED deployVars
  BY <1>4 DEF deployVars, files, past, KeptInv, PreviousIsKept, Version, Build
<1>5. CASE Announce \/ ScriptFails
  BY <1>3, <1>5 DEF Announce, Publish, ScriptFails, Abort
<1>6. CASE Check \/ FetchFails \/ PowerLoss \/ Overtaken \/ ConnectionCut \/ CalmChanges
  BY <1>4, <1>6
  DEF Check, CheckStarts, Request, HeadArrives, HeadOver, HeadCut, BodyArrives,
      GotVersion, NextGet, NoUpdate, GotSha, ShaInvalid, GotImage, ImageRefused, SysReset,
      Boot, BackToWait, FetchFails, PowerLoss, Overtaken, ConnectionCut, CalmChanges
<1>7. QED
  BY <1>2, <1>4, <1>5, <1>6 DEF Next, vars

\* A device that read the version published before the last one still finds its
\* pair, however many runs there were, if the version has risen since and no run
\* that failed left a pair in between.
THEOREM PreviousStaysKept == Spec => []PreviousIsKept
<1>1. Init => PublishInv /\ KeptInv
  BY PublishInit, KeptInit DEF Init
<1>2. KeptInv => PreviousIsKept
  BY DEF KeptInv
<1>3. QED
  BY <1>1, <1>2, PublishStep, KeptStep, PTL DEF Spec
=============================================================================
