------------------------------- MODULE Deploy -------------------------------
(***************************************************************************)
(* deploy.sh and the directory it publishes to: the image and its digest   *)
(* are copied, the version file is rewritten, older pairs are pruned and   *)
(* the device is told, each by a remote command of its own that may fail   *)
(* half way.  A build is one run of the script; builds of the same VERSION *)
(* differ in content and share their file names.                           *)
(*                                                                         *)
(* The files are sequences of the tokens HttpHead describes: "block" and   *)
(* "hex" carry the build they come from, "digit" its value, "nl" the end   *)
(* of the line a text is written with.                                     *)
(***************************************************************************)
EXTENDS Naturals, SequencesExt

CONSTANTS
  Versions,   \* what VERSION may say
  NumBlocks,  \* blocks of an image
  HexLen,     \* hex digits of a SHA-256, in tokens
  MaxBuilds   \* bound: runs of the script, the first two included

ASSUME DeployAssumption ==
  /\ Versions \subseteq 1..99
  /\ NumBlocks \in Nat \ {0} /\ HexLen \in Nat \ {0} /\ MaxBuilds \in Nat \ {0, 1}

VARIABLES
  script,    \* the command deploy.sh is at, or idle
  builds,    \* VERSION of every run so far, the last one being the current
  bin, sha,  \* contents of {version}.bin and {version}.bin.sha256 (external)
  version,   \* contents of the version file (external)
  doomed,    \* version whose image is gone and whose digest rm takes next, or 0
  latest,    \* history: the last version the version file has named
  prior      \* history: the version it named before that one; 0 if none

past == <<latest, prior>>
files == <<bin, sha, version, past>>
deployVars == <<script, builds, files, doomed>>

Times(token, n) == [i \in 1..n |-> token]
ImageOf == [b \in 1..MaxBuilds |-> Times(<<"block", b>>, NumBlocks)]
Nl == <<"nl", 0>>
HexOf == [b \in 1..MaxBuilds |-> Times(<<"hex", b>>, HexLen)]
ShaOf == [b \in 1..MaxBuilds |-> HexOf[b] \o <<Nl>>]
Digits(v) == IF v < 10 THEN <<v>> ELSE <<v \div 10, v % 10>>
TextOf ==
  [v \in Versions |-> [i \in DOMAIN Digits(v) |-> <<"digit", Digits(v)[i]>>] \o <<Nl>>]

Build == Len(builds)
Version == builds[Build]

\* The version the version file names; 0 while it is being rewritten.
Published ==
  IF \E v \in Versions : version = TextOf[v]
  THEN CHOOSE v \in Versions : version = TextOf[v]
  ELSE 0

\* The pair of version v is that of one build.
PairIs(v, b) ==
  /\ v \in DOMAIN bin /\ bin[v] = ImageOf[b]
  /\ v \in DOMAIN sha /\ sha[v] = ShaOf[b]

\* The script has run twice, with rising versions: both runs published, or the
\* second one failed behind its copies.
DeployInit ==
  /\ script = "idle" /\ doomed = 0
  /\ \E v, w \in Versions :
       /\ v < w
       /\ builds = <<v, w>>
       /\ bin = [f \in {v, w} |-> IF f = v THEN ImageOf[1] ELSE ImageOf[2]]
       /\ sha = [f \in {v, w} |-> IF f = v THEN ShaOf[1] ELSE ShaOf[2]]
       /\ \/ latest = v /\ prior = 0
          \/ latest = w /\ prior = v
  /\ version = TextOf[latest]

\* Mutant: the version is published before its pair is there.
VersionFirst == <<"version", "bin", "sha", "prune", "trigger">>

\* The commands, in order.
Commands == <<"bin", "sha", "version", "prune", "trigger">>

Then(command) == Commands[1 + CHOOSE i \in DOMAIN Commands : Commands[i] = command]

\* The build, the size check and the hash are local: no file is touched.
BuildImage ==
  /\ script = "idle"
  /\ Build < MaxBuilds
  /\ \E v \in Versions : builds' = Append(builds, v)
  /\ script' = Commands[1]
  /\ UNCHANGED <<files, doomed>>

\* A file that is being written over: cut to nothing, or the new one almost
\* whole, followed by what is left of the old.
Partial(old, new) ==
  {<<>>, SubSeq(new, 1, Len(new) - 1) \o SubSeq(old, Len(new), Len(old))}

Contents(store, v) == IF v \in DOMAIN store THEN store[v] ELSE <<>>
Put(store, v, content) ==
  [f \in DOMAIN store \union {v} |-> IF f = v THEN content ELSE store[f]]

\* scp of the image: under way, then complete.
CopyBin ==
  \/ /\ script = "bin" /\ script' = "binRest"
     /\ \E c \in Partial(Contents(bin, Version), ImageOf[Build]) : bin' = Put(bin, Version, c)
     /\ UNCHANGED <<builds, sha, version, past, doomed>>
  \/ /\ script = "binRest" /\ script' = Then("bin")
     /\ bin' = Put(bin, Version, ImageOf[Build])
     /\ UNCHANGED <<builds, sha, version, past, doomed>>

\* scp of the digest.
CopySha ==
  \/ /\ script = "sha" /\ script' = "shaRest"
     /\ \E c \in Partial(Contents(sha, Version), ShaOf[Build]) : sha' = Put(sha, Version, c)
     /\ UNCHANGED <<builds, bin, version, past, doomed>>
  \/ /\ script = "shaRest" /\ script' = Then("sha")
     /\ sha' = Put(sha, Version, ShaOf[Build])
     /\ UNCHANGED <<builds, bin, version, past, doomed>>

\* printf > version: the shell truncates the file, printf writes it at once.
WriteVersion ==
  \/ /\ script = "version" /\ script' = "versionRest"
     /\ version' = <<>>
     /\ UNCHANGED <<builds, bin, sha, past, doomed>>
  \/ /\ script = "versionRest" /\ script' = Then("version")
     /\ version' = TextOf[Version]
     /\ latest' = Version /\ prior' = IF latest = Version THEN prior ELSE latest
     /\ UNCHANGED <<builds, bin, sha, doomed>>

\* Mutant: nothing but the current version is kept.
KeptCurrentOnly(v) == v = Version

\* The current version and the largest below it.
Kept(v) ==
  \/ v = Version
  \/ v < Version /\ \A w \in DOMAIN bin : w < Version => w <= v

\* rm of the pairs that are not kept, one file after the other, the image of a
\* pair first; the command is over, or fails, between any two of them.
Prune ==
  /\ script = "prune"
  /\ \/ /\ doomed = 0
        /\ \E v \in DOMAIN bin :
             ~Kept(v) /\ bin' = Restrict(bin, DOMAIN bin \ {v}) /\ doomed' = v
        /\ UNCHANGED <<sha, script>>
     \/ /\ doomed # 0
        /\ sha' = Restrict(sha, DOMAIN sha \ {doomed}) /\ doomed' = 0
        /\ UNCHANGED <<bin, script>>
     \/ script' = "trigger" /\ doomed' = 0 /\ UNCHANGED <<bin, sha>>
  /\ UNCHANGED <<builds, version, past>>

\* mosquitto_pub.
Publish ==
  /\ script = "trigger" /\ script' = "idle"
  /\ UNCHANGED <<builds, files, doomed>>

\* set -e: any other command that fails ends the run where it is.
Abort ==
  /\ script \notin {"idle", "prune", "trigger"}
  /\ script' = "idle"
  /\ UNCHANGED <<builds, files, doomed>>
=============================================================================
