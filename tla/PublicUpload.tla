------------------------------ MODULE PublicUpload ------------------------------
(***************************************************************************)
(* The three public files (telemetry.TelemetryPublisher.publish), their    *)
(* way to the branch on GitHub (public_upload.GitHubPagesPublisher) and    *)
(* the mirror of that branch in the local checkout.                        *)
(*                                                                         *)
(* The branch is shared: others push to it, and somebody works in the      *)
(* checkout, while the publisher is between two of its requests or two of  *)
(* its git commands.  Each request and each git command is an action.      *)
(*                                                                         *)
(* A tree is the version of each public file and one version for all other *)
(* files, the source.  A commit knows all the commits behind it.           *)
(***************************************************************************)
EXTENDS Integers, Sequences

CONSTANTS MaxSnaps,    \* bound: snapshots with a content of their own
          MaxSources,  \* bound: versions of the source
          MaxCommits,  \* bound: commits after which others make no more
          MaxFaults    \* bound: failed writes, requests, lost answers, kills

ASSUME BoundsAssumption ==
  /\ MaxSnaps \in Nat \ {0} /\ MaxSources \in Nat
  /\ MaxCommits \in Nat \ {0} /\ MaxFaults \in Nat

VARIABLES
  snap,        \* the snapshot of the current pass
  files,       \* the public files on disk, as versions
  commits,     \* all commits there are
  remote,      \* the branch on GitHub
  local,       \* the branch of the checkout
  index,       \* its index
  source,      \* the source in its working tree
  sources,     \* versions of the source made so far
  pc,          \* where the publisher is in its pass
  written,     \* files the pass has written
  base,        \* the commit read from GitHub
  new,         \* the commit made from it
  head,        \* the local commit the mirror has read
  lastDigest,  \* what the process remembers to have published
  cool,        \* less than interval_s since last_publish_monotonic
  faults,      \* faults left
  recent,      \* history: less than interval_s since a publish took effect
  excused,     \* history: the process does not know of that publish
  quiet        \* fixed in a behaviour: nobody works in the checkout while
               \* the mirror runs

disk == <<snap, files>>
checkout == <<local, index, source, sources>>
process == <<pc, written, base, new, head>>
memory == <<lastDigest, cool>>
history == <<recent, excused>>
vars == <<disk, commits, remote, checkout, process, memory, faults, history, quiet>>

PublicFiles == 1..3                \* latest, events, scenarios: as written
Versions == [PublicFiles -> 0..MaxSnaps]
Trees == [pub : Versions, src : 0..MaxSources]
Nothing == <<>>

Line(c) == commits[c].past \cup {c}
Tree(c) == commits[c].tree
Child(parent, tree, by) == [tree |-> tree, past |-> Line(parent), by |-> by]
Whole(pub) == \A i, j \in PublicFiles : pub[i] = pub[j]

TypeOK ==
  /\ snap \in 0..MaxSnaps /\ files \in Versions
  /\ \A c \in 1..Len(commits) :
       commits[c] \in [tree : Trees, past : SUBSET (1..(c - 1)), by : {"manager", "other"}]
  /\ {remote, local} \subseteq 1..Len(commits)
  /\ index \in Trees /\ {source, sources} \subseteq 0..MaxSources
  /\ pc \in {"idle", "write", "ready", "based", "landed", "headed", "clean",
             "indexed", "done"}
  /\ written \in 0..3
  /\ {base, new, head} \subseteq 0..Len(commits)
  /\ lastDigest \in {pub \in Versions : Whole(pub)} \cup {Nothing}
  /\ {cool, recent, excused, quiet} \subseteq BOOLEAN
  /\ faults \in 0..MaxFaults

Start == [pub |-> [f \in PublicFiles |-> 0], src |-> 0]

Idle == pc' = "idle" /\ written' = 0 /\ base' = 0 /\ new' = 0 /\ head' = 0

Init ==
  /\ snap = 0 /\ files = Start.pub
  /\ commits = <<[tree |-> Start, past |-> {}, by |-> "other"]>>
  /\ remote = 1 /\ local = 1
  /\ index = Start /\ source = 0 /\ sources = 0
  /\ pc = "idle" /\ written = 0 /\ base = 0 /\ new = 0 /\ head = 0
  /\ lastDigest = Nothing /\ cool = FALSE
  /\ faults = MaxFaults
  /\ recent = FALSE /\ excused = FALSE
  /\ quiet \in BOOLEAN

-----------------------------------------------------------------------------
(* The local snapshot: one atomic replacement per file.                    *)

\* A pass brings a new content; the last content stays when there is no more.
Pass ==
  /\ pc = "idle"
  /\ snap' = IF snap < MaxSnaps THEN snap + 1 ELSE snap
  /\ pc' = "write" /\ written' = 0
  /\ UNCHANGED <<files, commits, remote, checkout, base, new, head, memory, faults, history, quiet>>

WriteFile ==
  /\ pc = "write"
  /\ files' = [files EXCEPT ![written + 1] = snap]
  /\ written' = written + 1
  /\ pc' = IF written' = 3 THEN "ready" ELSE pc
  /\ UNCHANGED <<snap, commits, remote, checkout, base, new, head, memory, faults, history, quiet>>

\* The rest of the pass: the upload is left out when the snapshot is deferred.
UploadsAnyway == pc' = "ready" /\ UNCHANGED <<written, base, new, head>>  \* faulty variant
AfterDeferredSnapshot == Idle

WriteFails ==
  /\ pc = "write" /\ faults > 0
  /\ AfterDeferredSnapshot
  /\ faults' = faults - 1
  /\ UNCHANGED <<disk, commits, remote, checkout, memory, history, quiet>>

-----------------------------------------------------------------------------
(* maybe_publish, publish                                                  *)

Unchanged == files = lastDigest

NotDue ==
  /\ pc = "ready"
  /\ cool \/ Unchanged
  /\ Idle
  /\ UNCHANGED <<disk, commits, remote, checkout, memory, faults, history, quiet>>

ReadBranch ==
  /\ pc = "ready"
  /\ ~cool /\ ~Unchanged
  /\ base' = remote
  /\ pc' = "based"
  /\ UNCHANGED <<disk, commits, remote, checkout, written, new, head, memory, faults, history, quiet>>

\* A publish that failed is not remembered: the next pass tries again at once.
Remembered == lastDigest' = files /\ UNCHANGED cool  \* faulty variant
NotRemembered == UNCHANGED memory

\* No answer, or one that cannot be used, before the branch is updated.
RequestFails ==
  /\ pc \in {"ready", "based"} /\ faults > 0
  /\ pc = "ready" => ~cool /\ ~Unchanged
  /\ Idle /\ NotRemembered
  /\ faults' = faults - 1
  /\ UNCHANGED <<disk, commits, remote, checkout, history, quiet>>

\* Blobs, tree and commit are objects nobody sees before the branch is moved.
Snapshot == Child(base, [Tree(base) EXCEPT !.pub = files], "manager")

\* The branch is updated without force: only forward.
Forced == TRUE                           \* faulty variant
FastForward == remote \in Snapshot.past

BranchUpdated ==
  /\ commits' = Append(commits, Snapshot)
  /\ remote' = Len(commits')
  /\ recent' = TRUE

UpdateBranch ==
  /\ pc = "based" /\ FastForward
  /\ BranchUpdated
  /\ new' = remote' /\ excused' = FALSE
  /\ pc' = "landed"
  /\ UNCHANGED <<disk, checkout, written, base, head, memory, faults, quiet>>

\* GitHub has moved the branch, and the publisher does not hear of it.
AnswerLost ==
  /\ pc = "based" /\ FastForward /\ faults > 0
  /\ BranchUpdated
  /\ excused' = TRUE
  /\ Idle
  /\ faults' = faults - 1
  /\ UNCHANGED <<disk, checkout, memory, quiet>>

Rejected ==
  /\ pc = "based" /\ ~FastForward
  /\ Idle /\ NotRemembered
  /\ UNCHANGED <<disk, commits, remote, checkout, faults, history, quiet>>

-----------------------------------------------------------------------------
(* _mirror_local_ref: the commands of git, one by one.                     *)

MirrorSteps == {"landed", "headed", "clean", "indexed"}

\* A command fails or says no (an untracked file, a worker on another branch,
\* an index that is locked): what has been done so far stays.
Defer ==
  /\ pc \in MirrorSteps
  /\ pc' = "done"
  /\ UNCHANGED <<disk, commits, remote, checkout, written, base, new, head, memory, faults, history, quiet>>

\* git rev-parse HEAD
ReadHead ==
  /\ pc = "landed"
  /\ head' = local
  /\ pc' = "headed"
  /\ UNCHANGED <<disk, commits, remote, checkout, written, base, new, memory, faults, history, quiet>>

\* git status: only the public files may differ, and only in the working tree.
Staged == index # Tree(local)
CleanCheckout == ~Staged /\ source = index.src

ReadStatus ==
  /\ pc = "headed" /\ CleanCheckout
  /\ pc' = "clean"
  /\ UNCHANGED <<disk, commits, remote, checkout, written, base, new, head, memory, faults, history, quiet>>

\* git fetch and merge-base --is-ancestor, then git read-tree: the index is
\* moved before the branch.
ReadTree ==
  /\ pc = "clean"
  /\ head \in Line(new)
  /\ index' = Tree(new)
  /\ pc' = "indexed"
  /\ UNCHANGED <<disk, commits, remote, local, source, sources, written, base, new, head, memory, faults, history, quiet>>

\* git update-ref with the old value: refused when the branch has moved.
HeadIgnored == TRUE                      \* faulty variant
HeadUnmoved == local = head

MoveBranch ==
  /\ pc = "indexed" /\ HeadUnmoved
  /\ local' = new
  /\ pc' = "done"
  /\ UNCHANGED <<disk, commits, remote, index, source, sources, written, base, new, head, memory, faults, history, quiet>>

\* The end of publish(): only now is the publish remembered.
CooldownForgotten == UNCHANGED cool      \* faulty variant
CooldownStarts == cool' = TRUE

Remember ==
  /\ pc = "done"
  /\ lastDigest' = files
  /\ CooldownStarts
  /\ Idle
  /\ UNCHANGED <<disk, commits, remote, checkout, faults, history, quiet>>

\* The process ends anywhere; the next one has no memory of what it published.
Crash ==
  /\ faults > 0
  /\ Idle
  /\ lastDigest' = Nothing /\ cool' = FALSE
  /\ excused' = TRUE
  /\ faults' = faults - 1
  /\ UNCHANGED <<disk, commits, remote, checkout, recent, quiet>>

-----------------------------------------------------------------------------
(* Time: the cooldown begins after the publish it answers to.              *)

PublishAges ==
  /\ recent
  /\ recent' = FALSE
  /\ UNCHANGED <<disk, commits, remote, checkout, process, memory, faults, excused, quiet>>

CooldownEnds ==
  /\ cool /\ ~recent
  /\ cool' = FALSE
  /\ UNCHANGED <<disk, commits, remote, checkout, process, lastDigest, faults, history, quiet>>

-----------------------------------------------------------------------------
(* Others: who pushes to the branch, and who works in the checkout.        *)

OthersCommit(parent, tree) ==
  /\ Len(commits) < MaxCommits
  /\ commits' = Append(commits, Child(parent, tree, "other"))

OthersPush ==
  /\ sources < MaxSources
  /\ sources' = sources + 1
  /\ OthersCommit(remote, [Tree(remote) EXCEPT !.src = sources'])
  /\ remote' = Len(commits')
  /\ UNCHANGED <<disk, local, index, source, process, memory, faults, history, quiet>>

Undisturbed == quiet => pc \notin MirrorSteps

Edit ==
  /\ Undisturbed /\ sources < MaxSources
  /\ sources' = sources + 1 /\ source' = sources'
  /\ UNCHANGED <<disk, commits, remote, local, index, process, memory, faults, history, quiet>>

Restore ==
  /\ Undisturbed /\ source # index.src
  /\ source' = index.src
  /\ UNCHANGED <<disk, commits, remote, local, index, sources, process, memory, faults, history, quiet>>

Stage ==
  /\ Undisturbed
  /\ index' = [index EXCEPT !.src = source] /\ index' # index
  /\ UNCHANGED <<disk, commits, remote, local, source, sources, process, memory, faults, history, quiet>>

Commit ==
  /\ Undisturbed /\ Staged
  /\ OthersCommit(local, index)
  /\ local' = Len(commits')
  /\ UNCHANGED <<disk, remote, index, source, sources, process, memory, faults, history, quiet>>

Push ==
  /\ Undisturbed
  /\ remote # local /\ remote \in Line(local)
  /\ remote' = local
  /\ UNCHANGED <<disk, commits, local, index, source, sources, process, memory, faults, history, quiet>>

Mirror == ReadHead \/ ReadStatus \/ ReadTree \/ MoveBranch \/ Defer
Publisher == Pass \/ WriteFile \/ NotDue \/ ReadBranch \/ UpdateBranch \/ Rejected \/ Mirror \/ Remember
Trouble == WriteFails \/ RequestFails \/ AnswerLost \/ Crash
Others == OthersPush \/ Edit \/ Restore \/ Stage \/ Commit \/ Push

Next == Publisher \/ Trouble \/ PublishAges \/ CooldownEnds \/ Others

Spec == Init /\ [][Next]_vars

\* The manager's loop goes on and time passes; others need not do anything.
LiveSpec == Spec /\ WF_vars(Publisher) /\ WF_vars(PublishAges) /\ WF_vars(CooldownEnds)

-----------------------------------------------------------------------------
(* What is true of it.                                                     *)

\* GitHubPagesPublisher.publish: the branch on GitHub only ever moves forward,
\* whoever pushes between the read of the branch and its update.
RemoteKeepsCommits == [][(remote \in Line(remote)')]_vars

\* _mirror_local_ref: no commit leaves the local branch, wherever a commit made
\* beside the mirror falls between its commands; and when nobody stages beside
\* it, what was staged before the mirror is still staged after it.
LocalWorkKept ==
  [][/\ local \in Line(local)'
     /\ quiet /\ pc \in MirrorSteps /\ Staged => index' = index]_vars

\* run.main: a snapshot whose three files come from different passes (one could
\* not be replaced, or the manager was killed between them) is never published.
RemoteIsWhole ==
  \A c \in 1..Len(commits) : commits[c].by = "manager" => Whole(Tree(c).pub)

\* maybe_publish: two publishes take effect within one interval only when the
\* process does not know of the first, its answer lost or its manager ended.
Cadence ==
  [][Len(commits') > Len(commits) /\ commits'[Len(commits')].by = "manager" /\ recent
       => excused]_vars

\* A snapshot that is whole on disk is followed by a publish of it, or of a
\* later one, through failed requests, lost answers, kills and rejected updates.
SnapshotShown(v) ==
  \E c \in Line(remote) : commits[c].by = "manager" /\ Tree(c).pub[3] >= v
LatestReachesRemote ==
  \A v \in 1..MaxSnaps : (files = [f \in PublicFiles |-> v]) ~> SnapshotShown(v)
=============================================================================
