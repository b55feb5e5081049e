--------------------------- MODULE PublicUploadProofs ---------------------------
(***************************************************************************)
(* The safety of PublicUpload for any number of snapshots, sources,        *)
(* commits and faults.  The history of commits only grows (Grown); on top  *)
(* of that four small invariants say what the publisher and the mirror     *)
(* have established at each of their steps.                                *)
(***************************************************************************)
EXTENDS PublicUpload, TLAPS

Commits == [tree : Trees, past : SUBSET Nat, by : {"manager", "other"}]

HistoryInv ==
  /\ commits \in Seq(Commits)
  /\ \A c \in 1..Len(commits) : commits[c].past \subseteq 1..(c - 1)
  /\ remote \in 1..Len(commits) /\ local \in 1..Len(commits)
  /\ base \in 0..Len(commits) /\ new \in 0..Len(commits) /\ head \in 0..Len(commits)
  /\ pc = "based" => base # 0
  /\ pc \in MirrorSteps => new # 0
  /\ pc \in {"headed", "clean", "indexed"} => head # 0

FilesInv ==
  /\ snap \in 0..MaxSnaps /\ files \in Versions
  /\ index \in Trees
  /\ sources \in 0..MaxSources /\ source \in 0..MaxSources
  /\ pc \in {"idle", "write", "ready", "based", "landed", "headed", "clean",
             "indexed", "done"}

-----------------------------------------------------------------------------
(* The commits there are.                                                  *)

LEMMA AppendFacts ==
  ASSUME NEW S, NEW seq \in Seq(S), NEW e \in S
  PROVE  /\ Append(seq, e) \in Seq(S)
         /\ Len(Append(seq, e)) = Len(seq) + 1
         /\ \A i \in 1..Len(seq) : Append(seq, e)[i] = seq[i]
         /\ Append(seq, e)[Len(seq) + 1] = e
OBVIOUS

\* What one step does to the history.
Grown ==
  \/ UNCHANGED commits
  \/ \E parent \in 1..Len(commits), tree \in Trees, by \in {"manager", "other"} :
       commits' = Append(commits, Child(parent, tree, by))

\* A commit keeps its content and its ancestors, and a new one is made.
Kept ==
  /\ commits' \in Seq(Commits)
  /\ Len(commits') >= Len(commits)
  /\ \A c \in 1..Len(commits) : commits'[c] = commits[c]
  /\ \A c \in 1..Len(commits') : commits'[c].past \subseteq 1..(c - 1)

LEMMA ChildIsCommit ==
  ASSUME HistoryInv, NEW parent \in 1..Len(commits), NEW tree \in Trees,
         NEW by \in {"manager", "other"}
  PROVE  /\ Child(parent, tree, by) \in Commits
         /\ Child(parent, tree, by).past \subseteq 1..Len(commits)
<1>1. commits[parent] \in Commits /\ Len(commits) \in Nat
  BY DEF HistoryInv
<1>2. commits[parent].past \subseteq 1..(parent - 1)
  BY DEF HistoryInv
<1>3. 1..(parent - 1) \subseteq 1..Len(commits) /\ 1..Len(commits) \subseteq Nat
  BY <1>1
<1>4. Line(parent) \subseteq 1..Len(commits)
  BY <1>2, <1>3 DEF Line
<1> QED
  BY <1>3, <1>4 DEF Child, Commits

LEMMA GrownIsKept == HistoryInv /\ Grown => Kept
<1> SUFFICES ASSUME HistoryInv, Grown PROVE Kept
  OBVIOUS
<1>1. CASE UNCHANGED commits
  BY <1>1 DEF HistoryInv, Kept
<1>2. ASSUME NEW parent \in 1..Len(commits), NEW tree \in Trees,
             NEW by \in {"manager", "other"},
             commits' = Append(commits, Child(parent, tree, by))
      PROVE  Kept
  <2> DEFINE e == Child(parent, tree, by)
  <2>1. e \in Commits /\ e.past \subseteq 1..Len(commits)
    BY ChildIsCommit
  <2>2. commits \in Seq(Commits) /\ Len(commits) \in Nat
    BY DEF HistoryInv
  <2> HIDE DEF e
  <2>3. commits' = Append(commits, e)
    BY <1>2 DEF e
  <2>4. /\ commits' \in Seq(Commits) /\ Len(commits') = Len(commits) + 1
        /\ \A i \in 1..Len(commits) : commits'[i] = commits[i]
        /\ commits'[Len(commits) + 1] = e
    BY <2>1, <2>2, <2>3, AppendFacts
  <2>5. ASSUME NEW c \in 1..Len(commits')
        PROVE  commits'[c].past \subseteq 1..(c - 1)
    <3>1. CASE c = Len(commits) + 1
      <4>1. c - 1 = Len(commits)  BY <3>1, <2>2
      <4> QED  BY <4>1, <3>1, <2>1, <2>4
    <3>2. CASE c \in 1..Len(commits)
      BY <3>2, <2>4 DEF HistoryInv
    <3> QED
      BY <3>1, <3>2, <2>4, <2>2
  <2> QED
    BY <2>2, <2>4, <2>5 DEF Kept
<1> QED
  BY <1>1, <1>2 DEF Grown

LEMMA TreeFacts ==
  ASSUME HistoryInv
  PROVE  \A c \in 1..Len(commits) : Tree(c) \in Trees
<1>1. \A c \in 1..Len(commits) : commits[c] \in Commits
  BY DEF HistoryInv
<1> QED
  BY <1>1 DEF Commits, Tree

LEMMA NextGrows == HistoryInv /\ FilesInv /\ [Next]_vars => Grown
<1> SUFFICES ASSUME HistoryInv, FilesInv, [Next]_vars PROVE Grown
  OBVIOUS
<1> USE DEF Grown
<1>1. ASSUME pc = "based", commits' = Append(commits, Snapshot) PROVE Grown
  <2>1. base \in 1..Len(commits)
    BY <1>1 DEF HistoryInv
  <2>2. [Tree(base) EXCEPT !.pub = files] \in Trees
    BY <2>1, TreeFacts DEF FilesInv, Trees
  <2> QED
    BY <1>1, <2>1, <2>2 DEF Snapshot
<1>2. CASE UpdateBranch
  BY <1>2, <1>1 DEF UpdateBranch, BranchUpdated
<1>3. CASE AnswerLost
  BY <1>3, <1>1 DEF AnswerLost, BranchUpdated
<1>4. CASE OthersPush
  <2>1. remote \in 1..Len(commits) /\ sources' \in 0..MaxSources
    BY <1>4, BoundsAssumption DEF OthersPush, HistoryInv, FilesInv
  <2>2. [Tree(remote) EXCEPT !.src = sources'] \in Trees
    BY <2>1, TreeFacts DEF Trees
  <2>3. commits' = Append(commits, Child(remote, [Tree(remote) EXCEPT !.src = sources'], "other"))
    BY <1>4 DEF OthersPush, OthersCommit
  <2> QED
    BY <2>1, <2>2, <2>3
<1>5. CASE Commit
  BY <1>5 DEF Commit, OthersCommit, HistoryInv, FilesInv
<1>6. CASE UNCHANGED commits
  BY <1>6
<1>7. CASE Publisher \/ Trouble
  BY <1>7, <1>2, <1>3, <1>6 DEF Publisher, Trouble, Mirror, Pass, WriteFile, NotDue,
     ReadBranch, Rejected, Remember, ReadHead, ReadStatus, ReadTree, MoveBranch, Defer,
     WriteFails, RequestFails, Crash, checkout
<1>8. CASE Others
  BY <1>8, <1>4, <1>5, <1>6 DEF Others, Edit, Restore, Stage, Push
<1> QED
  BY <1>6, <1>7, <1>8 DEF Next, PublishAges, CooldownEnds, vars

LEMMA FilesStep == HistoryInv /\ FilesInv /\ [Next]_vars => FilesInv'
<1> SUFFICES ASSUME HistoryInv, FilesInv, [Next]_vars PROVE FilesInv'
  OBVIOUS
<1> USE BoundsAssumption DEF FilesInv
<1>1. CASE Pass \/ WriteFile
  <2>1. snap' \in 0..MaxSnaps
    BY <1>1 DEF Pass, WriteFile
  <2>2. files' \in Versions
    BY <1>1 DEF Pass, WriteFile, Versions
  <2> QED
    BY <1>1, <2>1, <2>2 DEF Pass, WriteFile, checkout
<1>2. CASE ReadTree
  <2>1. new \in 1..Len(commits)
    BY <1>2 DEF ReadTree, HistoryInv, MirrorSteps
  <2>2. index' \in Trees
    BY <1>2, <2>1, TreeFacts DEF ReadTree
  <2> QED
    BY <1>2, <2>2 DEF ReadTree, disk
<1>3. CASE NotDue \/ ReadBranch \/ UpdateBranch \/ Rejected
  BY <1>3 DEF NotDue, ReadBranch, UpdateBranch, Rejected, Idle, disk, checkout
<1>4. CASE ReadHead \/ ReadStatus \/ MoveBranch \/ Defer \/ Remember
  BY <1>4 DEF ReadHead, ReadStatus, MoveBranch, Defer, Remember, Idle, disk, checkout
<1>5. CASE Trouble
  BY <1>5 DEF Trouble, WriteFails, AfterDeferredSnapshot, RequestFails, AnswerLost, Crash,
              Idle, disk, checkout
<1>6. CASE OthersPush \/ Edit
  <2>1. sources' \in 0..MaxSources /\ source' \in 0..MaxSources
    BY <1>6 DEF OthersPush, Edit
  <2> QED
    BY <1>6, <2>1 DEF OthersPush, Edit, disk, process
<1>7. CASE Restore \/ Stage
  <2>1. index' \in Trees /\ source' \in 0..MaxSources
    BY <1>7 DEF Restore, Stage, Trees
  <2> QED
    BY <1>7, <2>1 DEF Restore, Stage, disk, process
<1>8. CASE Commit \/ Push
  BY <1>8 DEF Commit, Push, disk, process
<1>9. CASE PublishAges \/ CooldownEnds \/ UNCHANGED vars
  BY <1>9 DEF PublishAges, CooldownEnds, vars, disk, checkout, process
<1> QED
  BY <1>1, <1>2, <1>3, <1>4, <1>5, <1>6, <1>7, <1>8, <1>9
  DEF Next, Publisher, Mirror, Others

LEMMA HistoryStep == HistoryInv /\ FilesInv /\ [Next]_vars => HistoryInv' /\ Kept
<1> SUFFICES ASSUME HistoryInv, FilesInv, [Next]_vars PROVE HistoryInv' /\ Kept
  OBVIOUS
<1>1. Kept
  BY NextGrows, GrownIsKept
<1>2. commits' \in Seq(Commits) /\ \A c \in 1..Len(commits') : commits'[c].past \subseteq 1..(c - 1)
  BY <1>1 DEF Kept
<1>3. Len(commits) \in Nat /\ Len(commits') \in Nat /\ Len(commits') >= Len(commits)
  BY <1>1 DEF Kept, HistoryInv
<1>4. \A parent, tree, by :
        commits' = Append(commits, Child(parent, tree, by)) => Len(commits') = Len(commits) + 1
  BY DEF HistoryInv
<1>5. remote' \in 1..Len(commits')
  <2>1. CASE UNCHANGED remote
    BY <2>1, <1>3 DEF HistoryInv
  <2>2. CASE UpdateBranch \/ AnswerLost
    BY <2>2, <1>3, <1>4 DEF UpdateBranch, AnswerLost, BranchUpdated, Snapshot
  <2>3. CASE OthersPush
    BY <2>3, <1>3, <1>4 DEF OthersPush, OthersCommit
  <2>4. CASE Push
    BY <2>4, <1>3 DEF Push, HistoryInv
  <2> QED
    BY <2>1, <2>2, <2>3, <2>4 DEF Next, Publisher, Trouble, Mirror, Others, Pass, WriteFile,
       NotDue, ReadBranch, Rejected, Remember, ReadHead, ReadStatus, ReadTree, MoveBranch,
       Defer, WriteFails, RequestFails, Crash, Edit, Restore, Stage, Commit, PublishAges,
       CooldownEnds, vars
<1>6. local' \in 1..Len(commits')
  <2>1. CASE UNCHANGED local
    BY <2>1, <1>3 DEF HistoryInv
  <2>2. CASE MoveBranch
    BY <2>2, <1>3 DEF MoveBranch, HistoryInv, MirrorSteps
  <2>3. CASE Commit
    BY <2>3, <1>3, <1>4 DEF Commit, OthersCommit
  <2> QED
    BY <2>1, <2>2, <2>3 DEF Next, Publisher, Trouble, Mirror, Others, Pass, WriteFile, NotDue,
       ReadBranch, UpdateBranch, Rejected, Remember, ReadHead, ReadStatus, ReadTree, Defer,
       WriteFails, RequestFails, AnswerLost, Crash, OthersPush, Edit, Restore, Stage, Push,
       PublishAges, CooldownEnds, checkout, vars
<1>7. /\ base' \in 0..Len(commits') /\ new' \in 0..Len(commits') /\ head' \in 0..Len(commits')
      /\ pc' = "based" => base' # 0
      /\ pc' \in MirrorSteps => new' # 0
      /\ pc' \in {"headed", "clean", "indexed"} => head' # 0
  <2> USE <1>3 DEF HistoryInv, MirrorSteps
  <2>1. CASE Pass \/ WriteFile \/ NotDue \/ ReadBranch \/ Rejected \/ Remember
    BY <2>1 DEF Pass, WriteFile, NotDue, ReadBranch, Rejected, Remember, Idle
  <2>2. CASE UpdateBranch
    BY <2>2, <1>5 DEF UpdateBranch
  <2>3. CASE Mirror
    BY <2>3 DEF Mirror, ReadHead, ReadStatus, ReadTree, MoveBranch, Defer
  <2>4. CASE Trouble
    BY <2>4 DEF Trouble, WriteFails, AfterDeferredSnapshot, RequestFails, AnswerLost, Crash, Idle
  <2>5. CASE Others \/ PublishAges \/ CooldownEnds \/ UNCHANGED vars
    BY <2>5 DEF Others, OthersPush, Edit, Restore, Stage, Commit, Push, PublishAges,
                CooldownEnds, process, vars
  <2> QED
    BY <2>1, <2>2, <2>3, <2>4, <2>5 DEF Next, Publisher
<1> QED
  BY <1>1, <1>2, <1>5, <1>6, <1>7 DEF HistoryInv

\* What is in the history stays as it is.
LEMMA LinesKept ==
  ASSUME HistoryInv, Kept, NEW c \in 1..Len(commits)
  PROVE  Line(c)' = Line(c) /\ Tree(c)' = Tree(c) /\ c \in 1..Len(commits')
BY DEF HistoryInv, Kept, Line, Tree

-----------------------------------------------------------------------------
(* What is published is whole.                                             *)

Published == {"ready", "based", "done"} \cup MirrorSteps

WholeInv ==
  /\ pc = "write" => written \in 0..2 /\ \A f \in 1..written : files[f] = snap
  /\ pc \in Published => Whole(files)
  /\ RemoteIsWhole
  /\ lastDigest = Nothing \/ lastDigest \in {pub \in Versions : Whole(pub)}

\* Only a pass that has written all three files leaves the writing behind.
LEMMA WriteIsWhole ==
  ASSUME FilesInv, WholeInv, WriteFile
  PROVE  /\ pc' = "write" => written' \in 0..2 /\ \A f \in 1..written' : files'[f] = snap'
         /\ pc' \in Published => Whole(files)'
<1>1. /\ written \in 0..2 /\ written' = written + 1 /\ snap' = snap
      /\ files' = [files EXCEPT ![written + 1] = snap]
      /\ pc' = IF written' = 3 THEN "ready" ELSE "write"
  BY DEF WriteFile, WholeInv
<1>2. files \in [1..3 -> 0..MaxSnaps]
  BY DEF FilesInv, Versions, PublicFiles
<1>3. \A f \in 1..written' : files'[f] = snap
  <2>1. ASSUME NEW f \in 1..written' PROVE files'[f] = snap
    <3>1. CASE f = written + 1
      BY <3>1, <1>1, <1>2
    <3>2. CASE f \in 1..written
      <4>1. files[f] = snap /\ f # written + 1 /\ f \in 1..3
        BY <3>2, <1>1 DEF WriteFile, WholeInv
      <4> QED
        BY <4>1, <1>1, <1>2
    <3> QED
      BY <3>1, <3>2, <1>1
  <2> QED
    BY <2>1
<1>4. CASE written' = 3
  BY <1>1, <1>3, <1>4 DEF Whole, PublicFiles
<1>5. CASE written' # 3
  <2>1. pc' = "write" /\ written' \in 0..2
    BY <1>1, <1>5
  <2> QED
    BY <2>1, <1>1, <1>3 DEF Published, MirrorSteps
<1> QED
  BY <1>4, <1>5

LEMMA SnapshotIsWhole ==
  ASSUME HistoryInv, FilesInv, WholeInv, NEW e, commits' = Append(commits, e),
         e.by = "manager" => Whole(e.tree.pub), Kept
  PROVE  RemoteIsWhole'
<1>1. commits \in Seq(Commits) /\ Len(commits) \in Nat
  BY DEF HistoryInv
<1>2. Len(commits') = Len(commits) + 1 /\ commits'[Len(commits) + 1] = e
  BY <1>1
<1>3. \A c \in 1..Len(commits) : commits'[c] = commits[c]
  BY DEF Kept
<1> SUFFICES ASSUME NEW c \in 1..Len(commits'), commits'[c].by = "manager"
             PROVE  Whole(commits'[c].tree.pub)
  BY DEF RemoteIsWhole, Tree
<1>4. CASE c = Len(commits) + 1
  BY <1>4, <1>2
<1>5. CASE c \in 1..Len(commits)
  BY <1>5, <1>3 DEF WholeInv, RemoteIsWhole, Tree
<1> QED
  BY <1>4, <1>5, <1>2, <1>1

LEMMA WholeStep == HistoryInv /\ FilesInv /\ WholeInv /\ [Next]_vars => WholeInv'
<1> SUFFICES ASSUME HistoryInv, FilesInv, WholeInv, [Next]_vars PROVE WholeInv'
  OBVIOUS
<1>1. Kept
  BY HistoryStep
<1>2. RemoteIsWhole'
  <2>1. CASE UNCHANGED commits
    BY <2>1 DEF WholeInv, RemoteIsWhole, Tree
  <2>2. CASE UpdateBranch \/ AnswerLost
    <3>1. base \in 1..Len(commits) /\ Whole(files)
      BY <2>2 DEF UpdateBranch, AnswerLost, HistoryInv, WholeInv, Published
    <3>2. Tree(base) \in Trees
      BY <3>1, TreeFacts
    <3>3. [Tree(base) EXCEPT !.pub = files].pub = files
      BY <3>2 DEF Trees
    <3>4. Snapshot.tree.pub = files
      BY <3>3 DEF Snapshot, Child
    <3> QED
      BY <1>1, <2>2, <3>1, <3>4, SnapshotIsWhole DEF UpdateBranch, AnswerLost, BranchUpdated
  <2>3. CASE OthersPush \/ Commit
    <3>1. PICK parent, tree : commits' = Append(commits, Child(parent, tree, "other"))
      BY <2>3 DEF OthersPush, Commit, OthersCommit
    <3>2. Child(parent, tree, "other").by # "manager"
      BY DEF Child
    <3> QED
      BY <1>1, <3>1, <3>2, SnapshotIsWhole
  <2> QED
    BY <2>1, <2>2, <2>3 DEF Next, Publisher, Trouble, Mirror, Others, Pass, WriteFile, NotDue,
       ReadBranch, Rejected, Remember, ReadHead, ReadStatus, ReadTree, MoveBranch, Defer,
       WriteFails, RequestFails, Crash, Edit, Restore, Stage, Push, PublishAges, CooldownEnds,
       checkout, vars
<1>3. CASE Pass
  BY <1>2, <1>3 DEF Pass, WholeInv, Published, MirrorSteps, memory
<1>4. CASE WriteFile
  BY <1>2, <1>4, WriteIsWhole DEF WholeInv, WriteFile, memory
<1>5. CASE pc' = "idle" /\ (UNCHANGED lastDigest \/ lastDigest' = Nothing)
  BY <1>2, <1>5 DEF WholeInv, Published, MirrorSteps
<1>6. CASE Remember
  <2>1. lastDigest' = files /\ Whole(files) /\ files \in Versions /\ pc' = "idle"
    BY <1>6 DEF Remember, Idle, WholeInv, FilesInv, Published
  <2>2. lastDigest' \in {pub \in Versions : Whole(pub)}
    BY <2>1
  <2> QED
    BY <1>2, <2>1, <2>2 DEF WholeInv, Published, MirrorSteps
<1>7. ASSUME snap' = snap, files' = files, lastDigest' = lastDigest,
             \/ pc' = pc /\ written' = written
             \/ pc \in Published /\ pc' # "write"
      PROVE  WholeInv'
  BY <1>2, <1>7 DEF WholeInv, Whole
<1>8. CASE Publisher
  <2>1. CASE NotDue \/ Rejected
    BY <1>5, <2>1 DEF NotDue, Rejected, NotRemembered, Idle, memory
  <2>2. CASE ReadBranch \/ UpdateBranch \/ Mirror
    BY <1>7, <2>2 DEF ReadBranch, UpdateBranch, Mirror, ReadHead, ReadStatus, ReadTree,
                      MoveBranch, Defer, disk, memory, Published, MirrorSteps
  <2> QED
    BY <1>3, <1>4, <1>6, <1>8, <2>1, <2>2 DEF Publisher
<1>9. CASE Trouble
  BY <1>5, <1>9 DEF Trouble, WriteFails, AfterDeferredSnapshot, RequestFails, NotRemembered,
                    AnswerLost, Crash, Idle, memory
<1>10. CASE Others \/ PublishAges \/ CooldownEnds \/ UNCHANGED vars
  <2>1. /\ snap' = snap /\ files' = files /\ lastDigest' = lastDigest
        /\ pc' = pc /\ written' = written
    BY <1>10 DEF Others, OthersPush, Edit, Restore, Stage, Commit, Push, PublishAges,
                 CooldownEnds, disk, process, memory, vars
  <2> QED
    BY <1>7, <2>1
<1> QED
  BY <1>8, <1>9, <1>10 DEF Next

-----------------------------------------------------------------------------
(* What the mirror has established when it moves the index and the branch. *)

MirrorInv ==
  /\ pc = "indexed" => head \in Line(new)
  /\ quiet /\ pc = "clean" => ~Staged

LEMMA MirrorStep == HistoryInv /\ MirrorInv /\ Kept /\ [Next]_vars => MirrorInv'
<1> SUFFICES ASSUME HistoryInv, MirrorInv, Kept, [Next]_vars PROVE MirrorInv'
  OBVIOUS
<1>1. CASE pc' \notin {"clean", "indexed"}
  BY <1>1 DEF MirrorInv
<1>2. CASE ReadStatus
  BY <1>2 DEF ReadStatus, CleanCheckout, Staged, Tree, checkout, MirrorInv
<1>3. CASE ReadTree
  BY <1>3 DEF ReadTree, Line, MirrorInv
<1>4. ASSUME pc' = pc, new' = new, head' = head, quiet' = quiet,
             quiet /\ pc = "clean" => index' = index /\ local' = local
      PROVE  MirrorInv'
  <2>1. pc' = "indexed" => head' \in Line(new)'
    <3> HAVE pc' = "indexed"
    <3>1. pc = "indexed" /\ new \in 1..Len(commits)
      BY <1>4 DEF HistoryInv, MirrorSteps
    <3>2. commits'[new].past = commits[new].past
      BY <3>1 DEF Kept
    <3> QED
      BY <3>1, <3>2, <1>4 DEF MirrorInv, Line
  <2>2. quiet' /\ pc' = "clean" => ~Staged'
    <3> HAVE quiet' /\ pc' = "clean"
    <3>1. commits'[local].tree = commits[local].tree
      BY DEF Kept, HistoryInv
    <3>2. index' = index /\ local' = local /\ ~Staged
      BY <1>4 DEF MirrorInv
    <3> QED
      BY <3>1, <3>2 DEF Staged, Tree
  <2> QED
    BY <2>1, <2>2 DEF MirrorInv
<1>5. CASE Others
  BY <1>4, <1>5 DEF Others, OthersPush, Edit, Restore, Stage, Commit, Push, Undisturbed,
                    MirrorSteps, process
<1>6. CASE PublishAges \/ CooldownEnds \/ UNCHANGED vars
  <2>1. /\ pc' = pc /\ new' = new /\ head' = head /\ quiet' = quiet
        /\ index' = index /\ local' = local
    BY <1>6 DEF PublishAges, CooldownEnds, process, checkout, vars
  <2> QED
    BY <1>4, <2>1
<1>7. CASE Publisher \/ Trouble
  <2>1. CASE ReadStatus \/ ReadTree
    BY <1>2, <1>3, <2>1
  <2>2. CASE WriteFile
    BY <1>1, <2>2 DEF WriteFile
  <2> QED
    BY <1>1, <1>7, <2>1, <2>2 DEF Publisher, Trouble, Mirror, Pass, NotDue, ReadBranch,
       UpdateBranch, Rejected, Remember, ReadHead, MoveBranch, Defer, WriteFails,
       AfterDeferredSnapshot, RequestFails, AnswerLost, Crash, Idle
<1> QED
  BY <1>5, <1>6, <1>7 DEF Next

LEMMA RemoteStep ==
  HistoryInv /\ Kept /\ [Next]_vars => remote \in Line(remote)'
<1> SUFFICES ASSUME HistoryInv, Kept, [Next]_vars PROVE remote \in Line(remote)'
  OBVIOUS
<1>1. CASE UNCHANGED remote
  BY <1>1 DEF Line
<1>2. ASSUME NEW c, c.past = Line(remote) \/ remote \in c.past,
             commits' = Append(commits, c), remote' = Len(commits')
      PROVE  remote \in Line(remote)'
  <2>1. commits'[remote'] = c
    BY <1>2 DEF HistoryInv
  <2> QED
    BY <1>2, <2>1 DEF Line
<1>3. CASE UpdateBranch \/ AnswerLost
  BY <1>2, <1>3 DEF UpdateBranch, AnswerLost, FastForward, BranchUpdated
<1>4. CASE OthersPush
  BY <1>2, <1>4 DEF OthersPush, OthersCommit, Child
<1>5. CASE Push
  BY <1>5 DEF Push, Line
<1> QED
  BY <1>1, <1>3, <1>4, <1>5 DEF Next, Publisher, Trouble, Mirror, Others, Pass, WriteFile,
     NotDue, ReadBranch, Rejected, Remember, ReadHead, ReadStatus, ReadTree, MoveBranch, Defer,
     WriteFails, RequestFails, Crash, Edit, Restore, Stage, Commit, PublishAges, CooldownEnds,
     vars

LEMMA LocalStep ==
  HistoryInv /\ MirrorInv /\ [Next]_vars
    => /\ local \in Line(local)'
       /\ quiet /\ pc \in MirrorSteps /\ Staged => index' = index
<1> SUFFICES ASSUME HistoryInv, MirrorInv, [Next]_vars
             PROVE  /\ local \in Line(local)'
                    /\ quiet /\ pc \in MirrorSteps /\ Staged => index' = index
  OBVIOUS
<1>1. local \in Line(local)'
  <2>1. CASE UNCHANGED local
    BY <2>1 DEF Line
  <2>2. CASE MoveBranch
    BY <2>2 DEF MoveBranch, HeadUnmoved, MirrorInv, Line
  <2>3. CASE Commit
    <3>1. local' = Len(commits) + 1 /\ commits'[local'] = Child(local, index, "other")
      BY <2>3 DEF Commit, OthersCommit, HistoryInv
    <3> QED
      BY <3>1 DEF Child, Line
  <2> QED
    BY <2>1, <2>2, <2>3 DEF Next, Publisher, Trouble, Mirror, Others, Pass, WriteFile, NotDue,
       ReadBranch, UpdateBranch, Rejected, Remember, ReadHead, ReadStatus, ReadTree, Defer,
       WriteFails, RequestFails, AnswerLost, Crash, OthersPush, Edit, Restore, Stage, Push,
       PublishAges, CooldownEnds, checkout, vars
<1>2. quiet /\ pc \in MirrorSteps /\ Staged => index' = index
  BY DEF MirrorInv, Next, Publisher, Trouble, Mirror, Others, Pass, WriteFile, NotDue,
     ReadBranch, UpdateBranch, Rejected, Remember, ReadHead, ReadStatus, ReadTree, MoveBranch,
     Defer, WriteFails, RequestFails, AnswerLost, Crash, OthersPush, Edit, Restore, Stage,
     Commit, Push, Undisturbed, PublishAges, CooldownEnds, checkout, vars
<1> QED
  BY <1>1, <1>2

-----------------------------------------------------------------------------
(* What the process remembers of the publishes there were.                 *)

CadenceInv ==
  /\ pc = "based" => ~cool
  /\ recent /\ ~excused => cool \/ pc \in MirrorSteps \cup {"done"}

LEMMA CadenceStep == CadenceInv /\ [Next]_vars => CadenceInv'
<1> SUFFICES ASSUME CadenceInv, [Next]_vars PROVE CadenceInv'
  OBVIOUS
<1> USE DEF CadenceInv, MirrorSteps
<1>1. CASE Pass \/ WriteFile \/ NotDue \/ ReadBranch \/ Rejected
  BY <1>1 DEF Pass, WriteFile, NotDue, ReadBranch, Rejected, NotRemembered, Idle, memory, history
<1>2. CASE UpdateBranch \/ Remember
  BY <1>2 DEF UpdateBranch, Remember, CooldownStarts, Idle, memory
<1>3. CASE Mirror
  BY <1>3 DEF Mirror, ReadHead, ReadStatus, ReadTree, MoveBranch, Defer, memory, history
<1>4. CASE Trouble
  BY <1>4 DEF Trouble, WriteFails, AfterDeferredSnapshot, RequestFails, NotRemembered,
              AnswerLost, Crash, Idle, memory, history
<1>5. CASE Others
  BY <1>5 DEF Others, OthersPush, Edit, Restore, Stage, Commit, Push, process, memory, history
<1>6. CASE PublishAges \/ CooldownEnds \/ UNCHANGED vars
  BY <1>6 DEF PublishAges, CooldownEnds, process, memory, history, vars
<1> QED
  BY <1>1, <1>2, <1>3, <1>4, <1>5, <1>6 DEF Next, Publisher

-----------------------------------------------------------------------------
(* The theorems.                                                           *)

\* The rest of the types.
CountersInv == written \in 0..3 /\ faults \in 0..MaxFaults
FlagsInv ==
  /\ cool \in BOOLEAN /\ recent \in BOOLEAN /\ excused \in BOOLEAN /\ quiet \in BOOLEAN

IInv ==
  HistoryInv /\ FilesInv /\ WholeInv /\ MirrorInv /\ CadenceInv /\ CountersInv /\ FlagsInv

LEMMA CountersStep == WholeInv /\ CountersInv /\ [Next]_vars => CountersInv'
<1> SUFFICES ASSUME WholeInv, CountersInv, [Next]_vars PROVE CountersInv'
  OBVIOUS
<1> USE BoundsAssumption DEF CountersInv
<1>1. CASE Publisher
  <2>1. CASE WriteFile
    BY <2>1 DEF WriteFile, WholeInv
  <2> QED
    BY <1>1, <2>1 DEF Publisher, Mirror, Pass, NotDue, ReadBranch, UpdateBranch, Rejected,
       Remember, ReadHead, ReadStatus, ReadTree, MoveBranch, Defer, Idle
<1>2. CASE Trouble
  BY <1>2 DEF Trouble, WriteFails, AfterDeferredSnapshot, RequestFails, AnswerLost, Crash, Idle
<1>3. CASE Others
  BY <1>3 DEF Others, OthersPush, Edit, Restore, Stage, Commit, Push, process
<1>4. CASE PublishAges \/ CooldownEnds \/ UNCHANGED vars
  BY <1>4 DEF PublishAges, CooldownEnds, process, vars
<1> QED
  BY <1>1, <1>2, <1>3, <1>4 DEF Next

LEMMA FlagsStep == FlagsInv /\ [Next]_vars => FlagsInv'
<1> SUFFICES ASSUME FlagsInv, [Next]_vars PROVE FlagsInv'
  OBVIOUS
<1>1. UNCHANGED cool \/ cool' = TRUE \/ cool' = FALSE
  BY DEF Next, Publisher, Trouble, Mirror, Others, Pass, WriteFile, NotDue, ReadBranch,
     UpdateBranch, Rejected, Remember, CooldownStarts, ReadHead, ReadStatus, ReadTree,
     MoveBranch, Defer, WriteFails, RequestFails, NotRemembered, AnswerLost, Crash, OthersPush,
     Edit, Restore, Stage, Commit, Push, PublishAges, CooldownEnds, memory, vars
<1>2. UNCHANGED recent \/ recent' = TRUE \/ recent' = FALSE
  BY DEF Next, Publisher, Trouble, Mirror, Others, Pass, WriteFile, NotDue, ReadBranch,
     UpdateBranch, Rejected, Remember, ReadHead, ReadStatus, ReadTree, MoveBranch, Defer,
     WriteFails, RequestFails, AnswerLost, BranchUpdated, Crash, OthersPush, Edit, Restore,
     Stage, Commit, Push, PublishAges, CooldownEnds, history, vars
<1>3. UNCHANGED excused \/ excused' = TRUE \/ excused' = FALSE
  BY DEF Next, Publisher, Trouble, Mirror, Others, Pass, WriteFile, NotDue, ReadBranch,
     UpdateBranch, Rejected, Remember, ReadHead, ReadStatus, ReadTree, MoveBranch, Defer,
     WriteFails, RequestFails, AnswerLost, Crash, OthersPush, Edit, Restore, Stage, Commit,
     Push, PublishAges, CooldownEnds, history, vars
<1>4. UNCHANGED quiet
  BY DEF Next, Publisher, Trouble, Mirror, Others, Pass, WriteFile, NotDue, ReadBranch,
     UpdateBranch, Rejected, Remember, ReadHead, ReadStatus, ReadTree, MoveBranch, Defer,
     WriteFails, RequestFails, AnswerLost, Crash, OthersPush, Edit, Restore, Stage, Commit,
     Push, PublishAges, CooldownEnds, vars
<1> QED
  BY <1>1, <1>2, <1>3, <1>4, Zenon DEF FlagsInv

LEMMA Initially == Init => IInv
<1> SUFFICES ASSUME Init PROVE IInv
  OBVIOUS
<1> USE BoundsAssumption DEF Init
<1>1. Start \in Trees /\ Start.pub \in Versions
  BY DEF Start, Trees, Versions, PublicFiles
<1>2. commits[1] \in Commits /\ commits \in Seq(Commits) /\ Len(commits) = 1
      /\ commits[1].past = {} /\ commits[1].by = "other"
  BY <1>1 DEF Commits
<1>3. HistoryInv /\ RemoteIsWhole
  BY <1>2 DEF HistoryInv, MirrorSteps, RemoteIsWhole
<1>4. FilesInv /\ WholeInv
  BY <1>1, <1>3 DEF FilesInv, WholeInv, Published, MirrorSteps
<1>5. MirrorInv /\ CountersInv
  BY DEF MirrorInv, CountersInv
<1>6. CadenceInv /\ FlagsInv
  BY Zenon DEF CadenceInv, FlagsInv
<1> QED
  BY <1>3, <1>4, <1>5, <1>6 DEF IInv

LEMMA Inductive == IInv /\ [Next]_vars => IInv'
BY HistoryStep, FilesStep, WholeStep, MirrorStep, CadenceStep, CountersStep, FlagsStep DEF IInv

THEOREM Safety == Spec => []IInv
BY Initially, Inductive, PTL DEF Spec

\* Every variable has its type.
THEOREM TypeCorrect == Spec => []TypeOK
<1>1. ASSUME IInv PROVE TypeOK
  <2>1. \A c \in 1..Len(commits) :
          commits[c] \in [tree : Trees, past : SUBSET (1..(c - 1)), by : {"manager", "other"}]
    <3> TAKE c \in 1..Len(commits)
    <3>1. commits[c] \in Commits /\ commits[c].past \in SUBSET (1..(c - 1))
      BY <1>1 DEF IInv, HistoryInv
    <3> QED
      BY <3>1 DEF Commits
  <2>2. {remote, local} \subseteq 1..Len(commits) /\ {base, new, head} \subseteq 0..Len(commits)
    BY <1>1 DEF IInv, HistoryInv
  <2>3. /\ snap \in 0..MaxSnaps /\ files \in Versions
        /\ index \in Trees /\ {source, sources} \subseteq 0..MaxSources
        /\ pc \in {"idle", "write", "ready", "based", "landed", "headed", "clean",
                   "indexed", "done"}
    BY <1>1 DEF IInv, FilesInv
  <2>4. lastDigest \in {pub \in Versions : Whole(pub)} \cup {Nothing}
    BY <1>1 DEF IInv, WholeInv
  <2>5. written \in 0..3 /\ faults \in 0..MaxFaults /\ {cool, recent, excused, quiet} \subseteq BOOLEAN
    BY <1>1 DEF IInv, CountersInv, FlagsInv
  <2> QED
    BY <2>1, <2>2, <2>3, <2>4, <2>5 DEF TypeOK
<1> QED
  BY <1>1, Safety, PTL

\* run.main with maybe_publish: only whole snapshots are published.
THEOREM PublishedWhole == Spec => []RemoteIsWhole
<1>1. IInv => RemoteIsWhole
  BY DEF IInv, WholeInv
<1> QED
  BY <1>1, Safety, PTL

\* GitHubPagesPublisher.publish: the branch on GitHub only moves forward.
THEOREM RemoteForward == Spec => RemoteKeepsCommits
<1>1. IInv /\ [Next]_vars => [(remote \in Line(remote)')]_vars
  BY HistoryStep, RemoteStep DEF IInv
<1> QED
  BY <1>1, Safety, PTL DEF Spec, RemoteKeepsCommits

\* _mirror_local_ref: no local commit is lost, and no staged work.
THEOREM MirrorKeepsWork == Spec => LocalWorkKept
<1>1. IInv /\ [Next]_vars
        => [/\ local \in Line(local)'
            /\ quiet /\ pc \in MirrorSteps /\ Staged => index' = index]_vars
  BY LocalStep DEF IInv
<1> QED
  BY <1>1, Safety, PTL DEF Spec, LocalWorkKept

\* maybe_publish: one publish per interval, as far as the process knows.
THEOREM CadenceKept == Spec => Cadence
<1>1. ASSUME IInv, [Next]_vars, Len(commits') > Len(commits),
             commits'[Len(commits')].by = "manager", recent
      PROVE  excused
  <2>1. commits' # commits
    BY <1>1 DEF IInv, HistoryInv
  <2>2. CASE UpdateBranch \/ AnswerLost
    BY <1>1, <2>2 DEF IInv, CadenceInv, MirrorSteps, UpdateBranch, AnswerLost
  <2>3. CASE OthersPush \/ Commit
    <3>1. PICK parent, tree : commits' = Append(commits, Child(parent, tree, "other"))
      BY <2>3 DEF OthersPush, Commit, OthersCommit
    <3>2. commits'[Len(commits')].by = "other"
      BY <1>1, <3>1 DEF IInv, HistoryInv, Child
    <3> QED
      BY <1>1, <3>2
  <2> QED
    BY <1>1, <2>1, <2>2, <2>3 DEF Next, Publisher, Trouble, Mirror, Others, Pass, WriteFile,
       NotDue, ReadBranch, Rejected, Remember, ReadHead, ReadStatus, ReadTree, MoveBranch,
       Defer, WriteFails, RequestFails, Crash, Edit, Restore, Stage, Push, PublishAges,
       CooldownEnds, checkout, vars
<1>2. IInv /\ [Next]_vars
        => [Len(commits') > Len(commits) /\ commits'[Len(commits')].by = "manager" /\ recent
             => excused]_vars
  BY <1>1
<1> QED
  BY <1>2, Safety, PTL DEF Spec, Cadence

================================================================================
