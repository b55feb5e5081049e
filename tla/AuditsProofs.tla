----------------------------- MODULE AuditsProofs -----------------------------
(***************************************************************************)
(* Proofs about Audits, for any number of files, twins and window sizes.   *)
(*                                                                         *)
(* A report is stored long after its scan began, so NothingSkipped is not  *)
(* inductive: CoverInv adds what a scan in progress still owes.  Such a    *)
(* file is in the rest of its window or, if the listing goes on, behind    *)
(* everything in it.  That needs the start_after of an audit to be the     *)
(* cursor of the row that its report will replace.                         *)
(***************************************************************************)
EXTENDS Audits, FiniteSetTheorems, WellFoundedInduction, TLAPS

Ahead(f) == beyond /\ f > last /\ \A g \in window : g < f
ScanInv ==
  \A f \in owing \ Twins : \/ f \in window
                           \/ Ahead(f) /\ (window = {} => last # 0)

CoverInv ==
  /\ TypeOK
  /\ owed \subseteq present /\ owing \subseteq present
  /\ audit # "none" => from = cursor
  /\ audit \in {"scanning", "reported"} => ScanInv
  /\ audit = "reported" => window = {}
  /\ NothingSkipped

Below(L, g) == {h \in L : h < g}
Rank(L, g) == Cardinality(Below(L, g))

\* Ranks are numbers that grow with the files, smaller than the number of
\* files, and a set that is not empty has a file of rank 0.
LEMMA RankFacts ==
  ASSUME NEW L \in SUBSET Files
  PROVE  /\ Cardinality(L) \in Nat
         /\ \A g \in L : Rank(L, g) \in Nat /\ Cardinality(L) > Rank(L, g)
         /\ \A f, g \in L : ~(g < f) => Rank(L, f) <= Rank(L, g)
         /\ L # {} => \E g \in L : Rank(L, g) = 0
<1>1. IsFiniteSet(L) /\ L \subseteq Nat
  <2>1. IsFiniteSet(1..Last)
    BY LastAssumption, FS_Interval
  <2>2. IsFiniteSet(L)
    BY <2>1, FS_Subset DEF Files
  <2> QED
    BY <2>2, LastAssumption DEF Files
<1>2. \A g : Below(L, g) \subseteq L
  BY DEF Below
<1>3. \A g : IsFiniteSet(Below(L, g)) /\ Rank(L, g) \in Nat
  BY <1>1, <1>2, FS_Subset, FS_CardinalityType DEF Rank
<1>4. ASSUME NEW g \in L PROVE Cardinality(L) > Rank(L, g)
  <2>1. g \notin Below(L, g)
    BY <1>1 DEF Below
  <2>2. /\ Cardinality(Below(L, g) \cup {g}) = Rank(L, g) + 1
        /\ Below(L, g) \cup {g} \subseteq L
    BY <2>1, <1>2, <1>3, FS_AddElement DEF Rank
  <2>3. Cardinality(Below(L, g) \cup {g}) <= Cardinality(L) /\ Cardinality(L) \in Nat
    BY <1>1, <2>2, FS_Subset, FS_CardinalityType
  <2> QED
    BY <1>3, <2>2, <2>3
<1>5. ASSUME NEW f \in L, NEW g \in L, ~(g < f) PROVE Rank(L, f) <= Rank(L, g)
  <2>1. Below(L, f) \subseteq Below(L, g)
    <3> SUFFICES ASSUME NEW h \in L, h < f PROVE h < g
      BY DEF Below
    <3>1. h \in Nat /\ f \in Nat /\ g \in Nat
      BY <1>1
    <3> QED
      BY <1>5, <3>1
  <2> QED
    BY <1>3, <2>1, FS_Subset DEF Rank
<1>6. ASSUME L # {} PROVE \E g \in L : Rank(L, g) = 0
  <2> DEFINE Less == {ss \in Nat \X Nat : ss[1] < ss[2]}
  <2>0. IsWellFoundedOn(Less, Nat)
    BY NatLessThanWellFounded, Zenon DEF OpToRel
  <2> HIDE DEF Less
  <2>1. PICK g \in L : \A h \in L : ~(<<h, g>> \in Less)
    BY <1>1, <1>6, <2>0, WFMin
  <2>2. ASSUME NEW h \in L, h < g PROVE FALSE
    <3>1. <<h, g>> \in Less
      BY <1>1, <2>2 DEF Less
    <3> QED
      BY <2>1, <3>1
  <2>3. Below(L, g) = {}
    BY <2>2 DEF Below
  <2> QED
    BY <2>3, FS_EmptySet DEF Rank
<1> QED
  BY <1>1, <1>3, <1>4, <1>5, <1>6, FS_CardinalityType

\* The first n files of a set: a file that is not among them is behind all
\* of them, and there are some.
LEMMA WindowComesFirst ==
  ASSUME NEW L \in SUBSET Files, NEW n \in Nat \ {0}, NEW f \in L,
         NEW W, W = {g \in L : Rank(L, g) < n}, f \notin W
  PROVE  Cardinality(L) > n /\ W # {} /\ \A g \in W : g < f
<1>1. Rank(L, f) >= n /\ Cardinality(L) > Rank(L, f) /\ Rank(L, f) \in Nat
  BY RankFacts
<1>2. Cardinality(L) > n
  BY <1>1, RankFacts
<1>3. PICK g \in L : Rank(L, g) = 0
  BY RankFacts
<1>4. ASSUME NEW h \in W PROVE h < f
  BY <1>1, RankFacts
<1> QED
  BY <1>2, <1>3, <1>4

LEMMA KeyFacts ==
  ASSUME NEW f \in Files
  PROVE  Key(f) \in 1..Last /\ Key(f) <= f /\ (f \notin Twins => Key(f) = f)
<1>1. CASE f \in Twins
  <2>1. f \in 2..Last
    BY <1>1, TwinsAssumption
  <2> QED
    BY <1>1, <2>1, LastAssumption DEF Key
<1>2. CASE f \notin Twins
  BY <1>2, LastAssumption DEF Key, Files
<1> QED
  BY <1>1, <1>2

LEMMA CoverInit == Init => CoverInv
<1> SUFFICES ASSUME Init PROVE CoverInv
  OBVIOUS
<1>1. TypeOK
  <2>1. 0 \in 0..Last
    BY LastAssumption
  <2> QED
    BY <2>1, Zenon DEF Init, TypeOK
<1>2. owed = {} /\ owing = {} /\ audit = "none"
  BY DEF Init
<1> QED
  BY <1>1, <1>2 DEF CoverInv, NothingSkipped

LEMMA CoverStep == CoverInv /\ [Next]_vars => CoverInv'
<1> SUFFICES ASSUME CoverInv, [Next]_vars PROVE CoverInv'
  OBVIOUS
<1> USE LastAssumption DEF CoverInv, TypeOK, filesystem, row, scan
<1>1. CASE Begin
  <2>1. strategy \in Nat \ {0} /\ Listing \in SUBSET Files /\ from = cursor
    BY <1>1, StrategiesAssumption DEF Begin, Listing, Remaining
  <2>2. owing' \subseteq present
    BY <1>1 DEF Begin
  <2>3. ASSUME NEW f \in owing' \ Twins PROVE f \in Listing
    <3>1. CASE from = 0 \/ Wraps
      <4>1. f \in present /\ Key(f) > 0
        BY <1>1, <2>3, <3>1, KeyFacts DEF Begin
      <4> QED
        BY <3>1, <4>1 DEF Listing, Remaining, AfterCursor
    <3>2. CASE ~(from = 0 \/ Wraps)
      <4>1. f \in owed \ Twins /\ Key(f) > from
        BY <1>1, <2>1, <2>3, <3>2 DEF Begin, NothingSkipped
      <4> QED
        BY <3>2, <4>1 DEF Listing, Remaining, AfterCursor
    <3> QED
      BY <3>1, <3>2
  <2>4. /\ window' = {f \in Listing : Rank(Listing, f) < strategy}
        /\ beyond' = (Cardinality(Listing) > strategy)
        /\ last' = 0
    BY <1>1 DEF Begin, Rank, Below
  <2>5. ScanInv'
    <3> SUFFICES ASSUME NEW f \in owing' \ Twins, f \notin window'
                 PROVE  Ahead(f)' /\ window' # {}
      BY DEF ScanInv
    <3>1. f \in Listing
      BY <2>3
    <3>2. beyond' /\ window' # {} /\ \A g \in window' : g < f
      BY <2>1, <2>4, <3>1, WindowComesFirst
    <3>3. f > last'
      BY <2>1, <2>4, <3>1 DEF Files
    <3> QED
      BY <3>2, <3>3 DEF Ahead
  <2>6. NothingSkipped'
    BY <1>1 DEF Begin, NothingSkipped, Key
  <2>7. TypeOK'
    BY <1>1, <2>1, <2>2 DEF Begin
  <2> QED
    BY <1>1, <2>2, <2>5, <2>6, <2>7 DEF Begin
<1>2. CASE Read
  <2>1. PICK f \in window, cut \in BOOLEAN :
          /\ \A g \in window : f <= g
          /\ last' = Key(f)
          /\ seen' = IF f \in readable THEN seen \cup {f} ELSE seen
          /\ owing' = owing \ {f}
          /\ window' = IF cut THEN {} ELSE window \ {f}
          /\ beyond' = (beyond \/ cut)
    BY <1>2 DEF Read, CutShort
  <2>2. f \in Files /\ Key(f) \in 1..Last /\ Key(f) <= f
    BY <2>1, KeyFacts
  <2>3. ASSUME NEW h \in owing' \ Twins
        PROVE  h \in window' \/ (Ahead(h)' /\ last' # 0)
    <3>1. h \in owing \ Twins /\ h # f /\ h \in Files
      BY <2>1, <2>3
    <3>2. h \in window \/ Ahead(h)
      BY <1>2, <3>1 DEF Read, ScanInv
    <3>3. h > f
      BY <2>1, <2>2, <3>1, <3>2 DEF Ahead, Files
    <3>4. h > last' /\ last' # 0
      BY <2>1, <2>2, <3>1, <3>3 DEF Files
    <3>5. h \in window' \/ (beyond' /\ \A g \in window' : g < h)
      BY <2>1, <3>1, <3>2 DEF Ahead
    <3> QED
      BY <3>4, <3>5 DEF Ahead
  <2>4. ScanInv'
    BY <2>3 DEF ScanInv
  <2>5. NothingSkipped'
    BY <1>2 DEF Read, NothingSkipped, Key
  <2>6. TypeOK'
    BY <1>2, <2>1, <2>2 DEF Read
  <2> QED
    BY <1>2, <2>1, <2>4, <2>5, <2>6 DEF Read
<1>3. CASE Collect
  <2>1. window = {} /\ ScanInv
    BY <1>3 DEF Collect
  <2>2. ASSUME NEW f \in owing \ Twins PROVE cursor' # 0 /\ Key(f) > cursor'
    <3>1. beyond /\ f > last /\ last # 0 /\ f \in Files
      BY <2>1, <2>2 DEF ScanInv, Ahead
    <3> QED
      BY <1>3, <3>1, <2>2, KeyFacts DEF Collect, NextCursor
  <2>3. NothingSkipped'
    <3>1. owed' = owing
      BY <1>3 DEF Collect
    <3> QED
      BY <2>2, <3>1 DEF NothingSkipped, Key
  <2>4. TypeOK'
    <3>1. 0 \in 0..Last /\ recorded' \in Strategies \cup {0} /\ cursor' \in 0..Last
      BY <1>3 DEF Collect, NextCursor
    <3> QED
      BY <1>3, <3>1, Zenon DEF Collect, NoAudit
  <2> QED
    BY <1>3, <2>3, <2>4 DEF Collect, NoAudit
<1>4. CASE FilesChange
  <2>1. TypeOK'
    BY <1>4 DEF FilesChange
  <2>2. owed' \subseteq owed \cap present' /\ owing' \subseteq owing \cap present'
    BY <1>4 DEF FilesChange
  <2>3. NothingSkipped'
    BY <1>4, <2>2 DEF FilesChange, NothingSkipped, Key
  <2>4. ScanInv => ScanInv'
    BY <1>4, <2>2 DEF FilesChange, ScanInv, Ahead
  <2> QED
    BY <1>4, <2>1, <2>2, <2>3, <2>4 DEF FilesChange
<1>5. CASE Report \/ RootMissing
  BY <1>5 DEF Report, RootMissing, NothingSkipped, Key, ScanInv, Ahead
<1>6. CASE CollectFailed \/ Down
  <2>1. /\ UNCHANGED <<filesystem, strategy, row, recent>> /\ NoAudit
        /\ pc' \in {"down", "schedule"}
    BY <1>6 DEF CollectFailed, Down
  <2>2. NothingSkipped'
    BY <2>1 DEF NothingSkipped, Key
  <2>3. TypeOK'
    <3>1. 0 \in 0..Last
      OBVIOUS
    <3> QED
      BY <2>1, <3>1, Zenon DEF NoAudit
  <2> QED
    BY <2>1, <2>2, <2>3 DEF NoAudit
<1>7. CASE Schedule
  BY <1>7 DEF Schedule, Due, NothingSkipped, Key
<1>8. CASE Pass \/ Unfinished \/ NotDue \/ Boot \/ Elapse \/ UNCHANGED vars
  BY <1>8 DEF Pass, Unfinished, NotDue, Boot, Elapse, vars,
              NothingSkipped, Key, ScanInv, Ahead
<1> QED
  BY <1>1, <1>2, <1>3, <1>4, <1>5, <1>6, <1>7, <1>8 DEF Next, Thread, Tick

\* Every variable keeps to its type, so the stored cursor is always the key
\* of a file, or empty.
THEOREM TypeCorrect == Spec => []TypeOK
<1>1. CoverInv => TypeOK
  BY DEF CoverInv
<1> QED
  BY <1>1, CoverInit, CoverStep, PTL DEF Spec

\* However scans, stores, ends of the manager, changes of strategy and of
\* the files interleave, the row's cursor never passes a file that has been
\* there since the cycle began and has not been dealt with, twins excepted.
THEOREM AuditSkipsNothing == Spec => []NothingSkipped
<1>1. CoverInv => NothingSkipped
  BY DEF CoverInv
<1> QED
  BY <1>1, CoverInit, CoverStep, PTL DEF Spec
=============================================================================
