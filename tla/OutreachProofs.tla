---------------------------- MODULE OutreachProofs ----------------------------
(***************************************************************************)
(* Proofs about Outreach, for any recipients.                              *)
(*                                                                         *)
(* DisclosedInv adds to DisclosedFirst that a row with a first_contacted_at*)
(* belongs to a recipient that has been told; it rests on a message being  *)
(* recorded only after it was sent.  SettledInv adds that the row of a     *)
(* settled recipient still suppresses.                                     *)
(***************************************************************************)
EXTENDS Outreach, TLAPS

DisclosedInv ==
  /\ drafts \subseteq Messages /\ sent \subseteq Messages
  /\ contacted \in [Recipients -> BOOLEAN]
  /\ \A r \in Recipients : contacted[r] => r \in disclosed
  /\ \A m \in drafts : ~m[2] => m[1] \in disclosed
  /\ \A m \in sent : m[1] \in disclosed

LEMMA DisclosedStep == DisclosedInv /\ [Next]_vars => DisclosedInv'
<1> SUFFICES ASSUME DisclosedInv, [Next]_vars PROVE DisclosedInv'
  OBVIOUS
<1> USE DEF DisclosedInv, Messages
<1>1. ASSUME NEW r \in Recipients, OptOut(r) PROVE DisclosedInv'
  BY <1>1 DEF OptOut
<1>2. ASSUME NEW r \in Recipients, NEW spelling \in Spellings, Prepare(r, spelling)
      PROVE  DisclosedInv'
  <2>1. /\ FirstContact(r, spelling) \in BOOLEAN
        /\ ~FirstContact(r, spelling) => contacted[r]
    BY DEF FirstContact, Found
  <2> QED
    BY <1>2, <2>1 DEF Prepare
<1>3. ASSUME NEW m \in Messages, Send(m) PROVE DisclosedInv'
  <2>1. m \in drafts /\ m[1] \in disclosed' /\ disclosed \subseteq disclosed'
    BY <1>3 DEF Send
  <2> QED
    BY <1>3, <2>1 DEF Send
<1>4. ASSUME NEW m \in Messages, RecordSent(m) PROVE DisclosedInv'
  <2>1. m[1] \in Recipients /\ m[1] \in disclosed
    BY <1>4 DEF RecordSent
  <2> QED
    BY <1>4, <2>1 DEF RecordSent
<1>5. CASE Restart
  BY <1>5 DEF Restart
<1>6. CASE UNCHANGED vars
  BY <1>6 DEF vars
<1> QED
  BY <1>1, <1>2, <1>3, <1>4, <1>5, <1>6 DEF Next

\* However drafts, sends, opt-outs and restarts interleave, and however the
\* channel is spelled, a message without the disclosure only goes to a
\* recipient that has been sent one with it.
THEOREM DisclosureComesFirst == Spec => []DisclosedFirst
<1>1. Init => DisclosedInv
  BY DEF Init, DisclosedInv
<1>2. DisclosedInv => DisclosedFirst
  BY DEF DisclosedInv, DisclosedFirst
<1> QED
  BY <1>1, <1>2, DisclosedStep, PTL DEF Spec

-----------------------------------------------------------------------------

SettledInv ==
  /\ state \in [Recipients -> States]
  /\ drafts \subseteq Messages /\ sent \subseteq Messages
  /\ settled \subseteq Recipients
  /\ \A r \in settled : state[r] = "DO_NOT_CONTACT"
  /\ \A m \in drafts \cup sent : m[1] \notin settled

LEMMA SettledStep ==
  ASSUME Spellings = {Normalised}
  PROVE  SettledInv /\ [Next]_vars => SettledInv'
<1> SUFFICES ASSUME SettledInv, [Next]_vars PROVE SettledInv'
  OBVIOUS
<1> USE DEF SettledInv, States, Messages
<1>1. ASSUME NEW r \in Recipients, OptOut(r) PROVE SettledInv'
  <2>1. ASSUME NEW m \in drafts \cup sent, m[1] = r PROVE InFlight(r)
    BY <1>1, <2>1 DEF InFlight
  <2>2. \A m \in drafts \cup sent : m[1] \notin settled'
    BY <1>1, <2>1 DEF OptOut
  <2> QED
    BY <1>1, <2>2 DEF OptOut, SuppressionState
<1>2. ASSUME NEW r \in Recipients, NEW spelling \in Spellings, Prepare(r, spelling)
      PROVE  SettledInv'
  <2>1. r \notin settled /\ FirstContact(r, spelling) \in BOOLEAN
    BY <1>2 DEF Prepare, Suppressed, Found, FirstContact
  <2> QED
    BY <1>2, <2>1 DEF Prepare
<1>3. ASSUME NEW m \in Messages, Send(m) PROVE SettledInv'
  BY <1>3 DEF Send
<1>4. ASSUME NEW m \in Messages, RecordSent(m) PROVE SettledInv'
  <2>1. m[1] \notin settled
    BY <1>4 DEF RecordSent
  <2> QED
    BY <1>4, <2>1 DEF RecordSent
<1>5. CASE Restart
  BY <1>5 DEF Restart
<1>6. CASE UNCHANGED vars
  BY <1>6 DEF vars
<1> QED
  BY <1>1, <1>2, <1>3, <1>4, <1>5, <1>6 DEF Next

\* If callers spell the channel in its normal form, a recipient that opts
\* out while nothing is in flight is never written to again.
THEOREM SettledOptOutsHold ==
  Spellings = {Normalised} => (Spec => []SettledOptOutHolds)
<1> SUFFICES ASSUME Spellings = {Normalised} PROVE Spec => []SettledOptOutHolds
  OBVIOUS
<1>1. Init => SettledInv
  BY DEF Init, SettledInv, States
<1>2. SettledInv => SettledOptOutHolds
  BY DEF SettledInv, SettledOptOutHolds
<1>3. SettledInv /\ [Next]_vars => SettledInv'
  BY SettledStep
<1> QED
  BY <1>1, <1>2, <1>3, PTL DEF Spec
=============================================================================
