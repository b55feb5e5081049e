------------------------------- MODULE Outreach -------------------------------
(***************************************************************************)
(* OutreachRegistry (manager/autonomy.py): transparent first contact and   *)
(* opt-out over the outreach_contacts table.  A message is prepared, sent  *)
(* by whoever asked for it, and recorded as sent; meanwhile other drafts   *)
(* are prepared, recipients opt out, and the manager may be killed.        *)
(*                                                                         *)
(* A contact is written under the normalised channel, and looked up by     *)
(* prepare() under the channel as the caller spells it.  Drafts to one     *)
(* recipient differ in first_contact only, so they form a set.             *)
(***************************************************************************)
EXTENDS FiniteSets

CONSTANTS Recipients,
          Spellings     \* how callers spell the channel

Normalised == "email"
ASSUME SpellingsAssumption == Normalised \in Spellings

VARIABLES
  state,      \* the contact's state, "none" for no row
  contacted,  \* whether the row has a first_contacted_at
  drafts,     \* prepared messages, <<recipient, first_contact>>
  sent,       \* those sent and not recorded yet
  \* history
  disclosed,  \* recipients that have been told who writes to them
  settled     \* those of them for whom nothing was in flight then

vars == <<state, contacted, drafts, sent, disclosed, settled>>

Messages == Recipients \X BOOLEAN
States == {"none", "ACTIVE", "DO_NOT_CONTACT"}

TypeOK ==
  /\ state \in [Recipients -> States]
  /\ contacted \in [Recipients -> BOOLEAN]
  /\ drafts \subseteq Messages /\ sent \subseteq Messages
  /\ disclosed \subseteq Recipients
  /\ settled \subseteq Recipients

Init ==
  /\ state = [r \in Recipients |-> "none"]
  /\ contacted = [r \in Recipients |-> FALSE]
  /\ drafts = {} /\ sent = {}
  /\ disclosed = {} /\ settled = {}

InFlight(r) == \E first \in BOOLEAN : <<r, first>> \in drafts \cup sent

\* The row that prepare() finds.
Found(r, spelling) == spelling = Normalised /\ state[r] # "none"

SuppressionIgnored(r, spelling) == FALSE      \* faulty variant
Suppressed(r, spelling) == Found(r, spelling) /\ state[r] = "DO_NOT_CONTACT"

FirstIfNoneInFlight(r, spelling) ==                   \* faulty variant
  (~Found(r, spelling) \/ ~contacted[r]) /\ ~InFlight(r)
FirstContact(r, spelling) == ~Found(r, spelling) \/ ~contacted[r]

\* prepare(), when it returns a draft.
Prepare(r, spelling) ==
  /\ ~Suppressed(r, spelling)
  /\ drafts' = drafts \cup {<<r, FirstContact(r, spelling)>>}
  /\ UNCHANGED <<state, contacted, sent, disclosed, settled>>

\* The first message begins with the disclosure.
Send(m) ==
  /\ m \in drafts
  /\ drafts' = drafts \ {m}
  /\ sent' = sent \cup {m}
  /\ disclosed' = IF m[2] THEN disclosed \cup {m[1]} ELSE disclosed
  /\ UNCHANGED <<state, contacted, settled>>

\* record_sent()
RecordSent(m) ==
  /\ m \in sent
  /\ sent' = sent \ {m}
  /\ state' = [state EXCEPT ![m[1]] = "ACTIVE"]
  /\ contacted' = [contacted EXCEPT ![m[1]] = TRUE]
  /\ UNCHANGED <<drafts, disclosed, settled>>

\* record_opt_out() keeps the first_contacted_at of the row.
SuppressionState == "DO_NOT_CONTACT"

OptOut(r) ==
  /\ state' = [state EXCEPT ![r] = SuppressionState]
  /\ settled' = IF InFlight(r) THEN settled ELSE settled \cup {r}
  /\ UNCHANGED <<contacted, drafts, sent, disclosed>>

\* The manager is killed, and started again.
Restart ==
  /\ drafts' = {} /\ sent' = {}
  /\ UNCHANGED <<state, contacted, disclosed, settled>>

Next ==
  \/ \E r \in Recipients : OptOut(r) \/ \E spelling \in Spellings : Prepare(r, spelling)
  \/ \E m \in Messages : Send(m) \/ RecordSent(m)
  \/ Restart

Spec == Init /\ [][Next]_vars

-----------------------------------------------------------------------------
(* Properties.                                                             *)

\* "The first outreach message to a new recipient begins with" the
\* disclosure (OPERATING_CHARTER.md:42-44), whatever else is in flight and
\* whatever the manager forgets: a message without one goes only to
\* recipients that have had one.
DisclosedFirst == \A m \in drafts \cup sent : ~m[2] => m[1] \in disclosed

\* Somebody who opts out while nothing is in flight gets no further draft.
SettledOptOutHolds == \A m \in drafts \cup sent : m[1] \notin settled
=============================================================================
