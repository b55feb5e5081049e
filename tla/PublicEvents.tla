------------------------------ MODULE PublicEvents ------------------------------
(***************************************************************************)
(* The events table of the store (state_store.py) and the window of public *)
(* events that is made from it (run.merge_public_events, telemetry.py).    *)
(*                                                                         *)
(* An event is what it is about, the state it tells and the number of its  *)
(* creation, which stands for its timestamp and for the unique end of its  *)
(* id.  The public file keeps 40 characters of an id: of an event about    *)
(* something with a long name (evt-workstream-<24 letters>-, or            *)
(* evt-evidence-constraint_audit_completed-) the unique end is cut off.    *)
(***************************************************************************)
EXTENDS Naturals, Sequences, FiniteSets

CONSTANTS LongNames,   \* names that leave no room for the end of the id
          Retention,   \* events_retention: events the table keeps
          Limit        \* public_event_limit: events the window keeps

Event(about, state, number) ==
  [id |-> <<about, number>>, about |-> about, state |-> state, number |-> number]

\* The n newest of a set of events, the oldest first (ORDER BY timestamp).
Newer(events, e) == Cardinality({d \in events : d.number > e.number})
NewestOf(events, n) == {e \in events : Newer(events, e) < n}
Newest(events, n) ==
  LET kept == NewestOf(events, n)
  IN [i \in 1..Cardinality(kept) |->
        CHOOSE e \in kept : Newer(kept, e) = Cardinality(kept) - i]
LastOf(seq, n) == SubSeq(seq, IF Len(seq) > n THEN Len(seq) - n + 1 ELSE 1, Len(seq))

\* append_event: the insert and the deletion of what is too old.
NeverPruned(table, event) == table \cup {event}  \* faulty variant
Stored(table, event) == NewestOf(table \cup {event}, Retention)

\* recent_events
Recent(table) == Newest(table, Limit)

\* telemetry._events: the projection that is written.
PublicId(item) == IF item.about \in LongNames THEN <<item.about>> ELSE item.id
Projected(window) == [i \in DOMAIN window |-> [window[i] EXCEPT !.id = PublicId(window[i])]]

\* merge_public_events: an id stands where it came first, with what came last
\* under it; then the window is cut at its start.
EveryPlace(all, i) == TRUE               \* faulty variant
FirstPlace(all, i) == \A j \in 1..(i - 1) : all[j].id # all[i].id

Places(all) == {i \in DOMAIN all : FirstPlace(all, i)}
Place(all, k) == CHOOSE i \in Places(all) : Cardinality({j \in Places(all) : j < i}) = k - 1
LastWith(all, id) == CHOOSE i \in DOMAIN all :
  all[i].id = id /\ \A j \in (i + 1)..Len(all) : all[j].id # id

\* all: the window there was, followed by the recent events of the store.
Merged(all) ==
  LastOf([k \in 1..Cardinality(Places(all)) |-> all[LastWith(all, all[Place(all, k)].id)]], Limit)
=================================================================================
