---------------------------- MODULE OutboxRelay ----------------------------
(***************************************************************************)
(* The Transactional Outbox: domain transactions write events, the Relay   *)
(* of every Control Plane replica delivers them to Audit and then to Run   *)
(* dispatch, at least once, and marks them published.                      *)
(*                                                                         *)
(* Every domain transaction of the code base that calls outbox.Write is    *)
(* one Begin followed by Commit or Rollback.  What Run dispatch does with  *)
(* a RunQueued event is RunExecution's matter: here it accepts or refuses. *)
(***************************************************************************)
EXTENDS Naturals, FiniteSets

CONSTANTS
    Event,        \* the rows that may ever be written to outbox_events
    RunQueued,    \* those of type RunQueued: dispatch may refuse them for ever
    Organization,
    OrganizationOf,  \* the Organization of each event
    Replica,
    NoEvent,      \* what an idle Relay handles
    BatchLimit,   \* the LIMIT of relayBatch's query; 100 in the code
    MaxFaults     \* bounds the crashes and failed database calls

ASSUME OutboxAssumption ==
    /\ IsFiniteSet(Event)
    /\ RunQueued \subseteq Event
    /\ OrganizationOf \in [Event -> Organization]
    /\ NoEvent \notin Event
    /\ BatchLimit \in Nat \ {0}
    /\ MaxFaults \in Nat

VARIABLES
    organizations,  \* the Organizations whose row exists
    row,          \* the state of each event's row in outbox_events
    occurredAt,   \* outbox_events.occurred_at, 0 for "not yet"
    entries,      \* the number of audit_entries rows with this source_event_id
    accepted,     \* the events Run dispatch has returned nil for
    batch,        \* each Relay: the rows read and not yet handled
    relay,        \* each Relay: the event at hand and the next step
    faults

outboxVars == <<organizations, row, occurredAt>>
vars == <<outboxVars, entries, accepted, batch, relay, faults>>

RowState == {"none", "open", "rolledback", "committed", "published",
             "deleted"}

\* The types of the rows and of what each Relay's loop keeps between steps.
TypeOK ==
    /\ organizations \in SUBSET Organization
    /\ row \in [Event -> RowState]
    /\ occurredAt \in [Event -> Nat]
    /\ entries \in [Event -> Nat]
    /\ accepted \in SUBSET Event
    /\ batch \in [Replica -> SUBSET Event]
    /\ relay \in [Replica -> [step : {"idle", "dispatching", "publishing"},
                              event : Event \cup {NoEvent}]]
    /\ faults \in 0..MaxFaults

Idle == [step |-> "idle", event |-> NoEvent]

Init ==
    /\ organizations = Organization
    /\ row = [e \in Event |-> "none"]
    /\ occurredAt = [e \in Event |-> 0]
    /\ entries = [e \in Event |-> 0]
    /\ accepted = {}
    /\ batch = [n \in Replica |-> {}]
    /\ relay = [n \in Replica |-> Idle]
    /\ faults = 0

-----------------------------------------------------------------------------
(* outbox.Write inside a domain transaction.                                *)

\* now() is the time the transaction began, so that rows may become visible
\* in another order than that of occurred_at.
Begin(e) ==
    /\ row[e] = "none"
    /\ row' = [row EXCEPT ![e] = "open"]
    /\ occurredAt' = [occurredAt EXCEPT
                        ![e] = 1 + Cardinality({f \in Event : row[f] # "none"})]
    /\ UNCHANGED <<organizations, entries, accepted, batch, relay, faults>>

\* The foreign key on organizations lets no row in once its Organization is
\* purged.
Finish(e) ==
    /\ row[e] = "open"
    /\ \/ /\ OrganizationOf[e] \in organizations
          /\ row' = [row EXCEPT ![e] = "committed"]
       \/ row' = [row EXCEPT ![e] = "rolledback"]
    /\ UNCHANGED <<organizations, occurredAt, entries, accepted, batch, relay, faults>>

\* OrganizationRepository.Purge: one transaction deletes an Organization with
\* its events and its audit entries.
Purge(o) ==
    LET kept(e) == OrganizationOf[e] # o IN
    /\ o \in organizations
    /\ organizations' = organizations \ {o}
    /\ row' = [e \in Event |->
                 IF kept(e) \/ row[e] \notin {"committed", "published"}
                 THEN row[e] ELSE "deleted"]
    /\ entries' = [e \in Event |-> IF kept(e) THEN entries[e] ELSE 0]
    /\ UNCHANGED <<occurredAt, accepted, batch, relay, faults>>

-----------------------------------------------------------------------------
(* Relay.relayBatch.                                                        *)

\* Mutant: outbox.Write uses the pool, not its caller's transaction.
VisibleTooEarly == {e \in Event : row[e] \in {"open", "committed"}}

Unpublished == {e \in Event : row[e] = "committed"}

Older(S, e) == {f \in S : occurredAt[f] < occurredAt[e]}

\* Mutant: the Relay keeps a cursor, and reads on from the newest published row.
ReadFromCursor ==
    LET seen == {e \in Event : row[e] = "published"} IN
    {e \in Unpublished : /\ Cardinality(Older(Unpublished, e)) < BatchLimit
                         /\ \A f \in seen : occurredAt[f] < occurredAt[e]}

\* WHERE published_at IS NULL ORDER BY occurred_at LIMIT BatchLimit.
OldestUnpublished ==
    {e \in Unpublished : Cardinality(Older(Unpublished, e)) < BatchLimit}

Poll(n) ==
    /\ relay[n] = Idle
    /\ batch[n] = {}
    /\ OldestUnpublished # {}
    /\ batch' = [batch EXCEPT ![n] = OldestUnpublished]
    /\ UNCHANGED <<outboxVars, entries, accepted, relay, faults>>

\* Mutant: a plain INSERT, as before migration 0008.
PlainInsert(e) ==
    /\ OrganizationOf[e] \in organizations
    /\ entries' = [entries EXCEPT ![e] = @ + 1]

\* INSERT ... ON CONFLICT (source_event_id) DO NOTHING, with a foreign key on
\* organizations.
Create(e) ==
    /\ OrganizationOf[e] \in organizations
    /\ entries' = [entries EXCEPT ![e] = IF @ = 0 THEN 1 ELSE @]

\* combinedHandler's first half: RecordEntryService.HandleEvent of the oldest
\* event left in the batch.
Record(n) ==
    \E e \in batch[n] :
        /\ relay[n] = Idle
        /\ Older(batch[n], e) = {}
        /\ Create(e)
        /\ batch' = [batch EXCEPT ![n] = @ \ {e}]
        /\ relay' = [relay EXCEPT ![n] = [step |-> "dispatching", event |-> e]]
        /\ UNCHANGED <<outboxVars, accepted, faults>>

\* The INSERT for an Organization purged since the batch was read is an error.
RecordRejected(n) ==
    \E e \in batch[n] :
        /\ relay[n] = Idle
        /\ Older(batch[n], e) = {}
        /\ OrganizationOf[e] \notin organizations
        /\ batch' = [batch EXCEPT ![n] = @ \ {e}]
        /\ UNCHANGED <<outboxVars, entries, accepted, relay, faults>>

\* combinedHandler's second half, RunDispatchService.HandleEvent: nil for any
\* event but RunQueued, and for a RunQueued one if its Run needs no retry.
Accept(n) ==
    LET e == relay[n].event IN
    /\ relay[n].step = "dispatching"
    /\ accepted' = accepted \cup {e}
    /\ relay' = [relay EXCEPT ![n].step = "publishing"]
    /\ UNCHANGED <<outboxVars, entries, batch, faults>>

\* Mutant: an event that Run dispatch refuses is marked published all the same.
PublishRefused(n) ==
    LET e == relay[n].event IN
    /\ relay[n].step = "dispatching"
    /\ e \in RunQueued
    /\ relay' = [relay EXCEPT ![n].step = "publishing"]
    /\ UNCHANGED <<outboxVars, entries, accepted, batch, faults>>

\* Mutant: a refused event is parked in a state that no query knows.
ParkRefused(n) ==
    /\ relay[n].step = "dispatching"
    /\ relay[n].event \in RunQueued
    /\ row' = [row EXCEPT ![relay[n].event] = "failed"]
    /\ relay' = [relay EXCEPT ![n] = Idle]
    /\ UNCHANGED <<organizations, occurredAt, entries, accepted, batch, faults>>

\* The handler's error leaves the event unpublished; the batch goes on.
Refuse(n) ==
    /\ relay[n].step = "dispatching"
    /\ relay[n].event \in RunQueued
    /\ relay' = [relay EXCEPT ![n] = Idle]
    /\ UNCHANGED <<outboxVars, entries, accepted, batch, faults>>

\* UPDATE outbox_events SET published_at = now() WHERE id = ...
MarkPublished(e) ==
    row' = [row EXCEPT ![e] = IF @ = "deleted" THEN @ ELSE "published"]

Publish(n) ==
    /\ relay[n].step = "publishing"
    /\ MarkPublished(relay[n].event)
    /\ relay' = [relay EXCEPT ![n] = Idle]
    /\ UNCHANGED <<organizations, occurredAt, entries, accepted, batch, faults>>

-----------------------------------------------------------------------------
(* Faults.                                                                  *)

\* The audit transaction fails, before or after its commit: the batch goes on.
RecordFails(n) ==
    \E e \in batch[n] :
        /\ faults < MaxFaults
        /\ faults' = faults + 1
        /\ relay[n] = Idle
        /\ Older(batch[n], e) = {}
        /\ Create(e) \/ UNCHANGED entries
        /\ batch' = [batch EXCEPT ![n] = @ \ {e}]
        /\ UNCHANGED <<outboxVars, accepted, relay>>

\* The UPDATE fails, before or after its commit, and relayBatch returns; or
\* the replica crashes, anywhere.  The rest of the batch is forgotten.
BatchLost(n) ==
    /\ faults < MaxFaults
    /\ faults' = faults + 1
    /\ batch[n] # {} \/ relay[n] # Idle
    /\ batch' = [batch EXCEPT ![n] = {}]
    /\ relay' = [relay EXCEPT ![n] = Idle]
    /\ \/ UNCHANGED row
       \/ relay[n].step = "publishing" /\ MarkPublished(relay[n].event)
    /\ UNCHANGED <<organizations, occurredAt, entries, accepted>>

-----------------------------------------------------------------------------
RelayNext(n) ==
    \/ Poll(n)
    \/ Record(n)
    \/ RecordRejected(n)
    \/ Accept(n)
    \/ Refuse(n)
    \/ Publish(n)

Next ==
    \/ \E e \in Event : Begin(e) \/ Finish(e)
    \/ \E o \in Organization : Purge(o)
    \/ \E n \in Replica : \/ RelayNext(n)
                          \/ RecordFails(n)
                          \/ BatchLost(n)

Spec == Init /\ [][Next]_vars

\* Each Relay's loop goes on, whatever dispatch answers.
FairSpec == Spec /\ \A n \in Replica : WF_vars(RelayNext(n))

-----------------------------------------------------------------------------
(* Properties.                                                              *)

\* Audit has at most one entry per event, however often it is redelivered:
\* "safe to re-run on a redelivery" (combinedHandler in main.go).
RecordedOnce == \A e \in Event : entries[e] <= 1

\* Every event marked published has its audit entry and was accepted by Run
\* dispatch: no consumer loses an event, although they share one published_at
\* flag ("not a per-consumer delivery table", main.go).
PublishedWasHandled ==
    \A e \in Event : row[e] = "published" => entries[e] > 0 /\ e \in accepted

\* Only events of a committed transaction are ever recorded or dispatched
\* (outbox.Write: "both commit, or both roll back, atomically"), and no audit
\* entry outlives the purge of its Organization, even if a Relay has the event
\* in its batch meanwhile.
OnlyCommittedIsHandled ==
    \A e \in Event :
        /\ entries[e] > 0 => row[e] \in {"committed", "published"}
        /\ e \in accepted => row[e] \in {"committed", "published", "deleted"}

\* Every committed event reaches Audit, and is published unless it is one that
\* dispatch refuses, even if its transaction commits after younger events were
\* published; unless its Organization is purged.  It needs fewer events refused
\* for ever than a batch can hold.
CommittedEventIsDelivered ==
    \A e \in Event : row[e] = "committed"
        ~> \/ row[e] = "deleted"
           \/ entries[e] > 0 /\ (e \in RunQueued \/ row[e] = "published")

=============================================================================
