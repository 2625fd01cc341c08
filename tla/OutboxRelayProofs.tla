------------------------ MODULE OutboxRelayProofs ------------------------
(***************************************************************************)
(* Proofs about OutboxRelay, for any number of events, replicas and        *)
(* faults and for any BatchLimit.                                          *)
(***************************************************************************)
EXTENDS OutboxRelay, FiniteSetTheorems, TLAPS

-----------------------------------------------------------------------------
(* The inductive invariant.                                                 *)

Known == {"committed", "published", "deleted"}

\* A Relay only ever holds rows it has read as committed.
BatchWasCommitted ==
    \A n \in Replica : \A e \in batch[n] : row[e] \in Known

\* Rows are deleted with their Organization only, so that the foreign key
\* rejects a late audit INSERT.
DeletedWithOrganization ==
    \A e \in Event : row[e] = "deleted" => OrganizationOf[e] \notin organizations

\* An event at hand has passed the handlers before its step.
EventAtHand ==
    \A n \in Replica : relay[n].step # "idle" =>
        /\ relay[n].event \in Event
        /\ row[relay[n].event] \in Known
        /\ row[relay[n].event] = "deleted" \/ entries[relay[n].event] > 0
        /\ relay[n].step = "publishing" => relay[n].event \in accepted

DeliveryInv ==
    /\ TypeOK
    /\ RecordedOnce
    /\ PublishedWasHandled
    /\ OnlyCommittedIsHandled
    /\ BatchWasCommitted
    /\ DeletedWithOrganization
    /\ EventAtHand

\* Init and every step of Next establish and keep TypeOK and the rest.
LEMMA DeliveryInit == Init => DeliveryInv
BY OutboxAssumption
   DEF Init, DeliveryInv, TypeOK, RowState, Idle, RecordedOnce,
       PublishedWasHandled, OnlyCommittedIsHandled, BatchWasCommitted,
       EventAtHand, Known, DeletedWithOrganization

\* What the database transactions of domain code do to the invariant.
LEMMA WriteKeepsDelivery ==
    ASSUME DeliveryInv, NEW e \in Event, Begin(e) \/ Finish(e)
    PROVE  DeliveryInv'
<1> DEFINE begun == {f \in Event : row[f] # "none"}
<1>1. Cardinality(begun) \in Nat
  <2>1. IsFiniteSet(Event)
    BY OutboxAssumption
  <2>2. IsFiniteSet(begun)
    BY <2>1, FS_Subset
  <2> QED
    BY <2>2, FS_CardinalityType
<1>2. occurredAt' \in [Event -> Nat] /\ row' \in [Event -> RowState]
  <2>1. CASE Begin(e)
    BY <1>1, <2>1 DEF Begin, DeliveryInv, TypeOK, RowState
  <2>2. CASE Finish(e)
    BY <2>2 DEF Finish, DeliveryInv, TypeOK, RowState
  <2> QED
    BY <2>1, <2>2
<1>3. UNCHANGED <<entries, accepted, batch, relay, faults>>
  BY DEF Begin, Finish
<1>4. /\ row[e] \in {"none", "open"}
      /\ \A f \in Event : f # e => row'[f] = row[f]
      /\ row'[e] \notin {"published", "deleted"}
      /\ organizations' = organizations
  BY DEF Begin, Finish, DeliveryInv, TypeOK
<1>5. TypeOK'
  BY <1>2, <1>3, <1>4 DEF DeliveryInv, TypeOK
<1>6. /\ RecordedOnce'
      /\ PublishedWasHandled'
      /\ OnlyCommittedIsHandled'
  BY <1>3, <1>4
     DEF DeliveryInv, RecordedOnce, PublishedWasHandled,
         OnlyCommittedIsHandled
<1>7. BatchWasCommitted' /\ DeletedWithOrganization' /\ EventAtHand'
  BY <1>3, <1>4
     DEF DeliveryInv, TypeOK, BatchWasCommitted, EventAtHand, Known, DeletedWithOrganization
<1> QED
  BY <1>5, <1>6, <1>7 DEF DeliveryInv

\* A purge takes the entries along with the rows, and leaves Relays with rows
\* that the foreign key will reject.
LEMMA PurgeKeepsDelivery ==
    ASSUME DeliveryInv, NEW o \in Organization, Purge(o)
    PROVE  DeliveryInv'
<1>1. /\ organizations' = organizations \ {o}
      /\ UNCHANGED <<occurredAt, accepted, batch, relay, faults>>
  BY DEF Purge
<1>2. /\ row' \in [Event -> RowState]
      /\ entries' \in [Event -> Nat]
  BY DEF Purge, DeliveryInv, TypeOK, RowState
<1>3. \A e \in Event :
        \/ row'[e] = row[e] /\ entries'[e] = entries[e]
        \/ /\ OrganizationOf[e] = o
           /\ entries'[e] = 0
           /\ row[e] \in {"committed", "published"} => row'[e] = "deleted"
           /\ row[e] \notin {"committed", "published"} => row'[e] = row[e]
  BY DEF Purge
<1>4. TypeOK'
  BY <1>1, <1>2 DEF DeliveryInv, TypeOK
<1>5. /\ RecordedOnce'
      /\ PublishedWasHandled'
      /\ OnlyCommittedIsHandled'
  BY <1>1, <1>3
     DEF DeliveryInv, RecordedOnce, PublishedWasHandled,
         OnlyCommittedIsHandled
<1>6. BatchWasCommitted' /\ DeletedWithOrganization'
  BY <1>1, <1>3
     DEF DeliveryInv, TypeOK, BatchWasCommitted, DeletedWithOrganization, Known
<1>7. EventAtHand'
  <2> SUFFICES ASSUME NEW n \in Replica, relay[n].step # "idle"
               PROVE  /\ relay[n].event \in Event
                      /\ row'[relay[n].event] \in Known
                      /\ \/ row'[relay[n].event] = "deleted"
                         \/ entries'[relay[n].event] > 0
                      /\ relay[n].step = "publishing"
                           => relay[n].event \in accepted
    BY <1>1 DEF EventAtHand
  <2>1. /\ relay[n].event \in Event
        /\ row[relay[n].event] \in Known
        /\ row[relay[n].event] = "deleted" \/ entries[relay[n].event] > 0
        /\ relay[n].step = "publishing" => relay[n].event \in accepted
    BY DEF DeliveryInv, EventAtHand
  <2> QED
    BY <1>3, <2>1 DEF Known
<1> QED
  BY <1>4, <1>5, <1>6, <1>7 DEF DeliveryInv

\* Recording adds an entry of a committed event, at most one.
LEMMA CreateKeepsCounts ==
    ASSUME DeliveryInv, NEW e \in Event, row[e] \in Known, Create(e)
    PROVE  /\ row[e] \in {"committed", "published"}
           /\ entries' \in [Event -> Nat]
           /\ entries'[e] = 1
           /\ \A f \in Event : f # e => entries'[f] = entries[f]
BY DEF DeliveryInv, TypeOK, RecordedOnce, Create, Known,
       DeletedWithOrganization

\* A Relay's step in the batch keeps the invariant.
LEMMA RelayKeepsDelivery ==
    ASSUME DeliveryInv, NEW n \in Replica,
           RelayNext(n) \/ RecordFails(n) \/ BatchLost(n)
    PROVE  DeliveryInv'
<1> USE DEF Known, DeletedWithOrganization
<1>1. CASE Poll(n)
  BY <1>1
     DEF Poll, outboxVars, OldestUnpublished, Unpublished, DeliveryInv, TypeOK,
         RecordedOnce, PublishedWasHandled, OnlyCommittedIsHandled,
         BatchWasCommitted, EventAtHand
<1>2. ASSUME NEW e \in batch[n], Create(e), UNCHANGED <<outboxVars, accepted>>,
             batch' = [batch EXCEPT ![n] = @ \ {e}],
             \/ relay' = relay
             \/ relay' = [relay EXCEPT ![n] = [step |-> "dispatching",
                                               event |-> e]],
             faults' \in 0..MaxFaults
      PROVE  DeliveryInv'
  <2>1. e \in Event /\ row[e] \in Known
    BY DEF DeliveryInv, TypeOK, BatchWasCommitted
  <2>2. /\ row[e] \in {"committed", "published"}
        /\ entries' \in [Event -> Nat]
        /\ entries'[e] = 1
        /\ \A f \in Event : f # e => entries'[f] = entries[f]
    BY <1>2, <2>1, CreateKeepsCounts
  <2>3. TypeOK'
    BY <1>2, <2>1, <2>2 DEF DeliveryInv, TypeOK, outboxVars
  <2>4. RecordedOnce' /\ PublishedWasHandled' /\ OnlyCommittedIsHandled'
    BY <1>2, <2>1, <2>2
       DEF DeliveryInv, RecordedOnce, PublishedWasHandled,
           OnlyCommittedIsHandled, outboxVars
  <2>5. BatchWasCommitted' /\ DeletedWithOrganization'
    BY <1>2 DEF DeliveryInv, TypeOK, BatchWasCommitted, outboxVars
  <2>6. EventAtHand'
    BY <1>2, <2>1, <2>2 DEF DeliveryInv, TypeOK, EventAtHand, outboxVars
  <2> QED
    BY <2>3, <2>4, <2>5, <2>6 DEF DeliveryInv
<1>3. CASE Record(n)
  BY <1>2, <1>3 DEF Record, DeliveryInv, TypeOK
<1>9. CASE RecordRejected(n)
  BY <1>9
     DEF RecordRejected, outboxVars, DeliveryInv, TypeOK, RecordedOnce,
         PublishedWasHandled, OnlyCommittedIsHandled, BatchWasCommitted,
         EventAtHand
<1>4. CASE Accept(n)
  BY <1>4
     DEF Accept, outboxVars, DeliveryInv, TypeOK, RecordedOnce,
         PublishedWasHandled, OnlyCommittedIsHandled, BatchWasCommitted,
         EventAtHand
<1>5. CASE Refuse(n)
  BY <1>5
     DEF Refuse, Idle, outboxVars, DeliveryInv, TypeOK, RecordedOnce,
         PublishedWasHandled, OnlyCommittedIsHandled, BatchWasCommitted,
         EventAtHand
<1>6. CASE Publish(n)
  BY <1>6
     DEF Publish, MarkPublished, Idle, DeliveryInv, TypeOK, RowState, RecordedOnce,
         PublishedWasHandled, OnlyCommittedIsHandled, BatchWasCommitted,
         EventAtHand
<1>7. CASE RecordFails(n)
  <2> PICK e \in batch[n] :
        /\ faults < MaxFaults
        /\ faults' = faults + 1
        /\ Create(e) \/ UNCHANGED entries
        /\ batch' = [batch EXCEPT ![n] = @ \ {e}]
        /\ UNCHANGED <<outboxVars, accepted, relay>>
    BY <1>7 DEF RecordFails
  <2>1. faults' \in 0..MaxFaults
    BY OutboxAssumption DEF DeliveryInv, TypeOK
  <2>2. CASE Create(e)
    BY <1>2, <2>1, <2>2
  <2>3. CASE UNCHANGED entries
    BY <2>1, <2>3
       DEF outboxVars, DeliveryInv, TypeOK, RecordedOnce, PublishedWasHandled,
           OnlyCommittedIsHandled, BatchWasCommitted, EventAtHand
  <2> QED
    BY <2>2, <2>3
<1>8. CASE BatchLost(n)
  <2>1. faults' \in 0..MaxFaults
    BY <1>8, OutboxAssumption DEF BatchLost, DeliveryInv, TypeOK
  <2>2. CASE UNCHANGED row
    BY <1>8, <2>1, <2>2
       DEF BatchLost, Idle, DeliveryInv, TypeOK, RecordedOnce,
           PublishedWasHandled, OnlyCommittedIsHandled, BatchWasCommitted,
           EventAtHand
  <2>3. CASE /\ relay[n].step = "publishing"
             /\ MarkPublished(relay[n].event)
    BY <1>8, <2>1, <2>3
       DEF BatchLost, MarkPublished, Idle, DeliveryInv, TypeOK, RowState,
           RecordedOnce,
           PublishedWasHandled, OnlyCommittedIsHandled, BatchWasCommitted,
           EventAtHand
  <2> QED
    BY <1>8, <2>2, <2>3 DEF BatchLost
<1> QED
  BY <1>1, <1>3, <1>4, <1>5, <1>6, <1>7, <1>8, <1>9
  DEF RelayNext

\* Every step keeps the invariant: a domain transaction's, a Relay's, a fault.
LEMMA DeliveryStep == DeliveryInv /\ [Next]_vars => DeliveryInv'
<1> SUFFICES ASSUME DeliveryInv, [Next]_vars
             PROVE  DeliveryInv'
  OBVIOUS
<1>1. CASE UNCHANGED vars
  BY <1>1
     DEF vars, outboxVars, DeletedWithOrganization, DeliveryInv, TypeOK, RecordedOnce, PublishedWasHandled,
         OnlyCommittedIsHandled, BatchWasCommitted, EventAtHand
<1>2. CASE Next
  BY <1>2, WriteKeepsDelivery, PurgeKeepsDelivery, RelayKeepsDelivery DEF Next
<1> QED
  BY <1>1, <1>2

\* The invariant holds in every reachable state of outbox and Relays.
LEMMA DeliveryInvariant == Spec => []DeliveryInv
BY DeliveryInit, DeliveryStep, PTL DEF Spec

-----------------------------------------------------------------------------
(* The theorems.                                                            *)

\* However often replicas and restarts redeliver an event, Audit holds at most
\* one entry for it (AuditEntryRepository.Create's ON CONFLICT).
THEOREM AuditIsIdempotent == Spec => []RecordedOnce
<1>1. DeliveryInv => RecordedOnce
  BY DEF DeliveryInv
<1> QED
  BY <1>1, DeliveryInvariant, PTL

\* No event is marked published before both of relayBatch's consumers are done
\* with it, on whichever replica and after whichever faults.
THEOREM NoConsumerLosesAnEvent == Spec => []PublishedWasHandled
<1>1. DeliveryInv => PublishedWasHandled
  BY DEF DeliveryInv
<1> QED
  BY <1>1, DeliveryInvariant, PTL

\* An event of a transaction that rolled back is never recorded or dispatched
\* (outbox.Write runs in its caller's transaction).
THEOREM RolledBackIsNeverHandled == Spec => []OnlyCommittedIsHandled
<1>1. DeliveryInv => OnlyCommittedIsHandled
  BY DEF DeliveryInv
<1> QED
  BY <1>1, DeliveryInvariant, PTL

\* The tables, the transactions in progress and the relays' positions keep
\* their types, whatever is written, relayed, purged, crashed or restarted.
THEOREM OutboxIsTypeCorrect == Spec => []TypeOK
<1>1. DeliveryInv => TypeOK
  BY DEF DeliveryInv
<1> QED
  BY <1>1, DeliveryInvariant, PTL

=============================================================================
