--------------------------- MODULE MCOutboxRelay ---------------------------
(* Instances of OutboxRelay for TLC.                                        *)
EXTENDS OutboxRelay

\* RunQueued events in one Organization, all others in another.
ByType ==
    LET own == CHOOSE o \in Organization : TRUE IN
    [e \in Event |-> IF e \in RunQueued THEN own
                     ELSE CHOOSE o \in Organization : o # own]

=============================================================================
