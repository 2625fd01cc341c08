----------------------- MODULE OrganizationLifecycle -----------------------
(***************************************************************************)
(* What becomes of Organizations, as tenants of one database.  An          *)
(* Organization is created empty, may be archived, and is removed, from    *)
(* either state, together with everything that belongs to it; it never     *)
(* comes back.  Whatever happens happens to one Organization: what belongs *)
(* to the others stays as it is.                                           *)
(***************************************************************************)
CONSTANT Org   \* the ids that an Organization may get

VARIABLES
    status,    \* of each id; an id that something else got is "gone"
    content    \* rows, each with the id of the Organization it belongs to

vars == <<status, content>>

Present == {o \in Org : status[o] \in {"active", "archived"}}

Init ==
    /\ status \in [Org -> {"unused", "active", "archived", "gone"}]
    /\ \A x \in content : x.org \in Present

\* What has changed belongs to o.
Touches(o) == \A x \in (content \ content') \cup (content' \ content) : x.org = o

Create(o) ==
    /\ status[o] = "unused"
    /\ status' = [status EXCEPT ![o] = "active"]
    /\ UNCHANGED content

Archive(o) ==
    /\ status' = [status EXCEPT ![o] = "archived"]
    /\ Touches(o)

\* A row is changed, deleted or inserted; a new one takes an unused id.
Work(o) ==
    /\ \/ UNCHANGED status
       \/ \E i \in Org : status[i] = "unused" /\ status' = [status EXCEPT ![i] = "gone"]
    /\ Touches(o)

Remove(o) ==
    /\ status' = [status EXCEPT ![o] = "gone"]
    /\ Touches(o)
    /\ \A x \in content' : x.org # o

Next ==
    \/ \E o \in Org : Create(o)
    \/ \E o \in Present : Archive(o) \/ Work(o) \/ Remove(o)

Spec == Init /\ [][Next]_vars

=============================================================================
