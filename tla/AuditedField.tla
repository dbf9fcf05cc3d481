---------------------------- MODULE AuditedField ----------------------------
(***************************************************************************)
(* What an activity log promises of one field of many records: the field   *)
(* changes one value at a time, and each change appends the value that was *)
(* there and the value that replaced it.  A log with a stale "before", a   *)
(* missing entry or an entry for a change that did not happen is none of   *)
(* its behaviours.  Entries about other fields are <<>> here.              *)
(***************************************************************************)
EXTENDS Sequences

CONSTANTS Keys, Initial

VARIABLES value, log

Init == value = [k \in Keys |-> Initial] /\ log = [k \in Keys |-> <<>>]

Change(k) ==
    /\ value'[k] # value[k]
    /\ value' = [value EXCEPT ![k] = value'[k]]
    /\ log' = [log EXCEPT ![k] = Append(@, <<value[k], value'[k]>>)]

\* An entry about something else, which leaves the field alone.
Other(k) ==
    /\ value' = value
    /\ log' = [log EXCEPT ![k] = Append(@, <<>>)]

Next == \E k \in Keys : Change(k) \/ Other(k)

Spec == Init /\ [][Next]_<<value, log>>
=============================================================================
