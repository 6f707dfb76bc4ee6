--------------------------- MODULE SchemaHistory ---------------------------
(***************************************************************************)
(* What the registry of one table's schemas promises until an outdated     *)
(* session overwrites a version, without saying how: the versions are a    *)
(* log to which only the holder of the newest version appends, by one, a   *)
(* definition that differs.  Nothing in the log ever changes.  A           *)
(* user opens the log at the newest version and holds that version and     *)
(* its definition, a snapshot, until it lets go of it.                     *)
(***************************************************************************)
EXTENDS Naturals

CONSTANTS User,       \* who opens the registry
          Definition, \* the definitions of the table
          First       \* the number of the oldest version

VARIABLES log,  \* log[v]: the definition of version v
          held  \* held[u]: the snapshot that u holds, as a set of at most one

vars == <<log, held>>

Newest(v) == v \in DOMAIN log /\ \A other \in DOMAIN log : other <= v

\* The oldest version, if there is one, was not put there by a user.
Init == /\ \/ log = [v \in {} |-> {}]
           \/ \E d \in Definition : log = [v \in {First} |-> d]
        /\ held = [u \in User |-> {}]

Open(u) == /\ held[u] = {}
           /\ \E v \in DOMAIN log :
                 /\ Newest(v)
                 /\ held' = [held EXCEPT ![u] = {[version |-> v, definition |-> log[v]]}]
           /\ UNCHANGED log

\* Append d as the next version while holding the newest.  Whoever fails
\* after that also lets go.
Append(u, d) ==
    /\ \E snapshot \in held[u] :
          /\ Newest(snapshot.version) /\ d # snapshot.definition
          /\ log' = [v \in DOMAIN log \cup {snapshot.version + 1} |->
                       IF v = snapshot.version + 1 THEN d ELSE log[v]]
    /\ \/ UNCHANGED held
       \/ held' = [held EXCEPT ![u] = {}]

Close(u) == /\ held' = [held EXCEPT ![u] = {}]
            /\ UNCHANGED log

Next == \E u \in User : Open(u) \/ Close(u) \/ \E d \in Definition : Append(u, d)

Spec == Init /\ [][Next]_vars
=============================================================================
