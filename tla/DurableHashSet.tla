--------------------------- MODULE DurableHashSet ---------------------------
(***************************************************************************)
(* What the hash index promises to the rest of Hat, with the queue, the    *)
(* ids and the database transaction left out: there is a set of usable     *)
(* hashes and a set of hashes that a crash leaves behind, a hash never     *)
(* enters either one before everything its content points to is there, a   *)
(* crash falls back to the last saved set and to nothing in between, and   *)
(* only the garbage collector takes hashes away.                           *)
(***************************************************************************)
CONSTANTS
    Hash,       \* content hashes
    Childs      \* Childs[h]: the hashes that the content of h points to

VARIABLES
    live,       \* the hashes that are ready in the running program
    durable     \* the hashes that are ready after a crash and a restart

vars == <<live, durable>>

Closed(S) == \A h \in S : Childs[h] \subseteq S

Init == live = {} /\ durable = {}

Save == durable' = live /\ UNCHANGED live

\* New hashes become usable, and may be saved in the same step.
Publish ==
    /\ live \subseteq live' /\ live' \subseteq Hash
    /\ Closed(live')
    /\ durable' \in {durable, live'}

\* The collector drops hashes nothing else points to, and saves the result.
Collect ==
    /\ live' \subseteq live
    /\ Closed(live')
    /\ durable' = live'

Crash == live' = durable /\ UNCHANGED durable

Next == Save \/ Publish \/ Collect \/ Crash

Spec == Init /\ [][Next]_vars

=============================================================================
