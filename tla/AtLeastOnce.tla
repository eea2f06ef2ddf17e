----------------------------- MODULE AtLeastOnce -----------------------------
(***************************************************************************)
(* What replicating a table promises, whatever the source, the sink, the   *)
(* crashes and the restarts: the position that a restart resumes from      *)
(* leaves a change behind only after the change has been delivered, that   *)
(* is, written to the sink or parked in the dead letter queue.  A change   *)
(* may be delivered again and again.                                       *)
(***************************************************************************)
EXTENDS Integers

CONSTANT NChanges

VARIABLES
    committed,  \* length of the source's log
    delivered,  \* changes in the sink or in the queue
    settled     \* changes that the saved position leaves behind

vars == <<committed, delivered, settled>>

Init == committed \in 0..NChanges /\ delivered = {} /\ settled = {}

Commit ==
    /\ committed' \in committed..NChanges
    /\ UNCHANGED <<delivered, settled>>

Deliver ==
    /\ delivered \subseteq delivered' /\ delivered' \subseteq delivered \union 1..committed
    /\ UNCHANGED <<committed, settled>>

\* The position moves on, or back: what it leaves behind has been delivered.
Settle ==
    /\ settled' \subseteq delivered
    /\ UNCHANGED <<committed, delivered>>

Next == Commit \/ Deliver \/ Settle

Spec == Init /\ [][Next]_vars
=============================================================================
