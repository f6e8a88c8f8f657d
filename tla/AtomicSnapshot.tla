----------------------------- MODULE AtomicSnapshot -----------------------------
(***************************************************************************)
(* What a snapshot transaction promises: "a crash exposes either the       *)
(* previous complete generation or the new one"                            *)
(* (transactional_snapshot.py:44-47).  The snapshot is one value that is   *)
(* replaced as a whole; until the replacement is durable, a power loss may *)
(* bring back a value it replaced.                                         *)
(***************************************************************************)
CONSTANTS Versions,   \* snapshots that may be published
          NoVersion   \* the flat root before the first transaction

VARIABLES value,      \* the snapshot a reader resolves
          survivors   \* the snapshots a power loss may leave

vars == <<value, survivors>>

Init == value = NoVersion /\ survivors = {NoVersion}

Publish(v) == v \notin survivors /\ value' = v /\ survivors' = survivors \cup {v}

MakeDurable == survivors' = {value} /\ UNCHANGED value

PowerLoss == value' \in survivors /\ survivors' = {value'}

Next == (\E v \in Versions : Publish(v)) \/ MakeDurable \/ PowerLoss

Spec == Init /\ [][Next]_vars
==================================================================================
