----------------------------- MODULE ChunkStore -----------------------------
(* What the shared Binmap of a downloading node promises the channels that   *)
(* use it, whatever the representation: a chunk once stored stays stored, a  *)
(* chunk is handed out for request only while it is missing, and a stored    *)
(* chunk is no longer outstanding.                                           *)

CONSTANT Chunks         \* the chunks of the content

VARIABLES have,         \* the chunks stored
          requested     \* the missing chunks some channel has asked for

vars == <<have, requested>>

Init == have = {} /\ requested = {}

Store(i) ==
    /\ have' = have \cup {i}
    /\ requested' = requested \ {i}

Request(i) ==
    /\ i \notin have
    /\ requested' = requested \cup {i}
    /\ UNCHANGED have

Release(i) ==
    /\ requested' = requested \ {i}
    /\ UNCHANGED have

Next == \E i \in Chunks : Store(i) \/ Request(i) \/ Release(i)

Spec == Init /\ [][Next]_vars
=============================================================================
