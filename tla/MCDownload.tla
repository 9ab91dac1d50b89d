----------------------------- MODULE MCDownload -----------------------------
(* Instances of Download for TLC. *)
EXTENDS Download, TLC

CONSTANTS c1, c2

\* Every peer announces the whole content.
MCSeeders == [c \in Channels |-> [Start |-> 0, End |-> NumChunks - 1]]

\* The second peer announces an upper part of it only.
MCPartial == (c1 :> [Start |-> 0, End |-> NumChunks - 1])
          @@ (c2 :> [Start |-> 1, End |-> NumChunks - 1])

Just(n, kind) == [k \in Faults |-> IF k = kind THEN n ELSE 0]

\* A reliable network; one that loses a datagram.
MCNoFaults == {Just(0, "lose")}
MCLoss == {Just(1, "lose")}

\* Enough corrupt DATAs to use up the retries, or one other fault.
MCFaults == {Just(3, "corrupt"), Just(1, "lose"), Just(1, "duplicate"),
             Just(1, "crash")}
=============================================================================
