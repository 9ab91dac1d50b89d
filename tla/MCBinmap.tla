------------------------------ MODULE MCBinmap ------------------------------
(* Instances of Binmap for TLC. *)
EXTENDS Binmap, TLC

\* What a peer may have announced: everything (the HAVE of a handshake), an
\* upper part before a lower one (further HAVEs, in any order), and a single
\* chunk in the middle.
MCPeerLists ==
    { <<[Start |-> 0, End |-> NumChunks - 1]>>,
      <<[Start |-> NumChunks - 2, End |-> NumChunks - 1],
        [Start |-> 0, End |-> 1]>>,
      <<[Start |-> 1, End |-> 1]>> }

MCSymmetry == Permutations(Threads)
=============================================================================
