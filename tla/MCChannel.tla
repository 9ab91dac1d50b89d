----------------------------- MODULE MCChannel ------------------------------
(* Instances of Channel for TLC. *)
EXTENDS Channel, TLC

CONSTANTS a, b

\* Digests of the content, as the seeder's tree gives them.
MCSHA1 == [head |-> "c", tail |-> NoTail, upper |-> FALSE]
MCSHA256 == [head |-> "c", tail |-> "t", upper |-> FALSE]

MCInfo == [IsSeeder |-> FALSE, SwarmID |-> MCSHA1, ChunkSize |-> 1024,
           MerkleHashTreeFunction |-> SHA1,
           ContentIntegrityProtectionMethod |-> MERKLEHASHTREE,
           ChunkAddressingMethod |-> CHUNKRANGES32]
MCSeeder(info) == [info EXCEPT !.IsSeeder = TRUE]
MCLong == [MCInfo EXCEPT !.MerkleHashTreeFunction = SHA256,
                         !.SwarmID = MCSHA256]

\* Two downloaders with the same parameters (a seeder as b does nothing that
\* a downloader does not), or a downloader and a seeder with others.
MCConfigurations ==
    {a :> MCInfo @@ b :> MCInfo,
     a :> [MCInfo EXCEPT !.ChunkSize = 512] @@ b :> MCSeeder(MCInfo),
     a :> [MCInfo EXCEPT !.MerkleHashTreeFunction = SHA256] @@
     b :> MCSeeder(MCInfo)}

MCSHA256Only == {a :> MCLong @@ b :> MCSeeder(MCLong)}

MCOneWay == {<<a, b>>}

Just(n, kind) == [k \in Faults |-> IF k = kind THEN n ELSE 0]
MCNoFaults == {Just(0, "lose")}
MCFaults == {Just(1, "lose"), Just(1, "duplicate"), Just(1, "overread")}
=============================================================================
