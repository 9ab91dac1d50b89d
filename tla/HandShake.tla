----------------------------- MODULE HandShake ------------------------------
(* What a HANDSHAKE tells of the node that sends it, and when the node that  *)
(* receives it refuses the channel: class HandShake, PPInfo::SetInfo and the *)
(* tests of PPClient::ReceiveHandShake. The options that nothing reads after *)
(* SetInfo (versions, live signatures, supported messages, which are always  *)
(* the same ones) and the listening port, which is only handed on to other   *)
(* peers, are left out.                                                      *)
EXTENDS Integers

\* A hash in bytes is [head, tail]: its first 20 bytes and the 12 more of a
\* SHA-256, or none. As a hexadecimal string it has upper, too: whether the
\* digits above 9 are capitals.
NoTail == "none"
ZeroTail == "zeros"

\* Mutant of GetHashFromString: it forgets the last bytes of any hash.
GetHashHalf(s) == [head |-> ZeroTail, tail |-> s.tail]

\* GetHashFromString converts 20 bytes and leaves the others zero.
GetHashFromString(s) ==
    [head |-> s.head, tail |-> IF s.tail = NoTail THEN NoTail ELSE ZeroTail]

\* GetStringFromHash writes every byte, in lower case.
GetStringFromHash(h) == [head |-> h.head, tail |-> h.tail, upper |-> FALSE]

\* MERKLE_HASH_TREE_FUNCTION, CONTENT_INTEGRITY_PROTECTION_METHOD and
\* CHUNK_ADDRESSING_METHOD: the values the code goes on with.
SHA1 == 0
SHA256 == 2
MERKLEHASHTREE == 1
CHUNKRANGES32 == 2

Supported(info) ==
    /\ info.MerkleHashTreeFunction \in {SHA1, SHA256}
    /\ info.ContentIntegrityProtectionMethod = MERKLEHASHTREE
    /\ info.ChunkAddressingMethod = CHUNKRANGES32

\* The parameters two nodes must have in common.
Parameters == {"MerkleHashTreeFunction", "ContentIntegrityProtectionMethod",
               "ChunkAddressingMethod", "ChunkSize"}

\* GetBuffer: the options a node sends. It leaves out a chunk size of 0.
GetBuffer(info) ==
    [option \in (Parameters \ {"ChunkSize"}) \cup {"SwarmIdentifier"} \cup
                (IF info.ChunkSize > 0 THEN {"ChunkSize"} ELSE {}) |->
        IF option = "SwarmIdentifier" THEN GetHashFromString(info.SwarmID)
                                      ELSE info[option]]

\* The value a node reads in the options: Create leaves that of an option that
\* is not there as the constructor set it.
Create(options, option) ==
    CASE option \notin DOMAIN options -> 0
      [] option = "SwarmIdentifier" -> GetStringFromHash(options[option])
      [] OTHER -> options[option]

\* Mutant of Differs: the hash functions may be different.
DiffersButFunction(info, options) ==
    \E p \in Parameters \ {"MerkleHashTreeFunction"} :
        p \in DOMAIN options /\ info[p] # Create(options, p)

\* One of the parameters that were sent is not the node's own.
Differs(info, options) ==
    \E p \in Parameters : p \in DOMAIN options /\ info[p] # Create(options, p)

\* ReceiveHandShake stops the channel: for another swarm, for a parameter the
\* two do not have in common, for one that is not supported.
Refused(info, options) ==
    \/ info.SwarmID # Create(options, "SwarmIdentifier")
    \/ Differs(info, options)
    \/ ~Supported([p \in Parameters |-> Create(options, p)])
=============================================================================
