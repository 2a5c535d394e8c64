------------------------------ MODULE HashRing ------------------------------
(***************************************************************************)
(* The client's path -> server router: ConsistentHash<ServerInfo>          *)
(* (util/hash/consistent_hash.h) built by SelectServer::Init and queried   *)
(* by SelectServer::GetInfo (util/select_server.cc), with the digest       *)
(* folding of HashCalcMD5::CalcHash and HashCalcSHA1::CalcHash.            *)
(*                                                                         *)
(* Data abstraction: a digest is a sequence of DigestLen digits of         *)
(* DigitBits bits each (the code: 16 or 20 bytes of 8 bits).  Every digit  *)
(* sequence is a possible digest, so a path is represented by its digest.  *)
(* The key width is DigitBits * DigestLen, as GetKeyBits() returns 8 * 16  *)
(* and 8 * 20.  Servers are the indices 1..n of the configured host list.  *)
(***************************************************************************)
EXTENDS Integers, Sequences, FiniteSets

CONSTANTS
    MaxFleet,     \* largest number of configured servers considered
    DigitBits,    \* bits per digest digit (8 in the code)
    DigestLen,    \* digits per digest (16 for MD5, 20 for SHA1)
    HashKind,     \* "MD5" or "SHA1": which CalcHash folds the digest
    CharIsSigned  \* whether plain char is signed in the build (x86: TRUE)

ASSUME MaxFleet \in Nat \ {0}
ASSUME DigitBits \in Nat \ {0} /\ DigestLen \in Nat \ {0}
ASSUME HashKind \in {"MD5", "SHA1"} /\ CharIsSigned \in BOOLEAN

KeyBits == DigitBits * DigestLen
Radix == 2 ^ DigitBits
Digests == [1..DigestLen -> 0..(Radix - 1)]

\* The sentinel ServerInfo() returned by GetNode when no range matches.
Empty == 0

(***************************************************************************)
(* ConsistentHash::CalcNodePointValue: the upper boundary of each range.   *)
(* max_value = 2^key_bits - 1, add_value = max_value / node_count; the     *)
(* first node_count - 1 boundaries are multiples of add_value and the last *)
(* one is max_value.                                                       *)
(***************************************************************************)
\* Fault variant: the boundary scan with a strict comparison.
GetNodeStrict(ring, key) ==
    LET hits == {i \in DOMAIN ring : key < ring[i]}
    IN  IF hits = {} THEN 0
        ELSE CHOOSE i \in hits : \A j \in hits : i <= j

\* Fault variant: max_value left at 1 << key_bits, without the decrement.
CalcNodePointValueWide(keyBits, nodeCount) ==
    LET maxValue == 2 ^ keyBits
        addValue == maxValue \div nodeCount
    IN  [i \in 1..nodeCount |-> IF i < nodeCount THEN addValue * i ELSE maxValue]

CalcNodePointValue(keyBits, nodeCount) ==
    LET maxValue == 2 ^ keyBits - 1
        addValue == maxValue \div nodeCount
    IN  [i \in 1..nodeCount |-> IF i < nodeCount THEN addValue * i ELSE maxValue]

\* ConsistentHash::Create: node_circle_ pairs boundary i with server i.
Create(keyBits, nodeCount) == CalcNodePointValue(keyBits, nodeCount)

(***************************************************************************)
(* ConsistentHash::GetNode: the first server, scanning ascending, whose    *)
(* boundary is >= key; the empty sentinel for an empty ring or no match.   *)
(***************************************************************************)
GetNode(ring, key) ==
    LET hits == {i \in DOMAIN ring : key <= ring[i]}
    IN  IF hits = {} THEN Empty
        ELSE CHOOSE i \in hits : \A j \in hits : i <= j

(***************************************************************************)
(* The digit value the fold adds.  HashCalcMD5 reads unsigned char; the    *)
(* SHA1 fold reads `char hash[20]` and adds (int)hash[index], which sign-  *)
(* extends when char is signed.                                            *)
(***************************************************************************)
\* Fault variant: a fold that reads the digest through plain (signed) char.
DigitValueSigned(d) ==
    IF d >= Radix \div 2 THEN d - Radix ELSE d

DigitValue(d) ==
    IF HashKind = "SHA1" /\ CharIsSigned /\ d >= Radix \div 2
    THEN d - Radix
    ELSE d

\* CalcHash: rethash <<= 8; rethash += digit, over the digest in order.
RECURSIVE FoldDigest(_, _)
FoldDigest(digest, acc) ==
    IF digest = <<>> THEN acc
    ELSE FoldDigest(Tail(digest), acc * Radix + DigitValue(Head(digest)))

CalcHash(digest) == FoldDigest(digest, 0)

VARIABLES
    ring,       \* chash_.node_circle_ boundaries, built once at Init
    lastKey,    \* the hash of the last path looked up
    lastNode    \* the server GetInfo returned for it

vars == <<ring, lastKey, lastNode>>

\* SelectServer::Init for a host list of n servers.
Init ==
    /\ \E n \in 1..MaxFleet : ring = Create(KeyBits, n)
    /\ lastKey = 0
    /\ lastNode = GetNode(ring, 0)

\* SelectServer::GetInfo(path): hash the path and look its server up.
GetInfo(digest) ==
    /\ lastKey' = CalcHash(digest)
    /\ lastNode' = GetNode(ring, lastKey')
    /\ UNCHANGED ring

Next == \E d \in Digests : GetInfo(d)

Spec == Init /\ [][Next]_vars

-----------------------------------------------------------------------------
TypeOK ==
    /\ ring \in Seq(0..(2 ^ KeyBits - 1))
    /\ Len(ring) \in 1..MaxFleet
    /\ lastKey \in Int
    /\ lastNode \in 0..MaxFleet

(***************************************************************************)
(* Reference partition from the design: the keyspace [0, 2^B) is cut into *)
(* Len(ring) contiguous ranges of floor((2^B - 1) / n) keys, the last      *)
(* range absorbing the remainder.  Key k belongs to range                  *)
(* (k - 1) \div size + 1 (key 0 to the first), capped at the last range.   *)
(***************************************************************************)
RefOwner(n, k) ==
    LET size == (2 ^ KeyBits - 1) \div n
    IN  IF k = 0 THEN 1
        ELSE IF size = 0 THEN n
        ELSE IF (k - 1) \div size + 1 < n THEN (k - 1) \div size + 1 ELSE n

(* Every lookup SelectServer::GetInfo makes returns the server that owns   *)
(* the key's range in the reference partition: the boundaries computed by  *)
(* CalcNodePointValue and the first-match scan of GetNode cover the whole  *)
(* keyspace without gap or overlap, so GetInfo's assert on a non-empty     *)
(* host never fires.                                                       *)
LookupMatchesReference ==
    lastNode = RefOwner(Len(ring), lastKey)

(* Every configured server owns the hash of some path: the folded digests  *)
(* of CalcHash reach every range of the ring, so no server of the fleet is *)
(* left without files.                                                     *)
EveryServerReachable ==
    \A i \in 1..Len(ring) : \E d \in Digests : GetNode(ring, CalcHash(d)) = i
=============================================================================
