---------------------------- MODULE MemoryClaim ----------------------------
(***************************************************************************)
(* The algorithms of memory_claim.c on claims and on the fixed-capacity    *)
(* claim array that lives in shared memory.  An array is a function from   *)
(* 0..Capacity-1; only its first count slots are active, the rest keep     *)
(* whatever was last stored in them.                                       *)
(***************************************************************************)
EXTENDS Integers

CONSTANTS
    Capacity,      \* ipm_claim_list.capacity (99 with 4096-byte pages)
    SIZE_MAX       \* the largest size_t

ASSUME CapacityAssumption == Capacity \in Nat /\ Capacity >= 2
ASSUME SizeAssumption == SIZE_MAX \in Nat /\ SIZE_MAX > Capacity

READ_ONLY == "RO"
READ_WRITE == "RW"
AccessModes == {READ_ONLY, READ_WRITE}

Slots == 0 .. Capacity - 1

\* Addition and decrement of size_t.
SizeAdd(a, b) == IF a + b > SIZE_MAX THEN a + b - (SIZE_MAX + 1) ELSE a + b
SizeDec_signed(a) == a - 1
SizeDec(a) == IF a = 0 THEN SIZE_MAX ELSE a - 1

-----------------------------------------------------------------------------
claims_conflict_no_equal(c1, c2) ==
    /\ c1.proc_id # c2.proc_id
    /\ ~ (c1.access = READ_ONLY /\ c2.access = READ_ONLY)
    /\ \/ c1.offset > c2.offset /\ c2.offset < SizeAdd(c1.offset, c1.size)
       \/ c1.offset < c2.offset /\ c1.offset < SizeAdd(c2.offset, c2.size)

claims_conflict(c1, c2) ==
    /\ c1.proc_id # c2.proc_id
    /\ ~ (c1.access = READ_ONLY /\ c2.access = READ_ONLY)
    /\ \/ c1.offset > c2.offset /\ c2.offset < SizeAdd(c1.offset, c1.size)
       \/ c1.offset < c2.offset /\ c1.offset < SizeAdd(c2.offset, c2.size)
       \/ c1.offset = c2.offset

\* Active entries: what a scan of claims[0 .. n-1] visits.
ActiveClaims(claims, n) == {claims[i] : i \in 0 .. n - 1}

-----------------------------------------------------------------------------
(* claim_add_to_list *)

memmove(claims, dst, src, n) ==
    [i \in DOMAIN claims |->
        IF dst <= i /\ i < dst + n THEN claims[i - dst + src] ELSE claims[i]]

\* The first position whose claim starts after the new one, or n.
InsertPos(claims, n, claim) ==
    CHOOSE pos \in 0 .. n :
        /\ pos # n => claims[pos].offset > claim.offset
        /\ \A q \in 0 .. pos - 1 : claims[q].offset <= claim.offset

\* "Shift other elements": one element fewer than the insertion displaces.
ShiftForInsert(claims, n, pos) ==
    IF pos # n THEN memmove(claims, pos + 1, pos, n - pos - 1) ELSE claims

-----------------------------------------------------------------------------
(* claim_remove_from_list *)

FindPos_from_one(claims, n, id) ==
    CHOOSE pos \in 1 .. n :
        /\ pos # n => claims[pos].claim_id = id
        /\ \A q \in 1 .. pos - 1 : claims[q].claim_id # id

\* The first position with this claim id, or n when there is none.
FindPos(claims, n, id) ==
    CHOOSE pos \in 0 .. n :
        /\ pos # n => claims[pos].claim_id = id
        /\ \A q \in 0 .. pos - 1 : claims[q].claim_id # id

(***************************************************************************)
(* The length of the memmove, (n - 1) - pos - 1, is computed in unsigned   *)
(* arithmetic.  When the claim was not found pos = n and the length wraps  *)
(* to 2^32 - 2 elements; when the counter had underflowed n itself is      *)
(* 2^32 - 1.  Either way the copy runs off the mapping.                    *)
(***************************************************************************)
EraseFaults(n, pos) == n > Capacity \/ pos = n

\* A copy that faults may or may not have moved what is inside the array.
EraseOverrun(claims, pos) ==
    {claims, memmove(claims, pos, pos + 1, Capacity - pos - 1)}

\* Also one element short: the last active element is not moved.
EraseAt(claims, n, pos) ==
    IF pos + 1 # n
    THEN memmove(claims, pos, pos + 1, (n - 1) - pos - 1)
    ELSE claims
=============================================================================
