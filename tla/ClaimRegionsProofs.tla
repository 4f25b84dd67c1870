------------------------- MODULE ClaimRegionsProofs -------------------------
(***************************************************************************)
(* Proofs about ClaimRegions.  The first part holds for every use of the   *)
(* library: any handles, regions and modes, any mixture of calls, with and *)
(* without assertions, any number of crashes.                              *)
(***************************************************************************)
EXTENDS ClaimRegions, WellFoundedInduction, TLAPS

-----------------------------------------------------------------------------
(* The algorithms of memory_claim.c, for every capacity, array and size of *)
(* size_t.                                                                 *)

(***************************************************************************)
(* A set of natural numbers that is not empty has a least element: the     *)
(* fact behind every "first position" that a loop of memory_claim.c finds. *)
(***************************************************************************)
LEMMA LeastNatural ==
    ASSUME NEW T \in SUBSET Nat, T # {}
    PROVE  \E x \in T : \A y \in T : x <= y
<1> DEFINE Less == OpToRel(<, Nat)
<1>1. IsWellFoundedOn(Less, Nat)
  BY NatLessThanWellFounded, Zenon
<1>2. \A x, y \in Nat : y < x => <<y, x>> \in Less
  BY Zenon DEF OpToRel
<1>3. \E x \in T : \A y \in T : ~ (y < x)
  <2> HIDE DEF Less
  <2>1. \E x \in T : \A y \in T : ~ (<<y, x>> \in Less)
    BY <1>1, WFMin, Zenon
  <2> QED BY <1>2, <2>1, Zenon
<1>4. \A x, y \in T : ~ (y < x) => x <= y
  OBVIOUS
<1> QED BY <1>3, <1>4, Zenon

(***************************************************************************)
(* The insertion loop of claim_add_to_list always ends at a position of    *)
(* the active part or just after it, behind every claim that starts at or  *)
(* before the new one.                                                     *)
(***************************************************************************)
LEMMA InsertPosFound ==
    ASSUME NEW n \in Nat, NEW a, NEW claim,
           claim.offset \in Int, \A q \in 0 .. n - 1 : a[q].offset \in Int
    PROVE  LET pos == InsertPos(a, n, claim)
           IN  /\ pos \in 0 .. n
               /\ pos # n => a[pos].offset > claim.offset
               /\ \A q \in 0 .. pos - 1 : a[q].offset <= claim.offset
<1> DEFINE After == {p \in 0 .. n : p # n => a[p].offset > claim.offset}
<1>1. After \in SUBSET Nat /\ After # {}
  <2>1. n \in After
    OBVIOUS
  <2>2. After \in SUBSET Nat
    OBVIOUS
  <2> QED BY <2>1, <2>2, Zenon
<1>2. PICK x \in After : \A y \in After : x <= y
  BY <1>1, LeastNatural, Zenon
<1>3. \A q \in 0 .. x - 1 : a[q].offset <= claim.offset
  BY <1>2
<1>4. \E pos \in 0 .. n :
        /\ pos # n => a[pos].offset > claim.offset
        /\ \A q \in 0 .. pos - 1 : a[q].offset <= claim.offset
  BY <1>3, Zenon
<1> QED BY <1>4, Zenon DEF InsertPos

(***************************************************************************)
(* The search of claim_remove_from_list ends at the first position with    *)
(* the id, or at n when no active claim has it.                            *)
(***************************************************************************)
LEMMA FindPosFound ==
    ASSUME NEW n \in Nat, NEW a, NEW id
    PROVE  LET pos == FindPos(a, n, id)
           IN  /\ pos \in 0 .. n
               /\ pos # n => a[pos].claim_id = id
               /\ \A q \in 0 .. pos - 1 : a[q].claim_id # id
<1> DEFINE Same == {p \in 0 .. n : p # n => a[p].claim_id = id}
<1>1. Same \in SUBSET Nat /\ Same # {}
  <2>1. n \in Same
    OBVIOUS
  <2>2. Same \in SUBSET Nat
    OBVIOUS
  <2> QED BY <2>1, <2>2, Zenon
<1>2. PICK x \in Same : \A y \in Same : x <= y
  BY <1>1, LeastNatural, Zenon
<1>3. \A q \in 0 .. x - 1 : a[q].claim_id # id
  BY <1>2
<1>4. \E pos \in 0 .. n :
        /\ pos # n => a[pos].claim_id = id
        /\ \A q \in 0 .. pos - 1 : a[q].claim_id # id
  BY <1>3, Zenon
<1> QED BY <1>4, Zenon DEF FindPos

(***************************************************************************)
(* An id in slot 0 is found there by the loop of claim_remove_from_list.   *)
(***************************************************************************)
LEMMA FindPosFirst ==
    ASSUME NEW a, NEW id, a[0].claim_id = id
    PROVE  FindPos(a, 1, id) = 0
<1> DEFINE pos == FindPos(a, 1, id)
<1>1. pos \in 0 .. 1 /\ \A q \in 0 .. pos - 1 : a[q].claim_id # id
  BY FindPosFound
<1> HIDE DEF pos
<1>2. pos = 0
  BY <1>1
<1> QED BY <1>2, Zenon DEF pos

(***************************************************************************)
(* Making room in claim_add_to_list never reads outside the array as long  *)
(* as the list is not full, whatever the order of the claims in it.        *)
(***************************************************************************)
LEMMA ShiftForInsertType ==
    ASSUME NEW C, NEW a \in [Slots -> C],
           NEW n \in 0 .. Capacity - 1, NEW pos \in 0 .. n
    PROVE  ShiftForInsert(a, n, pos) \in [Slots -> C]
BY CapacityAssumption DEF ShiftForInsert, memmove, Slots

(***************************************************************************)
(* Removing a claim that was found never reads outside the array.          *)
(***************************************************************************)
LEMMA EraseAtType ==
    ASSUME NEW C, NEW a \in [Slots -> C],
           NEW n \in 0 .. Capacity, NEW pos \in 0 .. n
    PROVE  EraseAt(a, n, pos) \in [Slots -> C]
BY CapacityAssumption DEF EraseAt, memmove, Slots

(***************************************************************************)
(* A removal that runs off the array still leaves an array of claims       *)
(* behind for the processes that survive.                                  *)
(***************************************************************************)
LEMMA EraseOverrunType ==
    ASSUME NEW C, NEW a \in [Slots -> C], NEW pos \in 0 .. Capacity
    PROVE  EraseOverrun(a, pos) \subseteq [Slots -> C]
BY CapacityAssumption DEF EraseOverrun, memmove, Slots

(***************************************************************************)
(* claims_conflict ignores where the regions are and how large: as long as *)
(* the end of the region that starts later does not wrap, two claims of    *)
(* different handles conflict exactly when they are not both for reading.  *)
(* The comparisons of the offsets decide nothing.                          *)
(***************************************************************************)
THEOREM ConflictIgnoresRegions ==
    ASSUME NEW c1, NEW c2,
           c1.offset \in Nat, c1.size \in Nat, c2.offset \in Nat, c2.size \in Nat,
           c1.offset > c2.offset => c1.offset + c1.size <= SIZE_MAX,
           c2.offset > c1.offset => c2.offset + c2.size <= SIZE_MAX
    PROVE  claims_conflict(c1, c2) <=>
               /\ c1.proc_id # c2.proc_id
               /\ ~ (c1.access = READ_ONLY /\ c2.access = READ_ONLY)
<1>1. CASE c1.offset > c2.offset
  <2>1. SizeAdd(c1.offset, c1.size) = c1.offset + c1.size
    BY <1>1, SizeAssumption DEF SizeAdd
  <2>2. c2.offset < SizeAdd(c1.offset, c1.size)
    BY <1>1, <2>1
  <2> QED BY <1>1, <2>2, Zenon DEF claims_conflict
<1>2. CASE c2.offset > c1.offset
  <2>1. SizeAdd(c2.offset, c2.size) = c2.offset + c2.size
    BY <1>2, SizeAssumption DEF SizeAdd
  <2>2. c1.offset < SizeAdd(c2.offset, c2.size) /\ c1.offset < c2.offset
    BY <1>2, <2>1
  <2> QED BY <2>2, Zenon DEF claims_conflict
<1>3. CASE c1.offset = c2.offset
  BY <1>3, Zenon DEF claims_conflict
<1> QED BY <1>1, <1>2, <1>3

(***************************************************************************)
(* Every slot of new is one of old, in the same order: what the memmoves   *)
(* by one element do, also the ones that are an element short.             *)
(***************************************************************************)
Moved(old, new) ==
    \E f \in [Slots -> Slots] :
        /\ \A j, k \in Slots : j < k => f[j] <= f[k]
        /\ \A j \in Slots : new[j] = old[f[j]]

(***************************************************************************)
(* "Shift other elements" of claim_add_to_list keeps the order.            *)
(***************************************************************************)
LEMMA ShiftMoves ==
    ASSUME NEW C, NEW a \in [Slots -> C], NEW n \in 0 .. Capacity - 1, NEW pos \in 0 .. n
    PROVE  Moved(a, ShiftForInsert(a, n, pos))
<1> DEFINE f == [j \in Slots |-> IF pos + 1 <= j /\ j < n THEN j - 1 ELSE j]
<1>1. f \in [Slots -> Slots] /\ \A j, k \in Slots : j < k => f[j] <= f[k]
  BY CapacityAssumption DEF Slots
<1>2. \A j \in Slots : ShiftForInsert(a, n, pos)[j] = a[f[j]]
  BY CapacityAssumption DEF Slots, ShiftForInsert, memmove
<1> HIDE DEF f
<1> QED BY <1>1, <1>2, Zenon DEF Moved

(***************************************************************************)
(* Removing an entry keeps the order, and what is in front of it.          *)
(***************************************************************************)
LEMMA EraseMoves ==
    ASSUME NEW C, NEW a \in [Slots -> C], NEW n \in 0 .. Capacity, NEW pos \in 0 .. n
    PROVE  /\ Moved(a, EraseAt(a, n, pos))
           /\ \A j \in Slots : j < pos => EraseAt(a, n, pos)[j] = a[j]
<1> DEFINE f == [j \in Slots |->
                    IF pos + 1 # n /\ pos <= j /\ j < n - 2 THEN j + 1 ELSE j]
<1>1. f \in [Slots -> Slots] /\ \A j, k \in Slots : j < k => f[j] <= f[k]
  BY CapacityAssumption DEF Slots
<1>2. \A j \in Slots : EraseAt(a, n, pos)[j] = a[f[j]]
  BY CapacityAssumption DEF Slots, EraseAt, memmove
<1>3. \A j \in Slots : j < pos => EraseAt(a, n, pos)[j] = a[j]
  BY CapacityAssumption DEF Slots, EraseAt, memmove
<1> HIDE DEF f
<1> QED BY <1>1, <1>2, <1>3, Zenon DEF Moved

(***************************************************************************)
(* So does the part of a faulting removal that happens within the array.   *)
(***************************************************************************)
LEMMA OverrunMoves ==
    ASSUME NEW C, NEW a \in [Slots -> C], NEW pos \in 0 .. Capacity,
           NEW b \in EraseOverrun(a, pos)
    PROVE  Moved(a, b)
<1>1. CASE b = a
  <2> DEFINE f == [j \in Slots |-> j]
  <2>1. f \in [Slots -> Slots] /\ \A j, k \in Slots : j < k => f[j] <= f[k]
    BY CapacityAssumption DEF Slots
  <2>2. \A j \in Slots : b[j] = a[f[j]]
    BY <1>1, Zenon
  <2> HIDE DEF f
  <2> QED BY <2>1, <2>2, Zenon DEF Moved
<1>2. CASE b = memmove(a, pos, pos + 1, Capacity - pos - 1)
  <2> DEFINE f == [j \in Slots |-> IF pos <= j /\ j < Capacity - 1 THEN j + 1 ELSE j]
  <2>1. f \in [Slots -> Slots] /\ \A j, k \in Slots : j < k => f[j] <= f[k]
    BY CapacityAssumption DEF Slots
  <2>2. \A j \in Slots : b[j] = a[f[j]]
    BY <1>2, CapacityAssumption DEF Slots, memmove
  <2> HIDE DEF f
  <2> QED BY <2>1, <2>2, Zenon DEF Moved
<1> QED BY <1>1, <1>2, Zenon DEF EraseOverrun

-----------------------------------------------------------------------------
(* The calls *)

Removes == {"release", "release_all", "remove_all"}

(***************************************************************************)
(* The control invariant: whoever is in the critical section owns a        *)
(* consistent mutex (so it is alone there), found room before it adds, and *)
(* runs a call that has these steps.                                       *)
(***************************************************************************)
Control ==
    \A h \in Handles :
        /\ pc[h] \in Critical => mutex.owner = h /\ mutex.state = "consistent"
        /\ pc[h] \in {"shift", "store", "bump"} => count < Capacity
        /\ pc[h] = "lock" => call[h].op # "none"
        /\ pc[h] \in {"dec", "erase"} => call[h].op \in Removes
        /\ pc[h] = "sweep" => call[h].op = "release_all"
        /\ pc[h] = "drain" => call[h].op = "remove_all"

Inv == TypeOK /\ Control

USE DEF READ_ONLY, READ_WRITE, AccessModes

(***************************************************************************)
(* The constant records have their types.                                  *)
(***************************************************************************)
LEMMA ConstantTypes ==
    /\ ZeroClaim \in Claim /\ NoClaim \in Claim /\ NoCall \in Call
    /\ Capacity \in Nat /\ SIZE_MAX \in Nat /\ Capacity < SIZE_MAX
BY SizeAssumption, CapacityAssumption
   DEF ZeroClaim, NoClaim, NoCall, Claim, Call, NoId

(***************************************************************************)
(* The initial state, made by claim_list_init, satisfies the invariant.    *)
(***************************************************************************)
LEMMA InitInv == Init => Inv
<1> SUFFICES ASSUME Init PROVE Inv
  BY Zenon
<1>1. TypeOK
  BY ConstantTypes, UseAssumption
     DEF Init, TypeOK, Mutex, MutexState, ipm_mutex_init, PC
<1>2. Control
  BY Zenon DEF Init, Control, Critical
<1> QED BY <1>1, <1>2, Zenon DEF Inv

(***************************************************************************)
(* A call starts (claim_region, release_region, release_all, remove_all).  *)
(***************************************************************************)
LEMMA EnterInv ==
    ASSUME Inv, NEW h \in Handles, NEW op \in Removes \cup {"claim"},
           NEW c \in Claim, pc[h] = "idle", Enter(h, op, c),
           held' \in [Handles -> SUBSET Claim],
           UNCHANGED <<mutex, waiters, list, claim_counter, crashes>>
    PROVE  Inv'
<1>1. [NoCall EXCEPT !.op = op, !.claim = c] \in Call
  BY ConstantTypes, Zenon DEF Call, NoCall, Removes
<1>2. TypeOK'
  BY <1>1, Zenon DEF Inv, TypeOK, Enter, Goto, PC, list
<1>3. Control'
  BY Zenon DEF Inv, TypeOK, Control, Enter, Goto, PC, Critical, list, NoCall, Removes
<1> QED BY <1>2, <1>3, Zenon DEF Inv

(***************************************************************************)
(* The mutex operations of IpmPlatform map mutexes to mutexes.             *)
(***************************************************************************)
LEMMA MutexTypes ==
    ASSUME NEW m \in Mutex(Handles), NEW h \in Handles
    PROVE  /\ ipm_mutex_lock(m, h) \in Mutex(Handles)
           /\ ipm_mutex_unlock(m, h) \in Mutex(Handles)
           /\ OwnerDies(m, h) \in Mutex(Handles)
           /\ RelockAfterWait(m, h) \in Mutex(Handles)
BY Zenon DEF Mutex, MutexState, ipm_mutex_lock, pthread_mutex_lock, ipm_mutex_unlock,
       pthread_mutex_unlock, OwnerDies, RelockAfterWait, LockSucceeds

(***************************************************************************)
(* ipm_mutex_lock at the start of a call: the handle that gets in owns a   *)
(* consistent mutex, so nobody else is in.                                 *)
(***************************************************************************)
LEMMA LockInv ==
    ASSUME Inv, NEW h \in Handles, Lock(h)
    PROVE  Inv'
<1>1. TypeOK'
  <2>1. mutex' \in Mutex(Handles)
    BY MutexTypes, Zenon DEF Inv, TypeOK, Lock
  <2>2. pc' \in [Handles -> PC]
    BY SMTT(30) DEF Inv, TypeOK, Control, Lock, Return, Goto, PC, Critical, Call, Removes
  <2>3. call[h] \in Call /\ call[h].claim \in Claim /\ claim_counter \in Nat
    BY Zenon DEF Inv, TypeOK, Call
  <2>4. [call[h].claim EXCEPT !.claim_id = claim_counter] \in Claim
    BY <2>3, Zenon DEF Claim
  <2>5. [call[h] EXCEPT !.claim =
            [call[h].claim EXCEPT !.claim_id = claim_counter]] \in Call
    BY <2>3, <2>4, Zenon DEF Call
  <2>6. call' \in [Handles -> Call] /\ claim_counter' \in Nat
    <3>1. \/ Return(h) /\ UNCHANGED claim_counter
          \/ TakeId(h)
          \/ UNCHANGED <<call, claim_counter>>
      BY Zenon DEF Lock
    <3>2. CASE Return(h) /\ UNCHANGED claim_counter
      BY <3>2, ConstantTypes, Zenon DEF Inv, TypeOK, Return
    <3>3. CASE TakeId(h)
      BY <2>3, <2>5, <3>3 DEF Inv, TypeOK, TakeId
    <3>4. CASE UNCHANGED <<call, claim_counter>>
      BY <3>4, Zenon DEF Inv, TypeOK
    <3> QED BY <3>1, <3>2, <3>3, <3>4, Zenon
  <2> QED BY <2>1, <2>2, <2>6, Zenon DEF Inv, TypeOK, Lock, list
<1>2. Control'
  BY HandleAssumption DEF Inv, TypeOK, Control, Lock, Return, Goto, TakeId, PC, Critical,
                          Call, list, Removes, LockReturns, LockSucceeds, ipm_mutex_lock,
                          pthread_mutex_lock, Mutex
<1> QED BY <1>1, <1>2, Zenon DEF Inv

(***************************************************************************)
(* The scan of claim_region, whether it sleeps, goes on or runs off.       *)
(***************************************************************************)
LEMMA ScanInv ==
    ASSUME Inv, NEW h \in Handles, Scan(h)
    PROVE  Inv'
<1>1. TypeOK'
  <2>1. mutex' \in Mutex(Handles)
    BY MutexTypes, Zenon DEF Inv, TypeOK, Scan, Sleep, Unlock, Die
  <2>2. pc' \in [Handles -> PC]
    BY Zenon DEF Inv, TypeOK, Scan, Sleep, Die, Goto, PC, Critical
  <2>3. call' \in [Handles -> Call]
    BY ConstantTypes, Zenon DEF Inv, TypeOK, Scan, Sleep, Die
  <2>4. waiters' \in SUBSET Handles
    BY Zenon DEF Inv, TypeOK, Scan, Sleep, Die
  <2> QED BY <2>1, <2>2, <2>3, <2>4, Zenon DEF Inv, TypeOK, Scan, list
<1>2. Control'
  <2>1. CASE Sleep(h)
    BY <2>1, HandleAssumption, Zenon DEF Inv, TypeOK, Control, Scan, Sleep, Unlock,
       Goto, PC, Critical, list, ipm_mutex_unlock, pthread_mutex_unlock
  <2>2. CASE Die(h, "fault")
    BY <2>2, HandleAssumption DEF Inv, TypeOK, Control, Scan, Die, Goto, PC,
       Critical, list, OwnerDies
  <2>3. CASE /\ ~ MustWait(call[h].claim) /\ count <= Capacity
             /\ Goto(h, "shift") /\ UNCHANGED <<mutex, call>>
    <3>1. count < Capacity
      BY <2>3, ConstantTypes DEF MustWait, Inv, TypeOK
    <3> QED BY <2>3, <3>1, Zenon DEF Inv, TypeOK, Control, Scan, Goto, PC, Critical, list
  <2> QED BY <2>1, <2>2, <2>3, Zenon DEF Scan
<1> QED BY <1>1, <1>2, Zenon DEF Inv

(***************************************************************************)
(* Waking up and taking the mutex back in ipm_condition_wait.              *)
(***************************************************************************)
LEMMA RelockInv ==
    ASSUME Inv, NEW h \in Handles, Relock(h)
    PROVE  Inv'
<1>1. TypeOK'
  BY MutexTypes, Zenon DEF Inv, TypeOK, Relock, Goto, PC, Critical, list
<1>2. Control'
  BY HandleAssumption DEF Inv, TypeOK, Control, Relock, Goto, PC, Critical, list,
     LockReturns, WaitSucceeds, RelockAfterWait, pthread_mutex_lock, Mutex
<1> QED BY <1>1, <1>2, Zenon DEF Inv

(***************************************************************************)
(* The three writes of claim_add_to_list.                                  *)
(***************************************************************************)
LEMMA AddInv ==
    ASSUME Inv, NEW h \in Handles, Shift(h) \/ Store(h) \/ Bump(h)
    PROVE  Inv'
<1>1. count < Capacity /\ count \in Nat
  BY ConstantTypes DEF Inv, TypeOK, Control, Shift, Store, Bump
<1>2. CASE Shift(h)
  <2> DEFINE pos == InsertPos(claims, count, call[h].claim)
  <2>1. pos \in 0 .. count
    <3>1. \A q \in 0 .. count - 1 : claims[q].offset \in Int
      BY <1>1, ConstantTypes DEF Inv, TypeOK, Claim, Slots
    <3>2. call[h].claim.offset \in Int
      BY ConstantTypes DEF Inv, TypeOK, Call, Claim
    <3> HIDE DEF pos
    <3>3. count \in Nat
      BY <1>1, Zenon
    <3>4. InsertPos(claims, count, call[h].claim) \in 0 .. count
      BY <3>1, <3>2, <3>3, InsertPosFound, Zenon
    <3> QED BY <3>4, Zenon DEF pos
  <2> HIDE DEF pos
  <2>2. claims' \in [Slots -> Claim]
    <3>1. count \in 0 .. Capacity - 1 /\ claims \in [Slots -> Claim]
      BY <1>1, ConstantTypes DEF Inv, TypeOK
    <3>2. ShiftForInsert(claims, count, pos) \in [Slots -> Claim]
      BY <2>1, <3>1, ShiftForInsertType, Zenon
    <3> QED BY <1>2, <3>2, Zenon DEF Shift, pos
  <2>3. call' \in [Handles -> Call] /\ \A g \in Handles : call'[g].op = call[g].op
    BY <1>2, <2>1, <1>1 DEF Inv, TypeOK, Shift, Call, pos
  <2>4. TypeOK'
    BY <1>2, <2>2, <2>3, Zenon DEF Inv, TypeOK, Shift, Goto, PC, Critical
  <2>5. Control'
    BY <1>2, <2>3 DEF Inv, TypeOK, Control, Shift, Goto, PC, Critical
  <2> QED BY <2>4, <2>5, Zenon DEF Inv
<1>3. CASE Store(h)
  <2>1. TypeOK'
    BY <1>3, Zenon DEF Inv, TypeOK, Store, Goto, PC, Critical, Call
  <2>2. Control'
    BY <1>3, Zenon DEF Inv, TypeOK, Control, Store, Goto, PC, Critical
  <2> QED BY <2>1, <2>2, Zenon DEF Inv
<1>4. CASE Bump(h)
  <2>1. TypeOK'
    BY <1>1, <1>4, ConstantTypes DEF Inv, TypeOK, Bump, Goto, PC, Critical
  <2>2. Control'
    BY <1>4 DEF Inv, TypeOK, Control, Bump, Goto, PC, Critical
  <2> QED BY <2>1, <2>2, Zenon DEF Inv
<1> QED BY <1>2, <1>3, <1>4, Zenon

(***************************************************************************)
(* claim_region returns, with the claim or after a wait that failed.       *)
(***************************************************************************)
LEMMA ReturnInv ==
    ASSUME Inv, NEW h \in Handles, Claimed(h) \/ WaitFailed(h)
    PROVE  Inv'
<1>1. mutex' = ipm_mutex_unlock(mutex, h) /\ mutex' \in Mutex(Handles)
  BY MutexTypes, Zenon DEF Inv, TypeOK, Claimed, WaitFailed, Unlock
<1>2. held' \in [Handles -> SUBSET Claim]
  BY DEF Inv, TypeOK, Claimed, WaitFailed, Call, Claim, NoId
<1>3. TypeOK'
  BY <1>1, <1>2, ConstantTypes
     DEF Inv, TypeOK, Claimed, WaitFailed, Return, Goto, PC, list
<1>4. Control'
  BY <1>1, HandleAssumption
     DEF Inv, TypeOK, Control, Claimed, WaitFailed, Return, Goto, PC, Critical,
         list, ipm_mutex_unlock, pthread_mutex_unlock
<1> QED BY <1>3, <1>4, Zenon DEF Inv

(***************************************************************************)
(* claim_remove_from_list, first the counter and then the array.           *)
(***************************************************************************)
LEMMA DecInv ==
    ASSUME Inv, NEW h \in Handles, Dec(h)
    PROVE  Inv'
<1>1. TypeOK'
  <2>1. mutex' \in Mutex(Handles)
    BY MutexTypes, Zenon DEF Inv, TypeOK, Dec, Die
  <2>2. pc' \in [Handles -> PC]
    BY Zenon DEF Inv, TypeOK, Dec, Die, Goto, PC, Critical
  <2>3. call' \in [Handles -> Call]
    <3>1. call[h] \in Call /\ count \in 0 .. SIZE_MAX
      BY Zenon DEF Inv, TypeOK
    <3>2. /\ [call[h] EXCEPT !.op = "none"] \in Call
          /\ [call[h] EXCEPT !.n = count] \in Call
      BY <3>1, Zenon DEF Call
    <3>3. \E c \in Call : call' = [call EXCEPT ![h] = c]
      BY <3>2, ConstantTypes, Zenon DEF Dec, Die
    <3> QED BY <3>3, Zenon DEF Inv, TypeOK
  <2>4. count' \in 0 .. SIZE_MAX
    BY ConstantTypes DEF Inv, TypeOK, Dec, SizeDec
  <2> QED BY <2>1, <2>2, <2>3, <2>4, Zenon DEF Inv, TypeOK, Dec
<1>2. Control'
  <2>1. \A g \in Handles : pc[g] \in Critical => g = h
    BY Zenon DEF Inv, Control, Dec, Critical
  <2>2. CASE Die(h, "fault")
    BY <2>1, <2>2, HandleAssumption
       DEF Inv, TypeOK, Control, Dec, Die, Goto, PC, Critical, OwnerDies
  <2>3. CASE Goto(h, "unlock") /\ call' = [call EXCEPT ![h].op = "none"]
             /\ UNCHANGED mutex
    BY <2>1, <2>3 DEF Inv, TypeOK, Control, Dec, Goto, PC, Critical, Call
  <2>4. CASE Goto(h, "erase") /\ call' = [call EXCEPT ![h].n = count]
             /\ UNCHANGED mutex
    BY <2>1, <2>4 DEF Inv, TypeOK, Control, Dec, Goto, PC, Critical, Call
  <2> QED BY <2>2, <2>3, <2>4, Zenon DEF Dec
<1> QED BY <1>1, <1>2, Zenon DEF Inv

(***************************************************************************)
(* The search of claim_remove_from_list ends at a slot, or at the count    *)
(* when the id is not listed.                                              *)
(***************************************************************************)
LEMMA ErasePosType ==
    ASSUME TypeOK, NEW h \in Handles
    PROVE  /\ ErasePos(h) \in 0 .. Capacity
           /\ call[h].n <= Capacity => ErasePos(h) \in 0 .. call[h].n
<1> DEFINE m == IF call[h].n > Capacity THEN Capacity ELSE call[h].n
<1>1. m \in Nat /\ m <= Capacity /\ (call[h].n <= Capacity => m = call[h].n)
  BY ConstantTypes DEF TypeOK, Call
<1> HIDE DEF m
<1>2. FindPos(claims, m, call[h].claim.claim_id) \in 0 .. m
  BY <1>1, FindPosFound, Zenon
<1>3. ErasePos(h) \in 0 .. m
  BY <1>2, Zenon DEF ErasePos, m
<1> QED BY <1>1, <1>3, ConstantTypes

(***************************************************************************)
(* The memmove of claim_remove_from_list keeps the array well-typed, also  *)
(* when it runs off the end.                                               *)
(***************************************************************************)
LEMMA EraseInv ==
    ASSUME Inv, NEW h \in Handles, Erase(h)
    PROVE  Inv'
<1> DEFINE pos == ErasePos(h)
           n == call[h].n
<1>0. call[h].n \in Nat
  BY ConstantTypes DEF Inv, TypeOK, Call
<1>1. pos \in 0 .. Capacity /\ (n <= Capacity => pos \in 0 .. n)
  BY ErasePosType, Zenon DEF Inv
<1>2. CASE EraseFaults(n, pos)
  <2> HIDE DEF pos
  <2>1. claims' \in EraseOverrun(claims, pos) /\ Die(h, "fault")
    BY <1>2, Zenon DEF Erase, pos
  <2>2. claims' \in [Slots -> Claim]
    BY <1>1, <2>1, EraseOverrunType, Zenon DEF Inv, TypeOK
  <2>3. TypeOK'
    <3>1. mutex' \in Mutex(Handles)
      BY <2>1, MutexTypes, Zenon DEF Inv, TypeOK, Die
    <3>2. pc' \in [Handles -> PC] /\ call' \in [Handles -> Call]
      BY <2>1, ConstantTypes, Zenon DEF Inv, TypeOK, Die, Goto, PC
    <3> QED BY <2>2, <3>1, <3>2, Zenon DEF Inv, TypeOK, Erase
  <2>4. Control'
    BY <2>1, HandleAssumption
       DEF Inv, TypeOK, Control, Erase, Die, Goto, PC, Critical, OwnerDies
  <2> QED BY <2>3, <2>4, Zenon DEF Inv
<1>3. CASE ~ EraseFaults(n, pos)
  <2> HIDE DEF pos
  <2>1. /\ claims' = EraseAt(claims, call[h].n, pos)
        /\ Goto(h, AfterRemove(call[h].op))
        /\ UNCHANGED <<mutex, call>>
    BY <1>3, Zenon DEF Erase, pos
  <2>2. n \in 0 .. Capacity /\ pos \in 0 .. n
    BY <1>0, <1>1, <1>3, ConstantTypes DEF EraseFaults
  <2>3. claims' \in [Slots -> Claim]
    BY <2>1, <2>2, EraseAtType, Zenon DEF Inv, TypeOK
  <2>4. \/ AfterRemove(call[h].op) = "unlock"
        \/ AfterRemove(call[h].op) = "sweep" /\ call[h].op = "release_all"
        \/ AfterRemove(call[h].op) = "drain" /\ call[h].op = "remove_all"
    BY Zenon DEF Inv, Control, Erase, AfterRemove, Removes
  <2>5. TypeOK'
    BY <2>1, <2>3, <2>4, Zenon DEF Inv, TypeOK, Erase, Goto, PC, Critical
  <2>6. Control'
    BY <2>1, <2>4, Zenon DEF Inv, TypeOK, Control, Erase, Goto, PC, Critical
  <2> QED BY <2>5, <2>6, Zenon DEF Inv
<1> QED BY <1>2, <1>3, Zenon

(***************************************************************************)
(* The loops of release_all and remove_all_active_claims.                  *)
(***************************************************************************)
LEMMA LoopInv ==
    ASSUME Inv, NEW h \in Handles, Sweep(h) \/ Drain(h)
    PROVE  Inv'
<1> DEFINE Same == call' \in [Handles -> Call]
                   /\ \A g \in Handles : call'[g].op = call[g].op
<1>1. ASSUME NEW c \in Claim, call' = [call EXCEPT ![h].claim = c]
      PROVE  Same
  BY <1>1, Zenon DEF Inv, TypeOK, Call
<1>2. ASSUME call' = [call EXCEPT ![h].i = @ + 1]
      PROVE  Same
  BY <1>2 DEF Inv, TypeOK, Call
<1>3. ASSUME UNCHANGED call
      PROVE  Same
  BY <1>3, Zenon DEF Inv, TypeOK
<1>4. Same
  <2>1. CASE Sweep(h)
    <3>1. CASE /\ count <= Capacity /\ call[h].i < count
               /\ call' = [call EXCEPT ![h].claim = claims[call[h].i]]
      <4>1. call[h].i \in Nat
        BY Zenon DEF Inv, TypeOK, Call
      <4>2. call[h].i \in Slots
        BY <3>1, <4>1, ConstantTypes DEF Inv, TypeOK, Slots
      <4>3. claims[call[h].i] \in Claim
        BY <4>2, Zenon DEF Inv, TypeOK
      <4> QED BY <1>1, <3>1, <4>3, Zenon
    <3> QED BY <1>2, <1>3, <2>1, <3>1, Zenon DEF Sweep
  <2>2. CASE Drain(h)
    <3>1. CASE count > 0
      <4>1. {claims[i] : i \in Slots} \cup {NoClaim} \subseteq Claim
        BY ConstantTypes, Zenon DEF Inv, TypeOK
      <4>2. count <= Capacity => claims[count - 1] \in Claim
        BY <3>1, ConstantTypes DEF Inv, TypeOK, Slots
      <4>3. \E c \in Claim : call' = [call EXCEPT ![h].claim = c]
        BY <2>2, <3>1, <4>1, <4>2, ConstantTypes DEF Drain, Inv, TypeOK
      <4> QED BY <1>1, <4>3, Zenon
    <3>2. CASE ~ (count > 0)
      BY <1>3, <2>2, <3>2, Zenon DEF Drain
    <3> QED BY <3>1, <3>2, Zenon
  <2> QED BY <2>1, <2>2, Zenon
<1> HIDE DEF Same
<1>5. TypeOK'
  BY <1>4, Zenon DEF Same, Inv, TypeOK, Sweep, Drain, Goto, PC, Critical, list
<1>6. Control'
  BY <1>4 DEF Same, Inv, TypeOK, Control, Sweep, Drain, Goto, PC, Critical, list,
              Removes
<1> QED BY <1>5, <1>6, Zenon DEF Inv

(***************************************************************************)
(* Leaving the list after a removal, and the signal that may follow.       *)
(***************************************************************************)
LEMMA LeaveInv ==
    ASSUME Inv, NEW h \in Handles, LeaveRemove(h) \/ Signal(h)
    PROVE  Inv'
<1>1. CASE LeaveRemove(h)
  <2>1. mutex' = ipm_mutex_unlock(mutex, h) /\ mutex' \in Mutex(Handles)
    BY <1>1, MutexTypes, Zenon DEF Inv, TypeOK, LeaveRemove, Unlock
  <2>2. TypeOK'
    BY <1>1, <2>1, ConstantTypes, Zenon
       DEF Inv, TypeOK, LeaveRemove, Return, Goto, PC, list
  <2>3. Control'
    BY <1>1, <2>1, HandleAssumption
       DEF Inv, TypeOK, Control, LeaveRemove, Return, Goto, PC, Critical, list,
           ipm_mutex_unlock, pthread_mutex_unlock
  <2> QED BY <2>2, <2>3, Zenon DEF Inv
<1>2. CASE Signal(h)
  <2>1. \A g \in Handles : pc'[g] \in {"idle", "woken", pc[g]}
    BY <1>2, Zenon DEF Signal
  <2>2. pc' \in [Handles -> PC]
    BY <1>2, <2>1, Zenon DEF Inv, TypeOK, Signal, PC, Critical
  <2>3. waiters' \in SUBSET Handles
    BY <1>2 DEF Inv, TypeOK, Signal, ipm_condition_signal
  <2>4. TypeOK'
    BY <1>2, <2>2, <2>3, ConstantTypes, Zenon DEF Inv, TypeOK, Signal, list
  <2>5. Control'
    <3>1. \A g \in Handles : g # h => call'[g] = call[g]
      BY <1>2, Zenon DEF Signal, Inv, TypeOK
    <3>2. pc'[h] = "idle"
      BY <1>2, Zenon DEF Signal
    <3> QED BY <1>2, <2>1, <3>1, <3>2 DEF Inv, Control, Signal, Critical, list
  <2> QED BY <2>4, <2>5, Zenon DEF Inv
<1> QED BY <1>1, <1>2, Zenon

(***************************************************************************)
(* The environment: a wakeup without a signal, and a process killed.       *)
(***************************************************************************)
LEMMA EnvironmentInv ==
    ASSUME Inv, NEW h \in Handles, SpuriousWake(h) \/ Crash(h)
    PROVE  Inv'
<1>1. CASE SpuriousWake(h)
  <2>1. TypeOK'
    BY <1>1, Zenon DEF Inv, TypeOK, SpuriousWake, Goto, PC, list
  <2>2. Control'
    BY <1>1, Zenon DEF Inv, TypeOK, Control, SpuriousWake, Goto, PC, Critical, list
  <2> QED BY <2>1, <2>2, Zenon DEF Inv
<1>2. CASE Crash(h)
  <2>1. TypeOK'
    BY <1>2, MutexTypes, ConstantTypes, UseAssumption
       DEF Inv, TypeOK, Crash, Die, Goto, PC, list
  <2>2. Control'
    BY <1>2, HandleAssumption, ZenonT(30)
       DEF Inv, TypeOK, Control, Crash, Die, Goto, PC, Critical, list, OwnerDies
  <2> QED BY <2>1, <2>2, Zenon DEF Inv
<1> QED BY <1>1, <1>2, Zenon

(***************************************************************************)
(* Every step of the library, of its callers and of the environment keeps  *)
(* the invariant.                                                          *)
(***************************************************************************)
LEMMA NextInv == Inv /\ [Next]_vars => Inv'
<1> SUFFICES ASSUME Inv, [Next]_vars PROVE Inv'
  BY Zenon
<1>1. CASE UNCHANGED vars
  BY <1>1, Zenon DEF Inv, TypeOK, Control, vars
<1>2. ASSUME NEW h \in Handles, NEW r \in Regions, NEW a \in Modes,
             ClaimRegion(h, r, a)
      PROVE  Inv'
  <2> DEFINE c == [claim_id |-> NoId, proc_id |-> h, access |-> a,
                   offset |-> r.offset, size |-> r.size]
  <2>1. c \in Claim
    BY RegionAssumption, UseAssumption, ConstantTypes DEF Claim
  <2> HIDE DEF c
  <2>2. Enter(h, "claim", c) /\ pc[h] = "idle"
    BY <1>2, Zenon DEF ClaimRegion, c
  <2>3. held' \in [Handles -> SUBSET Claim]
        /\ UNCHANGED <<mutex, waiters, list, claim_counter, crashes>>
    BY <1>2, Zenon DEF ClaimRegion, Inv, TypeOK
  <2>4. "claim" \in Removes \cup {"claim"}
    BY Zenon
  <2> QED BY <2>1, <2>2, <2>3, <2>4, EnterInv, Zenon
<1>3. ASSUME NEW h \in Handles, NEW c \in held[h], ReleaseRegion(h, c)
      PROVE  Inv'
  <2>1. c \in Claim /\ "release" \in Removes \cup {"claim"}
    BY Zenon DEF Inv, TypeOK, Removes
  <2>2. Enter(h, "release", c) /\ pc[h] = "idle"
    BY <1>3, Zenon DEF ReleaseRegion
  <2>3. held' \in [Handles -> SUBSET Claim]
        /\ UNCHANGED <<mutex, waiters, list, claim_counter, crashes>>
    BY <1>3, Zenon DEF ReleaseRegion, Inv, TypeOK
  <2> QED BY <2>1, <2>2, <2>3, EnterInv, Zenon
<1>4. ASSUME NEW h \in Handles, NEW op \in Ops, ReleaseMany(h, op)
      PROVE  Inv'
  <2>1. op \in Removes \cup {"claim"} /\ ZeroClaim \in Claim
    BY UseAssumption, ConstantTypes, Zenon DEF Removes
  <2>2. Enter(h, op, ZeroClaim) /\ pc[h] = "idle"
    BY <1>4, Zenon DEF ReleaseMany
  <2>3. held' \in [Handles -> SUBSET Claim]
        /\ UNCHANGED <<mutex, waiters, list, claim_counter, crashes>>
    BY <1>4, Zenon DEF ReleaseMany, Inv, TypeOK
  <2> QED BY <2>1, <2>2, <2>3, EnterInv, Zenon
<1>5. ASSUME NEW h \in Handles, Step(h)
      PROVE  Inv'
  BY <1>5, LockInv, ScanInv, RelockInv, AddInv, ReturnInv, DecInv, EraseInv,
     LoopInv, LeaveInv, Zenon DEF Step
<1>6. ASSUME NEW h \in Handles, SpuriousWake(h) \/ Crash(h)
      PROVE  Inv'
  BY <1>6, EnvironmentInv, Zenon
<1> QED BY <1>1, <1>2, <1>3, <1>4, <1>5, <1>6, Zenon DEF Next, GiveUp

(***************************************************************************)
(* Inv holds in every state of every use of the library.                   *)
(***************************************************************************)
THEOREM Invariance == Spec => []Inv
BY InitInv, NextInv, PTL DEF Spec

(***************************************************************************)
(* Type correctness: the counter stays a size_t, the array stays an array  *)
(* of claims and no memmove of a found claim leaves it, whatever is done.  *)
(***************************************************************************)
THEOREM TypeCorrectness == Spec => []TypeOK
<1>1. Inv => TypeOK
  BY Zenon DEF Inv
<1> QED BY <1>1, Invariance, PTL

(***************************************************************************)
(* At most one handle is at the list at any time, across deaths in the     *)
(* critical section, their recovery and the waits of claim_region.         *)
(***************************************************************************)
THEOREM CriticalSection == Spec => []OneInside
<1>1. Inv => OneInside
  BY Zenon DEF Inv, Control, OneInside
<1> QED BY <1>1, Invariance, PTL

(***************************************************************************)
(* The assertion of claim_add_to_list that there is room never fails, not  *)
(* even after the counter underflowed.                                     *)
(***************************************************************************)
THEOREM RoomForClaims == Spec => []AddHasRoom
<1>1. Inv => AddHasRoom
  BY Zenon DEF Inv, Control, AddHasRoom
<1> QED BY <1>1, Invariance, PTL

(***************************************************************************)
(* After list_mutex has become unrecoverable no call changes the list or   *)
(* the claim counter.                                                      *)
(***************************************************************************)
THEOREM PoisonFreezes == Spec => PoisonedListFrozen
<1> DEFINE Frozen == mutex.state = "unrecoverable"
                        => UNCHANGED <<list, claim_counter>>
<1>1. Inv /\ [Next]_vars => [Frozen]_vars
  <2> SUFFICES ASSUME Inv, Next, mutex.state = "unrecoverable"
               PROVE  UNCHANGED <<list, claim_counter>>
    BY Zenon
  <2>1. \A h \in Handles : pc[h] \notin Critical
    BY Zenon DEF Inv, Control
  <2>2. PICK h \in Handles :
          \/ \E r \in Regions, a \in Modes : ClaimRegion(h, r, a)
          \/ GiveUp(h) \/ Step(h) \/ SpuriousWake(h) \/ Crash(h)
    BY Zenon DEF Next
  <2>3. ~ (\/ Scan(h) \/ Shift(h) \/ Store(h) \/ Bump(h) \/ Claimed(h) \/ Dec(h)
           \/ Erase(h) \/ Sweep(h) \/ Drain(h) \/ LeaveRemove(h))
    BY <2>1, Zenon DEF Critical, Scan, Shift, Store, Bump, Claimed, Dec, Erase, Sweep,
       Drain, LeaveRemove
  <2>4. CASE Step(h)
    BY <2>3, <2>4, Zenon DEF Step, Lock, LockSucceeds, Relock, WaitFailed, Signal, list
  <2>5. CASE GiveUp(h)
    BY <2>5, Zenon DEF GiveUp, ReleaseRegion, ReleaseMany
  <2> QED BY <2>2, <2>4, <2>5, Zenon DEF ClaimRegion, SpuriousWake, Crash
<1> QED BY <1>1, Invariance, PTL DEF Spec, PoisonedListFrozen

-----------------------------------------------------------------------------
(* Steps and those who do not take them *)

Act(h) ==
    \/ \E r \in Regions, a \in Modes : ClaimRegion(h, r, a)
    \/ GiveUp(h) \/ Step(h) \/ SpuriousWake(h) \/ Crash(h)

(***************************************************************************)
(* A handle's step leaves the calls and the claims of the others alone; it *)
(* may wake a sleeper (the signal of release_region).                      *)
(***************************************************************************)
LEMMA Others ==
    ASSUME Inv, NEW h \in Handles, Act(h), NEW g \in Handles, g # h
    PROVE  /\ call'[g] = call[g] /\ held'[g] = held[g]
           /\ pc'[g] = pc[g] \/ (pc[g] = "asleep" /\ pc'[g] = "woken")
<1> USE DEF Inv, TypeOK
<1>1. CASE \E r \in Regions, a \in Modes : ClaimRegion(h, r, a)
  BY <1>1, Zenon DEF ClaimRegion, Enter, Goto
<1>2. CASE GiveUp(h)
  BY <1>2, Zenon DEF GiveUp, ReleaseRegion, ReleaseMany, Enter, Goto
<1>3. CASE SpuriousWake(h) \/ Crash(h)
  BY <1>3, Zenon DEF SpuriousWake, Crash, Die, Goto
<1>4. CASE Signal(h)
  BY <1>4, Zenon DEF Signal
<1>5. CASE Lock(h)
  BY <1>5, Zenon DEF Lock, Return, Goto, TakeId
<1>6. CASE Scan(h)
  BY <1>6, Zenon DEF Scan, Sleep, Die, Goto
<1>7. CASE Relock(h) \/ WaitFailed(h) \/ Claimed(h)
  BY <1>7, Zenon DEF Relock, WaitFailed, Claimed, Return, Goto
<1>8. CASE Shift(h) \/ Store(h) \/ Bump(h)
  BY <1>8, Zenon DEF Shift, Store, Bump, Goto
<1>9. CASE Dec(h) \/ Erase(h)
  BY <1>9, Zenon DEF Dec, Erase, Die, Goto
<1>10. CASE Sweep(h) \/ Drain(h) \/ LeaveRemove(h)
  BY <1>10, Zenon DEF Sweep, Drain, LeaveRemove, Return, Goto
<1> QED BY <1>1, <1>2, <1>3, <1>4, <1>5, <1>6, <1>7, <1>8, <1>9, <1>10, Zenon
        DEF Act, Step

(***************************************************************************)
(* Some handle takes each step.                                            *)
(***************************************************************************)
LEMMA SomeoneActs ==
    ASSUME [Next]_vars
    PROVE  UNCHANGED vars \/ \E h \in Handles : Act(h)
BY Zenon DEF Next, Act
=============================================================================
