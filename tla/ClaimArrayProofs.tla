-------------------------- MODULE ClaimArrayProofs --------------------------
(***************************************************************************)
(* Proofs about the array of the claim list, for every use of the library. *)
(* The memmoves of claim_add_to_list and claim_remove_from_list lose and   *)
(* duplicate entries, but no entry's id ever comes to stand for another    *)
(* owner, and that is enough for release_all.                              *)
(***************************************************************************)
EXTENDS ClaimListProofs

(***************************************************************************)
(* Two entries with the same id have the same owner, or the later one is a *)
(* slot that was never written.                                            *)
(***************************************************************************)
OneOwner ==
    \A j, k \in Slots :
        j < k /\ claims[j].claim_id = claims[k].claim_id =>
            claims[k].proc_id \in {claims[j].proc_id, NoProc}

New(h) == \A k \in Slots : claims[k].claim_id # call[h].claim.claim_id

Blank == count = 0 /\ \A k \in Slots : claims[k] = ZeroClaim

\* Every id in the array was given out.
Below == \A k \in Slots : claims[k].claim_id < claim_counter

Array ==
    /\ OneOwner
    /\ Below \/ (claim_counter = 0 /\ Blank)
    /\ \A h \in Handles :
          /\ pc[h] \in {"asleep", "woken"} => New(h)
          /\ pc[h] \in {"scan", "shift", "store"} => New(h) \/ Blank
          /\ pc[h] = "store" => call[h].i <= count
          /\ pc[h] = "dec" /\ call[h].op = "remove_all" => count > 0

Swept(h) == \A j \in Slots : j < call[h].i => claims[j].proc_id # h

Sweeping ==
    \A h \in Handles : call[h].op = "release_all" =>
        /\ pc[h] = "lock" => call[h].i = 0
        /\ pc[h] \in {"sweep", "dec", "erase"} => Swept(h)
        /\ pc[h] = "dec" => call[h].i < count /\ count <= Capacity
        /\ pc[h] = "erase" => call[h].i < call[h].n /\ call[h].n <= Capacity
        /\ pc[h] \in {"dec", "erase"} => claims[call[h].i].proc_id = h
                                         /\ call[h].claim = claims[call[h].i]
        /\ pc[h] = "unlock" /\ count <= Capacity => \A c \in Active : c.proc_id # h

-----------------------------------------------------------------------------
(***************************************************************************)
(* claim_add_to_list inserts within the active part or just after it.      *)
(***************************************************************************)
LEMMA InsertPosType ==
    ASSUME TypeOK, count < Capacity, NEW h \in Handles
    PROVE  InsertPos(claims, count, call[h].claim) \in 0 .. count
<1> DEFINE pos == InsertPos(claims, count, call[h].claim)
<1>1. count \in Nat /\ call[h].claim.offset \in Int
  BY ConstantTypes DEF TypeOK, Call, Claim
<1>2. \A q \in 0 .. count - 1 : claims[q].offset \in Int
  BY <1>1, ConstantTypes DEF TypeOK, Claim, Slots
<1> HIDE DEF pos
<1>3. pos \in 0 .. count
  BY <1>1, <1>2, InsertPosFound, Zenon DEF pos
<1> QED BY <1>3, Zenon DEF pos

(***************************************************************************)
(* What a step can do to the list; only the handle in the critical section *)
(* does anything to it.                                                    *)
(***************************************************************************)
LEMMA ListEffect ==
    ASSUME Names, NEW h \in Handles, Act(h)
    PROVE  \/ claims' = claims /\ count' = count
           \/ /\ Shift(h) \/ Erase(h)
              /\ Moved(claims, claims') /\ count' = count
           \/ Store(h) \/ Bump(h) \/ Dec(h)
<1> USE DEF Names, Inv
<1>1. CASE Shift(h)
  <2> DEFINE pos == InsertPos(claims, count, call[h].claim)
  <2>1. count \in 0 .. Capacity - 1 /\ claims \in [Slots -> Claim]
    BY <1>1, ConstantTypes DEF Shift, Control, TypeOK
  <2>2. pos \in 0 .. count
    BY <2>1, InsertPosType, CapacityAssumption
  <2>3. claims' = ShiftForInsert(claims, count, pos) /\ count' = count
    BY <1>1, Zenon DEF Shift
  <2> HIDE DEF pos
  <2> QED BY <1>1, <2>1, <2>2, <2>3, ShiftMoves, Zenon
<1>2. CASE Erase(h)
  <2> DEFINE pos == ErasePos(h)
             n == call[h].n
  <2>1. claims \in [Slots -> Claim] /\ n \in Nat /\ count' = count
    BY <1>2, ConstantTypes DEF Erase, TypeOK, Call, list
  <2>2. pos \in 0 .. Capacity /\ (n <= Capacity => pos \in 0 .. n)
    BY ErasePosType, Zenon
  <2>3. \/ claims' \in EraseOverrun(claims, pos)
        \/ ~ EraseFaults(n, pos) /\ claims' = EraseAt(claims, n, pos)
    BY <1>2, Zenon DEF Erase
  <2>4. ~ EraseFaults(n, pos) => n \in 0 .. Capacity
    BY <2>1, ConstantTypes DEF EraseFaults
  <2> HIDE DEF pos, n
  <2>5. CASE claims' \in EraseOverrun(claims, pos)
    BY <1>2, <2>1, <2>2, <2>5, OverrunMoves, Zenon
  <2>6. CASE ~ EraseFaults(n, pos) /\ claims' = EraseAt(claims, n, pos)
    <3>1. n \in 0 .. Capacity /\ pos \in 0 .. n
      BY <2>2, <2>4, <2>6
    <3> QED BY <1>2, <2>1, <2>6, <3>1, EraseMoves, Zenon
  <2> QED BY <2>3, <2>5, <2>6, Zenon
<1>3. CASE ~ (Shift(h) \/ Erase(h) \/ Store(h) \/ Bump(h) \/ Dec(h))
  BY <1>3, Zenon DEF Act, GiveUp, Step, ClaimRegion, ReleaseRegion, ReleaseMany, Lock, Scan,
     Relock, WaitFailed, Claimed, Sweep, Drain, LeaveRemove, Signal, SpuriousWake, Crash, list
<1> QED BY <1>1, <1>2, <1>3, Zenon

(***************************************************************************)
(* A reordering of the array keeps the owners of equal ids, brings no new  *)
(* id in and leaves an array alone that was never written.                 *)
(***************************************************************************)
LEMMA MovedKeeps ==
    ASSUME TypeOK, Moved(claims, claims'), NEW id
    PROVE  /\ OneOwner => OneOwner'
           /\ (\A k \in Slots : claims[k].claim_id < id)
                 => \A k \in Slots : claims'[k].claim_id < id
           /\ (\A k \in Slots : claims[k].claim_id # id)
                 => \A k \in Slots : claims'[k].claim_id # id
           /\ (\A k \in Slots : claims[k] = ZeroClaim)
                 => \A k \in Slots : claims'[k] = ZeroClaim
<1>1. PICK f \in [Slots -> Slots] :
        /\ \A j, k \in Slots : j < k => f[j] <= f[k]
        /\ \A j \in Slots : claims'[j] = claims[f[j]]
  BY Zenon DEF Moved
<1>2. OneOwner => OneOwner'
  <2> SUFFICES ASSUME OneOwner, NEW j \in Slots, NEW k \in Slots, j < k,
                      claims'[j].claim_id = claims'[k].claim_id
               PROVE  claims'[k].proc_id \in {claims'[j].proc_id, NoProc}
    BY Zenon DEF OneOwner
  <2>1. f[j] \in Slots /\ f[k] \in Slots /\ f[j] <= f[k]
    BY <1>1, Zenon
  <2>2. CASE f[j] = f[k]
    BY <1>1, <2>2, Zenon
  <2>3. CASE f[j] < f[k]
    BY <1>1, <2>1, <2>3 DEF OneOwner
  <2> QED BY <2>1, <2>2, <2>3, CapacityAssumption DEF Slots
<1> QED BY <1>1, <1>2, Zenon

(***************************************************************************)
(* Once the list is in use, every id in it was given out.                  *)
(***************************************************************************)
LEMMA InUse ==
    ASSUME Names, Array, Sweeping, NEW h \in Handles, pc[h] \in {"store", "bump", "dec"}
    PROVE  Below
<1> USE DEF Names, Inv, TypeOK
<1>1. Below \/ (claim_counter = 0 /\ Blank)
  BY Zenon DEF Array
<1>2. ASSUME call[h].op \in {"claim", "release"}, call[h].claim.claim_id # NoId
      PROVE  claim_counter # 0
  <2>1. call[h].claim \in Owned(h) /\ call[h].claim.claim_id \in Nat
    BY <1>2, OwnedIff, Zenon DEF Call, Claim
  <2> QED BY <2>1 DEF Ids
<1>3. CASE pc[h] \in {"store", "bump"}
  BY <1>1, <1>2, <1>3, Zenon DEF Calls, Claiming
<1>4. CASE pc[h] = "dec" /\ call[h].op = "release"
  BY <1>1, <1>2, <1>4, Zenon DEF Poison, Control, Critical
<1>5. CASE pc[h] = "dec" /\ call[h].op = "release_all"
  <2>1. call[h].i < count /\ call[h].i \in Nat
    BY <1>5, Zenon DEF Sweeping, Call
  <2> QED BY <1>1, <2>1 DEF Blank
<1>6. CASE pc[h] = "dec" /\ call[h].op = "remove_all"
  BY <1>1, <1>6 DEF Array, Blank
<1> QED BY <1>3, <1>4, <1>5, <1>6, Zenon DEF Control, Removes

(***************************************************************************)
(* A claim that claim_region stores has an id that is in no slot, or is    *)
(* the first one of a fresh list, which goes into slot 0.                  *)
(***************************************************************************)
LEMMA StoreKeeps ==
    ASSUME Names, Array, Sweeping, NEW h \in Handles, Store(h)
    PROVE  OneOwner' /\ Below'
<1> USE DEF Names, Inv, TypeOK
<1> DEFINE c == call[h].claim
           i == call[h].i
<1>1. /\ claims' = [claims EXCEPT ![i] = c] /\ claim_counter' = claim_counter
      /\ pc[h] = "store" /\ Below /\ i \in Nat /\ i <= count
  BY InUse, Zenon DEF Store, Array, Call
<1>2. c \in Owned(h) /\ c.claim_id < claim_counter
  BY <1>1, OwnedIff DEF Calls, Claiming, Ids
<1>3. New(h) \/ (Blank /\ i = 0)
  BY <1>1 DEF Array, Blank
<1>4. New(h) => \A k \in Slots : claims[k].claim_id # c.claim_id
  BY Zenon DEF New
<1> HIDE DEF c, i
<1>5. Below'
  BY <1>1, <1>2, Zenon DEF Below
<1>6. OneOwner'
  <2> SUFFICES ASSUME NEW j \in Slots, NEW k \in Slots, j < k,
                      claims'[j].claim_id = claims'[k].claim_id
               PROVE  claims'[k].proc_id \in {claims'[j].proc_id, NoProc}
    BY Zenon DEF OneOwner
  <2>1. CASE New(h)
    <3>1. j # i /\ k # i
      BY <1>1, <1>4, <2>1 DEF Slots
    <3> QED BY <1>1, <3>1, Zenon DEF Array, OneOwner
  <2>2. CASE Blank /\ i = 0
    <3>1. k # 0
      BY CapacityAssumption DEF Slots
    <3>2. claims'[k] = ZeroClaim
      BY <1>1, <2>2, <3>1, ZenonT(30) DEF Blank
    <3> QED BY <3>2 DEF ZeroClaim
  <2> QED BY <1>3, <2>1, <2>2, Zenon
<1> QED BY <1>5, <1>6, Zenon

(***************************************************************************)
(* claim_counter moves when claim_region has taken the mutex, and then the *)
(* list does not.                                                          *)
(***************************************************************************)
LEMMA CounterEffect ==
    ASSUME Names, NEW h \in Handles, Act(h)
    PROVE  \/ claim_counter' = claim_counter
           \/ /\ Lock(h) /\ claim_counter' = claim_counter + 1
              /\ claims' = claims /\ count' = count
BY Zenon DEF Act, GiveUp, Step, ClaimRegion, ReleaseRegion, ReleaseMany, Lock, Scan, Shift,
   Store, Relock, WaitFailed, Claimed, Sweep, Drain, LeaveRemove, Signal, SpuriousWake, Crash,
   list, Dec, Erase, Bump, TakeId

(***************************************************************************)
(* Equal ids keep their owner, and ids stay below the counter.             *)
(***************************************************************************)
LEMMA SlotsStep ==
    ASSUME Names, Array, Sweeping, NEW h \in Handles, Act(h)
    PROVE  OneOwner' /\ (Below' \/ (claim_counter' = 0 /\ Blank'))
<1> USE DEF Names, Inv, TypeOK
<1>1. OneOwner /\ (Below \/ (claim_counter = 0 /\ Blank))
  BY Zenon DEF Array
<1>2. CASE claims' = claims /\ count' = count
  <2>1. OneOwner'
    BY <1>1, <1>2, Zenon DEF OneOwner
  <2>2. CASE claim_counter' = claim_counter
    BY <1>1, <1>2, <2>1, <2>2, Zenon DEF Below, Blank
  <2>3. CASE claim_counter' = claim_counter + 1
    <3>1. \A k \in Slots : claims[k].claim_id \in Int
      BY DEF Claim, NoId
    <3>2. Blank => \A k \in Slots : claims[k].claim_id = 0
      BY DEF Blank, ZeroClaim
    <3>3. Below'
      BY <1>1, <1>2, <2>3, <3>1, <3>2 DEF Below
    <3> QED BY <2>1, <3>3, Zenon
  <2> QED BY <2>2, <2>3, CounterEffect, Zenon
<1>3. CASE (Shift(h) \/ Erase(h)) /\ Moved(claims, claims') /\ count' = count
  <2>1. claim_counter' = claim_counter
    BY <1>3, Zenon DEF Shift, Erase
  <2> QED BY <1>1, <1>3, <2>1, MovedKeeps, Zenon DEF Below, Blank
<1>4. CASE Store(h)
  BY <1>4, StoreKeeps, Zenon
<1>5. CASE Bump(h) \/ Dec(h)
  <2>1. Below /\ claims' = claims /\ claim_counter' = claim_counter
    BY <1>5, InUse, Zenon DEF Bump, Dec
  <2> QED BY <1>1, <2>1, Zenon DEF OneOwner, Below
<1> QED BY <1>2, <1>3, <1>4, <1>5, ListEffect, Zenon

(***************************************************************************)
(* Whoever is in the critical section is alone there.                      *)
(***************************************************************************)
LEMMA Alone ==
    ASSUME Inv, NEW g \in Handles, NEW h \in Handles, g # h, pc[h] \in Critical
    PROVE  pc[g] \notin Critical
BY Zenon DEF Inv, Control

(***************************************************************************)
(* A step of a handle outside the critical section leaves the list alone.  *)
(***************************************************************************)
LEMMA OutsideKeepsList ==
    ASSUME Names, NEW h \in Handles, Act(h), pc[h] \notin Critical
    PROVE  claims' = claims /\ count' = count
BY ListEffect, Zenon DEF Shift, Erase, Store, Bump, Dec, Critical

(***************************************************************************)
(* No step of another handle brings the id of a waiting claim_region into  *)
(* the list.                                                               *)
(***************************************************************************)
LEMMA NewOthers ==
    ASSUME Names, NEW h \in Handles, Act(h), NEW g \in Handles, g # h,
           pc[g] \in {"asleep", "woken"}, New(g)
    PROVE  New(g)'
<1> USE DEF Names, Inv, TypeOK
<1>1. call'[g] = call[g]
  BY Others, Zenon
<1>2. CASE claims' = claims
  BY <1>1, <1>2, Zenon DEF New
<1>3. CASE Moved(claims, claims')
  <2> DEFINE id == call[g].claim.claim_id
  <2>1. \A k \in Slots : claims[k].claim_id # id
    BY Zenon DEF New
  <2> HIDE DEF id
  <2>2. \A k \in Slots : claims'[k].claim_id # id
    BY <1>3, <2>1, MovedKeeps, Zenon
  <2> QED BY <1>1, <2>2, Zenon DEF New, id
<1>4. CASE Store(h)
  <2>1. call[g].claim \in Owned(g) /\ call[h].claim \in Owned(h)
    BY <1>4, OwnedIff, Zenon DEF Store, Calls, Claiming
  <2>2. call[g].claim.claim_id # call[h].claim.claim_id
    BY <2>1 DEF Ids
  <2> QED BY <1>1, <1>4, <2>2, Zenon DEF New, Store
<1> QED BY <1>2, <1>3, <1>4, ListEffect, Zenon DEF Bump, Dec

(***************************************************************************)
(* The array's invariant is kept.                                          *)
(***************************************************************************)
LEMMA ArrayStep ==
    ASSUME Names, Array, Sweeping, NEW h \in Handles, Act(h)
    PROVE  Array'
<1> DEFINE Place(g) ==
              /\ pc[g] \in {"asleep", "woken"} => New(g)
              /\ pc[g] \in {"scan", "shift", "store"} => New(g) \/ Blank
              /\ pc[g] = "store" => call[g].i <= count
              /\ pc[g] = "dec" /\ call[g].op = "remove_all" => count > 0
<1>1. \A g \in Handles : Place(g)
  BY Zenon DEF Array
<1>2. ASSUME NEW g \in Handles, g # h PROVE Place(g)'
  <2>1. call'[g] = call[g] /\ (pc'[g] = pc[g] \/ (pc[g] = "asleep" /\ pc'[g] = "woken"))
    BY <1>2, Others, Zenon DEF Names
  <2>2. CASE pc[g] \in {"asleep", "woken"}
    <3>1. New(g)' /\ pc'[g] \in {"asleep", "woken"}
      BY <1>1, <1>2, <2>1, <2>2, NewOthers, Zenon
    <3> QED BY <3>1, Zenon
  <2>3. CASE pc[g] \in Critical /\ pc'[g] = pc[g]
    <3>1. claims' = claims /\ count' = count
      BY <1>2, <2>3, Alone, OutsideKeepsList, ZenonT(30) DEF Names
    <3>2. Place(g)
      BY <1>1, Zenon
    <3> QED BY <2>1, <2>3, <3>1, <3>2, Zenon DEF New, Blank
  <2>4. CASE pc[g] \notin Critical \cup {"asleep", "woken"} /\ pc'[g] = pc[g]
    BY <2>4, Zenon DEF Critical
  <2> QED BY <2>1, <2>2, <2>3, <2>4, Zenon
<1>3. Place(h)'
  <2> USE DEF Names, Inv, TypeOK, list
  <2> DEFINE Away == {"asleep", "woken", "scan", "shift", "store", "dec"}
  <2>0. ASSUME pc'[h] \notin Away PROVE Place(h)'
    BY <2>0, Zenon
  <2>1. CASE \E r \in Regions, a \in Modes : ClaimRegion(h, r, a)
    BY <2>1, Zenon DEF ClaimRegion, Enter, Goto
  <2>2. CASE GiveUp(h)
    BY <2>2, Zenon DEF GiveUp, ReleaseRegion, ReleaseMany, Enter, Goto
  <2>3. CASE Crash(h) \/ Signal(h)
    BY <2>3, Zenon DEF Crash, Signal, Die, Goto
  <2>4. CASE SpuriousWake(h)
    <3>1. New(h)' /\ pc'[h] = "woken"
      BY <1>1, <2>4, Zenon DEF SpuriousWake, Goto, New
    <3> QED BY <3>1, Zenon
  <2>5. CASE Lock(h)
    <3>1. CASE TakeId(h) /\ Goto(h, "scan")
      <4>1. pc'[h] = "scan" /\ call'[h].claim.claim_id = claim_counter
            /\ claims' = claims /\ count' = count
        BY <2>5, <3>1 DEF Lock, TakeId, Goto, Call, Claim
      <4>2. Below => New(h)'
        <5>1. \A k \in Slots : claims[k].claim_id \in Int
          BY DEF Claim, NoId
        <5> QED BY <4>1, <5>1 DEF Below, New
      <4>3. Blank => Blank'
        BY <4>1, Zenon DEF Blank
      <4>4. New(h)' \/ Blank'
        BY <4>2, <4>3, Zenon DEF Array
      <4> QED BY <4>1, <4>4, Zenon
    <3>2. CASE Return(h)
      BY <3>2, Zenon DEF Return, Goto
    <3>3. CASE UNCHANGED call /\ LockSucceeds(mutex) /\ call[h].op # "claim"
      <4>1. \/ pc'[h] = "dec" /\ call'[h].op = "release"
            \/ pc'[h] \in {"sweep", "drain"}
        BY <2>5, <3>3 DEF Lock, Goto, Control, Call, Return
      <4> QED BY <4>1, Zenon
    <3> QED BY <2>5, <3>1, <3>2, <3>3, Zenon DEF Lock
  <2>6. CASE Scan(h)
    <3>1. pc[h] = "scan" /\ claims' = claims /\ count' = count
      BY <2>6, Zenon DEF Scan
    <3>2. \/ pc'[h] \in {"asleep", "shift"} /\ call' = call
          \/ pc'[h] = "fault"
      BY <2>6, Zenon DEF Scan, Sleep, Die, Goto
    <3>3. Blank => pc'[h] # "asleep"
      <4> SUFFICES ASSUME Blank PROVE pc'[h] = "shift"
        BY Zenon
      <4>1. count = 0 /\ count # Capacity /\ ~ (count > Capacity) /\ Scanned = {}
        BY CapacityAssumption DEF Blank, Scanned, ActiveClaims
      <4>2. ~ MustWait(call[h].claim)
        BY <4>1, Zenon DEF MustWait
      <4> QED BY <2>6, <4>1, <4>2, ZenonT(30) DEF Scan, Goto
    <3>4. (New(h) \/ Blank) /\ (call' = call => (New(h) => New(h)')) /\ (Blank => Blank')
      BY <1>1, <3>1, Zenon DEF New, Blank
    <3> QED BY <3>2, <3>3, <3>4, Zenon
  <2>7. CASE Relock(h)
    <3>1. New(h) /\ New(h)'
      BY <1>1, <2>7, Zenon DEF Relock, New
    <3>2. pc'[h] \in {"scan", "wait_failed"}
      BY <2>7, Zenon DEF Relock, Goto
    <3> QED BY <3>1, <3>2, Zenon
  <2>8. CASE Shift(h)
    <3>1. /\ pc[h] = "shift" /\ pc'[h] = "store" /\ count' = count /\ count < Capacity
          /\ call'[h].claim = call[h].claim
          /\ call'[h].i = InsertPos(claims, count, call[h].claim)
      BY <2>8, ZenonT(30) DEF Shift, Goto, Call, Control
    <3>2. call'[h].i <= count'
      BY <3>1, InsertPosType, SizeAssumption
    <3>3. Moved(claims, claims') \/ claims' = claims
      BY <2>8, ListEffect, Zenon DEF Store, Bump, Dec, Shift
    <3>4. New(h) => New(h)'
      <4> SUFFICES ASSUME New(h) PROVE New(h)'
        BY Zenon
      <4>1. \A k \in Slots : claims'[k].claim_id # call[h].claim.claim_id
        BY <3>3, MovedKeeps, Zenon DEF New
      <4> QED BY <3>1, <4>1, Zenon DEF New
    <3>5. Blank => Blank'
      BY <3>1, <3>3, MovedKeeps, ZenonT(30) DEF Blank
    <3>6. New(h)' \/ Blank'
      BY <1>1, <3>1, <3>4, <3>5, ZenonT(30)
    <3> QED BY <3>1, <3>2, <3>6, Zenon
  <2>9. CASE WaitFailed(h) \/ Store(h) \/ Bump(h) \/ Claimed(h) \/ LeaveRemove(h)
    <3>1. pc'[h] \notin Away
      BY <2>9, ZenonT(30) DEF WaitFailed, Store, Bump, Claimed, LeaveRemove, Return, Goto
    <3> QED BY <2>0, <3>1, Zenon
  <2>10. CASE Dec(h)
    <3>1. pc'[h] \notin Away
      BY <2>10, ZenonT(30) DEF Dec, Die, Goto
    <3> QED BY <2>0, <3>1, Zenon
  <2>11. CASE Erase(h)
    <3>1. pc'[h] \notin Away
      BY <2>11, ZenonT(30) DEF Erase, Die, Goto, AfterRemove, Control, Removes
    <3> QED BY <2>0, <3>1, Zenon
  <2>12. CASE Sweep(h)
    <3>1. call'[h].op = "release_all" /\ pc'[h] \in {"unlock", "dec", "sweep"}
      BY <2>12 DEF Sweep, Goto, Control, Call
    <3> QED BY <3>1, Zenon
  <2>13. CASE Drain(h)
    <3>1. pc'[h] = "unlock" \/ (pc'[h] = "dec" /\ count > 0 /\ count' = count)
      BY <2>13, Zenon DEF Drain, Goto
    <3> QED BY <3>1, Zenon
  <2> HIDE DEF Place
  <2> QED BY <2>1, <2>2, <2>3, <2>4, <2>5, <2>6, <2>7, <2>8, <2>9, <2>10, <2>11,
             <2>12, <2>13, ZenonT(30) DEF Act, Step
<1>4. \A g \in Handles : Place(g)'
  BY <1>2, <1>3, Zenon
<1> QED BY <1>4, SlotsStep, Zenon DEF Array

(***************************************************************************)
(* release_all removes the entry that it looks at: an earlier one with the *)
(* same id would be an entry of its own handle, which it has passed.       *)
(***************************************************************************)
LEMMA ErasesWhatItSees ==
    ASSUME Names, Array, Sweeping, NEW h \in Handles, pc[h] = "erase",
           call[h].op = "release_all"
    PROVE  ErasePos(h) = call[h].i
<1> DEFINE i == call[h].i
           n == call[h].n
           pos == ErasePos(h)
           id == call[h].claim.claim_id
<1>1. /\ i \in Nat /\ n \in Nat /\ i < n /\ n <= Capacity /\ Swept(h)
      /\ claims[i].proc_id = h /\ call[h].claim = claims[i]
  BY SizeAssumption DEF Sweeping, Names, Inv, TypeOK, Call
<1>2. ErasePos(h) = FindPos(claims, n, id) /\ i \in Slots
  BY <1>1, CapacityAssumption DEF ErasePos, Slots
<1> HIDE DEF i, n, pos, id
<1>3. /\ pos \in 0 .. n
      /\ pos # n => claims[pos].claim_id = id
      /\ \A q \in 0 .. pos - 1 : claims[q].claim_id # id
  BY <1>1, <1>2, FindPosFound DEF pos
<1>4. claims[i].claim_id = id
  BY <1>1, Zenon DEF id, i
<1>5. pos <= i
  BY <1>1, <1>3, <1>4
<1>6. ~ (pos < i)
  <2> SUFFICES ASSUME pos < i PROVE FALSE
    BY Zenon
  <2>1. pos \in Slots /\ pos # n
    BY <1>1, <1>2, <1>3, CapacityAssumption DEF Slots
  <2>2. claims[i].proc_id \in {claims[pos].proc_id, NoProc}
    BY <1>2, <1>3, <1>4, <2>1, Zenon DEF Array, OneOwner
  <2>3. claims[pos].proc_id # h
    BY <1>1, <2>1, Zenon DEF Swept, i
  <2> QED BY <1>1, <2>2, <2>3, HandleAssumption, Zenon
<1>7. pos = i
  BY <1>1, <1>3, <1>5, <1>6
<1> QED BY <1>7, Zenon DEF pos, i

(***************************************************************************)
(* The loop of release_all has nothing of its handle behind its index.     *)
(***************************************************************************)
LEMMA SweepingStep ==
    ASSUME Names, Array, Sweeping, NEW h \in Handles, Act(h)
    PROVE  Sweeping'
<1> DEFINE Place(g) ==
      call[g].op = "release_all" =>
        /\ pc[g] = "lock" => call[g].i = 0
        /\ pc[g] \in {"sweep", "dec", "erase"} => Swept(g)
        /\ pc[g] = "dec" => call[g].i < count /\ count <= Capacity
        /\ pc[g] = "erase" => call[g].i < call[g].n /\ call[g].n <= Capacity
        /\ pc[g] \in {"dec", "erase"} => claims[call[g].i].proc_id = g
                                         /\ call[g].claim = claims[call[g].i]
        /\ pc[g] = "unlock" /\ count <= Capacity => \A c \in Active : c.proc_id # g
<1>1. \A g \in Handles : Place(g)
  BY Zenon DEF Sweeping
<1>2. ASSUME NEW g \in Handles, g # h PROVE Place(g)'
  <2>1. call'[g] = call[g] /\ (pc'[g] = pc[g] \/ (pc[g] = "asleep" /\ pc'[g] = "woken"))
    BY <1>2, Others, Zenon DEF Names
  <2>2. CASE pc[g] \in Critical /\ pc'[g] = pc[g]
    <3>1. claims' = claims /\ count' = count
      BY <1>2, <2>2, Alone, OutsideKeepsList, Zenon DEF Names
    <3>2. Place(g) /\ Active' = Active
      BY <1>1, <3>1, Zenon DEF Active, Scanned
    <3> QED BY <2>1, <2>2, <3>1, <3>2, ZenonT(30) DEF Swept
  <2>3. CASE pc'[g] \notin Critical
    BY <1>1, <2>1, <2>3, Zenon DEF Critical
  <2> QED BY <2>1, <2>2, <2>3, ZenonT(30) DEF Critical
<1>3. Place(h)'
  <2> USE DEF Names, Inv, TypeOK, list
  <2>0. ASSUME call'[h].op # "release_all" \/ pc'[h] \notin Critical \cup {"lock"}
        PROVE  Place(h)'
    BY <2>0, Zenon DEF Critical
  <2>1. CASE \E r \in Regions, a \in Modes : ClaimRegion(h, r, a)
    BY <2>1, ZenonT(30) DEF ClaimRegion, Enter, NoCall
  <2>2. CASE GiveUp(h)
    <3>1. \E op, c : Enter(h, op, c)
      BY <2>2, Zenon DEF GiveUp, ReleaseRegion, ReleaseMany
    <3>2. pc'[h] = "lock" /\ call'[h].i = 0
      BY <3>1, ZenonT(30) DEF Enter, Goto, NoCall
    <3> QED BY <3>2, Zenon
  <2>3. CASE Crash(h) \/ Signal(h) \/ SpuriousWake(h)
    <3>1. pc'[h] \notin Critical \cup {"lock"}
      BY <2>3, Zenon DEF Crash, Signal, SpuriousWake, Die, Goto, Critical
    <3> QED BY <2>0, <3>1, Zenon
  <2>4. CASE Lock(h)
    <3>1. CASE TakeId(h) /\ call[h].op = "claim"
      <4>1. call'[h].op = "claim"
        BY <3>1, Zenon DEF TakeId, Call
      <4> QED BY <4>1, Zenon
    <3>2. CASE Return(h)
      BY <3>2, Zenon DEF Return, NoCall
    <3>3. CASE UNCHANGED call /\ LockSucceeds(mutex) /\ call[h].op # "claim"
      <4>1. call[h].op = "release_all" => pc'[h] = "sweep" /\ call[h].i = 0
        BY <1>1, <2>4, <3>3, Zenon DEF Lock, Goto, Return
      <4>2. call[h].op = "release_all" => Swept(h)'
        BY <3>3, <4>1, SMTT(30) DEF Swept, Slots
      <4> QED BY <3>3, <4>1, <4>2, Zenon
    <3> QED BY <2>4, <3>1, <3>2, <3>3, ZenonT(30) DEF Lock
  <2>5. CASE Scan(h) \/ Relock(h) \/ WaitFailed(h) \/ Store(h) \/ Bump(h) \/ Claimed(h)
    <3>1. call'[h].op \in {"claim", "none"}
      BY <2>5 DEF Scan, Sleep, Die, Relock, WaitFailed, Store, Bump, Claimed, Return, NoCall,
         Calls, Claiming
    <3> QED BY <2>0, <3>1, ZenonT(30)
  <2>6. CASE Shift(h)
    <3>1. call'[h].op = "claim"
      BY <2>6 DEF Shift, Calls, Claiming, Call
    <3> QED BY <2>0, <3>1, Zenon
  <2>7. CASE Dec(h) /\ call[h].op = "release_all"
    <3>1. /\ count \in Nat /\ call[h].i \in Nat /\ call[h].i < count /\ count <= Capacity
          /\ Swept(h) /\ claims' = claims
          /\ claims[call[h].i].proc_id = h /\ call[h].claim = claims[call[h].i]
      BY <1>1, <2>7, SizeAssumption DEF Dec, Call
    <3>2. \/ call'[h].op = "none"
          \/ /\ pc'[h] = "erase" /\ call'[h].n = count
             /\ call'[h].i = call[h].i /\ call'[h].claim = call[h].claim
      BY <2>7, <3>1, SMTT(30) DEF Dec, Die, Goto, NoCall, Call
    <3> QED BY <3>1, <3>2, Zenon DEF Swept
  <2>8. CASE (Dec(h) \/ Erase(h)) /\ call[h].op # "release_all"
    <3>1. call'[h].op # "release_all"
      BY <2>8 DEF Dec, Erase, Die, NoCall, Call
    <3> QED BY <2>0, <3>1, Zenon
  <2>9. CASE Erase(h) /\ call[h].op = "release_all"
    <3>1. CASE Die(h, "fault")
      BY <3>1, Zenon DEF Die, NoCall
    <3>2. CASE /\ claims' = EraseAt(claims, call[h].n, ErasePos(h)) /\ UNCHANGED call
               /\ Goto(h, AfterRemove(call[h].op))
      <4>1. pc'[h] = "sweep" /\ pc[h] = "erase"
        BY <2>9, <3>2, ZenonT(30) DEF Goto, AfterRemove, Erase
      <4>2. /\ ErasePos(h) = call[h].i /\ call[h].i < call[h].n /\ call[h].n <= Capacity
            /\ call[h].i \in Nat /\ call[h].n \in Nat /\ Swept(h)
        BY <1>1, <2>9, <4>1, ErasesWhatItSees, SizeAssumption, SMTT(30) DEF Call
      <4>3. call[h].n \in 0 .. Capacity /\ call[h].i \in 0 .. call[h].n
        BY <4>2, CapacityAssumption
      <4>4. \A j \in Slots : j < call[h].i => claims'[j] = claims[j]
        BY <3>2, <4>2, <4>3, EraseMoves, ZenonT(30)
      <4>5. Swept(h)'
        BY <3>2, <4>2, <4>4, Zenon DEF Swept
      <4> QED BY <4>1, <4>5, Zenon
    <3> QED BY <2>9, <3>1, <3>2, Zenon DEF Erase
  <2>10. CASE Sweep(h)
    <3> DEFINE i == call[h].i
    <3>1. /\ pc[h] = "sweep" /\ call[h].op = "release_all" /\ Swept(h) /\ i \in Nat
          /\ claims' = claims /\ count' = count /\ count \in Nat
      BY <1>1, <2>10, SizeAssumption DEF Sweep, Control, Call
    <3>2. CASE ~ (count <= Capacity /\ i < count)
      <4>1. pc'[h] = "unlock" /\ call' = call
        BY <2>10, <3>2, Zenon DEF Sweep, Goto
      <4>2. count <= Capacity => \A c \in Active' : c.proc_id # h
        <5> SUFFICES ASSUME count <= Capacity, NEW j \in 0 .. count - 1
                     PROVE  claims[j].proc_id # h
          BY <3>1, CapacityAssumption DEF Active, Scanned, ActiveClaims
        <5>1. j \in Slots /\ j < i
          BY <3>1, <3>2, CapacityAssumption DEF Slots
        <5> QED BY <3>1, <5>1, Zenon DEF Swept
      <4> QED BY <3>1, <4>1, <4>2, Zenon
    <3>3. CASE count <= Capacity /\ i < count /\ claims[i].proc_id = h
      <4>1. /\ pc'[h] = "dec" /\ call'[h].claim = claims[i] /\ call'[h].i = i
        BY <2>10, <3>3 DEF Sweep, Goto, Call
      <4> QED BY <3>1, <3>3, <4>1, Zenon DEF Swept
    <3>4. CASE count <= Capacity /\ i < count /\ claims[i].proc_id # h
      <4>1. pc'[h] = "sweep" /\ call'[h].i = i + 1
        BY <2>10, <3>1, <3>4, ZenonT(30) DEF Sweep, Call
      <4>2. Swept(h)'
        <5> SUFFICES ASSUME NEW j \in Slots, j < i + 1 PROVE claims[j].proc_id # h
          BY <3>1, <4>1, Zenon DEF Swept
        <5>1. j < i \/ j = i
          BY <3>1, SMTT(30) DEF Slots
        <5> QED BY <3>1, <3>4, <5>1, ZenonT(30) DEF Swept
      <4> QED BY <4>1, <4>2, Zenon
    <3> QED BY <3>2, <3>3, <3>4, ZenonT(30)
  <2>11. CASE Drain(h)
    <3>1. call'[h].op = "remove_all"
      BY <2>11 DEF Drain, Control, Call
    <3> QED BY <2>0, <3>1, ZenonT(30)
  <2>12. CASE LeaveRemove(h)
    <3>1. pc'[h] \notin Critical \cup {"lock"}
      BY <2>12, Zenon DEF LeaveRemove, Return, Goto, Critical
    <3> QED BY <2>0, <3>1, Zenon
  <2> HIDE DEF Place
  <2> QED BY <2>1, <2>2, <2>3, <2>4, <2>5, <2>6, <2>7, <2>8, <2>9, <2>10, <2>11, <2>12, ZenonT(30)
          DEF Act, Step
<1>4. \A g \in Handles : Place(g)'
  BY <1>2, <1>3, ZenonT(30)
<1> QED BY <1>4, Zenon DEF Sweeping

(***************************************************************************)
(* What holds of the array and of release_all's loop in every use.         *)
(***************************************************************************)
LEMMA ArrayInvariance == Spec => [](Names /\ Array /\ Sweeping)
<1>1. Init => Array /\ Sweeping
  <2> SUFFICES ASSUME Init PROVE Array /\ Sweeping
    BY Zenon
  <2>1. Sweeping
    BY Zenon DEF Init, Sweeping, NoCall
  <2>2. Blank /\ OneOwner
    BY Zenon DEF Init, Blank, OneOwner, ZeroClaim
  <2> QED BY <2>1, <2>2, Zenon DEF Init, Array
<1>2. Names /\ Array /\ Sweeping /\ [Next]_vars => Array' /\ Sweeping'
  <2> SUFFICES ASSUME Names, Array, Sweeping, [Next]_vars PROVE Array' /\ Sweeping'
    BY Zenon
  <2>1. CASE UNCHANGED vars
    <3>1. Array'
      BY <2>1, Zenon DEF vars, Array, OneOwner, Below, Blank, New
    <3>2. Sweeping'
      BY <2>1, Zenon DEF vars, Sweeping, Swept, Active, Scanned
    <3> QED BY <3>1, <3>2, Zenon
  <2> QED BY <2>1, SomeoneActs, ArrayStep, SweepingStep, Zenon
<1> QED BY <1>1, <1>2, NamesInit, NamesStep, PTL DEF Spec

(***************************************************************************)
(* In every use, release_all leaves the mutex with no active entry of its  *)
(* handle in the list, although claim_remove_from_list leaves duplicates   *)
(* behind and others have lost or doubled entries before.                  *)
(***************************************************************************)
THEOREM ReleaseAllLeavesNothing == Spec => []ReleaseAllComplete
<1>1. Names /\ Array /\ Sweeping => ReleaseAllComplete
  BY Zenon DEF Sweeping, ReleaseAllComplete
<1> QED BY <1>1, ArrayInvariance, PTL
=============================================================================
