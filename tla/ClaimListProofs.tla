-------------------------- MODULE ClaimListProofs --------------------------
(***************************************************************************)
(* Proofs about the ids and the counter of the claim list.  Entries get    *)
(* lost (the two memmoves are one element short), so little is true of the *)
(* list when claims are shared or nested.  What is proved here holds       *)
(* nevertheless: ids are never confused, and the counter never falls below *)
(* the claims that callers have.                                           *)
(***************************************************************************)
EXTENDS ClaimRegionsProofs, FiniteSetTheorems

Numbered(S) == {c \in S : c.claim_id # NoId}

\* The claim of a call that names a claim, once it has an id.
Named(h) == IF call[h].op \in {"claim", "release"} THEN Numbered({call[h].claim}) ELSE {}

\* Every claim with an id that h was given, asks for or gives back.
Owned(h) == Numbered(held[h]) \cup Named(h)

\* Where claim_region has taken an id.
Claiming == {"scan", "asleep", "woken", "wait_failed", "shift", "store", "bump", "added"}

Calls ==
    \A h \in Handles :
        /\ pc[h] \in Claiming => call[h].op = "claim" /\ call[h].claim.claim_id # NoId
        /\ call[h].op = "claim" => call[h].claim.proc_id = h

(***************************************************************************)
(* claim_counter++ under the mutex gives out every id once.                *)
(***************************************************************************)
Ids ==
    /\ \A h \in Handles : \A c \in Owned(h) :
          c.claim_id < claim_counter /\ c.proc_id = h
    /\ \A g, h \in Handles : \A c \in Owned(g), d \in Owned(h) :
          c.claim_id = d.claim_id => c = d

(***************************************************************************)
(* A claim without an id comes from a failed wait, after which the mutex   *)
(* cannot be taken any more.                                               *)
(***************************************************************************)
Poison ==
    /\ mutex.state = "unrecoverable" => mutex.owner = NoOwner
    /\ \A h \in Handles :
          /\ pc[h] = "wait_failed" =>
                \/ mutex.state = "unrecoverable"
                \/ mutex.state = "inconsistent" /\ mutex.owner = h
          /\ \A c \in held[h] : c.claim_id = NoId => mutex.state = "unrecoverable"
          /\ call[h].op = "release" /\ call[h].claim.claim_id = NoId
                => mutex.state = "unrecoverable"

(***************************************************************************)
(* The claims that count covers.                                           *)
(***************************************************************************)
Owed(h) ==
    IF ~ Live(h) THEN {}
    ELSE Numbered(held[h]) \cup
         {c \in Named(h) : \/ pc[h] = "added"
                           \/ call[h].op = "release" /\ pc[h] \in {"lock", "dec"}}
AllOwed == UNION {Owed(h) : h \in Handles}

Counted ==
    /\ count <= Capacity
    /\ IsFiniteSet(AllOwed) /\ Cardinality(AllOwed) <= count
    /\ \A h \in Handles :
          /\ call[h].op \notin {"release_all", "remove_all"}
          /\ call[h].op = "release" => call[h].claim \notin held[h]
          /\ pc[h] = "erase" => call[h].n <= Capacity

-----------------------------------------------------------------------------
(* Calls *)

(***************************************************************************)
(* claim_region goes through its steps with the claim it was asked for.    *)
(***************************************************************************)
LEMMA CallsStep ==
    ASSUME Inv, Calls, NEW h \in Handles, Act(h)
    PROVE  Calls'
<1>1. ASSUME NEW g \in Handles, g # h
      PROVE  /\ pc'[g] \in Claiming =>
                   call'[g].op = "claim" /\ call'[g].claim.claim_id # NoId
             /\ call'[g].op = "claim" => call'[g].claim.proc_id = g
  BY <1>1, Others DEF Calls, Claiming
<1> SUFFICES /\ pc'[h] \in Claiming =>
                   call'[h].op = "claim" /\ call'[h].claim.claim_id # NoId
             /\ call'[h].op = "claim" => call'[h].claim.proc_id = h
  BY <1>1, Zenon DEF Calls
<1> USE DEF Inv, TypeOK, Calls, Claiming
<1>2. CASE \E r \in Regions, a \in Modes : ClaimRegion(h, r, a)
  BY <1>2 DEF ClaimRegion, Enter, Goto, NoCall
<1>3. CASE GiveUp(h)
  <2>1. \E op, c : op # "claim" /\ Enter(h, op, c)
    BY <1>3, UseAssumption, Zenon DEF GiveUp, ReleaseRegion, ReleaseMany
  <2> QED BY <2>1 DEF Enter, Goto, NoCall
<1>4. CASE SpuriousWake(h) \/ Crash(h)
  BY <1>4 DEF SpuriousWake, Crash, Die, Goto, NoCall
<1>5. CASE Signal(h)
  BY <1>5, Zenon DEF Signal, NoCall
<1>6. CASE Lock(h)
  <2>1. call[h].claim \in Claim /\ call[h] \in Call
    BY Zenon DEF Call
  <2>2. CASE TakeId(h) /\ Goto(h, "scan") /\ call[h].op = "claim"
    BY <2>1, <2>2 DEF Goto, TakeId, NoId, Call, Claim
  <2> QED BY <1>6, <2>2 DEF Lock, Return, Goto, NoCall, Control, Removes, Call
<1>7. CASE Scan(h)
  BY <1>7 DEF Scan, Sleep, Die, Goto, NoCall
<1>8. CASE Relock(h) \/ WaitFailed(h) \/ Claimed(h)
  BY <1>8 DEF Relock, WaitFailed, Claimed, Return, Goto, NoCall
<1>9. CASE Shift(h) \/ Store(h) \/ Bump(h)
  BY <1>9 DEF Shift, Store, Bump, Goto, Call
<1>10. CASE Dec(h)
  BY <1>10 DEF Dec, Die, Goto, NoCall, Call
<1>11. CASE Erase(h)
  BY <1>11 DEF Erase, Die, Goto, NoCall, AfterRemove, Control, Removes
<1>12. CASE Sweep(h) \/ Drain(h) \/ LeaveRemove(h)
  BY <1>12 DEF Sweep, Drain, LeaveRemove, Return, Goto, NoCall, Control, Call
<1> QED BY <1>2, <1>3, <1>4, <1>5, <1>6, <1>7, <1>8, <1>9, <1>10, <1>11, <1>12, Zenon
        DEF Act, Step

-----------------------------------------------------------------------------
(* Claim ids *)

(***************************************************************************)
(* A claim is owned when its caller has it or a claim_region or            *)
(* release_region call is about it.                                        *)
(***************************************************************************)
LEMMA OwnedIff ==
    \A h \in Handles : \A c :
        c \in Owned(h) <=>
            /\ c.claim_id # NoId
            /\ c \in held[h] \/ (call[h].op \in {"claim", "release"} /\ c = call[h].claim)
BY Zenon DEF Owned, Named, Numbered

(***************************************************************************)
(* Only claim_region, when it has taken the mutex, adds to the claims of   *)
(* its handle, and the id of that one is the counter's.                    *)
(***************************************************************************)
LEMMA OwnedStep ==
    ASSUME Inv, Calls, NEW h \in Handles, Act(h)
    PROVE  \/ claim_counter' = claim_counter /\ Owned(h)' \subseteq Owned(h)
           \/ /\ claim_counter' = claim_counter + 1
              /\ \E c : /\ c.claim_id = claim_counter /\ c.proc_id = h
                        /\ Owned(h)' \subseteq Owned(h) \cup {c}
<1> USE DEF Inv, TypeOK
<1> DEFINE Keeps == claim_counter' = claim_counter /\ Owned(h)' \subseteq Owned(h)
<1>a. ASSUME claim_counter' = claim_counter, held'[h] \subseteq held[h],
             \/ call'[h].op \notin {"claim", "release"}
             \/ call'[h].claim.claim_id = NoId
             \/ call'[h].op = call[h].op /\ call'[h].claim = call[h].claim
      PROVE  Keeps
  BY <1>a, Zenon DEF Owned, Named, Numbered
<1> DEFINE Other == call'[h].op \notin {"claim", "release"}
           Same == call'[h].op = call[h].op /\ call'[h].claim = call[h].claim
<1>1. CASE \E r \in Regions, a \in Modes : ClaimRegion(h, r, a)
  <2>1. call'[h].claim.claim_id = NoId
    BY <1>1 DEF ClaimRegion, Enter, NoCall
  <2> QED BY <1>a, <1>1, <2>1, Zenon DEF ClaimRegion
<1>2. CASE \E c \in held[h] : ReleaseRegion(h, c)
  BY <1>2 DEF ReleaseRegion, Enter, NoCall, Owned, Named, Numbered
<1>3. CASE \E op \in Ops : ReleaseMany(h, op)
  <2>1. Other
    BY <1>3, UseAssumption DEF ReleaseMany, Enter, NoCall
  <2>2. claim_counter' = claim_counter /\ held'[h] \subseteq held[h]
    BY <1>3, Zenon DEF ReleaseMany
  <2> QED BY <1>a, <2>1, <2>2, Zenon
<1>4. CASE SpuriousWake(h) \/ Crash(h)
  <2>1. Same \/ Other
    BY <1>4 DEF SpuriousWake, Crash, Die, NoCall
  <2> QED BY <1>a, <1>4, <2>1, Zenon DEF SpuriousWake, Crash
<1>5. CASE Signal(h)
  <2>1. Other
    BY <1>5, Zenon DEF Signal, NoCall
  <2> QED BY <1>a, <1>5, <2>1, Zenon DEF Signal
<1>6. CASE Lock(h)
  <2>1. call[h].claim \in Claim /\ call[h] \in Call
    BY Zenon DEF Call
  <2>2. CASE TakeId(h) /\ call[h].op = "claim"
    <3> DEFINE c == [call[h].claim EXCEPT !.claim_id = claim_counter]
    <3>1. call'[h].claim = c /\ call'[h].op = "claim" /\ claim_counter' = claim_counter + 1
      BY <2>1, <2>2, Zenon DEF TakeId, Call
    <3>2. c.claim_id = claim_counter /\ c.proc_id = h
      BY <2>1, <2>2, Zenon DEF Claim, Calls
    <3> HIDE DEF c
    <3>3. Owned(h)' \subseteq Owned(h) \cup {c}
      BY <1>6, <3>1, Zenon DEF Owned, Named, Numbered, Lock
    <3> QED BY <3>1, <3>2, <3>3, Zenon
  <2>3. CASE ~ (TakeId(h) /\ call[h].op = "claim")
    <3>1. (Same \/ Other) /\ claim_counter' = claim_counter
      BY <1>6, <2>3 DEF Lock, Return, NoCall
    <3> QED BY <1>a, <1>6, <3>1, Zenon DEF Lock
  <2> QED BY <2>2, <2>3, Zenon
<1>7. CASE Scan(h)
  <2>1. Same \/ Other
    BY <1>7 DEF Scan, Sleep, Die, NoCall
  <2> QED BY <1>a, <1>7, <2>1, Zenon DEF Scan
<1>8. CASE Relock(h) \/ Store(h) \/ Bump(h) \/ LeaveRemove(h)
  <2>1. Same \/ Other
    BY <1>8 DEF Relock, Store, Bump, LeaveRemove, Return, NoCall
  <2> QED BY <1>a, <1>8, <2>1, Zenon DEF Relock, Store, Bump, LeaveRemove
<1>9. CASE Claimed(h)
  BY <1>9 DEF Claimed, Return, NoCall, Calls, Claiming, Owned, Named, Numbered
<1>10. CASE WaitFailed(h)
  <2>1. call[h].claim \in Claim
    BY Zenon DEF Call
  <2>2. [call[h].claim EXCEPT !.claim_id = NoId].claim_id = NoId
    BY <2>1, Zenon DEF Claim
  <2> QED BY <1>10, <2>2, ZenonT(30) DEF WaitFailed, Return, NoCall, Owned, Named, Numbered
<1>11. CASE Shift(h)
  <2>1. Same
    BY <1>11, Zenon DEF Shift, Call
  <2> QED BY <1>a, <1>11, <2>1, Zenon DEF Shift
<1>12. CASE Dec(h)
  <2>1. Same \/ Other
    BY <1>12 DEF Dec, Die, NoCall, Call
  <2> QED BY <1>a, <1>12, <2>1, Zenon DEF Dec
<1>13. CASE Erase(h)
  <2>1. Same \/ Other
    BY <1>13 DEF Erase, Die, NoCall
  <2> QED BY <1>a, <1>13, <2>1, Zenon DEF Erase
<1>14. CASE Sweep(h) \/ Drain(h)
  <2>1. Other
    BY <1>14 DEF Sweep, Drain, Control, Call
  <2> QED BY <1>a, <1>14, <2>1, Zenon DEF Sweep, Drain
<1> QED BY <1>1, <1>2, <1>3, <1>4, <1>5, <1>6, <1>7, <1>8, <1>9, <1>10, <1>11,
           <1>12, <1>13, <1>14, ZenonT(30) DEF Act, Step, GiveUp

(***************************************************************************)
(* No step gives an id to two claims.                                      *)
(***************************************************************************)
LEMMA IdsStep ==
    ASSUME Inv, Calls, Ids, NEW h \in Handles, Act(h)
    PROVE  Ids'
<1>1. \A g \in Handles : g # h => Owned(g)' = Owned(g)
  BY Others, Zenon DEF Owned, Named
<1>2. \A g \in Handles : \A c \in Owned(g) : c.claim_id < claim_counter
  BY Zenon DEF Ids
<1>3. claim_counter \in Nat /\ \A g \in Handles : \A c \in Owned(g) : c.claim_id \in Int
  BY DEF Ids, Inv, TypeOK, Owned, Named, Numbered, Claim, Call, NoId
<1>4. CASE claim_counter' = claim_counter /\ Owned(h)' \subseteq Owned(h)
  <2>1. \A g \in Handles : Owned(g)' \subseteq Owned(g)
    BY <1>1, <1>4, Zenon
  <2> QED BY <1>4, <2>1, Zenon DEF Ids
<1>5. ASSUME claim_counter' = claim_counter + 1,
             NEW c, c.claim_id = claim_counter, c.proc_id = h,
             Owned(h)' \subseteq Owned(h) \cup {c}
      PROVE  Ids'
  <2>1. \A g \in Handles : Owned(g)' \subseteq Owned(g) \cup {c}
    BY <1>1, <1>5, Zenon
  <2>2. \A g \in Handles : \A d \in Owned(g) : d.claim_id # c.claim_id
    BY <1>2, <1>3, <1>5
  <2>3. \A g \in Handles : \A d \in Owned(g)' : d.claim_id < claim_counter' /\ d.proc_id = g
    <3> SUFFICES ASSUME NEW g \in Handles, NEW d \in Owned(g)'
                 PROVE  d.claim_id < claim_counter' /\ d.proc_id = g
      BY Zenon
    <3>1. CASE d \in Owned(g)
      BY <1>3, <1>5, <3>1 DEF Ids
    <3>2. CASE d \notin Owned(g)
      <4>1. g = h /\ d = c
        BY <1>1, <1>5, <3>2, Zenon
      <4> QED BY <1>3, <1>5, <4>1
    <3> QED BY <3>1, <3>2, Zenon
  <2>4. \A f, g \in Handles : \A d \in Owned(f)', e \in Owned(g)' :
          d.claim_id = e.claim_id => d = e
    <3> SUFFICES ASSUME NEW f \in Handles, NEW g \in Handles, NEW d \in Owned(f)',
                        NEW e \in Owned(g)', d.claim_id = e.claim_id
                 PROVE  d = e
      BY Zenon
    <3>1. d \in Owned(f) \/ d = c
      BY <2>1, Zenon
    <3>2. e \in Owned(g) \/ e = c
      BY <2>1, Zenon
    <3>3. d \in Owned(f) /\ e \in Owned(g) => d = e
      BY Zenon DEF Ids
    <3> QED BY <2>2, <3>1, <3>2, <3>3, Zenon
  <2> QED BY <2>3, <2>4, Zenon DEF Ids
<1> QED BY <1>4, <1>5, OwnedStep, Zenon

-----------------------------------------------------------------------------
(* Failed waits *)

(***************************************************************************)
(* What a step can do to list_mutex.                                       *)
(***************************************************************************)
LEMMA MutexMoves ==
    ASSUME NEW h \in Handles, Act(h)
    PROVE  \/ mutex' \in {mutex, ipm_mutex_unlock(mutex, h), OwnerDies(mutex, h)}
           \/ /\ mutex.owner = NoOwner
              /\ mutex' \in {ipm_mutex_lock(mutex, h), RelockAfterWait(mutex, h)}
BY Zenon DEF Act, Step, GiveUp, ClaimRegion, ReleaseRegion, ReleaseMany, Lock, Scan, Sleep,
   Relock, WaitFailed, Claimed, Shift, Store, Bump, Dec, Erase, Sweep, Drain, LeaveRemove,
   Signal, SpuriousWake, Crash, Die, Unlock, LockReturns

(***************************************************************************)
(* Robust mutexes: an unrecoverable one stays as it is, with no owner, and *)
(* nobody takes a mutex from the handle that owns it.                      *)
(***************************************************************************)
LEMMA MutexStep ==
    ASSUME Inv, Poison, NEW h \in Handles, Act(h)
    PROVE  /\ mutex'.state = "unrecoverable" => mutex'.owner = NoOwner
           /\ mutex.state = "unrecoverable" => mutex' = mutex
           /\ \A g \in Handles : mutex.owner = g /\ g # h => mutex' = mutex
<1>1. mutex \in Mutex(Handles) /\ (mutex.state = "unrecoverable" => mutex.owner = NoOwner)
  BY Zenon DEF Inv, TypeOK, Poison
<1> USE HandleAssumption DEF Mutex, MutexState, pthread_mutex_unlock, pthread_mutex_lock
<1>2. CASE mutex' = mutex
  BY <1>1, <1>2, Zenon
<1>3. CASE mutex' = ipm_mutex_unlock(mutex, h)
  BY <1>1, <1>3, Zenon DEF ipm_mutex_unlock
<1>4. CASE mutex' = OwnerDies(mutex, h)
  BY <1>1, <1>4, Zenon DEF OwnerDies
<1>5. CASE mutex.owner = NoOwner /\ mutex' = ipm_mutex_lock(mutex, h)
  BY <1>1, <1>5, Zenon DEF ipm_mutex_lock, LockSucceeds
<1>6. CASE mutex.owner = NoOwner /\ mutex' = RelockAfterWait(mutex, h)
  BY <1>1, <1>6, Zenon DEF RelockAfterWait
<1> QED BY <1>2, <1>3, <1>4, <1>5, <1>6, MutexMoves, Zenon

(***************************************************************************)
(* Only a claim_region whose wait failed hands out a claim without an id,  *)
(* and it leaves the mutex unrecoverable.                                  *)
(***************************************************************************)
LEMMA PoisonStep ==
    ASSUME Inv, Poison, Calls, NEW h \in Handles, Act(h)
    PROVE  Poison'
<1> DEFINE Ruined == mutex.state = "unrecoverable"
           Waits(g) == pc[g] = "wait_failed" =>
                          Ruined \/ (mutex.state = "inconsistent" /\ mutex.owner = g)
           Holds(g) == \A c \in held[g] : c.claim_id = NoId => Ruined
           Gives(g) == call[g].op = "release" /\ call[g].claim.claim_id = NoId => Ruined
<1>1. Ruined => Ruined'
  BY MutexStep, Zenon
<1>2. \A g \in Handles : Waits(g) /\ Holds(g) /\ Gives(g)
  BY Zenon DEF Poison
<1>3. ASSUME NEW g \in Handles, g # h
      PROVE  Waits(g)' /\ Holds(g)' /\ Gives(g)'
  <2>1. call'[g] = call[g] /\ held'[g] = held[g]
        /\ (pc'[g] = "wait_failed" => pc[g] = "wait_failed")
    BY <1>3, Others, Zenon
  <2>2. Waits(g)'
    BY <1>1, <1>2, <1>3, <2>1, MutexStep, Zenon
  <2> QED BY <1>1, <1>2, <2>1, <2>2, Zenon
<1>4. Waits(h)' /\ Holds(h)' /\ Gives(h)'
  <2> USE DEF Inv, TypeOK
  <2> DEFINE Quiet == /\ held'[h] \subseteq held[h] /\ pc'[h] # "wait_failed"
                      /\ \/ call'[h].op # "release"
                         \/ call'[h].op = call[h].op /\ call'[h].claim = call[h].claim
  <2>0. ASSUME Quiet PROVE Waits(h)' /\ Holds(h)' /\ Gives(h)'
    BY <1>1, <1>2, <2>0, Zenon
  <2>1. CASE \E r \in Regions, a \in Modes : ClaimRegion(h, r, a)
    <3>1. Quiet
      BY <2>1 DEF ClaimRegion, Enter, Goto, NoCall
    <3> QED BY <2>0, <3>1, Zenon
  <2>2. CASE \E c \in held[h] : ReleaseRegion(h, c)
    <3>1. PICK c \in held[h] : ReleaseRegion(h, c)
      BY <2>2, Zenon
    <3>2. call'[h].claim = c /\ held'[h] \subseteq held[h] /\ pc'[h] = "lock"
      BY <3>1, Zenon DEF ReleaseRegion, Enter, Goto, NoCall
    <3> QED BY <1>1, <1>2, <3>2, Zenon
  <2>3. CASE \E op \in Ops : ReleaseMany(h, op)
    <3>1. Quiet
      BY <2>3, UseAssumption DEF ReleaseMany, Enter, Goto, NoCall
    <3> QED BY <2>0, <3>1, Zenon
  <2>4. CASE SpuriousWake(h) \/ Crash(h)
    <3>1. Quiet
      BY <2>4 DEF SpuriousWake, Crash, Die, Goto, NoCall
    <3> QED BY <2>0, <3>1, Zenon
  <2>5. CASE Signal(h)
    <3>1. Quiet
      BY <2>5, Zenon DEF Signal, NoCall
    <3> QED BY <2>0, <3>1, Zenon
  <2>6. CASE Lock(h)
    <3>1. CASE TakeId(h) /\ call[h].op = "claim" /\ Goto(h, "scan")
      <4>1. call'[h].op = "claim"
        BY <3>1, Zenon DEF TakeId, Call
      <4>2. Quiet
        BY <2>6, <3>1, <4>1, Zenon DEF Lock, Goto
      <4> QED BY <2>0, <4>2, Zenon
    <3>2. CASE Return(h) \/ UNCHANGED call
      <4>1. Quiet
        BY <2>6, <3>2 DEF Lock, Return, Goto, NoCall, Control, Removes, Call
      <4> QED BY <2>0, <4>1, Zenon
    <3> QED BY <2>6, <3>1, <3>2, Zenon DEF Lock
  <2>7. CASE Scan(h)
    <3>1. Quiet
      BY <2>7 DEF Scan, Sleep, Die, Goto, NoCall
    <3> QED BY <2>0, <3>1, Zenon
  <2>8. CASE Store(h) \/ Bump(h) \/ LeaveRemove(h)
    <3>1. Quiet
      BY <2>8 DEF Store, Bump, LeaveRemove, Return, Goto, NoCall
    <3> QED BY <2>0, <3>1, Zenon
  <2>9. CASE Relock(h)
    <3>1. pc'[h] \in {"scan", "wait_failed"} /\ call' = call /\ held' = held
      BY <2>9, Zenon DEF Relock, Goto
    <3>2. Waits(h)'
      BY <2>9, HandleAssumption, Zenon DEF Relock, Goto, LockReturns, RelockAfterWait,
         pthread_mutex_lock, WaitSucceeds, Mutex, MutexState
    <3> QED BY <1>1, <1>2, <3>1, <3>2, Zenon
  <2>10. CASE Claimed(h)
    <3>1. held'[h] = held[h] \cup {call[h].claim} /\ pc'[h] = "idle" /\ call'[h].op = "none"
      BY <2>10, Zenon DEF Claimed, Return, Goto, NoCall
    <3>2. call[h].claim.claim_id # NoId
      BY <2>10, Zenon DEF Calls, Claiming, Claimed
    <3> QED BY <1>1, <1>2, <3>1, <3>2, Zenon
  <2>11. CASE WaitFailed(h)
    <3>1. Ruined'
      BY <1>2, <2>11, HandleAssumption, Zenon
         DEF WaitFailed, Unlock, ipm_mutex_unlock, pthread_mutex_unlock, Mutex
    <3> QED BY <3>1, Zenon
  <2>12. CASE Shift(h)
    <3>1. Quiet
      BY <2>12, Zenon DEF Shift, Goto, Call
    <3> QED BY <2>0, <3>1, Zenon
  <2>13. CASE Dec(h)
    <3>1. Quiet
      BY <2>13 DEF Dec, Die, Goto, NoCall, Call
    <3> QED BY <2>0, <3>1, Zenon
  <2>14. CASE Erase(h)
    <3>1. Quiet
      BY <2>14 DEF Erase, Die, Goto, NoCall, AfterRemove, Control, Removes
    <3> QED BY <2>0, <3>1, Zenon
  <2>15. CASE Sweep(h) \/ Drain(h)
    <3>1. Quiet
      BY <2>15 DEF Sweep, Drain, Goto, Control, Call
    <3> QED BY <2>0, <3>1, Zenon
  <2> HIDE DEF Waits, Holds, Gives
  <2> QED BY <2>1, <2>2, <2>3, <2>4, <2>5, <2>6, <2>7, <2>8, <2>9, <2>10, <2>11,
             <2>12, <2>13, <2>14, <2>15, ZenonT(30) DEF Act, Step, GiveUp
<1> QED BY <1>3, <1>4, MutexStep, Zenon DEF Poison

(***************************************************************************)
(* What holds of claim ids in every use.                                   *)
(***************************************************************************)
Names == Inv /\ Calls /\ Ids /\ Poison

(***************************************************************************)
(* Every step of the library, its callers and the environment keeps it.    *)
(***************************************************************************)
LEMMA NamesStep == Names /\ [Next]_vars => Names'
<1> SUFFICES ASSUME Names, [Next]_vars PROVE Names'
  BY Zenon
<1>1. Inv'
  BY NextInv, Zenon DEF Names
<1>2. CASE UNCHANGED vars
  <2>1. Calls' /\ Poison'
    BY <1>2, Zenon DEF Names, vars, Calls, Poison
  <2>2. claim_counter' = claim_counter /\ \A h \in Handles : Owned(h)' = Owned(h)
    BY <1>2, Zenon DEF vars, Owned, Named
  <2>3. Ids'
    BY <2>2 DEF Names, Ids
  <2> QED BY <1>1, <2>1, <2>3, Zenon DEF Names
<1>3. ASSUME NEW h \in Handles, Act(h) PROVE Names'
  BY <1>1, <1>3, CallsStep, IdsStep, PoisonStep, Zenon DEF Names
<1> QED BY <1>2, <1>3, SomeoneActs, Zenon

(***************************************************************************)
(* It holds of the list that claim_list_init makes.                        *)
(***************************************************************************)
LEMMA NamesInit == Init => Names
<1> SUFFICES ASSUME Init PROVE Names
  BY Zenon
<1>1. Inv
  BY InitInv, Zenon
<1>2. Calls /\ Poison
  BY Zenon DEF Init, Calls, Poison, Claiming, NoCall, ipm_mutex_init
<1>3. \A h \in Handles : Owned(h) = {}
  BY Zenon DEF Init, Owned, Named, Numbered, NoCall
<1> QED BY <1>1, <1>2, <1>3, Zenon DEF Names, Ids

(***************************************************************************)
(* In every use, no two claims that callers have, ask for or give back     *)
(* have the same id: claim_counter is only touched under the mutex, which  *)
(* stays exclusive when owners die.                                        *)
(***************************************************************************)
THEOREM UniqueClaimIds == Spec => []IdsUnique
<1>1. Names => IdsUnique
  <2> SUFFICES ASSUME Names, NEW g \in Handles, NEW h \in Handles,
                      NEW c \in InPlay(g), NEW d \in InPlay(h), c.claim_id = d.claim_id
               PROVE  g = h /\ c = d
    BY Zenon DEF IdsUnique
  <2>1. c \in Owned(g) /\ d \in Owned(h)
    BY Zenon DEF InPlay, Granted, Owned, Named, Numbered
  <2> QED BY <2>1 DEF Names, Ids
<1> QED BY <1>1, NamesInit, NamesStep, PTL DEF Spec

-----------------------------------------------------------------------------
(* The counter, when callers use claim_region and release_region only *)

(***************************************************************************)
(* A claim is owed when a live caller has it, is about to be given it, or  *)
(* has asked release_region for a removal that count does not show yet.    *)
(***************************************************************************)
LEMMA OwedIff ==
    \A h \in Handles : \A c :
        c \in Owed(h) <=>
            /\ Live(h) /\ c.claim_id # NoId
            /\ \/ c \in held[h]
               \/ /\ call[h].op \in {"claim", "release"} /\ c = call[h].claim
                  /\ \/ pc[h] = "added"
                     \/ call[h].op = "release" /\ pc[h] \in {"lock", "dec"}
BY Zenon DEF Owed, Named, Numbered

(***************************************************************************)
(* Nobody's step changes what is owed to another handle.                   *)
(***************************************************************************)
LEMMA OwedOthers ==
    ASSUME Inv, Calls, NEW h \in Handles, Act(h), NEW g \in Handles, g # h
    PROVE  Owed(g)' = Owed(g)
<1>1. call'[g] = call[g] /\ held'[g] = held[g]
  BY Others, Zenon
<1>2. CASE pc'[g] = pc[g]
  BY <1>1, <1>2, Zenon DEF Owed, Named, Live
<1>3. CASE pc[g] = "asleep" /\ pc'[g] = "woken"
  <2>1. call[g].op = "claim"
    BY <1>3, Zenon DEF Calls, Claiming
  <2> QED BY <1>1, <1>3, <2>1, Zenon DEF Owed, Named, Live
<1> QED BY <1>2, <1>3, Others, Zenon

(***************************************************************************)
(* Only Bump adds to what is owed to the handle that takes the step.       *)
(***************************************************************************)
LEMMA OwedKept ==
    ASSUME Names, Ops = {}, NEW h \in Handles, Act(h), ~ Bump(h), ~ Dec(h)
    PROVE  Owed(h)' \subseteq Owed(h) /\ count' = count
<1> USE DEF Names, Inv, TypeOK, list
<1>1. ASSUME NEW r \in Regions, NEW a \in Modes, ClaimRegion(h, r, a)
      PROVE  Owed(h)' \subseteq Owed(h) /\ count' = count
  <2>1. call'[h].claim.claim_id = NoId /\ held' = held /\ pc[h] = "idle" /\ count' = count
    BY <1>1, Zenon DEF ClaimRegion, Enter, NoCall
  <2> QED BY <2>1, Zenon DEF Owed, Named, Numbered, Live
<1>2. ASSUME NEW c \in held[h], ReleaseRegion(h, c)
      PROVE  Owed(h)' \subseteq Owed(h) /\ count' = count
  <2>1. call'[h].claim = c /\ held'[h] = held[h] \ {c} /\ pc[h] = "idle" /\ count' = count
    BY <1>2, Zenon DEF ReleaseRegion, Enter, NoCall
  <2> QED BY <2>1, Zenon DEF Owed, Named, Numbered, Live
<1>3. ~ (\E op \in Ops : ReleaseMany(h, op))
  BY Zenon
<1>4. CASE SpuriousWake(h)
  <2>1. call[h].op = "claim" /\ call' = call /\ held' = held /\ pc[h] = "asleep"
        /\ pc'[h] = "woken" /\ count' = count
    BY <1>4, Zenon DEF SpuriousWake, Goto, Calls, Claiming
  <2> QED BY <2>1, Zenon DEF Owed, Named, Numbered, Live
<1>5. CASE Crash(h)
  BY <1>5, Zenon DEF Crash, Die, Goto, Owed, Live
<1>6. CASE Signal(h)
  <2>1. call'[h].op = "none" /\ held' = held /\ pc[h] = "signal" /\ count' = count
    BY <1>6, Zenon DEF Signal, NoCall
  <2> QED BY <2>1, Zenon DEF Owed, Named, Numbered, Live
<1>7. CASE Lock(h)
  <2>1. held' = held /\ pc[h] = "lock" /\ count' = count
    BY <1>7, Zenon DEF Lock
  <2>2. \/ call'[h].op = "none"
        \/ pc'[h] = "scan" /\ call'[h].op = "claim"
        \/ call' = call /\ pc'[h] # "added"
    BY <1>7 DEF Lock, Return, Goto, NoCall, TakeId, Control, Removes, Call
  <2> QED BY <2>1, <2>2, Zenon DEF Owed, Named, Numbered, Live
<1>8. CASE Scan(h)
  <2>1. held' = held /\ pc[h] = "scan" /\ count' = count /\ call[h].op = "claim"
    BY <1>8, Zenon DEF Scan, Calls, Claiming
  <2>2. pc'[h] = "fault" \/ (call' = call /\ pc'[h] \in {"asleep", "shift"})
    BY <1>8, Zenon DEF Scan, Sleep, Die, Goto
  <2> QED BY <2>1, <2>2, Zenon DEF Owed, Named, Numbered, Live
<1>9. CASE Relock(h) \/ Store(h)
  <2>1. /\ held' = held /\ pc[h] \in {"woken", "store"} /\ count' = count
        /\ call[h].op = "claim" /\ call' = call /\ pc'[h] \in {"scan", "wait_failed", "bump"}
    BY <1>9, Zenon DEF Relock, Store, Goto, Calls, Claiming
  <2> QED BY <2>1, Zenon DEF Owed, Named, Numbered, Live
<1>10. CASE Shift(h)
  <2>1. /\ held' = held /\ pc[h] = "shift" /\ count' = count
        /\ call'[h].op = "claim" /\ pc'[h] = "store"
    BY <1>10 DEF Shift, Goto, Calls, Claiming, Call
  <2> QED BY <2>1, Zenon DEF Owed, Named, Numbered, Live
<1>11. CASE WaitFailed(h)
  <2>1. call[h].claim \in Claim
    BY Zenon DEF Call
  <2>2. [call[h].claim EXCEPT !.claim_id = NoId].claim_id = NoId
    BY <2>1, Zenon DEF Claim
  <2> DEFINE c == [call[h].claim EXCEPT !.claim_id = NoId]
  <2>3. held'[h] = held[h] \cup {c} /\ call'[h].op = "none" /\ count' = count
        /\ pc[h] = "wait_failed"
    BY <1>11, Zenon DEF WaitFailed, Return, NoCall
  <2> HIDE DEF c
  <2>4. c.claim_id = NoId
    BY <2>2, Zenon DEF c
  <2> QED BY <2>3, <2>4, Zenon DEF Owed, Named, Numbered, Live
<1>12. CASE Claimed(h)
  <2>1. held'[h] = held[h] \cup {call[h].claim} /\ call'[h].op = "none" /\ count' = count
        /\ pc[h] = "added" /\ call[h].op = "claim"
    BY <1>12, Zenon DEF Claimed, Return, NoCall, Calls, Claiming
  <2> QED BY <2>1, Zenon DEF Owed, Named, Numbered, Live
<1>13. CASE Erase(h)
  <2>1. held' = held /\ count' = count /\ pc[h] = "erase"
    BY <1>13, Zenon DEF Erase
  <2>2. pc'[h] = "fault" \/ (call' = call /\ pc'[h] \in {"unlock", "sweep", "drain"})
    BY <1>13, ZenonT(30) DEF Erase, Die, Goto, AfterRemove, Control, Removes
  <2> QED BY <2>1, <2>2, Zenon DEF Owed, Named, Numbered, Live
<1>14. CASE Sweep(h) \/ Drain(h)
  <2>1. /\ held' = held /\ count' = count /\ pc[h] \in {"sweep", "drain"}
        /\ call'[h].op \notin {"claim", "release"}
    BY <1>14 DEF Sweep, Drain, Control, Call
  <2> QED BY <2>1, Zenon DEF Owed, Named, Numbered, Live
<1>15. CASE LeaveRemove(h)
  <2>1. /\ held' = held /\ count' = count /\ pc[h] = "unlock"
        /\ pc'[h] \in {"signal", "idle"}
    BY <1>15, Zenon DEF LeaveRemove, Return, Goto
  <2> QED BY <2>1, Zenon DEF Owed, Named, Numbered, Live
<1> QED BY <1>1, <1>2, <1>3, <1>4, <1>5, <1>6, <1>7, <1>8, <1>9, <1>10, <1>11, <1>12,
           <1>13, <1>14, <1>15, ZenonT(30) DEF Act, Step, GiveUp

(***************************************************************************)
(* What release_region is about to remove is counted, so count is not 0.   *)
(***************************************************************************)
LEMMA RemovedIsOwed ==
    ASSUME Names, Counted, NEW h \in Handles, pc[h] = "dec"
    PROVE  /\ call[h].op = "release" /\ call[h].claim \in Owed(h)
           /\ \A g \in Handles : g # h => call[h].claim \notin Owed(g)
           /\ count \in 1 .. Capacity
<1>1. call[h].op = "release" /\ mutex.state = "consistent"
  BY Zenon DEF Names, Inv, Control, Critical, Removes, Counted
<1>2. call[h].claim.claim_id # NoId
  BY <1>1, Zenon DEF Names, Poison
<1>3. call[h].claim \in Owed(h)
  BY <1>1, <1>2, OwedIff, Zenon DEF Live
<1>4. \A g \in Handles : Owed(g) \subseteq Owned(g)
  BY Zenon DEF Owed, Owned
<1>5. \A g \in Handles : g # h => call[h].claim \notin Owed(g)
  BY <1>3, <1>4 DEF Names, Ids
<1>6. AllOwed # {}
  BY <1>3, Zenon DEF AllOwed
<1>7. Cardinality(AllOwed) # 0 /\ Cardinality(AllOwed) \in Nat
  BY <1>6, FS_EmptySet, FS_CardinalityType, Zenon DEF Counted
<1> QED BY <1>1, <1>3, <1>5, <1>7, CapacityAssumption DEF Counted, Names, Inv, TypeOK

(***************************************************************************)
(* The counter keeps covering what is owed.                                *)
(***************************************************************************)
LEMMA CardinalityStep ==
    ASSUME Names, Counted, Ops = {}, NEW h \in Handles, Act(h)
    PROVE  IsFiniteSet(AllOwed') /\ Cardinality(AllOwed') <= count' /\ count' <= Capacity
<1> USE DEF Names, Inv, TypeOK
<1>1. \A g \in Handles : g # h => Owed(g)' = Owed(g)
  BY OwedOthers, Zenon
<1>2. /\ IsFiniteSet(AllOwed) /\ Cardinality(AllOwed) <= count /\ count <= Capacity
      /\ Cardinality(AllOwed) \in Nat /\ count \in Nat
  BY FS_CardinalityType, SizeAssumption DEF Counted
<1>3. CASE ~ Bump(h) /\ ~ Dec(h)
  <2>1. Owed(h)' \subseteq Owed(h) /\ count' = count
    BY <1>3, OwedKept, Zenon
  <2>2. AllOwed' \subseteq AllOwed
    BY <1>1, <2>1, Zenon DEF AllOwed
  <2>3. IsFiniteSet(AllOwed') /\ Cardinality(AllOwed') <= Cardinality(AllOwed)
    BY <1>2, <2>2, FS_Subset, Zenon
  <2>4. Cardinality(AllOwed') \in Nat
    BY <2>3, FS_CardinalityType, Zenon
  <2> QED BY <1>2, <2>1, <2>3, <2>4
<1>4. CASE Bump(h)
  <2> DEFINE c == call[h].claim
  <2>1. /\ held' = held /\ call' = call /\ pc[h] = "bump" /\ pc'[h] = "added"
        /\ count' = count + 1 /\ count < Capacity
    BY <1>4, Zenon DEF Bump, Goto, Control
  <2>2. Owed(h)' \subseteq Owed(h) \cup {c}
    BY <2>1, Zenon DEF Owed, Named, Numbered, Live
  <2> HIDE DEF c
  <2>3. AllOwed' \subseteq AllOwed \cup {c}
    BY <1>1, <2>2, Zenon DEF AllOwed
  <2>4. /\ IsFiniteSet(AllOwed \cup {c})
        /\ \/ Cardinality(AllOwed \cup {c}) = Cardinality(AllOwed)
           \/ Cardinality(AllOwed \cup {c}) = Cardinality(AllOwed) + 1
    BY <1>2, FS_AddElement, Zenon
  <2>5. IsFiniteSet(AllOwed') /\ Cardinality(AllOwed') <= Cardinality(AllOwed \cup {c})
    BY <2>3, <2>4, FS_Subset, Zenon
  <2>6. Cardinality(AllOwed') \in Nat
    BY <2>5, FS_CardinalityType, Zenon
  <2> QED BY <1>2, <2>1, <2>4, <2>5, <2>6, CapacityAssumption
<1>5. CASE Dec(h)
  <2> DEFINE c == call[h].claim
  <2>1. /\ call[h].op = "release" /\ c \in Owed(h) /\ count \in 1 .. Capacity
        /\ \A g \in Handles : g # h => c \notin Owed(g)
    BY <1>5, RemovedIsOwed, Zenon DEF Dec
  <2>2. c \notin held[h]
    BY <2>1, Zenon DEF Counted
  <2>3. held' = held /\ pc[h] = "dec" /\ pc'[h] \in {"fault", "unlock", "erase"}
        /\ count' = count - 1
    BY <1>5, <2>1 DEF Dec, Die, Goto, SizeDec
  <2>4. Owed(h)' \subseteq Numbered(held[h])
    BY <2>3, Zenon DEF Owed
  <2>5. Numbered(held[h]) \subseteq Owed(h) /\ c \notin Numbered(held[h])
    BY <2>2, <2>3, Zenon DEF Owed, Numbered, Live
  <2> HIDE DEF c
  <2>6. AllOwed' \subseteq AllOwed \ {c} /\ c \in AllOwed
    BY <1>1, <2>1, <2>4, <2>5, Zenon DEF AllOwed
  <2>7. /\ IsFiniteSet(AllOwed \ {c})
        /\ Cardinality(AllOwed \ {c}) = Cardinality(AllOwed) - 1
    BY <1>2, <2>6, FS_RemoveElement, Zenon
  <2>8. IsFiniteSet(AllOwed') /\ Cardinality(AllOwed') <= Cardinality(AllOwed \ {c})
    BY <2>6, <2>7, FS_Subset, Zenon
  <2>9. Cardinality(AllOwed') \in Nat
    BY <2>8, FS_CardinalityType, Zenon
  <2> QED BY <1>2, <2>1, <2>3, <2>7, <2>8, <2>9, CapacityAssumption
<1> QED BY <1>3, <1>4, <1>5, Zenon

(***************************************************************************)
(* A claim that is being released is no longer held, and what              *)
(* claim_remove_from_list read from count was within the array.            *)
(***************************************************************************)
LEMMA CountedStep ==
    ASSUME Names, Counted, Ops = {}, NEW h \in Handles, Act(h)
    PROVE  Counted'
<1> DEFINE Single(g) == /\ call[g].op \notin {"release_all", "remove_all"}
                        /\ call[g].op = "release" => call[g].claim \notin held[g]
                        /\ pc[g] = "erase" => call[g].n <= Capacity
<1>1. \A g \in Handles : Single(g)
  BY Zenon DEF Counted
<1>2. \A g \in Handles : g # h => Single(g)'
  BY <1>1, Others DEF Names
<1>3. Single(h)'
  <2> USE DEF Names, Inv, TypeOK
  <2> DEFINE Quiet == /\ held' = held /\ pc'[h] # "erase"
                      /\ call'[h].op = call[h].op /\ call'[h].claim = call[h].claim
             Over == call'[h].op = "none" /\ pc'[h] # "erase"
  <2>0. ASSUME Quiet \/ Over PROVE Single(h)'
    BY <1>1, <2>0, Zenon
  <2>1. CASE \E r \in Regions, a \in Modes : ClaimRegion(h, r, a)
    BY <2>1 DEF ClaimRegion, Enter, Goto, NoCall
  <2>2. ASSUME NEW c \in held[h], ReleaseRegion(h, c)
        PROVE  Single(h)'
    <3>1. /\ call'[h].claim = c /\ call'[h].op = "release" /\ pc'[h] = "lock"
          /\ held'[h] = held[h] \ {c}
      BY <2>2, Zenon DEF ReleaseRegion, Enter, Goto, NoCall
    <3> QED BY <3>1, Zenon
  <2>3. ~ (\E op \in Ops : ReleaseMany(h, op))
    BY Zenon
  <2>4. CASE SpuriousWake(h) \/ Crash(h)
    <3>1. Quiet \/ Over
      BY <2>4, SMTT(30) DEF SpuriousWake, Crash, Die, Goto, NoCall
    <3> QED BY <2>0, <3>1, Zenon
  <2>5. CASE Signal(h)
    <3>1. Over
      BY <2>5, Zenon DEF Signal, NoCall
    <3> QED BY <2>0, <3>1, Zenon
  <2>6. CASE Lock(h)
    <3>1. CASE TakeId(h) /\ call[h].op = "claim" /\ Goto(h, "scan")
      <4>1. call'[h].op = "claim" /\ pc'[h] = "scan"
        BY <3>1, Zenon DEF TakeId, Goto, Call
      <4> QED BY <4>1, Zenon
    <3>2. CASE Return(h)
      <4>1. Over
        BY <3>2, Zenon DEF Return, Goto, NoCall
      <4> QED BY <2>0, <4>1, Zenon
    <3>3. CASE UNCHANGED call /\ LockSucceeds(mutex) /\ call[h].op # "claim"
      <4>1. pc'[h] # "erase" /\ held' = held
        BY <2>6, <3>3, Zenon DEF Lock, Return, Goto, Control, Removes, Call
      <4> QED BY <2>0, <3>3, <4>1, Zenon
    <3> QED BY <2>6, <3>1, <3>2, <3>3, Zenon DEF Lock
  <2>7. CASE Scan(h)
    <3>1. Quiet \/ Over
      BY <2>7 DEF Scan, Sleep, Die, Goto, NoCall
    <3> QED BY <2>0, <3>1, Zenon
  <2>8. CASE Relock(h) \/ Store(h) \/ Bump(h)
    <3>1. Quiet
      BY <2>8, Zenon DEF Relock, Store, Bump, Goto
    <3> QED BY <2>0, <3>1, Zenon
  <2>9. CASE WaitFailed(h) \/ Claimed(h)
    <3>1. Over
      BY <2>9 DEF WaitFailed, Claimed, Return, Goto, NoCall
    <3> QED BY <2>0, <3>1, Zenon
  <2>10. CASE Shift(h)
    <3>1. Quiet
      BY <2>10, Zenon DEF Shift, Goto, Call
    <3> QED BY <2>0, <3>1, Zenon
  <2>11. CASE Dec(h)
    <3>1. pc[h] = "dec" /\ held' = held /\ count <= Capacity
      BY <2>11, Zenon DEF Dec, Counted
    <3>2. CASE pc'[h] = "erase" /\ call' = [call EXCEPT ![h].n = count]
      <4>1. /\ call'[h].op = call[h].op /\ call'[h].claim = call[h].claim
            /\ call'[h].n = count
        BY <3>2, Zenon DEF Call
      <4> QED BY <1>1, <3>1, <4>1, Zenon
    <3>3. CASE pc'[h] = "unlock" /\ call' = [call EXCEPT ![h].op = "none"]
      <4>1. Over
        BY <3>3, Zenon DEF Call
      <4> QED BY <2>0, <4>1, Zenon
    <3>4. CASE Die(h, "fault")
      <4>1. Over
        BY <3>4, Zenon DEF Die, Goto, NoCall
      <4> QED BY <2>0, <4>1, Zenon
    <3> QED BY <2>11, <3>2, <3>3, <3>4, Zenon DEF Dec, Goto
  <2>12. CASE Erase(h)
    <3>1. Quiet \/ Over
      BY <2>12 DEF Erase, Die, Goto, NoCall, AfterRemove, Control, Removes
    <3> QED BY <2>0, <3>1, Zenon
  <2>13. ~ Sweep(h) /\ ~ Drain(h)
    BY <1>1, Zenon DEF Sweep, Drain, Control
  <2>14. CASE LeaveRemove(h)
    <3>1. Quiet \/ Over
      BY <2>14 DEF LeaveRemove, Return, Goto, NoCall
    <3> QED BY <2>0, <3>1, Zenon
  <2> HIDE DEF Single
  <2> QED BY <2>1, <2>2, <2>3, <2>4, <2>5, <2>6, <2>7, <2>8, <2>9, <2>10, <2>11,
             <2>12, <2>13, <2>14, ZenonT(30) DEF Act, Step, GiveUp
<1>4. \A g \in Handles : Single(g)'
  BY <1>2, <1>3, Zenon
<1> QED BY <1>4, CardinalityStep, Zenon DEF Counted

(***************************************************************************)
(* The counter's invariant holds as long as only claim_region and          *)
(* release_region are called.                                              *)
(***************************************************************************)
LEMMA CountedInvariance ==
    ASSUME Ops = {}
    PROVE  Spec => [](Names /\ Counted)
<1>1. Init => Counted
  <2> SUFFICES ASSUME Init PROVE Counted
    BY Zenon
  <2>1. AllOwed = {}
    BY Zenon DEF Init, AllOwed, Owed, Named, Numbered, NoCall
  <2> QED BY <2>1, FS_EmptySet, CapacityAssumption DEF Init, Counted, NoCall
<1>2. Names /\ Counted /\ [Next]_vars => Counted'
  <2> SUFFICES ASSUME Names, Counted, [Next]_vars PROVE Counted'
    BY Zenon
  <2>1. CASE UNCHANGED vars
    <3>1. AllOwed' = AllOwed
      BY <2>1 DEF vars, AllOwed, Owed, Named, Live
    <3> QED BY <2>1, <3>1, Zenon DEF vars, Counted
  <2> QED BY <2>1, SomeoneActs, CountedStep, Zenon
<1> QED BY <1>1, <1>2, NamesInit, NamesStep, PTL DEF Spec

(***************************************************************************)
(* Callers of claim_region and release_region, any number of them and in   *)
(* any mixture of modes, regions, nesting, crashes and lost entries, never *)
(* drive list->count below the number of claims that live callers have.    *)
(***************************************************************************)
THEOREM CounterCoversHolders ==
    ASSUME Ops = {}
    PROVE  Spec => []CountCoversHolders
<1>1. Names /\ Counted => CountCoversHolders
  <2> SUFFICES ASSUME Names, Counted PROVE CountCoversHolders
    BY Zenon
  <2> DEFINE G == UNION {Granted(h) : h \in Handles}
  <2>1. \A h \in Handles : Granted(h) \subseteq Owed(h)
    BY Zenon DEF Granted, Owed, Numbered
  <2>2. G \subseteq AllOwed
    BY <2>1, Zenon DEF AllOwed
  <2> HIDE DEF G
  <2>3. IsFiniteSet(G) /\ Cardinality(G) <= Cardinality(AllOwed)
    BY <2>2, FS_Subset, Zenon DEF Counted
  <2>4. Cardinality(G) \in Nat /\ Cardinality(AllOwed) \in Nat /\ count \in Nat
    BY <2>3, FS_CardinalityType, SizeAssumption DEF Counted, Names, Inv, TypeOK
  <2>5. count >= Cardinality(G)
    BY <2>3, <2>4 DEF Counted
  <2> QED BY <2>5, Zenon DEF G, CountCoversHolders
<1> QED BY <1>1, CountedInvariance, PTL

(***************************************************************************)
(* Under the same callers claim_remove_from_list kills its caller only in  *)
(* a full list or for a claim whose entry was lost: neither its search nor *)
(* claim_region's scan ever runs on a count that underflowed.              *)
(***************************************************************************)
THEOREM FaultsExplained ==
    ASSUME Ops = {}
    PROVE  Spec => FaultCauses
<1> DEFINE Cause(h) ==
      pc[h] # "fault" /\ pc'[h] = "fault" =>
          \/ pc[h] = "dec" /\ count = Capacity
          \/ pc[h] = "erase" /\ call[h].claim \notin ActiveClaims(claims, call[h].n)
<1>1. ASSUME Names, Counted, NEW h \in Handles, Act(h), NEW g \in Handles
      PROVE  Cause(g)
  <2> USE DEF Names, Inv, TypeOK
  <2>1. CASE g # h
    BY <1>1, <2>1, Others, Zenon
  <2>2. CASE pc[h] # "fault" /\ pc'[h] = "fault" /\ g = h
    <3>1. (Scan(h) /\ Die(h, "fault")) \/ Dec(h) \/ Erase(h)
      <4>1. ASSUME NEW r \in Regions, NEW a \in Modes PROVE ~ ClaimRegion(h, r, a)
        BY <1>1, <2>2, Zenon DEF ClaimRegion, Enter, Goto
      <4>2. ~ GiveUp(h)
        BY <1>1, <2>2, Zenon DEF GiveUp, ReleaseRegion, ReleaseMany, Enter, Goto
      <4>3. ~ SpuriousWake(h) /\ ~ Crash(h) /\ ~ Signal(h)
        BY <1>1, <2>2, Zenon DEF SpuriousWake, Crash, Signal, Die, Goto
      <4>4. ~ Lock(h)
        BY <1>1, <2>2 DEF Lock, Return, Goto, Control, Removes, Call
      <4>5. ~ (Relock(h) \/ WaitFailed(h) \/ Claimed(h) \/ Shift(h) \/ Store(h) \/ Bump(h))
        BY <1>1, <2>2, Zenon DEF Relock, WaitFailed, Claimed, Shift, Store, Bump, Return, Goto
      <4>6. ~ (Sweep(h) \/ Drain(h) \/ LeaveRemove(h))
        BY <1>1, <2>2, Zenon DEF Sweep, Drain, LeaveRemove, Return, Goto
      <4>7. Scan(h) => Die(h, "fault")
        BY <1>1, <2>2, Zenon DEF Scan, Sleep, Goto
      <4> QED BY <1>1, <4>1, <4>2, <4>3, <4>4, <4>5, <4>6, <4>7, Zenon DEF Act, Step
    <3>2. CASE Scan(h) /\ Die(h, "fault")
      <4>1. ~ (count > Capacity)
        BY <1>1, CapacityAssumption, SizeAssumption DEF Counted
      <4> QED BY <1>1, <2>2, <3>2, <4>1, Zenon DEF Scan, Sleep, Goto
    <3>3. CASE Dec(h)
      <4>1. count \in 1 .. Capacity /\ pc[h] = "dec"
        BY <1>1, <3>3, RemovedIsOwed, Zenon DEF Dec
      <4>2. count > 0 /\ (count < Capacity \/ count = Capacity)
        BY <4>1, CapacityAssumption
      <4> QED BY <1>1, <2>2, <3>3, <4>1, <4>2, Zenon DEF Dec, Die, Goto
    <3>4. CASE Erase(h)
      <4> DEFINE n == call[h].n
                 c == call[h].claim
      <4>1. pc[h] = "erase" /\ n \in Nat /\ n <= Capacity
        BY <1>1, <3>4, SizeAssumption DEF Erase, Counted, Call
      <4>2. EraseFaults(n, ErasePos(h))
        BY <1>1, <2>2, <3>4, Zenon DEF Erase, Goto, AfterRemove, Control, Removes
      <4>3. ~ (n > Capacity)
        BY <4>1, CapacityAssumption
      <4>4. FindPos(claims, n, c.claim_id) = n
        BY <4>2, <4>3, Zenon DEF EraseFaults, ErasePos
      <4> HIDE DEF n, c
      <4>5. \A q \in 0 .. n - 1 : claims[q].claim_id # c.claim_id
        BY <4>1, <4>4, FindPosFound
      <4>6. c \notin ActiveClaims(claims, n)
        BY <4>5, Zenon DEF ActiveClaims
      <4> QED BY <1>1, <2>2, <4>1, <4>6, Zenon DEF n, c
    <3> QED BY <3>1, <3>2, <3>3, <3>4, Zenon
  <2> QED BY <2>1, <2>2
<1>2. Names /\ Counted /\ [Next]_vars => [\A h \in Handles : Cause(h)]_vars
  BY <1>1, SomeoneActs, Zenon
<1> QED BY <1>2, CountedInvariance, PTL DEF Spec, FaultCauses
=============================================================================
