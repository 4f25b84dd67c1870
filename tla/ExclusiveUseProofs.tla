------------------------- MODULE ExclusiveUseProofs -------------------------
(***************************************************************************)
(* The use of claims that the code serves correctly: every claim is for    *)
(* writing, a handle has one claim at a time, claims are given up with     *)
(* release_region, release_all or close, and no region wraps around.  For  *)
(* this use the claims exclude each other, stay listed and never fault,    *)
(* for every number of handles and of crashes.                             *)
(***************************************************************************)
EXTENDS ClaimRegionsProofs

ExclusiveUse ==
    /\ Modes = {READ_WRITE} /\ ~ Nested /\ Ops \subseteq {"release_all"}
    /\ \A r \in Regions : r.offset + r.size <= SIZE_MAX

Usable == mutex.state # "unrecoverable"

\* A claim that conflicts with every claim for writing of another handle.
Writer(c) ==
    /\ c.access = READ_WRITE
    /\ c.offset \in Nat /\ c.size \in Nat /\ c.size > 0
    /\ c.offset + c.size <= SIZE_MAX

\* The claim in slot 0 is the only one.
Only(c) == count = 1 /\ claims[0] = c

(***************************************************************************)
(* What a handle's place in its call says about slot 0.                    *)
(***************************************************************************)
Adding(h) ==
    /\ call[h].op = "claim" => Writer(call[h].claim) /\ call[h].claim.proc_id = h
    /\ pc[h] \in {"scan", "asleep", "woken", "wait_failed",
                  "shift", "store", "bump", "added"} =>
           call[h].op = "claim" /\ call[h].claim.claim_id # NoId
    /\ pc[h] \in {"shift", "store", "bump"} => count = 0
    /\ pc[h] = "store" => call[h].i = 0
    /\ pc[h] = "bump" => claims[0] = call[h].claim
    /\ pc[h] = "added" => Only(call[h].claim)
    /\ pc[h] = "wait_failed" =>
           \/ mutex.owner = h /\ mutex.state = "inconsistent"
           \/ mutex.state = "unrecoverable"

Removing(h) ==
    /\ pc[h] = "lock" => call[h].i = 0
    /\ pc[h] \in {"lock", "dec"} /\ call[h].op = "release" /\ Usable =>
           Only(call[h].claim) /\ call[h].claim.proc_id = h
    /\ pc[h] = "sweep" /\ count = 1 /\ call[h].i # 0 => claims[0].proc_id # h
    /\ pc[h] = "dec" /\ call[h].op = "release_all" =>
           Only(call[h].claim) /\ call[h].claim.proc_id = h
    /\ pc[h] = "erase" => call[h].n = 1 /\ count = 0 /\ claims[0] = call[h].claim
    /\ call[h].op # "remove_all"

Holding(h) ==
    /\ pc[h] # "fault"
    /\ call[h].op # "none" => held[h] = {}
    /\ \A c, d \in held[h] : c = d
    /\ \A c \in held[h] : c.claim_id # NoId => Only(c) /\ c.proc_id = h
    /\ \A c \in held[h] : c.claim_id = NoId => ~ Usable

\* A live handle whose claim is listed has it, or is about to remove it.
Accounted(h) ==
    Live(h) /\ Usable /\ count = 1 /\ claims[0].proc_id = h =>
        \/ claims[0] \in held[h]
        \/ pc[h] \in {"added", "sweep"}
        \/ pc[h] \in {"lock", "dec"} /\ call[h].op \in {"release", "release_all"}

(***************************************************************************)
(* The inductive invariant of exclusive use.                               *)
(***************************************************************************)
Exclusive ==
    /\ count \in {0, 1}
    /\ count = 1 => Writer(claims[0])
    /\ mutex.owner # NoOwner => Usable
    /\ \A h \in Handles : Adding(h) /\ Removing(h) /\ Holding(h) /\ Accounted(h)

Fine(h) == Adding(h) /\ Removing(h) /\ Holding(h) /\ Accounted(h)

-----------------------------------------------------------------------------
(***************************************************************************)
(* A mutex that became unrecoverable stays so, and a handle whose wait     *)
(* failed keeps what it knows of the mutex, whatever another handle does.  *)
(***************************************************************************)
LEMMA MutexFrame ==
    ASSUME NEW h \in Handles, Inv, mutex.owner # NoOwner => Usable,
           \/ UNCHANGED mutex
           \/ LockReturns(mutex) /\ mutex' = ipm_mutex_lock(mutex, h)
           \/ LockReturns(mutex) /\ mutex' = RelockAfterWait(mutex, h)
           \/ mutex' = ipm_mutex_unlock(mutex, h)
           \/ mutex' = OwnerDies(mutex, h)
    PROVE  /\ Usable' => Usable
           /\ (mutex.owner # NoOwner => Usable)'
           /\ \A g \in Handles \ {h} :
                 \/ mutex.owner = g /\ mutex.state = "inconsistent"
                 \/ mutex.state = "unrecoverable"
                 => \/ mutex'.owner = g /\ mutex'.state = "inconsistent"
                    \/ mutex'.state = "unrecoverable"
<1>0. mutex.owner \in Handles \cup {NoOwner} /\ mutex.state \in MutexState
      /\ h # NoOwner /\ mutex = [owner |-> mutex.owner, state |-> mutex.state]
  BY HandleAssumption, Zenon DEF Inv, TypeOK, Mutex
<1>1. CASE UNCHANGED mutex
  BY <1>1, Zenon DEF Usable
<1>2. CASE LockReturns(mutex) /\ mutex' = ipm_mutex_lock(mutex, h)
  BY <1>0, <1>2, HandleAssumption, Zenon
     DEF Usable, LockReturns, LockSucceeds, ipm_mutex_lock, pthread_mutex_lock
<1>3. CASE LockReturns(mutex) /\ mutex' = RelockAfterWait(mutex, h)
  BY <1>0, <1>3, HandleAssumption, Zenon
     DEF Usable, LockReturns, RelockAfterWait, pthread_mutex_lock
<1>4. CASE mutex' = ipm_mutex_unlock(mutex, h)
  BY <1>0, <1>4, HandleAssumption, Zenon
     DEF Usable, ipm_mutex_unlock, pthread_mutex_unlock
<1>5. CASE mutex' = OwnerDies(mutex, h)
  BY <1>0, <1>5, HandleAssumption, Zenon DEF Usable, OwnerDies
<1> QED BY <1>1, <1>2, <1>3, <1>4, <1>5, Zenon

(***************************************************************************)
(* A step of another handle that leaves the list alone disturbs nothing.   *)
(***************************************************************************)
LEMMA Frame ==
    ASSUME NEW g \in Handles, Fine(g),
           pc'[g] = pc[g] \/ (pc[g] = "asleep" /\ pc'[g] = "woken"),
           call'[g] = call[g], held'[g] = held[g], UNCHANGED list, Usable' => Usable,
           \/ mutex.owner = g /\ mutex.state = "inconsistent"
           \/ mutex.state = "unrecoverable"
           => \/ mutex'.owner = g /\ mutex'.state = "inconsistent"
              \/ mutex'.state = "unrecoverable"
    PROVE  Fine(g)'
<1>1. Adding(g)'
  BY Zenon DEF Fine, Adding, Only, list
<1>2. Removing(g)'
  BY Zenon DEF Fine, Removing, Only, list
<1>3. Holding(g)'
  BY Zenon DEF Fine, Holding, Only, list
<1>4. Accounted(g)'
  BY Zenon DEF Fine, Accounted, Live, list
<1> QED BY <1>1, <1>2, <1>3, <1>4, Zenon DEF Fine

(***************************************************************************)
(* The same, for a whole step of h that leaves the list alone.             *)
(***************************************************************************)
LEMMA ListFrame ==
    ASSUME NEW h \in Handles, Inv, Exclusive, UNCHANGED list, Fine(h)',
           \A g \in Handles \ {h} :
               /\ pc'[g] = pc[g] \/ (pc[g] = "asleep" /\ pc'[g] = "woken")
               /\ call'[g] = call[g] /\ held'[g] = held[g],
           \/ UNCHANGED mutex
           \/ LockReturns(mutex) /\ mutex' = ipm_mutex_lock(mutex, h)
           \/ LockReturns(mutex) /\ mutex' = RelockAfterWait(mutex, h)
           \/ mutex' = ipm_mutex_unlock(mutex, h)
           \/ mutex' = OwnerDies(mutex, h)
    PROVE  Exclusive'
<1>1. ASSUME NEW g \in Handles, g # h
      PROVE  Fine(g)'
  <2>1. Fine(g)
    BY Zenon DEF Exclusive, Fine
  <2>2. Usable' => Usable
    BY MutexFrame, Zenon DEF Exclusive
  <2>3. \/ mutex.owner = g /\ mutex.state = "inconsistent"
        \/ mutex.state = "unrecoverable"
        => \/ mutex'.owner = g /\ mutex'.state = "inconsistent"
           \/ mutex'.state = "unrecoverable"
    BY <1>1, MutexFrame, Zenon DEF Exclusive
  <2> QED BY <1>1, <2>1, <2>2, <2>3, Frame, Zenon
<1>2. \A g \in Handles : Fine(g)'
  BY <1>1, Zenon
<1>3. (count \in {0, 1})' /\ (count = 1 => Writer(claims[0]))'
  BY Zenon DEF Exclusive, list, Writer
<1>4. (mutex.owner # NoOwner => Usable)'
  BY MutexFrame, Zenon DEF Exclusive
<1> QED BY <1>2, <1>3, <1>4, Zenon DEF Exclusive, Fine

(***************************************************************************)
(* Nobody else is in the critical section (from the control invariant).    *)
(***************************************************************************)
LEMMA Alone ==
    ASSUME Inv, NEW h \in Handles, pc[h] \in Critical
    PROVE  /\ mutex.owner = h /\ mutex.state = "consistent" /\ Usable
           /\ \A g \in Handles : pc[g] \in Critical => g = h
BY Zenon DEF Inv, Control, Usable

(***************************************************************************)
(* A handle that is in no call has nothing to add or to remove.            *)
(***************************************************************************)
LEMMA NoCallFine ==
    ASSUME NEW h \in Handles, pc'[h] \in {"idle", "dead"}, call'[h] = NoCall
    PROVE  Adding(h)' /\ Removing(h)'
<1>1. call'[h].op = "none"
  BY DEF NoCall
<1>2. Adding(h)'
  BY <1>1, Zenon DEF Adding
<1>3. Removing(h)'
  BY <1>1, Zenon DEF Removing
<1> QED BY <1>2, <1>3, Zenon

(***************************************************************************)
(* A handle keeps what it holds while neither that nor the list changes.   *)
(***************************************************************************)
LEMMA SameHolding ==
    ASSUME NEW h \in Handles, Fine(h), UNCHANGED list, held'[h] = held[h],
           Usable' => Usable, pc'[h] # "fault",
           call'[h].op # "none" => call[h].op # "none"
    PROVE  Holding(h)'
<1>1. count' = count /\ claims' = claims
  BY Zenon DEF list
<1>2. Holding(h)
  BY Zenon DEF Fine
<1>3. \A c \in held'[h] : c.claim_id # NoId => Only(c)' /\ c.proc_id = h
  BY <1>1, <1>2, Zenon DEF Holding, Only
<1>4. \A c \in held'[h] : c.claim_id = NoId => ~ Usable'
  BY <1>2, Zenon DEF Holding
<1>5. \A c, d \in held'[h] : c = d
  BY <1>2, Zenon DEF Holding
<1>6. call'[h].op # "none" => held'[h] = {}
  BY <1>2, Zenon DEF Holding
<1> QED BY <1>3, <1>4, <1>5, <1>6, Zenon DEF Holding

(***************************************************************************)
(* And its claim stays accounted for, unless it was about to remove it.    *)
(***************************************************************************)
LEMMA SameAccount ==
    ASSUME NEW h \in Handles, Fine(h), UNCHANGED list, held'[h] = held[h],
           Usable' => Usable, Live(h)' => Live(h),
           pc[h] \notin {"added", "sweep", "lock", "dec"}
    PROVE  Accounted(h)'
<1>1. count' = count /\ claims' = claims
  BY Zenon DEF list
<1>2. Accounted(h)
  BY Zenon DEF Fine
<1> QED BY <1>1, <1>2, Zenon DEF Accounted

-----------------------------------------------------------------------------
(* One lemma for each action. *)

(***************************************************************************)
(* A new list, as claim_list_init leaves it, satisfies the invariant of    *)
(* exclusive use.                                                          *)
(***************************************************************************)
LEMMA InitExclusive == Init => Exclusive
BY HandleAssumption, CapacityAssumption
   DEF Init, Exclusive, Adding, Removing, Holding, Accounted, NoCall,
       ipm_mutex_init, Usable

(***************************************************************************)
(* claim_region starts: its claim is for writing, in the caller's name.    *)
(***************************************************************************)
LEMMA ClaimRegionExclusive ==
    ASSUME ExclusiveUse, Inv, Exclusive, NEW h \in Handles,
           NEW r \in Regions, NEW a \in Modes, ClaimRegion(h, r, a)
    PROVE  Exclusive'
<1> DEFINE c == [claim_id |-> NoId, proc_id |-> h, access |-> a,
                 offset |-> r.offset, size |-> r.size]
<1>1. Writer(c) /\ c.proc_id = h
  BY RegionAssumption, ConstantTypes DEF ExclusiveUse, Writer
<1> HIDE DEF c
<1>2. /\ pc'[h] = "lock" /\ held'[h] = {} /\ UNCHANGED <<mutex, list>>
      /\ call'[h].op = "claim" /\ call'[h].claim = c /\ call'[h].i = 0
      /\ \A g \in Handles \ {h} :
            pc'[g] = pc[g] /\ call'[g] = call[g] /\ held'[g] = held[g]
  BY Zenon DEF c, ExclusiveUse, ClaimRegion, Enter, Goto, Inv, TypeOK, NoCall
<1>3. Live(h) /\ pc[h] = "idle"
  BY Zenon DEF ClaimRegion, Live
<1>4. held[h] = {}
  BY Zenon DEF ClaimRegion, ExclusiveUse
<1>5. Fine(h)'
  <2>1. Adding(h)'
    BY <1>1, <1>2, Zenon DEF Adding, Writer
  <2>2. Removing(h)'
    BY <1>2, Zenon DEF Removing
  <2>3. Holding(h)'
    BY <1>2, Zenon DEF Holding
  <2>4. Accounted(h)'
    BY <1>2, <1>3, <1>4, Zenon DEF Exclusive, Accounted, list, Usable
  <2> QED BY <2>1, <2>2, <2>3, <2>4, Zenon DEF Fine
<1> QED BY <1>2, <1>5, ListFrame, Zenon

(***************************************************************************)
(* release_region starts: the claim it gives up is the one listed.         *)
(***************************************************************************)
LEMMA ReleaseRegionExclusive ==
    ASSUME Inv, Exclusive, NEW h \in Handles, NEW c \in held[h], ReleaseRegion(h, c)
    PROVE  Exclusive'
<1>1. /\ pc'[h] = "lock" /\ held'[h] = {} /\ UNCHANGED <<mutex, list>>
      /\ call'[h].op = "release" /\ call'[h].claim = c /\ call'[h].i = 0
      /\ \A g \in Handles \ {h} :
            pc'[g] = pc[g] /\ call'[g] = call[g] /\ held'[g] = held[g]
  BY DEF ReleaseRegion, Enter, Goto, Inv, TypeOK, NoCall, Exclusive, Holding
<1>2. Usable => Only(c) /\ c.proc_id = h
  BY Zenon DEF Exclusive, Holding
<1>3. Fine(h)'
  <2>1. Adding(h)'
    BY <1>1, Zenon DEF Adding
  <2>2. Removing(h)'
    BY <1>1, <1>2, Zenon DEF Removing, Only, Usable, list
  <2>3. Holding(h)'
    BY <1>1, Zenon DEF Holding
  <2>4. Accounted(h)'
    BY <1>1, Zenon DEF Accounted
  <2> QED BY <2>1, <2>2, <2>3, <2>4, Zenon DEF Fine
<1> QED BY <1>1, <1>3, ListFrame, Zenon

(***************************************************************************)
(* release_all (or close) starts.                                          *)
(***************************************************************************)
LEMMA ReleaseManyExclusive ==
    ASSUME ExclusiveUse, Inv, Exclusive, NEW h \in Handles, NEW op \in Ops,
           ReleaseMany(h, op)
    PROVE  Exclusive'
<1>1. /\ pc'[h] = "lock" /\ held'[h] = {} /\ UNCHANGED <<mutex, list>>
      /\ call'[h].op = "release_all" /\ call'[h].i = 0
      /\ \A g \in Handles \ {h} :
            pc'[g] = pc[g] /\ call'[g] = call[g] /\ held'[g] = held[g]
  BY Zenon DEF ReleaseMany, Enter, Goto, Inv, TypeOK, NoCall, ExclusiveUse
<1>2. Fine(h)'
  BY <1>1, Zenon DEF Fine, Adding, Removing, Holding, Accounted
<1> QED BY <1>1, <1>2, ListFrame, Zenon

(***************************************************************************)
(* ipm_mutex_lock at the start of a call, which succeeds or returns the    *)
(* error of an unrecoverable mutex.                                        *)
(***************************************************************************)
LEMMA LockExclusive ==
    ASSUME Inv, Exclusive, NEW h \in Handles, Lock(h)
    PROVE  Exclusive'
<1>1. /\ LockReturns(mutex) /\ mutex' = ipm_mutex_lock(mutex, h)
      /\ UNCHANGED <<list, held>>
      /\ \A g \in Handles \ {h} : pc'[g] = pc[g] /\ call'[g] = call[g]
  BY Zenon DEF Lock, Return, Goto, TakeId, Inv, TypeOK
<1>2. Usable' => Usable
  BY <1>1, MutexFrame, Zenon DEF Exclusive
<1>3. pc[h] = "lock" /\ Live(h) /\ Fine(h)
  BY Zenon DEF Lock, Live, Exclusive, Fine
<1>4. CASE ~ Usable
  <2>1. pc'[h] = "idle" /\ call'[h] = NoCall /\ held'[h] = held[h]
    BY <1>1, <1>4, Zenon DEF Lock, Return, Goto, Usable, LockSucceeds, Inv, TypeOK
  <2>2. Adding(h)' /\ Removing(h)'
    BY <2>1, NoCallFine, Zenon
  <2>3. call'[h].op = "none"
    BY <2>1 DEF NoCall
  <2>4. Holding(h)'
    BY <1>1, <1>2, <1>3, <2>1, <2>3, SameHolding, Zenon
  <2>5. Accounted(h)'
    BY <1>2, <1>4, Zenon DEF Accounted
  <2>6. Fine(h)'
    BY <2>2, <2>4, <2>5, Zenon DEF Fine
  <2> QED BY <1>1, <2>6, ListFrame, Zenon
<1>5. CASE Usable /\ call[h].op = "claim"
  <2>1. /\ pc'[h] = "scan" /\ call'[h].op = "claim" /\ call'[h].i = call[h].i
        /\ call'[h].claim.proc_id = h /\ Writer(call'[h].claim)
        /\ call'[h].claim.claim_id # NoId
    BY <1>3, <1>5 DEF NoId, Lock, Goto, TakeId, Usable, LockSucceeds, Inv, TypeOK, Call,
       Claim, Fine, Adding, Writer
  <2>2. Adding(h)'
    BY <2>1, Zenon DEF Adding, Writer
  <2>3. Removing(h)'
    BY <2>1, Zenon DEF Removing
  <2>4. Holding(h)'
    BY <1>1, <1>3, <1>5, <2>1, Zenon DEF Fine, Holding
  <2>5. Accounted(h)'
    BY <1>1, <1>3, <1>5, Zenon DEF Fine, Accounted, Holding, list
  <2>6. Fine(h)'
    BY <2>2, <2>3, <2>4, <2>5, Zenon DEF Fine
  <2> QED BY <1>1, <2>6, ListFrame, Zenon
<1>6. CASE Usable /\ call[h].op # "claim"
  <2>1. /\ call'[h] = call[h]
        /\ call[h].op \in {"release", "release_all"}
        /\ pc'[h] = IF call[h].op = "release" THEN "dec" ELSE "sweep"
    BY <1>3, <1>6, Zenon DEF Lock, Goto, Usable, LockSucceeds, Inv, TypeOK, Control, Call,
       Fine, Removing
  <2>2. Adding(h)'
    BY <1>1, <1>3, <2>1, Zenon DEF Fine, Adding, Writer
  <2>3. Removing(h)'
    BY <1>1, <1>3, <1>6, <2>1, Zenon DEF Fine, Removing, Only, list
  <2>4. Holding(h)'
    BY <1>1, <1>2, <1>3, <2>1, Zenon DEF Fine, Holding, Only, list
  <2>5. Accounted(h)'
    BY <1>1, <1>2, <1>3, <2>1, Zenon DEF Fine, Accounted, list
  <2>6. Fine(h)'
    BY <2>2, <2>3, <2>4, <2>5, Zenon DEF Fine
  <2> QED BY <1>1, <2>6, ListFrame, Zenon
<1> QED BY <1>4, <1>5, <1>6, Zenon

(***************************************************************************)
(* A handle in claim_region has to wait while the list has an entry.       *)
(***************************************************************************)
LEMMA ListedMakesWait ==
    ASSUME Inv, Exclusive, Usable, NEW h \in Handles, pc[h] \in {"scan", "asleep"}, count = 1
    PROVE  MustWait(call[h].claim)
<1>1. Fine(h) /\ Live(h)
  BY Zenon DEF Exclusive, Fine, Live
<1>2. Writer(claims[0]) /\ Writer(call[h].claim) /\ call[h].claim.proc_id = h
      /\ call[h].op = "claim"
  BY <1>1, Zenon DEF Exclusive, Fine, Adding
<1>3. claims[0].proc_id # h
  BY <1>1, <1>2, Zenon DEF Fine, Accounted, Holding
<1>4. claims[0] \in Scanned
  BY CapacityAssumption DEF Scanned, ActiveClaims
<1>5. claims_conflict(call[h].claim, claims[0]) <=>
          /\ call[h].claim.proc_id # claims[0].proc_id
          /\ ~ (call[h].claim.access = READ_ONLY /\ claims[0].access = READ_ONLY)
  BY <1>2, ConflictIgnoresRegions, Zenon DEF Writer
<1>6. claims[0].access = "RW" /\ "RW" # "RO"
  BY <1>2, Zenon DEF Writer, READ_WRITE
<1>7. claims_conflict(call[h].claim, claims[0])
  BY <1>2, <1>3, <1>5, <1>6, Zenon DEF READ_ONLY
<1> QED BY <1>4, <1>7, Zenon DEF MustWait

(***************************************************************************)
(* A scan that finds nothing to wait for has found an empty list.          *)
(***************************************************************************)
LEMMA ScanFindsEmpty ==
    ASSUME Inv, Exclusive, NEW h \in Handles, pc[h] = "scan",
           ~ MustWait(call[h].claim)
    PROVE  count = 0
<1>1. Usable
  BY Alone, Zenon DEF Critical
<1>2. count # 1
  BY <1>1, ListedMakesWait, Zenon
<1> QED BY <1>2, Zenon DEF Exclusive

(***************************************************************************)
(* claim_region's scan goes on only if the list is empty, else it sleeps.  *)
(***************************************************************************)
LEMMA ScanExclusive ==
    ASSUME Inv, Exclusive, NEW h \in Handles, Scan(h)
    PROVE  Exclusive'
<1>1. Fine(h) /\ Usable /\ Live(h) /\ pc[h] = "scan"
  BY Alone, Zenon DEF Exclusive, Fine, Live, Critical, Scan
<1>2. CASE Sleep(h)
  <2>1. /\ UNCHANGED <<list, call, held>> /\ mutex' = ipm_mutex_unlock(mutex, h)
        /\ pc'[h] = "asleep" /\ \A g \in Handles \ {h} : pc'[g] = pc[g]
    BY <1>2, Zenon DEF Scan, Sleep, Unlock, Goto, Inv, TypeOK
  <2>2. Usable' => Usable
    BY <2>1, MutexFrame, Zenon DEF Exclusive
  <2>3. Fine(h)'
    BY <1>1, <2>1, <2>2, Zenon DEF Fine, Adding, Removing, Holding, Accounted, Only,
                                      list, Live, Writer
  <2> QED BY <2>1, <2>3, ListFrame, Zenon
<1>3. CASE ~ Sleep(h)
  <2>1. count <= Capacity /\ ~ count > Capacity
    BY CapacityAssumption DEF Exclusive
  <2>2. /\ ~ MustWait(call[h].claim) /\ Goto(h, "shift")
        /\ UNCHANGED <<mutex, call, list, held>>
    BY <1>3, <2>1, Zenon DEF Scan
  <2>3. count = 0
    BY <1>1, <2>2, ScanFindsEmpty, Zenon
  <2>4. pc'[h] = "shift" /\ \A g \in Handles \ {h} : pc'[g] = pc[g]
    BY <2>2, Zenon DEF Goto, Inv, TypeOK
  <2>5. Fine(h)'
    BY <1>1, <2>2, <2>3, <2>4, Zenon DEF Fine, Adding, Removing, Holding, Accounted, Only, list,
       Writer
  <2> QED BY <2>2, <2>4, <2>5, ListFrame, Zenon
<1> QED BY <1>2, <1>3, Zenon

(***************************************************************************)
(* A wake-up without a signal changes nothing that the invariant is about. *)
(***************************************************************************)
LEMMA WakeExclusive ==
    ASSUME Inv, Exclusive, NEW h \in Handles, SpuriousWake(h)
    PROVE  Exclusive'
<1>1. /\ Fine(h) /\ pc[h] = "asleep" /\ pc'[h] = "woken"
      /\ UNCHANGED <<mutex, list, call, held>>
      /\ \A g \in Handles \ {h} : pc'[g] = pc[g]
  BY Zenon DEF Exclusive, Fine, SpuriousWake, Goto, Inv, TypeOK
<1>2. Fine(h)'
  BY <1>1, Frame, Zenon DEF Usable
<1> QED BY <1>1, <1>2, ListFrame, Zenon

(***************************************************************************)
(* ipm_condition_wait returns: back to the scan, or to the failing exit.   *)
(***************************************************************************)
LEMMA RelockExclusive ==
    ASSUME Inv, Exclusive, NEW h \in Handles, Relock(h)
    PROVE  Exclusive'
<1>1. /\ Fine(h) /\ pc[h] = "woken"
      /\ LockReturns(mutex) /\ mutex' = RelockAfterWait(mutex, h)
      /\ pc'[h] = IF WaitSucceeds(mutex) THEN "scan" ELSE "wait_failed"
      /\ UNCHANGED <<list, call, held>>
      /\ \A g \in Handles \ {h} : pc'[g] = pc[g]
  BY Zenon DEF Exclusive, Fine, Relock, Goto, Inv, TypeOK
<1>2. Usable' => Usable
  BY <1>1, MutexFrame, Zenon DEF Exclusive
<1>3. ~ WaitSucceeds(mutex) =>
          \/ mutex'.owner = h /\ mutex'.state = "inconsistent"
          \/ mutex'.state = "unrecoverable"
  BY <1>1, Zenon DEF WaitSucceeds, RelockAfterWait, pthread_mutex_lock, Inv, TypeOK, Mutex,
     MutexState
<1>4. Adding(h)'
  BY <1>1, <1>3, Zenon DEF Fine, Adding, Only, list, Writer
<1>5. Removing(h)' /\ Holding(h)' /\ Accounted(h)'
  BY <1>1, <1>2, Zenon DEF Fine, Removing, Holding, Accounted, Only, list, Live
<1>6. Fine(h)'
  BY <1>4, <1>5, Zenon DEF Fine
<1> QED BY <1>1, <1>6, ListFrame, Zenon

(***************************************************************************)
(* The failing exit of claim_region leaves the mutex unrecoverable, so     *)
(* that no call acts on the list again.                                    *)
(***************************************************************************)
LEMMA WaitFailedExclusive ==
    ASSUME Inv, Exclusive, NEW h \in Handles, WaitFailed(h)
    PROVE  Exclusive'
<1> DEFINE c == [call[h].claim EXCEPT !.claim_id = NoId]
<1>1. /\ Fine(h) /\ pc[h] = "wait_failed" /\ pc'[h] = "idle"
      /\ call'[h] = NoCall /\ mutex' = ipm_mutex_unlock(mutex, h)
      /\ held'[h] = held[h] \cup {c} /\ UNCHANGED list
      /\ \A g \in Handles \ {h} :
            pc'[g] = pc[g] /\ call'[g] = call[g] /\ held'[g] = held[g]
  BY Zenon DEF Exclusive, Fine, WaitFailed, Unlock, Return, Goto, Inv, TypeOK
<1>2. c.claim_id = NoId
  BY Zenon DEF Inv, TypeOK, Call, Claim
<1> HIDE DEF c
<1>3. ~ Usable'
  BY <1>1, Zenon DEF Fine, Adding, Usable, ipm_mutex_unlock, pthread_mutex_unlock
<1>4. held'[h] = {c}
  BY <1>1, Zenon DEF Fine, Adding, Holding
<1>5. Adding(h)' /\ Removing(h)'
  BY <1>1, NoCallFine, Zenon
<1>6. Holding(h)'
  BY <1>1, <1>2, <1>3, <1>4 DEF Holding, NoCall
<1>7. Accounted(h)'
  BY <1>3, Zenon DEF Accounted
<1>8. Fine(h)'
  BY <1>5, <1>6, <1>7, Zenon DEF Fine
<1> QED BY <1>1, <1>8, ListFrame, Zenon

(***************************************************************************)
(* While somebody adds to the empty list or has just emptied it, nobody    *)
(* else has a claim or is removing one: a write to the list disturbs no    *)
(* other handle.                                                           *)
(***************************************************************************)
LEMMA EmptyFrame ==
    ASSUME Inv, Exclusive, NEW h \in Handles, pc[h] \in Critical, count = 0,
           claims' \in [Slots -> Claim], UNCHANGED <<mutex, held>>,
           \A g \in Handles \ {h} : pc'[g] = pc[g] /\ call'[g] = call[g],
           count' = 0 \/ (count' = 1 /\ claims'[0].proc_id = h),
           NEW g \in Handles, g # h
    PROVE  Fine(g)'
<1>1. Fine(g) /\ pc[g] \notin Critical /\ Usable
  BY Alone, Zenon DEF Exclusive, Fine
<1>0. /\ pc'[g] = pc[g] /\ call'[g] = call[g] /\ held'[g] = held[g]
      /\ (Usable' <=> Usable) /\ (\A c : ~ Only(c))
  BY DEF Usable, Only
<1>2. Adding(g)'
  BY <1>1, <1>0, Zenon DEF Fine, Adding, Critical, Writer
<1>3. Removing(g)'
  BY <1>1, <1>0, Zenon DEF Fine, Removing, Critical
<1>4. Holding(g)'
  <2>1. \A c \in held[g] : c.claim_id = NoId /\ ~ Usable
    BY <1>1, <1>0, Zenon DEF Fine, Holding
  <2> QED BY <1>1, <1>0, <2>1, Zenon DEF Fine, Holding
<1>5. Accounted(g)'
  <2>1. ~ (count' = 1 /\ claims'[0].proc_id = g)
    OBVIOUS
  <2> QED BY <2>1, Zenon DEF Accounted
<1> QED BY <1>2, <1>3, <1>4, <1>5, Zenon DEF Fine

(***************************************************************************)
(* Making room in an empty list moves nothing.                             *)
(***************************************************************************)
LEMMA ShiftExclusive ==
    ASSUME Inv, Exclusive, NEW h \in Handles, Shift(h)
    PROVE  Exclusive'
<1>1. Fine(h) /\ pc[h] = "shift" /\ count = 0 /\ call[h].op = "claim"
  BY Zenon DEF Exclusive, Fine, Shift, Adding
<1>2. InsertPos(claims, count, call[h].claim) = 0
  <2>1. call[h].claim.offset \in Int
    BY ConstantTypes DEF Inv, TypeOK, Call, Claim
  <2>2. \A q \in 0 .. 0 - 1 : claims[q].offset \in Int
    OBVIOUS
  <2>3. InsertPos(claims, 0, call[h].claim) \in 0 .. 0
    BY <2>1, <2>2, InsertPosFound, Zenon
  <2> QED BY <1>1, <2>3
<1>3. /\ UNCHANGED <<mutex, list, held>> /\ pc'[h] = "store"
      /\ call'[h].i = 0 /\ call'[h].op = call[h].op /\ call'[h].claim = call[h].claim
      /\ \A g \in Handles \ {h} : pc'[g] = pc[g] /\ call'[g] = call[g]
  BY <1>1, <1>2, Zenon DEF Shift, ShiftForInsert, Goto, Inv, TypeOK, Call, list
<1>4. Fine(h)'
  <2>1. Adding(h)'
    BY <1>1, <1>3, Zenon DEF Fine, Adding, list, Writer
  <2>2. Removing(h)'
    BY <1>1, <1>3, Zenon DEF Removing
  <2>3. Holding(h)'
    BY <1>1, <1>3, SameHolding, Zenon DEF Usable
  <2>4. Accounted(h)'
    BY <1>1, <1>3 DEF Accounted, list
  <2> QED BY <2>1, <2>2, <2>3, <2>4, Zenon DEF Fine
<1> QED BY <1>3, <1>4, ListFrame, Zenon

(***************************************************************************)
(* The claim is written to slot 0.                                         *)
(***************************************************************************)
LEMMA StoreExclusive ==
    ASSUME Inv, Exclusive, NEW h \in Handles, Store(h), Inv'
    PROVE  Exclusive'
<1>1. /\ Fine(h) /\ pc[h] = "store" /\ count = 0 /\ call[h].op = "claim"
      /\ call[h].i = 0 /\ pc[h] \in Critical
  <2>1. Fine(h) /\ pc[h] = "store"
    BY Zenon DEF Exclusive, Fine, Store
  <2>2. Adding(h)
    BY <2>1, Zenon DEF Fine
  <2> QED BY <2>1, <2>2, Zenon DEF Adding, Critical
<1>2. /\ UNCHANGED <<mutex, count, held, call>> /\ pc'[h] = "bump"
      /\ claims' \in [Slots -> Claim] /\ claims'[0] = call[h].claim
      /\ \A g \in Handles \ {h} : pc'[g] = pc[g] /\ call'[g] = call[g]
  BY <1>1, CapacityAssumption DEF Store, Goto, Inv, TypeOK, Slots
<1>3. Fine(h)'
  <2>1. Adding(h)'
    BY <1>1, <1>2, Zenon DEF Fine, Adding, Writer
  <2>2. Removing(h)'
    BY <1>1, <1>2, Zenon DEF Removing
  <2>3. held'[h] = {}
    BY <1>1, <1>2, Zenon DEF Fine, Holding
  <2>4. Holding(h)'
    BY <1>2, <2>3, Zenon DEF Holding
  <2>5. Accounted(h)'
    BY <1>1, <1>2 DEF Accounted
  <2> QED BY <2>1, <2>2, <2>4, <2>5, Zenon DEF Fine
<1>4. \A g \in Handles : Fine(g)'
  BY <1>1, <1>2, <1>3, EmptyFrame, Zenon
<1>5. (mutex.owner # NoOwner => Usable)'
  BY <1>2, Zenon DEF Exclusive, Usable
<1>6. (count \in {0, 1})' /\ (count = 1 => Writer(claims[0]))'
  BY <1>1, <1>2
<1> QED BY <1>4, <1>5, <1>6, Zenon DEF Exclusive, Fine

(***************************************************************************)
(* The claim is counted, and is the only one.                              *)
(***************************************************************************)
LEMMA BumpExclusive ==
    ASSUME Inv, Exclusive, NEW h \in Handles, Bump(h)
    PROVE  Exclusive'
<1>1. /\ Fine(h) /\ pc[h] = "bump" /\ count = 0 /\ call[h].op = "claim"
      /\ claims[0] = call[h].claim /\ pc[h] \in Critical
  BY Zenon DEF Exclusive, Fine, Bump, Adding, Critical
<1>2. /\ UNCHANGED <<mutex, claims, held, call>> /\ pc'[h] = "added" /\ count' = 1
      /\ \A g \in Handles \ {h} : pc'[g] = pc[g] /\ call'[g] = call[g]
      /\ claims' \in [Slots -> Claim]
  BY <1>1 DEF Bump, Goto, Inv, TypeOK
<1>3. Writer(claims[0]) /\ claims[0].proc_id = h
  BY <1>1, Zenon DEF Fine, Adding
<1>4. Fine(h)'
  <2>1. Adding(h)'
    BY <1>1, <1>2, <1>3, Zenon DEF Fine, Adding, Only, Writer
  <2>2. Removing(h)' /\ Holding(h)' /\ Accounted(h)'
    BY <1>1, <1>2, Zenon DEF Fine, Removing, Holding, Accounted, Only, Usable
  <2> QED BY <2>1, <2>2, Zenon DEF Fine
<1>5. \A g \in Handles : Fine(g)'
  BY <1>1, <1>2, <1>3, <1>4, EmptyFrame, Zenon
<1> QED BY <1>2, <1>3, <1>5, Zenon DEF Exclusive, Fine, Usable, Writer

(***************************************************************************)
(* claim_region returns the claim to its caller.                           *)
(***************************************************************************)
LEMMA ClaimedExclusive ==
    ASSUME Inv, Exclusive, NEW h \in Handles, Claimed(h)
    PROVE  Exclusive'
<1>1. /\ Fine(h) /\ pc[h] = "added" /\ Only(call[h].claim) /\ call[h].op = "claim"
      /\ held[h] = {} /\ call[h].claim.proc_id = h
  BY Zenon DEF Exclusive, Fine, Claimed, Adding, Holding
<1>2. mutex.state = "consistent" /\ mutex.owner = h
  BY <1>1, Alone, Zenon DEF Critical
<1>3. /\ UNCHANGED list /\ pc'[h] = "idle" /\ call'[h] = NoCall
      /\ mutex' = ipm_mutex_unlock(mutex, h) /\ held'[h] = {call[h].claim}
      /\ \A g \in Handles \ {h} :
            pc'[g] = pc[g] /\ call'[g] = call[g] /\ held'[g] = held[g]
  BY <1>1, Zenon DEF Claimed, Unlock, Return, Goto, Inv, TypeOK
<1>4. call[h].claim.claim_id # NoId
  BY <1>1, Zenon DEF Fine, Adding
<1>5. Fine(h)'
  <2>1. Adding(h)' /\ Removing(h)'
    BY <1>3, NoCallFine, Zenon
  <2>2. /\ Only(call[h].claim) /\ count' = count /\ claims' = claims
        /\ call'[h].op = "none"
    <3>1. NoCall.op = "none"
      BY Zenon DEF NoCall
    <3> QED BY <1>1, <1>3, <3>1, Zenon DEF list
  <2>3. Holding(h)'
    BY <1>1, <1>3, <1>4, <2>2, Zenon DEF Holding, Only
  <2>4. Accounted(h)'
    BY <1>3, <2>2, Zenon DEF Accounted, Only
  <2> QED BY <2>1, <2>3, <2>4, Zenon DEF Fine
<1> QED BY <1>3, <1>5, ListFrame, Zenon

(***************************************************************************)
(* The count goes from 1 to 0, with both conjuncts of the assertion true.  *)
(***************************************************************************)
LEMMA DecExclusive ==
    ASSUME Inv, Exclusive, NEW h \in Handles, Dec(h)
    PROVE  Exclusive'
<1>1. /\ Fine(h) /\ pc[h] = "dec" /\ Usable /\ pc[h] \in Critical
      /\ call[h].op \in {"release", "release_all"}
  BY Alone, Zenon DEF Exclusive, Fine, Dec, Critical, Inv, Control, Removes, Removing
<1>2. Only(call[h].claim) /\ call[h].claim.proc_id = h /\ held[h] = {}
  BY <1>1, Zenon DEF Fine, Removing, Holding
<1>3. /\ UNCHANGED <<mutex, claims, held>> /\ pc'[h] = "erase" /\ count' = 0
      /\ call'[h].n = 1 /\ call'[h].op = call[h].op
      /\ call'[h].claim = call[h].claim
      /\ \A g \in Handles \ {h} : pc'[g] = pc[g] /\ call'[g] = call[g]
  BY <1>2, CapacityAssumption DEF Only, Dec, SizeDec, Goto, Inv, TypeOK, Call
<1>4. Fine(h)'
  <2>1. Adding(h)'
    BY <1>1, <1>3, Zenon DEF Adding
  <2>2. Removing(h)'
    BY <1>1, <1>2, <1>3, Zenon DEF Removing, Only
  <2>3. held'[h] = {} /\ pc'[h] = "erase"
    BY <1>2, <1>3, Zenon
  <2>4. Holding(h)'
    BY <2>3, Zenon DEF Holding
  <2>5. Accounted(h)'
    BY <1>3 DEF Accounted
  <2> QED BY <2>1, <2>2, <2>4, <2>5, Zenon DEF Fine
<1>5. ASSUME NEW g \in Handles, g # h
      PROVE  Fine(g)'
  <2>1. Fine(g) /\ pc[g] \notin Critical
    BY <1>1, <1>5, Alone, Zenon DEF Exclusive, Fine
  <2>2. \A c \in held[g] : c.claim_id = NoId /\ ~ Usable
    BY <1>2, <1>5, <2>1, Zenon DEF Fine, Holding, Only
  <2>3. ~ (pc[g] = "lock" /\ call[g].op = "release")
    BY <1>1, <1>2, <1>5, <2>1, Zenon DEF Fine, Removing, Only
  <2>4. Adding(g)'
    BY <1>3, <1>5, <2>1, Zenon DEF Fine, Adding, Critical, Writer
  <2>5. Removing(g)'
    BY <1>3, <1>5, <2>1, <2>3, Zenon DEF Fine, Removing, Critical, Only
  <2>6. Holding(g)'
    BY <1>3, <1>5, <2>1, <2>2, Zenon DEF Fine, Holding, Usable
  <2>7. ~ (count' = 1)
    BY <1>3
  <2>8. Accounted(g)'
    BY <2>7, Zenon DEF Accounted
  <2> QED BY <2>4, <2>5, <2>6, <2>8, Zenon DEF Fine
<1>6. \A g \in Handles : Fine(g)'
  BY <1>4, <1>5, Zenon
<1> QED BY <1>3, <1>6, Zenon DEF Exclusive, Fine, Usable

(***************************************************************************)
(* The claim is found in slot 0, so the memmove is skipped.                *)
(***************************************************************************)
LEMMA EraseExclusive ==
    ASSUME Inv, Exclusive, NEW h \in Handles, Erase(h)
    PROVE  Exclusive'
<1>1. /\ Fine(h) /\ pc[h] = "erase" /\ call[h].n = 1 /\ count = 0
      /\ claims[0] = call[h].claim /\ call[h].op \in {"release", "release_all"}
  BY Zenon DEF Exclusive, Fine, Erase, Removing, Inv, Control, Removes
<1>2. ErasePos(h) = 0
  <2>0. ~ 1 > Capacity
    BY CapacityAssumption
  <2>1. call[h].n = 1 /\ ~ 1 > Capacity
    BY <1>1, <2>0, Zenon
  <2>2. ErasePos(h) = FindPos(claims, 1, call[h].claim.claim_id)
    BY <2>1, Zenon DEF ErasePos
  <2> QED BY <1>1, <2>2, FindPosFirst, Zenon
<1>3. ~ EraseFaults(1, 0) /\ EraseAt(claims, 1, 0) = claims
  BY CapacityAssumption DEF EraseFaults, EraseAt
<1>4. /\ UNCHANGED <<mutex, list, held, call>>
      /\ pc'[h] = IF call[h].op = "release" THEN "unlock" ELSE "sweep"
      /\ \A g \in Handles \ {h} : pc'[g] = pc[g]
  BY <1>1, <1>2, <1>3, Zenon DEF Erase, AfterRemove, Goto, Inv, TypeOK, list
<1>5. Fine(h)'
  <2>1. count' = 0 /\ call'[h] = call[h] /\ held'[h] = held[h]
        /\ pc'[h] \in {"unlock", "sweep"}
    BY <1>1, <1>4, Zenon DEF list
  <2>2. Adding(h)'
    BY <1>1, <2>1, Zenon DEF Adding
  <2>3. Removing(h)'
    <3>1. ~ (count' = 1) /\ call'[h].op # "remove_all"
      BY <1>1, <2>1
    <3>2. pc'[h] \notin {"lock", "dec", "erase"}
      BY <2>1, Zenon
    <3> QED BY <3>1, <3>2, Zenon DEF Removing
  <2>4. Holding(h)'
    BY <1>1, <1>4, <2>1, SameHolding, Zenon DEF Usable
  <2>5. Accounted(h)'
    BY <2>1 DEF Accounted
  <2> QED BY <2>2, <2>3, <2>4, <2>5, Zenon DEF Fine
<1> QED BY <1>4, <1>5, ListFrame, Zenon

(***************************************************************************)
(* release_all's loop removes the claim in slot 0 only if it is its own.   *)
(***************************************************************************)
LEMMA SweepExclusive ==
    ASSUME Inv, Exclusive, NEW h \in Handles, Sweep(h)
    PROVE  Exclusive'
<1>1. /\ Fine(h) /\ pc[h] = "sweep" /\ call[h].op = "release_all"
      /\ held[h] = {} /\ call[h].i \in Nat /\ count <= Capacity
  BY CapacityAssumption
     DEF Exclusive, Fine, Sweep, Holding, Inv, TypeOK, Control, Call
<1>2. /\ UNCHANGED <<mutex, list, held>>
      /\ \A g \in Handles \ {h} : pc'[g] = pc[g] /\ call'[g] = call[g]
      /\ call'[h].op = "release_all"
  BY <1>1 DEF Sweep, Goto, Inv, TypeOK, Call
<1>3. CASE call[h].i >= count
  <2>1. pc'[h] = "unlock" /\ call' = call
    BY <1>1, <1>3 DEF Sweep, Goto, Inv, TypeOK
  <2>2. Adding(h)' /\ Removing(h)'
    BY <1>1, <2>1, Zenon DEF Adding, Removing
  <2>3. Holding(h)'
    BY <1>1, <1>2, <2>1, SameHolding, Zenon DEF Usable
  <2>4. count = 1 => claims[0].proc_id # h
    <3>1. ~ (0 >= 1)
      BY SMTT(30)
    <3>2. Removing(h)
      BY <1>1, Zenon DEF Fine
    <3> QED BY <1>1, <1>3, <3>1, <3>2, Zenon DEF Removing
  <2>5. Accounted(h)'
    BY <1>2, <2>4, Zenon DEF Accounted, list
  <2>6. Fine(h)'
    BY <2>2, <2>3, <2>5, Zenon DEF Fine
  <2> QED BY <1>2, <2>6, ListFrame, Zenon
<1>4. CASE call[h].i < count
  <2>1. count = 1 /\ call[h].i = 0
    <3>1. count \in {0, 1}
      BY Zenon DEF Exclusive
    <3>2. call[h].i \in Nat
      BY <1>1, Zenon
    <3> QED BY <1>4, <3>1, <3>2
  <2>2. CASE claims[0].proc_id = h
    <3>1. pc'[h] = "dec" /\ call'[h].claim = claims[0]
      BY <1>1, <2>1, <2>2 DEF Sweep, Goto, Inv, TypeOK, Call
    <3>2. Adding(h)'
      BY <1>2, <3>1, Zenon DEF Adding
    <3>3. Removing(h)'
      BY <1>2, <2>1, <2>2, <3>1, Zenon DEF Removing, Only, list
    <3>4. Holding(h)'
      BY <1>1, <1>2, <3>1, SameHolding, Zenon DEF Usable
    <3>5. Accounted(h)'
      BY <1>2, <3>1, ZenonT(30) DEF Accounted
    <3>6. Fine(h)'
      BY <3>2, <3>3, <3>4, <3>5, Zenon DEF Fine
    <3> QED BY <1>2, <3>6, ListFrame, Zenon
  <2>3. CASE claims[0].proc_id # h
    <3>1. pc'[h] = "sweep"
      BY <1>1, <2>1, <2>3 DEF Sweep, Inv, TypeOK
    <3>2. Adding(h)'
      BY <1>2, <3>1, Zenon DEF Adding
    <3>3. Removing(h)'
      BY <1>2, <2>3, <3>1, Zenon DEF Removing, list
    <3>4. Holding(h)'
      BY <1>1, <1>2, <3>1, SameHolding, Zenon DEF Usable
    <3>5. Accounted(h)'
      BY <3>1, Zenon DEF Accounted
    <3>6. Fine(h)'
      BY <3>2, <3>3, <3>4, <3>5, Zenon DEF Fine
    <3> QED BY <1>2, <3>6, ListFrame, Zenon
  <2> QED BY <2>2, <2>3, Zenon
<1>5. count \in Int
  BY DEF Exclusive
<1> QED BY <1>1, <1>3, <1>4, <1>5

(***************************************************************************)
(* A remove operation unlocks the list.                                    *)
(***************************************************************************)
LEMMA LeaveExclusive ==
    ASSUME Inv, Exclusive, NEW h \in Handles, LeaveRemove(h)
    PROVE  Exclusive'
<1>1. Fine(h) /\ pc[h] = "unlock"
  BY Zenon DEF Exclusive, Fine, LeaveRemove
<1>2. /\ UNCHANGED <<list, held>> /\ mutex' = ipm_mutex_unlock(mutex, h)
      /\ \/ pc'[h] = "signal" /\ call'[h] = call[h]
         \/ pc'[h] = "idle" /\ call'[h] = NoCall
      /\ \A g \in Handles \ {h} : pc'[g] = pc[g] /\ call'[g] = call[g]
  BY Zenon DEF LeaveRemove, Unlock, Return, Goto, Inv, TypeOK
<1>3. Usable' => Usable
  BY <1>2, MutexFrame, Zenon DEF Exclusive
<1>4. Adding(h)' /\ Removing(h)'
  <2>1. CASE pc'[h] = "idle" /\ call'[h] = NoCall
    BY <2>1, NoCallFine, Zenon
  <2>2. CASE pc'[h] = "signal" /\ call'[h] = call[h]
    <3>1. Adding(h)'
      BY <1>1, <2>2, Zenon DEF Fine, Adding, Writer
    <3>2. Removing(h)'
      BY <1>1, <2>2, Zenon DEF Fine, Removing
    <3> QED BY <3>1, <3>2, Zenon
  <2> QED BY <1>2, <2>1, <2>2, Zenon
<1>5. /\ held'[h] = held[h] /\ pc'[h] # "fault"
      /\ call'[h].op # "none" => call[h].op # "none"
  <2>1. NoCall.op = "none"
    BY Zenon DEF NoCall
  <2> QED BY <1>2, <2>1, Zenon
<1>6. Holding(h)'
  BY <1>1, <1>2, <1>3, <1>5, SameHolding, Zenon
<1>7. Accounted(h)'
  BY <1>1, <1>2, <1>3, <1>5, SameAccount, Zenon DEF Live
<1>8. Fine(h)'
  BY <1>4, <1>6, <1>7, Zenon DEF Fine
<1> QED BY <1>2, <1>8, ListFrame, Zenon

(***************************************************************************)
(* release_region signals the condition and returns.                       *)
(***************************************************************************)
LEMMA SignalExclusive ==
    ASSUME Inv, Exclusive, NEW h \in Handles, Signal(h)
    PROVE  Exclusive'
<1>1. Fine(h) /\ pc[h] = "signal"
  BY Zenon DEF Exclusive, Fine, Signal
<1>2. /\ UNCHANGED <<mutex, list, held>> /\ pc'[h] = "idle" /\ call'[h] = NoCall
      /\ \A g \in Handles \ {h} :
            /\ pc'[g] = pc[g] \/ (pc[g] = "asleep" /\ pc'[g] = "woken")
            /\ call'[g] = call[g]
  BY Zenon DEF Signal, Inv, TypeOK
<1>3. Adding(h)' /\ Removing(h)'
  BY <1>2, NoCallFine, Zenon
<1>4. held'[h] = held[h] /\ call'[h].op = "none" /\ (Usable' => Usable)
  BY <1>2 DEF NoCall, Usable
<1>5. Holding(h)'
  BY <1>1, <1>2, <1>4, SameHolding, Zenon
<1>6. Accounted(h)'
  BY <1>1, <1>2, <1>4, SameAccount, Zenon DEF Live
<1>7. Fine(h)'
  BY <1>3, <1>5, <1>6, Zenon DEF Fine
<1> QED BY <1>2, <1>7, ListFrame, Zenon

(***************************************************************************)
(* A process dies anywhere in a call.                                      *)
(***************************************************************************)
LEMMA CrashExclusive ==
    ASSUME Inv, Exclusive, NEW h \in Handles, Crash(h)
    PROVE  Exclusive'
<1>1. Fine(h)
  BY Zenon DEF Exclusive, Fine
<1>2. /\ UNCHANGED <<list, held>> /\ mutex' = OwnerDies(mutex, h)
      /\ pc'[h] = "dead" /\ call'[h] = NoCall
      /\ \A g \in Handles \ {h} : pc'[g] = pc[g] /\ call'[g] = call[g]
  BY Zenon DEF Crash, Die, Goto, Inv, TypeOK
<1>3. Usable' => Usable
  BY <1>2, MutexFrame, Zenon DEF Exclusive
<1>4. Adding(h)' /\ Removing(h)'
  BY <1>2, NoCallFine, Zenon
<1>5. held'[h] = held[h] /\ call'[h].op = "none" /\ ~ Live(h)'
  BY <1>2, SMTT(30) DEF NoCall, Live
<1>6. Holding(h)'
  BY <1>1, <1>2, <1>3, <1>5, SameHolding, Zenon
<1>7. Accounted(h)'
  BY <1>5, Zenon DEF Accounted
<1>8. Fine(h)'
  BY <1>4, <1>6, <1>7, Zenon DEF Fine
<1> QED BY <1>2, <1>8, ListFrame, Zenon

-----------------------------------------------------------------------------
(***************************************************************************)
(* Every step keeps the invariant of exclusive use.                        *)
(***************************************************************************)
LEMMA NextExclusive ==
    ASSUME ExclusiveUse
    PROVE  Inv /\ Inv' /\ Exclusive /\ [Next]_vars => Exclusive'
<1> SUFFICES ASSUME Inv, Inv', Exclusive, [Next]_vars PROVE Exclusive'
  BY Zenon
<1>1. CASE UNCHANGED vars
  <2>1. UNCHANGED <<mutex, list, pc, call, held>>
    BY <1>1, Zenon DEF vars, list
  <2>2. \A h \in Handles : Fine(h)'
    BY <2>1, Frame, Zenon DEF Exclusive, Fine, Usable
  <2>3. (mutex.owner # NoOwner => Usable)'
    BY <2>1, Zenon DEF Exclusive, Usable
  <2>4. (count \in {0, 1})' /\ (count = 1 => Writer(claims[0]))'
    BY <2>1, Zenon DEF Exclusive, Writer, list
  <2> QED BY <2>2, <2>3, <2>4, Zenon DEF Exclusive, Fine
<1>2. ASSUME NEW h \in Handles, Step(h)
      PROVE  Exclusive'
  <2>1. ~ Drain(h)
    BY Zenon DEF Drain, Inv, Control, Exclusive, Removing
  <2> QED BY <1>2, <2>1, LockExclusive, ScanExclusive, RelockExclusive,
        WaitFailedExclusive, ShiftExclusive, StoreExclusive, BumpExclusive,
        ClaimedExclusive, DecExclusive, EraseExclusive, SweepExclusive,
        LeaveExclusive, SignalExclusive DEF Step
<1>3. ASSUME NEW h \in Handles, SpuriousWake(h) \/ Crash(h)
      PROVE  Exclusive'
  BY <1>3, WakeExclusive, CrashExclusive, Zenon
<1>4. ASSUME NEW h \in Handles, GiveUp(h)
      PROVE  Exclusive'
  BY <1>4, ReleaseRegionExclusive, ReleaseManyExclusive, Zenon DEF GiveUp
<1>5. ASSUME NEW h \in Handles, NEW r \in Regions, NEW a \in Modes,
             ClaimRegion(h, r, a)
      PROVE  Exclusive'
  BY <1>5, ClaimRegionExclusive, Zenon
<1> QED BY <1>1, <1>2, <1>3, <1>4, <1>5, Zenon DEF Next

(***************************************************************************)
(* The invariant of exclusive use holds in every state.                    *)
(***************************************************************************)
THEOREM ExclusiveInvariance ==
    ASSUME ExclusiveUse
    PROVE  Spec => [](Inv /\ Exclusive)
<1>1. Inv /\ Inv' /\ Exclusive /\ [Next]_vars => Exclusive'
  BY NextExclusive, Zenon
<1> QED BY <1>1, InitExclusive, Invariance, PTL DEF Spec

(***************************************************************************)
(* Claims exclude each other: no two live handles are told by claim_region *)
(* that they have overlapping regions, for any number of handles, however  *)
(* their calls interleave and whichever of them are killed.                *)
(***************************************************************************)
THEOREM ExclusiveMutualExclusion ==
    ASSUME ExclusiveUse
    PROVE  Spec => []MutualExclusion
<1>1. Inv /\ Exclusive => MutualExclusion
  <2>1. Exclusive => \A h \in Handles : \A c \in Granted(h) :
            c = claims[0] /\ c.proc_id = h
    BY Zenon DEF Exclusive, Holding, Only, Granted
  <2> QED BY <2>1, Zenon DEF MutualExclusion
<1> QED BY <1>1, ExclusiveInvariance, PTL

(***************************************************************************)
(* A claim that a handle was given is in the list until it is released,    *)
(* whatever the other handles do and wherever they die; the claim of a     *)
(* killed process stays there.                                             *)
(***************************************************************************)
THEOREM ExclusiveHeldIsListed ==
    ASSUME ExclusiveUse
    PROVE  Spec => []HeldIsListed
<1>1. ASSUME count = 1 PROVE claims[0] \in Active
  BY <1>1, CapacityAssumption DEF Active, Scanned, ActiveClaims
<1>2. Inv /\ Exclusive => HeldIsListed
  <2> SUFFICES ASSUME Exclusive, NEW h \in Handles, NEW c \in held[h],
                      c.claim_id # NoId
               PROVE  c \in Active
    BY Zenon DEF HeldIsListed
  <2>1. Holding(h)
    BY Zenon DEF Exclusive
  <2> QED BY <1>1, <2>1, Zenon DEF Holding, Only
<1> QED BY <1>2, ExclusiveInvariance, PTL

(***************************************************************************)
(* The library never kills its caller: the assertions of                   *)
(* claim_remove_from_list hold and its search always finds the claim.      *)
(***************************************************************************)
THEOREM ExclusiveNoFault ==
    ASSUME ExclusiveUse
    PROVE  Spec => []NoFault
<1>1. Inv /\ Exclusive => NoFault
  BY Zenon DEF Exclusive, Holding, NoFault
<1> QED BY <1>1, ExclusiveInvariance, PTL

-----------------------------------------------------------------------------
(* Success and the death of an owner *)

\* Only a killed process can leave list_mutex in another state.
Sound == crashes = 0 => mutex.state = "consistent"

(***************************************************************************)
(* No lock, unlock or wait of the library makes list_mutex inconsistent,   *)
(* and no assertion or copy of it kills a process that owns it.            *)
(***************************************************************************)
LEMMA SoundStep ==
    ASSUME Inv, Exclusive', Sound, NEW h \in Handles, Act(h)
    PROVE  Sound'
<1> SUFFICES ASSUME crashes' = 0 PROVE mutex'.state = "consistent"
  BY Zenon DEF Sound
<1>1. pc \in [Handles -> PC] /\ pc'[h] # "fault"
  BY Zenon DEF Inv, TypeOK, Exclusive, Holding
<1>2. ~ Crash(h)
  BY DEF Crash, Inv, TypeOK
<1>3. crashes' = crashes
  BY <1>2, Zenon DEF Act, ClaimRegion, GiveUp, ReleaseRegion, ReleaseMany, Step, Lock, Scan,
     Relock, WaitFailed, Shift, Store, Bump, Claimed, Dec, Erase, Sweep, Drain, LeaveRemove,
     Signal, SpuriousWake
<1>4. mutex.state = "consistent" /\ mutex \in Mutex(Handles)
  BY <1>3, Zenon DEF Sound, Inv, TypeOK
<1>5. ~ Die(h, "fault")
  BY <1>1, Zenon DEF Die, Goto
<1>6. mutex' \in {mutex, ipm_mutex_lock(mutex, h), RelockAfterWait(mutex, h),
                 ipm_mutex_unlock(mutex, h)}
  <2>1. CASE \/ \E r \in Regions, a \in Modes : ClaimRegion(h, r, a)
             \/ GiveUp(h) \/ SpuriousWake(h)
    BY <2>1, Zenon DEF ClaimRegion, GiveUp, ReleaseRegion, ReleaseMany, SpuriousWake
  <2>2. CASE Step(h)
    BY <1>5, <2>2, Zenon DEF Step, Lock, Scan, Sleep, Unlock, Relock, WaitFailed, Shift, Store,
       Bump, Claimed, Dec, Erase, Sweep, Drain, LeaveRemove, Signal
  <2> QED BY <1>2, <2>1, <2>2, Zenon DEF Act
<1>7. /\ ipm_mutex_lock(mutex, h).state = "consistent"
      /\ RelockAfterWait(mutex, h).state = "consistent"
      /\ ipm_mutex_unlock(mutex, h).state = "consistent"
  BY <1>4 DEF ipm_mutex_lock, RelockAfterWait, pthread_mutex_lock, ipm_mutex_unlock,
     pthread_mutex_unlock, LockSucceeds, Mutex
<1> QED BY <1>4, <1>6, <1>7, Zenon

(***************************************************************************)
(* As long as no process was killed, SUCCESS from claim_region means that  *)
(* the claim is in the list: only a wait that fails on the mutex of a dead *)
(* owner makes claim_region return SUCCESS without a claim.                *)
(***************************************************************************)
THEOREM ExclusiveSuccessMeansListed ==
    ASSUME ExclusiveUse
    PROVE  Spec => [](crashes = 0 => SuccessMeansListed)
<1>1. Init => Sound
  BY DEF Init, Sound, ipm_mutex_init
<1>2. Inv /\ Exclusive' /\ Sound /\ [Next]_vars => Sound'
  <2> SUFFICES ASSUME Inv, Exclusive', Sound, [Next]_vars PROVE Sound'
    BY Zenon
  <2>1. CASE UNCHANGED vars
    BY <2>1, Zenon DEF vars, Sound
  <2> QED BY <2>1, SoundStep, SomeoneActs, Zenon
<1>3. Inv /\ Exclusive /\ Sound /\ HeldIsListed => (crashes = 0 => SuccessMeansListed)
  <2> SUFFICES ASSUME Exclusive, Sound, HeldIsListed, crashes = 0,
                      NEW h \in Handles, NEW c \in held[h]
               PROVE  c \in Active
    BY Zenon DEF SuccessMeansListed
  <2>1. Usable
    BY Zenon DEF Sound, Usable
  <2>2. c.claim_id # NoId
    BY <2>1, Zenon DEF Exclusive, Holding
  <2> QED BY <2>2, Zenon DEF HeldIsListed
<1> QED BY <1>1, <1>2, <1>3, ExclusiveInvariance, ExclusiveHeldIsListed, PTL DEF Spec

-----------------------------------------------------------------------------
\* What each handle was granted: the state of the region lock.
granted == [h \in Handles |-> Granted(h)]

(***************************************************************************)
(* A step after which h has fewer claims and nobody else is affected is a  *)
(* step of the region lock.                                                *)
(***************************************************************************)
LEMMA DropStep ==
    ASSUME NEW h \in Handles, Granted(h)' \subseteq Granted(h),
           \A g \in Handles \ {h} : Granted(g)' = Granted(g)
    PROVE  Promise!Next
<1> DEFINE D == Granted(h) \ Granted(h)'
<1>1. D \in SUBSET granted[h]
  BY Zenon DEF granted
<1>2. granted' = [granted EXCEPT ![h] = @ \ D]
  BY Zenon DEF granted
<1>3. Promise!Drop(h, D)
  BY <1>2, Zenon DEF Promise!Drop, granted
<1> QED BY <1>1, <1>3, Zenon DEF Promise!Next, granted

(***************************************************************************)
(* So is a step that grants a claim to h while nobody else has any.        *)
(***************************************************************************)
LEMMA GrantStep ==
    ASSUME NEW h \in Handles, NEW c, Granted(h)' = Granted(h) \cup {c},
           \A g \in Handles \ {h} : Granted(g)' = Granted(g) /\ Granted(g) = {}
    PROVE  Promise!Next
<1>1. granted' = [granted EXCEPT ![h] = @ \cup {c}] /\ c \in granted'[h]
  BY Zenon DEF granted
<1>2. \A g \in Handles \ {h} : granted[g] = {}
  BY Zenon DEF granted
<1>3. Promise!Grant(h, c)
  BY <1>1, <1>2, Zenon DEF Promise!Grant, granted
<1> QED BY <1>1, <1>3, Zenon DEF Promise!Next, granted

(***************************************************************************)
(* Each step of the library is a step of the region lock or leaves what    *)
(* is granted alone.                                                       *)
(***************************************************************************)
LEMMA StepSimulation ==
    ASSUME Inv, Exclusive, Exclusive', [Next]_vars
    PROVE  Promise!Next \/ UNCHANGED granted
<1>1. CASE UNCHANGED vars
  BY <1>1, Zenon DEF vars, granted, Granted, Live
<1>2. ASSUME NEW h \in Handles, Claimed(h)
      PROVE  Promise!Next
  <2>1. /\ pc[h] = "added" /\ held[h] = {} /\ Only(call[h].claim)
        /\ call[h].claim.proc_id = h /\ call[h].claim.claim_id # NoId
    BY <1>2, Zenon DEF Claimed, Exclusive, Adding, Holding
  <2>2. /\ held'[h] = {call[h].claim} /\ pc'[h] = "idle"
        /\ \A g \in Handles \ {h} : pc'[g] = pc[g] /\ held'[g] = held[g]
    BY <1>2, <2>1, Zenon DEF Claimed, Return, Goto, Inv, TypeOK
  <2>3. Granted(h)' = Granted(h) \cup {call[h].claim}
    BY <2>1, <2>2, Zenon DEF Granted, Live
  <2>4. ASSUME NEW g \in Handles \ {h}
        PROVE  Granted(g)' = Granted(g) /\ Granted(g) = {}
    <3>1. \A c \in held[g] : c.claim_id # NoId => Only(c) /\ c.proc_id = g
      BY Zenon DEF Exclusive, Holding
    <3>2. \A c \in held[g] : c.claim_id = NoId
      BY <2>1, <3>1, Zenon DEF Only
    <3>3. Granted(g) = {}
      BY <3>2, Zenon DEF Granted
    <3>4. Granted(g)' = Granted(g)
      BY <2>2, Zenon DEF Granted, Live
    <3> QED BY <3>3, <3>4, Zenon
  <2> QED BY <2>3, <2>4, GrantStep, Zenon
<1>3. ASSUME NEW h \in Handles, NEW c \in held[h], ReleaseRegion(h, c)
      PROVE  Promise!Next
  BY <1>3, DropStep, Zenon DEF ReleaseRegion, Enter, Goto, Granted, Live, Inv, TypeOK
<1>4. ASSUME NEW h \in Handles, NEW op \in Ops, ReleaseMany(h, op)
      PROVE  Promise!Next
  BY <1>4, DropStep, Zenon DEF ReleaseMany, Enter, Goto, Granted, Live, Inv, TypeOK
<1>5. ASSUME NEW h \in Handles, Crash(h)
      PROVE  Promise!Next
  <2>1. /\ UNCHANGED held /\ pc'[h] = "dead"
        /\ \A g \in Handles \ {h} : pc'[g] = pc[g]
    BY <1>5, Zenon DEF Crash, Die, Goto, Inv, TypeOK
  <2>2. Granted(h)' \subseteq Granted(h)
    BY <2>1, Zenon DEF Granted, Live
  <2>3. \A g \in Handles \ {h} : Granted(g)' = Granted(g)
    BY <2>1, Zenon DEF Granted, Live
  <2> QED BY <2>2, <2>3, DropStep, Zenon
<1>6. ASSUME NEW h \in Handles, WaitFailed(h)
      PROVE  UNCHANGED granted
  <2>1. [call[h].claim EXCEPT !.claim_id = NoId].claim_id = NoId
    BY Zenon DEF Inv, TypeOK, Call, Claim
  <2>2. \A g \in Handles : Granted(g)' = Granted(g)
    BY <1>6, <2>1, Zenon DEF WaitFailed, Return, Goto, Granted, Live, Inv, TypeOK
  <2> QED BY <2>2, Zenon DEF granted
<1>7. ASSUME UNCHANGED held, \A g \in Handles : pc[g] # "dead" => pc'[g] # "dead",
             \A g \in Handles : pc[g] = "dead" => pc'[g] = "dead"
      PROVE  UNCHANGED granted
  <2>1. \A g \in Handles : pc[g] # "fault" /\ pc'[g] # "fault"
    BY Zenon DEF Exclusive, Holding
  <2>2. \A g \in Handles : Granted(g)' = Granted(g)
    BY <1>7, <2>1, Zenon DEF Granted, Live
  <2> QED BY <2>2, Zenon DEF granted
<1>8. ASSUME NEW h \in Handles,
             \/ \E r \in Regions, a \in Modes : ClaimRegion(h, r, a)
             \/ SpuriousWake(h) \/ Relock(h) \/ Shift(h) \/ Store(h) \/ Bump(h)
             \/ Sweep(h) \/ Drain(h) \/ LeaveRemove(h)
      PROVE  UNCHANGED granted
  <2>1. UNCHANGED held
    BY <1>8, Zenon DEF ClaimRegion, SpuriousWake, Relock, Shift, Store, Bump, Sweep, Drain,
       LeaveRemove
  <2>2. \A g \in Handles : pc[g] # "dead" => pc'[g] # "dead"
    BY <1>8, Zenon DEF ClaimRegion, Enter, SpuriousWake, Relock, Shift, Store, Bump, Sweep,
       Drain, LeaveRemove, Return, Goto, Inv, TypeOK
  <2>3. \A g \in Handles : pc[g] = "dead" => pc'[g] = "dead"
    BY <1>8, Zenon DEF ClaimRegion, Enter, SpuriousWake, Relock, Shift, Store, Bump, Sweep,
       Drain, LeaveRemove, Return, Goto, Inv, TypeOK
  <2> QED BY <1>7, <2>1, <2>2, <2>3, Zenon
<1>9. ASSUME NEW h \in Handles,
             Lock(h) \/ Scan(h) \/ Dec(h) \/ Erase(h) \/ Signal(h)
      PROVE  UNCHANGED granted
  <2>1. UNCHANGED held
    BY <1>9, Zenon DEF Lock, Scan, Dec, Erase, Signal
  <2>2. \A g \in Handles : pc[g] = "dead" => pc'[g] = "dead"
    BY <1>9, Zenon DEF Lock, Scan, Sleep, Die, Dec, Erase, Signal, Return, Goto, Inv, TypeOK
  <2>3. \A g \in Handles : pc[g] # "dead" => pc'[g] # "dead"
    <3>1. CASE Erase(h)
      <4>1. AfterRemove(call[h].op) # "dead"
        BY <3>1, Zenon DEF Inv, Control, Erase, AfterRemove, Removes
      <4> QED BY <3>1, <4>1, Zenon DEF Erase, Die, Goto, Inv, TypeOK
    <3>2. CASE Lock(h)
      BY <3>2 DEF Lock, Return, Goto, Inv, TypeOK, Control, Call
    <3>3. CASE Scan(h) \/ Dec(h) \/ Signal(h)
      BY <3>3, Zenon DEF Scan, Sleep, Die, Dec, Signal, Goto, Inv, TypeOK
    <3> QED BY <1>9, <3>1, <3>2, <3>3, Zenon
  <2> QED BY <1>7, <2>1, <2>2, <2>3, Zenon
<1> QED BY <1>1, <1>2, <1>3, <1>4, <1>5, <1>6, <1>8, <1>9, Zenon DEF Next, GiveUp, Step

(***************************************************************************)
(* Used exclusively, the calls implement the region lock that the README   *)
(* describes: every claim that is granted was free to be granted.          *)
(***************************************************************************)
THEOREM ExclusiveImplementsRegionLock ==
    ASSUME ExclusiveUse
    PROVE  Spec => ImplementsRegionLock
<1>1. Init => Promise!Init
  BY Zenon DEF Init, Promise!Init, Granted
<1>2. (Inv /\ Exclusive) /\ (Inv /\ Exclusive)' /\ [Next]_vars
         => [Promise!Next]_granted
  BY StepSimulation, Zenon
<1> QED BY <1>1, <1>2, ExclusiveInvariance, PTL
      DEF Spec, ImplementsRegionLock, Promise!Spec, granted

-----------------------------------------------------------------------------
(* Wake-ups, when claims are given up with release_region *)

(***************************************************************************)
(* As long as nobody is killed the condition's waiters are the handles     *)
(* asleep, and while there are any the claim they wait for is listed or    *)
(* somebody is about to see to it.                                         *)
(***************************************************************************)
Attended ==
    \/ count = 1
    \/ \E g \in Handles : pc[g] \in Critical \cup {"woken", "signal"}

Wakeful ==
    crashes = 0 =>
        /\ mutex.state = "consistent"
        /\ waiters = {h \in Handles : pc[h] = "asleep"}
        /\ \A h \in Handles : pc[h] \notin {"dead", "wait_failed"}
        /\ (\E h \in Handles : pc[h] = "asleep") => Attended

Single ==
    \A h \in Handles :
        /\ call[h].op \in {"none", "claim", "release"}
        /\ pc[h] = "unlock" => call[h].op = "release"

(***************************************************************************)
(* Whoever removes a claim does it for release_region, and goes on to      *)
(* signal: the list is never found empty.                                  *)
(***************************************************************************)
LEMMA SingleStep ==
    ASSUME Ops = {}, Inv, Exclusive, Single, NEW h \in Handles, Act(h)
    PROVE  /\ call'[h].op \in {"none", "claim", "release"}
           /\ pc'[h] = "unlock" => call'[h].op = "release"
<1> USE DEF Inv, TypeOK, Single
<1>1. CASE \E r \in Regions, a \in Modes : ClaimRegion(h, r, a)
  BY <1>1 DEF ClaimRegion, Enter, Goto, NoCall
<1>2. ASSUME NEW c \in held[h], ReleaseRegion(h, c)
      PROVE  call'[h].op = "release"
  BY <1>2, Zenon DEF ReleaseRegion, Enter, Goto, NoCall
<1>3. ~ (\E op \in Ops : ReleaseMany(h, op))
  BY Zenon
<1>4. CASE SpuriousWake(h) \/ Crash(h) \/ Signal(h)
  BY <1>4 DEF SpuriousWake, Crash, Signal, Die, Goto, NoCall
<1>5. CASE Lock(h)
  <2>1. CASE TakeId(h) /\ call[h].op = "claim" /\ Goto(h, "scan")
    BY <2>1, Zenon DEF TakeId, Goto, Call
  <2>2. CASE Return(h) \/ UNCHANGED call
    BY <1>5, <2>2 DEF Lock, Return, Goto, NoCall, Control, Removes, Call
  <2> QED BY <1>5, <2>1, <2>2, Zenon DEF Lock
<1>6. CASE Scan(h)
  BY <1>6 DEF Scan, Sleep, Die, Goto, NoCall
<1>7. CASE Relock(h) \/ WaitFailed(h) \/ Claimed(h)
  BY <1>7 DEF Relock, WaitFailed, Claimed, Return, Goto, NoCall
<1>8. CASE Shift(h) \/ Store(h) \/ Bump(h)
  BY <1>8 DEF Shift, Store, Bump, Goto, Call
<1>9. CASE Dec(h)
  <2>1. count = 1
    BY <1>9, Alone, Zenon DEF Dec, Exclusive, Removing, Only, Control, Removes, Critical
  <2> QED BY <1>9, <2>1 DEF Dec, Die, Goto, NoCall, Call
<1>10. CASE Erase(h)
  <2>1. call[h].op = "release"
    BY <1>10, Zenon DEF Erase, Control, Removes
  <2>2. call'[h] = call[h] \/ (call'[h] = NoCall /\ pc'[h] = "fault")
    BY <1>10, Zenon DEF Erase, Die, Goto
  <2> QED BY <2>1, <2>2 DEF NoCall
<1>11. ~ Sweep(h) /\ ~ Drain(h)
  BY Zenon DEF Sweep, Drain, Control
<1>12. CASE LeaveRemove(h)
  BY <1>12, Zenon DEF LeaveRemove, Return, Goto, NoCall
<1> QED BY <1>1, <1>2, <1>3, <1>4, <1>5, <1>6, <1>7, <1>8, <1>9, <1>10, <1>11, <1>12, ZenonT(30)
        DEF Act, GiveUp, Step

(***************************************************************************)
(* While nobody is killed, what a step does to those asleep, to the        *)
(* waiters and to the mutex.                                               *)
(***************************************************************************)
LEMMA WakefulStep ==
    ASSUME Ops = {}, Inv, Inv', Exclusive, Exclusive', Single, Wakeful,
           NEW h \in Handles, Act(h)
    PROVE  Wakeful'
<1> SUFFICES ASSUME crashes' = 0
             PROVE  /\ mutex'.state = "consistent"
                    /\ waiters' = {g \in Handles : pc'[g] = "asleep"}
                    /\ \A g \in Handles : pc'[g] \notin {"dead", "wait_failed"}
                    /\ (\E g \in Handles : pc'[g] = "asleep") => Attended'
  BY Zenon DEF Wakeful
<1> USE DEF Inv, TypeOK
<1>0. ~ Crash(h)
  BY UseAssumption DEF Crash
<1>1. /\ crashes = 0 /\ mutex.state = "consistent"
      /\ waiters = {g \in Handles : pc[g] = "asleep"}
      /\ \A g \in Handles : pc[g] \notin {"dead", "wait_failed"}
      /\ (\E g \in Handles : pc[g] = "asleep") => Attended
  <2>1. crashes = 0
    BY <1>0, Zenon DEF Act, GiveUp, Step, ClaimRegion, ReleaseRegion, ReleaseMany,
                       SpuriousWake, Lock, Scan, Relock, WaitFailed, Claimed, Shift,
                       Store, Bump, Dec, Erase, Sweep, Drain, LeaveRemove, Signal
  <2> QED BY <2>1, Zenon DEF Wakeful
<1>2. \A g \in Handles : pc'[g] # "fault"
  BY Zenon DEF Exclusive, Holding
<1>3. ipm_mutex_unlock(mutex, h).state = "consistent"
  BY <1>1, Zenon DEF ipm_mutex_unlock, pthread_mutex_unlock
<1> DEFINE Keeps(l) == /\ pc' = [pc EXCEPT ![h] = l]
                       /\ l \notin {"asleep", "dead", "wait_failed"} /\ waiters' = waiters
                       /\ mutex'.state = "consistent" /\ pc[h] # "asleep"
<1>4. ASSUME NEW l, Keeps(l), l \in Critical \cup {"woken", "signal"} \/ count' = 1
      PROVE  Wakeful'
  <2>1. pc'[h] = l /\ \A g \in Handles : g # h => pc'[g] = pc[g]
    BY <1>4, Zenon
  <2>2. Attended'
    BY <1>4, <2>1, Zenon DEF Attended
  <2>3. waiters' = {g \in Handles : pc'[g] = "asleep"}
    BY <1>1, <1>4, <2>1, Zenon
  <2> QED BY <1>1, <1>4, <2>1, <2>2, <2>3, Zenon DEF Wakeful
<1>5. ASSUME NEW l, Keeps(l), count' = count, pc[h] \notin Critical \cup {"woken", "signal"}
      PROVE  Wakeful'
  <2>1. pc'[h] = l /\ \A g \in Handles : g # h => pc'[g] = pc[g]
    BY <1>5, Zenon
  <2>2. Attended => Attended'
    BY <1>5, <2>1, Zenon DEF Attended
  <2>3. waiters' = {g \in Handles : pc'[g] = "asleep"}
    BY <1>1, <1>5, <2>1, Zenon
  <2>4. (\E g \in Handles : pc'[g] = "asleep") => Attended'
    BY <1>1, <1>5, <2>1, <2>2, Zenon
  <2> QED BY <1>1, <1>5, <2>1, <2>3, <2>4, ZenonT(30) DEF Wakeful
<1> HIDE DEF Keeps
<1> SUFFICES Wakeful'
  BY Zenon DEF Wakeful
<1>6. ASSUME NEW r \in Regions, NEW a \in Modes, ClaimRegion(h, r, a)
      PROVE  Wakeful'
  <2>1. Keeps("lock") /\ count' = count /\ pc[h] = "idle"
    BY <1>1, <1>6, Zenon DEF Keeps, ClaimRegion, Enter, Goto, list
  <2> QED BY <1>5, <2>1, Zenon DEF Critical
<1>7. CASE GiveUp(h)
  <2>1. Keeps("lock") /\ count' = count /\ pc[h] = "idle"
    BY <1>1, <1>7, Zenon DEF Keeps, GiveUp, ReleaseRegion, ReleaseMany, Enter, Goto, list
  <2> QED BY <1>5, <2>1, Zenon DEF Critical
<1>8. CASE SpuriousWake(h)
  <2>1. /\ waiters' = waiters \ {h} /\ mutex' = mutex /\ pc'[h] = "woken"
        /\ \A g \in Handles : g # h => pc'[g] = pc[g]
    BY <1>8, Zenon DEF SpuriousWake, Goto
  <2>2. Attended'
    BY <2>1, Zenon DEF Attended
  <2>3. waiters' = {g \in Handles : pc'[g] = "asleep"}
    BY <1>1, <2>1, Zenon
  <2>4. \A g \in Handles : pc'[g] \notin {"dead", "wait_failed"}
    BY <1>1, <2>1, Zenon
  <2> QED BY <1>1, <2>1, <2>2, <2>3, <2>4, Zenon DEF Wakeful
<1>9. CASE Signal(h)
  <2>1. PICK w : \/ waiters = {} /\ waiters' = {}
                 \/ w \in waiters /\ waiters' = waiters \ {w}
    BY <1>9, Zenon DEF Signal, ipm_condition_signal
  <2>2. mutex' = mutex /\ pc'[h] = "idle" /\ pc[h] = "signal"
    BY <1>9, Zenon DEF Signal
  <2>3. \A g \in Handles : g # h =>
          pc'[g] = IF g \in waiters \ waiters' THEN "woken" ELSE pc[g]
    BY <1>1, <1>9, Zenon DEF Signal
  <2>4. waiters' = {g \in Handles : pc'[g] = "asleep"}
    BY <1>1, <2>1, <2>2, <2>3, Zenon
  <2>5. waiters' # {} => Attended'
    <3>1. w \in waiters => pc'[w] = "woken"
      BY <1>1, <2>1, <2>2, <2>3, Zenon
    <3> QED BY <2>1, <3>1, Zenon DEF Attended
  <2>6. \A g \in Handles : pc'[g] \notin {"dead", "wait_failed"}
    BY <1>1, <2>2, <2>3, Zenon
  <2> QED BY <1>1, <2>2, <2>4, <2>5, <2>6, Zenon DEF Wakeful
<1>10. CASE Lock(h)
  <2>1. LockSucceeds(mutex) /\ mutex'.state = "consistent"
    BY <1>1, <1>10, Zenon DEF Lock, LockSucceeds, ipm_mutex_lock, pthread_mutex_lock, Mutex
  <2>2. \E l \in {"scan", "dec", "sweep", "drain"} : pc' = [pc EXCEPT ![h] = l]
    BY <1>10, <2>1 DEF Lock, Goto, Control, Removes, Call
  <2>3. \E l \in Critical : Keeps(l)
    BY <1>10, <2>1, <2>2, Zenon DEF Keeps, Lock, Critical
  <2> QED BY <1>4, <2>3, Zenon
<1>11. CASE Scan(h)
  <2>1. ~ (count > Capacity) /\ count <= Capacity
    BY CapacityAssumption DEF Exclusive
  <2>2. CASE ~ MustWait(call[h].claim)
    <3>1. Keeps("shift")
      BY <1>1, <1>11, <2>1, <2>2, Zenon DEF Keeps, Scan, Goto
    <3> QED BY <1>4, <3>1, Zenon DEF Critical
  <2>3. CASE MustWait(call[h].claim)
    <3>1. /\ waiters' = waiters \cup {h} /\ mutex'.state = "consistent" /\ pc'[h] = "asleep"
          /\ \A g \in Handles : g # h => pc'[g] = pc[g]
          /\ count' = count
      BY <1>3, <1>11, <2>3, Zenon DEF Scan, Sleep, Unlock, Goto, list
    <3>2. count # 0
      <4> SUFFICES ASSUME count = 0 PROVE FALSE
        BY Zenon
      <4>1. Scanned = {} /\ count # Capacity
        BY <2>1, CapacityAssumption DEF Scanned, ActiveClaims
      <4> QED BY <2>3, <4>1, Zenon DEF MustWait
    <3>3. Attended'
      BY <3>1, <3>2, Zenon DEF Attended, Exclusive
    <3>4. waiters' = {g \in Handles : pc'[g] = "asleep"}
      BY <1>1, <3>1, Zenon
    <3>5. \A g \in Handles : pc'[g] \notin {"dead", "wait_failed"}
      BY <1>1, <3>1, Zenon
    <3> QED BY <3>1, <3>3, <3>4, <3>5, Zenon DEF Wakeful
  <2> QED BY <2>2, <2>3, Zenon
<1>12. CASE Relock(h)
  <2>1. Keeps("scan")
    BY <1>1, <1>12, Zenon DEF Keeps, Relock, Goto, WaitSucceeds, RelockAfterWait,
       pthread_mutex_lock, Mutex
  <2> QED BY <1>4, <2>1, Zenon DEF Critical
<1>13. ~ WaitFailed(h)
  BY <1>1, Zenon DEF WaitFailed
<1>14. CASE Claimed(h)
  <2>1. count = 1 /\ Keeps("idle") /\ count' = count
    BY <1>3, <1>14, ZenonT(30) DEF Keeps, Claimed, Unlock, Return, Goto, list, Exclusive,
       Adding, Only
  <2> QED BY <1>4, <2>1, Zenon
<1>15. CASE Shift(h) \/ Store(h) \/ Bump(h)
  <2>1. \E l \in {"store", "bump", "added"} : Keeps(l)
    BY <1>1, <1>15, Zenon DEF Keeps, Shift, Store, Bump, Goto
  <2> QED BY <1>4, <2>1, Zenon DEF Critical
<1>16. CASE Dec(h)
  <2>1. \E l \in {"erase", "unlock"} : pc' = [pc EXCEPT ![h] = l] /\ mutex' = mutex
    BY <1>2, <1>16, Zenon DEF Dec, Die, Goto
  <2>2. \E l \in {"erase", "unlock"} : Keeps(l)
    BY <1>1, <1>16, <2>1, Zenon DEF Keeps, Dec
  <2> QED BY <1>4, <2>2, Zenon DEF Critical
<1>17. CASE Erase(h)
  <2>1. \E l \in {"unlock", "sweep", "drain"} : pc' = [pc EXCEPT ![h] = l] /\ mutex' = mutex
    BY <1>2, <1>17, Zenon DEF Erase, Die, Goto, AfterRemove, Control, Removes
  <2>2. \E l \in {"unlock", "sweep", "drain"} : Keeps(l)
    BY <1>1, <1>17, <2>1, Zenon DEF Keeps, Erase
  <2> QED BY <1>4, <2>2, Zenon DEF Critical
<1>18. ~ Sweep(h) /\ ~ Drain(h)
  BY Zenon DEF Sweep, Drain, Control, Single
<1>19. CASE LeaveRemove(h)
  <2>1. Keeps("signal")
    BY <1>3, <1>19, Zenon DEF Keeps, LeaveRemove, Unlock, Goto, Single
  <2> QED BY <1>4, <2>1, Zenon
<1> QED
  BY <1>0, <1>6, <1>7, <1>8, <1>9, <1>10, <1>11, <1>12, <1>13, <1>14, <1>15, <1>16, <1>17,
     <1>18, <1>19, ZenonT(30) DEF Act, Step

(***************************************************************************)
(* As long as nobody is killed no wake-up is lost: a handle asleep in      *)
(* claim_region still has to wait, or somebody is in the list, on the way  *)
(* to it or about to signal.  For any number of writers that give their    *)
(* claims up with release_region.                                          *)
(***************************************************************************)
THEOREM ExclusiveNoLostWakeup ==
    ASSUME ExclusiveUse, Ops = {}
    PROVE  Spec => []NoLostWakeup
<1>1. Init => Single /\ Wakeful
  BY DEF Init, Single, Wakeful, NoCall, ipm_mutex_init
<1>2. Inv /\ Inv' /\ Exclusive /\ Exclusive' /\ Single /\ Wakeful /\ [Next]_vars
          => Single' /\ Wakeful'
  <2> SUFFICES ASSUME Inv, Inv', Exclusive, Exclusive', Single, Wakeful, [Next]_vars
               PROVE  Single' /\ Wakeful'
    BY Zenon
  <2>1. CASE UNCHANGED vars
    BY <2>1, Zenon DEF vars, Single, Wakeful, Attended
  <2>2. ASSUME NEW h \in Handles, Act(h)
        PROVE  Single' /\ Wakeful'
    <3>1. Wakeful'
      BY <2>2, WakefulStep, Zenon
    <3>2. ASSUME NEW g \in Handles, g # h
          PROVE  /\ call'[g] = call[g]
                 /\ pc'[g] = pc[g] \/ (pc[g] = "asleep" /\ pc'[g] = "woken")
      BY <2>2, <3>2, Others, Zenon
    <3>3. Single'
      BY <2>2, <3>2, SingleStep, ZenonT(30) DEF Single
    <3> QED BY <3>1, <3>3, Zenon
  <2> QED BY <2>1, <2>2, SomeoneActs, Zenon
<1>3. Inv /\ Exclusive /\ Wakeful => NoLostWakeup
  <2> SUFFICES ASSUME Inv, Exclusive, Wakeful, crashes = 0, NEW h \in Handles,
                      pc[h] = "asleep"
               PROVE  \/ MustWait(call[h].claim)
                      \/ \E g \in Handles : pc[g] \in Critical \cup {"woken", "signal"}
    BY Zenon DEF NoLostWakeup
  <2>1. Usable /\ Attended
    BY Zenon DEF Wakeful, Usable
  <2>2. CASE count = 1
    BY <2>1, <2>2, ListedMakesWait, Zenon
  <2> QED BY <2>1, <2>2, Zenon DEF Attended
<1> QED BY <1>1, <1>2, <1>3, ExclusiveInvariance, PTL DEF Spec
=============================================================================
