---------------------------- MODULE ClaimRegions ----------------------------
(***************************************************************************)
(* The claim operations of ipm_memory.c: claim_region, release_region,     *)
(* release_all and remove_all_active_claims, run by several handles        *)
(* (ipm_memory objects, one thread each, in any number of processes) on    *)
(* one claim list in shared memory.                                        *)
(*                                                                         *)
(* Each handle runs one library call at a time; pc says where in it.  The  *)
(* steps are the points that another process or a crash can tell apart:    *)
(* taking and leaving the mutex, sleeping, and each write to the shared    *)
(* list.  A memmove is one step.                                           *)
(***************************************************************************)
EXTENDS MemoryClaim, IpmPlatform, FiniteSets

CONSTANTS
    Handles,       \* the open handles; a handle is its own access_id
    NoProc,        \* the access_id 0 of a slot never written
    ReadOnly,      \* the handles opened for reading only
    Regions,       \* the [offset, size] regions that are asked for
    Modes,         \* the access modes that are asked for
    Nested,        \* may a handle claim while it holds another claim?
    Ops,           \* the calls made beside claim_region and release_region
    BlockSize,     \* real_memory.size, the same in every handle
    Spurious,      \* do sleepers also wake without a signal?
    Asserts,       \* is the library built without NDEBUG?
    MaxClaims,     \* bound: no claim is asked for once so many were made
    MaxCrashes     \* bound: how many processes are killed

ASSUME HandleAssumption == NoOwner \notin Handles /\ NoProc \notin Handles
ASSUME RegionAssumption ==
    Regions \subseteq [offset : 0 .. SIZE_MAX, size : 1 .. SIZE_MAX]
ASSUME UseAssumption ==
    /\ Modes \subseteq AccessModes /\ Ops \subseteq {"release_all", "remove_all"}
    /\ Nested \in BOOLEAN /\ Spurious \in BOOLEAN /\ Asserts \in BOOLEAN
    /\ MaxClaims \in Nat /\ MaxCrashes \in Nat /\ BlockSize \in Nat

VARIABLES
    mutex,           \* list_mutex
    waiters,         \* the threads pthread_cond_signal may pick, dead or not
    count,           \* list->count
    claim_counter,   \* list->claim_counter
    claims,          \* list->claims
    pc,              \* where each handle is in its call
    call,            \* the locals of that call
    held,            \* the claims each caller was told it has
    crashes          \* processes killed so far

list == <<count, claims>>
vars == <<mutex, waiters, count, claim_counter, claims, pc, call, held, crashes>>

NoId == -1     \* *p_claim_id was never written

Claim == [claim_id : Nat \cup {NoId}, proc_id : Handles \cup {NoProc},
          access : AccessModes, offset : 0 .. SIZE_MAX, size : 0 .. SIZE_MAX]

\* Shared memory is zero when it is created.
ZeroClaim == [claim_id |-> 0, proc_id |-> NoProc, access |-> READ_ONLY,
              offset |-> 0, size |-> 0]

NoClaim == [ZeroClaim EXCEPT !.claim_id = NoId]

Call == [op : {"none", "claim", "release", "release_all", "remove_all"},
         claim : Claim,         \* the claim to add, or to remove
         n : 0 .. SIZE_MAX,     \* count as claim_remove_from_list read it
         i : Nat]               \* the index of release_all's loop

NoCall == [op |-> "none", claim |-> ZeroClaim, n |-> 0, i |-> 0]

\* Where a handle owns list_mutex.
Critical == {"scan", "shift", "store", "bump", "added",
             "dec", "erase", "sweep", "drain", "unlock"}

PC == Critical \cup {"idle", "lock", "asleep", "woken", "wait_failed",
                     "signal", "dead", "fault"}

Live(h) == pc[h] \notin {"dead", "fault"}

TypeOK ==
    /\ mutex \in Mutex(Handles)
    /\ waiters \in SUBSET Handles
    /\ count \in 0 .. SIZE_MAX
    /\ claim_counter \in Nat
    /\ claims \in [Slots -> Claim]
    /\ pc \in [Handles -> PC]
    /\ call \in [Handles -> Call]
    /\ held \in [Handles -> SUBSET Claim]
    /\ crashes \in 0 .. MaxCrashes

Init ==
    /\ mutex = ipm_mutex_init
    /\ waiters = {}
    /\ count = 0
    /\ claim_counter = 0
    /\ claims = [i \in Slots |-> ZeroClaim]
    /\ pc = [h \in Handles |-> "idle"]
    /\ call = [h \in Handles |-> NoCall]
    /\ held = [h \in Handles |-> {}]
    /\ crashes = 0

-----------------------------------------------------------------------------
Goto(h, l) == pc' = [pc EXCEPT ![h] = l]

Enter(h, op, claim) ==
    /\ Goto(h, "lock")
    /\ call' = [call EXCEPT ![h] = [NoCall EXCEPT !.op = op, !.claim = claim]]

Return(h) ==
    /\ Goto(h, "idle")
    /\ call' = [call EXCEPT ![h] = NoCall]

Unlock(h) == mutex' = ipm_mutex_unlock(mutex, h)

\* The process is gone; a handle asleep stays registered in the condition.
Die(h, how) ==
    /\ Goto(h, how)
    /\ call' = [call EXCEPT ![h] = NoCall]
    /\ mutex' = OwnerDies(mutex, h)

-----------------------------------------------------------------------------
(* The calls.  Arguments that fail the checks return without any effect.   *)

InBlock(r) == ~ (BlockSize < SizeAdd(r.offset, r.size))

ClaimRegion(h, r, a) ==
    /\ pc[h] = "idle"
    /\ claim_counter < MaxClaims
    /\ Nested \/ held[h] = {}
    /\ ~ (h \in ReadOnly /\ a = READ_WRITE)
    /\ InBlock(r)
    /\ Enter(h, "claim", [claim_id |-> NoId, proc_id |-> h, access |-> a,
                          offset |-> r.offset, size |-> r.size])
    /\ UNCHANGED <<mutex, waiters, list, claim_counter, held, crashes>>

\* The caller stops using a region when it asks to release it.
ReleaseRegion(h, c) ==
    /\ pc[h] = "idle"
    /\ c \in held[h]
    /\ Enter(h, "release", c)
    /\ held' = [held EXCEPT ![h] = @ \ {c}]
    /\ UNCHANGED <<mutex, waiters, list, claim_counter, crashes>>

\* release_all (also the first thing ipm_memory_close does) or remove_all.
ReleaseMany(h, op) ==
    /\ pc[h] = "idle"
    /\ Enter(h, op, ZeroClaim)
    /\ held' = [held EXCEPT ![h] = {}]
    /\ UNCHANGED <<mutex, waiters, list, claim_counter, crashes>>

TakeId_reused(h) ==
    /\ call' = [call EXCEPT ![h].claim.claim_id = claim_counter]
    /\ UNCHANGED claim_counter

TakeId(h) ==
    /\ call' = [call EXCEPT ![h].claim.claim_id = claim_counter]
    /\ claim_counter' = claim_counter + 1

(***************************************************************************)
(* ipm_mutex_lock, with which every call starts; claim_region then takes   *)
(* its claim id.  If the lock fails the call returns the error.            *)
(***************************************************************************)
Lock(h) ==
    /\ pc[h] = "lock"
    /\ LockReturns(mutex)
    /\ mutex' = ipm_mutex_lock(mutex, h)
    /\ \/ /\ ~ LockSucceeds(mutex)
          /\ Return(h)
          /\ UNCHANGED claim_counter
       \/ /\ LockSucceeds(mutex) /\ call[h].op = "claim"
          /\ Goto(h, "scan")
          /\ TakeId(h)
       \/ /\ LockSucceeds(mutex) /\ call[h].op # "claim"
          /\ Goto(h, CASE call[h].op = "release" -> "dec"
                       [] call[h].op = "release_all" -> "sweep"
                       [] call[h].op = "remove_all" -> "drain")
          /\ UNCHANGED <<call, claim_counter>>
    /\ UNCHANGED <<waiters, list, held, crashes>>

-----------------------------------------------------------------------------
(* claim_region *)

\* The claims the scan can see; an underflowed count covers every slot.
Scanned == ActiveClaims(claims, IF count > Capacity THEN Capacity ELSE count)

MustWait_no_limit(c) == \E d \in Scanned : claims_conflict(c, d)

MustWait(c) ==
    \/ \E d \in Scanned : claims_conflict(c, d)
    \/ count = Capacity

Sleep_keeps_lock(h) ==
    /\ Goto(h, "asleep")
    /\ waiters' = waiters \cup {h}
    /\ UNCHANGED <<mutex, call>>

\* ipm_condition_wait: leave the mutex and sleep, in one step.
Sleep(h) ==
    /\ Goto(h, "asleep")
    /\ waiters' = waiters \cup {h}
    /\ Unlock(h)
    /\ UNCHANGED call

(***************************************************************************)
(* The scan for conflicting claims.  With an underflowed count and no      *)
(* conflict among the slots it reads past the array: it faults or, if the  *)
(* memory there looks like a conflicting claim, sleeps.                    *)
(***************************************************************************)
Scan(h) ==
    /\ pc[h] = "scan"
    /\ \/ MustWait(call[h].claim) /\ Sleep(h)
       \/ /\ ~ MustWait(call[h].claim) /\ count <= Capacity
          /\ Goto(h, "shift")
          /\ UNCHANGED <<mutex, waiters, call>>
       \/ /\ ~ MustWait(call[h].claim) /\ count > Capacity
          /\ Sleep(h) \/ (Die(h, "fault") /\ UNCHANGED waiters)
    /\ UNCHANGED <<list, claim_counter, held, crashes>>

SpuriousWake(h) ==
    /\ Spurious
    /\ pc[h] = "asleep"
    /\ Goto(h, "woken")
    /\ waiters' = waiters \ {h}
    /\ UNCHANGED <<mutex, list, claim_counter, call, held, crashes>>

Relock_no_rescan(h) ==
    /\ pc[h] = "woken"
    /\ LockReturns(mutex)
    /\ mutex' = RelockAfterWait(mutex, h)
    /\ Goto(h, IF WaitSucceeds(mutex) THEN "shift" ELSE "wait_failed")
    /\ UNCHANGED <<waiters, list, claim_counter, call, held, crashes>>

Relock_unlocked(h) ==
    /\ pc[h] = "woken"
    /\ Goto(h, IF WaitSucceeds(mutex) THEN "scan" ELSE "wait_failed")
    /\ UNCHANGED <<mutex, waiters, list, claim_counter, call, held, crashes>>

\* ipm_condition_wait takes the mutex back and returns.
Relock(h) ==
    /\ pc[h] = "woken"
    /\ LockReturns(mutex)
    /\ mutex' = RelockAfterWait(mutex, h)
    /\ Goto(h, IF WaitSucceeds(mutex) THEN "scan" ELSE "wait_failed")
    /\ UNCHANGED <<waiters, list, claim_counter, call, held, crashes>>

(***************************************************************************)
(* The wait failed: unlock and return SUCCESS, with no claim in the list   *)
(* and *p_claim_id not written.                                            *)
(***************************************************************************)
WaitFailed(h) ==
    /\ pc[h] = "wait_failed"
    /\ Unlock(h)
    /\ held' = [held EXCEPT ![h] =
                    @ \cup {[call[h].claim EXCEPT !.claim_id = NoId]}]
    /\ Return(h)
    /\ UNCHANGED <<waiters, list, claim_counter, crashes>>

\* claim_add_to_list makes room, stores the claim, then counts it.
Shift(h) ==
    /\ pc[h] = "shift"
    /\ claims' = ShiftForInsert(claims, count, InsertPos(claims, count, call[h].claim))
    /\ call' = [call EXCEPT ![h].i = InsertPos(claims, count, call[h].claim)]
    /\ Goto(h, "store")
    /\ UNCHANGED <<mutex, waiters, count, claim_counter, held, crashes>>

Store(h) ==
    /\ pc[h] = "store"
    /\ claims' = [claims EXCEPT ![call[h].i] = call[h].claim]
    /\ Goto(h, "bump")
    /\ UNCHANGED <<mutex, waiters, count, claim_counter, call, held, crashes>>

Bump_missing(h) ==
    /\ pc[h] = "bump"
    /\ Goto(h, "added")
    /\ UNCHANGED <<mutex, waiters, list, claim_counter, call, held, crashes>>

Bump(h) ==
    /\ pc[h] = "bump"
    /\ count' = count + 1
    /\ Goto(h, "added")
    /\ UNCHANGED <<mutex, waiters, claims, claim_counter, call, held, crashes>>

Claimed(h) ==
    /\ pc[h] = "added"
    /\ Unlock(h)
    /\ held' = [held EXCEPT ![h] = @ \cup {call[h].claim}]
    /\ Return(h)
    /\ UNCHANGED <<waiters, list, claim_counter, crashes>>

-----------------------------------------------------------------------------
(* claim_remove_from_list and its three callers *)

\* Where the call goes once a claim is removed.
AfterRemove(op) ==
    CASE op = "release" -> "unlock"
      [] op = "release_all" -> "sweep"
      [] op = "remove_all" -> "drain"

(***************************************************************************)
(* The count is lowered first.  assert(count < list->capacity && count >   *)
(* 0) aborts in a build with assertions; without them an empty list is     *)
(* reported as an invalid claim (by a return that does not signal).        *)
(***************************************************************************)
Dec(h) ==
    /\ pc[h] = "dec"
    /\ count' = SizeDec(count)
    /\ \/ /\ Asserts /\ ~ (count < Capacity /\ count > 0)
          /\ Die(h, "fault")
       \/ /\ ~ Asserts /\ count = 0
          /\ Goto(h, "unlock")
          /\ call' = [call EXCEPT ![h].op = "none"]
          /\ UNCHANGED mutex
       \/ /\ count > 0 /\ (Asserts => count < Capacity)
          /\ Goto(h, "erase")
          /\ call' = [call EXCEPT ![h].n = count]
          /\ UNCHANGED mutex
    /\ UNCHANGED <<waiters, claims, claim_counter, held, crashes>>

\* An underflowed count lets the search go through the whole array first.
ErasePos(h) ==
    FindPos(claims, IF call[h].n > Capacity THEN Capacity ELSE call[h].n,
            call[h].claim.claim_id)

Erase(h) ==
    /\ pc[h] = "erase"
    /\ \/ /\ EraseFaults(call[h].n, ErasePos(h))
          /\ claims' \in EraseOverrun(claims, ErasePos(h))
          /\ Die(h, "fault")
       \/ /\ ~ EraseFaults(call[h].n, ErasePos(h))
          /\ claims' = EraseAt(claims, call[h].n, ErasePos(h))
          /\ Goto(h, AfterRemove(call[h].op))
          /\ UNCHANGED <<mutex, call>>
    /\ UNCHANGED <<waiters, count, claim_counter, held, crashes>>

Sweep_no_step_back(h) ==
    /\ pc[h] = "sweep"
    /\ LET more == count <= Capacity /\ call[h].i < count
           mine == claims[call[h].i].proc_id = h
       IN \/ /\ ~ more
             /\ Goto(h, "unlock")
             /\ UNCHANGED call
          \/ /\ more /\ mine
             /\ Goto(h, "dec")
             /\ call' = [call EXCEPT ![h].claim = claims[call[h].i], ![h].i = @ + 1]
          \/ /\ more /\ ~ mine
             /\ call' = [call EXCEPT ![h].i = @ + 1]
             /\ UNCHANGED pc
    /\ UNCHANGED <<mutex, waiters, list, claim_counter, held, crashes>>

(***************************************************************************)
(* release_all: remove every claim of this handle.  The loop compares its  *)
(* int index with (int)count, so an underflowed count ends it at once.     *)
(***************************************************************************)
Sweep(h) ==
    /\ pc[h] = "sweep"
    /\ LET more == count <= Capacity /\ call[h].i < count
           mine == claims[call[h].i].proc_id = h
       IN \/ /\ ~ more
             /\ Goto(h, "unlock")
             /\ UNCHANGED call
          \/ /\ more /\ mine
             /\ Goto(h, "dec")
             /\ call' = [call EXCEPT ![h].claim = claims[call[h].i]]
          \/ /\ more /\ ~ mine
             /\ call' = [call EXCEPT ![h].i = @ + 1]
             /\ UNCHANGED pc
    /\ UNCHANGED <<mutex, waiters, list, claim_counter, held, crashes>>

(***************************************************************************)
(* remove_all_active_claims: remove the last claim until none is left.     *)
(* With an underflowed count the id is read from outside the array: it may *)
(* be any claim's or none's.                                               *)
(***************************************************************************)
Drain(h) ==
    /\ pc[h] = "drain"
    /\ \/ /\ count = 0
          /\ Goto(h, "unlock")
          /\ UNCHANGED call
       \/ /\ count > 0
          /\ Goto(h, "dec")
          /\ \E c \in IF count > Capacity
                      THEN {claims[i] : i \in Slots} \cup {NoClaim}
                      ELSE {claims[count - 1]} :
                call' = [call EXCEPT ![h].claim = c]
    /\ UNCHANGED <<mutex, waiters, list, claim_counter, held, crashes>>

LeaveRemove_no_signal(h) ==
    /\ pc[h] = "unlock"
    /\ Unlock(h)
    /\ Return(h)
    /\ UNCHANGED <<waiters, list, claim_counter, held, crashes>>

\* Only a successful release_region goes on to signal the condition.
LeaveRemove(h) ==
    /\ pc[h] = "unlock"
    /\ Unlock(h)
    /\ IF call[h].op = "release"
       THEN Goto(h, "signal") /\ UNCHANGED call
       ELSE Return(h)
    /\ UNCHANGED <<waiters, list, claim_counter, held, crashes>>

\* Wakes one sleeper, if there is any; a dead one can absorb the signal.
Signal(h) ==
    /\ pc[h] = "signal"
    /\ waiters' \in ipm_condition_signal(waiters)
    /\ pc' = [g \in Handles |->
                CASE g = h -> "idle"
                  [] g # h /\ g \in waiters \ waiters' /\ pc[g] = "asleep" -> "woken"
                  [] OTHER -> pc[g]]
    /\ call' = [call EXCEPT ![h] = NoCall]
    /\ UNCHANGED <<mutex, list, claim_counter, held, crashes>>

-----------------------------------------------------------------------------
\* The process is killed from outside, at any point of a call.
Crash(h) ==
    /\ Live(h)
    /\ crashes < MaxCrashes
    /\ crashes' = crashes + 1
    /\ Die(h, "dead")
    /\ UNCHANGED <<waiters, list, claim_counter, held>>

\* A step inside the library, which the caller cannot hold back.
Step(h) ==
    \/ Lock(h) \/ Scan(h) \/ Relock(h) \/ WaitFailed(h)
    \/ Shift(h) \/ Store(h) \/ Bump(h) \/ Claimed(h)
    \/ Dec(h) \/ Erase(h) \/ Sweep(h) \/ Drain(h) \/ LeaveRemove(h) \/ Signal(h)

\* The caller gives a claim up.
GiveUp(h) ==
    \/ \E c \in held[h] : ReleaseRegion(h, c)
    \/ \E op \in Ops : ReleaseMany(h, op)

Next ==
    \E h \in Handles :
        \/ \E r \in Regions, a \in Modes : ClaimRegion(h, r, a)
        \/ GiveUp(h)
        \/ Step(h)
        \/ SpuriousWake(h)
        \/ Crash(h)

Spec == Init /\ [][Next]_vars

(***************************************************************************)
(* The scheduler runs every thread that can run, and every caller gives up *)
(* each claim in the end.  Nobody has to make claims, be killed or wake    *)
(* without a signal.                                                       *)
(***************************************************************************)
Fairness ==
    \A h \in Handles :
        /\ WF_vars(Step(h))
        /\ WF_vars(held[h] # {} /\ GiveUp(h))

FairSpec == Spec /\ Fairness

-----------------------------------------------------------------------------
(* Properties *)

Active == Scanned

\* The claims of a live caller that claim_region did put in the list.
Granted(h) == IF Live(h) THEN {c \in held[h] : c.claim_id # NoId} ELSE {}

Promise == INSTANCE RegionLock WITH granted <- [h \in Handles |-> Granted(h)]

(***************************************************************************)
(* Two live handles never hold claims that overlap when one of them is for *)
(* writing, however their calls interleave: what claim_region is for.      *)
(***************************************************************************)
MutualExclusion ==
    \A g, h \in Handles : g # h =>
        \A c \in Granted(g), d \in Granted(h) : ~ Promise!Conflict(c, d)

(***************************************************************************)
(* The calls implement the reader-writer lock on regions of the README.    *)
(***************************************************************************)
ImplementsRegionLock == Promise!Spec

(***************************************************************************)
(* Every claim a caller was given stays in the active part of the list     *)
(* until it is released: no call of another handle, and no crash, removes  *)
(* or overwrites it.  The claims of a process that was killed stay too,    *)
(* and go on keeping others out of what it may have left half written.     *)
(***************************************************************************)
HeldIsListed ==
    \A h \in Handles : {c \in held[h] : c.claim_id # NoId} \subseteq Active

(***************************************************************************)
(* When claim_region returns SUCCESS the claim is in the list.             *)
(***************************************************************************)
SuccessMeansListed ==
    \A h \in Handles : Live(h) => held[h] \subseteq Active

(***************************************************************************)
(* The library never kills its caller: neither assertion of                *)
(* claim_remove_from_list fails and no memmove or scan leaves the array.   *)
(***************************************************************************)
NoFault == \A h \in Handles : pc[h] # "fault"

(***************************************************************************)
(* At most one handle is inside the critical section, however processes    *)
(* die in it or sleep in it: robust recovery (ipm_mutex_lock) and the wait *)
(* in claim_region never let two of them at the list at once.              *)
(***************************************************************************)
OneInside ==
    \A g, h \in Handles : pc[g] \in Critical /\ pc[h] \in Critical => g = h

(***************************************************************************)
(* assert(list->capacity > list->count) of claim_add_to_list: the room     *)
(* that claim_region's scan saw is still there when the claim is added.    *)
(***************************************************************************)
AddHasRoom ==
    \A h \in Handles : pc[h] \in {"shift", "store", "bump"} => count < Capacity

(***************************************************************************)
(* No two claims that callers have, ask to release or are adding share an  *)
(* id, so a release can never mean the claim of somebody else.             *)
(***************************************************************************)
InPlay(h) ==
    IF ~ Live(h) THEN {}
    ELSE Granted(h) \cup
         {c \in {call[h].claim} :
             call[h].op \in {"claim", "release"} /\ c.claim_id # NoId}

IdsUnique ==
    \A g, h \in Handles : \A c \in InPlay(g), d \in InPlay(h) :
        c.claim_id = d.claim_id => g = h /\ c = d

(***************************************************************************)
(* The counter never falls below the number of claims that live callers    *)
(* have: release_region never meets an empty list and never underflows it, *)
(* even though entries of the list get lost.                               *)
(***************************************************************************)
CountCoversHolders ==
    count >= Cardinality(UNION {Granted(h) : h \in Handles})

(***************************************************************************)
(* Once list_mutex is unrecoverable (a process died in the critical        *)
(* section and a sleeper took the mutex over) no call touches the list.    *)
(***************************************************************************)
PoisonedListFrozen ==
    [][mutex.state = "unrecoverable" => UNCHANGED <<list, claim_counter>>]_vars

(***************************************************************************)
(* When release_all leaves the list, and count has not underflowed (it is  *)
(* at most the capacity), no entry of its handle is active: stepping back  *)
(* after each removal makes up for the entries that claim_remove_from_list *)
(* moves or duplicates.                                                    *)
(***************************************************************************)
ReleaseAllComplete ==
    \A h \in Handles :
        pc[h] = "unlock" /\ call[h].op = "release_all" /\ count <= Capacity
            => \A c \in Active : c.proc_id # h

(***************************************************************************)
(* claim_remove_from_list kills its caller for two reasons only: the list  *)
(* was full (its assertion wants count < capacity), or the claim is not in *)
(* the list any more.  It never finds the list empty and never overlooks   *)
(* an entry.                                                               *)
(***************************************************************************)
FaultCauses ==
    [][\A h \in Handles : pc[h] # "fault" /\ pc'[h] = "fault" =>
          \/ pc[h] = "dec" /\ count = Capacity
          \/ pc[h] = "erase" /\ call[h].claim \notin ActiveClaims(claims, call[h].n)]_vars

(***************************************************************************)
(* A handle asleep in claim_region still has to wait, or somebody is in    *)
(* the list or on the way to it or about to signal: whoever updates the    *)
(* list so that a sleeper can go on also wakes one.  (A killed process may *)
(* take a signal with it.)                                                 *)
(***************************************************************************)
NoLostWakeup ==
    crashes = 0 => \A h \in Handles :
        pc[h] = "asleep" =>
            \/ MustWait(call[h].claim)
            \/ \E g \in Handles : pc[g] \in Critical \cup {"woken", "signal"}

(***************************************************************************)
(* Once callers stop making claims, and if none of them was killed, every  *)
(* claim_region call has returned: nobody sleeps forever on a list that    *)
(* others have given up.                                                   *)
(***************************************************************************)
AllServed == <>[](crashes = 0 => \A h \in Handles : pc[h] = "idle")
=============================================================================
