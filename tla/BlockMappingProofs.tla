------------------------- MODULE BlockMappingProofs -------------------------
(***************************************************************************)
(* Proofs about growing and remapping, for every set of handles, page size *)
(* and sequence of requests, any number of calls and crashes, with system  *)
(* calls that fail or not and with or without assertions.                  *)
(***************************************************************************)
EXTENDS BlockMapping, TLAPS

(***************************************************************************)
(* round_size of ipm_memory.c returns a size that is not smaller.          *)
(***************************************************************************)
LEMMA RoundSizeType ==
    ASSUME NEW n \in Nat
    PROVE  round_size(n) \in Nat /\ round_size(n) >= n
BY MappingAssumption DEF round_size

(***************************************************************************)
(* A multiple has remainder 0.                                             *)
(***************************************************************************)
LEMMA MultipleRemainder ==
    ASSUME NEW p \in Nat \ {0}, NEW k \in Int
    PROVE  (p * k) % p = 0
OBVIOUS

(***************************************************************************)
(* round_size returns whole pages, which shared_memory_block_resize        *)
(* asserts.                                                                *)
(***************************************************************************)
LEMMA RoundSizePages ==
    ASSUME NEW n \in Nat
    PROVE  round_size(n) % PageSize = 0
<1> DEFINE q == n \div PageSize
<1>1. q \in Int /\ n = PageSize * q + (n % PageSize)
  BY MappingAssumption
<1>2. CASE n % PageSize # 0
  <2>1. n + (PageSize - (n % PageSize)) = PageSize * (q + 1)
    <3> HIDE DEF q
    <3>1. PageSize * (q + 1) = PageSize * q + PageSize
      BY <1>1, MappingAssumption
    <3> QED BY <1>1, <3>1, MappingAssumption
  <2>2. (PageSize * (q + 1)) % PageSize = 0
    BY <1>1, MappingAssumption, MultipleRemainder
  <2> QED BY <1>2, <2>1, <2>2, Zenon DEF round_size
<1> QED BY <1>2, Zenon DEF round_size

-----------------------------------------------------------------------------
(* Type correctness *)

(***************************************************************************)
(* Every operation on segment_mutex gives a mutex.                         *)
(***************************************************************************)
LEMMA MutexType ==
    ASSUME NEW m \in Mutex(Handles), NEW h \in Handles
    PROVE  /\ ipm_mutex_lock(m, h) \in Mutex(Handles)
           /\ ipm_mutex_unlock(m, h) \in Mutex(Handles)
           /\ OwnerDies(m, h) \in Mutex(Handles)
BY Zenon DEF Mutex, MutexState, ipm_mutex_lock, pthread_mutex_lock, LockSucceeds,
       ipm_mutex_unlock, pthread_mutex_unlock, OwnerDies

(***************************************************************************)
(* The constant records that stand for nothing have their types.           *)
(***************************************************************************)
LEMMA Blanks ==
    /\ NULL \in Mapping /\ NoBlock \in Block /\ NoCall \in Call
    /\ NULL.size = 0 /\ NoBlock.size = 0 /\ NoBlock.memory = NULL
    /\ NoBlock.access_mode = "RO" /\ NoCall.size = 0 /\ NoCall.op = "none"
BY Zenon DEF NULL, Mapping, NoBlock, Block, NoCall, Call, AccessMode

(***************************************************************************)
(* munmap leaves a set of mappings and a set of handles.                   *)
(***************************************************************************)
LEMMA UnmapType ==
    ASSUME TypeOK, NEW h \in Handles, NEW pointer, NEW len, Unmap(h, pointer, len)
    PROVE  /\ maps' \in [Handles -> SUBSET Mapping]
           /\ stray' \in SUBSET Handles
           /\ maps'[h] \subseteq maps[h]
           /\ maps[h] \ {pointer} \subseteq maps'[h]
           /\ \A g \in Handles : g # h => maps'[g] = maps[g]
<1>1. maps \in [Handles -> SUBSET Mapping] /\ stray \in SUBSET Handles
  BY Zenon DEF TypeOK
<1> QED BY <1>1, Zenon DEF Unmap

(***************************************************************************)
(* Every step keeps the types of the variables.                            *)
(***************************************************************************)
LEMMA TypeStep ==
    ASSUME TypeOK, [Next]_vars
    PROVE  TypeOK'
<1> USE DEF PC, InCall, Resizing, Critical
<1>1. CASE UNCHANGED vars
  BY <1>1, Zenon DEF TypeOK, vars
<1>2. ASSUME NEW h \in Handles, ResizeGrow(h) PROVE TypeOK'
  <2>1. PICK r \in Requests :
            /\ round_size(r) >= block[h].size
            /\ IF Asserts /\ ~ ResizeAsserts(round_size(r))
               THEN Die(h, "fault")
               ELSE /\ Goto(h, "lock")
                    /\ call' = [call EXCEPT ![h] = [op |-> "resize", size |-> round_size(r),
                                            access_mode |-> block[h].access_mode]]
                    /\ UNCHANGED <<block, maps>>
    BY <1>2, Zenon DEF ResizeGrow
  <2>2. round_size(r) \in Nat
    BY MappingAssumption, RoundSizeType, Zenon
  <2>3. /\ pc' \in [Handles -> PC] /\ call' \in [Handles -> Call]
        /\ block' \in [Handles -> Block] /\ maps' \in [Handles -> SUBSET Mapping]
    <3>1. CASE Die(h, "fault")
      BY <3>1, Blanks, Zenon DEF TypeOK, Die, Goto
    <3>2. CASE /\ Goto(h, "lock")
               /\ call' = [call EXCEPT ![h] = [op |-> "resize", size |-> round_size(r),
                                       access_mode |-> block[h].access_mode]]
               /\ UNCHANGED <<block, maps>>
      <4>1. block[h].access_mode \in AccessMode
        BY Zenon DEF TypeOK, Block
      <4>2. [op |-> "resize", size |-> round_size(r),
             access_mode |-> block[h].access_mode] \in Call
        BY <2>2, <4>1, Zenon DEF Call
      <4> QED BY <3>2, <4>2, Zenon DEF TypeOK, Goto
    <3> QED BY <2>1, <3>1, <3>2, Zenon
  <2>4. calls' \in 0 .. MaxCalls /\ orderly' \in BOOLEAN
    BY <1>2, MappingAssumption DEF ResizeGrow, Begin, TypeOK
  <2> QED BY <1>2, <2>3, <2>4, Zenon DEF ResizeGrow, TypeOK
<1>3. ASSUME NEW h \in Handles, NEW op \in {"sync", "change"}, NEW access \in AccessMode,
             StartRemap(h, op, access)
      PROVE  TypeOK'
  BY <1>3, MappingAssumption DEF StartRemap, Begin, Goto, TypeOK, Call
<1>4. ASSUME NEW h \in Handles, Sync(h) PROVE TypeOK'
  <2>1. block[h].access_mode \in AccessMode
    BY Zenon DEF TypeOK, Block
  <2> QED BY <1>3, <1>4, <2>1, Zenon DEF Sync
<1>5. ASSUME NEW h \in Handles, ChangeAccess(h) PROVE TypeOK'
  BY <1>3, <1>5, Zenon DEF ChangeAccess
<1>6. ASSUME NEW h \in Handles, Open(h) PROVE TypeOK'
  BY <1>6, MappingAssumption DEF Open, Begin, Goto, TypeOK, Call
<1>7. ASSUME NEW h \in Handles, Close(h) PROVE TypeOK'
  <2>1. maps' \in [Handles -> SUBSET Mapping] /\ stray' \in SUBSET Handles
    BY <1>7, UnmapType, Zenon DEF Close
  <2>2. calls' \in 0 .. MaxCalls
    BY <1>7, MappingAssumption DEF Close, Begin, TypeOK
  <2>3. pc' \in [Handles -> PC] /\ block' \in [Handles -> Block]
    BY <1>7, Blanks, Zenon DEF Close, Goto, TypeOK
  <2> QED BY <1>7, <2>1, <2>2, <2>3, Zenon DEF Close, TypeOK
<1>8. ASSUME NEW h \in Handles, Lock(h) PROVE TypeOK'
  BY <1>8, MutexType, Blanks, Zenon DEF Lock, Goto, Return, TypeOK
<1>9. ASSUME NEW h \in Handles, Compare(h) PROVE TypeOK'
  BY <1>9 DEF Compare, Goto, TypeOK, Call
<1>10. ASSUME NEW h \in Handles, Store(h) PROVE TypeOK'
  BY <1>10, Zenon DEF Store, Goto, TypeOK, Call
<1>11. ASSUME NEW h \in Handles, Unlock(h) PROVE TypeOK'
  BY <1>11, MutexType, Zenon DEF Unlock, Goto, TypeOK
<1>12. ASSUME NEW h \in Handles, GiveUp(h) PROVE TypeOK'
  BY <1>12, MutexType, Blanks, Zenon DEF GiveUp, Goto, Return, TypeOK
<1>13. ASSUME NEW h \in Handles, Remap(h) PROVE TypeOK'
  <2>1. maps' \in [Handles -> SUBSET Mapping] /\ stray' \in SUBSET Handles
    BY <1>13, UnmapType, Zenon DEF Remap, TypeOK
  <2>2. pc' \in [Handles -> PC] /\ call' \in [Handles -> Call]
    <3>1. [call EXCEPT ![h].size = block_size] \in [Handles -> Call]
      BY Zenon DEF TypeOK, Call
    <3> QED BY <1>13, <3>1, Blanks, Zenon DEF Remap, Goto, Return, TypeOK
  <2>3. block' \in [Handles -> Block]
    <3>1. [block EXCEPT ![h].memory = NULL] \in [Handles -> Block]
      BY Blanks, Zenon DEF TypeOK, Block
    <3> QED BY <1>13, <3>1, Zenon DEF Remap, TypeOK
  <2> QED BY <1>13, <2>1, <2>2, <2>3, Zenon DEF Remap, TypeOK
<1>14. ASSUME NEW h \in Handles, Mmap(h) PROVE TypeOK'
  <2>1. pc' \in [Handles -> PC] /\ call' \in [Handles -> Call]
    BY <1>14, Blanks, Zenon DEF Mmap, Goto, Return, TypeOK
  <2>2. block' \in [Handles -> Block]
    <3> DEFINE new == [block[h] EXCEPT !.size = call[h].size,
                                       !.access_mode = call[h].access_mode, !.memory = NULL]
               lost == [block[h] EXCEPT !.size = 0, !.access_mode = "RO"]
    <3>1. new \in Block /\ lost \in Block
      BY Blanks, Zenon DEF TypeOK, Call, Block, AccessMode
    <3>2. block' = [block EXCEPT ![h] = new] \/ block' = [block EXCEPT ![h] = lost]
      BY <1>14, Zenon DEF Mmap, TypeOK
    <3> QED BY <3>1, <3>2, Zenon DEF TypeOK
  <2>3. maps' \in [Handles -> SUBSET Mapping] /\ granted' \in SUBSET Handles
    BY <1>14 DEF Mmap, TypeOK, Call, Mapping
  <2> QED BY <1>14, <2>1, <2>2, <2>3, Zenon DEF Mmap, TypeOK
<1>15. ASSUME NEW h \in Handles, OpenMap(h) PROVE TypeOK'
  <2>1. pc' \in [Handles -> PC] /\ call' \in [Handles -> Call]
    BY <1>15, Blanks, Zenon DEF OpenMap, Goto, TypeOK
  <2>2. block' \in [Handles -> Block]
    BY <1>15 DEF OpenMap, TypeOK, Call, Block, Mapping
  <2>3. maps' \in [Handles -> SUBSET Mapping] /\ granted' \in SUBSET Handles
    BY <1>15 DEF OpenMap, TypeOK, Call, Mapping
  <2> QED BY <1>15, <2>1, <2>2, <2>3, Zenon DEF OpenMap, TypeOK
<1>16. ASSUME NEW h \in Handles, Crash(h) PROVE TypeOK'
  BY <1>16, MutexType, Blanks, MappingAssumption DEF Crash, Die, Goto, TypeOK
<1> QED BY <1>1, <1>2, <1>4, <1>5, <1>6, <1>7, <1>8, <1>9, <1>10, <1>11, <1>12,
           <1>13, <1>14, <1>15, <1>16, Zenon DEF Next, Step
-----------------------------------------------------------------------------
(* The inductive invariant *)

\* A handle inside shared_memory_block_resize's critical section has the mutex.
Locked ==
    /\ segment_mutex.state # "unrecoverable"
    /\ segment_mutex.owner # NoOwner => segment_mutex.state = "consistent"
    /\ \A h \in Handles : pc[h] \in Critical => segment_mutex.owner = h

\* Between ftruncate and the store, and when nobody is there.
Agreed ==
    /\ \A h \in Handles : pc[h] = "store" => length = call[h].size
    /\ crashes = 0 /\ (\A h \in Handles : pc[h] # "store") => block_size = length

\* What orderly resizes keep true.
Ordered ==
    /\ 0 < block_size /\ block_size <= length
    /\ \A g, h \in Handles : pc[g] \in Resizing /\ pc[h] \in Resizing => g = h
    /\ \A h \in Handles : pc[h] \in Resizing => call[h].size >= block_size
    /\ \A h \in Handles : pc[h] \in {"mmap", "open"} => call[h].size <= block_size
    /\ \A h \in Handles : \A m \in maps[h] : m.size <= block_size

\* With assertions no resize asks for 0 bytes, and the block always has some.
Positive ==
    Asserts => /\ block_size > 0
               /\ \A h \in Handles : pc[h] \in Resizing => call[h].size > 0

\* What the copies of a handle say of its mappings.
Own(b) == [size |-> b.size, access_mode |-> b.access_mode]

Recorded(h) ==
    /\ pc[h] \in {"closed", "open", "dead", "fault"} => block[h] = NoBlock
    /\ pc[h] = "mmap" => block[h].memory = NULL
    /\ pc[h] # "mmap" /\ block[h].size > 0 => Own(block[h]) \in maps[h]
    /\ block[h].memory # NULL => block[h].memory = Own(block[h]) /\ block[h].size > 0

\* A handle that is writable, or that will map itself so again, may write.
Writable(h) ==
    /\ block[h].access_mode = "RW" => h \in granted
    /\ pc[h] \in Resizing \cup {"remap", "mmap"} /\ call[h].op # "change"
       /\ call[h].access_mode = "RW" => h \in granted

Inv ==
    /\ TypeOK /\ Locked /\ Agreed /\ Positive
    /\ orderly => Ordered
    /\ \A h \in Handles : Recorded(h) /\ Writable(h)

\* The steps that handle h can take.
Act(h) ==
    \/ ResizeGrow(h) \/ Sync(h) \/ ChangeAccess(h) \/ Open(h) \/ Close(h)
    \/ Step(h)
    \/ Crash(h)

(***************************************************************************)
(* A step of one handle leaves the call, the copies, the mappings and the  *)
(* rights of every other handle alone: they are private to its process.    *)
(***************************************************************************)
LEMMA OthersKept ==
    ASSUME TypeOK, NEW h \in Handles, NEW g \in Handles, g # h, Act(h)
    PROVE  /\ pc'[g] = pc[g] /\ call'[g] = call[g]
           /\ block'[g] = block[g] /\ maps'[g] = maps[g]
           /\ g \in granted' <=> g \in granted
<1> USE DEF Goto, Return, Begin
<1>0. /\ pc \in [Handles -> PC] /\ call \in [Handles -> Call]
      /\ block \in [Handles -> Block] /\ maps \in [Handles -> SUBSET Mapping]
  BY Zenon DEF TypeOK
<1>1. CASE ResizeGrow(h)
  BY <1>0, <1>1, Zenon DEF ResizeGrow, Die
<1>2. CASE Sync(h)
  BY <1>0, <1>2, Zenon DEF Sync, StartRemap
<1>3. CASE ChangeAccess(h)
  BY <1>0, <1>3, Zenon DEF ChangeAccess, StartRemap
<1>4. CASE Open(h)
  BY <1>0, <1>4, Zenon DEF Open
<1>5. CASE Close(h)
  BY <1>0, <1>5, UnmapType, Zenon DEF Close
<1>6. CASE Lock(h)
  BY <1>0, <1>6, Zenon DEF Lock
<1>7. CASE Compare(h)
  BY <1>0, <1>7, Zenon DEF Compare
<1>8. CASE Store(h)
  BY <1>0, <1>8, Zenon DEF Store
<1>9. CASE Unlock(h)
  BY <1>0, <1>9, Zenon DEF Unlock
<1>10. CASE GiveUp(h)
  BY <1>0, <1>10, Zenon DEF GiveUp
<1>11. CASE Remap(h)
  BY <1>0, <1>11, UnmapType, Zenon DEF Remap
<1>12. CASE Mmap(h)
  BY <1>0, <1>12, Zenon DEF Mmap
<1>13. CASE OpenMap(h)
  BY <1>0, <1>13, Zenon DEF OpenMap
<1>14. CASE Crash(h)
  BY <1>0, <1>14, Zenon DEF Crash, Die
<1> QED BY <1>1, <1>2, <1>3, <1>4, <1>5, <1>6, <1>7, <1>8, <1>9, <1>10, <1>11, <1>12,
           <1>13, <1>14, Zenon DEF Act, Step

(***************************************************************************)
(* A step of handle h either is one of its steps on segment_mutex or       *)
(* leaves the mutex alone; only Lock goes into the critical section.       *)
(***************************************************************************)
LEMMA LockedStep ==
    ASSUME TypeOK, Locked, NEW h \in Handles, Act(h)
    PROVE  Locked'
<1> USE DEF Goto, Critical
<1>0. pc \in [Handles -> PC] /\ segment_mutex \in Mutex(Handles) /\ NoOwner \notin Handles
  BY MappingAssumption, Zenon DEF TypeOK
<1>1. \A g \in Handles : g # h => pc'[g] = pc[g]
  BY OthersKept, Zenon
<1>2. ASSUME segment_mutex' = segment_mutex, pc'[h] \in Critical => pc[h] \in Critical
      PROVE  Locked'
  BY <1>1, <1>2, Zenon DEF Locked
<1>3. CASE ResizeGrow(h)
  BY <1>0, <1>2, <1>3, Zenon DEF ResizeGrow, Die
<1>4. CASE Sync(h) \/ ChangeAccess(h)
  BY <1>0, <1>2, <1>4, Zenon DEF Sync, ChangeAccess, StartRemap
<1>5. CASE Open(h) \/ Close(h)
  BY <1>0, <1>2, <1>5, Zenon DEF Open, Close
<1>6. CASE Lock(h)
  <2>1. segment_mutex.owner = NoOwner /\ segment_mutex' = [owner |-> h, state |-> "consistent"]
    BY <1>0, <1>6, Zenon DEF Lock, Locked, LockReturns, LockSucceeds, ipm_mutex_lock,
                      pthread_mutex_lock, Mutex
  <2>2. \A g \in Handles : pc[g] \notin Critical
    BY <1>0, <2>1, Zenon DEF Locked
  <2> QED BY <1>1, <2>1, <2>2, Zenon DEF Locked
<1>7. CASE Compare(h) \/ Store(h)
  BY <1>0, <1>2, <1>7, Zenon DEF Compare, Store
<1>8. CASE Unlock(h) \/ GiveUp(h)
  <2>1. segment_mutex.owner = h /\ segment_mutex.state = "consistent"
    BY <1>0, <1>8, Zenon DEF Unlock, GiveUp, Locked
  <2>2. segment_mutex' = [owner |-> NoOwner, state |-> "consistent"]
    BY <1>8, <2>1, Zenon DEF Unlock, GiveUp, ipm_mutex_unlock, pthread_mutex_unlock
  <2>3. pc'[h] \notin Critical
    BY <1>0, <1>8, Zenon DEF Unlock, GiveUp, Return
  <2>4. \A g \in Handles : pc'[g] \notin Critical
    BY <1>1, <2>1, <2>3, Zenon DEF Locked
  <2> QED BY <2>2, <2>4, Zenon DEF Locked
<1>9. CASE Remap(h) \/ Mmap(h) \/ OpenMap(h)
  BY <1>0, <1>2, <1>9, Zenon DEF Remap, Mmap, OpenMap, Return
<1>10. CASE Crash(h)
  <2>1. pc'[h] \notin Critical
    BY <1>0, <1>10, Zenon DEF Crash, Die
  <2>2. segment_mutex' = OwnerDies(segment_mutex, h)
    BY <1>10, Zenon DEF Crash
  <2>3. CASE segment_mutex.owner = h
    <3>1. segment_mutex' = [owner |-> NoOwner, state |-> "inconsistent"]
      BY <2>2, <2>3, Zenon DEF OwnerDies
    <3>2. \A g \in Handles : pc'[g] \notin Critical
      BY <1>1, <2>1, <2>3, Zenon DEF Locked
    <3> QED BY <3>1, <3>2, Zenon DEF Locked
  <2>4. CASE segment_mutex.owner # h
    BY <1>2, <2>1, <2>2, <2>4, Zenon DEF OwnerDies
  <2> QED BY <2>3, <2>4, Zenon
<1> QED BY <1>3, <1>4, <1>5, <1>6, <1>7, <1>8, <1>9, <1>10, Zenon DEF Act, Step

(***************************************************************************)
(* ftruncate and the store of block_size are one critical section: nobody  *)
(* else is between them, and only a death leaves the two sizes different.  *)
(***************************************************************************)
LEMMA AgreedStep ==
    ASSUME TypeOK, Locked, Agreed, NEW h \in Handles, Act(h)
    PROVE  Agreed'
<1> USE DEF Goto
<1>0. /\ pc \in [Handles -> PC] /\ call \in [Handles -> Call]
      /\ NoOwner \notin Handles /\ crashes \in Nat
  BY MappingAssumption DEF TypeOK
<1>1. \A g \in Handles : g # h => pc'[g] = pc[g] /\ call'[g] = call[g]
  BY OthersKept, Zenon
<1>2. ASSUME length' = length, block_size' = block_size, crashes' = crashes,
             pc[h] # "store", pc'[h] # "store"
      PROVE  Agreed'
  BY <1>1, <1>2, Zenon DEF Agreed
<1>3. CASE ResizeGrow(h)
  BY <1>0, <1>2, <1>3, Zenon DEF ResizeGrow, Begin, Die
<1>4. CASE Sync(h) \/ ChangeAccess(h)
  BY <1>0, <1>2, <1>4, Zenon DEF Sync, ChangeAccess, StartRemap, Begin
<1>5. CASE Open(h) \/ Close(h)
  BY <1>0, <1>2, <1>5, Zenon DEF Open, Close, Begin
<1>6. CASE Lock(h) \/ Unlock(h) \/ GiveUp(h)
  BY <1>0, <1>2, <1>6, Zenon DEF Lock, Unlock, GiveUp, Return
<1>7. CASE Compare(h)
  <2>1. \A g \in Handles : g # h => pc[g] # "store"
    BY <1>7, Zenon DEF Compare, Locked, Critical
  <2>2. CASE pc'[h] = "store"
    <3>1. length' = call[h].size /\ call' = call
      BY <1>0, <1>7, <2>2, Zenon DEF Compare
    <3> QED BY <1>1, <2>1, <2>2, <3>1, Zenon DEF Agreed
  <2>3. CASE pc'[h] # "store"
    BY <1>0, <1>2, <1>7, <2>3, Zenon DEF Compare
  <2> QED BY <2>2, <2>3, Zenon
<1>8. CASE Store(h)
  <2>1. \A g \in Handles : g # h => pc[g] # "store"
    BY <1>8, Zenon DEF Store, Locked, Critical
  <2>2. length' = block_size'
    BY <1>8, Zenon DEF Store, Agreed
  <2>3. \A g \in Handles : pc'[g] # "store"
    BY <1>0, <1>1, <1>8, <2>1, Zenon DEF Store
  <2> QED BY <2>2, <2>3, Zenon DEF Agreed
<1>9. CASE Remap(h) \/ Mmap(h) \/ OpenMap(h)
  BY <1>0, <1>2, <1>9, Zenon DEF Remap, Mmap, OpenMap, Return
<1>10. CASE Crash(h)
  <2>1. crashes' # 0 /\ pc'[h] # "store" /\ length' = length
    BY <1>0, <1>10 DEF Crash, Die
  <2> QED BY <1>1, <2>1, Zenon DEF Agreed
<1> QED BY <1>3, <1>4, <1>5, <1>6, <1>7, <1>8, <1>9, <1>10, Zenon DEF Act, Step

(***************************************************************************)
(* Orderly resizes stay orderly: they pass the assertions, come one at a   *)
(* time and only grow the block, so every mapping made of it stays within. *)
(***************************************************************************)
LEMMA OrderedStep ==
    ASSUME TypeOK, Locked, Agreed, orderly => Ordered, NEW h \in Handles, Act(h), orderly'
    PROVE  Ordered'
<1> USE DEF Goto
<1>0. /\ pc \in [Handles -> PC] /\ call \in [Handles -> Call]
      /\ block \in [Handles -> Block] /\ maps \in [Handles -> SUBSET Mapping]
      /\ block_size \in Nat /\ length \in Nat /\ NoOwner \notin Handles
  BY MappingAssumption, Zenon DEF TypeOK
<1>1. \A g \in Handles : g # h => pc'[g] = pc[g] /\ call'[g] = call[g] /\ maps'[g] = maps[g]
  BY OthersKept, Zenon
<1>2. orderly
  BY Zenon DEF Act, Step, ResizeGrow, Sync, ChangeAccess, StartRemap, Open, Close, Lock, Compare,
         Store, Unlock, GiveUp, Remap, Mmap, OpenMap, Crash
<1>3. Ordered
  BY <1>2, Zenon
<1>4. ASSUME length' = length, block_size' = block_size, maps'[h] \subseteq maps[h],
             pc'[h] \in Resizing => pc[h] \in Resizing /\ call'[h] = call[h],
             pc'[h] \in {"mmap", "open"} => call'[h].size <= block_size
      PROVE  Ordered'
  BY <1>1, <1>3, <1>4, Zenon DEF Ordered
<1>5. CASE ResizeGrow(h)
  <2>1. block[h].size = block_size /\ \A g \in Handles : pc[g] \notin Resizing
    BY <1>5, Zenon DEF ResizeGrow, InOrder
  <2>2. PICK r \in Requests :
            /\ round_size(r) >= block[h].size
            /\ IF Asserts /\ ~ ResizeAsserts(round_size(r))
               THEN Die(h, "fault")
               ELSE /\ Goto(h, "lock")
                    /\ call' = [call EXCEPT ![h] = [op |-> "resize", size |-> round_size(r),
                                            access_mode |-> block[h].access_mode]]
                    /\ UNCHANGED <<block, maps>>
    BY <1>5, Zenon DEF ResizeGrow
  <2>3. r \in Nat /\ round_size(r) \in Nat
    BY MappingAssumption, RoundSizeType, Zenon
  <2>4. ResizeAsserts(round_size(r))
    BY <1>0, <1>3, <2>1, <2>2, <2>3, RoundSizePages DEF ResizeAsserts, Ordered
  <2>5. pc'[h] = "lock" /\ call'[h].size = round_size(r) /\ maps' = maps
    BY <1>0, <2>2, <2>4
  <2>6. length' = length /\ block_size' = block_size
    BY <1>5, Zenon DEF ResizeGrow
  <2> QED BY <1>1, <1>3, <2>1, <2>2, <2>5, <2>6, Zenon DEF Ordered
<1>6. CASE Sync(h) \/ ChangeAccess(h)
  BY <1>0, <1>4, <1>6, Zenon DEF Sync, ChangeAccess, StartRemap, Resizing, Critical
<1>7. CASE Open(h)
  BY <1>0, <1>4, <1>7 DEF Open, Resizing, Critical
<1>8. CASE Close(h)
  BY <1>0, <1>4, <1>8, UnmapType, Zenon DEF Close, Resizing, Critical
<1>9. CASE Lock(h) \/ Unlock(h) \/ GiveUp(h)
  BY <1>0, <1>4, <1>9, Zenon DEF Lock, Unlock, GiveUp, Return, Resizing, Critical
<1>10. CASE Compare(h)
  <2>1. pc[h] \in Resizing /\ pc'[h] \in Resizing /\ call' = call /\ maps' = maps
        /\ block_size' = block_size
    BY <1>0, <1>10, Zenon DEF Compare, Resizing, Critical
  <2>2. block_size <= length'
    BY <1>3, <1>10, <2>1, Zenon DEF Compare, Ordered
  <2>3. pc'[h] \notin {"mmap", "open"}
    BY <1>0, <1>10, Zenon DEF Compare
  <2> QED BY <1>1, <1>3, <2>1, <2>2, <2>3, Zenon DEF Ordered
<1>11. CASE Store(h)
  <2>1. /\ pc[h] \in Resizing /\ pc'[h] \in Resizing /\ call' = call /\ maps' = maps
        /\ block_size' = call[h].size /\ length' = length
    BY <1>0, <1>11, Zenon DEF Store, Resizing, Critical
  <2>2. block_size' \in Nat /\ block_size' >= block_size /\ block_size' = length
    BY <1>0, <1>3, <1>11, <2>1, Zenon DEF Store, Ordered, Agreed, Call
  <2>3. \A g \in Handles : pc'[g] \in Resizing => g = h
    BY <1>1, <1>3, <2>1, Zenon DEF Ordered
  <2>4. pc'[h] \notin {"mmap", "open"}
    BY <1>0, <1>11, Zenon DEF Store
  <2>5. \A g \in Handles : pc'[g] \in {"mmap", "open"} => call'[g].size <= block_size'
    BY <1>0, <1>1, <1>3, <2>1, <2>2, <2>4 DEF Ordered, Call
  <2>6. \A g \in Handles : \A m \in maps'[g] : m.size <= block_size'
    BY <1>0, <1>3, <2>1, <2>2 DEF Ordered, Mapping
  <2>7. \A g \in Handles : pc'[g] \in Resizing => call'[g].size >= block_size'
    <3>1. call'[h].size = block_size'
      BY <2>1, Zenon
    <3>2. call'[h].size >= block_size'
      BY <2>2, <3>1
    <3> QED BY <2>3, <3>2, Zenon
  <2>8. 0 < block_size' /\ block_size' <= length'
    BY <1>0, <1>3, <2>1, <2>2 DEF Ordered
  <2> QED BY <2>3, <2>5, <2>6, <2>7, <2>8, Zenon DEF Ordered
<1>12. CASE Remap(h)
  <2>1. maps'[h] \subseteq maps[h] /\ length' = length /\ block_size' = block_size
    BY <1>12, UnmapType, Zenon DEF Remap
  <2>2. pc'[h] = "idle" \/ (pc'[h] = "mmap" /\ call'[h].size = block_size)
    <3>1. CASE call' = [call EXCEPT ![h].size = block_size] /\ Goto(h, "mmap")
      <4>1. call'[h] = [call[h] EXCEPT !.size = block_size] /\ call[h] \in Call
        BY <1>0, <3>1, Zenon
      <4>2. call'[h].size = block_size
        BY <4>1, Zenon DEF Call
      <4> QED BY <1>0, <3>1, <4>2, Zenon
    <3>2. CASE Return(h)
      <4>1. pc'[h] = "idle"
        BY <1>0, <3>2, Zenon DEF Return
      <4> QED BY <4>1, Zenon
    <3> QED BY <1>12, <3>1, <3>2, Zenon DEF Remap
  <2> QED BY <1>0, <1>4, <2>1, <2>2 DEF Resizing, Critical
<1>13. CASE Mmap(h) \/ OpenMap(h)
  <2>1. pc'[h] \in {"idle", "closed"} /\ length' = length /\ block_size' = block_size
    BY <1>0, <1>13, Zenon DEF Mmap, OpenMap, Return
  <2>2. \A m \in maps'[h] : m \in maps[h] \/ m.size = call[h].size
    <3> DEFINE new == [size |-> call[h].size, access_mode |-> call[h].access_mode]
    <3>1. maps' = maps \/ maps' = [maps EXCEPT ![h] = @ \cup {new}]
      BY <1>13, Zenon DEF Mmap, OpenMap
    <3>2. new.size = call[h].size
      BY Zenon
    <3> HIDE DEF new
    <3> QED BY <1>0, <3>1, <3>2
  <2>3. call[h].size <= block_size
    BY <1>3, <1>13, Zenon DEF Mmap, OpenMap, Ordered
  <2>4. \A m \in maps'[h] : m.size <= block_size
    BY <1>3, <2>2, <2>3, Zenon DEF Ordered
  <2> QED BY <1>1, <1>3, <2>1, <2>4, Zenon DEF Ordered, Resizing, Critical
<1>14. CASE Crash(h)
  BY <1>0, <1>4, <1>14, Zenon DEF Crash, Die, Resizing, Critical
<1> QED BY <1>5, <1>6, <1>7, <1>8, <1>9, <1>10, <1>11, <1>12, <1>13, <1>14, Zenon DEF Act, Step

(***************************************************************************)
(* A resize that gets past the assertions asks for at least a page.        *)
(***************************************************************************)
LEMMA PositiveStep ==
    ASSUME TypeOK, Positive, NEW h \in Handles, Act(h)
    PROVE  Positive'
<1> USE DEF Goto
<1>0. pc \in [Handles -> PC] /\ call \in [Handles -> Call]
  BY Zenon DEF TypeOK
<1>1. \A g \in Handles : g # h => pc'[g] = pc[g] /\ call'[g] = call[g]
  BY OthersKept, Zenon
<1>2. ASSUME block_size' = block_size,
             pc'[h] \in Resizing => pc[h] \in Resizing /\ call'[h] = call[h]
      PROVE  Positive'
  BY <1>1, <1>2, Zenon DEF Positive
<1>3. CASE ResizeGrow(h)
  <2>1. block_size' = block_size
    BY <1>3, Zenon DEF ResizeGrow
  <2>2. CASE Die(h, "fault")
    BY <1>0, <1>2, <2>1, <2>2, Zenon DEF Die, Resizing, Critical
  <2>3. CASE ~ Die(h, "fault")
    <3>1. PICK r \in Requests :
              /\ Asserts => ResizeAsserts(round_size(r))
              /\ call' = [call EXCEPT ![h] = [op |-> "resize", size |-> round_size(r),
                                      access_mode |-> block[h].access_mode]]
      BY <1>3, <2>3, Zenon DEF ResizeGrow
    <3>2. call'[h].size = round_size(r)
      BY <1>0, <3>1, Zenon
    <3>3. Asserts => call'[h].size > 0
      BY <3>1, <3>2, Zenon DEF ResizeAsserts
    <3> QED BY <1>1, <2>1, <3>3, Zenon DEF Positive
  <2> QED BY <2>2, <2>3, Zenon
<1>4. CASE Sync(h) \/ ChangeAccess(h)
  BY <1>0, <1>2, <1>4, Zenon DEF Sync, ChangeAccess, StartRemap, Resizing, Critical
<1>5. CASE Open(h) \/ Close(h)
  BY <1>0, <1>2, <1>5, Zenon DEF Open, Close, Resizing, Critical
<1>6. CASE Lock(h) \/ Unlock(h) \/ GiveUp(h)
  BY <1>0, <1>2, <1>6, Zenon DEF Lock, Unlock, GiveUp, Return, Resizing, Critical
<1>7. CASE Compare(h)
  BY <1>0, <1>2, <1>7, Zenon DEF Compare, Resizing, Critical
<1>8. CASE Store(h)
  <2>1. pc[h] \in Resizing /\ call' = call /\ block_size' = call[h].size
    BY <1>8, Zenon DEF Store, Resizing, Critical
  <2> QED BY <1>1, <2>1, Zenon DEF Positive
<1>9. CASE Remap(h) \/ Mmap(h) \/ OpenMap(h)
  BY <1>0, <1>2, <1>9, Zenon DEF Remap, Mmap, OpenMap, Return, Resizing, Critical
<1>10. CASE Crash(h)
  BY <1>0, <1>2, <1>10, Zenon DEF Crash, Die, Resizing, Critical
<1> QED BY <1>3, <1>4, <1>5, <1>6, <1>7, <1>8, <1>9, <1>10, Zenon DEF Act, Step

(***************************************************************************)
(* What a handle says of itself stays true: the copies of size and access  *)
(* describe a mapping of its process, and the address is NULL or the       *)
(* address of that mapping, through every remap and every failure.         *)
(***************************************************************************)
LEMMA RecordedStep ==
    ASSUME TypeOK, NEW h \in Handles, Recorded(h), Act(h)
    PROVE  Recorded(h)'
<1> USE DEF Goto
<1>0. /\ pc \in [Handles -> PC] /\ call \in [Handles -> Call]
      /\ block \in [Handles -> Block] /\ maps \in [Handles -> SUBSET Mapping]
  BY Zenon DEF TypeOK
<1>1. ASSUME block'[h] = block[h], maps'[h] = maps[h], pc[h] # "mmap",
             pc'[h] \notin {"mmap", "open", "closed", "dead", "fault"}
      PROVE  Recorded(h)'
  BY <1>1, Zenon DEF Recorded, Own
<1>2. ASSUME block'[h] = NoBlock
      PROVE  Recorded(h)'
  BY <1>2, Blanks DEF Recorded, Own
<1>3. CASE ResizeGrow(h)
  BY <1>0, <1>1, <1>2, <1>3, Zenon DEF ResizeGrow, Begin, Die
<1>4. CASE Sync(h) \/ ChangeAccess(h)
  BY <1>0, <1>1, <1>4, Zenon DEF Sync, ChangeAccess, StartRemap, Begin
<1>5. CASE Open(h)
  BY <1>0, <1>2, <1>5, Zenon DEF Open, Begin, Recorded
<1>6. CASE Close(h)
  BY <1>0, <1>2, <1>6, Zenon DEF Close
<1>7. CASE Lock(h) \/ Compare(h) \/ Store(h) \/ Unlock(h) \/ GiveUp(h)
  BY <1>0, <1>1, <1>7, Zenon DEF Lock, Compare, Store, Unlock, GiveUp, Return
<1>8. CASE Remap(h)
  <2>1. CASE Return(h) /\ UNCHANGED <<block, maps, stray>>
    BY <1>0, <1>1, <1>8, <2>1, Zenon DEF Remap, Return
  <2>2. CASE block' = [block EXCEPT ![h].memory = NULL] /\ Goto(h, "mmap")
    <3>1. block'[h].memory = NULL
      BY <1>0, <2>2, Zenon DEF Block
    <3>2. pc'[h] = "mmap"
      BY <1>0, <2>2, Zenon
    <3> QED BY <3>1, <3>2, Zenon DEF Recorded
  <2> QED BY <1>8, <2>1, <2>2, Zenon DEF Remap
<1>9. CASE Mmap(h)
  <2> DEFINE new == [size |-> call[h].size, access_mode |-> call[h].access_mode]
  <2>1. pc'[h] = "idle"
    BY <1>0, <1>9, Zenon DEF Mmap, Return
  <2>2. block[h].memory = NULL /\ block[h] \in Block
    BY <1>0, <1>9, Zenon DEF Mmap, Recorded
  <2>3. CASE /\ maps' = [maps EXCEPT ![h] = @ \cup {new}]
             /\ block' = [block EXCEPT ![h].size = new.size,
                                       ![h].access_mode = new.access_mode,
                                       ![h].memory = NULL]
    <3>1. /\ block'[h].size = new.size /\ block'[h].access_mode = new.access_mode
          /\ block'[h].memory = NULL
      BY <1>0, <2>2, <2>3, Zenon DEF Block
    <3>2. Own(block[h])' = new /\ new \in maps'[h]
      BY <1>0, <2>3, <3>1, Zenon DEF Own
    <3> QED BY <2>1, <3>1, <3>2, Zenon DEF Recorded
  <2>4. CASE block' = [block EXCEPT ![h].size = 0, ![h].access_mode = "RO"]
    <3>1. block'[h].size = 0 /\ block'[h].memory = NULL
      BY <1>0, <2>2, <2>4, Zenon DEF Block
    <3> QED BY <2>1, <3>1 DEF Recorded
  <2> QED BY <1>9, <2>3, <2>4, Zenon DEF Mmap
<1>10. CASE OpenMap(h)
  <2> DEFINE new == [size |-> call[h].size, access_mode |-> call[h].access_mode]
  <2>1. CASE /\ call[h].size > 0
             /\ Goto(h, "idle")
             /\ maps' = [maps EXCEPT ![h] = @ \cup {new}]
             /\ block' = [block EXCEPT ![h] = [size |-> new.size, memory |-> new,
                                               access_mode |-> new.access_mode]]
    <3>1. /\ block'[h].size = new.size /\ block'[h].access_mode = new.access_mode
          /\ block'[h].memory = new /\ new.size > 0
      BY <1>0, <2>1, Zenon
    <3>2. Own(block[h])' = new /\ new \in maps'[h] /\ pc'[h] = "idle"
      BY <1>0, <2>1, <3>1, Zenon DEF Own
    <3> QED BY <3>1, <3>2, Zenon DEF Recorded
  <2>2. CASE UNCHANGED <<maps, block, granted>>
    BY <1>2, <1>10, <2>2, Zenon DEF OpenMap, Recorded
  <2> QED BY <1>10, <2>1, <2>2, Zenon DEF OpenMap
<1>11. CASE Crash(h)
  BY <1>0, <1>2, <1>11, Zenon DEF Crash, Die
<1> QED BY <1>3, <1>4, <1>5, <1>6, <1>7, <1>8, <1>9, <1>10, <1>11, Zenon DEF Act, Step

(***************************************************************************)
(* Write access comes from open and from change_access only: a resize and  *)
(* a sync ask for the access that the handle has.                          *)
(***************************************************************************)
LEMMA WritableStep ==
    ASSUME TypeOK, NEW h \in Handles, Writable(h), Act(h)
    PROVE  Writable(h)'
<1> USE DEF Goto
<1>0. /\ pc \in [Handles -> PC] /\ call \in [Handles -> Call]
      /\ block \in [Handles -> Block]
  BY Zenon DEF TypeOK
<1>1. ASSUME block'[h].access_mode = block[h].access_mode, granted' = granted,
             pc'[h] \notin Resizing \cup {"remap", "mmap"}
      PROVE  Writable(h)'
  BY <1>1, Zenon DEF Writable
<1>2. ASSUME block'[h].access_mode = block[h].access_mode, granted' = granted,
             call'[h].op = call[h].op, call'[h].access_mode = call[h].access_mode,
             pc[h] \in Resizing \cup {"remap", "mmap"}
      PROVE  Writable(h)'
  BY <1>2, Zenon DEF Writable
<1>3. ASSUME block'[h].access_mode = block[h].access_mode, granted' = granted,
             call'[h].op = "change" \/ call'[h].access_mode = block[h].access_mode
      PROVE  Writable(h)'
  BY <1>3, Zenon DEF Writable
<1>4. ASSUME block'[h] = NoBlock, pc'[h] \in {"closed", "dead", "fault"}
      PROVE  Writable(h)'
  BY <1>4, Blanks, Zenon DEF Writable, Resizing, Critical
<1>5. CASE ResizeGrow(h)
  BY <1>0, <1>3, <1>4, <1>5 DEF ResizeGrow, Die
<1>6. CASE Sync(h) \/ ChangeAccess(h)
  BY <1>0, <1>3, <1>6, SMTT(30) DEF Sync, ChangeAccess, StartRemap
<1>7. CASE Open(h)
  BY <1>0, <1>1, <1>7, Zenon DEF Open, Resizing, Critical
<1>8. CASE Close(h)
  BY <1>0, <1>4, <1>8, Zenon DEF Close
<1>9. CASE Lock(h) \/ GiveUp(h)
  BY <1>0, <1>1, <1>2, <1>9, Zenon DEF Lock, GiveUp, Return, Resizing, Critical
<1>10. CASE Compare(h) \/ Store(h) \/ Unlock(h)
  BY <1>2, <1>10, Zenon DEF Compare, Store, Unlock, Resizing, Critical
<1>11. CASE Remap(h)
  <2>1. CASE Return(h) /\ UNCHANGED <<block, maps, stray>>
    BY <1>0, <1>1, <1>11, <2>1, Zenon DEF Remap, Return, Resizing, Critical
  <2>2. CASE /\ block' = [block EXCEPT ![h].memory = NULL]
             /\ call' = [call EXCEPT ![h].size = block_size]
    <3>1. block'[h].access_mode = block[h].access_mode
      BY <1>0, <2>2, Zenon DEF Block
    <3>2. call'[h].op = call[h].op /\ call'[h].access_mode = call[h].access_mode
      BY <1>0, <2>2, Zenon DEF Call
    <3> QED BY <1>2, <1>11, <3>1, <3>2, Zenon DEF Remap
  <2> QED BY <1>11, <2>1, <2>2, Zenon DEF Remap
<1>12. CASE Mmap(h)
  <2>1. pc'[h] = "idle" /\ pc[h] = "mmap"
    BY <1>0, <1>12, Zenon DEF Mmap, Return
  <2>2. block'[h].access_mode = "RW" =>
            /\ call[h].access_mode = "RW"
            /\ granted' = IF call[h].op = "change" THEN granted \cup {h} ELSE granted
    BY <1>0, <1>12 DEF Mmap, Block
  <2> QED BY <2>1, <2>2, Zenon DEF Writable, Resizing, Critical
<1>13. CASE OpenMap(h)
  <2>1. pc'[h] \in {"idle", "closed"}
    BY <1>0, <1>13, Zenon DEF OpenMap
  <2>2. block'[h].access_mode = "RW" => h \in granted'
    BY <1>0, <1>13 DEF OpenMap, Writable
  <2> QED BY <2>1, <2>2, Zenon DEF Writable, Resizing, Critical
<1>14. CASE Crash(h)
  BY <1>0, <1>4, <1>14, Zenon DEF Crash, Die
<1> QED BY <1>5, <1>6, <1>7, <1>8, <1>9, <1>10, <1>11, <1>12, <1>13, <1>14, Zenon DEF Act, Step

-----------------------------------------------------------------------------
(* The theorems *)

(***************************************************************************)
(* The handles that ipm_memory_create and ipm_memory_open made satisfy the *)
(* invariant.                                                              *)
(***************************************************************************)
LEMMA InvInit ==
    ASSUME Init
    PROVE  Inv
<1> DEFINE size == round_size(Created)
<1>1. PICK access \in [Handles -> AccessMode] :
        LET mapping == [h \in Handles |-> [size |-> size, access_mode |-> access[h]]]
        IN /\ length = size /\ block_size = size
           /\ block = [h \in Handles |-> [size |-> size, access_mode |-> access[h],
                                          memory |-> mapping[h]]]
           /\ maps = [h \in Handles |-> {mapping[h]}]
           /\ granted = {h \in Handles : access[h] = "RW"}
  BY Zenon DEF Init
<1>2. size \in Nat /\ size > 0
  BY MappingAssumption, RoundSizeType
<1> HIDE DEF size
<1>3. ASSUME NEW h \in Handles
      PROVE  /\ pc[h] = "idle" /\ call[h] = NoCall
             /\ block[h].size = size /\ block[h].access_mode = access[h]
             /\ block[h].memory = Own(block[h]) /\ maps[h] = {Own(block[h])}
             /\ access[h] = "RW" => h \in granted
  <2>1. /\ block[h] = [size |-> size, access_mode |-> access[h],
                       memory |-> [size |-> size, access_mode |-> access[h]]]
        /\ maps[h] = {[size |-> size, access_mode |-> access[h]]}
    BY <1>1, Zenon
  <2>2. Own(block[h]) = [size |-> size, access_mode |-> access[h]]
    BY <2>1 DEF Own
  <2>3. access[h] = "RW" => h \in granted
    BY <1>1, Zenon
  <2> QED BY <2>1, <2>2, <2>3 DEF Init
<1>4. TypeOK
  <2>1. block \in [Handles -> Block] /\ maps \in [Handles -> SUBSET Mapping]
    BY <1>1, <1>2 DEF Block, Mapping
  <2>2. pc \in [Handles -> PC] /\ call \in [Handles -> Call]
    BY Blanks, Zenon DEF Init, PC
  <2>3. segment_mutex \in Mutex(Handles)
    BY Zenon DEF Init, ipm_mutex_init, Mutex, MutexState
  <2>4. calls \in 0 .. MaxCalls /\ crashes \in 0 .. MaxCrashes
    BY MappingAssumption DEF Init
  <2> QED BY <1>1, <1>2, <2>1, <2>2, <2>3, <2>4, Zenon DEF Init, TypeOK
<1>5. Locked
  BY <1>3, Zenon DEF Init, Locked, ipm_mutex_init, Critical
<1>6. Agreed
  BY <1>1, <1>3, Zenon DEF Agreed
<1>7. Ordered
  <2>1. ASSUME NEW h \in Handles, NEW m \in maps[h] PROVE m.size <= block_size
    BY <1>1, <1>2, <1>3 DEF Own
  <2>2. \A h \in Handles : pc[h] = "idle"
    BY <1>3, Zenon
  <2>3. 0 < block_size /\ block_size <= length
    BY <1>1, <1>2
  <2> QED BY <2>1, <2>2, <2>3, Zenon DEF Ordered, Resizing, Critical
<1>8. \A h \in Handles : Recorded(h)
  BY <1>2, <1>3, Zenon DEF Recorded
<1>9. \A h \in Handles : Writable(h)
  BY <1>3, Zenon DEF Writable, Resizing, Critical
<1>10. Positive
  BY <1>1, <1>2, <1>3, Zenon DEF Positive, Resizing, Critical
<1> QED BY <1>4, <1>5, <1>6, <1>7, <1>8, <1>9, <1>10, Zenon DEF Inv

(***************************************************************************)
(* Every step keeps the invariant.                                         *)
(***************************************************************************)
LEMMA InvStep ==
    ASSUME Inv, [Next]_vars
    PROVE  Inv'
<1>1. TypeOK'
  BY TypeStep, Zenon DEF Inv
<1>2. CASE UNCHANGED vars
  BY <1>1, <1>2, Zenon DEF Inv, vars, Locked, Agreed, Ordered, Positive, Recorded, Own,
                                Writable
<1>3. ASSUME NEW h \in Handles, Act(h) PROVE Inv'
  <2>1. Locked'
    BY <1>3, LockedStep, Zenon DEF Inv
  <2>2. Agreed'
    BY <1>3, AgreedStep, Zenon DEF Inv
  <2>0. Positive'
    BY <1>3, PositiveStep, Zenon DEF Inv
  <2>3. (orderly => Ordered)'
    BY <1>3, OrderedStep, Zenon DEF Inv
  <2>4. ASSUME NEW g \in Handles PROVE Recorded(g)' /\ Writable(g)'
    <3>1. CASE g = h
      BY <1>3, <3>1, RecordedStep, WritableStep, Zenon DEF Inv
    <3>2. CASE g # h
      <4>1. /\ pc'[g] = pc[g] /\ call'[g] = call[g]
            /\ block'[g] = block[g] /\ maps'[g] = maps[g]
            /\ g \in granted' <=> g \in granted
        BY <1>3, <3>2, OthersKept, Zenon DEF Inv
      <4>2. Recorded(g) /\ Writable(g)
        BY Zenon DEF Inv
      <4>3. Recorded(g)'
        BY <4>1, <4>2, Zenon DEF Recorded, Own
      <4>4. Writable(g)'
        BY <4>1, <4>2, Zenon DEF Writable
      <4> QED BY <4>3, <4>4, Zenon
    <3> QED BY <3>1, <3>2, Zenon
  <2> QED BY <1>1, <2>0, <2>1, <2>2, <2>3, <2>4, Zenon DEF Inv
<1> QED BY <1>2, <1>3, Zenon DEF Next, Act

(***************************************************************************)
(* The invariant holds in every state, so that TypeOK does.                *)
(***************************************************************************)
THEOREM MappingInvariant == Spec => []Inv
BY InvInit, InvStep, PTL DEF Spec

(***************************************************************************)
(* The variables always have their types: no failed system call leaves a   *)
(* handle with a pointer or a size that is not one.                        *)
(***************************************************************************)
THEOREM MappingTypeOK == Spec => []TypeOK
<1>1. Inv => TypeOK
  BY Zenon DEF Inv
<1> QED BY <1>1, MappingInvariant, PTL

(***************************************************************************)
(* Whenever segment_mutex is free and nobody was killed, header->block_size *)
(* is the length that ftruncate gave the object.                           *)
(***************************************************************************)
THEOREM MappingSizesAgree == Spec => []SizesAgree
<1>1. Inv => SizesAgree
  BY MappingAssumption, Zenon DEF Inv, SizesAgree, Locked, Agreed, Critical
<1> QED BY <1>1, MappingInvariant, PTL

(***************************************************************************)
(* In orderly use no mapping of the block, fresh or stale, reaches beyond  *)
(* the object, whenever processes are killed.                              *)
(***************************************************************************)
THEOREM MappingOrderlyBacked == Spec => []OrderlyBacked
<1>1. Inv => OrderlyBacked
  <2> SUFFICES ASSUME Inv, orderly
               PROVE  /\ block_size <= length
                      /\ \A h \in Handles : \A m \in maps[h] : m.size <= length
    BY Zenon DEF OrderlyBacked
  <2>1. Ordered /\ TypeOK
    BY Zenon DEF Inv
  <2>2. ASSUME NEW h \in Handles, NEW m \in maps[h] PROVE m.size <= length
    <3>1. m.size \in Nat /\ block_size \in Nat /\ length \in Nat
      BY <2>1 DEF TypeOK, Mapping
    <3> QED BY <2>1, <3>1 DEF Ordered
  <2> QED BY <2>1, <2>2, Zenon DEF Ordered
<1> QED BY <1>1, MappingInvariant, PTL

(***************************************************************************)
(* An assertion of shared_memory_block_resize fails only for a handle      *)
(* whose copy of the size is smaller than the size in the header.          *)
(***************************************************************************)
THEOREM MappingOnlyStaleResizeFaults == Spec => OnlyStaleResizeFaults
<1>1. ASSUME Inv, [Next]_vars, NEW h \in Handles, pc[h] # "fault", pc'[h] = "fault"
      PROVE  block[h].size < block_size
  <2>0. /\ pc \in [Handles -> PC] /\ block_size \in Nat /\ block[h].size \in Nat
        /\ TypeOK /\ Positive
    BY <1>1, Zenon DEF Inv, TypeOK, Block
  <2>1. Act(h)
    <3>1. pc' # pc
      BY <1>1, Zenon
    <3>2. PICK g \in Handles : Act(g)
      BY <1>1, <3>1, Zenon DEF Next, Act, vars
    <3> QED BY <1>1, <2>0, <3>2, OthersKept, Zenon
  <2>2. ResizeGrow(h)
    BY <1>1, <2>0, <2>1, Zenon DEF Act, Step, Sync, ChangeAccess, StartRemap, Open, Close, Lock,
       Compare, Store, Unlock, GiveUp, Remap, Mmap, OpenMap, Crash, Die, Return, Goto
  <2>3. PICK r \in Requests :
            round_size(r) >= block[h].size /\ Asserts /\ ~ ResizeAsserts(round_size(r))
    <3>1. ~ Goto(h, "lock")
      BY <1>1, <2>0, Zenon DEF Goto
    <3> QED BY <2>2, <3>1, Zenon DEF ResizeGrow
  <2>4. round_size(r) \in Nat /\ round_size(r) % PageSize = 0
    BY MappingAssumption, RoundSizeType, RoundSizePages, Zenon
  <2>5. block_size > 0
    BY <2>0, <2>3, Zenon DEF Positive
  <2>6. ~ (round_size(r) >= block_size /\ round_size(r) > 0)
    BY <2>3, <2>4, Zenon DEF ResizeAsserts
  <2> QED BY <2>0, <2>3, <2>4, <2>5, <2>6
<1>2. Inv /\ [Next]_vars =>
          [\A h \in Handles : pc[h] # "fault" /\ pc'[h] = "fault" => block[h].size < block_size]_vars
  BY <1>1, Zenon
<1> QED BY <1>2, MappingInvariant, PTL DEF Spec, OnlyStaleResizeFaults

(***************************************************************************)
(* In orderly use header->block_size never goes down.                      *)
(***************************************************************************)
THEOREM MappingOrderlyNeverShrinks == Spec => OrderlyNeverShrinks
<1>1. ASSUME Inv, [Next]_vars, orderly' PROVE block_size' >= block_size
  <2>0. block_size \in Nat
    BY <1>1, Zenon DEF Inv, TypeOK
  <2>1. CASE UNCHANGED vars
    BY <2>0, <2>1 DEF vars
  <2>2. ASSUME NEW h \in Handles, Store(h) PROVE block_size' >= block_size
    <3>1. orderly
      BY <1>1, <2>2, Zenon DEF Store
    <3> QED BY <1>1, <2>2, <3>1, Zenon DEF Store, Inv, Ordered, Resizing, Critical
  <2>3. ASSUME NEW h \in Handles, Act(h), ~ Store(h) PROVE block_size' >= block_size
    <3>1. block_size' = block_size
      BY <2>3, Zenon DEF Act, Step, ResizeGrow, Sync, ChangeAccess, StartRemap, Open, Close, Lock,
                  Compare, Unlock, GiveUp, Remap, Mmap, OpenMap, Crash
    <3> QED BY <2>0, <3>1
  <2> QED BY <1>1, <2>1, <2>2, <2>3, Zenon DEF Next, Act
<1>2. Inv /\ [Next]_vars => [orderly' => block_size' >= block_size]_vars
  BY <1>1, Zenon
<1> QED BY <1>2, MappingInvariant, PTL DEF Spec, OrderlyNeverShrinks

(***************************************************************************)
(* What passes the checks of ipm_memory_claim_region is mapped in the      *)
(* process of the handle, with the access that was claimed.                *)
(***************************************************************************)
THEOREM MappingClaimsAreMapped == Spec => []ClaimsAreMapped
<1>1. Inv => ClaimsAreMapped
  <2> SUFFICES ASSUME Inv, NEW h \in Handles, NEW access \in AccessMode,
                      NEW end \in 1 .. block[h].size,
                      pc[h] = "idle", ClaimPasses(h, access, end)
               PROVE  \E m \in maps[h] : m.size >= end
                                         /\ (access = "RW" => m.access_mode = "RW")
    BY Zenon DEF ClaimsAreMapped
  <2>1. block[h].size \in Nat /\ block[h].access_mode \in AccessMode
    BY Zenon DEF Inv, TypeOK, Block
  <2>2. Own(block[h]) \in maps[h]
    BY <2>1 DEF Inv, Recorded
  <2>3. Own(block[h]).size >= end /\ (access = "RW" => Own(block[h]).access_mode = "RW")
    BY <2>1 DEF Own, ClaimPasses, AccessMode
  <2> QED BY <2>2, <2>3, Zenon
<1> QED BY <1>1, MappingInvariant, PTL

(***************************************************************************)
(* A handle is writable only if open or change_access made it so.          *)
(***************************************************************************)
THEOREM MappingNoEscalation == Spec => []NoEscalation
<1>1. Inv => NoEscalation
  BY Zenon DEF Inv, NoEscalation, Writable
<1> QED BY <1>1, MappingInvariant, PTL

(***************************************************************************)
(* Only close and clean can unmap more than the handle has mapped, and     *)
(* only when the header's size is larger than the handle's copy of it: the *)
(* munmap of a remap always fits the mapping that it is for.               *)
(***************************************************************************)
LEMMA StrayStep ==
    ASSUME Inv, NEW h \in Handles, Act(h)
    PROVE  stray' = stray \/ (Close(h) /\ block[h].size < block_size)
<1>0. /\ block[h].size \in Nat /\ block_size \in Nat
      /\ block[h].memory # NULL => block[h].memory.size = block[h].size
  <2>1. block[h].size \in Nat /\ block_size \in Nat
    BY Zenon DEF Inv, TypeOK, Block
  <2>2. block[h].memory # NULL => block[h].memory = Own(block[h])
    BY Zenon DEF Inv, Recorded
  <2>3. Own(block[h]).size = block[h].size
    BY Zenon DEF Own
  <2> QED BY <2>1, <2>2, <2>3, Zenon
<1>1. CASE Close(h)
  <2>1. CASE block[h].memory # NULL
    BY <1>0, <1>1, <2>1 DEF Close, Unmap
  <2>2. CASE block[h].memory = NULL
    BY <1>1, <2>2, Zenon DEF Close, Unmap
  <2> QED BY <2>1, <2>2, Zenon
<1>2. CASE Remap(h)
  <2>1. CASE block[h].memory # NULL
    <3>1. ~ (block[h].size > block[h].memory.size)
      BY <1>0, <2>1
    <3> QED BY <1>2, <3>1, Zenon DEF Remap, Unmap
  <2>2. CASE block[h].memory = NULL
    BY <1>2, <2>2, Zenon DEF Remap, Unmap
  <2> QED BY <2>1, <2>2, Zenon
<1>3. CASE ~ Close(h) /\ ~ Remap(h)
  BY <1>3, Zenon DEF Act, Step, ResizeGrow, Sync, ChangeAccess, StartRemap, Open, Lock,
     Compare, Store, Unlock, GiveUp, Mmap, OpenMap, Crash
<1> QED BY <1>1, <1>2, <1>3, Zenon

(***************************************************************************)
(* No munmap of the library takes away anything but the handle's own       *)
(* mapping, whatever resizes, failures and deaths there are, except for    *)
(* the close or clean of a handle that does not know how the block grew.   *)
(***************************************************************************)
THEOREM MappingOnlyStaleCloseStrays == Spec => OnlyStaleCloseStrays
<1>1. ASSUME Inv, [Next]_vars, NEW h \in stray' \ stray
      PROVE  pc'[h] = "closed" /\ block[h].size < block_size
  <2>0. TypeOK /\ pc \in [Handles -> PC]
    BY <1>1, Zenon DEF Inv, TypeOK
  <2>1. PICK g \in Handles : Act(g)
    BY <1>1, Zenon DEF Next, Act, vars
  <2>2. Close(g) /\ block[g].size < block_size
    BY <1>1, <2>1, StrayStep, Zenon
  <2>3. g = h
    BY <1>1, <2>2, Zenon DEF Close, Unmap
  <2> QED BY <2>0, <2>2, <2>3, Zenon DEF Close, Goto
<1>2. Inv /\ [Next]_vars =>
          [\A h \in stray' \ stray : pc'[h] = "closed" /\ block[h].size < block_size]_vars
  BY <1>1, Zenon
<1> QED BY <1>2, MappingInvariant, PTL DEF Spec, OnlyStaleCloseStrays
=============================================================================
