---------------------------- MODULE BlockMapping ----------------------------
(***************************************************************************)
(* Growing and remapping the real memory: ipm_memory_resize_grow, _sync    *)
(* and _change_access of ipm_memory.c over shared_memory_block_resize and  *)
(* _update_mapping of shared_memory.c, with the queries of a handle.       *)
(*                                                                         *)
(* The block has a length in the system and a block_size in its header;    *)
(* every handle keeps copies of its own, which go stale when another       *)
(* handle grows the block.  A step is one access to the header, one system *)
(* call or one operation on segment_mutex.  Sizes are bytes of the block,  *)
(* without the page of the header.  Handles come and go with open, close   *)
(* and clean, of which only the mapping is here (MemoryObject has the      *)
(* rest): some reference, such as the creator's, keeps the block alive.    *)
(***************************************************************************)
EXTENDS Integers, IpmPlatform

CONSTANTS
    Handles,       \* ipm_memory objects, one thread and one process each
    PageSize,      \* IPM_MEMORY_PAGE_SIZE
    Created,       \* the size in bytes that ipm_memory_create was given
    Requests,      \* the sizes in bytes that resizes ask for
    Asserts,       \* is the library built with assertions?
    MayFail,       \* may ftruncate and mmap fail?
    MaxCalls,      \* bound: how many calls are made
    MaxCrashes     \* bound: how many processes are killed

ASSUME MappingAssumption ==
    /\ NoOwner \notin Handles
    /\ PageSize \in Nat \ {0} /\ Created \in Nat \ {0}
    /\ Requests \subseteq Nat
    /\ Asserts \in BOOLEAN /\ MayFail \in BOOLEAN
    /\ MaxCalls \in Nat /\ MaxCrashes \in Nat

VARIABLES
    length,          \* the bytes that the object behind mem_fd has
    block_size,      \* header->block_size
    segment_mutex,   \* header->segment_mutex
    pc,              \* where each handle is in its call
    call,            \* the locals of that call
    block,           \* the ipm_shared_memory_block of each handle
    maps,            \* the mappings of the block in each handle's process
    stray,           \* handles that unmapped pages which were not theirs
    granted,         \* history: handles that were given write access
    orderly,         \* history: was every resize so far made in order?
    calls,           \* calls made so far
    crashes          \* processes killed so far

vars == <<length, block_size, segment_mutex, pc, call, block, maps, stray,
          granted, orderly, calls, crashes>>

AccessMode == {"RO", "RW"}

\* A mapping of the first size bytes of the block; 0 bytes is the pointer NULL.
Mapping == [size : Nat, access_mode : AccessMode]
NULL == [size |-> 0, access_mode |-> "RO"]

Block == [size : Nat, access_mode : AccessMode, memory : Mapping]
NoBlock == [size |-> 0, access_mode |-> "RO", memory |-> NULL]

Call == [op : {"none", "resize", "sync", "change", "open"},
         size : Nat, access_mode : AccessMode]
NoCall == [op |-> "none", size |-> 0, access_mode |-> "RO"]

\* Holding segment_mutex, and the whole of shared_memory_block_resize's part.
Critical == {"compare", "store", "unlock", "give_up"}
Resizing == Critical \cup {"lock"}
InCall == Resizing \cup {"remap", "mmap", "open"}
PC == InCall \cup {"idle", "closed", "dead", "fault"}

TypeOK ==
    /\ length \in Nat /\ block_size \in Nat
    /\ segment_mutex \in Mutex(Handles)
    /\ pc \in [Handles -> PC]
    /\ call \in [Handles -> Call]
    /\ block \in [Handles -> Block]
    /\ maps \in [Handles -> SUBSET Mapping]
    /\ stray \in SUBSET Handles
    /\ granted \in SUBSET Handles
    /\ orderly \in BOOLEAN
    /\ calls \in 0 .. MaxCalls
    /\ crashes \in 0 .. MaxCrashes

round_size(size) ==
    IF size % PageSize = 0 THEN size ELSE size + (PageSize - (size % PageSize))

\* Every handle has the block open as ipm_memory_create made it.
Init ==
    /\ \E access \in [Handles -> AccessMode] :
          LET size == round_size(Created)
              mapping == [h \in Handles |-> [size |-> size, access_mode |-> access[h]]]
          IN /\ length = size /\ block_size = size
             /\ block = [h \in Handles |-> [size |-> size, access_mode |-> access[h],
                                            memory |-> mapping[h]]]
             /\ maps = [h \in Handles |-> {mapping[h]}]
             /\ granted = {h \in Handles : access[h] = "RW"}
    /\ segment_mutex = ipm_mutex_init
    /\ pc = [h \in Handles |-> "idle"]
    /\ call = [h \in Handles |-> NoCall]
    /\ stray = {}
    /\ orderly = TRUE
    /\ calls = 0
    /\ crashes = 0
-----------------------------------------------------------------------------
Goto(h, l) == pc' = [pc EXCEPT ![h] = l]

\* A handle without a call, and the start of one.
Begin(h, l) ==
    /\ pc[h] = l
    /\ calls < MaxCalls
    /\ calls' = calls + 1

Return(h) == Goto(h, "idle") /\ call' = [call EXCEPT ![h] = NoCall]

\* The process ends, and its mappings with it.
Die(h, how) ==
    /\ Goto(h, how)
    /\ call' = [call EXCEPT ![h] = NoCall]
    /\ block' = [block EXCEPT ![h] = NoBlock]
    /\ maps' = [maps EXCEPT ![h] = {}]

(***************************************************************************)
(* munmap of len bytes at pointer.  A shorter len leaves some of the       *)
(* mapping behind; a longer one also unmaps what happens to lie after it.  *)
(* At NULL the first len bytes of the address space are unmapped, where    *)
(* the process is taken to have nothing.  Mappings of one process that are *)
(* equal in size and access are one element of the set.                    *)
(***************************************************************************)
Unmap(h, pointer, len) ==
    /\ maps' = [maps EXCEPT ![h] = IF len < pointer.size THEN @ ELSE @ \ {pointer}]
    /\ stray' = IF pointer # NULL /\ len > pointer.size THEN stray \cup {h} ELSE stray

-----------------------------------------------------------------------------
(* ipm_memory_resize_grow and shared_memory_block_resize *)

\* The assertions, which read block_size before the mutex is taken.
ResizeAsserts(n) == n >= block_size /\ n % PageSize = 0 /\ n > 0

(***************************************************************************)
(* History: a resize is in order if its handle knows the current size and  *)
(* no other handle is resizing.                                            *)
(***************************************************************************)
InOrder(h) == block[h].size = block_size /\ \A g \in Handles : pc[g] \notin Resizing

ResizeGrow_unchecked(h) ==
    /\ Begin(h, "idle")
    /\ \E r \in Requests :
          IF Asserts /\ ~ ResizeAsserts(round_size(r))
          THEN Die(h, "fault")
          ELSE /\ Goto(h, "lock")
               /\ call' = [call EXCEPT ![h] = [op |-> "resize", size |-> round_size(r),
                                               access_mode |-> block[h].access_mode]]
               /\ UNCHANGED <<block, maps>>
    /\ orderly' = (orderly /\ InOrder(h))
    /\ UNCHANGED <<length, block_size, segment_mutex, stray, granted, crashes>>

ResizeGrow_any_size(h) ==
    /\ Begin(h, "idle")
    /\ \E r \in Requests :
          call' = [call EXCEPT ![h] = [op |-> "resize", size |-> round_size(r),
                                       access_mode |-> block[h].access_mode]]
    /\ Goto(h, "lock")
    /\ orderly' = (orderly /\ InOrder(h))
    /\ UNCHANGED <<length, block_size, segment_mutex, block, maps, stray, granted, crashes>>

\* A size below the handle's own copy is refused with ERR_BAD_VALUE.
ResizeGrow(h) ==
    /\ Begin(h, "idle")
    /\ \E r \in Requests :
          LET n == round_size(r)
          IN /\ n >= block[h].size
             /\ IF Asserts /\ ~ ResizeAsserts(n)
                THEN Die(h, "fault")
                ELSE /\ Goto(h, "lock")
                     /\ call' = [call EXCEPT ![h] = [op |-> "resize", size |-> n,
                                             access_mode |-> block[h].access_mode]]
                     /\ UNCHANGED <<block, maps>>
    /\ orderly' = (orderly /\ InOrder(h))
    /\ UNCHANGED <<length, block_size, segment_mutex, stray, granted, crashes>>

Lock(h) ==
    /\ pc[h] = "lock"
    /\ LockReturns(segment_mutex)
    /\ segment_mutex' = ipm_mutex_lock(segment_mutex, h)
    /\ IF LockSucceeds(segment_mutex)
       THEN Goto(h, "compare") /\ UNCHANGED call
       ELSE Return(h)
    /\ UNCHANGED <<length, block_size, block, maps, stray, granted, orderly, calls, crashes>>

Compare_stores_first(h) ==
    /\ pc[h] = "compare"
    /\ block_size' = call[h].size
    /\ \/ length' = call[h].size /\ Goto(h, "unlock")
       \/ MayFail /\ Goto(h, "give_up") /\ UNCHANGED length
    /\ UNCHANGED <<segment_mutex, call, block, maps, stray, granted, orderly, calls, crashes>>

Compare_unlocks_early(h) ==
    /\ pc[h] = "compare"
    /\ call[h].size # block_size
    /\ length' = call[h].size
    /\ segment_mutex' = ipm_mutex_unlock(segment_mutex, h)
    /\ Goto(h, "store")
    /\ UNCHANGED <<block_size, call, block, maps, stray, granted, orderly, calls, crashes>>

\* Nothing to do if the header has the size already; otherwise ftruncate.
Compare(h) ==
    /\ pc[h] = "compare"
    /\ \/ /\ call[h].size = block_size
          /\ Goto(h, IF call[h].size # block[h].size THEN "unlock" ELSE "give_up")
          /\ UNCHANGED length
       \/ /\ call[h].size # block_size
          /\ length' = call[h].size
          /\ Goto(h, "store")
       \/ /\ call[h].size # block_size /\ MayFail
          /\ Goto(h, "give_up")
          /\ UNCHANGED length
    /\ UNCHANGED <<block_size, segment_mutex, call, block, maps, stray, granted,
                   orderly, calls, crashes>>

Store(h) ==
    /\ pc[h] = "store"
    /\ block_size' = call[h].size
    /\ Goto(h, "unlock")
    /\ UNCHANGED <<length, segment_mutex, call, block, maps, stray, granted,
                   orderly, calls, crashes>>

\* Then the handle's own mapping is updated.
Unlock(h) ==
    /\ pc[h] = "unlock"
    /\ segment_mutex' = ipm_mutex_unlock(segment_mutex, h)
    /\ Goto(h, "remap")
    /\ UNCHANGED <<length, block_size, call, block, maps, stray, granted,
                   orderly, calls, crashes>>

GiveUp_locked(h) ==
    /\ pc[h] = "give_up"
    /\ Return(h)
    /\ UNCHANGED <<length, block_size, segment_mutex, block, maps, stray, granted,
                   orderly, calls, crashes>>

\* ftruncate failed, or the handle has the right size as well.
GiveUp(h) ==
    /\ pc[h] = "give_up"
    /\ segment_mutex' = ipm_mutex_unlock(segment_mutex, h)
    /\ Return(h)
    /\ UNCHANGED <<length, block_size, block, maps, stray, granted,
                   orderly, calls, crashes>>

-----------------------------------------------------------------------------
(* ipm_memory_sync, ipm_memory_change_access: shared_memory_block_update_mapping *)

StartRemap(h, op, access) ==
    /\ Begin(h, "idle")
    /\ Goto(h, "remap")
    /\ call' = [call EXCEPT ![h] = [op |-> op, size |-> 0, access_mode |-> access]]
    /\ UNCHANGED <<length, block_size, segment_mutex, block, maps, stray, granted,
                   orderly, crashes>>

Sync(h) == StartRemap(h, "sync", block[h].access_mode)

ChangeAccess(h) == \E access \in AccessMode : StartRemap(h, "change", access)

Remap_header_size(h) ==
    /\ pc[h] = "remap"
    /\ Unmap(h, block[h].memory, block_size)
    /\ block' = [block EXCEPT ![h].memory = NULL]
    /\ call' = [call EXCEPT ![h].size = block_size]
    /\ Goto(h, "mmap")
    /\ UNCHANGED <<length, block_size, segment_mutex, granted, orderly, calls, crashes>>

\* block_size is read without the mutex, and the old mapping is given up.
Remap(h) ==
    /\ pc[h] = "remap"
    /\ IF /\ block[h].size = block_size
          /\ block[h].access_mode = call[h].access_mode
          /\ block[h].memory # NULL
       THEN Return(h) /\ UNCHANGED <<block, maps, stray>>
       ELSE /\ Unmap(h, block[h].memory, block[h].size)
            /\ block' = [block EXCEPT ![h].memory = NULL]
            /\ call' = [call EXCEPT ![h].size = block_size]
            /\ Goto(h, "mmap")
    /\ UNCHANGED <<length, block_size, segment_mutex, granted, orderly, calls, crashes>>

\* The failure path forgets the size, keeps the access, or keeps MAP_FAILED.
MmapFails(h, new) ==
    /\ pc[h] = "mmap"
    /\ block' = [block EXCEPT ![h] = new]
    /\ Return(h)
    /\ UNCHANGED <<length, block_size, segment_mutex, maps, stray, granted,
                   orderly, calls, crashes>>

Mmap_size_kept(h) == MmapFails(h, block[h])

Mmap_access_kept(h) ==
    MmapFails(h, [NoBlock EXCEPT !.access_mode = call[h].access_mode])

Mmap_unchecked(h) == MmapFails(h, [block[h] EXCEPT !.memory.size = -1])

(***************************************************************************)
(* A new mapping, of which the handle does not keep the address: memory    *)
(* stays NULL.  After a failure the handle has no bytes and access mode 0, *)
(* which is read only.                                                     *)
(***************************************************************************)
Mmap(h) ==
    LET new == [size |-> call[h].size, access_mode |-> call[h].access_mode]
    IN /\ pc[h] = "mmap"
       /\ \/ /\ call[h].size > 0
             /\ maps' = [maps EXCEPT ![h] = @ \cup {new}]
             /\ block' = [block EXCEPT ![h].size = new.size,
                                       ![h].access_mode = new.access_mode,
                                       ![h].memory = NULL]
             /\ granted' = IF call[h].op = "change" /\ new.access_mode = "RW"
                           THEN granted \cup {h} ELSE granted
          \/ /\ call[h].size = 0 \/ MayFail
             /\ block' = [block EXCEPT ![h].size = 0, ![h].access_mode = "RO"]
             /\ UNCHANGED <<maps, granted>>
       /\ Return(h)
       /\ UNCHANGED <<length, block_size, segment_mutex, stray, orderly, calls, crashes>>

-----------------------------------------------------------------------------
(* The mapping part of open, close and clean *)

Open(h) ==
    /\ Begin(h, "closed")
    /\ \E access \in AccessMode :
          call' = [call EXCEPT ![h] = [op |-> "open", size |-> block_size,
                                       access_mode |-> access]]
    /\ Goto(h, "open")
    /\ UNCHANGED <<length, block_size, segment_mutex, block, maps, stray, granted,
                   orderly, crashes>>

OpenMap(h) ==
    LET new == [size |-> call[h].size, access_mode |-> call[h].access_mode]
    IN /\ pc[h] = "open"
       /\ call' = [call EXCEPT ![h] = NoCall]
       /\ \/ /\ call[h].size > 0
             /\ Goto(h, "idle")
             /\ maps' = [maps EXCEPT ![h] = @ \cup {new}]
             /\ block' = [block EXCEPT ![h] = [size |-> new.size, memory |-> new,
                                               access_mode |-> new.access_mode]]
             /\ granted' = IF new.access_mode = "RW" THEN granted \cup {h} ELSE granted
          \/ /\ call[h].size = 0 \/ MayFail
             /\ Goto(h, "closed")
             /\ UNCHANGED <<maps, block, granted>>
       /\ UNCHANGED <<length, block_size, segment_mutex, stray, orderly, calls, crashes>>

\* close and clean unmap as many bytes as the header says, not the handle.
Close(h) ==
    /\ Begin(h, "idle")
    /\ Unmap(h, block[h].memory, block_size)
    /\ block' = [block EXCEPT ![h] = NoBlock]
    /\ granted' = granted \ {h}
    /\ Goto(h, "closed")
    /\ UNCHANGED <<length, block_size, segment_mutex, call, orderly, crashes>>

\* A process is killed; the kernel hands its robust mutex on.
Crash(h) ==
    /\ pc[h] \notin {"dead", "fault"}
    /\ crashes < MaxCrashes
    /\ crashes' = crashes + 1
    /\ segment_mutex' = OwnerDies(segment_mutex, h)
    /\ Die(h, "dead")
    /\ UNCHANGED <<length, block_size, stray, granted, orderly, calls>>

Step(h) ==
    \/ Lock(h) \/ Compare(h) \/ Store(h) \/ Unlock(h) \/ GiveUp(h)
    \/ Remap(h) \/ Mmap(h) \/ OpenMap(h)

Next ==
    \E h \in Handles :
        \/ ResizeGrow(h) \/ Sync(h) \/ ChangeAccess(h) \/ Open(h) \/ Close(h)
        \/ Step(h)
        \/ Crash(h)

Spec == Init /\ [][Next]_vars

\* The scheduler runs every process that is inside a call.
FairSpec == Spec /\ \A h \in Handles : WF_vars(Step(h))

-----------------------------------------------------------------------------
(* The queries, and the checks of ipm_memory_claim_region *)

ipm_memory_pointer(h) == block[h].memory

ipm_memory_get_info(h) ==
    [block_size |-> block[h].size, mapping_address |-> block[h].memory,
     memory_access_mode |-> block[h].access_mode]

\* A claim of the bytes up to end passes the checks against the handle's copies.
ClaimPasses(h, access, end) ==
    /\ ~ (block[h].access_mode = "RO" /\ access = "RW")
    /\ ~ (block[h].size < end)

-----------------------------------------------------------------------------
(* Properties *)

(***************************************************************************)
(* The block never shrinks: no resize makes the header's size smaller.     *)
(***************************************************************************)
NeverShrinks == [][block_size' >= block_size]_vars

(***************************************************************************)
(* As long as resizes are made in order (each by a handle that knows the   *)
(* size, one at a time) the block never shrinks, whoever is killed in the  *)
(* middle of one.                                                          *)
(***************************************************************************)
OrderlyNeverShrinks == [][orderly' => block_size' >= block_size]_vars

(***************************************************************************)
(* In orderly use every mapping of every process, stale ones included, and *)
(* the size in the header stay within the object: no access through a      *)
(* mapping falls off the end, even after a death between ftruncate and the *)
(* store of block_size.                                                    *)
(***************************************************************************)
OrderlyBacked ==
    orderly => /\ block_size <= length
               /\ \A h \in Handles : \A m \in maps[h] : m.size <= length

(***************************************************************************)
(* An assertion of shared_memory_block_resize kills the caller of          *)
(* resize_grow only if the header's size is larger than the handle's copy  *)
(* (another handle grew the block since, or the last remap failed): the    *)
(* check of resize_grow against the copy covers every other request, 0 and *)
(* the sizes between two pages included, however resizes overlap.          *)
(***************************************************************************)
OnlyStaleResizeFaults ==
    [][\A h \in Handles : pc[h] # "fault" /\ pc'[h] = "fault" =>
          block[h].size < block_size]_vars

(***************************************************************************)
(* Whenever nobody holds segment_mutex and no process was killed, the size *)
(* in the header is the length of the object, however resizes overlap and  *)
(* whichever system call fails.                                            *)
(***************************************************************************)
SizesAgree == segment_mutex.owner = NoOwner /\ crashes = 0 => block_size = length

(***************************************************************************)
(* What ipm_memory_claim_region lets a handle claim is mapped in its       *)
(* process with the access it claims: after every sequence of resizes,     *)
(* remaps and failures the handle's copies of size and access mode         *)
(* describe a mapping that is there.                                       *)
(***************************************************************************)
ClaimsAreMapped ==
    \A h \in Handles, access \in AccessMode :
        \A end \in 1 .. block[h].size :
            pc[h] = "idle" /\ ClaimPasses(h, access, end) =>
                \E m \in maps[h] : m.size >= end /\ (access = "RW" => m.access_mode = "RW")

(***************************************************************************)
(* If no mmap fails, ipm_memory_pointer returns the address of a mapping   *)
(* of the size and access that get_info reports: a sync, a resize or a     *)
(* change of access replaces it by the address of the new mapping.         *)
(***************************************************************************)
PointerToMapping ==
    \A h \in Handles :
        pc[h] = "idle" /\ ~ MayFail =>
            LET info == ipm_memory_get_info(h)
                mapping == [size |-> info.block_size, access_mode |-> info.memory_access_mode]
            IN ipm_memory_pointer(h) = mapping /\ mapping \in maps[h]

(***************************************************************************)
(* A handle is writable only if open or change_access succeeded in giving  *)
(* it write access: a change that failed is not made up for by a later     *)
(* sync or resize.                                                         *)
(***************************************************************************)
NoEscalation == \A h \in Handles : block[h].access_mode = "RW" => h \in granted

(***************************************************************************)
(* The only call that unmaps more than the handle's own mapping is a close *)
(* or clean of a handle whose copy of the size is smaller than the one in  *)
(* the header: the munmap of a remap always fits the mapping, whatever     *)
(* grew, failed or was remapped before.                                    *)
(***************************************************************************)
OnlyStaleCloseStrays ==
    [][\A h \in stray' \ stray : pc'[h] = "closed" /\ block[h].size < block_size]_vars

(***************************************************************************)
(* Every call returns, or its process ends: no failure or death leaves     *)
(* segment_mutex taken.                                                    *)
(***************************************************************************)
CallsReturn == \A h \in Handles : pc[h] \in InCall ~> pc[h] \notin InCall
=============================================================================
