---------------------------- MODULE MemoryObject ----------------------------
(***************************************************************************)
(* The life of ipm_memory objects that share one block name: create, open, *)
(* close and clean of ipm_memory.c over the two shared-memory blocks of    *)
(* shared_memory.c, the list of active claims and the real memory.         *)
(*                                                                         *)
(* Processes run these calls at the same time.  A step is one system call  *)
(* on the name or one access to the shared header; a POSIX object that was *)
(* unlinked lives on in the processes that have it open.  The objects are  *)
(* told apart by the number of the create call that made them, which the   *)
(* code cannot see: it only knows names.                                   *)
(***************************************************************************)
EXTENDS Integers, FiniteSets

CONSTANTS
    Procs,         \* processes, each with at most one ipm_memory object
    Coordinated,   \* is open only called while a handle is sure to stay open?
    MayFail,       \* may the system refuse a call?
    MaxCalls,      \* bound: how many create and open calls are made
    MaxCrashes     \* bound: how many processes are killed

ASSUME UseAssumption ==
    /\ IsFiniteSet(Procs)
    /\ Coordinated \in BOOLEAN /\ MayFail \in BOOLEAN
    /\ MaxCalls \in Nat /\ MaxCrashes \in Nat

Kinds == {"claims", "real"}     \* active_claims and real_memory

VARIABLES
    linked,      \* the object each block's name refers to
    leaked,      \* objects that a failed shm_unlink left linked; no step reads it
    header,      \* the shared header (and claim list state) of every object
    pc,          \* where each process is in its call
    call,        \* the locals of that call
    memory,      \* the ipm_shared_memory_blocks of each ipm_memory
    forked,      \* processes whose ipm_memory is the copy that fork made
    calls,       \* create and open calls made so far
    crashes      \* processes killed so far

vars == <<linked, leaked, header, pc, call, memory, forked, calls, crashes>>

Objects == 1 .. MaxCalls
None == 0     \* no object

Life == {"none", "ready", "destroyed"}
ListLife == Life \cup {"no_condition"}     \* list_cnd was not made

Header == [sized : BOOLEAN,        \* ftruncate was done
           block_size : BOOLEAN,   \* block_size was written, so is not 0
           id_counter : Nat, refcount : Nat,
           mutex : Life,           \* segment_mutex
           list : ListLife]        \* list_mutex and list_cnd

\* A new POSIX object has no length, and is zero once it has one.
ZeroHeader == [sized |-> FALSE, block_size |-> FALSE, id_counter |-> 0,
               refcount |-> 0, mutex |-> "none", list |-> "none"]

Block == [object : Objects \cup {None}, access_id : Nat]
NoBlock == [object |-> None, access_id |-> 0]
NoMemory == [k \in Kinds |-> NoBlock]

Call == [op : {"none", "create", "open", "close", "undo"}, kind : Kinds,
         object : Objects \cup {None}, access_id : Nat]
Locals(op, kind, object) == [op |-> op, kind |-> kind, object |-> object, access_id |-> 0]
NoCall == Locals("none", "claims", None)

PC == {"idle", "create_open", "create_size", "create_fields", "create_mutex",
       "create_publish", "list_init", "list_uninit",
       "open_open", "open_size", "open_wait", "open_ref", "open_id",
       "close_sub", "close_destroy", "close_unlink", "dead", "fault"}

TypeOK ==
    /\ linked \in [Kinds -> Objects \cup {None}]
    /\ leaked \in [Kinds -> SUBSET Objects]
    /\ header \in [Kinds -> [Objects -> Header]]
    /\ pc \in [Procs -> PC]
    /\ call \in [Procs -> Call]
    /\ memory \in [Procs -> [Kinds -> Block]]
    /\ forked \in SUBSET Procs
    /\ calls \in 0 .. MaxCalls
    /\ crashes \in 0 .. MaxCrashes

Init ==
    /\ linked = [k \in Kinds |-> None]
    /\ leaked = [k \in Kinds |-> {}]
    /\ header = [k \in Kinds |-> [o \in Objects |-> ZeroHeader]]
    /\ pc = [p \in Procs |-> "idle"]
    /\ call = [p \in Procs |-> NoCall]
    /\ memory = [p \in Procs |-> NoMemory]
    /\ forked = {}
    /\ calls = 0
    /\ crashes = 0

-----------------------------------------------------------------------------
Goto(p, l) == pc' = [pc EXCEPT ![p] = l]

Return(p) == Goto(p, "idle") /\ call' = [call EXCEPT ![p] = NoCall]

Die(p, how) == Goto(p, how) /\ call' = [call EXCEPT ![p] = NoCall]

\* The header that p's call works on, and its new value.
Hdr(p) == header[call[p].kind][call[p].object]
SetHdr(p, hdr) == header' = [header EXCEPT ![call[p].kind][call[p].object] = hdr]

(***************************************************************************)
(* shm_unlink goes by name: it removes whatever has the name now.  When it *)
(* fails the name stays; create ignores that, and close only reports it.   *)
(***************************************************************************)
Unlink(p) ==
    \/ /\ linked' = [linked EXCEPT ![call[p].kind] = None]
       /\ UNCHANGED leaked
    \/ /\ MayFail
       /\ leaked' = [leaked EXCEPT ![call[p].kind] = @ \cup ({linked[call[p].kind]} \ {None})]
       /\ UNCHANGED linked

\* An ipm_memory the caller can use: no call is under way on it.
Holder(p) == pc[p] = "idle" /\ memory[p] # NoMemory /\ p \notin forked

Opening(p) == call[p].op = "open"

\* Start working on a block of p, to close it or, with "undo", to give up.
CloseBlock(p, op, kind) ==
    /\ Goto(p, "close_sub")
    /\ call' = [call EXCEPT ![p] = Locals(op, kind, memory[p][kind].object)]

-----------------------------------------------------------------------------
(* ipm_memory_create: the claims block, its list, then the real memory *)

Create(p) ==
    /\ pc[p] = "idle" /\ memory[p] = NoMemory
    /\ calls < MaxCalls
    /\ calls' = calls + 1
    /\ Goto(p, "create_open")
    /\ call' = [call EXCEPT ![p] = Locals("create", "claims", calls + 1)]
    /\ UNCHANGED <<linked, leaked, header, memory, forked, crashes>>

\* shared_memory_block_create failed: undo the claims block, if it was made.
CreateFails(p) ==
    IF call[p].kind = "claims"
    THEN Return(p)
    ELSE Goto(p, "list_uninit") /\ UNCHANGED call

CreateOpen_no_excl(p) ==
    /\ pc[p] = "create_open"
    /\ linked' = [linked EXCEPT ![call[p].kind] = call[p].object]
    /\ Goto(p, "create_size")
    /\ UNCHANGED <<leaked, call, header, memory, forked, calls, crashes>>

\* shm_open with O_CREAT | O_EXCL.
CreateOpen(p) ==
    /\ pc[p] = "create_open"
    /\ \/ /\ linked[call[p].kind] # None \/ MayFail
          /\ CreateFails(p)
          /\ UNCHANGED linked
       \/ /\ linked[call[p].kind] = None
          /\ linked' = [linked EXCEPT ![call[p].kind] = call[p].object]
          /\ Goto(p, "create_size")
          /\ UNCHANGED call
    /\ UNCHANGED <<leaked, header, memory, forked, calls, crashes>>

\* A system call failed while the block was made: unlink its name.
CreateAborts(p) ==
    /\ MayFail
    /\ Unlink(p)
    /\ CreateFails(p)
    /\ UNCHANGED header

\* ftruncate.
CreateSize(p) ==
    /\ pc[p] = "create_size"
    /\ \/ CreateAborts(p)
       \/ /\ SetHdr(p, [Hdr(p) EXCEPT !.sized = TRUE])
          /\ Goto(p, "create_fields")
          /\ UNCHANGED <<linked, leaked, call>>
    /\ UNCHANGED <<memory, forked, calls, crashes>>

(***************************************************************************)
(* Both mmaps and block_size.  A header that cannot be mapped is MAP_FAILED *)
(* and not the NULL that the code tests for, so the first store faults.    *)
(***************************************************************************)
CreateFields(p) ==
    /\ pc[p] = "create_fields"
    /\ \/ CreateAborts(p)
       \/ MayFail /\ Die(p, "fault") /\ UNCHANGED <<linked, leaked, header>>
       \/ /\ SetHdr(p, [Hdr(p) EXCEPT !.block_size = TRUE])
          /\ Goto(p, "create_mutex")
          /\ UNCHANGED <<linked, leaked, call>>
    /\ UNCHANGED <<memory, forked, calls, crashes>>

\* id_counter = 1, the mutex, the name, and the creator's own access id.
CreateMutex(p) ==
    /\ pc[p] = "create_mutex"
    /\ \/ CreateAborts(p)
       \/ /\ SetHdr(p, [Hdr(p) EXCEPT !.mutex = "ready", !.id_counter = 2])
          /\ call' = [call EXCEPT ![p].access_id = 1]
          /\ Goto(p, "create_publish")
          /\ UNCHANGED <<linked, leaked>>
    /\ UNCHANGED <<memory, forked, calls, crashes>>

CreatePublish_missing(p) ==
    /\ pc[p] = "create_publish"
    /\ memory' = [memory EXCEPT ![p][call[p].kind] =
                    [object |-> call[p].object, access_id |-> call[p].access_id]]
    /\ IF call[p].kind = "claims"
       THEN Goto(p, "list_init") /\ UNCHANGED call
       ELSE Return(p)
    /\ UNCHANGED <<linked, leaked, header, forked, calls, crashes>>

\* refcount = 1 lets the processes that wait in open go on.
CreatePublish(p) ==
    /\ pc[p] = "create_publish"
    /\ SetHdr(p, [Hdr(p) EXCEPT !.refcount = 1])
    /\ memory' = [memory EXCEPT ![p][call[p].kind] =
                    [object |-> call[p].object, access_id |-> call[p].access_id]]
    /\ IF call[p].kind = "claims"
       THEN Goto(p, "list_init") /\ UNCHANGED call
       ELSE Return(p)
    /\ UNCHANGED <<linked, leaked, forked, calls, crashes>>

ListInit_missing(p) ==
    /\ pc[p] = "list_init"
    /\ call' = [call EXCEPT ![p].kind = "real"]
    /\ Goto(p, "create_open")
    /\ UNCHANGED <<linked, leaked, header, memory, forked, calls, crashes>>

(***************************************************************************)
(* claim_list_init, when the claims block is already open to others.  When *)
(* pthread_cond_init fails, ipm_condition_init still returns SUCCESS if    *)
(* errno is none of the values it looks for, and create goes on.           *)
(***************************************************************************)
ListInit(p) ==
    /\ pc[p] = "list_init"
    /\ \/ /\ \/ SetHdr(p, [Hdr(p) EXCEPT !.list = "ready"])
             \/ MayFail /\ SetHdr(p, [Hdr(p) EXCEPT !.list = "no_condition"])
          /\ call' = [call EXCEPT ![p].kind = "real"]
          /\ Goto(p, "create_open")
       \/ MayFail /\ CloseBlock(p, "undo", "claims") /\ UNCHANGED header
    /\ UNCHANGED <<linked, leaked, memory, forked, calls, crashes>>

\* claim_list_uninit, whoever else has the claims block open by now.
ListUninit(p) ==
    /\ pc[p] = "list_uninit"
    /\ header' = [header EXCEPT !["claims"][call[p].object].list = "destroyed"]
    /\ CloseBlock(p, "undo", "claims")
    /\ UNCHANGED <<linked, leaked, memory, forked, calls, crashes>>

-----------------------------------------------------------------------------
(* ipm_memory_open: the real memory, then the claims block *)

Open(p) ==
    /\ pc[p] = "idle" /\ memory[p] = NoMemory
    /\ calls < MaxCalls
    /\ Coordinated => \E q \in Procs : Holder(q)
    /\ calls' = calls + 1
    /\ Goto(p, "open_open")
    /\ call' = [call EXCEPT ![p] = Locals("open", "real", None)]
    /\ UNCHANGED <<linked, leaked, header, memory, forked, crashes>>

\* shared_memory_block_open failed: close the real memory, if it was open.
OpenFails(p) ==
    IF call[p].kind = "real" THEN Return(p) ELSE CloseBlock(p, "undo", "real")

\* shm_open of an existing block.
OpenOpen(p) ==
    /\ pc[p] = "open_open"
    /\ \/ (linked[call[p].kind] = None \/ MayFail) /\ OpenFails(p)
       \/ /\ linked[call[p].kind] # None
          /\ call' = [call EXCEPT ![p].object = linked[call[p].kind]]
          /\ Goto(p, "open_size")
    /\ UNCHANGED <<linked, leaked, header, memory, forked, calls, crashes>>

(***************************************************************************)
(* The header is mapped and block_size read at once, before the wait for   *)
(* the creator.  An object with no length has no page to read; a size of 0 *)
(* cannot be mapped.                                                       *)
(***************************************************************************)
OpenSize(p) ==
    /\ pc[p] = "open_size"
    /\ \/ (~ Hdr(p).sized \/ MayFail) /\ Die(p, "fault")
       \/ Hdr(p).sized /\ (~ Hdr(p).block_size \/ MayFail) /\ OpenFails(p)
       \/ Hdr(p).sized /\ Hdr(p).block_size /\ Goto(p, "open_wait") /\ UNCHANGED call
    /\ UNCHANGED <<linked, leaked, header, memory, forked, calls, crashes>>

OpenWait_skipped(p) ==
    /\ pc[p] = "open_wait"
    /\ Goto(p, "open_ref")
    /\ UNCHANGED <<linked, leaked, header, call, memory, forked, calls, crashes>>

\* The sched_yield loop.  The id and the name in the header always match.
OpenWait(p) ==
    /\ pc[p] = "open_wait"
    /\ Hdr(p).refcount # 0
    /\ Goto(p, "open_ref")
    /\ UNCHANGED <<linked, leaked, header, call, memory, forked, calls, crashes>>

OpenRef(p) ==
    /\ pc[p] = "open_ref"
    /\ SetHdr(p, [Hdr(p) EXCEPT !.refcount = @ + 1])
    /\ memory' = [memory EXCEPT ![p][call[p].kind].object = call[p].object]
    /\ Goto(p, "open_id")
    /\ UNCHANGED <<linked, leaked, call, forked, calls, crashes>>

OpenId_no_increment(p) ==
    /\ pc[p] = "open_id"
    /\ memory' = [memory EXCEPT ![p][call[p].kind].access_id = Hdr(p).id_counter]
    /\ IF call[p].kind = "real"
       THEN /\ call' = [call EXCEPT ![p] = Locals("open", "claims", None)]
            /\ Goto(p, "open_open")
       ELSE Return(p)
    /\ UNCHANGED <<linked, leaked, header, forked, calls, crashes>>

OpenId(p) ==
    /\ pc[p] = "open_id"
    /\ memory' = [memory EXCEPT ![p][call[p].kind].access_id = Hdr(p).id_counter]
    /\ SetHdr(p, [Hdr(p) EXCEPT !.id_counter = @ + 1])
    /\ IF call[p].kind = "real"
       THEN /\ call' = [call EXCEPT ![p] = Locals("open", "claims", None)]
            /\ Goto(p, "open_open")
       ELSE Return(p)
    /\ UNCHANGED <<linked, leaked, forked, calls, crashes>>

-----------------------------------------------------------------------------
(* ipm_memory_close (its release_all is in ClaimRegions): the claims block, *)
(* then the real memory                                                     *)

Close(p) ==
    /\ Holder(p)
    /\ Coordinated => \/ \E q \in Procs \ {p} : Holder(q)
                      \/ \A q \in Procs : ~ Opening(q)
    /\ CloseBlock(p, "close", "claims")
    /\ UNCHANGED <<linked, leaked, header, memory, forked, calls, crashes>>

\* On to the real memory, or back to the caller.
CloseNext(p) ==
    IF call[p].op = "close" /\ call[p].kind = "claims"
    THEN CloseBlock(p, "close", "real")
    ELSE Return(p)

CloseSub_always_last(p) ==
    /\ pc[p] = "close_sub"
    /\ SetHdr(p, [Hdr(p) EXCEPT !.refcount = @ - 1])
    /\ memory' = [memory EXCEPT ![p][call[p].kind] = NoBlock]
    /\ Goto(p, "close_destroy") /\ UNCHANGED call
    /\ UNCHANGED <<linked, leaked, forked, calls, crashes>>

CloseSub_never_last(p) ==
    /\ pc[p] = "close_sub"
    /\ SetHdr(p, [Hdr(p) EXCEPT !.refcount = @ - 1])
    /\ memory' = [memory EXCEPT ![p][call[p].kind] = NoBlock]
    /\ IF Hdr(p).refcount = 0
       THEN Goto(p, "close_destroy") /\ UNCHANGED call
       ELSE CloseNext(p)
    /\ UNCHANGED <<linked, leaked, forked, calls, crashes>>

CloseSub(p) ==
    /\ pc[p] = "close_sub"
    /\ SetHdr(p, [Hdr(p) EXCEPT !.refcount = @ - 1])
    /\ memory' = [memory EXCEPT ![p][call[p].kind] = NoBlock]
    /\ IF Hdr(p).refcount = 1
       THEN Goto(p, "close_destroy") /\ UNCHANGED call
       ELSE CloseNext(p)
    /\ UNCHANGED <<linked, leaked, forked, calls, crashes>>

\* The callback (only ipm_memory_close has one), then segment_mutex.
CloseDestroy(p) ==
    /\ pc[p] = "close_destroy"
    /\ SetHdr(p, [Hdr(p) EXCEPT !.mutex = "destroyed",
                    !.list = IF call[p].op = "close" /\ call[p].kind = "claims"
                             THEN "destroyed" ELSE @])
    /\ Goto(p, "close_unlink")
    /\ UNCHANGED <<linked, leaked, call, memory, forked, calls, crashes>>

CloseUnlink(p) ==
    /\ pc[p] = "close_unlink"
    /\ Unlink(p)
    /\ CloseNext(p)
    /\ UNCHANGED <<header, memory, forked, calls, crashes>>

-----------------------------------------------------------------------------
\* fork gives process q a copy of p's ipm_memory, which no refcount counts.
Fork(p, q) ==
    /\ Holder(p)
    /\ pc[q] = "idle" /\ memory[q] = NoMemory
    /\ memory' = [memory EXCEPT ![q] = memory[p]]
    /\ forked' = forked \cup {q}
    /\ UNCHANGED <<linked, leaked, header, pc, call, calls, crashes>>

Clean_drops_reference(p) ==
    /\ pc[p] = "idle" /\ p \in forked
    /\ header' = [k \in Kinds |->
                    [header[k] EXCEPT ![memory[p][k].object].refcount = @ - 1]]
    /\ memory' = [memory EXCEPT ![p] = NoMemory]
    /\ forked' = forked \ {p}
    /\ UNCHANGED <<linked, leaked, pc, call, calls, crashes>>

\* ipm_memory_clean, which is what a child does with its copy.
Clean(p) ==
    /\ pc[p] = "idle" /\ p \in forked
    /\ memory' = [memory EXCEPT ![p] = NoMemory]
    /\ forked' = forked \ {p}
    /\ UNCHANGED <<linked, leaked, header, pc, call, calls, crashes>>

\* A killed process leaves the names and its references behind.
Crash(p) ==
    /\ pc[p] \notin {"dead", "fault"}
    /\ crashes < MaxCrashes
    /\ crashes' = crashes + 1
    /\ Die(p, "dead")
    /\ UNCHANGED <<linked, leaked, header, memory, forked, calls>>

Step(p) ==
    \/ CreateOpen(p) \/ CreateSize(p) \/ CreateFields(p) \/ CreateMutex(p)
    \/ CreatePublish(p) \/ ListInit(p) \/ ListUninit(p)
    \/ OpenOpen(p) \/ OpenSize(p) \/ OpenWait(p) \/ OpenRef(p) \/ OpenId(p)
    \/ CloseSub(p) \/ CloseDestroy(p) \/ CloseUnlink(p)

Next ==
    \E p \in Procs :
        \/ Create(p) \/ Open(p) \/ Close(p)
        \/ \E q \in Procs : Fork(p, q)
        \/ Clean(p)
        \/ Step(p)
        \/ Crash(p)

Spec == Init /\ [][Next]_vars

\* The scheduler runs every process that is inside a call.
FairSpec == Spec /\ \A p \in Procs : WF_vars(Step(p))

-----------------------------------------------------------------------------
(* Properties *)

(***************************************************************************)
(* Two ipm_memory objects on the same real memory have different access    *)
(* ids, however create and open interleave and whoever dies: ids are what  *)
(* claims_conflict and release_all tell the owners of claims apart by.     *)
(* (The users of one claim list are the users of one real memory only if   *)
(* no open has mixed the blocks of two create calls: see HandlesWhole.)    *)
(***************************************************************************)
AccessIdsUnique ==
    \A p, q \in Procs \ forked :
        /\ p # q
        /\ memory[p]["real"].object # None /\ memory[p]["real"].access_id # 0
        /\ memory[p]["real"].object = memory[q]["real"].object
        => memory[p]["real"].access_id # memory[q]["real"].access_id

(***************************************************************************)
(* refcount is the number of ipm_memory objects that have the block open,  *)
(* those of killed processes included and the copies of fork not: no       *)
(* interleaving of the creator's store, open's and close's atomic updates  *)
(* and clean loses a reference.                                            *)
(***************************************************************************)
RefcountExact ==
    \A k \in Kinds, o \in Objects :
        header[k][o].refcount =
            Cardinality({p \in Procs \ forked : memory[p][k].object = o})

(***************************************************************************)
(* If no process was killed or faulted and all have closed, a name is only *)
(* left if shm_unlink itself failed on it: every error path of create and  *)
(* open gives back what it had taken, however they interleave with closes, *)
(* and whoever gives back the last reference unlinks the name.             *)
(***************************************************************************)
NothingLeft ==
    (\A p \in Procs : pc[p] = "idle" /\ (p \in forked \/ memory[p] = NoMemory))
        => \A k \in Kinds : linked[k] = None \/ linked[k] \in leaked[k]

(***************************************************************************)
(* Whoever has the real memory and the claims block of one create call     *)
(* finds claim_list_init done, although the claims block is open to others *)
(* before it is: create makes the list before the real memory, and open    *)
(* takes the real memory first.                                            *)
(***************************************************************************)
ListBeforeUse ==
    \A p \in Procs, o \in Objects :
        memory[p]["real"].object = o /\ memory[p]["claims"].object = o
            => header["claims"][o].list # "none"

(***************************************************************************)
(* An ipm_memory that is in use has both blocks from the same create call, *)
(* with the mutexes and the condition initialised and not yet destroyed.   *)
(***************************************************************************)
HandlesWhole ==
    \A p \in Procs : Holder(p) =>
        LET c == memory[p]["claims"].object
            r == memory[p]["real"].object
        IN /\ c = r /\ c # None
           /\ header["claims"][c].mutex = "ready" /\ header["real"][r].mutex = "ready"
           /\ header["claims"][c].list = "ready"

(***************************************************************************)
(* The names keep referring to the blocks of every ipm_memory in use, so a *)
(* later open shares memory with it and create reports EXISTS.             *)
(***************************************************************************)
StillLinked ==
    \A p \in Procs : Holder(p) =>
        \A k \in Kinds : linked[k] = memory[p][k].object

(***************************************************************************)
(* Every ipm_memory_open comes back to its caller, unless its process is   *)
(* killed: the wait for the creator to set refcount ends, and no open      *)
(* faults on a block that its creator has not given a length.              *)
(***************************************************************************)
OpenReturns == \A p \in Procs : Opening(p) ~> pc[p] \in {"idle", "dead"}
=============================================================================
