# Verification of ipm

TLA+ models of the ipm inter-process memory library, the TLC configurations
that check them on small instances, and TLAPS proofs of what holds for every
instance. The reference is the C code under `src/`; `PROJECT.json` maps each
definition to the lines it models.

## The system and its parts

| part | code | model | status |
| --- | --- | --- | --- |
| claim list: a sorted array of claims in shared memory | `memory_claim.c` | `MemoryClaim`, used by `ClaimRegions` | all but the two functions without a caller |
| claim operations: `claim_region`, `release_region`, `release_all`, `remove_all_active_claims` | `ipm_memory.c` 204-351 | `ClaimRegions`, promise in `RegionLock` | modelled |
| synchronisation layer: robust mutex, condition variable | `ipm_platform.c` | `IpmPlatform` | what the library uses |
| ipm_memory objects: `create`, `open`, `close`, `clean` | `ipm_memory.c` 20-141 | `MemoryObject` | modelled |
| shared memory blocks: create, open, close, clean of one POSIX object | `shared_memory.c` | `MemoryObject`, mappings in `BlockMapping` | all but the two functions without a caller |
| resizing and remapping: `resize_grow`, `sync`, `change_access` | `shared_memory.c` 336-418, `ipm_memory.c` 158-197 | `BlockMapping` | modelled |
| queries: `get_info`, `ref_count`, `pointer` | `ipm_memory.c` | operators of `BlockMapping`; `refcount` in `MemoryObject` | modelled |
| allocation, error reporting, error tables | `ipm_common.c`, `ipm_error.c` | none | user callbacks and constant strings |

An `ipm_memory` object (a *handle*) has two POSIX shared memory blocks, one
with the user's memory and one with the claim list. Each block starts with a
header page (mutex, reference count, size, id counter). Processes find blocks
by name. A handle gets an access id from the header of the real memory, and
claims carry it, so that `claims_conflict` and `release_all` can tell whose a
claim is. `MemoryObject` shows that these ids are unique; `ClaimRegions` takes
that for granted and uses the handle itself as its id. `claim_region` checks a
claim against the size and access mode that the handle remembers of its
mapping; `BlockMapping` shows what these copies are worth while other handles
grow the block, and `ClaimRegions` takes them for the constant `BlockSize` and
the set `ReadOnly`.

## Modules

- `IpmPlatform`: a mutex is a value `[owner, state]`; the wrappers of
  `ipm_platform.c` map values to values. The pthread primitives are external
  and follow POSIX for robust mutexes. `ipm_mutex_lock` recovers a mutex whose
  owner died; `ipm_condition_wait` does not, so a sleeper that meets a dead
  owner makes the mutex unrecoverable. Which error a failed lock reports
  depends on `errno`, which pthread functions do not set; no caller tells the
  errors apart, so the model only has success and failure. An `errno` that
  happened to be EOWNERDEAD would make a failed lock return SUCCESS
  (`ipm_platform.c:122`); the model takes it not to have that value, which
  nothing that the library calls stores there.
- `MemoryClaim`: `claims_conflict`, the search positions and the two `memmove`s
  as operators on an array of slots. `SIZE_MAX` gives `size_t` its width.
  The lengths of the `memmove`s are the code's, one element short.
- `ClaimRegions`: the four claim calls as a state machine. `pc[h]` is where
  handle `h` is in its call. Steps are what another process or a crash can tell
  apart: locking, sleeping, waking, every write to the shared list, unlocking,
  signalling. A removal is `Dec` (the count is lowered, and asserted on, first)
  and `Erase` (the `memmove`). A crash can come between any two steps. Where
  the C code has undefined behaviour (a copy or a scan that leaves the array)
  the process faults, and the array may or may not have been changed.
  `held[h]` is not in the code: it is what the caller of `h` was told it has,
  and ends when the caller asks to release it.
- `RegionLock`: what the library's README promises, a reader-writer lock on
  regions. `ClaimRegions` maps `held` to its only variable.
- `MemoryObject`: create, open, close and clean over the two names, one step
  per system call on a name or access to a shared header. POSIX objects are
  told apart by the number of the create call that made them, which the code
  cannot see. `fork` copies a handle; the child cleans its copy. Every system
  call may fail when `MayFail` is set. A failed `shm_unlink` leaves the name
  where it is: `create` ignores that, `shared_memory_block_close` returns an
  error that `ipm_memory_close` drops. The variable `leaked`, which is not in
  the code, has the objects on whose name that happened. A `pthread_cond_init`
  that fails makes `create` fail or, if `errno` is none of the values that
  `ipm_condition_init` looks for, goes unnoticed and leaves a list without a
  condition (`"no_condition"`).
- `BlockMapping`: the real memory has a `length` in the system, a `block_size`
  in its header, and for each handle a `block` (its copies of size and access
  mode, and the pointer) and the mappings its process has (`maps`). A step is
  one access to the header, one system call or one operation on
  `segment_mutex`. The checks that `shared_memory_block_resize` makes before
  it takes the mutex are a step of their own, as is every `ftruncate`, store,
  `munmap` and `mmap`. Three variables are not in the code: `stray` (handles
  that unmapped pages beyond their mapping), `granted` (handles that were given
  write access) and `orderly` (every resize so far was made by a handle that
  knew the size, while no other resize was under way). Open, close and clean
  are here for their mappings; some reference keeps the block alive throughout.
  `munmap` at NULL, which every remap after the first does, unmaps the first
  bytes of the address space; the process is taken to have nothing there.
  Mappings of one process with the same size and access are one element of
  `maps`.
- `MCClaimRegions`, `MCMemoryObject`, `MCBlockMapping`: values of constants for
  TLC.
- The proofs. For `ClaimRegions`: `ClaimRegionsProofs`, then `ClaimListProofs`
  (ids and the counter) and `ClaimArrayProofs` (the array) on top of it, and
  `ExclusiveUseProofs`. For `BlockMapping`: `BlockMappingProofs`. For
  `MemoryObject`: `MemoryObjectControl`, `MemoryObjectProofs` and
  `PlannedLifetimeProofs`, each on top of the one before.

Operators with an underscore and a suffix (`Relock_no_rescan`,
`CloseSub_never_last`) are faulty versions of the definition that follows
them. No specification uses them: each is there to confirm that the property
it is paired with in `PROJECT.json` notices such a fault.

## What the runs check

Passing runs:

| run | use | properties |
| --- | --- | --- |
| `exclusive_use` | 3 handles, claims for writing, one claim at a time, `release_region`, one crash, assertions on | `MutualExclusion`, `HeldIsListed`, `NoFault`, `NoLostWakeup`, `ImplementsRegionLock`, `AllServed` |
| `any_use` | a read-write and a read-only handle, nested claims, removals that lose entries, a list that fills up, one crash, spurious wake-ups, assertions on | `OneInside`, `AddHasRoom`, `IdsUnique`, `CountCoversHolders`, `PoisonedListFrozen`, `FaultCauses` |
| `bulk_use` | 2 readers, nested claims, `release_all` and `remove_all_active_claims`, assertions off | `TypeOK`, `ReleaseAllComplete` |
| `any_lifetimes` | 3 processes, create/open/close/fork/clean in any order, failing system calls, one crash | `TypeOK`, `AccessIdsUnique`, `RefcountExact`, `NothingLeft`, `ListBeforeUse` |
| `planned_lifetimes` | the same, with opens only while some handle is sure to stay open (as in `tests/fork_test.c`), one crash, no failing calls | `HandlesWhole`, `StillLinked`, `OpenReturns` |
| `resizing` | 2 handles, resize/sync/change access/close/open in any order, failing `ftruncate` and `mmap`, one crash, assertions on | `TypeOK`, `OrderlyBacked`, `SizesAgree`, `ClaimsAreMapped`, `NoEscalation`, `OrderlyNeverShrinks`, `OnlyStaleResizeFaults`, `OnlyStaleCloseStrays`, `CallsReturn` |

Runs that end in a violation, because the code disagrees with its documentation
or with its own assertion:

| run | property | what TLC shows |
| --- | --- | --- |
| `shared_use` | `MutualExclusion` | removing an entry that is not the last forgets the last one (`memory_claim.c:135`); two handles then have conflicting claims |
| `owner_death` | `SuccessMeansListed` | a failed wait makes `claim_region` return SUCCESS with no claim (`ipm_memory.c:261`) |
| `closing_holder` | `NoLostWakeup` | `release_all`, and so `ipm_memory_close`, wakes nobody (`ipm_memory.c:325`) |
| `unplanned_open` | `OpenReturns` | an open that runs while the block is made reads its header before it has a length (`shared_memory.c:199`) and dies of a SIGBUS, before it gets to the loop that waits for the creator |
| `resize_race` | `NeverShrinks` | the check against shrinking comes before the mutex (`shared_memory.c:367`); of two concurrent resizes the smaller can win |
| `remap_pointer` | `PointerToMapping` | a remap that succeeds does not store the new address (`shared_memory.c:359`): `ipm_memory_pointer` returns NULL, which `ipm_memory.h:151` gives for a failed remap only |

`unplanned_open` has a second way to fail, which TLC does not get to because it
stops at the first: an open that got its descriptor before the last handle was
closed waits for ever for a `refcount` that nobody will set
(`shared_memory.c:222`), although nothing went wrong in any creation. With
`"fault"` added to the places where an open may end, TLC reports that one.

Three properties of passing runs describe calls that end in an abort or in
damage where the header file promises an error code or nothing of the kind.
They say that these are the *only* cases, and the runs reach them:

- `FaultCauses`: `release_region` kills its process or leaves the array when the
  list is full or has lost the claim (`memory_claim.c:101`, `:124`);
  `ipm_memory.h:129` promises `IPM_RESULT_ERR_INVALID_CLAIM`.
- `OnlyStaleResizeFaults`: `resize_grow` on a handle whose copy of the size is
  behind the header's passes the check against the copy and fails the assertion
  against the header (`shared_memory.c:367`); `ipm_memory.h:88` promises an error
  code. Without assertions the resize goes on and makes the block smaller.
- `OnlyStaleCloseStrays`: `close` and `clean` unmap as many bytes as the header
  says now (`shared_memory.c:429`), so a handle whose copy is behind unmaps what
  lies after its mapping too; `ipm_memory.h:59` says that `clean` "only unmaps
  the shared memory".

Together the tables say where the claim operations can be relied on.
`claims_conflict` lets a claim for writing exist only alone
(`ConflictIgnoresRegions`), so with writers that have one claim each the list
never has two entries and the short `memmove`s never matter: this is
*exclusive use*. With readers or nested claims the list has several entries,
removals lose some, and only the properties of `any_use` and `bulk_use` remain.
`FaultCauses` says why a call can kill its process there: it releases a claim
while the list is full (the assertion at `memory_claim.c:101` excludes that
count), or the list has lost an entry that the caller still has. A claim of a
killed process stays in the list for good (`HeldIsListed` is about dead holders
too), so waiters on it wait for ever; `NoLostWakeup` and `AllServed` are
therefore about behaviours in which nobody was killed.

In the lifetime runs a killed process is still a user: `RefcountExact` counts
its handle, as the code does, so after a death `refcount` stays too high and the
names stay linked. `NothingLeft` is about behaviours in which nobody died. With
failing system calls it allows for names on which `shm_unlink` itself failed, and
for no others. `AccessIdsUnique` is about the users of one real memory; they are
the users of one claim list only when no open has mixed the blocks of two
creations, which coordinated opens exclude (`HandlesWhole`).

In *orderly* use resizing never shrinks the block and never cuts a mapping off.
`resize_race` shows what fails outside it; `SizesAgree`, `ClaimsAreMapped`,
`NoEscalation`, `OnlyStaleResizeFaults`, `OnlyStaleCloseStrays` and `CallsReturn`
hold for every use. `SizesAgree` leaves out behaviours with a death, which can
come between `ftruncate` and the store; `OrderlyBacked` covers those. A handle
whose remap failed is read-only and has no bytes until the next `sync` or
`change_access`, and a `sync` does not give it back its access mode. A handle that
has been remapped does not know the address of its mapping any more, so neither a
later remap nor `close` can unmap it (`Mmap`, and `Unmap` of NULL).

### Bounds

- 3 handles in `exclusive_use`: a holder, a sleeper, and a third one that gets
  in between a signal and the sleeper's return. 2 in `any_use` and `bulk_use`,
  where nesting puts several entries of one handle in the list.
- `Capacity` 2 or 3 in place of 99: enough for a full list, and for a removal
  before, between and behind other entries. `MaxClaims` is at least `Capacity`,
  and exceeds it in `any_use` so that a claim meets a full list.
- Two adjacent regions of different offsets: `claims_conflict` and the sorted
  insertion only compare offsets, for which less, equal and greater all occur.
  `BlockSize` 4 and `SIZE_MAX` 7 keep these regions from wrapping around.
- `MaxCalls` 3 in the lifetime runs: two creations and an open that mixes their
  blocks, or one creation and two opens.
- `MaxCalls` 4 in `resizing`: two resizes that overlap, or one and a sync, a
  change of access or a close and an open that meet it or follow it. Pages of 2
  bytes and requests of 0, 3 and 5 bytes: sizes that are rounded, refused, equal
  to the current one and greater, with two different greater ones.
- One crash; it can hit any process at any step.
- Deadlock is not checked: when the bounds on calls are used up and everybody
  is done, or a list is unrecoverable, the system stops.

### Fairness

`FairSpec` of the three modules has weak fairness of each thread's steps inside a
library call: the operating system runs every runnable thread, and a mutex
that is free is eventually obtained (the bounded number of calls makes the
difference between weak and strong fairness of locking irrelevant: only
finitely many others can get in between). `ClaimRegions` adds that a caller
gives up each claim in the end, which is the caller's part of the bargain in a
lock. Nobody is obliged to make claims, to open, to close, or to be killed.
`exclusive_use` has no spurious wake-ups because they would mask a lost signal,
and because their endless repetition is no fault of the library (`any_use` has
them, and the proofs allow them).

## What is proved

For all values of the constants that satisfy the named assumptions
(`CapacityAssumption`: at least two slots; `SizeAssumption`: the capacity fits
in a `size_t`; `HandleAssumption`: no handle is the "nobody" value;
`RegionAssumption`, `UseAssumption`: types of the arguments), with any set of
handles and any number of crashes. Every safety property and action property of
the passing runs is proved, under the same restrictions on use as in the run or
weaker ones. `MutualExclusion`, `SuccessMeansListed`, `NoLostWakeup` and
`NeverShrinks`, which runs show violated, each have a theorem that says for which
use they hold. Each inductive invariant was also checked by TLC,
on the instance of the run that its theorems belong to or a larger one.

- `ClaimRegionsProofs`, for every use of the claim calls: `TypeCorrectness`
  (`[]TypeOK`), `CriticalSection` (`[]OneInside`), `RoomForClaims`
  (`[]AddHasRoom`), `PoisonFreezes` (`PoisonedListFrozen`). The inductive
  invariant is `Inv == TypeOK /\ Control`. `OneInside` is not inductive alone:
  `Control` says that a handle in the critical section owns the mutex *and*
  that the mutex is consistent, without which a sleeper's failed wait could not
  be told from a successful one; and that the calls only reach their own steps.
  The module starts with the lemmas on the operators of `MemoryClaim`:
  `ConflictIgnoresRegions` (for regions of any size, as long as the one that
  starts later does not wrap), and the types and positions of the array operators.
  That a search returns the *first* position needs the least-element principle,
  taken from `WellFoundedInduction`.
- `ClaimListProofs`. For every use, `UniqueClaimIds` (`[]IdsUnique`), with the
  invariant `Names`: the ids of claims that callers have, ask for or give back
  are below `claim_counter` and all different (`Ids`), and a caller that was
  told SUCCESS without a claim has an unrecoverable list (`Poison`), so that its
  release cannot touch the list. `ASSUME Ops = {}` (only `claim_region` and
  `release_region`, as in `any_use`): `CounterCoversHolders`
  (`[]CountCoversHolders`) and `FaultsExplained` (`FaultCauses`). Their
  invariant `Counted` says that the claims that live callers have, together
  with the one just added or about to be removed (`AllOwed`), are finitely many
  and no more than `count`, and that `count` is at most the capacity. The larger
  set is needed: a release takes the claim from the caller before it lowers the
  counter. `release_all` is excluded because the short `memmove` can leave the
  removed entry where it was: `release_all` then removes it a second time, and
  the counter falls below what others have.
- `ClaimArrayProofs`, for every use: `ReleaseAllLeavesNothing`
  (`[]ReleaseAllComplete`). `claim_remove_from_list` searches by id and takes
  the first match, so `release_all` could remove another entry than the one it
  looks at. That it does not follows from `Array` (entries with the same id have
  the same owner, or the later one was never written) and `Sweeping` (no entry
  before the position of the sweep belongs to the sweeper).
- `ExclusiveUseProofs`, `ASSUME ExclusiveUse` (all claims for writing, no
  nesting, no `remove_all`, no region wraps around):
  `ExclusiveMutualExclusion`, `ExclusiveHeldIsListed`, `ExclusiveNoFault`,
  `ExclusiveSuccessMeansListed` and `ExclusiveImplementsRegionLock`. The inductive invariant `Exclusive` says the
  list has at most one entry, who it belongs to at each point of each call
  (`Adding`, `Removing`, `Holding`), and that a live handle with an entry still
  has it or is on the way to remove it (`Accounted`): that is what makes the
  assertion `count > 0` true in `claim_remove_from_list`. `StepSimulation` then
  shows that each step is a step of `RegionLock` or leaves its state alone.
  `ExclusiveSuccessMeansListed` is the counterpart of `owner_death`: while
  `crashes = 0` nobody leaves `list_mutex` inconsistent (`Sound`), so no wait
  fails and every SUCCESS comes with an entry in the list.
  `ExclusiveNoLostWakeup` (`[]NoLostWakeup`) also has `Ops = {}`, as in the run:
  `release_all` wakes nobody (`closing_holder`). Its invariant `Wakeful` ties the
  waiters of the condition to the handles asleep, and says that while there is
  one the list has an entry or somebody is inside, woken or about to signal
  (`Attended`); `Single` says that only `release_region` removes entries, and
  it goes on to signal.
- `BlockMappingProofs`, for every set of handles, page size, set of requests and
  number of calls and crashes (`MappingAssumption`), with or without assertions
  and failing system calls: all the safety properties of the `resizing` run.
  The inductive invariant adds to `TypeOK`: who is inside the critical section
  owns a consistent mutex (`Locked`); with nobody killed, the two sizes differ
  only between an `ftruncate` and its store (`Agreed`); in orderly use there is
  one resize at a time, for no less than the size in the header, and no mapping
  or local copy exceeds that size (`Ordered`); with assertions the size in the
  header and the sizes that resizes ask for are never 0 (`Positive`, for
  `OnlyStaleResizeFaults`: a request for 0 bytes passes the check of a handle
  whose remap failed); each handle's copies describe a
  mapping that it has, at every point of its call (`Recorded`, `Writable`).
  `OrderlyBacked` is not inductive alone: that a later `ftruncate` never cuts a
  mapping off follows from the mappings being bounded by `block_size`, not by
  `length`, which a death before the store may leave too large.
  `OnlyStaleCloseStrays` rests on `Recorded`: the length that a remap unmaps is
  the size of the mapping at the handle's address, if it has one.
- `MemoryObjectControl` and `MemoryObjectProofs`, for any finite set of processes
  and any number of calls and crashes (`UseAssumption`), coordinated or not:
  `ObjectTypeOK`, `ObjectRefcountExact`, `ObjectAccessIdsUnique`,
  `ObjectNothingLeft` and `ObjectListBeforeUse`. The inductive invariant `Inv` says which blocks a process
  has at each point of each call (`Control`); that no two create calls make the
  same object (`OneCreator`); that an object that is not yet published
  has no user and nobody is about to become one (`FreshUnused`): this is what
  the wait in `shared_memory_block_open` is for, and without it the creator's
  plain store `refcount = 1` could overwrite an increment; and that the ids
  given out are different and below `id_counter` (`IdsBelow`, `IdsDiffer`).
  The first module shows that every step keeps the types and `Control`, and what
  each step does to counters and ids; the second combines them. For
  `NothingLeft` the invariant `LinkKept` is added: every name that is linked has
  a process that has the block, is making it, or is about to unlink it, or that
  died, or an `shm_unlink` of it has failed. It rests on `RefcountExact`: only the
  last user finds the counter at 1. For `ListBeforeUse` there is `ListFirst`: an
  object of the real memory exists, or is being made, only once the list of the
  same create call was stored.
- `PlannedLifetimeProofs`, for the same uses but `ASSUME Coordinated, ~ MayFail`
  (opens only while some handle is sure to stay open, and no failing system
  calls, as in `planned_lifetimes`): `PlannedHandlesWhole` and
  `PlannedStillLinked`. The invariant `Planned` says that
  the blocks of a handle are the named ones, whole, and from one create call
  (`Blocks`); how far a creation has come, block by block and between the two
  blocks (`Making`, `Halfway`); that a block is only destroyed and unlinked by
  one process, with the counter at 0 (`Removing`); and that whoever opens has a
  handle to rely on and works on the blocks that the names refer to now
  (`Attached`). The last one is where the coordination comes in: the handle that
  stays open keeps both counters above 0, so nobody unlinks a name between the
  `shm_open` and the increment of an open.

Only model-checked: liveness (`AllServed`, `OpenReturns`, `CallsReturn`), which
is out of the prover's reach.

## Not modelled

- `claims_iterate`, `claim_encompasses_other`, `acquire_memory_block_whole`,
  `release_memory_block_whole`, the semaphores, `ipm_condition_broadcast`: no
  caller in the library.
- Allocation, error reporting and error tables (`ipm_common.c`, `ipm_error.c`):
  calls of the user's callbacks and constant strings, with no state of the
  library's. A failed allocation returns before any effect.
- The user's memory itself and what is written there.
- `ipm_memory_clean` on a handle that is not the copy made by `fork`: for the
  other processes it is the same as being killed, which is modelled.
- A region whose end wraps around `size_t`, and calls that break the documented
  preconditions (a release of an id that was never given out).
- Addresses: a mapping is its size and access mode, so that what lies after it
  is only known to exist (`stray`).
- `release_all` at the start of `ipm_memory_close` is in `ClaimRegions` only.
  The three state machines are not composed into one: they share only the
  access ids (unique by `ObjectAccessIdsUnique`) and the handle's size and
  access mode (described by `ClaimsAreMapped`), and each bounds the others'
  part by what it may do at any time.

## Plan

1. Done: the claim operations over the synchronisation layer, their promise,
   and proofs for every use and for exclusive use; the lifetime of handles and
   its proofs, for every use and for coordinated opens; resizing and remapping
   with proofs.
2. A specification that composes `ClaimRegions` with the handles' lifetimes, so
   that `release_all` at the start of a close meets the other handles' claims.
