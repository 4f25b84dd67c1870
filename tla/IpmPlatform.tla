---------------------------- MODULE IpmPlatform ----------------------------
(***************************************************************************)
(* The synchronisation layer of ipm_platform.c: the library's wrappers     *)
(* around a process-shared, error-checking, ROBUST pthread mutex and a     *)
(* process-shared condition variable.  A mutex is a value; every operator  *)
(* maps the value before the call to the value after it.  The pthread      *)
(* operations themselves are external and are modelled from POSIX as the   *)
(* wrappers use them.                                                      *)
(***************************************************************************)

CONSTANT NoOwner     \* the owner field of a mutex that nobody holds

(***************************************************************************)
(* "inconsistent": the last owner died in the critical section and nobody  *)
(* has called pthread_mutex_consistent yet.  "unrecoverable": the mutex    *)
(* was unlocked while inconsistent; every later lock fails.                *)
(***************************************************************************)
MutexState == {"consistent", "inconsistent", "unrecoverable"}

Mutex(P) == [owner : P \cup {NoOwner}, state : MutexState]

-----------------------------------------------------------------------------
(* pthread primitives *)

\* A lock attempt returns at once unless another thread owns the mutex.
LockReturns(m) == m.owner = NoOwner

\* ENOTRECOVERABLE, or the lock (with EOWNERDEAD if m is inconsistent).
pthread_mutex_lock(m, p) ==
    IF m.state = "unrecoverable" THEN m ELSE [m EXCEPT !.owner = p]

\* EPERM leaves the mutex alone; unlocking an inconsistent one ruins it.
pthread_mutex_unlock(m, p) ==
    IF m.owner # p
    THEN m
    ELSE [owner |-> NoOwner,
          state |-> IF m.state = "consistent" THEN "consistent"
                                              ELSE "unrecoverable"]

\* The kernel marks a robust mutex when its owner dies.
OwnerDies(m, p) ==
    IF m.owner = p THEN [owner |-> NoOwner, state |-> "inconsistent"] ELSE m

-----------------------------------------------------------------------------
(* The wrappers *)

ipm_mutex_init == [owner |-> NoOwner, state |-> "consistent"]

(***************************************************************************)
(* On EOWNERDEAD the wrapper calls pthread_mutex_consistent and reports    *)
(* success.  On any other error it reports a failure: which one depends on *)
(* errno, which pthread functions do not set, and no caller tells the      *)
(* failures apart.  (If errno happened to be EOWNERDEAD the wrapper would  *)
(* report success without the mutex; errno is taken not to have that       *)
(* value, which nothing in the library or under it stores there.)          *)
(***************************************************************************)
LockSucceeds_always(m) == TRUE
LockSucceeds(m) == m.state # "unrecoverable"

ipm_mutex_lock(m, p) ==
    IF LockSucceeds(m)
    THEN [pthread_mutex_lock(m, p) EXCEPT !.state = "consistent"]
    ELSE m

ipm_mutex_unlock(m, p) == pthread_mutex_unlock(m, p)

(***************************************************************************)
(* The second half of ipm_condition_wait: pthread_cond_wait takes the      *)
(* mutex back.  The wrapper does not know EOWNERDEAD: it reports it as a   *)
(* failure, and the caller owns a mutex that is still inconsistent.        *)
(***************************************************************************)
WaitSucceeds(m) == m.state = "consistent"

RelockAfterWait(m, p) == pthread_mutex_lock(m, p)

\* The possible sets of waiters after ipm_condition_signal.
ipm_condition_signal(waiters) ==
    IF waiters = {} THEN {{}} ELSE {waiters \ {w} : w \in waiters}
=============================================================================
