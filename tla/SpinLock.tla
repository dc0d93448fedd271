------------------------------- MODULE SpinLock ------------------------------
(***************************************************************************)
(* reentrant_spin_lock of src/src/spinlock/spin_lock.h.  The owner is an   *)
(* atomic, the depth a plain int that only the owner may touch: taking the *)
(* lock and counting are two steps, and so are counting down and giving it *)
(* up.  A thread that spins only reads, so a round of its loop is no step. *)
(***************************************************************************)
EXTENDS Naturals

CONSTANTS Threads,
          NoThread,   \* default_id, which is no thread's
          Locks

VARIABLES
  thread_id,  \* who owns a lock
  count       \* how often the owner has locked it

LockTypeOK == /\ thread_id \in [Locks -> Threads \cup {NoThread}]
              /\ count \in [Locks -> Nat]

LockInit == /\ thread_id = [k \in Locks |-> NoThread]
            /\ count = [k \in Locks |-> 0]

\* The compare-and-swap that ends the loop of lock(), for a free lock or one's own; the
\* mutant takes the lock whoever owns it.
SeizeLock(t, k) ==
  /\ thread_id' = [thread_id EXCEPT ![k] = t]
  /\ UNCHANGED count

TakeLock(t, k) ==
  /\ thread_id[k] \in {NoThread, t}
  /\ thread_id' = [thread_id EXCEPT ![k] = t]
  /\ UNCHANGED count

CountUp(k) ==
  /\ count' = [count EXCEPT ![k] = @ + 1]
  /\ UNCHANGED thread_id

\* unlock() throws when another thread owns the lock: this step is then not possible.
CountDown(t, k) ==
  /\ thread_id[k] = t
  /\ count' = [count EXCEPT ![k] = @ - 1]
  /\ UNCHANGED thread_id

\* The store of default_id, after a count that has come down to zero.
GiveUpLock(k) ==
  /\ thread_id' = [thread_id EXCEPT ![k] = NoThread]
  /\ UNCHANGED count
==============================================================================
