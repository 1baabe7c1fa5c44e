-------------------------------- MODULE RwLock --------------------------------
(***************************************************************************)
(* The C library's pthread_rwlock_t as the template caches use it.  Only   *)
(* the counter of readers matters, because no thread ever asks for the     *)
(* lock as a writer: the functions that should,                            *)
(* ipfix_converter_template_cache_wr_lock and                              *)
(* nfv9_converter_template_cache_wr_lock, call pthread_rwlock_unlock.      *)
(* What unlocking a lock that nobody holds does is undefined; the module   *)
(* has the two outcomes that the program meets in practice: "old" is the   *)
(* lock of glibc before 2.25, "new" that of 2.25 and later.                *)
(***************************************************************************)
EXTENDS Integers

CONSTANTS CounterSize,  \* bound: the reader counter is taken modulo this
          Libraries     \* the C libraries that the program may run with

\* The counter is an unsigned int: the values that it takes are even in number.
ASSUME RwLockAssumption == /\ CounterSize \in Nat /\ CounterSize > 1
                           /\ CounterSize % 2 = 0
                           /\ Libraries \subseteq {"old", "new"}

VARIABLES readers,      \* the reader counter
          library       \* the C library

RwLockInit == readers = 0 /\ library \in Libraries

\* A reader is refused with EAGAIN when the counter would overflow.  In the new
\* lock the upper half of the counter's range counts as overflow, so that a
\* counter that was decremented below zero refuses every reader; in the old one
\* only the step from the largest value to zero does.
RdLockFails == LET n == (readers + 1) % CounterSize
               IN  IF library = "new" THEN n >= CounterSize \div 2 ELSE n = 0

RdLock == readers' = IF RdLockFails THEN readers ELSE (readers + 1) % CounterSize

\* With no reader and no writer inside, the counter is decremented all the same.
Unlocked(n) == (n - 1) % CounterSize

RwUnlock == readers' = Unlocked(readers)

RwLockTypeOK == readers \in 0..(CounterSize - 1) /\ library \in Libraries
=============================================================================
