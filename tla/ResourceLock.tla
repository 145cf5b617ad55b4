---------------------------- MODULE ResourceLock ----------------------------
(***************************************************************************)
(* What Engine.StartExclusive promises its callers, and nothing of how the *)
(* engine keeps the promise: a lock key ("cluster:prod", say) names a      *)
(* resource, an operation may take a free key once in its life, and the    *)
(* keys of any set of operations may be given back in one step, which is   *)
(* what a restart does.  JobEngine implements this specification.          *)
(***************************************************************************)
EXTENDS Naturals, FiniteSets

CONSTANTS
  Operations,   \* every operation (job) that will ever ask for a key
  Keys          \* the lock keys

VARIABLES
  holders,      \* key -> the operations that hold it
  past          \* the operations that have already taken a key

lockVars == <<holders, past>>

LockTypeOK ==
  /\ holders \in [Keys -> SUBSET Operations]
  /\ past \in SUBSET Operations

LockInit ==
  /\ holders = [k \in Keys |-> {}]
  /\ past = {}

\* A key that nobody holds is taken by an operation that never held one.
Acquire(o, k) ==
  /\ holders[k] = {}
  /\ o \notin past
  /\ holders' = [holders EXCEPT ![k] = {o}]
  /\ past' = past \cup {o}

\* The operations in Done give back whatever they hold.
Release(Done) ==
  /\ holders' = [k \in Keys |-> holders[k] \ Done]
  /\ UNCHANGED past

LockNext ==
  \/ \E o \in Operations, k \in Keys : Acquire(o, k)
  \/ \E Done \in SUBSET Operations : Release(Done)

LockSpec == LockInit /\ [][LockNext]_lockVars

(***************************************************************************)
(* No key is held by two operations at once: the sentence above            *)
(* StartExclusive, "a second pending/running job using the same key is     *)
(* rejected".                                                              *)
(***************************************************************************)
AtMostOneHolder ==
  \A k \in Keys : \A o, p \in holders[k] : o = p
=============================================================================
