---------------------------- MODULE LockTracker ----------------------------
(***************************************************************************)
(* LockTracker (lifecycle.rs): the state machine over consumer arrivals    *)
(* and departures that decides when the desktop is locked.  Its methods    *)
(* run one at a time, under the mutex that IdleLock's threads share.       *)
(* Times are whole seconds of the process's monotonic clock.               *)
(***************************************************************************)
EXTENDS Integers

CONSTANTS
  After,   \* LockPolicy::after, in seconds
  None     \* the Option value None

ASSUME AfterAssumption == After \in Nat \ {0}
ASSUME NoneAssumption == None \notin Int

VARIABLES
  consumers,  \* how many consumers the signals say are attached
  zeroSince,  \* when the count last became zero, or None
  locked      \* the lock of this idle period has been decided

trackerVars == <<consumers, zeroSince, locked>>

TrackerTypeOK ==
  /\ consumers \in Nat
  /\ zeroSince \in Nat \cup {None}
  /\ locked \in BOOLEAN

TrackerInit ==
  /\ consumers = 0
  /\ zeroSince = None
  /\ locked = FALSE

(***************************************************************************)
(* Mutated forms, used only to show that the properties notice them.       *)
(***************************************************************************)
AddedWithoutRearm ==
  /\ consumers' = consumers + 1
  /\ zeroSince' = None
  /\ UNCHANGED locked

AddedWithoutCounting ==
  /\ consumers' = 1
  /\ zeroSince' = None
  /\ locked' = FALSE

RemovedIsLast(t) ==
  /\ consumers' = 0
  /\ zeroSince' = t
  /\ UNCHANGED locked

PlainPred(n) == n - 1

(***************************************************************************)
(* The methods.                                                            *)
(***************************************************************************)
OnConsumerAdded ==
  /\ consumers' = consumers + 1
  /\ zeroSince' = None
  /\ locked' = FALSE

SaturatingPred(n) == IF n = 0 THEN 0 ELSE n - 1

OnConsumerRemoved(t) ==
  /\ consumers' = SaturatingPred(consumers)
  /\ zeroSince' = IF consumers' = 0 THEN t ELSE zeroSince
  /\ UNCHANGED locked

\* The condition under which should_lock answers true.
Due(t) ==
  /\ ~locked
  /\ consumers = 0
  /\ zeroSince # None
  /\ t - zeroSince >= After

\* should_lock: the flag is set by the call that answers true.
ShouldLock(t) ==
  /\ Due(t)
  /\ locked' = TRUE
  /\ UNCHANGED <<consumers, zeroSince>>
=============================================================================
