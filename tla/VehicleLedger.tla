---------------------------- MODULE VehicleLedger ----------------------------
(***************************************************************************)
(* What the vehicle analytics promise, without crossings, plates, classes  *)
(* or files: a vehicle is tracked until it is done with, never both; being *)
(* done with enters it in the ledger, where one entry is made of a vehicle *)
(* and is final, unless the entry is lost; and those done with are         *)
(* remembered, up to a limit, so that they are not tracked again.          *)
(***************************************************************************)
EXTENDS Integers, FiniteSets

CONSTANTS Vehicles, Limit

VARIABLES
  tracked,  \* vehicles being followed
  done,     \* vehicles remembered as done with
  ledger,   \* the entry of each vehicle that has one
  lost      \* vehicles whose entry could not be made

vars == <<tracked, done, ledger, lost>>

Init ==
  /\ tracked = {}
  /\ done = {}
  /\ DOMAIN ledger = {}
  /\ lost = {}

Track(v) ==
  /\ v \notin tracked \cup done
  /\ tracked' = tracked \cup {v}
  /\ UNCHANGED <<done, ledger, lost>>

\* All others are forgotten when there are too many of them.
Remember(v) == done' = IF Cardinality(done) < Limit THEN done \cup {v} ELSE {v}

\* An entry made before stands.
Enter(v) ==
  \/ v \in DOMAIN ledger /\ UNCHANGED <<ledger, lost>>
  \/ /\ v \notin DOMAIN ledger
     /\ DOMAIN ledger' = DOMAIN ledger \cup {v}
     /\ \A u \in DOMAIN ledger : ledger'[u] = ledger[u]
     /\ UNCHANGED lost
  \/ /\ v \notin DOMAIN ledger
     /\ lost' = lost \cup {v}
     /\ UNCHANGED ledger

Close(v) ==
  /\ v \notin done
  /\ tracked' = tracked \ {v}
  /\ Remember(v)
  /\ Enter(v)

\* Another run begins with the ledger of the former.
Reopen ==
  /\ tracked' = {} /\ done' = {} /\ lost' = {}
  /\ UNCHANGED ledger

Next == Reopen \/ \E v \in Vehicles : Track(v) \/ Close(v)

Spec == Init /\ [][Next]_vars
===============================================================================
