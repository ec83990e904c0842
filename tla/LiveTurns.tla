----------------------------- MODULE LiveTurns ------------------------------
(***************************************************************************)
(* LiveTurns of integrations/starlette.py: one live turn per key, the      *)
(* newest one winning.  This is the registry of one key, as the requests   *)
(* that share the key use it, each on a thread of its own:                 *)
(*                                                                         *)
(*   begin()  swaps itself in under the lock, and stops whom it displaced  *)
(*            only after the lock is released (Swap, Displace);            *)
(*   the end of the response sets the turn's own Event and then calls      *)
(*            end(), which checks the owner (SetOwn, End);                 *)
(*   stop()   reads the live turn under the lock and sets its Event after  *)
(*            (StopReads, StopSets).                                       *)
(*                                                                         *)
(* A turn stands for the Event it was started with.                        *)
(***************************************************************************)
EXTENDS Integers

CONSTANT MaxTurns   (* bound: requests with this key                        *)

Turn == 1 .. MaxTurns
Nobody == 0

VARIABLES
  live,       (* _live[key]                                                 *)
  cancel,     (* cancel[t]: the Event of turn t is set                      *)
  stage,      (* how far turn t has come in begin(), its run and end()      *)
  displaced,  (* displaced[t]: previous, as begin() of t found it           *)
  stopping    (* whom a call of stop() is about to set                      *)

vars == <<live, cancel, stage, displaced, stopping>>

Init ==
  /\ live = Nobody
  /\ cancel = [t \in Turn |-> FALSE]
  /\ stage = [t \in Turn |-> "new"]
  /\ displaced = [t \in Turn |-> Nobody]
  /\ stopping = Nobody

(* with self._lock: previous = self._live.get(key); self._live[key] = cancel*)
Swap(t) ==
  /\ stage[t] = "new"
  /\ displaced' = [displaced EXCEPT ![t] = live]
  /\ live' = t
  /\ stage' = [stage EXCEPT ![t] = "swapped"]
  /\ UNCHANGED <<cancel, stopping>>

(* Bug: the displaced turn is left running.                                 *)
DisplaceNobody(t) ==
  /\ stage[t] = "swapped"
  /\ stage' = [stage EXCEPT ![t] = "begun"]
  /\ UNCHANGED <<live, cancel, displaced, stopping>>

(* if previous is not None and previous is not cancel: previous.set()       *)
Displace(t) ==
  /\ stage[t] = "swapped"
  /\ cancel' = [u \in Turn |-> cancel[u] \/ u = displaced[t]]
  /\ stage' = [stage EXCEPT ![t] = "begun"]
  /\ UNCHANGED <<live, displaced, stopping>>

(* finally: cancel.set()                                                    *)
SetOwn(t) ==
  /\ stage[t] = "begun"
  /\ cancel' = [cancel EXCEPT ![t] = TRUE]
  /\ stage' = [stage EXCEPT ![t] = "ending"]
  /\ UNCHANGED <<live, displaced, stopping>>

(* Bug: whoever is live is forgotten.                                       *)
EndAnybody(t) ==
  /\ stage[t] = "ending"
  /\ live' = Nobody
  /\ stage' = [stage EXCEPT ![t] = "ended"]
  /\ UNCHANGED <<cancel, displaced, stopping>>

(* with self._lock: if self._live.get(key) is cancel: pop                   *)
End(t) ==
  /\ stage[t] = "ending"
  /\ live' = IF live = t THEN Nobody ELSE live
  /\ stage' = [stage EXCEPT ![t] = "ended"]
  /\ UNCHANGED <<cancel, displaced, stopping>>

(* with self._lock: cancel = self._live.get(key)                            *)
StopReads ==
  /\ stopping = Nobody
  /\ live # Nobody
  /\ stopping' = live
  /\ UNCHANGED <<live, cancel, stage, displaced>>

(* cancel.set()                                                             *)
StopSets ==
  /\ stopping # Nobody
  /\ cancel' = [u \in Turn |-> cancel[u] \/ u = stopping]
  /\ stopping' = Nobody
  /\ UNCHANGED <<live, stage, displaced>>

TurnStep(t) == Swap(t) \/ Displace(t) \/ SetOwn(t) \/ End(t)

Next == (\E t \in Turn : TurnStep(t)) \/ StopReads \/ StopSets

Spec == Init /\ [][Next]_vars

-----------------------------------------------------------------------------
TypeOK ==
  /\ live \in Turn \cup {Nobody}
  /\ cancel \in [Turn -> BOOLEAN]
  /\ stage \in [Turn -> {"new", "swapped", "begun", "ending", "ended"}]
  /\ displaced \in [Turn -> Turn \cup {Nobody}]
  /\ stopping \in Turn \cup {Nobody}

(* A turn that has begun and that nobody has stopped is the registered one, *)
(* or the begin() that displaced it is just about to stop it: whatever      *)
(* begins, ends and hangs up at the same time, no turn escapes the registry *)
(* and runs alongside its replacement (LiveTurns, end).                     *)
NewestWins ==
  \A t \in Turn : stage[t] \in {"swapped", "begun"} /\ ~cancel[t] =>
    \/ live = t
    \/ \E u \in Turn : stage[u] = "swapped" /\ displaced[u] = t

(* What is proved by induction of the registry, whoever uses it.            *)
RegistryInv == TypeOK /\ NewestWins
=============================================================================
