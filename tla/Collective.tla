----------------------------- MODULE Collective -----------------------------
(***************************************************************************)
(* What the collective calls promise a Ruby program: all processes make    *)
(* the same calls, one after the other, and contribute one object to each. *)
(* A call that collects returns the objects of all processes, each in its  *)
(* place and each of this very call; it cannot return before they have all *)
(* begun the call.  Other calls may return at any time, ahead of everybody *)
(* else.  Any call may raise instead, and no promise is left then.         *)
(*                                                                         *)
(* Rounds, rings, sizes and dumps do not exist at this level.              *)
(***************************************************************************)
EXTENDS Naturals

CONSTANTS Proc, None

VARIABLES collects,   \* collects[p]: the numbers of the calls that collect at p
          calls,      \* calls[p]: calls p has begun
          state,      \* state[p]: out of them, in one, or raised
          result      \* result[p]: what the call that has returned gave p

collectiveVars == <<collects, calls, state, result>>

CollectiveInit ==
  /\ \A p \in Proc : collects[p] \subseteq Nat
  /\ calls = [p \in Proc |-> 0]
  /\ state = [p \in Proc |-> "out"]
  /\ result = [p \in Proc |-> None]

\* The contribution of a process to its n-th call.
Contribution(p, n) == [of |-> p, call |-> n]

Begin(p) ==
  /\ state[p] = "out"
  /\ calls' = [calls EXCEPT ![p] = @ + 1]
  /\ \E s \in {"in", "raised"} : state' = [state EXCEPT ![p] = s]
  /\ result' = [result EXCEPT ![p] = None]
  /\ UNCHANGED collects

Finish(p) ==
  /\ state[p] = "in"
  /\ state' = [state EXCEPT ![p] = "out"]
  /\ \/ /\ calls[p] \in collects[p]
        /\ \A q \in Proc : calls[q] >= calls[p]
        /\ result' = [result EXCEPT ![p] = [q \in Proc |-> Contribution(q, calls[p])]]
     \/ calls[p] \notin collects[p] /\ UNCHANGED result
  /\ UNCHANGED <<collects, calls>>

Fail(p) ==
  /\ state[p] = "in"
  /\ state' = [state EXCEPT ![p] = "raised"]
  /\ UNCHANGED <<collects, calls, result>>

CollectiveNext == \E p \in Proc : Begin(p) \/ Finish(p) \/ Fail(p)

CollectiveSpec == CollectiveInit /\ [][CollectiveNext]_collectiveVars
=============================================================================
