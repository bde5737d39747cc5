------------------------------ MODULE ArrayCall ------------------------------
(***************************************************************************)
(* What arraySession.do (internal/proxy/array.go) promises its callers:    *)
(* one call to do is one call to the array.  The array carries it out at   *)
(* most once; do says what became of it, or fails, and then the call may   *)
(* have been carried out, never will be, or will be some time later.       *)
(*                                                                         *)
(* Rewriter relies on this promise (its actions ArrayExec, ArrayRefuse,    *)
(* CallLost and LateExec); ArraySession implements it.                     *)
(***************************************************************************)
EXTENDS Naturals

CONSTANT Calls    \* calls to do; a name is used again when its last call is over

VARIABLES
  phase,    \* "idle", "asked" by a caller, or "left" by its caller with the array
  runs,     \* how often the array has carried the call out
  result    \* what do returned

vars == <<phase, runs, result>>

Results == {"none", "done", "unauthorized", "error"}

TypeOK ==
  /\ phase \in [Calls -> {"idle", "asked", "left"}]
  /\ runs \in [Calls -> 0 .. 1]
  /\ result \in [Calls -> Results]

Init ==
  /\ phase = [c \in Calls |-> "idle"]
  /\ runs = [c \in Calls |-> 0]
  /\ result = [c \in Calls |-> "none"]

Ask(c) ==
  /\ phase[c] = "idle"
  /\ phase' = [phase EXCEPT ![c] = "asked"]
  /\ runs' = [runs EXCEPT ![c] = 0]
  /\ result' = [result EXCEPT ![c] = "none"]

\* The array carries the call out, for the first and only time.
Run(c) ==
  /\ phase[c] \in {"asked", "left"} /\ runs[c] = 0
  /\ runs' = [runs EXCEPT ![c] = 1]
  /\ phase' = [phase EXCEPT ![c] = IF @ = "left" THEN "idle" ELSE @]
  /\ UNCHANGED result

\* do returns the array's answer, or that the array did not let the call in.
Return(c) ==
  /\ phase[c] = "asked"
  /\ phase' = [phase EXCEPT ![c] = "idle"]
  /\ result' = [result EXCEPT ![c] = IF runs[c] = 1 THEN "done" ELSE "unauthorized"]
  /\ UNCHANGED runs

\* do fails for the calls of S, which the array may still carry out if it has not (those of L).
Abandon(S, L) ==
  /\ \A c \in S : phase[c] = "asked"
  /\ L \subseteq S /\ \A c \in L : runs[c] = 0
  /\ phase' = [c \in Calls |-> IF c \in L THEN "left" ELSE IF c \in S THEN "idle" ELSE phase[c]]
  /\ result' = [c \in Calls |-> IF c \in S THEN "error" ELSE result[c]]
  /\ UNCHANGED runs

\* An abandoned call never reaches the array.
Drop(c) ==
  /\ phase[c] = "left"
  /\ phase' = [phase EXCEPT ![c] = "idle"]
  /\ UNCHANGED <<runs, result>>

Next ==
  \/ \E c \in Calls : Ask(c) \/ Run(c) \/ Return(c) \/ Drop(c)
  \/ \E S, L \in SUBSET Calls : Abandon(S, L)

Spec == Init /\ [][Next]_vars
=============================================================================
