------------------------------ MODULE Attachment -----------------------------
(***************************************************************************)
(* What the shim's Rewriter (internal/proxy/rewrite.go) promises px about  *)
(* the connections of its volumes: the volumes are attached to places, a   *)
(* name of px is at one of some places, and a command of px takes effect   *)
(* at its place once, atomically, between the request and its success.     *)
(* The grants, the names and the second calls this takes are hidden.       *)
(*                                                                         *)
(* Without a success px does not know: the command has had its effect,     *)
(* never will have it, or will have it some time later.                    *)
(***************************************************************************)
EXTENDS Naturals, FiniteSets, Bags

CONSTANTS
  Threads,    \* requests under way at a time
  Commands,   \* what px asks for: [op, name, vol], op to "connect" or "disconnect"
  placesOf,   \* per name in Commands: the places it may be at
  NoOrder     \* a thread without a command

VARIABLES
  attached,   \* what is connected: [host, vol], host a place
  order,      \* per thread: the command, and the place it is for
  phase,      \* per thread: how far it is; last, what px is told: "ok" or "error"
  left        \* bag of what the orders px has no answer to may still do

vars == <<attached, order, phase, left>>

Orders ==
  UNION {{[op |-> c.op, name |-> c.name, vol |-> c.vol, place |-> p] : p \in placesOf[c.name]} :
         c \in Commands}

\* What an order asks for, and what those of the threads of S ask for, in a bag.
task(o) == [op |-> o.op, place |-> o.place, vol |-> o.vol]
tasks(S) ==
  [k \in {task(order[t]) : t \in S} |-> Cardinality({t \in S : task(order[t]) = k})]

Init ==
  /\ attached = {}
  /\ order = [t \in Threads |-> NoOrder]
  /\ phase = [t \in Threads |-> "idle"]
  /\ left = EmptyBag

Ask(t) ==
  /\ phase[t] = "idle"
  /\ phase' = [phase EXCEPT ![t] = "asked"]
  /\ \E o \in Orders : order' = [order EXCEPT ![t] = o]
  /\ UNCHANGED <<attached, left>>

\* A volume may be attached already, but only what is attached is detached.
TakesEffect(o) ==
  LET k == [host |-> o.place, vol |-> o.vol] IN
  \/ o.op = "connect" /\ attached' = attached \union {k}
  \/ o.op = "disconnect" /\ k \in attached /\ attached' = attached \ {k}

Do(t) ==
  /\ phase[t] = "asked"
  /\ phase' = [phase EXCEPT ![t] = "done"]
  /\ TakesEffect(order[t])
  /\ UNCHANGED <<order, left>>

Refuse(t) ==
  /\ phase[t] = "asked"
  /\ phase' = [phase EXCEPT ![t] = "refused"]
  /\ UNCHANGED <<attached, order, left>>

Answer(t) ==
  /\ phase[t] \in {"done", "refused"}
  /\ phase' = [phase EXCEPT ![t] = IF @ = "done" THEN "ok" ELSE "error"]
  /\ UNCHANGED <<attached, order, left>>

\* Something is lost, and px is told an error.
Fail(t) ==
  /\ phase[t] \in {"asked", "done", "refused"}
  /\ phase' = [phase EXCEPT ![t] = "error"]
  /\ \/ left' = left
     \/ phase[t] = "asked" /\ left' = left (+) tasks({t})
  /\ UNCHANGED <<attached, order>>

Return(t) ==
  /\ phase[t] \in {"ok", "error"}
  /\ phase' = [phase EXCEPT ![t] = "idle"]
  /\ order' = [order EXCEPT ![t] = NoOrder]
  /\ UNCHANGED <<attached, left>>

\* All connections to px break; the orders of S stay behind.
Break(S) ==
  /\ \A t \in S : phase[t] = "asked"
  /\ phase' = [t \in Threads |-> "idle"]
  /\ left' = left (+) tasks(S)
  /\ order' = [t \in Threads |-> NoOrder]
  /\ UNCHANGED attached

\* An order that was left behind takes effect after all, or cannot any more.
Arrive(k) ==
  /\ left' = left (-) SetToBag({k})
  /\ TakesEffect(k) \/ UNCHANGED attached
  /\ UNCHANGED <<order, phase>>

\* An operator detaches a volume.
Remove(k) ==
  /\ attached' = attached \ {k}
  /\ UNCHANGED <<order, phase, left>>

Next ==
  \/ \E t \in Threads : Ask(t) \/ Do(t) \/ Refuse(t) \/ Answer(t) \/ Fail(t) \/ Return(t)
  \/ \E S \in SUBSET Threads : Break(S)
  \/ \E k \in BagToSet(left) : Arrive(k)
  \/ \E k \in attached : Remove(k)

Spec == Init /\ [][Next]_vars
=============================================================================
