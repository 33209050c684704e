------------------------------- MODULE Escrow -------------------------------
(***************************************************************************)
(* What a custody contract promises, without its evidence, clock, grants   *)
(* and accounts: each order's tokens enter the pot once and leave it once. *)
(* Before the other leg of the exchange is owed they may go back to where  *)
(* they came from; afterwards they can only complete the exchange.         *)
(***************************************************************************)
EXTENDS Naturals

CONSTANTS Orders,
          Sizes     \* the amounts an order may have

VARIABLES phase,    \* where each order stands
          size,     \* its amount, fixed when it opens
          pot       \* the tokens in custody

evars == <<phase, size, pot>>

Phases == {"none", "open", "held", "owed", "paid", "returned"}

Step(id, from, to) ==
    phase[id] = from /\ phase' = [phase EXCEPT ![id] = to]

\* An order opens with its tokens still outside, or already inside.
Open(id, n) ==
    /\ Step(id, "none", "open")
    /\ size' = [size EXCEPT ![id] = n]
    /\ UNCHANGED pot

OpenHeld(id, n) ==
    /\ Step(id, "none", "held")
    /\ size' = [size EXCEPT ![id] = n]
    /\ pot' = pot + n

Hold(id) ==
    /\ Step(id, "open", "held")
    /\ pot' = pot + size[id]
    /\ UNCHANGED size

\* The other leg is promised, or was paid: there is no way back.
Owe(id) == Step(id, "held", "owed") /\ UNCHANGED <<size, pot>>

Return(id) ==
    /\ Step(id, "held", "returned")
    /\ pot' = pot - size[id]
    /\ UNCHANGED size

Complete(id) ==
    /\ Step(id, "owed", "paid")
    /\ pot' = pot - size[id]
    /\ UNCHANGED size

EscrowInit ==
    /\ phase = [id \in Orders |-> "none"]
    /\ size = [id \in Orders |-> 0]
    /\ pot = 0

EscrowNext ==
    \E id \in Orders :
        \/ \E n \in Sizes : Open(id, n) \/ OpenHeld(id, n)
        \/ Hold(id)
        \/ Owe(id)
        \/ Return(id)
        \/ Complete(id)

EscrowSpec == EscrowInit /\ [][EscrowNext]_evars

=============================================================================
