------------------------------ MODULE MCRamps ------------------------------
(* Small instances of Ramps: two deposits that share a firm quote, or a       *)
(* withdrawal (MCMixes); one deposit alone (MCAlone).  Two lira buy a token.  *)
EXTENDS Ramps

CONSTANTS d1, d2, w1, qb, qs

MCMixes == {{d1, d2}, {w1}}
MCAlone == {{d1}}

\* One token is wanted, or given away, at the mid rate.
MCAsked == [q \in {qb, qs} |-> [exact |-> IF q = qb THEN "buy" ELSE "sell",
                                amount |-> 1, mid |-> 2]]

=============================================================================
