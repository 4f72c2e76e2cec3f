---------------------------- MODULE MCDelegation ----------------------------
(* A small instance of Delegation for TLC.                                 *)
EXTENDS Delegation

CONSTANTS n1, n2, c1, c2

\* A pipeline whose stages share a name with the workers of other turns, and one
\* that uses the same name twice.
MCPlans == {<<n1, n2>>, <<n1, n1>>}
=============================================================================
