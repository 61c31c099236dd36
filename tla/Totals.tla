-------------------------------- MODULE Totals --------------------------------
(***************************************************************************)
(* The total of a function from a finite set to token amounts.             *)
(*                                                                         *)
(* A total is a number of token units: the pair <<x, i>> is the i-th unit  *)
(* that f assigns to x.  Counting units with Cardinality, rather than      *)
(* folding + over the domain, gives the same number and lets the proofs    *)
(* use the library's theorems about finite sets.                           *)
(***************************************************************************)
EXTENDS Integers, FiniteSets

\* The token units that f hands out.
Units(f) == UNION {{x} \X (1 .. f[x]) : x \in DOMAIN f}

\* The sum of f[x] over the domain of f.
Total(f) == Cardinality(Units(f))
===============================================================================
