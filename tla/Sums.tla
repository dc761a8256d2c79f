---------------------------------- MODULE Sums ---------------------------------
(***************************************************************************)
(* Sums, for what the tone detectors and the transform have to compute.    *)
(*                                                                         *)
(* Both ask of their arithmetic no more than that sums and products obey   *)
(* the rules and that there is a root of unity of the order they need.     *)
(* Here they compute with residues, and choose a prime that has one.       *)
(***************************************************************************)
EXTENDS Integers

CONSTANT Prime  \* arithmetic is modulo this

(* The sum of x[0], ..., x[n - 1].                                          *)
Total(x, n) ==
  LET sum[k \in 0..n] == IF k = 0 THEN 0 ELSE sum[k - 1] + x[k - 1]
  IN  sum[n]
================================================================================
