------------------------------ MODULE Measures ------------------------------
(* Whole numbers and the least and greatest of a finite set of them.          *)
EXTENDS Integers

Abs(n) == IF n < 0 THEN -n ELSE n
Least(S) == CHOOSE n \in S : \A m \in S : n <= m
Greatest(S) == CHOOSE n \in S : \A m \in S : m <= n
=============================================================================
