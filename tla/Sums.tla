-------------------------------- MODULE Sums --------------------------------
(***************************************************************************)
(* Sums over the rows of a sequence and over a finite set, as recursive    *)
(* functions: the provers can unfold them (SumLemmas), unlike the folds of *)
(* FiniteSetsExt.                                                          *)
(***************************************************************************)
EXTENDS Integers

\* f[1] + ... + f[n]
Sum(f, n) == LET s[k \in 0..n] == IF k = 0 THEN 0 ELSE s[k - 1] + f[k] IN s[n]

\* The sum of f[x] for the x in S.
SumOver(f, S) ==
    LET s[T \in SUBSET S] == IF T = {} THEN 0
                             ELSE f[CHOOSE x \in T : TRUE] + s[T \ {CHOOSE x \in T : TRUE}]
    IN  s[S]
=============================================================================
