------------------------------ MODULE MCAtomic ------------------------------
(* Atomic with the three signals of the RTX and a bounded signal stack.    *)
EXTENDS Atomic, TLC

CONSTANTS SIGUSR1, SIGUSR2, SIGALRM

Interchangeable == Permutations({SIGUSR1, SIGUSR2, SIGALRM})
=============================================================================
