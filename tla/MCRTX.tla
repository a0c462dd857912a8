------------------------------- MODULE MCRTX -------------------------------
(* RTX with the processes and priorities of init_processes, and the        *)
(* console changes "n 1 3" (process A above the null process 7, beside 5). *)
EXTENDS RTX, TLC

Table == 3 :> 2 @@ 4 :> 2 @@ 5 :> 1 @@ 6 :> 0 @@ 7 :> 3
Change == {<<1, 3>>}
=============================================================================
