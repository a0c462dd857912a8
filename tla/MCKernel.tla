------------------------------ MODULE MCKernel ------------------------------
(* Kernel on two i-processes (0, 1), two or three clients and a null       *)
(* process, in the configurations the runs compare.                        *)
EXTENDS Kernel, TLC

(* Every client alone on its level; client 2 moves between the levels      *)
(* above and below client 3.                                               *)
Distinct == 2 :> 0 @@ 3 :> 1 @@ 4 :> 3
Crossing == {<<0, 2>>, <<2, 2>>}

(* Two clients that share a level, as processes A and B do.                *)
Shared == 2 :> 2 @@ 3 :> 2 @@ 4 :> 3

(* From the table of init_processes: the CCI above two processes of level  *)
(* 2 that share it, and the null process of level 3.  Process 5, another   *)
(* null process at level 1, is left out.                                   *)
Booted == 2 :> 0 @@ 3 :> 2 @@ 4 :> 2 @@ 5 :> 3

(* The console moves one of them down to the null process and back.        *)
Console == {2, 3} \X {4}
=============================================================================
