-------------------------------- MODULE MCLvMem --------------------------------
(* Two tasks in a pool of six words, with and without joining freed        *)
(* blocks.                                                                 *)
EXTENDS LvMem

MCTasks == {1, 2}
MCSizes == {0, 1, 2}
===============================================================================
