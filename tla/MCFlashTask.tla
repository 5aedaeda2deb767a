---------------------------- MODULE MCFlashTask ----------------------------
(* Instances of FlashTask for TLC: client tasks c1 and c2, on core 0 or one *)
(* on each core, and c1 and c2 on core 1 with c3 on core 0.                 *)
EXTENDS FlashTask, TLC

CONSTANTS c1, c2, c3

OneCore  == c1 :> "Core0" @@ c2 :> "Core0"
TwoCores == c1 :> "Core0" @@ c2 :> "Core1"
PairOnCore1 == c1 :> "Core1" @@ c2 :> "Core1" @@ c3 :> "Core0"
=============================================================================
