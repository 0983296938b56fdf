---------------------------- MODULE MCCoordinator ----------------------------
(* Two candidates of one coalition and none of the other, which shares the lock.                   *)
EXTENDS Coordinator, TLC

CONSTANTS blue, red, b1, b2

MCSideOf == b1 :> blue @@ b2 :> blue
MCMaxAttempts == b1 :> 2 @@ b2 :> 1
MCMaxCycles == blue :> 3 @@ red :> 0
MCCooldown == "completed" :> 2 @@ "blocked" :> 1 @@ "failed" :> 1
=============================================================================
