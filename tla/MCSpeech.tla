------------------------------- MODULE MCSpeech -------------------------------
(***************************************************************************)
(* The instance of Speech the run `speech' checks: three senders share one *)
(* network, and the first also speaks on a second network.                 *)
(***************************************************************************)
EXTENDS Speech, TLC

CONSTANTS i1, i2, i3, i4, i5, a, b, c, n1, n2, p, k

MCSenderOf == i1 :> a @@ i2 :> b @@ i3 :> a @@ i4 :> c @@ i5 :> b
MCNetworkOf == [i \in Intents |-> IF i = i3 THEN n2 ELSE n1]
MCSessionOf == [i \in Intents |-> IF i = i3 THEN p ELSE NoSession]
MCDedupeKey == [i \in Intents |-> IF i \in {i2, i5} THEN k ELSE NoKey]
MCPriority == i1 :> 1 @@ i2 :> 1 @@ i3 :> 2 @@ i4 :> 2 @@ i5 :> 1
MCDuration == [i \in Intents |-> IF i = i2 THEN 3 ELSE 1]
MCTimeToLive == i1 :> 3 @@ i2 :> 3 @@ i3 :> 1 @@ i4 :> 2 @@ i5 :> 2
MCInterval == n1 :> 1 @@ n2 :> 0
MCModeChoices == {n1 :> m @@ n2 :> m : m \in Modes}
MCBackoff == 1 :> 0 @@ 2 :> 1 @@ 3 :> 0
MCCollides == {2, 3}
OwnerSymmetry == Permutations(Owners)
=============================================================================
