----------------------------- MODULE MCDiplomacy ----------------------------
(* Diplomacy on a small instance.  A step that commutes with the steps of  *)
(* the loop is taken only just before the step of the loop that observes   *)
(* it; what it could do earlier it does in a cycle that fails.             *)
EXTENDS Diplomacy

CONSTANT MaxHappenings

MCWeight == [capture |-> 60]

(* The groups and the clock are observed by a picture, events by a query,  *)
(* a new mission by the status, a picture or a query, and what an operator *)
(* persists by a refresh or by the loop's own persist; an operator         *)
(* observes the clock and what the loop persists.  A restart forgets all   *)
(* that a cycle has done.                                                  *)
Observed ==
    /\ pc = "apply" => UNCHANGED <<world, saved, operators, restarts>>
    /\ <<time', inside'>> # <<time, inside>> => pc = "picture" \/ mission' # mission
    /\ Len(history') > Len(history) => pc = "query"
    /\ mission' # mission => pc \in {"status", "picture", "query"}
    /\ sessions' # sessions => pc \in {"picture", "persist"}
    /\ drafts' # drafts /\ sessions' = sessions => pc \in {"refresh", "persist"}
    /\ restarts' # restarts => pc = "status"

(* All combinations of a few happenings, and less of them in the last of   *)
(* several missions.                                                       *)
Happenings ==
    Len(history) + time + sessions + restarts + MapThenSumSet(LAMBDA g : stays[g], Groups)

Few ==
    /\ Happenings' <= MaxHappenings
    /\ mission' > 1 =>
         /\ Len(history') <= 1 /\ time' = 0 /\ inside' = {}
         /\ sessions' = sessions /\ restarts' = restarts

MCNext == Next /\ Observed /\ Few
MCSpec == Init /\ [][MCNext]_vars
=============================================================================
