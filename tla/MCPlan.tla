-------------------------------- MODULE MCPlan --------------------------------
(* Instances of PlanExecution for TLC.                                        *)
EXTENDS PlanExecution

\* Two phases, the first with two AUFTRAGs; for some goals one is optional.
TwoThenOne == <<1, 1, 2>>
EachAction == {<<"capture", {1, 2, 3}>>, <<"defend", {1, 3}>>,
               <<"destroy", {1, 2, 3}>>, <<"disable", {1, 2}>>}

\* One coroutine that stops with the first failure, beside an abort; goals that
\* are decided during the first attempt, and one before it.
OneBeside == {<<"disable", 1>>}
Decisions == {<<"capture", 1>>, <<"defend", 1>>, <<"destroy", 0>>, <<"disable", 1>>}
=============================================================================
