----------------------------- MODULE CommandCalls -----------------------------
(***************************************************************************)
(* What the bridge promises the caller of a command, whatever happens to   *)
(* the connections: the command has its effect at most once and never      *)
(* before the call; the call ends once; it returns an acknowledgement only *)
(* after the effect.  A call that gave up says nothing about the effect.   *)
(***************************************************************************)
EXTENDS Naturals

CONSTANT Calls

VARIABLES
  state,   \* of each call: "idle", "waiting", "returned" or "abandoned"
  times    \* how often the command of each call has had its effect

vars == <<state, times>>

Init ==
  /\ state = [c \in Calls |-> "idle"]
  /\ times = [c \in Calls |-> 0]

Start(c) ==
  /\ state[c] = "idle"
  /\ state' = [state EXCEPT ![c] = "waiting"]
  /\ UNCHANGED times

TakeEffect(c) ==
  /\ state[c] # "idle" /\ times[c] = 0
  /\ times' = [times EXCEPT ![c] = 1]
  /\ UNCHANGED state

Return(c) ==
  /\ state[c] = "waiting" /\ times[c] = 1
  /\ state' = [state EXCEPT ![c] = "returned"]
  /\ UNCHANGED times

\* A mission boundary abandons all the calls at once.
Abandon(S) ==
  /\ \A c \in S : state[c] = "waiting"
  /\ state' = [c \in Calls |-> IF c \in S THEN "abandoned" ELSE state[c]]
  /\ UNCHANGED times

Next ==
  \/ \E c \in Calls : Start(c) \/ TakeEffect(c) \/ Return(c)
  \/ \E S \in SUBSET Calls : Abandon(S)

Spec == Init /\ [][Next]_vars
=============================================================================
