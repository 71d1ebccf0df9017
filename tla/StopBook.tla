-------------------------------- MODULE StopBook --------------------------------
(***************************************************************************)
(* What the bot promises of the conditional orders of its pair, as seen    *)
(* from the exchange and whatever its handlers do: never more than K at a  *)
(* time, each under an id of its own, each for an entry price the position *)
(* has or had, and cancelled one by one or all together.                   *)
(***************************************************************************)
EXTENDS Integers, FiniteSets

CONSTANTS K, StopIds

VARIABLES pos, versions, stops

Change == /\ versions' = versions + 1
          /\ pos' = versions'
          /\ UNCHANGED stops

\* The position is closed, by one of the stops or otherwise.
Close == /\ pos # 0 /\ pos' = 0
         /\ stops' = stops \/ \E s \in stops : stops' = stops \ {s}
         /\ UNCHANGED versions

Place == /\ Cardinality(stops) < K
         /\ \E i \in StopIds \ {s.id : s \in stops}, e \in 1..versions :
              stops' = stops \union {[id |-> i, entry |-> e]}
         /\ UNCHANGED <<pos, versions>>

Cancel == /\ \/ \E i \in StopIds : stops' = {s \in stops : s.id # i}
             \/ stops' = {}
          /\ UNCHANGED <<pos, versions>>

Init == pos = 0 /\ versions = 0 /\ stops = {}
Next == Change \/ Close \/ Place \/ Cancel
Spec == Init /\ [][Next]_<<pos, versions, stops>>

=============================================================================
