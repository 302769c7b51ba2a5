------------------------------- MODULE EngineApi -------------------------------
(***************************************************************************)
(* The engine's REST controller on 127.0.0.1:9090 as the screens meet it   *)
(* (external): it answers while the engine runs, and refuses otherwise.    *)
(* What the engine keeps behind it is declared by the screen that asks for *)
(* it.                                                                     *)
(***************************************************************************)
EXTENDS Integers, Sequences, FiniteSets

CONSTANT MaxStarts  \* starts of the engine

ASSUME StartsAssumption == MaxStarts \in Nat

VARIABLES up, starts
apiVars == <<up, starts>>

ApiStart == /\ ~up /\ starts < MaxStarts
            /\ up' = TRUE /\ starts' = starts + 1
ApiStop  == /\ up /\ up' = FALSE
            /\ UNCHANGED starts

\* A request is served while the engine runs and refused while it does not.
Answer(accepted, refused) == IF up THEN accepted ELSE refused
===============================================================================
