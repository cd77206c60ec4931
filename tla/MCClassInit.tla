------------------------------ MODULE MCClassInit ------------------------------
(***************************************************************************)
(* ClassInit with an interface that is initialised from two sides.         *)
(***************************************************************************)
EXTENDS ClassInit, TLC

CONSTANTS Base, Sub, Face

\* Base and Sub both implement Face, whose <clinit> uses Sub.
FlagClass == {Base, Sub, Face}
FlagSuper == [c \in FlagClass |-> None]
FlagInterfaces == (Face :> <<>>) @@ [c \in FlagClass |-> <<Face>>]
FlagPrograms == {(Face :> <<Sub>>) @@ [c \in FlagClass |-> <<>>]}

==============================================================================
