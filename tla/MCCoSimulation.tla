--------------------------- MODULE MCCoSimulation ---------------------------
(***************************************************************************)
(* A small instance of CoSimulation for TLC. Two variables have the same   *)
(* name, and z is not one of the FMU.                                      *)
(***************************************************************************)
EXTENDS CoSimulation

MCDescription == <<[name |-> "x", ref |-> 1, type |-> "Real"],
                   [name |-> "b", ref |-> 2, type |-> "Boolean"],
                   [name |-> "x", ref |-> 3, type |-> "Real"],
                   [name |-> "c", ref |-> 4, type |-> "Boolean"]>>

MCInputs == <<"x", "z">>

MCInitialInputs == {<<>>, <<"z", "x">>}

MCNames == {"x", "b", "z"}

MCArrays == {[refs |-> <<1, 3>>, type |-> "Real"], [refs |-> <<2, 4>>, type |-> "Boolean"]}

=============================================================================
