---------------------------- MODULE MCFmuObjects ----------------------------
(***************************************************************************)
(* A small instance of FmuObjects for TLC: a directory of every type, one  *)
(* with two identifiers, three that fail to load, and three that claim one *)
(* identifier, two of them with the same type.                             *)
(***************************************************************************)
EXTENDS FmuObjects, TLC

CONSTANTS o1, o2, a, sameAsA, otherThanA, model, slave, both, badUri, invalid, noLibrary, halfLibrary

AllDirs == {a, sameAsA, otherThanA, model, slave, both, badUri, invalid, noLibrary,
            halfLibrary}

Ids == a :> <<1>> @@ sameAsA :> <<1>> @@ otherThanA :> <<1>> @@ model :> <<2>>
       @@ slave :> <<3>> @@ both :> <<4, 2>> @@ badUri :> <<5>> @@ invalid :> <<5>>
       @@ noLibrary :> <<5>> @@ halfLibrary :> <<6>>

Types == [d \in AllDirs |->
            CASE d = model      -> "fmi_1_0_me"
              [] d = slave      -> "fmi_1_0_cs"
              [] d = both       -> "fmi_2_0_me_and_cs"
              [] d = otherThanA -> "fmi_2_0_me"
              [] OTHER          -> "fmi_2_0_cs"]

Files == [d \in AllDirs |->
            CASE d = badUri  -> "bad_uri"
              [] d = invalid -> "invalid"
              [] OTHER       -> "valid"]

Binaries == [d \in AllDirs |->
            CASE d = noLibrary   -> "missing"
              [] d = halfLibrary -> "incomplete"
              [] OTHER           -> "complete"]


=============================================================================
