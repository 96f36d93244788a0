--------------------------- MODULE MCFmuFactories ---------------------------
(***************************************************************************)
(* Small instances of FmuFactories for TLC: all lists of up to two configs *)
(* out of nine, for single nodes and for sets of nodes, over directories   *)
(* that load, that are rejected and that claim the identifier of another.  *)
(***************************************************************************)
EXTENDS FmuFactories, TLC

CONSTANTS a, sameAsA, otherThanA, b, both, noLibrary, n, m

AllDirs == {a, sameAsA, otherThanA, b, both, noLibrary}

Ids == a :> <<1>> @@ sameAsA :> <<1>> @@ otherThanA :> <<1>> @@ b :> <<2>>
       @@ both :> <<3, 1>> @@ noLibrary :> <<4>>

Types == [d \in AllDirs |-> CASE d = otherThanA -> "fmi_2_0_me"
                              [] d = both       -> "fmi_2_0_me_and_cs"
                              [] OTHER          -> "fmi_2_0_cs"]

Files == [d \in AllDirs |-> "valid"]

Binaries == [d \in AllDirs |-> IF d = noLibrary THEN "missing" ELSE "complete"]

Of(dir, nodes, name, pairs, write) ==
    [dir |-> dir, nodes |-> nodes, name |-> name, pairs |-> pairs, write |-> write]

To(device, client) == [device |-> device, client |-> client]

(* For single nodes, one of which sends data, ...                          *)
Single == {Of(a, {1}, n, <<To(1, 9)>>, TRUE), Of(sameAsA, {2}, n, <<>>, FALSE),
           Of(otherThanA, {1}, n, <<>>, TRUE), Of(b, {2}, m, <<>>, TRUE),
           Of(both, {2}, n, <<>>, TRUE), Of(noLibrary, {1}, n, <<>>, TRUE)}

(* ... and for two nodes, with two pairs of one device, and with a pair    *)
(* whose device is none of them.                                           *)
Several == {Of(a, {1, 2}, n, <<To(1, 8), To(1, 9), To(2, 9)>>, TRUE),
            Of(b, {3, 4}, m, <<>>, TRUE),
            Of(b, {3, 4}, m, <<To(1, 9)>>, TRUE)}

Configs == Single \cup Several
UpToTwo == {<<>>} \cup {<<c>> : c \in Configs} \cup {<<c1, c2>> : c1, c2 \in Configs}

(* Two nodes with the same FMU.                                            *)
TwoOfOne == {<<Of(a, {1}, n, <<>>, TRUE), Of(a, {2}, n, <<>>, FALSE)>>}

=============================================================================
