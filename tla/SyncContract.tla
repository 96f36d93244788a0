---------------------------- MODULE SyncContract ----------------------------
(***************************************************************************)
(* What a fixed-step, interpolating or variable-step wrapper promises the  *)
(* program that synchronizes an FMU through it, in the terms a program can *)
(* see: the time its outputs are of, and the time sync() returns. Whatever *)
(* steps it takes and whatever the FMU answers, the outputs never go back; *)
(* they are those of the end of the interval, or of the last step before   *)
(* it; and the time that is returned is later than the interval and no     *)
(* more than a step beyond it, or, if a step failed, one to go on from.    *)
(***************************************************************************)
EXTENDS Integers

CONSTANTS
    StepSize,     \* communication step size, or what the variable wrapper looks ahead
    Resolution    \* times closer than this are taken for the same

VARIABLES
    kind,         \* "fixed", "interpolating", "variable", or "direct" without a wrapper
    ready,        \* whether init() returned 1
    final,        \* stop time
    asked,        \* end of the last interval that was accepted
    shown,        \* the time the outputs are of
    told,         \* what sync() returned last
    outcome       \* "none", "done", "failed" or "refused"

vars == <<kind, ready, final, asked, shown, told, outcome>>

Init ==
    /\ ~ready
    /\ outcome = "none"

(* Where the next interval may begin.                                      *)
From == IF outcome = "failed" THEN told ELSE asked

Slack == IF kind = "variable" THEN Resolution ELSE 0

(* init(), once more if a step failed or it did not succeed.               *)
Start ==
    /\ ready => outcome = "failed"
    /\ ready' \in BOOLEAN /\ asked' \in Int
    /\ ready' => shown' = asked'
    /\ ~ready' => UNCHANGED <<shown, final>>
    /\ outcome' = "none"
    /\ UNCHANGED <<kind, told>>

(* The outputs a fixed-step wrapper shows at t1 are less than a step old,  *)
(* unless it has stopped.                                                  *)
ShowsLastStep(t1) ==
    /\ shown' <= t1
    /\ \/ t1 < shown' + StepSize
       \/ shown' = shown /\ final <= shown

Done ==
    /\ outcome' = "done"
    /\ IF kind = "fixed" THEN ShowsLastStep(asked') ELSE shown' = asked'
    /\ asked' <= final => told' > asked' + Slack
    /\ told' <= asked' + StepSize

Failed ==
    /\ outcome' = "failed"
    /\ shown' <= told' /\ told' <= asked'

Sync ==
    /\ ready
    /\ asked' \in Int /\ From <= asked'
    /\ shown <= shown'
    /\ Done \/ Failed
    /\ UNCHANGED <<kind, ready, final>>

(* The number of a status is returned for a time.                          *)
Refuse ==
    /\ ready /\ kind = "variable"
    /\ outcome' = "refused"
    /\ UNCHANGED <<kind, ready, final, asked, shown>>

(* iterateOnce() shows the outputs of the point it iterates at.            *)
Iterate ==
    /\ ready
    /\ shown <= shown' /\ shown' \in {shown, From}
    /\ UNCHANGED <<kind, ready, final, asked, told, outcome>>

Delete == ~ready' /\ UNCHANGED <<kind, final, asked, shown, told, outcome>>

Next == Start \/ Sync \/ Refuse \/ Iterate \/ Delete

Spec == Init /\ [][Next]_vars

=============================================================================
