----------------------------- MODULE RollbackFmu -----------------------------
(***************************************************************************)
(* A program that integrates a model exchange FMU until End, through an    *)
(* FMUModelExchange object or through a RollbackFMU, which is one that     *)
(* stops before events and can go back to a state it keeps.                *)
(***************************************************************************)
EXTENDS ModelExchange

CONSTANTS
    Versions,             \* versions of the FMI
    StepperTypes,         \* properties_.type
    Stateless,            \* whether an FMU has no continuous states
    StepEvents,           \* what completedIntegratorStep() may ask for
    Users,                \* what programs use: "direct" or "rollback"
    Targets, End,         \* times a program asks for, and the last one
    MaxReturns,           \* bound: how often a program rolls back, resets flags or steps over
    None

ASSUME RollbackFmuAssumption ==
    /\ Versions \subseteq {1, 2}
    /\ StepperTypes \subseteq ConstantSteppers \cup ControlledSteppers \cup DenseSteppers
    /\ Stateless \subseteq BOOLEAN /\ StepEvents \subseteq BOOLEAN
    /\ Users \subseteq {"direct", "rollback"}
    /\ Targets \subseteq Nat /\ End \in Targets
    /\ \A t \in Targets : t + Eighth < Infinity
    /\ MaxReturns \in Nat
    /\ None \notin Int

VARIABLES
    rb,     \* rollbackState_ and rollbackStateSaved_
    left    \* how often the program may still go back

vars == <<fmu, me, ig, pc, crossings, call, rb, left>>

(* used: the program uses a RollbackFMU; abandoned: it rolled back or      *)
(* reset the flags while the object stood before an event, or it rolled    *)
(* back an FMU without continuous states, whose indicators stay saved.     *)
RollbackRecord ==
    [used : BOOLEAN, time_ : Int, state_ : Int, saved : BOOLEAN, abandoned : BOOLEAN]

-----------------------------------------------------------------------------
(* Until a model is initialized: FMI 2.0 asks the FMU for its discrete     *)
(* states once, needed or not.                                             *)

Initialize ==
    /\ pc = "new"
    /\ fmu' \in NewDiscreteStates([fmu EXCEPT !.mode = "continuous"])
    /\ me' = SaveEventIndicators([me EXCEPT !.tnextevent_ = IF fmu'.next # Infinity THEN fmu'.next ELSE @], fmu)
    /\ pc' = "idle"
    /\ UNCHANGED <<ig, crossings, call, rb, left>>

(* Calls of integrate(). A RollbackFMU keeps the state it starts from,     *)
(* unless the program had it save another one.                             *)
Kept == IF rb.used /\ ~rb.saved
        THEN [rb EXCEPT !.time_ = me.time_, !.state_ = fmu.state] ELSE rb

CallIntegrate(tend, dt, stepEvent) ==
    /\ pc = "idle" /\ tend > me.time_
    /\ Integrate(fmu, me, [call EXCEPT !.tend = tend, !.dt = dt], stepEvent)
    /\ rb' = Kept
    /\ UNCHANGED <<crossings, left>>

(* RollbackFMU::rollback(): events are handled before and after the states *)
(* are put back; a time before the one kept is refused, and nothing done.  *)
RollbackTo(tend, dt) ==
    /\ pc = "idle" /\ rb.used /\ left > 0
    /\ rb.time_ <= tend /\ tend < me.time_
    /\ HandleEvents(SetTime(fmu, rb.time_), [me EXCEPT !.time_ = rb.time_],
                    [call EXCEPT !.tend = tend, !.dt = dt], "rolled")
    /\ rb' = [rb EXCEPT !.abandoned = @ \/ me.upcomingEvent_ \/ fmu.stateless]
    /\ left' = left - 1
    /\ UNCHANGED <<ig, crossings>>

RolledBack ==
    /\ Iterated /\ call.then = "rolled"
    /\ HandleEvents(IF fmu.stateless THEN Continuous ELSE PutAt(Continuous, fmu.time, rb.state_),
                    me, call, "restored")
    /\ UNCHANGED <<ig, crossings, rb, left>>

IntegrateAgain(stepEvent) ==
    /\ Iterated /\ call.then = "restored"
    /\ Integrate(Continuous, me, call, stepEvent)
    /\ UNCHANGED <<crossings, rb, left>>

Save ==
    /\ pc = "idle" /\ rb.used /\ ~rb.saved
    /\ rb' = [rb EXCEPT !.time_ = me.time_, !.state_ = fmu.state, !.saved = TRUE]
    /\ UNCHANGED <<fmu, me, ig, pc, crossings, call, left>>

Release ==
    /\ pc = "idle" /\ rb.saved /\ left > 0
    /\ rb' = [rb EXCEPT !.saved = FALSE]
    /\ left' = left - 1
    /\ UNCHANGED <<fmu, me, ig, pc, crossings, call>>

(* Other calls: to get the right-sided limit of an event the object        *)
(* stopped before, to forget about it, and to ask for events.              *)
CallStepOverEvent(stepEvent) ==
    /\ pc = "idle" /\ ~rb.used /\ ~fmu.stateless /\ me.upcomingEvent_ /\ left > 0
    /\ StepOver(fmu, me, call, "over", stepEvent)
    /\ left' = left - 1
    /\ UNCHANGED <<ig, crossings, rb>>

SteppedOverEvent ==
    /\ Iterated /\ call.then = "over"
    /\ fmu' = Continuous
    /\ me' = SteppedOver(Continuous)
    /\ Return
    /\ UNCHANGED <<crossings, rb, left>>

ResetEventFlags ==
    /\ pc = "idle" /\ ~rb.used /\ left > 0
    /\ me' = [me EXCEPT !.eventFlag_ = FALSE, !.timeEvent_ = FALSE, !.stateEvent_ = FALSE,
                        !.upcomingEvent_ = FALSE]
    /\ rb' = [rb EXCEPT !.abandoned = @ \/ me.upcomingEvent_]
    /\ left' = left - 1
    /\ UNCHANGED <<fmu, ig, pc, crossings, call>>

CheckEvents ==
    /\ pc = "idle" /\ ~rb.used
    /\ me' = IF CheckStateEvent(me, fmu) THEN [me EXCEPT !.eventFlag_ = TRUE]
             ELSE [me EXCEPT !.tnextevent_ = fmu.next]
    /\ UNCHANGED <<fmu, ig, pc, crossings, call, rb, left>>

-----------------------------------------------------------------------------

Init ==
    /\ crossings \in Crossings
    /\ \E type \in StepperTypes : ig = AtRest(type, FALSE, SomeStep)
    /\ call = NoCall
    /\ \E stateless \in Stateless :
          fmu = [stateless |-> stateless, time |-> 0, state |-> 0, acted |-> 1, next |-> Infinity,
                 mode |-> "continuous", more |-> FALSE]
    /\ \E version \in Versions, user \in Users, stop \in BOOLEAN :
          /\ user = "rollback" => stop
          /\ me = [version |-> version, stopBeforeEvent_ |-> stop, time_ |-> 0, tend_ |-> 0,
                   tnextevent_ |-> Infinity, saved |-> 0, blind |-> FALSE, timeEvent_ |-> FALSE,
                   stateEvent_ |-> FALSE, upcomingEvent_ |-> FALSE, eventFlag_ |-> FALSE,
                   enterEventMode_ |-> FALSE]
          /\ rb = [used |-> user = "rollback", time_ |-> 0, state_ |-> 0, saved |-> FALSE,
                   abandoned |-> FALSE]
    /\ pc = "new"
    /\ left = MaxReturns

Handle ==
    /\ \/ Iterate
       \/ StartAfterEvent
       \/ OdeintDone /\ UNCHANGED call
       \/ \E h \in 1 .. End, dt \in StepSizes, stepEvent \in StepEvents :
             OdeintStep(h, dt, stepEvent) /\ UNCHANGED call
       \/ \E h \in StepSizes, stepEvent \in StepEvents :
             DenseStep(h, stepEvent) /\ UNCHANGED call
       \/ (Clip \/ Bisect \/ Located) /\ UNCHANGED call
       \/ \E stepEvent \in StepEvents : AfterIntegration(stepEvent) \/ HandleArrival(stepEvent)
       \/ FinishIntegration
       \/ Arrived
    /\ UNCHANGED <<rb, left>>

Program ==
    \/ Initialize
    \/ \E tend \in Targets, dt \in StepSizes, stepEvent \in StepEvents :
          CallIntegrate(tend, dt, stepEvent)
    \/ \E tend \in Targets, dt \in StepSizes : RollbackTo(tend, dt)
    \/ RolledBack
    \/ \E stepEvent \in StepEvents : IntegrateAgain(stepEvent) \/ CallStepOverEvent(stepEvent)
    \/ SteppedOverEvent
    \/ Save
    \/ Release
    \/ ResetEventFlags
    \/ CheckEvents

(* The program has got as far as it wanted to.                             *)
Ended == pc = "idle" /\ me.time_ >= End /\ UNCHANGED vars

Next == Handle \/ Program \/ Ended

(* A call goes on until it returns, and the program goes on calling.       *)
Fairness == WF_vars(Next)

Spec == Init /\ [][Next]_vars /\ Fairness

TypeOK ==
    /\ fmu \in FmuRecord
    /\ me \in HandleRecord
    /\ ig \in IntegratorRecord
    /\ pc \in {"new", "idle", "stepping", "searching", "integrated", "iterating", "arrived"}
    /\ crossings \in Crossings
    /\ call \in CallRecord
    /\ rb \in RollbackRecord
    /\ left \in 0 .. MaxReturns

-----------------------------------------------------------------------------

IsOdeint == ~IsDense

(* Between calls the object, the instance and the continuous states are at *)
(* one time, through step events, the search for a state event with its    *)
(* steps forth and back, and rollbacks. The dense steppers are left out:   *)
(* their search puts back states of another time than the one it goes to.  *)
StateMatchesTime ==
    pc = "idle" /\ IsOdeint => fmu.time = me.time_ /\ fmu.state = fmu.time

(* No change of sign between two calls is lost: the FMU has acted on it,   *)
(* or the object stopped before it. An indicator that is zero where an     *)
(* integration begins hides the next change, which is left out.            *)
SignChangesActedOn ==
    pc = "idle" /\ IsOdeint /\ ~me.upcomingEvent_ /\ ~me.blind /\ ~rb.abandoned =>
        Indicators(fmu) \in {0, fmu.acted}

(* A state event the object stopped before lies within the horizon, which  *)
(* is no wider than the search precision.                                  *)
HorizonBracketsEvent ==
    pc = "idle" /\ IsOdeint /\ me.upcomingEvent_ /\ me.stateEvent_ /\ ~fmu.stateless =>
        /\ \E c \in crossings : me.time_ <= c /\ c < me.tend_
        /\ me.tend_ - me.time_ <= Half + Eighth

(* No call passes a time event the FMU has asked for without handling it,  *)
(* if the program did not roll back from an event.                         *)
NotPastTimeEvent ==
    pc = "idle" /\ IsOdeint /\ ~rb.abandoned =>
        \/ fmu.time < fmu.next
        \/ fmu.stateless /\ fmu.time = fmu.next /\ me.timeEvent_

(* integrate() keeps its contract: until tend or until the first event.    *)
(* Of the dense steppers, too.                                             *)
InIntegrate ==
    \/ pc \in {"stepping", "searching", "integrated", "arrived"}
    \/ pc = "iterating" /\ call.then \in {"start", "step", "event", "arrived"}

Contract ==
    INSTANCE IntegrationContract WITH
        m <- IF InIntegrate THEN call.before ELSE Outlook,
        asked <- IF InIntegrate THEN call.tend ELSE None,
        Back <- Half, Ahead <- Eighth, Horizon <- Half + Eighth

ImplementsContract == Contract!Spec

(* Every call returns, an event iteration the FMU never ends included. In  *)
(* version 1 nothing bounds it.                                            *)
CallReturns == me.version = 2 => (pc # "idle" ~> pc = "idle")

(* A program that goes on calling integrate() gets to the time it wants.   *)
(* The dense steppers are left out: see StepEventHappened.                 *)
ReachesEnd == me.version = 2 /\ IsOdeint => <>(me.time_ >= End)

(* What an integration says of step events is about that integration. Only *)
(* the steppers that are not dense see to it; the record of another one    *)
(* has a later time event taken for a step event, which is not handled.    *)
StepEventHappened == pc = "integrated" /\ ig.info.stepEvent => me.enterEventMode_

=============================================================================
