-------------------------- MODULE CoSimulationProofs -------------------------
(***************************************************************************)
(* Proofs about CoSimulation: the times of a slave and of the wrapper that *)
(* drives it, for any FMU, any step sizes and any program.                 *)
(***************************************************************************)
EXTENDS CoSimulation, Loops, TLAPS

-----------------------------------------------------------------------------
(* The invariant. Between the calls of a program, and inside the loops of  *)
(* the wrappers, an object whose FMU is in use has a time, which is that   *)
(* of the FMU if it never moved with a warning.                            *)

SlaveOK(s) ==
    /\ s \in SlaveRecord
    /\ s.phase \in {"instantiated", "initializing", "stepping"} => s.time_ \in Int
    /\ s.phase = "stepping" /\ ~s.warned => s.time_ = s.fmuTime

(* From, Drift and Slack of a wrapper whose last interval ended at last.   *)
FromOf(x, last) == IF x.outcome = "failed" THEN x.result ELSE last

DriftOf(x) == IF x.kind = "variable" THEN 2 * TimeDiffResolution ELSE 0

SlackOf(x) == IF x.kind = "variable" THEN TimeDiffResolution ELSE 0

(* Where the communication point is. The interpolating wrapper is less than*)
(* a step ahead, and not behind unless it has reached the stop time.       *)
PointInv(x, last) ==
    /\ x.slave.phase = "stepping"
    /\ x.point \in Nat
    /\ Abs(x.point - x.slave.time_) <= DriftOf(x)
    /\ x.outcome = "failed" => x.result = x.point /\ x.point <= last
    /\ x.outcome = "refused" => x.kind = "variable"
    /\ x.kind = "interpolating" =>
          /\ x.point < last + StepSize
          /\ x.point < x.final => FromOf(x, last) <= x.point
    /\ x.kind # "interpolating" => x.point <= FromOf(x, last)

ReadAt(value, time) == value \in {time, Stale}

(* What the states of a wrapper are of. Those the interpolating one        *)
(* interpolates between end at its communication point.                    *)
HistoryInv(x, last) ==
    /\ x.next.time_ = x.point
    /\ x.previous.time_ \in {x.point, x.point - StepSize}
    /\ x.current.time_ <= FromOf(x, last)
    /\ ~x.slave.warned =>
          /\ ReadAt(x.next.real, x.point) /\ ReadAt(x.next.other, x.point)
          /\ ReadAt(x.previous.real, x.previous.time_)
          /\ ReadAt(x.current.real, x.current.time_)
          /\ x.current.other # Stale => x.current.other <= x.current.time_

ReadingInv(x) ==
    /\ x.current.time_ = x.point
    /\ ~x.slave.warned =>
          /\ x.current.real # Stale => Abs(x.current.real - x.point) <= DriftOf(x)
          /\ x.current.other # Stale => Abs(x.current.other - x.point) <= DriftOf(x)
          /\ Stale \notin {x.current.real, x.current.other} => x.current.real = x.current.other

OutputInv(x, last) ==
    /\ x.kind = "interpolating" => HistoryInv(x, last)
    /\ x.kind # "interpolating" => ReadingInv(x)

(* What the time that was returned tells. That of the variable wrapper is  *)
(* the default step size later, which has to exceed the resolution.        *)
Resolved(x) == x.kind = "variable" => StepSize > TimeDiffResolution

ResultInv(x, last) ==
    Resolved(x) /\ x.outcome = "done" /\ last <= x.final => x.result > last + SlackOf(x)

ReadyInv(x, last) ==
    x.ready => PointInv(x, last) /\ OutputInv(x, last)

Numeric(r) == Description[TypeOfRef(r)].type \in {"Real", "Integer"}

(* What a program set is what the FMU has, and so is what it got; one that *)
(* uses a wrapper does neither.                                            *)
AccessInv ==
    /\ \A r \in Refs : Numeric(r) /\ known[r] # NaN => slave.var[r] = known[r]
    /\ \A r \in DOMAIN got \cap Refs : Numeric(r) => got[r] = slave.var[r]

CoSimulationInv ==
    /\ TypeOK
    /\ w.kind \in Users
    /\ SlaveOK(slave)
    /\ w.kind = "direct" => ~w.ready
    /\ w.kind # "direct" => known = Nothing /\ got = <<>>
    /\ ReadyInv(w, lastT1)
    /\ w.ready => ResultInv(w, lastT1)
    /\ AccessInv

-----------------------------------------------------------------------------
(* What the calls of a slave lead to.                                      *)

(* What changes in the variables of a slave, not in its run.               *)
SameRun(s, r) ==
    /\ r \in SlaveRecord
    /\ \A f \in {"version", "loaded", "instance_", "time_", "phase", "warned", "fmuTime"} :
          r[f] = s[f]

LEMMA SameRunKeeps ==
    ASSUME NEW s, NEW r, SlaveOK(s), SameRun(s, r)
    PROVE  SlaveOK(r)
  BY DEF SlaveOK, SameRun

LEMMA SameRunFollows ==
    ASSUME NEW s, NEW r, NEW q, SameRun(s, r), SameRun(r, q)
    PROVE  SameRun(s, q)
  BY DEF SameRun

LEMMA ReturnsSameRun ==
    ASSUME NEW s \in SlaveRecord, NEW status \in Statuses
    PROVE  /\ SameRun(s, Returns(s, status))
           /\ Returns(s, status).var = s.var
           /\ Returns(s, status).lastStatus_ = status
           /\ Returns(s, status).returned = status
  BY DEF SameRun, Returns, SlaveRecord

LEMMA FmuStatusesTypes == FmuStatuses \subseteq Statuses
  BY CoSimulationSlaveAssumption DEF Statuses

(* A call of the FMU that takes it further.                                *)
LEMMA Moves ==
    ASSUME NEW s \in SlaveRecord, NEW done \in SlaveRecord, done.warned = s.warned,
           NEW r \in FmuMove(s, done)
    PROVE  \E status \in FmuStatuses :
              /\ r = [IF Works(status) THEN done ELSE s
                      EXCEPT !.lastStatus_ = status, !.returned = status,
                             !.warned = s.warned \/ status = "Warning"]
              /\ r \in SlaveRecord
  <1>1. PICK q \in FmuCall(s, done) : r = [q EXCEPT !.warned = @ \/ q.lastStatus_ = "Warning"]
    BY DEF FmuMove
  <1>2. PICK status \in FmuStatuses : q = Returns(IF Works(status) THEN done ELSE s, status)
    BY DEF FmuCall
  <1> DEFINE b == IF Works(status) THEN done ELSE s
  <1>3. b \in SlaveRecord /\ b.warned = s.warned
    OBVIOUS
  <1> HIDE DEF b
  <1>4. q = [b EXCEPT !.lastStatus_ = status, !.returned = status]
    BY <1>2 DEF Returns, b
  <1>5. q \in SlaveRecord /\ q.lastStatus_ = status /\ q.warned = s.warned
    BY <1>3, <1>4, FmuStatusesTypes DEF SlaveRecord
  <1>6. r = [b EXCEPT !.lastStatus_ = status, !.returned = status,
                      !.warned = s.warned \/ status = "Warning"]
    BY <1>1, <1>3, <1>4, <1>5 DEF SlaveRecord
  <1>7. r \in SlaveRecord
    BY <1>1, <1>5 DEF SlaveRecord
  <1> QED BY <1>6, <1>7 DEF b

LEMMA Instantiated ==
    ASSUME NEW s, SlaveOK(s), NEW r \in Instantiate(s)
    PROVE  /\ SlaveOK(r)
           /\ r.returned = "OK" => r.phase = "instantiated"
  <1> s \in SlaveRecord
    BY DEF SlaveOK
  <1>1. CASE ~s.loaded
    <2>1. r = Returns(s, "Error")
      BY <1>1 DEF Instantiate
    <2> QED BY <2>1, ReturnsSameRun, SameRunKeeps DEF Statuses
  <1>2. CASE s.loaded
    <2> DEFINE none == [s EXCEPT !.time_ = 0, !.instance_ = "null", !.phase = "none",
                                 !.warned = FALSE, !.fmuTime = 0,
                                 !.var = [x \in Refs |-> StartValue]]
               live == [none EXCEPT !.instance_ = "live", !.phase = "instantiated"]
    <2>0. PICK start \in [Refs -> Values] : start = [x \in Refs |-> StartValue]
      BY CoSimulationSlaveAssumption
    <2> PICK zero \in Int : zero = 0
      OBVIOUS
    <2>9. none = [s EXCEPT !.time_ = zero, !.instance_ = "null", !.phase = "none",
                           !.warned = FALSE, !.fmuTime = zero, !.var = start]
      BY <2>0
    <2> HIDE DEF none
    <2>1. none \in SlaveRecord /\ none.phase = "none" /\ none.time_ = zero
      BY <2>9 DEF SlaveRecord
    <2>2. live \in SlaveRecord /\ live.phase = "instantiated" /\ live.time_ = zero
      BY <2>1 DEF SlaveRecord
    <2>3. r = Returns(none, "Error") \/ \E status \in FmuStatuses : r = Returns(live, status)
      BY <1>2 DEF Instantiate, FmuCall, none
    <2> HIDE DEF live
    <2>4. CASE r = Returns(none, "Error")
      BY <2>1, <2>4, ReturnsSameRun DEF SameRun, SlaveOK, Statuses
    <2>5. ASSUME NEW status \in FmuStatuses, r = Returns(live, status)
          PROVE  SlaveOK(r) /\ r.phase = "instantiated"
      BY <2>2, <2>5, ReturnsSameRun, FmuStatusesTypes DEF SameRun, SlaveOK
    <2> QED BY <2>3, <2>4, <2>5, ReturnsSameRun, <2>1 DEF Statuses
  <1> QED BY <1>1, <1>2 DEF SlaveRecord

(* A call of the FMU as Moves describes it, field by field.                *)
LEMMA MovesFields ==
    ASSUME NEW s \in SlaveRecord, NEW done \in SlaveRecord, done.warned = s.warned,
           NEW r \in FmuMove(s, done)
    PROVE  /\ r \in SlaveRecord
           /\ r.returned = r.lastStatus_
           /\ s.warned => r.warned
           /\ Works(r.lastStatus_) =>
                 /\ r.phase = done.phase /\ r.time_ = done.time_
                 /\ r.fmuTime = done.fmuTime /\ r.var = done.var
                 /\ r.instance_ = done.instance_
           /\ ~Works(r.lastStatus_) =>
                 /\ r.phase = s.phase /\ r.time_ = s.time_
                 /\ r.fmuTime = s.fmuTime /\ r.var = s.var
                 /\ r.instance_ = s.instance_
                 /\ r.warned = s.warned
           /\ r.lastStatus_ = "OK" => r.warned = s.warned
           /\ r.lastStatus_ = "Warning" => r.warned
  <1>1. PICK status \in FmuStatuses :
           /\ r = [IF Works(status) THEN done ELSE s
                   EXCEPT !.lastStatus_ = status, !.returned = status,
                          !.warned = s.warned \/ status = "Warning"]
           /\ r \in SlaveRecord
    BY Moves
  <1> DEFINE b == IF Works(status) THEN done ELSE s
             warned == s.warned \/ status = "Warning"
  <1>2. b \in SlaveRecord /\ b.warned = s.warned
    OBVIOUS
  <1> HIDE DEF b, warned
  <1>3. r = [b EXCEPT !.lastStatus_ = status, !.returned = status, !.warned = warned]
    BY <1>1 DEF b, warned
  <1>4. /\ r.lastStatus_ = status /\ r.returned = status /\ r.warned = warned
        /\ r.phase = b.phase /\ r.time_ = b.time_ /\ r.fmuTime = b.fmuTime /\ r.var = b.var
        /\ r.instance_ = b.instance_
    BY <1>2, <1>3 DEF SlaveRecord
  <1>5. Works(status) => b = done
    BY DEF b
  <1>6. ~Works(status) => b = s
    BY DEF b
  <1>7. s \in SlaveRecord /\ s.warned \in BOOLEAN
    BY DEF SlaveRecord
  <1> QED BY <1>1, <1>4, <1>5, <1>6, <1>7 DEF warned, Works

(* initialize() takes an object to the start time, or fails.               *)
LEMMA Initialized1 ==
    ASSUME NEW s, SlaveOK(s), s.phase \in {"instantiated", "initializing"}, NEW tStart \in Int,
           NEW r \in Initialize1(s, tStart)
    PROVE  /\ SlaveOK(r)
           /\ r.var = s.var
           /\ r.returned = "OK" => r.phase = "stepping" /\ r.time_ = tStart
  <1> s \in SlaveRecord
    BY DEF SlaveOK
  <1>1. CASE s.instance_ = "null"
    <2>1. r = Returns(s, "Error")
      BY <1>1 DEF Initialize1
    <2> QED BY <2>1, ReturnsSameRun, SameRunKeeps DEF Statuses
  <1>2. CASE s.instance_ # "null"
    <2> DEFINE t == [s EXCEPT !.time_ = tStart]
               done == [t EXCEPT !.phase = "stepping", !.fmuTime = tStart]
    <2>1. t \in SlaveRecord /\ t.time_ = tStart /\ t.phase = s.phase /\ t.var = s.var
          /\ t.warned = s.warned
      BY DEF SlaveRecord
    <2>2. r \in FmuMove(t, done)
      BY <1>2 DEF Initialize1
    <2> HIDE DEF t
    <2>3. done \in SlaveRecord /\ done.time_ = tStart /\ done.phase = "stepping"
          /\ done.var = s.var /\ done.fmuTime = tStart /\ done.warned = t.warned
      BY <2>1 DEF SlaveRecord
    <2> HIDE DEF done
    <2> QED BY <2>1, <2>2, <2>3, MovesFields DEF SlaveOK, Works
  <1> QED BY <1>1, <1>2

LEMMA Initialized2 ==
    ASSUME NEW s, SlaveOK(s), s.phase \in {"instantiated", "initializing"}, NEW tStart \in Int,
           NEW r \in Initialize2(s, tStart)
    PROVE  /\ SlaveOK(r)
           /\ r.var = s.var
           /\ r.returned = "OK" => r.phase = "stepping" /\ r.time_ = tStart
  <1> s \in SlaveRecord /\ s.time_ \in Int
    BY DEF SlaveOK
  <1>1. CASE s.instance_ = "null"
    <2>1. r = Returns(s, "Error")
      BY <1>1 DEF Initialize2
    <2> QED BY <2>1, ReturnsSameRun, SameRunKeeps DEF Statuses
  <1>2. CASE s.instance_ # "null" /\ s.lastStatus_ # "OK"
    <2>1. r = [s EXCEPT !.returned = s.lastStatus_]
      BY <1>2 DEF Initialize2
    <2>2. SameRun(s, r) /\ r.var = s.var /\ r.returned = s.lastStatus_
      BY <2>1 DEF SameRun, SlaveRecord
    <2> QED BY <1>2, <2>2, SameRunKeeps
  <1>3. CASE s.instance_ # "null" /\ s.lastStatus_ = "OK"
    <2> DEFINE Enter(q) == [q EXCEPT !.phase = "initializing"]
               Exit(q) == [q EXCEPT !.phase = "stepping"]
               OneSetUp == [s EXCEPT !.fmuTime = tStart]
    <2>1. PICK q3 : /\ r = IF q3.lastStatus_ = "OK" THEN [q3 EXCEPT !.time_ = tStart] ELSE q3
                    /\ \E q1, q2 :
                          /\ q1 \in FmuMove(s, OneSetUp)
                          /\ IF q1.lastStatus_ = "OK" THEN q2 \in FmuMove(q1, Enter(q1)) ELSE q2 = q1
                          /\ IF q2.lastStatus_ = "OK" THEN q3 \in FmuMove(q2, Exit(q2)) ELSE q3 = q2
      <3> HIDE DEF OneSetUp, Enter, Exit
      <3> DEFINE setup == FmuMove(s, OneSetUp)
                 entered == UNION {IF q.lastStatus_ = "OK" THEN FmuMove(q, Enter(q)) ELSE {q} :
                                   q \in setup}
                 left == UNION {IF q.lastStatus_ = "OK" THEN FmuMove(q, Exit(q)) ELSE {q} :
                                q \in entered}
      <3>1. r \in {IF q.lastStatus_ = "OK" THEN [q EXCEPT !.time_ = tStart] ELSE q : q \in left}
        BY <1>3 DEF Initialize2, OneSetUp, Enter, Exit
      <3> HIDE DEF left
      <3>2. PICK q3 \in left : r = IF q3.lastStatus_ = "OK" THEN [q3 EXCEPT !.time_ = tStart] ELSE q3
        BY <3>1
      <3> HIDE DEF entered
      <3>3. PICK q2 \in entered :
               q3 \in IF q2.lastStatus_ = "OK" THEN FmuMove(q2, Exit(q2)) ELSE {q2}
        BY <3>2 DEF left
      <3> HIDE DEF setup
      <3>4. PICK q1 \in setup :
               q2 \in IF q1.lastStatus_ = "OK" THEN FmuMove(q1, Enter(q1)) ELSE {q1}
        BY <3>3 DEF entered
      <3> QED BY <3>2, <3>3, <3>4 DEF setup
    <2>2. PICK q1, q2 :
             /\ q1 \in FmuMove(s, OneSetUp)
             /\ IF q1.lastStatus_ = "OK" THEN q2 \in FmuMove(q1, Enter(q1)) ELSE q2 = q1
             /\ IF q2.lastStatus_ = "OK" THEN q3 \in FmuMove(q2, Exit(q2)) ELSE q3 = q2
      BY <2>1
    <2>3. /\ OneSetUp \in SlaveRecord /\ OneSetUp.warned = s.warned /\ OneSetUp.phase = s.phase
          /\ OneSetUp.time_ = s.time_ /\ OneSetUp.fmuTime = tStart /\ OneSetUp.var = s.var
      BY DEF SlaveRecord
    <2> HIDE DEF OneSetUp
    <2>4. /\ q1 \in SlaveRecord /\ q1.returned = q1.lastStatus_ /\ q1.phase = s.phase
          /\ q1.time_ = s.time_ /\ q1.var = s.var
          /\ q1.lastStatus_ = "OK" => q1.fmuTime = tStart
      BY <2>2, <2>3, MovesFields DEF Works
    <2>5. /\ Enter(q1) \in SlaveRecord /\ Enter(q1).warned = q1.warned
          /\ Enter(q1).phase = "initializing" /\ Enter(q1).time_ = q1.time_
          /\ Enter(q1).fmuTime = q1.fmuTime /\ Enter(q1).var = q1.var
      BY <2>4 DEF SlaveRecord
    <2> HIDE DEF Enter
    <2>6. /\ q2 \in SlaveRecord /\ q2.returned = q2.lastStatus_
          /\ q2.phase \in {"instantiated", "initializing"}
          /\ q2.time_ = s.time_ /\ q2.var = s.var
          /\ q2.lastStatus_ = "OK" => q2.fmuTime = tStart
      <3>1. CASE q1.lastStatus_ = "OK"
        BY <2>2, <2>4, <2>5, <3>1, MovesFields DEF Works
      <3>2. CASE q1.lastStatus_ # "OK"
        BY <2>2, <2>4, <3>2
      <3> QED BY <3>1, <3>2
    <2>7. /\ Exit(q2) \in SlaveRecord /\ Exit(q2).warned = q2.warned
          /\ Exit(q2).phase = "stepping" /\ Exit(q2).time_ = q2.time_
          /\ Exit(q2).fmuTime = q2.fmuTime /\ Exit(q2).var = q2.var
      BY <2>6 DEF SlaveRecord
    <2> HIDE DEF Exit
    <2>8. /\ q3 \in SlaveRecord /\ q3.returned = q3.lastStatus_
          /\ q3.time_ = s.time_ /\ q3.var = s.var
          /\ q3.lastStatus_ = "OK" => q3.fmuTime = tStart /\ q3.phase = "stepping"
          /\ q3.lastStatus_ # "OK" /\ q3.phase = "stepping" => q3.warned
      <3>1. CASE q2.lastStatus_ = "OK"
        BY <2>2, <2>6, <2>7, <3>1, MovesFields DEF Works
      <3>2. CASE q2.lastStatus_ # "OK"
        BY <2>2, <2>6, <3>2
      <3> QED BY <3>1, <3>2
    <2>9. CASE q3.lastStatus_ # "OK"
      BY <2>1, <2>8, <2>9 DEF SlaveOK
    <2>10. CASE q3.lastStatus_ = "OK"
      <3>1. r = [q3 EXCEPT !.time_ = tStart]
        BY <2>1, <2>10
      <3>2. /\ r \in SlaveRecord /\ r.time_ = tStart /\ r.phase = "stepping"
            /\ r.fmuTime = tStart /\ r.var = s.var
        BY <2>8, <2>10, <3>1 DEF SlaveRecord
      <3> QED BY <3>2 DEF SlaveOK
    <2> QED BY <2>9, <2>10
  <1> QED BY <1>1, <1>2, <1>3

LEMMA InitializedGives ==
    ASSUME NEW s, SlaveOK(s), s.phase \in {"instantiated", "initializing"}, NEW tStart \in Int,
           NEW r \in Initialize(s, tStart)
    PROVE  /\ SlaveOK(r)
           /\ r.var = s.var
           /\ r.returned = "OK" => r.phase = "stepping" /\ r.time_ = tStart
  BY Initialized1, Initialized2 DEF Initialize

-----------------------------------------------------------------------------
(* Steps, and the end of an instance.                                      *)

LEMMA AbsType ==
    ASSUME NEW n \in Int
    PROVE  Abs(n) \in Nat /\ (Abs(n) = n \/ Abs(n) = -n)
  BY DEF Abs

(* doStep() takes object and FMU on by the step size, or the object not at *)
(* all. It answers OK only at a communication point near the object's time.*)
LEMMA DoStepGives ==
    ASSUME NEW s, SlaveOK(s), s.phase = "stepping", NEW point \in Int, NEW size \in Int,
           NEW r \in DoStep(s, point, size)
    PROVE  /\ SlaveOK(r)
           /\ r.phase = "stepping" /\ r.var = s.var
           /\ s.warned => r.warned
           /\ r.time_ = IF r.returned = "OK" THEN s.time_ + size ELSE s.time_
           /\ r.returned = "OK" => Abs(s.time_ - point) <= TimeDiffResolution
  <1> s \in SlaveRecord /\ s.time_ \in Int /\ s.fmuTime \in Int
    BY DEF SlaveOK, SlaveRecord
  <1>1. CASE Abs(s.time_ - point) > TimeDiffResolution
    <2>1. r = [s EXCEPT !.returned = "Error"]
      BY <1>1 DEF DoStep
    <2>2. SameRun(s, r) /\ r.var = s.var /\ r.returned = "Error"
      BY <2>1 DEF SameRun, SlaveRecord, Statuses
    <2> QED BY <2>2, SameRunKeeps DEF SameRun
  <1>2. CASE ~(Abs(s.time_ - point) > TimeDiffResolution)
    <2> PICK later \in Int : later = s.fmuTime + size
      OBVIOUS
    <2> PICK next \in Int : next = s.time_ + size
      OBVIOUS
    <2> DEFINE done == [s EXCEPT !.fmuTime = later]
    <2>1. /\ done \in SlaveRecord /\ done.warned = s.warned /\ done.phase = s.phase
          /\ done.time_ = s.time_ /\ done.fmuTime = later /\ done.var = s.var
      BY DEF SlaveRecord
    <2>2. PICK q \in FmuMove(s, done) :
             r = IF q.lastStatus_ = "OK" THEN [q EXCEPT !.time_ = next] ELSE q
      BY <1>2 DEF DoStep
    <2> HIDE DEF done
    <2>3. /\ q \in SlaveRecord /\ q.returned = q.lastStatus_ /\ q.phase = "stepping"
          /\ q.time_ = s.time_ /\ q.var = s.var /\ (s.warned => q.warned)
          /\ q.lastStatus_ = "OK" => q.warned = s.warned /\ q.fmuTime = later
          /\ q.lastStatus_ # "OK" => q.warned \/ (~s.warned /\ q.fmuTime = s.fmuTime)
      BY <2>1, <2>2, MovesFields DEF Works
    <2>4. Abs(s.time_ - point) <= TimeDiffResolution
      <3>1. s.time_ - point \in Int
        OBVIOUS
      <3>2. Abs(s.time_ - point) \in Int
        BY <3>1, AbsType
      <3> QED BY <1>2, <3>2, CoSimulationSlaveAssumption
    <2>5. CASE q.lastStatus_ = "OK"
      <3>1. r = [q EXCEPT !.time_ = next]
        BY <2>2, <2>5
      <3>2. /\ r \in SlaveRecord /\ r.time_ = next /\ r.phase = "stepping" /\ r.var = s.var
            /\ r.fmuTime = q.fmuTime /\ r.warned = q.warned /\ r.returned = "OK"
        BY <2>3, <2>5, <3>1 DEF SlaveRecord
      <3>3. ~r.warned => r.time_ = r.fmuTime
        BY <2>3, <2>5, <3>2 DEF SlaveOK
      <3> QED BY <2>3, <2>4, <2>5, <3>2, <3>3 DEF SlaveOK
    <2>6. CASE q.lastStatus_ # "OK"
      <3>1. r = q
        BY <2>2, <2>6
      <3> QED BY <2>3, <2>6, <3>1 DEF SlaveOK
    <2> QED BY <2>5, <2>6
  <1> QED BY <1>1, <1>2

LEMMA Terminated ==
    ASSUME NEW s, SlaveOK(s)
    PROVE  SlaveOK(Terminate(s)) /\ Terminate(s).var = s.var
  <1> s \in SlaveRecord
    BY DEF SlaveOK
  <1>1. CASE s.instance_ = "null"
    BY <1>1 DEF Terminate
  <1>2. CASE s.instance_ = "live"
    <2>1. Terminate(s) = [s EXCEPT !.instance_ = "dangling", !.phase = "terminated"]
      BY <1>2 DEF Terminate
    <2>2. Terminate(s) \in SlaveRecord /\ Terminate(s).phase = "terminated"
          /\ Terminate(s).var = s.var
      BY <2>1 DEF SlaveRecord
    <2> QED BY <2>2 DEF SlaveOK
  <1>3. CASE s.instance_ = "dangling"
    <2>1. Terminate(s) = [s EXCEPT !.phase = "freed twice"]
      BY <1>3 DEF Terminate
    <2>2. Terminate(s) \in SlaveRecord /\ Terminate(s).phase = "freed twice"
          /\ Terminate(s).var = s.var
      BY <2>1 DEF SlaveRecord
    <2> QED BY <2>2 DEF SlaveOK
  <1> QED BY <1>1, <1>2, <1>3 DEF SlaveRecord

-----------------------------------------------------------------------------
(* Access to variables.                                                    *)

(* A call of the FMU that sets variables, or does not.                     *)
LEMMA SetRefsGives ==
    ASSUME NEW s \in SlaveRecord, NEW values, \A x \in DOMAIN values : values[x] \in Values,
           NEW r \in SetRefs(s, values)
    PROVE  /\ SameRun(s, r)
           /\ r.returned = r.lastStatus_
           /\ r.var = IF Works(r.returned)
                      THEN [x \in Refs |-> IF x \in DOMAIN values THEN values[x] ELSE s.var[x]]
                      ELSE s.var
           /\ Works(r.returned) => DOMAIN values \subseteq Refs
  <1>1. CASE \A x \in DOMAIN values : x \in Refs
    <2> DEFINE vars_ == [x \in Refs |-> IF x \in DOMAIN values THEN values[x] ELSE s.var[x]]
               done == [s EXCEPT !.var = vars_]
    <2>1. vars_ \in [Refs -> Values]
      BY DEF SlaveRecord
    <2>2. PICK status \in FmuStatuses : r = Returns(IF Works(status) THEN done ELSE s, status)
      BY <1>1 DEF SetRefs, FmuCall
    <2> HIDE DEF vars_
    <2>3. SameRun(s, done) /\ done.var = vars_
      BY <2>1 DEF SameRun, SlaveRecord
    <2> HIDE DEF done
    <2>4. SameRun(s, s)
      BY DEF SameRun
    <2>5. CASE Works(status)
      <3>1. SameRun(done, r) /\ r.returned = status /\ r.lastStatus_ = status /\ r.var = done.var
        BY <2>2, <2>3, <2>5, ReturnsSameRun, FmuStatusesTypes DEF SameRun
      <3> QED BY <1>1, <2>3, <2>5, <3>1, SameRunFollows DEF vars_
    <2>6. CASE ~Works(status)
      BY <2>2, <2>6, ReturnsSameRun, FmuStatusesTypes
    <2> QED BY <2>5, <2>6
  <1>2. CASE ~ \A x \in DOMAIN values : x \in Refs
    <2>1. r = Returns(s, "Error")
      BY <1>2 DEF SetRefs
    <2> QED BY <2>1, ReturnsSameRun DEF Statuses, Works
  <1> QED BY <1>1, <1>2

(* A name that is described stands for a variable of the FMU.              *)
LEMMA NamesHaveRefs ==
    ASSUME NEW name \in Described
    PROVE  VarMap[name] \in Refs /\ GetValueRef(name) = VarMap[name]
  <1> DEFINE T == {i \in DOMAIN Description : Description[i].name = name}
  <1>1. DOMAIN Description \subseteq Nat
    BY CoSimulationSlaveAssumption
  <1>2. T # {} /\ T \in SUBSET Nat
    BY <1>1 DEF Described
  <1>3. PICK i \in T : \A j \in T : i <= j
    BY <1>2, NatHasMin
  <1>4. FirstOf(name) \in DOMAIN Description
    BY <1>3 DEF FirstOf
  <1> QED BY <1>4 DEF VarMap, Refs, GetValueRef

LEMMA SetByRefGives ==
    ASSUME NEW s \in SlaveRecord, NEW ref, NEW value \in Values,
           NEW r \in SetValueByRef(s, ref, value)
    PROVE  /\ SameRun(s, r)
           /\ r.returned = r.lastStatus_
           /\ r.var = IF Works(r.returned)
                      THEN [x \in Refs |-> IF x = ref THEN value ELSE s.var[x]]
                      ELSE s.var
  <1> DEFINE values == [x \in {ref} |-> value]
  <1>1. r \in SetRefs(s, values)
    BY DEF SetValueByRef
  <1>2. DOMAIN values = {ref} /\ values[ref] = value /\ \A x \in DOMAIN values : values[x] \in Values
    OBVIOUS
  <1> HIDE DEF values
  <1>3. r.var = IF Works(r.returned)
                THEN [x \in Refs |-> IF x \in DOMAIN values THEN values[x] ELSE s.var[x]]
                ELSE s.var
    BY <1>1, <1>2, SetRefsGives
  <1>4. [x \in Refs |-> IF x \in DOMAIN values THEN values[x] ELSE s.var[x]]
            = [x \in Refs |-> IF x = ref THEN value ELSE s.var[x]]
    BY <1>2, Zenon
  <1> QED BY <1>1, <1>2, <1>3, <1>4, SetRefsGives

LEMMA SetByNameGives ==
    ASSUME NEW s \in SlaveRecord, NEW name, NEW value \in Values,
           NEW r \in SetValueByName(s, name, value)
    PROVE  /\ SameRun(s, r)
           /\ r.returned = r.lastStatus_
           /\ r.var = IF Works(r.returned)
                      THEN [x \in Refs |-> IF x = GetValueRef(name) THEN value ELSE s.var[x]]
                      ELSE s.var
  <1>1. CASE name \in Described
    BY <1>1, NamesHaveRefs, SetByRefGives DEF SetValueByName
  <1>2. CASE name \notin Described
    <2>1. r = Returns(s, "Discard")
      BY <1>2 DEF SetValueByName
    <2> QED BY <2>1, ReturnsSameRun DEF Statuses, Works
  <1> QED BY <1>1, <1>2

LEMMA GetOutputsGives ==
    ASSUME NEW s \in SlaveRecord, NEW o \in GetOutputs(s)
    PROVE  /\ SameRun(s, o.slave) /\ o.slave.var = s.var
           /\ ReadAt(o.real, s.fmuTime) /\ ReadAt(o.other, s.fmuTime)
  <1>1. PICK reals \in FmuStatuses, others \in FmuStatuses :
           o = [slave |-> Returns(s, others), real |-> ReadAs(s, reals),
                other |-> ReadAs(s, others)]
    BY DEF GetOutputs
  <1>2. o.slave = Returns(s, others) /\ o.real = ReadAs(s, reals) /\ o.other = ReadAs(s, others)
    BY <1>1
  <1> QED BY <1>2, ReturnsSameRun, FmuStatusesTypes DEF ReadAs, ReadAt

-----------------------------------------------------------------------------
(* The loops that set the inputs.                                          *)

(* The inputs are set one after the other.                                 *)
LEMMA SetInputsGives ==
    ASSUME NEW s \in SlaveRecord, NEW value \in Values, NEW r \in SetInputs(s, value)
    PROVE  SameRun(s, r)
  <1> DEFINE N == Len(InputRefs)
             L == {q \in SlaveRecord : SameRun(s, q)}
             Next_(n, Q) == UNION {SetValueByRef(q, InputRefs[n], value) : q \in Q}
             Is(f) == f = [n \in 0 .. N |-> IF n = 0 THEN {s} ELSE Next_(n, f[n - 1])]
             set == CHOOSE f : Is(f)
  <1>1. SetInputs(s, value) = set[N]
    BY DEF SetInputs
  <1>2. N \in Nat
    BY StepSizeFmuAssumption DEF InputRefs
  <1> HIDE DEF N
  <1>3. s \in L
    BY DEF SameRun
  <1>4. ASSUME NEW n, NEW Q \in SUBSET L PROVE Next_(n, Q) \in SUBSET L
    <2> SUFFICES ASSUME NEW q \in Q, NEW p \in SetValueByRef(q, InputRefs[n], value)
                 PROVE  p \in L
      OBVIOUS
    <2>1. q \in SlaveRecord /\ SameRun(s, q)
      OBVIOUS
    <2>2. SameRun(q, p)
      BY <2>1, SetByRefGives
    <2> QED BY <2>1, <2>2, SameRunFollows DEF SameRun
  <1> HIDE DEF L, Next_
  <1>5. \E f : Is(f)
    <2> DEFINE G == [p \in (1 .. N) \X SUBSET L |-> Next_(p[1], p[2])]
    <2>1. G \in [(1 .. N) \X SUBSET L -> SUBSET L]
      BY <1>4
    <2>2. {s} \in SUBSET L
      BY <1>3
    <2> HIDE DEF G
    <2>3. PICK f \in [0 .. N -> SUBSET L] :
             f[0] = {s} /\ \A n \in 1 .. N : f[n] = G[<<n, f[n - 1]>>]
      <3>1. Runs(N, SUBSET L, {s}, G) # {}
        BY <1>2, <2>1, <2>2, Recursion
      <3> QED BY <3>1 DEF Runs
    <2>4. ASSUME NEW n \in 0 .. N
          PROVE  f[n] = IF n = 0 THEN {s} ELSE Next_(n, f[n - 1])
      <3>1. CASE n = 0
        BY <2>3, <3>1
      <3>2. CASE n # 0
        <4>1. n \in 1 .. N /\ n - 1 \in 0 .. N
          BY <1>2, <3>2
        <4>2. <<n, f[n - 1]>> \in (1 .. N) \X SUBSET L
          BY <4>1
        <4>3. G[<<n, f[n - 1]>>] = Next_(n, f[n - 1])
          BY <4>2 DEF G
        <4> QED BY <2>3, <3>2, <4>1, <4>3
      <3> QED BY <3>1, <3>2
    <2> QED BY <2>4, Zenon
  <1>6. Is(set)
    BY <1>5
  <1> HIDE DEF set
  <1> DEFINE S == {n \in 0 .. N : set[n] \in SUBSET L}
  <1>7. 0 \in S
    BY <1>2, <1>3, <1>6
  <1>8. ASSUME NEW n \in 1 .. N, n - 1 \in S PROVE n \in S
    <2>1. n \in 0 .. N /\ n # 0 /\ set[n - 1] \in SUBSET L
      BY <1>2, <1>8
    <2>2. set[n] = Next_(n, set[n - 1])
      BY <1>6, <2>1
    <2> QED BY <1>4, <2>1, <2>2
  <1>9. set[N] \in SUBSET L
    <2> HIDE DEF S
    <2>1. \A n \in 0 .. N : n \in S
      BY <1>2, <1>7, <1>8, LoopKeeps
    <2>2. N \in S
      BY <1>2, <2>1
    <2> QED BY <2>2 DEF S
  <1>10. r \in L
    BY <1>1, <1>9
  <1> QED BY <1>10 DEF L

(* So are the initial inputs, by name.                                     *)
LEMMA SetInitialInputsGives ==
    ASSUME NEW s \in SlaveRecord, NEW value \in Values, NEW names \in Seq(STRING),
           NEW r \in SetInitialInputs(s, names, value)
    PROVE  SameRun(s, r)
  <1> DEFINE N == Len(names)
             L == {q \in SlaveRecord : SameRun(s, q)}
             Next_(n, Q) == UNION {SetValueByName(q, names[n], value) : q \in Q}
             Is(f) == f = [n \in 0 .. N |-> IF n = 0 THEN {s} ELSE Next_(n, f[n - 1])]
             set == CHOOSE f : Is(f)
  <1>1. SetInitialInputs(s, names, value) = set[N]
    BY DEF SetInitialInputs
  <1>2. N \in Nat
    OBVIOUS
  <1> HIDE DEF N
  <1>3. s \in L
    BY DEF SameRun
  <1>4. ASSUME NEW n, NEW Q \in SUBSET L PROVE Next_(n, Q) \in SUBSET L
    <2> SUFFICES ASSUME NEW q \in Q, NEW p \in SetValueByName(q, names[n], value)
                 PROVE  p \in L
      OBVIOUS
    <2>1. q \in SlaveRecord /\ SameRun(s, q)
      OBVIOUS
    <2>2. SameRun(q, p)
      BY <2>1, SetByNameGives
    <2> QED BY <2>1, <2>2, SameRunFollows DEF SameRun
  <1> HIDE DEF L, Next_
  <1>5. \E f : Is(f)
    <2> DEFINE G == [p \in (1 .. N) \X SUBSET L |-> Next_(p[1], p[2])]
    <2>1. G \in [(1 .. N) \X SUBSET L -> SUBSET L]
      BY <1>4
    <2>2. {s} \in SUBSET L
      BY <1>3
    <2> HIDE DEF G
    <2>3. PICK f \in [0 .. N -> SUBSET L] :
             f[0] = {s} /\ \A n \in 1 .. N : f[n] = G[<<n, f[n - 1]>>]
      <3>1. Runs(N, SUBSET L, {s}, G) # {}
        BY <1>2, <2>1, <2>2, Recursion
      <3> QED BY <3>1 DEF Runs
    <2>4. ASSUME NEW n \in 0 .. N
          PROVE  f[n] = IF n = 0 THEN {s} ELSE Next_(n, f[n - 1])
      <3>1. CASE n = 0
        BY <2>3, <3>1
      <3>2. CASE n # 0
        <4>1. n \in 1 .. N /\ n - 1 \in 0 .. N
          BY <1>2, <3>2
        <4>2. <<n, f[n - 1]>> \in (1 .. N) \X SUBSET L
          BY <4>1
        <4>3. G[<<n, f[n - 1]>>] = Next_(n, f[n - 1])
          BY <4>2 DEF G
        <4> QED BY <2>3, <3>2, <4>1, <4>3
      <3> QED BY <3>1, <3>2
    <2> QED BY <2>4, Zenon
  <1>6. Is(set)
    BY <1>5
  <1> HIDE DEF set
  <1> DEFINE S == {n \in 0 .. N : set[n] \in SUBSET L}
  <1>7. 0 \in S
    BY <1>2, <1>3, <1>6
  <1>8. ASSUME NEW n \in 1 .. N, n - 1 \in S PROVE n \in S
    <2>1. n \in 0 .. N /\ n # 0 /\ set[n - 1] \in SUBSET L
      BY <1>2, <1>8
    <2>2. set[n] = Next_(n, set[n - 1])
      BY <1>6, <2>1
    <2> QED BY <1>4, <2>1, <2>2
  <1>9. set[N] \in SUBSET L
    <2> HIDE DEF S
    <2>1. \A n \in 0 .. N : n \in S
      BY <1>2, <1>7, <1>8, LoopKeeps
    <2>2. N \in S
      BY <1>2, <2>1
    <2> QED BY <2>2 DEF S
  <1>10. r \in L
    BY <1>1, <1>9
  <1> QED BY <1>10 DEF L


-----------------------------------------------------------------------------
(* init().                                                                 *)

LEMMA AtType ==
    ASSUME NEW time \in Int, NEW o, o.real \in Int \cup {NaN}, o.other \in Int \cup {NaN}
    PROVE  /\ At(time, o) \in State
           /\ At(time, o).time_ = time /\ At(time, o).real = o.real /\ At(time, o).other = o.other
  BY DEF At, State

LEMMA OutputTypes ==
    ASSUME NEW s \in SlaveRecord, NEW o \in GetOutputs(s)
    PROVE  o.real \in Int \cup {NaN} /\ o.other \in Int \cup {NaN} /\ o.slave \in SlaveRecord
  BY GetOutputsGives DEF ReadAt, Stale, SlaveRecord, SameRun

(* What the program that initialized x sees of v.                          *)
Started(v, x, start) ==
    /\ v.outcome = "none" /\ v.result = x.result
    /\ v.ready => v.current.time_ = start
    /\ ~v.ready => v.current = x.current /\ v.final = x.final

LEMMA NotReadyGives ==
    ASSUME NEW x \in WrapperRecord, NEW s, SlaveOK(s)
    PROVE  /\ NotReady(x, s) \in WrapperRecord /\ NotReady(x, s).kind = x.kind
           /\ NotReady(x, s).slave = s /\ ~NotReady(x, s).ready
           /\ \A start : Started(NotReady(x, s), x, start)
  BY DEF NotReady, WrapperRecord, SlaveOK, Started

LEMMA IsReadyGives ==
    ASSUME NEW x \in WrapperRecord, NEW s, SlaveOK(s), s.phase = "stepping",
           NEW start \in Nat, s.time_ = start, NEW stop \in Nat, NEW o \in GetOutputs(s)
    PROVE  LET v == IsReady(x, o, start, stop)
           IN  /\ v \in WrapperRecord /\ v.kind = x.kind
               /\ SlaveOK(v.slave)
               /\ Started(v, x, start)
               /\ ReadyInv(v, start)
  <1> DEFINE v == IsReady(x, o, start, stop)
             initState == At(start, o)
  <1> s \in SlaveRecord
    BY DEF SlaveOK
  <1>1. /\ initState \in State /\ initState.time_ = start
        /\ initState.real = o.real /\ initState.other = o.other
    BY OutputTypes, AtType
  <1>2. SameRun(s, o.slave) /\ ReadAt(o.real, s.fmuTime) /\ ReadAt(o.other, s.fmuTime)
    BY GetOutputsGives
  <1>3. SlaveOK(o.slave)
    BY <1>2, SameRunKeeps
  <1>4. v = [x EXCEPT !.slave = o.slave, !.ready = TRUE, !.point = start, !.final = stop,
                      !.current = initState, !.previous = initState, !.next = initState,
                      !.outcome = "none"]
    BY DEF IsReady
  <1> HIDE DEF initState
  <1>5. v \in WrapperRecord
    <2>1. o.slave \in SlaveRecord /\ start \in Int /\ stop \in Int
      BY <1>3 DEF SlaveOK
    <2>2. PICK yes \in BOOLEAN : yes = TRUE
      OBVIOUS
    <2>3. PICK u : u = [x EXCEPT !.slave = o.slave, !.ready = yes, !.point = start,
                                 !.final = stop]
      OBVIOUS
    <2>4. PICK q : q = [u EXCEPT !.current = initState, !.previous = initState,
                                 !.next = initState]
      OBVIOUS
    <2>5. u \in WrapperRecord
      BY <2>1, <2>3 DEF WrapperRecord
    <2>6. q \in WrapperRecord
      BY <1>1, <2>4, <2>5 DEF WrapperRecord
    <2>7. v = [q EXCEPT !.outcome = "none"]
      BY <1>4, <2>2, <2>3, <2>4
    <2> HIDE DEF v
    <2> QED BY <2>6, <2>7 DEF WrapperRecord
  <1>6. /\ v.kind = x.kind /\ v.slave = o.slave /\ v.point = start /\ v.final = stop
        /\ v.current = initState /\ v.previous = initState /\ v.next = initState
        /\ v.outcome = "none" /\ v.ready /\ v.result = x.result
    BY <1>4 DEF WrapperRecord
  <1> HIDE DEF v
  <1>7. /\ v.slave.phase = "stepping" /\ v.slave.time_ = start
        /\ ~v.slave.warned => s.fmuTime = start
    BY <1>2, <1>6 DEF SameRun, SlaveOK
  <1>8. Abs(v.point - v.slave.time_) = 0
    BY <1>6, <1>7 DEF Abs
  <1>9. FromOf(v, start) = start
    BY <1>6 DEF FromOf
  <1>10. PointInv(v, start)
    BY <1>6, <1>7, <1>8, <1>9, StepSizeFmuAssumption, CoSimulationSlaveAssumption
    DEF PointInv, DriftOf
  <1>11. ~v.slave.warned => ReadAt(initState.real, start) /\ ReadAt(initState.other, start)
    BY <1>1, <1>2, <1>7
  <1>12. HistoryInv(v, start)
    <2> PICK t \in Nat : t = start
      OBVIOUS
    <2>1. v.current.other # Stale /\ ~v.slave.warned => v.current.other <= v.current.time_
      BY <1>1, <1>6, <1>11 DEF ReadAt
    <2> QED BY <1>1, <1>6, <1>9, <1>11, <2>1 DEF HistoryInv
  <1>13. ReadingInv(v)
    <2>1. Abs(start - start) = 0
      BY DEF Abs
    <2>2. DriftOf(v) >= 0
      BY CoSimulationSlaveAssumption DEF DriftOf
    <2>3. v.current.time_ = start /\ v.point = start
          /\ v.current.real = initState.real /\ v.current.other = initState.other
      BY <1>1, <1>6
    <2> QED BY <1>11, <2>1, <2>2, <2>3 DEF ReadingInv, ReadAt
  <1>14. Started(v, x, start)
    BY <1>1, <1>6 DEF Started
  <1> QED BY <1>3, <1>5, <1>6, <1>10, <1>12, <1>13, <1>14 DEF ReadyInv, OutputInv, v

LEMMA InitSlaveGives ==
    ASSUME NEW x \in WrapperRecord, SlaveOK(x.slave), NEW names \in Seq(STRING),
           NEW value \in Values, NEW start \in Nat, NEW stop \in Nat,
           NEW v \in InitSlave(x, names, value, start, stop)
    PROVE  /\ v \in WrapperRecord /\ v.kind = x.kind
           /\ SlaveOK(v.slave)
           /\ Started(v, x, start)
           /\ ReadyInv(v, start)
  <1>1. PICK s \in Instantiate(x.slave) :
           v \in IF s.returned # "OK" THEN {NotReady(x, s)}
                 ELSE UNION {IF r.returned # "OK" THEN {NotReady(x, r)}
                             ELSE {IsReady(x, o, start, stop) : o \in GetOutputs(r)} :
                             r \in UNION {Initialize(t, start) :
                                          t \in SetInitialInputs(s, names, value)}}
    BY DEF InitSlave
  <1>2. SlaveOK(s) /\ (s.returned = "OK" => s.phase = "instantiated")
    BY Instantiated
  <1>3. CASE s.returned # "OK"
    BY <1>1, <1>2, <1>3, NotReadyGives DEF ReadyInv
  <1>4. CASE s.returned = "OK"
    <2>0. PICK r \in UNION {Initialize(q, start) : q \in SetInitialInputs(s, names, value)} :
             v \in IF r.returned # "OK" THEN {NotReady(x, r)}
                   ELSE {IsReady(x, o, start, stop) : o \in GetOutputs(r)}
      BY <1>1, <1>4
    <2>1. PICK t \in SetInitialInputs(s, names, value) : r \in Initialize(t, start)
      BY <2>0
    <2>2. SameRun(s, t)
      BY <1>2, SetInitialInputsGives DEF SlaveOK
    <2>3. SlaveOK(t) /\ t.phase = "instantiated"
      BY <1>2, <1>4, <2>2, SameRunKeeps DEF SameRun
    <2>4. SlaveOK(r) /\ (r.returned = "OK" => r.phase = "stepping" /\ r.time_ = start)
      <3>1. start \in Int /\ t.phase \in {"instantiated", "initializing"}
        BY <2>3
      <3> QED BY <2>1, <2>3, <3>1, InitializedGives
    <2>5. CASE r.returned # "OK"
      BY <2>0, <2>4, <2>5, NotReadyGives DEF ReadyInv
    <2>6. CASE r.returned = "OK"
      <3>1. PICK o \in GetOutputs(r) : v = IsReady(x, o, start, stop)
        BY <2>0, <2>6
      <3> QED BY <2>4, <2>6, <3>1, IsReadyGives
    <2> QED BY <2>5, <2>6
  <1> QED BY <1>3, <1>4

LEMMA InitGives ==
    ASSUME NEW x \in WrapperRecord, SlaveOK(x.slave), NEW names \in Seq(STRING),
           NEW value \in Values, NEW start \in Nat, NEW stop \in Nat, NEW canHandle,
           NEW v, \/ v \in InitFixed(x, names, value, start, stop)
                  \/ v \in InitInterpolating(x, names, value, start, stop)
                  \/ v \in InitVariable(x, names, value, start, stop, canHandle)
    PROVE  /\ v \in WrapperRecord /\ v.kind = x.kind
           /\ SlaveOK(v.slave)
           /\ Started(v, x, start)
           /\ ReadyInv(v, start)
  <1>1. CASE v \in InitSlave(x, names, value, start, stop)
    BY <1>1, InitSlaveGives
  <1>2. CASE \E s \in Instantiate(x.slave) : v = NotReady(x, s)
    <2>1. PICK s \in Instantiate(x.slave) : v = NotReady(x, s)
      BY <1>2
    <2>2. SlaveOK(s)
      BY Instantiated
    <2> QED BY <2>1, <2>2, NotReadyGives DEF ReadyInv
  <1> QED BY <1>1, <1>2 DEF InitFixed, InitInterpolating, InitVariable

-----------------------------------------------------------------------------
(* The loops of sync() of the fixed wrappers.                              *)

(* What the loop that started with v has led to.                           *)
Looped(x, v, t1) ==
    /\ x \in WrapperRecord /\ x.ready
    /\ x.kind = v.kind /\ x.final = v.final
    /\ v.point \in Nat /\ v.point <= x.point
    /\ SlaveOK(x.slave) /\ x.slave.phase = "stepping"
    /\ x.slave.time_ = x.point /\ x.point \in Nat
    /\ x.outcome \in {"done", "failed"}
    /\ x.outcome = "failed" => x.result = x.point /\ x.point < t1
    /\ x.kind = "fixed" => x.point <= t1 /\ ReadingInv(x)
    /\ x.kind = "interpolating" =>
          /\ x.point < t1 + StepSize /\ x.current.time_ <= t1 /\ HistoryInv(x, x.point)
          /\ x.current.time_ = v.current.time_

LEMMA FailedGives ==
    ASSUME NEW x \in WrapperRecord, NEW s \in SlaveRecord
    PROVE  LET y == Failed(x, s)
           IN  /\ y \in WrapperRecord
               /\ y.slave = s /\ y.outcome = "failed" /\ y.result = x.point
               /\ \A f \in {"kind", "ready", "point", "final", "current", "previous", "next"} :
                     y[f] = x[f]
  BY DEF Failed, WrapperRecord

(* What the outputs are that are read after a step.                        *)
LEMMA ReadsAt ==
    ASSUME NEW s, SlaveOK(s), s.phase = "stepping", NEW o \in GetOutputs(s)
    PROVE  /\ SlaveOK(o.slave) /\ o.slave.phase = "stepping"
           /\ o.slave.time_ = s.time_ /\ o.slave.var = s.var
           /\ o.slave.warned => s.warned
           /\ s.warned => o.slave.warned
           /\ o.real \in Int \cup {NaN} /\ o.other \in Int \cup {NaN}
           /\ ~o.slave.warned => ReadAt(o.real, s.time_) /\ ReadAt(o.other, s.time_)
  <1> s \in SlaveRecord
    BY DEF SlaveOK
  <1>1. /\ SameRun(s, o.slave) /\ o.slave.var = s.var
        /\ ReadAt(o.real, s.fmuTime) /\ ReadAt(o.other, s.fmuTime)
    BY GetOutputsGives
  <1>2. o.real \in Int \cup {NaN} /\ o.other \in Int \cup {NaN}
    BY OutputTypes
  <1>3. SlaveOK(o.slave)
    BY <1>1, SameRunKeeps
  <1> QED BY <1>1, <1>2, <1>3 DEF SameRun, SlaveOK

(* What an FMU that did not warn reads at its time is of that time.        *)
LEMMA ReadingOf ==
    ASSUME NEW x, NEW t \in Int, x.point = t,
           x.current.time_ = t,
           ~x.slave.warned => ReadAt(x.current.real, t) /\ ReadAt(x.current.other, t)
    PROVE  ReadingInv(x)
  <1>1. Abs(t - t) = 0 /\ DriftOf(x) >= 0
    BY CoSimulationSlaveAssumption DEF Abs, DriftOf
  <1> QED BY <1>1 DEF ReadingInv, ReadAt

LEMMA StepFixedKeeps ==
    ASSUME NEW x, NEW v, NEW t1 \in Nat, Looped(x, v, t1), x.kind = "fixed",
           DueFixed(x, t1), x.outcome = "done", NEW y \in StepFixed(x)
    PROVE  Looped(y, v, t1) /\ (y.outcome = "done" => y.point = x.point + StepSize)
  <1> x \in WrapperRecord /\ SlaveOK(x.slave) /\ x.point \in Nat /\ x.slave.phase = "stepping"
      /\ x.slave.time_ = x.point /\ StepSize \in Nat \ {0}
      /\ v.point \in Nat /\ v.point <= x.point
    BY StepSizeFmuAssumption DEF Looped
  <1>1. x.point + StepSize <= t1
    BY DEF DueFixed
  <1>2. PICK s \in DoStep(x.slave, x.point, StepSize) :
           y \in IF s.returned # "OK" THEN {Failed(x, s)}
                 ELSE {[x EXCEPT !.slave = o.slave, !.point = @ + StepSize,
                                 !.current = At(x.point + StepSize, o)] :
                       o \in GetOutputs(s)}
    BY DEF StepFixed
  <1>3. /\ SlaveOK(s) /\ s.phase = "stepping" /\ (x.slave.warned => s.warned)
        /\ s.time_ = IF s.returned = "OK" THEN x.slave.time_ + StepSize ELSE x.slave.time_
    BY DoStepGives
  <1>4. CASE s.returned # "OK"
    <2>1. y = Failed(x, s)
      BY <1>2, <1>4
    <2>2. s \in SlaveRecord
      BY <1>3 DEF SlaveOK
    <2>3. /\ y \in WrapperRecord /\ y.slave = s /\ y.outcome = "failed" /\ y.result = x.point
          /\ y.kind = x.kind /\ y.ready = x.ready /\ y.point = x.point /\ y.final = x.final
          /\ y.current = x.current
      BY <2>1, <2>2, FailedGives
    <2>4. ReadingInv(y)
      <3>1. ReadingInv(x)
        BY DEF Looped
      <3>2. DriftOf(y) = DriftOf(x) /\ (~y.slave.warned => ~x.slave.warned)
        BY <1>3, <2>3 DEF DriftOf
      <3> QED BY <2>3, <3>1, <3>2 DEF ReadingInv
    <2> QED BY <1>1, <1>3, <1>4, <2>3, <2>4 DEF Looped
  <1>5. CASE s.returned = "OK"
    <2>1. PICK o \in GetOutputs(s) :
             y = [x EXCEPT !.slave = o.slave, !.point = @ + StepSize,
                           !.current = At(x.point + StepSize, o)]
      BY <1>2, <1>5
    <2> PICK later \in Nat : later = x.point + StepSize
      OBVIOUS
    <2> DEFINE nowAt == At(later, o)
    <2>2. /\ SlaveOK(o.slave) /\ o.slave.phase = "stepping" /\ o.slave.time_ = later
          /\ o.real \in Int \cup {NaN} /\ o.other \in Int \cup {NaN}
          /\ ~o.slave.warned => ReadAt(o.real, later) /\ ReadAt(o.other, later)
      BY <1>3, <1>5, ReadsAt
    <2>3. /\ nowAt \in State /\ nowAt.time_ = later
          /\ nowAt.real = o.real /\ nowAt.other = o.other
      BY <2>2, AtType
    <2>4. y = [x EXCEPT !.slave = o.slave, !.point = later, !.current = nowAt]
      BY <2>1
    <2> HIDE DEF nowAt
    <2>5. o.slave \in SlaveRecord
      BY <2>2 DEF SlaveOK
    <2>6. /\ y.slave = o.slave /\ y.point = later /\ y.current = nowAt
          /\ y.kind = x.kind /\ y.ready = x.ready /\ y.final = x.final /\ y.outcome = x.outcome
      BY <2>4 DEF WrapperRecord
    <2>7. y \in WrapperRecord
      <3>1. later \in Int
        OBVIOUS
      <3> QED BY <2>3, <2>4, <2>5, <3>1 DEF WrapperRecord
    <2>8. ReadingInv(y)
      BY <2>2, <2>3, <2>6, ReadingOf
    <2> QED BY <1>1, <2>2, <2>6, <2>7, <2>8 DEF Looped
  <1> QED BY <1>4, <1>5

LEMMA StepInterpolatingKeeps ==
    ASSUME NEW x, NEW v, NEW t1 \in Nat, Looped(x, v, t1), x.kind = "interpolating",
           DueInterpolating(x, t1), x.outcome = "done", NEW y \in StepInterpolating(x)
    PROVE  Looped(y, v, t1) /\ (y.outcome = "done" => y.point = x.point + StepSize)
  <1> x \in WrapperRecord /\ SlaveOK(x.slave) /\ x.point \in Nat /\ x.slave.phase = "stepping"
      /\ x.slave.time_ = x.point /\ StepSize \in Nat \ {0}
      /\ v.point \in Nat /\ v.point <= x.point
    BY StepSizeFmuAssumption DEF Looped
  <1>1. x.point < t1
    BY DEF DueInterpolating
  <1> DEFINE u == [x EXCEPT !.previous = x.next]
  <1>2. /\ u \in WrapperRecord /\ u.previous = x.next
        /\ \A f \in {"slave", "kind", "ready", "point", "final", "current", "next", "outcome"} :
              u[f] = x[f]
    BY DEF WrapperRecord
  <1>3. PICK s \in DoStep(u.slave, u.point, StepSize) :
           y \in IF s.returned # "OK" THEN {Failed(u, s)}
                 ELSE {[u EXCEPT !.slave = o.slave, !.point = @ + StepSize,
                                 !.next = At(u.point + StepSize, o)] :
                       o \in GetOutputs(s)}
    BY DEF StepInterpolating
  <1> HIDE DEF u
  <1>4. s \in DoStep(x.slave, x.point, StepSize)
    BY <1>2, <1>3
  <1>5. /\ SlaveOK(s) /\ s.phase = "stepping" /\ (x.slave.warned => s.warned)
        /\ s.time_ = IF s.returned = "OK" THEN x.slave.time_ + StepSize ELSE x.slave.time_
    BY <1>4, DoStepGives
  <1>6. /\ x.next.time_ = x.point
        /\ x.current.time_ <= x.point /\ x.current.time_ <= t1
        /\ x.current.time_ = v.current.time_
        /\ ~x.slave.warned =>
              /\ ReadAt(x.next.real, x.point) /\ ReadAt(x.next.other, x.point)
              /\ ReadAt(x.current.real, x.current.time_)
              /\ x.current.other # Stale => x.current.other <= x.current.time_
    BY DEF Looped, HistoryInv, FromOf
  <1>7. x.current.time_ \in Int
    BY DEF WrapperRecord, State
  <1>8. CASE s.returned # "OK"
    <2>1. y = Failed(u, s)
      BY <1>3, <1>8
    <2>2. s \in SlaveRecord
      BY <1>5 DEF SlaveOK
    <2>3. /\ y \in WrapperRecord /\ y.slave = s /\ y.outcome = "failed" /\ y.result = u.point
          /\ y.kind = u.kind /\ y.ready = u.ready /\ y.point = u.point /\ y.final = u.final
          /\ y.current = u.current /\ y.previous = u.previous /\ y.next = u.next
      BY <1>2, <2>1, <2>2, FailedGives
    <2>4. /\ y.kind = x.kind /\ y.ready = x.ready /\ y.point = x.point /\ y.final = x.final
          /\ y.current = x.current /\ y.previous = x.next /\ y.next = x.next
          /\ y.result = x.point
      BY <1>2, <2>3
    <2>5. FromOf(y, y.point) = y.point
      BY <2>3, <2>4 DEF FromOf
    <2>6. HistoryInv(y, y.point)
      BY <1>5, <1>6, <2>3, <2>4, <2>5 DEF HistoryInv
    <2> QED BY <1>1, <1>5, <1>6, <1>8, <2>3, <2>4, <2>6 DEF Looped
  <1>9. CASE s.returned = "OK"
    <2>1. PICK o \in GetOutputs(s) :
             y = [u EXCEPT !.slave = o.slave, !.point = @ + StepSize,
                           !.next = At(u.point + StepSize, o)]
      BY <1>3, <1>9
    <2> PICK later \in Nat : later = x.point + StepSize
      OBVIOUS
    <2> DEFINE then == At(later, o)
    <2>2. /\ SlaveOK(o.slave) /\ o.slave.phase = "stepping" /\ o.slave.time_ = later
          /\ o.real \in Int \cup {NaN} /\ o.other \in Int \cup {NaN}
          /\ s.warned => o.slave.warned
          /\ ~o.slave.warned => ReadAt(o.real, later) /\ ReadAt(o.other, later)
      BY <1>5, <1>9, ReadsAt
    <2>3. /\ then \in State /\ then.time_ = later
          /\ then.real = o.real /\ then.other = o.other
      BY <2>2, AtType
    <2>4. y = [u EXCEPT !.slave = o.slave, !.point = later, !.next = then]
      BY <1>2, <2>1
    <2> HIDE DEF then
    <2>5. o.slave \in SlaveRecord
      BY <2>2 DEF SlaveOK
    <2>6. /\ y.slave = o.slave /\ y.point = later /\ y.next = then
          /\ y.kind = u.kind /\ y.ready = u.ready /\ y.final = u.final /\ y.outcome = u.outcome
          /\ y.current = u.current /\ y.previous = u.previous
      BY <1>2, <2>4 DEF WrapperRecord
    <2>7. y \in WrapperRecord
      <3>1. later \in Int
        OBVIOUS
      <3> QED BY <1>2, <2>3, <2>4, <2>5, <3>1 DEF WrapperRecord
    <2>8. /\ y.kind = x.kind /\ y.ready = x.ready /\ y.final = x.final /\ y.outcome = x.outcome
          /\ y.current = x.current /\ y.previous = x.next
      BY <1>2, <2>6
    <2>9. FromOf(y, y.point) = later
      BY <2>6, <2>8 DEF FromOf
    <2>10. HistoryInv(y, y.point)
      <3>1. y.next.time_ = y.point /\ y.previous.time_ = y.point - StepSize
            /\ y.current.time_ <= later
        BY <1>6, <1>7, <2>3, <2>6, <2>8
      <3>2. ~y.slave.warned => ~x.slave.warned /\ ~o.slave.warned
        BY <1>5, <2>2, <2>6
      <3>3. ~y.slave.warned =>
              /\ ReadAt(y.next.real, y.point) /\ ReadAt(y.next.other, y.point)
              /\ ReadAt(y.previous.real, y.previous.time_)
              /\ ReadAt(y.current.real, y.current.time_)
              /\ y.current.other # Stale => y.current.other <= y.current.time_
        BY <1>6, <2>2, <2>3, <2>6, <2>8, <3>2
      <3> QED BY <2>9, <3>1, <3>3 DEF HistoryInv
    <2> QED BY <1>1, <1>6, <2>2, <2>6, <2>7, <2>8, <2>10 DEF Looped
  <1> QED BY <1>8, <1>9

LEMMA StepKeeps ==
    ASSUME NEW x, NEW v, NEW t1 \in Nat, Looped(x, v, t1),
           x.kind \in {"fixed", "interpolating"},
           Due(x, t1), x.outcome = "done", NEW y \in Step(x)
    PROVE  Looped(y, v, t1) /\ (y.outcome = "done" => y.point = x.point + StepSize)
  BY StepFixedKeeps, StepInterpolatingKeeps DEF Due, Step

(* What the steps up to t1 lead to.                                        *)
Arrived(x, v, t1) ==
    /\ x \in WrapperRecord /\ x.ready
    /\ x.kind = v.kind /\ x.final = v.final
    /\ v.point \in Nat /\ v.point <= x.point
    /\ SlaveOK(x.slave) /\ x.slave.phase = "stepping"
    /\ x.slave.time_ = x.point /\ x.point \in Nat
    /\ x.outcome \in {"done", "failed"}
    /\ x.outcome = "failed" => x.result = x.point /\ x.point < t1
    /\ x.outcome = "done" => ~Due(x, t1) \/ (x.point >= x.final /\ x.point = v.point)
    /\ x.kind = "fixed" => x.point <= t1 /\ ReadingInv(x)
    /\ x.kind = "interpolating" =>
          /\ x.point < t1 + StepSize /\ HistoryInv(x, t1)
          /\ x.current.time_ = v.current.time_

LEMMA DoneGives ==
    ASSUME NEW v \in WrapperRecord
    PROVE  /\ Done(v) \in WrapperRecord /\ Done(v).outcome = "done"
           /\ \A f \in {"kind", "slave", "ready", "point", "final", "current", "previous", "next"} :
                 Done(v)[f] = v[f]
  BY DEF Done, WrapperRecord

(* A wrapper that is ready to synchronize, at its slave's time.            *)
LEMMA ReadyFacts ==
    ASSUME NEW v \in WrapperRecord, NEW last \in Nat, SlaveOK(v.slave), v.ready,
           v.kind \in {"fixed", "interpolating"}, PointInv(v, last), OutputInv(v, last)
    PROVE  /\ v.slave.phase = "stepping" /\ v.point \in Nat /\ v.slave.time_ = v.point
           /\ v.final \in Int
           /\ FromOf(v, last) \in Nat
  <1>1. v.slave.phase = "stepping" /\ v.point \in Nat /\ Abs(v.point - v.slave.time_) <= 0
    BY DEF PointInv, DriftOf
  <1>2. v.slave.time_ \in Int
    BY <1>1 DEF SlaveOK
  <1>3. v.slave.time_ = v.point
    <2>1. v.point - v.slave.time_ \in Int
      BY <1>1, <1>2
    <2>2. v.point - v.slave.time_ = 0
      BY <1>1, <2>1 DEF Abs
    <2> QED BY <1>1, <1>2, <2>2
  <1>4. FromOf(v, last) \in Nat
    BY <1>1 DEF FromOf, PointInv
  <1>5. v.final \in Int
    BY DEF WrapperRecord
  <1> QED BY <1>1, <1>3, <1>4, <1>5

LEMMA StaysWhereItIs ==
    ASSUME NEW v \in WrapperRecord, NEW last \in Nat, SlaveOK(v.slave), v.ready,
           v.kind \in {"fixed", "interpolating"}, PointInv(v, last), OutputInv(v, last),
           NEW t1 \in Nat, t1 >= FromOf(v, last),
           ~Due(v, t1) \/ v.point >= v.final
    PROVE  Arrived(Done(v), v, t1)
  <1>1. /\ v.slave.phase = "stepping" /\ v.point \in Nat /\ v.slave.time_ = v.point
        /\ FromOf(v, last) \in Nat
    BY ReadyFacts
  <1> DEFINE x == Done(v)
  <1>2. /\ x \in WrapperRecord /\ x.outcome = "done" /\ x.kind = v.kind /\ x.slave = v.slave
        /\ x.ready = v.ready /\ x.point = v.point /\ x.final = v.final
        /\ x.current = v.current /\ x.previous = v.previous /\ x.next = v.next
    BY DoneGives
  <1> HIDE DEF x
  <1>3. x.current.time_ \in Int
    BY <1>2 DEF WrapperRecord, State
  <1>4. ~Due(x, t1) \/ x.point >= x.final
    BY <1>2 DEF Due, DueFixed, DueInterpolating
  <1>5. x.kind = "fixed" => x.point <= t1 /\ ReadingInv(x)
    <2> SUFFICES ASSUME x.kind = "fixed" PROVE x.point <= t1 /\ ReadingInv(x)
      OBVIOUS
    <2>1. v.point <= FromOf(v, last) /\ ReadingInv(v)
      BY <1>2 DEF PointInv, OutputInv
    <2>2. DriftOf(x) = DriftOf(v)
      BY <1>2 DEF DriftOf
    <2>3. ReadingInv(x)
      BY <1>2, <2>1, <2>2 DEF ReadingInv
    <2> QED BY <1>1, <1>2, <2>1, <2>3
  <1>6. x.kind = "interpolating" =>
           /\ x.point < t1 + StepSize /\ HistoryInv(x, t1)
           /\ x.current.time_ = v.current.time_
    <2> SUFFICES ASSUME x.kind = "interpolating"
                 PROVE  /\ x.point < t1 + StepSize /\ HistoryInv(x, t1)
                        /\ x.current.time_ = v.current.time_
      OBVIOUS
    <2>1. /\ v.point < last + StepSize
          /\ v.outcome = "failed" => v.result = v.point
          /\ HistoryInv(v, last)
      BY <1>2 DEF PointInv, OutputInv
    <2>2. x.point < t1 + StepSize
      <3>1. CASE v.outcome = "failed"
        BY <1>1, <1>2, <2>1, <3>1, StepSizeFmuAssumption DEF FromOf
      <3>2. CASE v.outcome # "failed"
        BY <1>1, <1>2, <2>1, <3>2, StepSizeFmuAssumption DEF FromOf
      <3> QED BY <3>1, <3>2
    <2>3. FromOf(x, t1) = t1
      BY <1>2 DEF FromOf
    <2>4. x.current.time_ <= t1
      BY <1>1, <1>2, <1>3, <2>1 DEF HistoryInv
    <2>5. HistoryInv(x, t1)
      BY <1>2, <2>1, <2>3, <2>4 DEF HistoryInv
    <2> QED BY <1>2, <2>2, <2>5
  <1>7. Arrived(x, v, t1)
    BY <1>1, <1>2, <1>4, <1>5, <1>6 DEF Arrived
  <1> QED BY <1>7 DEF x

LEMMA StartsLoop ==
    ASSUME NEW v \in WrapperRecord, NEW last \in Nat, SlaveOK(v.slave), v.ready,
           v.kind \in {"fixed", "interpolating"}, PointInv(v, last), OutputInv(v, last),
           NEW t1 \in Nat, t1 >= FromOf(v, last),
           Due(v, t1), v.point < v.final
    PROVE  Looped(Done(v), v, t1)
  <1>1. /\ v.slave.phase = "stepping" /\ v.point \in Nat /\ v.slave.time_ = v.point
        /\ FromOf(v, last) \in Nat
    BY ReadyFacts
  <1> DEFINE x == Done(v)
  <1>2. /\ x \in WrapperRecord /\ x.outcome = "done" /\ x.kind = v.kind /\ x.slave = v.slave
        /\ x.ready = v.ready /\ x.point = v.point /\ x.final = v.final
        /\ x.current = v.current /\ x.previous = v.previous /\ x.next = v.next
    BY DoneGives
  <1> HIDE DEF x
  <1>3. x.current.time_ \in Int
    BY <1>2 DEF WrapperRecord, State
  <1>4. x.kind = "fixed" => x.point <= t1 /\ ReadingInv(x)
    <2> SUFFICES ASSUME x.kind = "fixed" PROVE x.point <= t1 /\ ReadingInv(x)
      OBVIOUS
    <2>1. v.point <= FromOf(v, last) /\ ReadingInv(v)
      BY <1>2 DEF PointInv, OutputInv
    <2>2. DriftOf(x) = DriftOf(v)
      BY <1>2 DEF DriftOf
    <2>3. ReadingInv(x)
      BY <1>2, <2>1, <2>2 DEF ReadingInv
    <2> QED BY <1>1, <1>2, <2>1, <2>3
  <1>5. x.kind = "interpolating" =>
           /\ x.point < t1 + StepSize /\ x.current.time_ <= t1 /\ HistoryInv(x, x.point)
           /\ x.current.time_ = v.current.time_
    <2> SUFFICES ASSUME x.kind = "interpolating"
                 PROVE  /\ x.point < t1 + StepSize /\ x.current.time_ <= t1
                        /\ HistoryInv(x, x.point) /\ x.current.time_ = v.current.time_
      OBVIOUS
    <2>1. FromOf(v, last) <= v.point /\ HistoryInv(v, last)
      BY <1>2 DEF PointInv, OutputInv
    <2>2. x.point < t1 + StepSize
      BY <1>1, <1>2, StepSizeFmuAssumption DEF Due, DueInterpolating
    <2>3. FromOf(x, x.point) = x.point
      BY <1>2 DEF FromOf
    <2>4. x.current.time_ <= x.point /\ x.current.time_ <= t1
      BY <1>1, <1>2, <1>3, <2>1 DEF HistoryInv
    <2>5. HistoryInv(x, x.point)
      BY <1>2, <2>1, <2>3, <2>4 DEF HistoryInv
    <2> QED BY <1>2, <2>2, <2>4, <2>5
  <1>6. Looped(x, v, t1)
    BY <1>1, <1>2, <1>4, <1>5 DEF Looped
  <1> QED BY <1>6 DEF x

LEMMA LeavesLoop ==
    ASSUME NEW x, NEW v, NEW t1 \in Nat, Looped(x, v, t1),
           x.outcome = "failed" \/ ~Due(x, t1)
    PROVE  Arrived(x, v, t1)
  <1>1. ASSUME x.kind = "interpolating" PROVE HistoryInv(x, t1)
    <2>1. HistoryInv(x, x.point) /\ x.point \in Nat /\ x \in WrapperRecord
      BY <1>1 DEF Looped
    <2>2. /\ x.current.time_ <= x.point /\ x.current.time_ <= t1
          /\ x.outcome = "failed" => x.result = x.point
      BY <1>1, <2>1 DEF Looped, HistoryInv, FromOf
    <2>3. x.current.time_ <= FromOf(x, t1)
      BY <2>2 DEF FromOf
    <2> QED BY <2>1, <2>3 DEF HistoryInv
  <1> QED BY <1>1 DEF Looped, Arrived

(* Every step that is due takes the wrapper on, so that none is due after  *)
(* t1 steps.                                                               *)
LEMMA StepsToGives ==
    ASSUME NEW v \in WrapperRecord, NEW last \in Nat, SlaveOK(v.slave), v.ready,
           v.kind \in {"fixed", "interpolating"}, PointInv(v, last), OutputInv(v, last),
           NEW t1 \in Nat, t1 >= FromOf(v, last), NEW y \in StepsTo(v, t1)
    PROVE  Arrived(y, v, t1)
  <1> DEFINE L == {x \in WrapperRecord : Looped(x, v, t1)}
             OneStep(x) == IF x.outcome = "done" /\ Due(x, t1) THEN Step(x) ELSE {x}
             Next_(Q) == UNION {OneStep(x) : x \in Q}
             Is(f) == f = [n \in 0 .. t1 |-> IF n = 0 THEN {Done(v)} ELSE Next_(f[n - 1])]
             after == CHOOSE f : Is(f)
  <1>1. CASE ~Due(v, t1) \/ ~(v.point < v.final)
    <2>1. y = Done(v)
      BY <1>1 DEF StepsTo
    <2>2. v.point \in Nat /\ v.final \in Int
      BY ReadyFacts
    <2>3. ~Due(v, t1) \/ v.point >= v.final
      BY <1>1, <2>2
    <2> QED BY <2>1, <2>3, StaysWhereItIs
  <1>2. CASE Due(v, t1) /\ v.point < v.final
    <2>1. y \in after[t1]
      BY <1>2 DEF StepsTo
    <2>2. Done(v) \in L
      BY <1>2, StartsLoop, DoneGives
    <2>3. ASSUME NEW x \in L, NEW z \in OneStep(x)
          PROVE  /\ z \in L
                 /\ z.outcome = "done" /\ Due(z, t1) => z.point > x.point /\ x.outcome = "done"
                                                        /\ Due(x, t1)
      <3>1. Looped(x, v, t1) /\ x.kind \in {"fixed", "interpolating"} /\ x.point \in Nat
        BY DEF Looped
      <3>2. CASE x.outcome = "done" /\ Due(x, t1)
        <4>1. z \in Step(x)
          BY <3>2
        <4>2. Looped(z, v, t1) /\ (z.outcome = "done" => z.point = x.point + StepSize)
          BY <3>1, <3>2, <4>1, StepKeeps
        <4> QED BY <3>1, <3>2, <4>2, StepSizeFmuAssumption DEF Looped
      <3>3. CASE ~(x.outcome = "done" /\ Due(x, t1))
        <4>1. z = x
          BY <3>3
        <4> QED BY <3>3, <4>1
      <3> QED BY <3>2, <3>3
    <2> HIDE DEF L, OneStep
    <2>4. ASSUME NEW Q \in SUBSET L PROVE Next_(Q) \in SUBSET L
      BY <2>3
    <2>5. \E f : Is(f)
      <3> HIDE DEF Next_
      <3> DEFINE G == [p \in (1 .. t1) \X SUBSET L |-> Next_(p[2])]
      <3>1. G \in [(1 .. t1) \X SUBSET L -> SUBSET L]
        BY <2>4
      <3>2. {Done(v)} \in SUBSET L
        BY <2>2
      <3> HIDE DEF G
      <3>3. PICK f \in [0 .. t1 -> SUBSET L] :
               f[0] = {Done(v)} /\ \A n \in 1 .. t1 : f[n] = G[<<n, f[n - 1]>>]
        <4>1. Runs(t1, SUBSET L, {Done(v)}, G) # {}
          BY <3>1, <3>2, Recursion
        <4> QED BY <4>1 DEF Runs
      <3>4. ASSUME NEW n \in 0 .. t1
            PROVE  f[n] = IF n = 0 THEN {Done(v)} ELSE Next_(f[n - 1])
        <4>1. CASE n = 0
          BY <3>3, <4>1
        <4>2. CASE n # 0
          <5>1. n \in 1 .. t1 /\ n - 1 \in 0 .. t1
            BY <4>2
          <5>2. <<n, f[n - 1]>> \in (1 .. t1) \X SUBSET L
            BY <5>1
          <5>3. G[<<n, f[n - 1]>>] = Next_(f[n - 1])
            BY <5>2 DEF G
          <5> QED BY <3>3, <4>2, <5>1, <5>3
        <4> QED BY <4>1, <4>2
      <3> QED BY <3>4, Zenon
    <2>6. Is(after)
      BY <2>5
    <2> HIDE DEF after
    <2> DEFINE S == {n \in 0 .. t1 :
                        /\ after[n] \in SUBSET L
                        /\ \A x \in after[n] : x.outcome = "done" /\ Due(x, t1) => x.point >= n}
    <2>7. 0 \in S
      <3>1. after[0] = {Done(v)} /\ 0 \in 0 .. t1
        BY <2>6
      <3>2. Done(v).point \in Nat
        BY <2>2 DEF L, Looped
      <3> QED BY <2>2, <3>1, <3>2
    <2>8. ASSUME NEW n \in 1 .. t1, n - 1 \in S PROVE n \in S
      <3>1. n \in 0 .. t1 /\ n # 0 /\ after[n - 1] \in SUBSET L
        BY <2>8
      <3>2. after[n] = Next_(after[n - 1])
        BY <2>6, <3>1
      <3>3. ASSUME NEW z \in after[n], z.outcome = "done", Due(z, t1) PROVE z.point >= n
        <4>1. PICK x \in after[n - 1] : z \in OneStep(x)
          BY <3>2
        <4>2. x \in L /\ z \in L
          BY <2>3, <3>1, <4>1
        <4>3. z.point > x.point /\ x.outcome = "done" /\ Due(x, t1)
          BY <2>3, <3>3, <4>1, <4>2
        <4>4. x.point >= n - 1
          BY <2>8, <4>3
        <4>5. x.point \in Nat /\ z.point \in Nat
          BY <4>2 DEF L, Looped
        <4> QED BY <4>3, <4>4, <4>5
      <3> QED BY <2>4, <3>1, <3>2, <3>3
    <2>9. t1 \in S
      <3> HIDE DEF S
      <3>1. \A n \in 0 .. t1 : n \in S
        BY <2>7, <2>8, LoopKeeps
      <3> QED BY <3>1
    <2>10. Looped(y, v, t1) /\ (y.outcome = "done" /\ Due(y, t1) => y.point >= t1)
      BY <2>1, <2>9 DEF L
    <2>11. y.point >= t1 => ~Due(y, t1)
      <3>1. y.point \in Nat
        BY <2>10 DEF Looped
      <3> QED BY <3>1, StepSizeFmuAssumption DEF Due, DueFixed, DueInterpolating
    <2>12. y.outcome \in {"done", "failed"}
      BY <2>10 DEF Looped
    <2> QED BY <2>10, <2>11, <2>12, LeavesLoop
  <1> QED BY <1>1, <1>2

-----------------------------------------------------------------------------
(* What sync() leads to.                                                   *)

Synced(y, v, last) ==
    /\ y \in WrapperRecord /\ y.kind = v.kind /\ y.ready
    /\ SlaveOK(y.slave)
    /\ PointInv(y, last) /\ OutputInv(y, last) /\ ResultInv(y, last)

(* What the program that asked v for t1 sees of y.                         *)
Promised(y, v, t1) ==
    /\ y.final = v.final
    /\ v.current.time_ <= y.current.time_
    /\ y.outcome \in {"done", "failed", "refused"}
    /\ y.outcome = "done" =>
          /\ IF y.kind = "fixed"
             THEN /\ y.current.time_ <= t1
                  /\ \/ t1 < y.current.time_ + StepSize
                     \/ y.current.time_ = v.current.time_ /\ y.final <= y.current.time_
             ELSE y.current.time_ = t1
          /\ y.result <= t1 + StepSize
    /\ y.outcome = "failed" => y.current.time_ <= y.result /\ y.result <= t1
    /\ y.outcome = "refused" => y.kind = "variable" /\ y.current.time_ = v.current.time_

LEMMA PointOfArrived ==
    ASSUME NEW x, NEW v, NEW t1 \in Nat, Arrived(x, v, t1), v.kind \in {"fixed", "interpolating"}
    PROVE  PointInv(x, t1)
  <1>1. /\ x.slave.phase = "stepping" /\ x.point \in Nat /\ x.slave.time_ = x.point
        /\ x.final \in Int /\ x.kind \in {"fixed", "interpolating"}
    BY DEF Arrived, WrapperRecord
  <1>2. Abs(x.point - x.slave.time_) = 0 /\ DriftOf(x) = 0
    <2>1. x.point - x.slave.time_ = 0
      BY <1>1
    <2> QED BY <1>1, <2>1 DEF Abs, DriftOf
  <1>3. x.kind = "interpolating" => (x.point < x.final => FromOf(x, t1) <= x.point)
    BY <1>1 DEF Arrived, FromOf, Due, DueInterpolating
  <1>4. x.kind # "interpolating" => x.point <= FromOf(x, t1)
    BY <1>1 DEF Arrived, FromOf
  <1>5. x.outcome = "failed" => x.result = x.point /\ x.point <= t1
    BY <1>1 DEF Arrived
  <1> QED BY <1>1, <1>2, <1>3, <1>4, <1>5 DEF PointInv, Arrived

(* The time of the next synchronization is later than t1.                  *)
LEMMA NextSyncTimeLater ==
    ASSUME NEW x, NEW v, NEW t1 \in Nat, Arrived(x, v, t1), v.kind \in {"fixed", "interpolating"},
           x.outcome = "done"
    PROVE  /\ NextSyncTime(x, t1) \in Int
           /\ t1 <= x.final => NextSyncTime(x, t1) > t1
           /\ NextSyncTime(x, t1) <= t1 + StepSize
  <1>1. /\ x.point \in Nat /\ x.final \in Int /\ x.kind \in {"fixed", "interpolating"}
        /\ ~Due(x, t1) \/ x.point >= x.final
    BY DEF Arrived, WrapperRecord
  <1>2. NextSyncTime(x, t1) \in Int
    BY <1>1, StepSizeFmuAssumption DEF NextSyncTime
  <1>3. ~Due(x, t1) => x.point + StepSize > t1
    BY <1>1, StepSizeFmuAssumption DEF Due, DueFixed, DueInterpolating
  <1>4. t1 <= x.final => x.point + StepSize > t1
    BY <1>1, <1>3, StepSizeFmuAssumption
  <1>5. x.point < t1 + StepSize
    BY <1>1, StepSizeFmuAssumption DEF Arrived
  <1>6. NextSyncTime(x, t1) <= t1 + StepSize
    BY <1>1, <1>5, StepSizeFmuAssumption DEF NextSyncTime
  <1> QED BY <1>1, <1>2, <1>4, <1>6, StepSizeFmuAssumption DEF NextSyncTime

LEMMA SyncFixedGives ==
    ASSUME NEW v \in WrapperRecord, NEW last \in Nat, SlaveOK(v.slave), v.ready,
           v.kind = "fixed", PointInv(v, last), OutputInv(v, last),
           NEW t0, NEW t1 \in Nat, t1 >= FromOf(v, last), NEW y \in SyncFixed(v, t0, t1)
    PROVE  Synced(y, v, t1) /\ Promised(y, v, t1) /\ y.outcome # "refused"
  <1>1. PICK x \in StepsTo(v, t1) :
           y = IF x.outcome = "done" THEN [x EXCEPT !.result = NextSyncTime(x, t1)] ELSE x
    BY DEF SyncFixed
  <1>2. Arrived(x, v, t1)
    BY StepsToGives
  <1>3. PointInv(x, t1)
    BY <1>2, PointOfArrived
  <1>4. /\ x \in WrapperRecord /\ x.kind = v.kind /\ x.ready /\ SlaveOK(x.slave)
        /\ ReadingInv(x) /\ x.outcome \in {"done", "failed"}
        /\ x.kind = "fixed" /\ x.point \in Nat /\ x.point <= t1 /\ x.final = v.final
        /\ x.outcome = "failed" => x.result = x.point
    BY <1>2 DEF Arrived
  <1>4a. x.current.time_ = x.point /\ v.current.time_ = v.point /\ v.point <= x.point
    BY <1>2, <1>4 DEF ReadingInv, OutputInv, Arrived
  <1>4b. x.outcome = "done" =>
            \/ t1 < x.point + StepSize
            \/ x.point = v.point /\ x.final <= x.point
    BY <1>2, <1>4, StepSizeFmuAssumption DEF Arrived, Due, DueFixed, WrapperRecord
  <1>5. CASE x.outcome = "failed"
    <2>1. y = x
      BY <1>1, <1>5
    <2>2. Promised(y, v, t1)
      BY <1>4, <1>4a, <1>5, <2>1 DEF Promised
    <2> QED BY <1>3, <1>4, <1>5, <2>1, <2>2 DEF Synced, OutputInv, ResultInv
  <1>6. CASE x.outcome = "done"
    <2> PICK result \in Int : /\ result = NextSyncTime(x, t1)
                              /\ t1 <= x.final => result > t1
                              /\ result <= t1 + StepSize
      BY <1>2, <1>6, NextSyncTimeLater
    <2>1. y = [x EXCEPT !.result = result]
      BY <1>1, <1>6
    <2>2. /\ y \in WrapperRecord /\ y.kind = x.kind /\ y.slave = x.slave /\ y.ready = x.ready
          /\ y.point = x.point /\ y.final = x.final /\ y.current = x.current
          /\ y.outcome = x.outcome /\ y.result = result
      BY <1>4, <2>1 DEF WrapperRecord
    <2>3. DriftOf(y) = DriftOf(x) /\ SlackOf(y) = 0 /\ FromOf(y, t1) = FromOf(x, t1)
      BY <1>4, <1>6, <2>2 DEF DriftOf, SlackOf, FromOf
    <2>4. PointInv(y, t1)
      BY <1>3, <1>6, <2>2, <2>3 DEF PointInv
    <2>5. ReadingInv(y)
      BY <1>4, <2>2, <2>3 DEF ReadingInv
    <2>6. ResultInv(y, t1)
      BY <2>2, <2>3 DEF ResultInv
    <2>7. Promised(y, v, t1)
      BY <1>4, <1>4a, <1>4b, <1>6, <2>2 DEF Promised
    <2> QED BY <1>4, <1>6, <2>2, <2>4, <2>5, <2>6, <2>7 DEF Synced, OutputInv
  <1> QED BY <1>4, <1>5, <1>6

(* Between two outputs that are of their times the interpolated one is.    *)
LEMMA DivideByItself ==
    ASSUME NEW k \in Int, NEW n \in Nat \ {0}
    PROVE  (k * n) \div n = k
  OBVIOUS

LEMMA InterpolateValueGives ==
    ASSUME NEW t \in Int, NEW x0 \in Int, NEW x1 \in Int, x1 = x0 \/ x1 = x0 + StepSize,
           NEW y0 \in Int \cup {NaN}, NEW y1 \in Int \cup {NaN}
    PROVE  /\ InterpolateValue(t, x0, y0, x1, y1) \in Int \cup {NaN}
           /\ ReadAt(y0, x0) /\ ReadAt(y1, x1) =>
                 ReadAt(InterpolateValue(t, x0, y0, x1, y1), t)
  <1>1. CASE x1 = x0 \/ Stale \in {y0, y1}
    BY <1>1 DEF InterpolateValue, ReadAt, Stale
  <1>2. CASE ~(x1 = x0 \/ Stale \in {y0, y1})
    <2>1. /\ x1 - x0 = StepSize /\ StepSize \in Nat \ {0}
          /\ y0 \in Int /\ y1 \in Int /\ y0 # Stale /\ y1 # Stale
      BY <1>2, StepSizeFmuAssumption DEF Stale
    <2>2. InterpolateValue(t, x0, y0, x1, y1) = y0 + ((t - x0) * (y1 - y0)) \div (x1 - x0)
      BY <1>2 DEF InterpolateValue
    <2>3. (t - x0) * (y1 - y0) \in Int
      BY <2>1
    <2>4. ((t - x0) * (y1 - y0)) \div StepSize \in Int
      BY <2>1, <2>3
    <2>5. ASSUME ReadAt(y0, x0), ReadAt(y1, x1)
          PROVE  InterpolateValue(t, x0, y0, x1, y1) = t
      <3>1. y0 = x0 /\ y1 - y0 = StepSize
        BY <2>1, <2>5 DEF ReadAt
      <3>2. ((t - x0) * StepSize) \div StepSize = t - x0
        BY <2>1, DivideByItself
      <3>3. InterpolateValue(t, x0, y0, x1, y1) = x0 + ((t - x0) * StepSize) \div StepSize
        BY <2>1, <2>2, <3>1
      <3> QED BY <3>2, <3>3
    <2>6. InterpolateValue(t, x0, y0, x1, y1) \in Int
      BY <2>1, <2>2, <2>4
    <2> QED BY <2>5, <2>6 DEF ReadAt
  <1> QED BY <1>1, <1>2

LEMMA InterpolateGives ==
    ASSUME NEW x, NEW v, NEW t1 \in Nat, Arrived(x, v, t1), v.kind = "interpolating",
           x.outcome = "done"
    PROVE  LET y == InterpolateCurrentState(x, t1)
           IN  /\ y \in WrapperRecord
               /\ \A f \in {"kind", "slave", "ready", "point", "final", "previous", "next",
                            "outcome", "result"} : y[f] = x[f]
               /\ y.current.time_ = t1
               /\ ~x.slave.warned =>
                     /\ ReadAt(y.current.real, t1)
                     /\ y.current.other # Stale => y.current.other <= t1
  <1> PICK y : y = InterpolateCurrentState(x, t1)
    OBVIOUS
  <1>1. /\ x \in WrapperRecord /\ x.kind = "interpolating" /\ HistoryInv(x, t1)
        /\ x.point \in Nat
    BY DEF Arrived
  <1>2. /\ x.current \in State /\ x.previous \in State /\ x.next \in State
    BY <1>1 DEF WrapperRecord
  <1>3. /\ x.next.time_ = x.point /\ x.previous.time_ \in {x.point, x.point - StepSize}
        /\ x.current.time_ <= t1
    BY <1>1 DEF HistoryInv, FromOf
  <1>4. CASE t1 = x.next.time_
    <2>1. y = [x EXCEPT !.current = x.next]
      BY <1>4 DEF InterpolateCurrentState
    <2>2. y \in WrapperRecord /\ y.current = x.next
          /\ \A f \in {"kind", "slave", "ready", "point", "final", "previous", "next", "outcome",
                        "result"} : y[f] = x[f]
      BY <1>1, <1>2, <2>1 DEF WrapperRecord
    <2>3. y.current.time_ = t1
      BY <1>4, <2>2
    <2>4. ~x.slave.warned => ReadAt(x.next.real, t1) /\ ReadAt(x.next.other, t1)
      BY <1>1, <1>3, <1>4 DEF HistoryInv
    <2>5. ~x.slave.warned /\ x.next.other # Stale => x.next.other <= t1
      BY <2>4 DEF ReadAt
    <2> QED BY <2>2, <2>3, <2>4, <2>5
  <1>5. CASE t1 # x.next.time_
    <2> DEFINE value == InterpolateValue(t1, x.previous.time_, x.previous.real,
                                         x.next.time_, x.next.real)
               c == [x.current EXCEPT !.time_ = t1, !.real = value]
    <2>1. y = [x EXCEPT !.current.time_ = t1, !.current.real = value]
      BY <1>5 DEF InterpolateCurrentState
    <2>2. /\ value \in Int \cup {NaN}
          /\ ReadAt(x.previous.real, x.previous.time_) /\ ReadAt(x.next.real, x.next.time_) =>
                ReadAt(value, t1)
      <3>1. /\ t1 \in Int /\ x.previous.time_ \in Int /\ x.next.time_ \in Int
            /\ x.previous.real \in Int \cup {NaN} /\ x.next.real \in Int \cup {NaN}
        BY <1>2 DEF State
      <3>2. x.next.time_ = x.previous.time_ \/ x.next.time_ = x.previous.time_ + StepSize
        BY <1>1, <1>3, StepSizeFmuAssumption
      <3> QED BY <3>1, <3>2, InterpolateValueGives
    <2> HIDE DEF value
    <2>3. c \in State /\ c.time_ = t1 /\ c.real = value /\ c.other = x.current.other
      <3> PICK t \in Int : t = t1
        OBVIOUS
      <3>1. c = [x.current EXCEPT !.time_ = t, !.real = value]
        OBVIOUS
      <3> HIDE DEF c
      <3>2. c.time_ = t /\ c.real = value /\ c.other = x.current.other
        BY <1>2, <3>1 DEF State
      <3>3. c \in State
        BY <1>2, <2>2, <3>1 DEF State
      <3> QED BY <3>2, <3>3
    <2>4. y = [x EXCEPT !.current = c]
      BY <1>1, <1>2, <2>1 DEF WrapperRecord, State
    <2> HIDE DEF c
    <2>5. y \in WrapperRecord /\ y.current = c
          /\ \A f \in {"kind", "slave", "ready", "point", "final", "previous", "next", "outcome",
                        "result"} : y[f] = x[f]
      BY <1>1, <2>3, <2>4 DEF WrapperRecord
    <2>6. ASSUME ~x.slave.warned PROVE ReadAt(value, t1)
      BY <1>1, <1>3, <2>2, <2>6 DEF HistoryInv
    <2>7. ASSUME ~x.slave.warned, x.current.other # Stale PROVE x.current.other <= t1
      <3>1. x.current.other <= x.current.time_
        BY <1>1, <2>7 DEF HistoryInv
      <3>2. x.current.other \in Int /\ x.current.time_ \in Int
        BY <1>2, <2>7 DEF State, Stale
      <3> QED BY <1>3, <3>1, <3>2
    <2> QED BY <2>3, <2>5, <2>6, <2>7
  <1> QED BY <1>4, <1>5

LEMMA SyncInterpolatingGives ==
    ASSUME NEW v \in WrapperRecord, NEW last \in Nat, SlaveOK(v.slave), v.ready,
           v.kind = "interpolating", PointInv(v, last), OutputInv(v, last),
           NEW t0, NEW t1 \in Nat, t1 >= FromOf(v, last), NEW y \in SyncInterpolating(v, t0, t1)
    PROVE  Synced(y, v, t1) /\ Promised(y, v, t1) /\ y.outcome # "refused"
  <1>1. PICK x \in StepsTo(v, t1) :
           y = IF x.outcome = "done"
               THEN [InterpolateCurrentState(x, t1) EXCEPT !.result = NextSyncTime(x, t1)] ELSE x
    BY DEF SyncInterpolating
  <1>2. Arrived(x, v, t1)
    BY StepsToGives
  <1>3. PointInv(x, t1)
    BY <1>2, PointOfArrived
  <1>4. /\ x \in WrapperRecord /\ x.kind = v.kind /\ x.ready /\ SlaveOK(x.slave)
        /\ HistoryInv(x, t1) /\ x.outcome \in {"done", "failed"}
        /\ x.kind = "interpolating" /\ x.point \in Nat /\ x.final = v.final
        /\ x.outcome = "failed" => x.result = x.point /\ x.point < t1
        /\ x.current.time_ = v.current.time_
    BY <1>2 DEF Arrived
  <1>4a. x.current.time_ <= FromOf(x, t1) /\ x.current.time_ \in Int
    BY <1>4 DEF HistoryInv, WrapperRecord, State
  <1>4b. x.current.time_ <= t1
    BY <1>4, <1>4a DEF FromOf
  <1>5. CASE x.outcome = "failed"
    <2>1. y = x
      BY <1>1, <1>5
    <2>2. Promised(y, v, t1)
      BY <1>4, <1>4a, <1>5, <2>1 DEF Promised, FromOf
    <2> QED BY <1>3, <1>4, <1>5, <2>1, <2>2 DEF Synced, OutputInv, ResultInv
  <1>6. CASE x.outcome = "done"
    <2> PICK result \in Int : /\ result = NextSyncTime(x, t1)
                              /\ t1 <= x.final => result > t1
                              /\ result <= t1 + StepSize
      BY <1>2, <1>6, NextSyncTimeLater
    <2> PICK u : u = InterpolateCurrentState(x, t1)
      OBVIOUS
    <2>1. /\ u \in WrapperRecord /\ u.kind = x.kind /\ u.slave = x.slave /\ u.ready = x.ready
          /\ u.point = x.point /\ u.final = x.final /\ u.previous = x.previous
          /\ u.next = x.next /\ u.outcome = x.outcome
          /\ u.current.time_ = t1
          /\ ~x.slave.warned =>
                ReadAt(u.current.real, t1) /\ (u.current.other # Stale => u.current.other <= t1)
      <3>1. v.kind = "interpolating"
        BY <1>4
      <3>2. /\ u \in WrapperRecord
            /\ \A f \in {"kind", "slave", "ready", "point", "final", "previous", "next",
                         "outcome", "result"} : u[f] = x[f]
            /\ u.current.time_ = t1
            /\ ~x.slave.warned =>
                  ReadAt(u.current.real, t1) /\ (u.current.other # Stale => u.current.other <= t1)
        BY <1>2, <1>6, <3>1, InterpolateGives
      <3> QED BY <3>2
    <2>2. y = [u EXCEPT !.result = result]
      BY <1>1, <1>6
    <2>3. /\ y \in WrapperRecord /\ y.kind = u.kind /\ y.slave = u.slave /\ y.ready = u.ready
          /\ y.point = u.point /\ y.final = u.final /\ y.current = u.current
          /\ y.previous = u.previous /\ y.next = u.next
          /\ y.outcome = u.outcome /\ y.result = result
      BY <2>1, <2>2 DEF WrapperRecord
    <2>4. DriftOf(y) = DriftOf(x) /\ SlackOf(y) = 0 /\ FromOf(y, t1) = t1 /\ FromOf(x, t1) = t1
      BY <1>4, <1>6, <2>1, <2>3 DEF DriftOf, SlackOf, FromOf
    <2>5. PointInv(y, t1)
      BY <1>3, <1>6, <2>1, <2>3, <2>4 DEF PointInv
    <2>6. HistoryInv(y, t1)
      <3>1. y.next.time_ = y.point /\ y.previous.time_ \in {y.point, y.point - StepSize}
            /\ y.current.time_ <= FromOf(y, t1)
        BY <1>4, <2>1, <2>3, <2>4 DEF HistoryInv
      <3>2. ~y.slave.warned =>
              /\ ReadAt(y.next.real, y.point) /\ ReadAt(y.next.other, y.point)
              /\ ReadAt(y.previous.real, y.previous.time_)
        BY <1>4, <2>1, <2>3 DEF HistoryInv
      <3>3. ~y.slave.warned =>
              /\ ReadAt(y.current.real, y.current.time_)
              /\ y.current.other # Stale => y.current.other <= y.current.time_
        BY <2>1, <2>3
      <3> QED BY <3>1, <3>2, <3>3 DEF HistoryInv
    <2>7. ResultInv(y, t1)
      BY <2>1, <2>3, <2>4 DEF ResultInv
    <2>8. Promised(y, v, t1)
      BY <1>4, <1>4a, <1>4b, <1>6, <2>1, <2>3 DEF Promised
    <2> QED BY <1>4, <1>6, <2>1, <2>3, <2>5, <2>6, <2>7, <2>8 DEF Synced, OutputInv
  <1> QED BY <1>4, <1>5, <1>6

LEMMA RefusedGives ==
    ASSUME NEW v \in WrapperRecord, NEW last \in Nat, SlaveOK(v.slave), v.ready,
           v.kind = "variable", PointInv(v, last), OutputInv(v, last)
    PROVE  /\ Synced(Refused(v), v, last) /\ Refused(v).outcome = "refused"
           /\ \A t1 : Promised(Refused(v), v, t1)
  <1> PICK one \in Int : one = 1
    OBVIOUS
  <1> PICK y : y = Refused(v)
    OBVIOUS
  <1>1. y = [v EXCEPT !.outcome = "refused", !.result = one]
    BY DEF Refused
  <1>2. /\ y \in WrapperRecord /\ y.kind = v.kind /\ y.slave = v.slave /\ y.ready = v.ready
        /\ y.point = v.point /\ y.final = v.final /\ y.current = v.current
        /\ y.outcome = "refused"
    BY <1>1 DEF WrapperRecord
  <1>3. DriftOf(y) = DriftOf(v) /\ FromOf(y, last) = last
    BY <1>2 DEF DriftOf, FromOf
  <1>4. PointInv(y, last)
    BY <1>2, <1>3 DEF PointInv, FromOf
  <1>5. ReadingInv(y)
    BY <1>2, <1>3 DEF ReadingInv, OutputInv
  <1>6. v.current.time_ <= v.current.time_
    BY DEF WrapperRecord, State
  <1>7. \A t1 : Promised(y, v, t1)
    BY <1>2, <1>6 DEF Promised
  <1> QED BY <1>2, <1>4, <1>5, <1>7 DEF Synced, OutputInv, ResultInv

(* The time of a variable wrapper is that of the caller's interval, which  *)
(* may begin as far from the communication point as that is from the       *)
(* slave's time.                                                           *)
LEMMA DriftBounded ==
    ASSUME NEW point \in Int, NEW time \in Int, NEW t0 \in Int, NEW t1 \in Int,
           Abs(time - point) <= TimeDiffResolution, ~(Abs(t0 - point) > TimeDiffResolution)
    PROVE  Abs(t1 - (time + (t1 - t0))) <= 2 * TimeDiffResolution
  <1> TimeDiffResolution \in Nat
    BY CoSimulationSlaveAssumption
  <1>1. time - point <= TimeDiffResolution /\ point - time <= TimeDiffResolution
    <2>1. time - point \in Int
      OBVIOUS
    <2>2. Abs(time - point) >= time - point /\ Abs(time - point) >= -(time - point)
      BY <2>1 DEF Abs
    <2>3. Abs(time - point) \in Nat
      BY <2>1, AbsType
    <2> QED BY <2>2, <2>3
  <1>2. t0 - point <= TimeDiffResolution /\ point - t0 <= TimeDiffResolution
    <2>1. t0 - point \in Int
      OBVIOUS
    <2>2. Abs(t0 - point) >= t0 - point /\ Abs(t0 - point) >= -(t0 - point)
      BY <2>1 DEF Abs
    <2>3. Abs(t0 - point) \in Nat
      BY <2>1, AbsType
    <2> QED BY <2>2, <2>3
  <1>3. PICK d \in Int : d = t1 - (time + (t1 - t0)) /\ d = t0 - time
    OBVIOUS
  <1>4. d <= 2 * TimeDiffResolution /\ -d <= 2 * TimeDiffResolution
    BY <1>1, <1>2, <1>3
  <1>5. Abs(d) <= 2 * TimeDiffResolution
    BY <1>4 DEF Abs
  <1> QED BY <1>3, <1>5

LEMMA AbsSymmetric ==
    ASSUME NEW a \in Int, NEW b \in Int
    PROVE  Abs(a - b) = Abs(b - a)
  BY DEF Abs

LEMMA SyncVariableGives ==
    ASSUME NEW v \in WrapperRecord, NEW last \in Nat, SlaveOK(v.slave), v.ready,
           v.kind = "variable", PointInv(v, last), OutputInv(v, last),
           NEW t0 \in Int, NEW t1 \in Nat, t1 >= FromOf(v, last),
           NEW y \in SyncVariable(v, t0, t1)
    PROVE  /\ Synced(y, v, IF y.outcome = "refused" THEN last ELSE t1)
           /\ Promised(y, v, t1)
  <1>1. CASE t0 > t1 \/ Abs(t0 - v.point) > TimeDiffResolution
    <2>1. y = Refused(v)
      BY <1>1 DEF SyncVariable
    <2> QED BY <2>1, RefusedGives
  <1>2. CASE ~(t0 > t1 \/ Abs(t0 - v.point) > TimeDiffResolution)
    <2> /\ v.slave.phase = "stepping" /\ v.point \in Nat /\ v.point <= FromOf(v, last)
        /\ FromOf(v, last) \in Nat
        /\ v.current.time_ = v.point
      BY DEF PointInv, FromOf, OutputInv, ReadingInv
    <2> v.slave.time_ \in Int
      BY DEF SlaveOK
    <2> PICK size \in Int : size = t1 - t0
      OBVIOUS
    <2>1. PICK s \in DoStep(v.slave, v.point, size) :
             y \in IF s.returned # "OK" THEN {Failed(v, s)}
                   ELSE {[v EXCEPT !.slave = o.slave, !.point = t1, !.current = At(t1, o),
                                   !.outcome = "done", !.result = t1 + StepSize] :
                         o \in GetOutputs(s)}
      BY <1>2 DEF SyncVariable
    <2>2. /\ SlaveOK(s) /\ s.phase = "stepping" /\ (v.slave.warned => s.warned)
          /\ s.time_ = IF s.returned = "OK" THEN v.slave.time_ + size ELSE v.slave.time_
          /\ s.returned = "OK" => Abs(v.slave.time_ - v.point) <= TimeDiffResolution
      BY DoStepGives
    <2>3. CASE s.returned # "OK"
      <3>1. y = Failed(v, s)
        BY <2>1, <2>3
      <3>2. s \in SlaveRecord
        BY <2>2 DEF SlaveOK
      <3>3. /\ y \in WrapperRecord /\ y.slave = s /\ y.outcome = "failed" /\ y.result = v.point
            /\ y.kind = v.kind /\ y.ready = v.ready /\ y.point = v.point /\ y.final = v.final
            /\ y.current = v.current
        BY <3>1, <3>2, FailedGives
      <3>4. DriftOf(y) = DriftOf(v) /\ FromOf(y, t1) = v.point /\ v.point <= t1
        BY <3>3 DEF DriftOf, FromOf
      <3>5. PointInv(y, t1)
        BY <2>2, <2>3, <3>3, <3>4 DEF PointInv
      <3>6. ReadingInv(y)
        BY <2>2, <3>3, <3>4 DEF ReadingInv, OutputInv
      <3>7. Promised(y, v, t1)
        BY <3>3, <3>4 DEF Promised
      <3> QED BY <2>2, <3>3, <3>5, <3>6, <3>7 DEF Synced, OutputInv, ResultInv
    <2>4. CASE s.returned = "OK"
      <3>1. PICK o \in GetOutputs(s) :
               y = [v EXCEPT !.slave = o.slave, !.point = t1, !.current = At(t1, o),
                             !.outcome = "done", !.result = t1 + StepSize]
        BY <2>1, <2>4
      <3> PICK time \in Int : time = v.slave.time_ + size
        OBVIOUS
      <3>2. /\ SlaveOK(o.slave) /\ o.slave.phase = "stepping" /\ o.slave.time_ = time
            /\ o.real \in Int \cup {NaN} /\ o.other \in Int \cup {NaN}
            /\ ~o.slave.warned => ReadAt(o.real, time) /\ ReadAt(o.other, time)
        BY <2>2, <2>4, ReadsAt
      <3> PICK nowAt : nowAt = At(t1, o)
        OBVIOUS
      <3> PICK point \in Int : point = t1
        OBVIOUS
      <3> PICK result \in Int : result = t1 + StepSize
        BY StepSizeFmuAssumption
      <3>3. /\ nowAt \in State /\ nowAt.time_ = t1
            /\ nowAt.real = o.real /\ nowAt.other = o.other
        BY <3>2, AtType
      <3>4. y = [v EXCEPT !.slave = o.slave, !.point = point, !.current = nowAt,
                          !.outcome = "done", !.result = result]
        BY <3>1
      <3>5. o.slave \in SlaveRecord
        BY <3>2 DEF SlaveOK
      <3>6. /\ y.slave = o.slave /\ y.point = t1 /\ y.current = nowAt
            /\ y.kind = v.kind /\ y.ready = v.ready /\ y.final = v.final
            /\ y.outcome = "done" /\ y.result = result
        BY <3>4 DEF WrapperRecord
      <3>7. y \in WrapperRecord
        BY <3>3, <3>4, <3>5 DEF WrapperRecord
      <3>8. Abs(t1 - time) <= 2 * TimeDiffResolution
        BY <1>2, <2>2, <2>4, DriftBounded
      <3>9. DriftOf(y) = 2 * TimeDiffResolution /\ FromOf(y, t1) = t1
            /\ SlackOf(y) = TimeDiffResolution
        BY <3>6 DEF DriftOf, FromOf, SlackOf
      <3>10. PointInv(y, t1)
        BY <3>2, <3>6, <3>8, <3>9 DEF PointInv
      <3>11. ReadingInv(y)
        <4>1. Abs(time - t1) <= 2 * TimeDiffResolution
          BY <3>8, AbsSymmetric
        <4>2. y.current.time_ = y.point /\ y.current.real = o.real /\ y.current.other = o.other
          BY <3>3, <3>6
        <4>3. ~y.slave.warned => ReadAt(y.current.real, time) /\ ReadAt(y.current.other, time)
          BY <3>2, <3>6, <4>2
        <4> QED BY <3>6, <3>9, <4>1, <4>2, <4>3 DEF ReadingInv, ReadAt
      <3>12. ResultInv(y, t1)
        BY <3>6, <3>9, CoSimulationSlaveAssumption, StepSizeFmuAssumption
        DEF ResultInv, Resolved
      <3>13. y.current.time_ = t1 /\ v.point <= t1
        BY <3>3, <3>6
      <3>14. Promised(y, v, t1)
        <4> HIDE DEF Promised
        <4>1. y.result <= t1 + StepSize
          BY <3>6
        <4> QED BY <3>6, <3>13, <4>1 DEF Promised
      <3> QED BY <3>2, <3>6, <3>7, <3>10, <3>11, <3>12, <3>14 DEF Synced, OutputInv
    <2> QED BY <2>3, <2>4
  <1> QED BY <1>1, <1>2

LEMMA SyncGives ==
    ASSUME NEW v \in WrapperRecord, NEW last \in Nat, SlaveOK(v.slave), v.ready,
           v.kind \in {"fixed", "interpolating", "variable"},
           PointInv(v, last), OutputInv(v, last),
           NEW t0 \in Int, NEW t1 \in Nat, t1 >= FromOf(v, last), NEW y \in Sync(v, t0, t1)
    PROVE  /\ Synced(y, v, IF y.outcome = "refused" THEN last ELSE t1)
           /\ Promised(y, v, t1)
  <1>1. CASE v.kind = "fixed"
    <2>1. y \in SyncFixed(v, t0, t1)
      BY <1>1 DEF Sync
    <2> QED BY <1>1, <2>1, SyncFixedGives
  <1>2. CASE v.kind = "interpolating"
    <2>1. y \in SyncInterpolating(v, t0, t1)
      BY <1>2 DEF Sync
    <2> QED BY <1>2, <2>1, SyncInterpolatingGives
  <1>3. CASE v.kind = "variable"
    <2>1. y \in SyncVariable(v, t0, t1)
      BY <1>3 DEF Sync
    <2> QED BY <1>3, <2>1, SyncVariableGives
  <1> QED BY <1>1, <1>2, <1>3

-----------------------------------------------------------------------------
(* Inputs and iterations.                                                  *)

(* A slave whose run is the same keeps what is known of the wrapper.       *)
LEMMA SameRunSynced ==
    ASSUME NEW x, NEW v, NEW last \in Nat, Synced(x, v, last), NEW s, SameRun(x.slave, s)
    PROVE  LET y == [x EXCEPT !.slave = s]
           IN  /\ Synced(y, v, last)
               /\ y.slave = s
               /\ \A f \in {"kind", "point", "final", "current", "outcome", "result"} : y[f] = x[f]
  <1> DEFINE y == [x EXCEPT !.slave = s]
  <1>1. x \in WrapperRecord /\ x.ready /\ SlaveOK(x.slave)
        /\ PointInv(x, last) /\ OutputInv(x, last) /\ ResultInv(x, last)
    BY DEF Synced
  <1>2. SlaveOK(s) /\ s \in SlaveRecord /\ s.phase = x.slave.phase /\ s.time_ = x.slave.time_
        /\ (~s.warned => ~x.slave.warned)
    BY <1>1, SameRunKeeps DEF SameRun
  <1>3. /\ y \in WrapperRecord /\ y.slave = s
        /\ y.kind = x.kind /\ y.ready = x.ready /\ y.point = x.point /\ y.final = x.final
        /\ y.current = x.current /\ y.previous = x.previous /\ y.next = x.next
        /\ y.outcome = x.outcome /\ y.result = x.result
    BY <1>1, <1>2 DEF WrapperRecord
  <1> HIDE DEF y
  <1>4. /\ DriftOf(y) = DriftOf(x) /\ SlackOf(y) = SlackOf(x)
        /\ FromOf(y, last) = FromOf(x, last) /\ (Resolved(y) <=> Resolved(x))
    BY <1>3 DEF DriftOf, SlackOf, FromOf, Resolved
  <1>5. PointInv(y, last)
    BY <1>1, <1>2, <1>3, <1>4 DEF PointInv
  <1>6. ASSUME x.kind = "interpolating" PROVE HistoryInv(y, last)
    <2>1. HistoryInv(x, last)
      BY <1>1, <1>6 DEF OutputInv
    <2> QED BY <1>2, <1>3, <1>4, <2>1 DEF HistoryInv
  <1>7. ASSUME x.kind # "interpolating" PROVE ReadingInv(y)
    <2>1. ReadingInv(x)
      BY <1>1, <1>7 DEF OutputInv
    <2> QED BY <1>2, <1>3, <1>4, <2>1 DEF ReadingInv
  <1>8. ResultInv(y, last)
    BY <1>1, <1>3, <1>4 DEF ResultInv
  <1>9. y.kind = v.kind
    BY <1>3 DEF Synced
  <1>10. Synced(y, v, last)
    BY <1>1, <1>2, <1>3, <1>5, <1>6, <1>7, <1>8, <1>9 DEF Synced, OutputInv
  <1> QED BY <1>3, <1>10 DEF y

(* An iteration at the communication point.                                *)
LEMMA IterateOnceGives ==
    ASSUME NEW x, NEW v, NEW last \in Nat, Synced(x, v, last),
           x.kind = "interpolating" => last = x.point,
           NEW y \in IterateOnce(x)
    PROVE  /\ Synced(y, v, last)
           /\ y.kind = x.kind /\ y.ready = x.ready /\ y.point = x.point /\ y.final = x.final
           /\ y.outcome = x.outcome /\ y.result = x.result
           /\ y.current.time_ = x.point
  <1>1. x \in WrapperRecord /\ x.ready /\ SlaveOK(x.slave)
        /\ PointInv(x, last) /\ OutputInv(x, last) /\ ResultInv(x, last)
    BY DEF Synced
  <1>2. /\ x.slave.phase = "stepping" /\ x.point \in Nat /\ x.point \in Int
        /\ x.slave.time_ \in Int
    BY <1>1 DEF PointInv, SlaveOK
  <1> PICK zero \in Int : zero = 0
    OBVIOUS
  <1>2a. PICK s \in DoStep(x.slave, x.point, zero) :
            y \in {[x EXCEPT !.slave = o.slave, !.current = At(x.point, o)] : o \in GetOutputs(s)}
    BY DEF IterateOnce
  <1>3. PICK o \in GetOutputs(s) : y = [x EXCEPT !.slave = o.slave, !.current = At(x.point, o)]
    BY <1>2a
  <1>4. /\ SlaveOK(s) /\ s.phase = "stepping" /\ (x.slave.warned => s.warned)
        /\ s.time_ = IF s.returned = "OK" THEN x.slave.time_ + zero ELSE x.slave.time_
    BY <1>1, <1>2, DoStepGives
  <1>5. s.time_ = x.slave.time_
    BY <1>2, <1>4
  <1>6. /\ SlaveOK(o.slave) /\ o.slave.phase = "stepping" /\ o.slave.time_ = x.slave.time_
        /\ o.real \in Int \cup {NaN} /\ o.other \in Int \cup {NaN}
        /\ s.warned => o.slave.warned
        /\ ~o.slave.warned =>
              ReadAt(o.real, x.slave.time_) /\ ReadAt(o.other, x.slave.time_)
    BY <1>4, <1>5, ReadsAt
  <1> PICK nowAt : nowAt = At(x.point, o)
    OBVIOUS
  <1>7. /\ nowAt \in State /\ nowAt.time_ = x.point
        /\ nowAt.real = o.real /\ nowAt.other = o.other
    BY <1>2, <1>6, AtType
  <1>8. y = [x EXCEPT !.slave = o.slave, !.current = nowAt]
    BY <1>3
  <1>9. o.slave \in SlaveRecord
    BY <1>6 DEF SlaveOK
  <1>10. /\ y \in WrapperRecord /\ y.slave = o.slave /\ y.current = nowAt
         /\ y.kind = x.kind /\ y.ready = x.ready /\ y.point = x.point /\ y.final = x.final
         /\ y.previous = x.previous /\ y.next = x.next
         /\ y.outcome = x.outcome /\ y.result = x.result
    BY <1>1, <1>7, <1>8, <1>9 DEF WrapperRecord
  <1>11. /\ DriftOf(y) = DriftOf(x) /\ SlackOf(y) = SlackOf(x)
         /\ FromOf(y, last) = FromOf(x, last) /\ (Resolved(y) <=> Resolved(x))
    BY <1>10 DEF DriftOf, SlackOf, FromOf, Resolved
  <1>12. PointInv(y, last)
    BY <1>1, <1>6, <1>10, <1>11 DEF PointInv
  <1>13. Abs(x.slave.time_ - x.point) <= DriftOf(x)
    BY <1>1, <1>2, AbsSymmetric DEF PointInv
  <1>14. ASSUME x.kind = "interpolating" PROVE HistoryInv(y, last)
    <2>1. HistoryInv(x, last) /\ last = x.point
      BY <1>1, <1>14 DEF OutputInv
    <2>2. x.slave.time_ = x.point
      <3>1. x.slave.time_ - x.point \in Int /\ Abs(x.slave.time_ - x.point) <= 0
        BY <1>2, <1>13, <1>14 DEF DriftOf
      <3>2. x.slave.time_ - x.point = 0
        BY <3>1 DEF Abs
      <3> QED BY <1>2, <3>2
    <2>3. FromOf(x, last) = x.point
      BY <1>1, <2>1 DEF FromOf, PointInv
    <2>4. y.next.time_ = y.point /\ y.previous.time_ \in {y.point, y.point - StepSize}
          /\ y.current.time_ <= FromOf(y, last)
      BY <1>2, <1>7, <1>10, <1>11, <2>1, <2>3 DEF HistoryInv
    <2>5. ~y.slave.warned =>
             /\ ReadAt(y.next.real, y.point) /\ ReadAt(y.next.other, y.point)
             /\ ReadAt(y.previous.real, y.previous.time_)
      BY <1>4, <1>6, <1>10, <2>1 DEF HistoryInv
    <2>6. ~y.slave.warned =>
             ReadAt(y.current.real, y.current.time_) /\ ReadAt(y.current.other, y.current.time_)
      BY <1>6, <1>7, <1>10, <2>2
    <2>7. ~y.slave.warned /\ y.current.other # Stale => y.current.other <= y.current.time_
      BY <1>2, <1>7, <1>10, <2>6 DEF ReadAt
    <2> QED BY <2>4, <2>5, <2>6, <2>7 DEF HistoryInv
  <1>15. ReadingInv(y)
    <2>1. y.current.time_ = y.point /\ y.current.real = o.real /\ y.current.other = o.other
      BY <1>7, <1>10
    <2> QED BY <1>6, <1>10, <1>11, <1>13, <2>1 DEF ReadingInv, ReadAt
  <1>16. ResultInv(y, last)
    BY <1>1, <1>10, <1>11 DEF ResultInv
  <1>17. y.kind = v.kind
    BY <1>10 DEF Synced
  <1>18. Synced(y, v, last)
    BY <1>1, <1>6, <1>10, <1>12, <1>14, <1>15, <1>16, <1>17 DEF Synced, OutputInv
  <1> QED BY <1>7, <1>10, <1>18

(* The outputs that are read at the end of the interval are of that time;  *)
(* those of a wrapper that is not interpolating already were.              *)
LEMMA IteratedPromised ==
    ASSUME NEW z \in WrapperRecord, NEW y \in WrapperRecord, NEW v \in WrapperRecord,
           NEW t1 \in Nat, NEW end,
           Synced(z, v, end), Promised(z, v, t1), z.point = t1,
           y.outcome = z.outcome, y.kind = z.kind, y.final = z.final, y.result = z.result,
           y.current.time_ = z.point
    PROVE  Promised(y, v, t1)
  <1>1. v.current.time_ \in Int /\ z.current.time_ \in Int /\ z.point \in Int /\ z.result \in Int
    BY DEF WrapperRecord, State
  <1>2. z.kind # "interpolating" => z.current.time_ = z.point
    BY DEF Synced, OutputInv, ReadingInv
  <1>3. z.outcome = "failed" => z.result = z.point
    BY DEF Synced, PointInv
  <1>4. z.current.time_ <= t1
    BY <1>1, <1>2, <1>3 DEF Promised
  <1> QED BY <1>1, <1>2, <1>3, <1>4 DEF Promised

LEMMA SyncWithInputsGives ==
    ASSUME NEW v \in WrapperRecord, NEW last \in Nat, SlaveOK(v.slave), v.ready,
           v.kind \in {"fixed", "interpolating", "variable"},
           PointInv(v, last), OutputInv(v, last),
           NEW t0 \in Int, NEW t1 \in Nat, t1 >= FromOf(v, last), NEW value \in Values,
           NEW iterate, NEW y \in SyncWithInputs(v, t0, t1, value, iterate)
    PROVE  /\ Synced(y, v, IF y.outcome = "refused" THEN last ELSE t1)
           /\ Promised(y, v, t1)
  <1>0. PICK x \in Sync(v, t0, t1) :
           y \in UNION {IF iterate /\ t1 = x.point THEN IterateOnce([x EXCEPT !.slave = s])
                        ELSE {[x EXCEPT !.slave = s]} : s \in SetInputs(x.slave, value)}
    BY DEF SyncWithInputs
  <1>1. PICK s \in SetInputs(x.slave, value) :
           y \in IF iterate /\ t1 = x.point THEN IterateOnce([x EXCEPT !.slave = s])
                 ELSE {[x EXCEPT !.slave = s]}
    BY <1>0
  <1>1a. PICK end \in Nat : end = IF x.outcome = "refused" THEN last ELSE t1
    OBVIOUS
  <1>2. Synced(x, v, end) /\ Promised(x, v, t1)
    BY <1>1a, SyncGives
  <1>3. x.slave \in SlaveRecord
    BY <1>2 DEF Synced, SlaveOK
  <1>4. SameRun(x.slave, s)
    BY <1>3, SetInputsGives
  <1>4a. PICK z : z = [x EXCEPT !.slave = s]
    OBVIOUS
  <1>5. /\ Synced(z, v, end) /\ z.outcome = x.outcome /\ z.point = x.point
        /\ z.kind = x.kind /\ z.final = x.final /\ z.current = x.current /\ z.result = x.result
    BY <1>2, <1>4, <1>4a, SameRunSynced
  <1>5a. Promised(z, v, t1)
    BY <1>2, <1>5 DEF Promised
  <1>6. z.kind = "interpolating" => z.outcome # "refused"
    BY <1>5 DEF Synced, PointInv
  <1>7. CASE iterate /\ t1 = x.point
    <2>1. y \in IterateOnce(z)
      BY <1>1, <1>4a, <1>7
    <2>2. z.kind = "interpolating" => end = z.point
      BY <1>1a, <1>5, <1>6, <1>7
    <2>3. /\ Synced(y, v, end) /\ y.outcome = z.outcome /\ y.kind = z.kind
          /\ y.final = z.final /\ y.result = z.result /\ y.current.time_ = z.point
      BY <1>5, <2>1, <2>2, IterateOnceGives
    <2>4. z \in WrapperRecord /\ y \in WrapperRecord
      BY <1>5, <2>3 DEF Synced
    <2>5. z.point = t1 /\ Synced(z, v, end)
      BY <1>5, <1>7
    <2>6. Promised(y, v, t1)
      BY <1>5a, <2>3, <2>4, <2>5, IteratedPromised
    <2> QED BY <1>1a, <1>5, <2>3, <2>6
  <1>8. CASE ~(iterate /\ t1 = x.point)
    <2>1. y = z
      BY <1>1, <1>4a, <1>8
    <2> QED BY <1>1a, <1>5, <1>5a, <2>1
  <1> QED BY <1>7, <1>8

-----------------------------------------------------------------------------
(* What a program sets and gets.                                           *)

(* A call that set the variables of refs to value, or none: of an array of *)
(* Booleans, which no numeric variable is in, the values are anything.     *)
SetOf(s, r, refs, value) ==
    /\ SameRun(s, r)
    /\ ~Works(r.returned) => r.var = s.var
    /\ Works(r.returned) =>
          /\ \A x \in Refs \ refs : r.var[x] = s.var[x]
          /\ \A x \in Refs \cap refs : Numeric(x) => r.var[x] = value

LEMMA SetByNameSets ==
    ASSUME NEW s \in SlaveRecord, NEW name, NEW value \in Values,
           NEW r \in SetValueByName(s, name, value)
    PROVE  SetOf(s, r, {GetValueRef(name)}, value)
  <1>1. /\ SameRun(s, r)
        /\ r.var = IF Works(r.returned)
                   THEN [x \in Refs |-> IF x = GetValueRef(name) THEN value ELSE s.var[x]]
                   ELSE s.var
    BY SetByNameGives
  <1>2. Works(r.returned) => \A x \in Refs : r.var[x] = IF x = GetValueRef(name) THEN value ELSE s.var[x]
    BY <1>1
  <1> QED BY <1>1, <1>2 DEF SetOf

(* The variables of a list of another type are not numeric.                *)
LEMMA ListedTypes ==
    ASSUME NEW refs \in Seq(Int), NEW type \in {"Boolean", "String"},
           \A i \in DOMAIN refs, j \in DOMAIN Description :
              Description[j].ref = refs[i] => Description[j].type = type,
           NEW x \in Refs, NEW i \in DOMAIN refs, refs[i] = x
    PROVE  ~Numeric(x)
  <1>1. TypeOfRef(x) \in DOMAIN Description /\ Description[TypeOfRef(x)].ref = x
    BY DEF Refs, TypeOfRef
  <1>2. Description[TypeOfRef(x)].type = type
    BY <1>1
  <1> QED BY <1>2 DEF Numeric

LEMMA SetArraySets ==
    ASSUME NEW s \in SlaveRecord, NEW refs \in Seq(Int), refs # <<>>, NEW type,
           \A i \in DOMAIN refs, j \in DOMAIN Description :
              Description[j].ref = refs[i] => Description[j].type = type,
           NEW value \in Values,
           NEW r \in SetValueArray(s, refs, [i \in DOMAIN refs |-> value], type)
    PROVE  SetOf(s, r, {refs[i] : i \in DOMAIN refs}, value)
  <1> DEFINE set == {refs[i] : i \in DOMAIN refs}
             same == [i \in DOMAIN refs |-> value]
  <1>1. 1 \in DOMAIN refs /\ same[1] = value
    OBVIOUS
  <1>2. ASSUME NEW values, DOMAIN values = set, r \in SetRefs(s, values),
               set \subseteq Refs =>
                  \A x \in set : values[x] \in Values /\ (Numeric(x) => values[x] = value)
        PROVE  SetOf(s, r, set, value)
    <2>1. CASE set \subseteq Refs
      <3>1. \A x \in DOMAIN values : values[x] \in Values
        BY <1>2, <2>1
      <3>2. /\ SameRun(s, r)
            /\ r.var = IF Works(r.returned)
                       THEN [x \in Refs |-> IF x \in DOMAIN values THEN values[x] ELSE s.var[x]]
                       ELSE s.var
        BY <1>2, <3>1, SetRefsGives
      <3> HIDE DEF set
      <3> QED BY <1>2, <2>1, <3>2 DEF SetOf
    <2>2. CASE ~(set \subseteq Refs)
      <3>1. r = Returns(s, "Error")
        BY <1>2, <2>2 DEF SetRefs
      <3> QED BY <3>1, ReturnsSameRun DEF SetOf, Works, Statuses
    <2> QED BY <2>1, <2>2
  <1>3. CASE type = "Boolean"
    <2>1. PICK garbage \in [Refs \cup {UndefinedRef} -> Values] :
             r \in SetRefs(s, [x \in set |-> IF x = refs[1] THEN same[1] ELSE garbage[x]])
      BY <1>3 DEF SetValueArray
    <2> DEFINE values == [x \in set |-> IF x = refs[1] THEN same[1] ELSE garbage[x]]
    <2>2. DOMAIN values = set /\ r \in SetRefs(s, values)
      BY <2>1
    <2>3. \A x \in set : x \in Refs => ~Numeric(x)
      <3>1. ASSUME NEW i \in DOMAIN refs, refs[i] \in Refs PROVE ~Numeric(refs[i])
        BY <1>3, <3>1, ListedTypes
      <3> QED BY <3>1
    <2>4. set \subseteq Refs => \A x \in set : values[x] \in Values
      BY <1>1
    <2> HIDE DEF values, set, same
    <2>5. set \subseteq Refs =>
             \A x \in set : values[x] \in Values /\ (Numeric(x) => values[x] = value)
      BY <2>3, <2>4
    <2> QED BY <1>2, <2>2, <2>5 DEF set
  <1>4. CASE type # "Boolean"
    <2> DEFINE values == [x \in set |-> same[CHOOSE i \in DOMAIN refs : refs[i] = x]]
    <2>1. DOMAIN values = set /\ r \in SetRefs(s, values)
      BY <1>4 DEF SetValueArray
    <2>2. \A x \in set : values[x] = value
      <3>1. ASSUME NEW x \in set PROVE (CHOOSE i \in DOMAIN refs : refs[i] = x) \in DOMAIN refs
        OBVIOUS
      <3> QED BY <3>1
    <2> HIDE DEF values, set, same
    <2>3. set \subseteq Refs =>
             \A x \in set : values[x] \in Values /\ (Numeric(x) => values[x] = value)
      BY <2>2
    <2> QED BY <1>2, <2>1, <2>3 DEF set
  <1> QED BY <1>3, <1>4

(* A call that got the values of variables, if it worked.                  *)
GotOf(s, o) ==
    /\ SlaveOK(o.slave)
    /\ o.slave.var = s.var
    /\ Works(o.slave.returned) =>
          /\ \E refs \in SUBSET Refs : o.got \in [refs -> Values \cup {NaN}]
          /\ \A r \in DOMAIN o.got \cap Refs : Numeric(r) => o.got[r] = s.var[r]

LEMMA GetRefsGets ==
    ASSUME NEW s, SlaveOK(s), NEW refs, NEW o \in GetRefs(s, refs, NaN)
    PROVE  /\ SlaveOK(o.slave) /\ o.slave.var = s.var
           /\ Works(o.slave.returned) => refs \subseteq Refs /\ o.got = [r \in refs |-> s.var[r]]
  <1> s \in SlaveRecord
    BY DEF SlaveOK
  <1>1. CASE refs \subseteq Refs
    <2>1. PICK status \in FmuStatuses :
             o = [slave |-> Returns(s, status),
                  got |-> [r \in refs |-> IF Works(status) THEN s.var[r] ELSE NaN]]
      BY <1>1 DEF GetRefs
    <2>2. o.slave = Returns(s, status)
          /\ o.got = [r \in refs |-> IF Works(status) THEN s.var[r] ELSE NaN]
      BY <2>1
    <2>3. SameRun(s, o.slave) /\ o.slave.var = s.var /\ o.slave.returned = status
      BY <2>2, ReturnsSameRun, FmuStatusesTypes
    <2>4. Works(status) => o.got = [r \in refs |-> s.var[r]]
      BY <2>2
    <2> QED BY <1>1, <2>3, <2>4, SameRunKeeps
  <1>2. CASE ~(refs \subseteq Refs)
    <2>1. o = [slave |-> Returns(s, "Error"), got |-> [r \in refs |-> NaN]]
      BY <1>2 DEF GetRefs
    <2>2. o.slave = Returns(s, "Error")
      BY <2>1
    <2>3. SameRun(s, o.slave) /\ o.slave.var = s.var /\ o.slave.returned = "Error"
      BY <2>2, ReturnsSameRun DEF Statuses
    <2> QED BY <2>3, SameRunKeeps DEF Works
  <1> QED BY <1>1, <1>2

LEMMA GetRefsGot ==
    ASSUME NEW s, SlaveOK(s), NEW refs, NEW o \in GetRefs(s, refs, NaN)
    PROVE  GotOf(s, o)
  <1>1. /\ SlaveOK(o.slave) /\ o.slave.var = s.var
        /\ Works(o.slave.returned) => refs \subseteq Refs /\ o.got = [r \in refs |-> s.var[r]]
    BY GetRefsGets
  <1>2. s.var \in [Refs -> Values]
    BY DEF SlaveOK, SlaveRecord
  <1>3. ASSUME Works(o.slave.returned)
        PROVE  /\ refs \in SUBSET Refs /\ o.got \in [refs -> Values \cup {NaN}]
               /\ \A r \in DOMAIN o.got \cap Refs : Numeric(r) => o.got[r] = s.var[r]
    BY <1>1, <1>2, <1>3
  <1> QED BY <1>1, <1>3 DEF GotOf

LEMMA GetByNameGot ==
    ASSUME NEW s, SlaveOK(s), NEW name, NEW o \in GetValueByName(s, name, NaN)
    PROVE  GotOf(s, o)
  <1>1. CASE name \in Described
    <2>1. o \in GetRefs(s, {VarMap[name]}, NaN)
      BY <1>1 DEF GetValueByName, GetValueByRef
    <2> QED BY <2>1, GetRefsGot
  <1>2. CASE name \notin Described
    <2>1. o = [slave |-> Returns(s, "Discard"), got |-> <<>>]
      BY <1>2 DEF GetValueByName
    <2>2. o.slave = Returns(s, "Discard") /\ s \in SlaveRecord
      BY <2>1 DEF SlaveOK
    <2>3. SameRun(s, o.slave) /\ o.slave.var = s.var /\ o.slave.returned = "Discard"
      BY <2>2, ReturnsSameRun DEF Statuses
    <2> QED BY <2>3, SameRunKeeps DEF GotOf, Works
  <1> QED BY <1>1, <1>2

LEMMA GetNamedGot ==
    ASSUME NEW s, SlaveOK(s), NEW name, NEW type, NEW o \in GetNamedValue(s, name, type)
    PROVE  GotOf(s, o)
  <1>1. CASE name \in Described
    <2>1. o \in GetRefs(s, {VarMap[name]}, NaN)
      BY <1>1 DEF GetNamedValue, GetValueByRef
    <2> QED BY <2>1, GetRefsGot
  <1>2. CASE name \notin Described
    <2>0. PICK r : r = Returns(s, "Discard")
      OBVIOUS
    <2>1. s \in SlaveRecord
      BY DEF SlaveOK
    <2>2. SameRun(s, r) /\ r.var = s.var /\ r.returned = "Discard"
      BY <2>0, <2>1, ReturnsSameRun DEF Statuses
    <2>3. SlaveOK(r) /\ r \in SlaveRecord
      BY <2>2, SameRunKeeps DEF SameRun
    <2>9. o = [slave |-> [Returns(s, "Discard") EXCEPT
                            !.phase = IF type = "String" THEN "ended by exception" ELSE @],
               got |-> <<>>]
      BY <1>2, Zenon DEF GetNamedValue
    <2>4. o.slave = [r EXCEPT !.phase = IF type = "String" THEN "ended by exception" ELSE @]
      BY <2>0, <2>9, Zenon
    <2>5. CASE type = "String"
      <3>1. o.slave = [r EXCEPT !.phase = "ended by exception"]
        BY <2>4, <2>5
      <3>2. /\ o.slave \in SlaveRecord /\ o.slave.phase = "ended by exception"
            /\ o.slave.var = r.var /\ o.slave.returned = r.returned
        BY <2>3, <3>1 DEF SlaveRecord
      <3> QED BY <2>2, <3>2 DEF GotOf, SlaveOK, Works
    <2>6. CASE type # "String"
      <3>1. o.slave = r
        BY <2>3, <2>4, <2>6 DEF SlaveRecord
      <3> QED BY <2>2, <2>3, <3>1 DEF GotOf, Works
    <2> QED BY <2>5, <2>6
  <1> QED BY <1>1, <1>2

LEMMA GetArrayGot ==
    ASSUME NEW s, SlaveOK(s), NEW refs \in Seq(Int), NEW type,
           \A i \in DOMAIN refs, j \in DOMAIN Description :
              Description[j].ref = refs[i] => Description[j].type = type,
           NEW o \in GetValueArray(s, {refs[i] : i \in DOMAIN refs}, NaN, type)
    PROVE  GotOf(s, o)
  <1> DEFINE set == {refs[i] : i \in DOMAIN refs}
  <1>1. CASE type \in {"Boolean", "String"}
    <2>1. PICK g \in GetRefs(s, set, NaN) : o = [slave |-> g.slave, got |-> [r \in set |-> NaN]]
      BY <1>1 DEF GetValueArray
    <2>2. o.slave = g.slave /\ o.got = [r \in set |-> NaN]
      BY <2>1
    <2>3. \A x \in set : x \in Refs => ~Numeric(x)
      <3>1. ASSUME NEW i \in DOMAIN refs, refs[i] \in Refs PROVE ~Numeric(refs[i])
        BY <1>1, <3>1, ListedTypes
      <3> QED BY <3>1
    <2> HIDE DEF set
    <2>4. /\ SlaveOK(g.slave) /\ g.slave.var = s.var
          /\ Works(g.slave.returned) => set \subseteq Refs
      BY GetRefsGets
    <2>5. ASSUME Works(o.slave.returned)
          PROVE  /\ set \in SUBSET Refs /\ o.got \in [set -> Values \cup {NaN}]
                 /\ \A r \in DOMAIN o.got \cap Refs : Numeric(r) => o.got[r] = s.var[r]
      BY <2>2, <2>3, <2>4, <2>5
    <2> QED BY <2>2, <2>4, <2>5 DEF GotOf
  <1>2. CASE type \notin {"Boolean", "String"}
    <2>1. o \in GetRefs(s, set, NaN)
      BY <1>2 DEF GetValueArray
    <2> HIDE DEF set
    <2> QED BY <2>1, GetRefsGot
  <1> QED BY <1>1, <1>2

-----------------------------------------------------------------------------
(* The invariant holds initially.                                          *)

LEMMA NothingKnown ==
    /\ Nothing \in [Refs -> Values \cup {NaN}]
    /\ \A r \in Refs : Nothing[r] = NaN
  BY DEF Nothing

LEMMA Constructed ==
    ASSUME NEW version \in {1, 2}, NEW status \in Statuses
    PROVE  SlaveOK(Construct(version, status))
  <1>1. PICK start \in [Refs -> Values] : start = [r \in Refs |-> StartValue]
    BY CoSimulationSlaveAssumption
  <1> PICK zero \in Int : zero = 0
    OBVIOUS
  <1> PICK loaded \in BOOLEAN : loaded = (status # "Fatal")
    OBVIOUS
  <1>2. Construct(version, status) =
           [version |-> version, loaded |-> loaded, instance_ |-> "null", time_ |-> NaN,
            lastStatus_ |-> status, returned |-> status, phase |-> "none",
            warned |-> FALSE, fmuTime |-> zero, var |-> start]
    BY <1>1, Zenon DEF Construct
  <1>3. Construct(version, status) \in SlaveRecord /\ Construct(version, status).phase = "none"
    BY <1>2 DEF SlaveRecord, Statuses
  <1> QED BY <1>3 DEF SlaveOK

LEMMA WrapperConstructed ==
    ASSUME NEW kind \in Kinds, NEW version \in {1, 2}
    PROVE  LET v == ConstructWrapper(kind, version)
           IN  /\ v \in WrapperRecord /\ v.kind = kind /\ ~v.ready
               /\ SlaveOK(v.slave)
  <1> PICK zero \in Int : zero = 0
    OBVIOUS
  <1> PICK nothing : nothing = [time_ |-> zero, real |-> zero, other |-> zero]
    OBVIOUS
  <1>1. nothing \in State
    BY DEF State
  <1> PICK s : s = Construct(version, "OK")
    OBVIOUS
  <1>2. SlaveOK(s) /\ s \in SlaveRecord
    BY Constructed DEF SlaveOK, Statuses
  <1>3. ConstructWrapper(kind, version) =
           [kind |-> kind, slave |-> s, ready |-> FALSE, point |-> zero,
            final |-> zero, current |-> nothing, previous |-> nothing, next |-> nothing,
            outcome |-> "none", result |-> zero]
    BY Zenon DEF ConstructWrapper
  <1>4. ConstructWrapper(kind, version) \in WrapperRecord
    BY <1>1, <1>2, <1>3 DEF WrapperRecord
  <1>5. /\ ConstructWrapper(kind, version).kind = kind
        /\ ConstructWrapper(kind, version).slave = s
        /\ ~ConstructWrapper(kind, version).ready
    BY <1>3
  <1> QED BY <1>2, <1>4, <1>5

(* A program uses a wrapper of one of the kinds; direct use is none.       *)
LEMMA UsersKinds == Users \subseteq Kinds
  BY CoSimulationAssumption

LEMMA InitInv ==
    ASSUME Init
    PROVE  CoSimulationInv
  <1>1. PICK kind \in Users, version \in {1, 2}, status \in ConstructStatuses :
           w = IF kind = "direct"
               THEN [ConstructWrapper(kind, version) EXCEPT !.slave = Construct(version, status)]
               ELSE ConstructWrapper(kind, version)
    BY DEF Init
  <1>2. exists = TRUE /\ lastT1 = 0 /\ known = Nothing /\ got = <<>>
    BY DEF Init
  <1> PICK v : v = ConstructWrapper(kind, version)
    OBVIOUS
  <1>3. v \in WrapperRecord /\ v.kind = kind /\ ~v.ready /\ SlaveOK(v.slave)
    BY WrapperConstructed, UsersKinds
  <1> PICK s : s = Construct(version, status)
    OBVIOUS
  <1>4. SlaveOK(s) /\ s \in SlaveRecord
    BY Constructed, CoSimulationAssumption DEF SlaveOK
  <1>5. w = [v EXCEPT !.slave = s] \/ w = v
    BY <1>1
  <1>6. w \in WrapperRecord /\ w.kind = kind /\ ~w.ready /\ SlaveOK(w.slave)
    BY <1>3, <1>4, <1>5 DEF WrapperRecord
  <1>7. TypeOK
    BY <1>2, <1>6, NothingKnown DEF TypeOK
  <1>8. AccessInv
    BY <1>2, NothingKnown DEF AccessInv
  <1> QED BY <1>2, <1>6, <1>7, <1>8 DEF CoSimulationInv, ReadyInv, slave

-----------------------------------------------------------------------------
(* Direct use keeps the invariant.                                         *)

GotType(g) ==
    g = <<>> \/ \E refs \in SUBSET (Refs \cup {UndefinedRef}) : g \in [refs -> Values \cup {NaN}]

LEMMA DirectKeeps ==
    ASSUME CoSimulationInv, Direct, NEW s, SlaveOK(s), BecomesSlave(s),
           known' \in [Refs -> Values \cup {NaN}], GotType(got'),
           \A r \in Refs : Numeric(r) /\ known'[r] # NaN => s.var[r] = known'[r],
           \A r \in DOMAIN got' \cap Refs : Numeric(r) => got'[r] = s.var[r]
    PROVE  CoSimulationInv'
  <1>1. w \in WrapperRecord /\ w.kind = "direct" /\ ~w.ready /\ w.kind \in Users
    BY DEF CoSimulationInv, TypeOK, Direct
  <1>2. w' = [w EXCEPT !.slave = s] /\ exists' = exists /\ lastT1' = lastT1
    BY DEF BecomesSlave
  <1>3. s \in SlaveRecord
    BY DEF SlaveOK
  <1>4. w' \in WrapperRecord /\ w'.kind = "direct" /\ ~w'.ready /\ w'.slave = s
    BY <1>1, <1>2, <1>3 DEF WrapperRecord
  <1>5. TypeOK'
    BY <1>2, <1>4 DEF TypeOK, CoSimulationInv, GotType
  <1>6. AccessInv'
    BY <1>4 DEF AccessInv, slave, Numeric, TypeOfRef
  <1>7. SlaveOK(slave)'
    BY <1>4 DEF slave, SlaveOK
  <1>8. ReadyInv(w, lastT1)'
    BY <1>4 DEF ReadyInv
  <1> QED BY <1>1, <1>4, <1>5, <1>6, <1>7, <1>8 DEF CoSimulationInv

LEMMA InstantiateKeeps ==
    ASSUME CoSimulationInv, CallInstantiate
    PROVE  CoSimulationInv'
  <1>1. PICK s \in Instantiate(slave) : BecomesSlave(s)
    BY DEF CallInstantiate
  <1>2. SlaveOK(s)
    BY Instantiated DEF CoSimulationInv
  <1>3. known' = Nothing /\ got' = <<>> /\ Direct
    BY DEF CallInstantiate
  <1> QED BY <1>1, <1>2, <1>3, NothingKnown, DirectKeeps DEF GotType

(* A call that changes no variable.                                        *)
LEMMA RunKeeps ==
    ASSUME CoSimulationInv, Direct, NEW s, SlaveOK(s), BecomesSlave(s), s.var = slave.var,
           UNCHANGED <<known, got>>
    PROVE  CoSimulationInv'
  <1>1. known \in [Refs -> Values \cup {NaN}] /\ GotType(got) /\ AccessInv
    BY DEF CoSimulationInv, TypeOK, GotType
  <1> QED BY <1>1, DirectKeeps DEF AccessInv

LEMMA InitializeKeeps ==
    ASSUME CoSimulationInv, NEW tStart \in StartTimes, CallInitialize(tStart)
    PROVE  CoSimulationInv'
  <1>1. PICK s \in Initialize(slave, tStart) : BecomesSlave(s)
    BY DEF CallInitialize
  <1>2. SlaveOK(slave) /\ slave.phase \in {"instantiated", "initializing"} /\ tStart \in Int
    BY CoSimulationAssumption DEF CoSimulationInv, CallInitialize, Usable
  <1>3. SlaveOK(s) /\ s.var = slave.var
    BY <1>2, InitializedGives
  <1> QED BY <1>1, <1>3, RunKeeps DEF CallInitialize

LEMMA DoStepKeeps ==
    ASSUME CoSimulationInv, NEW point \in Int, NEW size \in Int, CallDoStep(point, size)
    PROVE  CoSimulationInv'
  <1>1. PICK s \in DoStep(slave, point, size) : BecomesSlave(s)
    BY DEF CallDoStep
  <1>2. SlaveOK(slave) /\ slave.phase = "stepping"
    BY DEF CoSimulationInv, CallDoStep
  <1>3. SlaveOK(s) /\ s.var = slave.var
    BY <1>2, DoStepGives
  <1> QED BY <1>1, <1>3, RunKeeps DEF CallDoStep

LEMMA TerminateKeeps ==
    ASSUME CoSimulationInv, CallTerminate
    PROVE  CoSimulationInv'
  <1>1. SlaveOK(Terminate(slave)) /\ Terminate(slave).var = slave.var
    BY Terminated DEF CoSimulationInv
  <1> QED BY <1>1, RunKeeps DEF CallTerminate

LEMMA SetKeeps ==
    ASSUME CoSimulationInv, Direct, NEW outcomes, NEW refs, NEW value \in Values,
           Set(outcomes, refs, value),
           \A s \in outcomes : SetOf(slave, s, refs, value)
    PROVE  CoSimulationInv'
  <1>1. PICK s \in outcomes :
           /\ BecomesSlave(s)
           /\ known' = [r \in Refs |-> IF r \in refs /\ Works(s.returned) THEN value ELSE known[r]]
           /\ got' = <<>>
    BY DEF Set
  <1>2. SetOf(slave, s, refs, value) /\ SlaveOK(slave) /\ AccessInv
        /\ known \in [Refs -> Values \cup {NaN}]
    BY DEF CoSimulationInv, TypeOK
  <1>3. SlaveOK(s)
    BY <1>2, SameRunKeeps DEF SetOf
  <1>4. known' \in [Refs -> Values \cup {NaN}]
    BY <1>1, <1>2
  <1>5. ASSUME NEW r \in Refs, Numeric(r), known'[r] # NaN
        PROVE  s.var[r] = known'[r]
    <2>1. CASE ~Works(s.returned)
      <3>1. known'[r] = known[r] /\ s.var = slave.var
        BY <1>1, <1>2, <2>1 DEF SetOf
      <3> QED BY <1>2, <1>5, <3>1 DEF AccessInv
    <2>2. CASE Works(s.returned) /\ r \in refs
      <3>1. known'[r] = value
        BY <1>1, <2>2
      <3> QED BY <1>2, <1>5, <2>2, <3>1 DEF SetOf
    <2>3. CASE Works(s.returned) /\ r \notin refs
      <3>1. known'[r] = known[r] /\ s.var[r] = slave.var[r]
        BY <1>1, <1>2, <2>3 DEF SetOf
      <3> QED BY <1>2, <1>5, <3>1 DEF AccessInv
    <2> QED BY <2>1, <2>2, <2>3
  <1>6. DOMAIN got' = {} /\ GotType(got')
    BY <1>1 DEF GotType
  <1> QED BY <1>1, <1>3, <1>4, <1>5, <1>6, DirectKeeps

LEMMA GotKeeps ==
    ASSUME CoSimulationInv, Direct, NEW outcomes, Got(outcomes),
           \A o \in outcomes : GotOf(slave, o)
    PROVE  CoSimulationInv'
  <1>1. PICK o \in outcomes :
           /\ BecomesSlave(o.slave)
           /\ got' = IF Works(o.slave.returned) THEN o.got ELSE <<>>
           /\ known' = known
    BY DEF Got
  <1>2. GotOf(slave, o) /\ AccessInv /\ known \in [Refs -> Values \cup {NaN}]
    BY DEF CoSimulationInv, TypeOK
  <1>3. SlaveOK(o.slave) /\ o.slave.var = slave.var
    BY <1>2 DEF GotOf
  <1>4. \A r \in Refs : Numeric(r) /\ known'[r] # NaN => o.slave.var[r] = known'[r]
    BY <1>1, <1>2, <1>3 DEF AccessInv
  <1>5. GotType(got') /\ \A r \in DOMAIN got' \cap Refs : Numeric(r) => got'[r] = o.slave.var[r]
    <2>1. CASE Works(o.slave.returned)
      <3>1. got' = o.got
        BY <1>1, <2>1
      <3> QED BY <1>2, <1>3, <2>1, <3>1 DEF GotOf, GotType
    <2>2. CASE ~Works(o.slave.returned)
      <3>1. got' = <<>> /\ DOMAIN got' = {}
        BY <1>1, <2>2
      <3> QED BY <3>1 DEF GotType
    <2> QED BY <2>1, <2>2
  <1>6. known' \in [Refs -> Values \cup {NaN}]
    BY <1>1, <1>2
  <1> QED BY <1>1, <1>3, <1>4, <1>5, <1>6, DirectKeeps

(* What the program asks the object for, of the parts of Next.             *)
LEMMA AccessKeeps ==
    ASSUME CoSimulationInv,
           \/ \E name \in Names, value \in Values : SetVariable(name, value)
           \/ \E array \in Arrays, value \in Values : SetVariables(array.refs, array.type, value)
           \/ \E name \in Names : GetVariable(name) \/ GetNamedVariable(name)
           \/ \E array \in Arrays : GetVariables(array.refs, array.type)
    PROVE  CoSimulationInv'
  <1>1. SlaveOK(slave) /\ slave \in SlaveRecord
    BY DEF CoSimulationInv, SlaveOK
  <1>2. ASSUME NEW name, NEW value \in Values, SetVariable(name, value)
        PROVE  CoSimulationInv'
    <2>1. \A s \in SetValueByName(slave, name, value) :
             SetOf(slave, s, {GetValueRef(name)}, value)
      BY <1>1, SetByNameSets
    <2>2. Direct /\ Set(SetValueByName(slave, name, value), {GetValueRef(name)}, value)
      BY <1>2 DEF SetVariable
    <2> QED BY <2>1, <2>2, SetKeeps
  <1>3. ASSUME NEW array \in Arrays, NEW value \in Values,
               SetVariables(array.refs, array.type, value)
        PROVE  CoSimulationInv'
    <2> PICK refs : refs = array.refs
      OBVIOUS
    <2> PICK type : type = array.type
      OBVIOUS
    <2>1. /\ refs \in Seq(Int) /\ refs # <<>>
          /\ \A i \in DOMAIN refs, j \in DOMAIN Description :
                Description[j].ref = refs[i] => Description[j].type = type
      BY CoSimulationAssumption
    <2>2. \A s \in SetValueArray(slave, refs, [i \in DOMAIN refs |-> value], type) :
             SetOf(slave, s, {refs[i] : i \in DOMAIN refs}, value)
      BY <1>1, <2>1, SetArraySets
    <2>3. Direct /\ Set(SetValueArray(slave, refs, [i \in DOMAIN refs |-> value], type),
                        {refs[i] : i \in DOMAIN refs}, value)
      BY <1>3 DEF SetVariables
    <2> QED BY <2>2, <2>3, SetKeeps
  <1>4. ASSUME NEW name, GetVariable(name)
        PROVE  CoSimulationInv'
    <2>1. \A o \in GetValueByName(slave, name, NaN) : GotOf(slave, o)
      BY <1>1, GetByNameGot
    <2>2. Direct /\ Got(GetValueByName(slave, name, NaN))
      BY <1>4 DEF GetVariable
    <2> QED BY <2>1, <2>2, GotKeeps
  <1>5. ASSUME NEW name, GetNamedVariable(name)
        PROVE  CoSimulationInv'
    <2>1. \A o \in GetNamedValue(slave, name, GetType(slave, name)) : GotOf(slave, o)
      BY <1>1, GetNamedGot
    <2>2. Direct /\ Got(GetNamedValue(slave, name, GetType(slave, name)))
      BY <1>5 DEF GetNamedVariable
    <2> QED BY <2>1, <2>2, GotKeeps
  <1>6. ASSUME NEW array \in Arrays, GetVariables(array.refs, array.type)
        PROVE  CoSimulationInv'
    <2> PICK refs : refs = array.refs
      OBVIOUS
    <2> PICK type : type = array.type
      OBVIOUS
    <2>1. /\ refs \in Seq(Int)
          /\ \A i \in DOMAIN refs, j \in DOMAIN Description :
                Description[j].ref = refs[i] => Description[j].type = type
      BY CoSimulationAssumption
    <2>2. \A o \in GetValueArray(slave, {refs[i] : i \in DOMAIN refs}, NaN, type) :
             GotOf(slave, o)
      BY <1>1, <2>1, GetArrayGot
    <2>3. Direct /\ Got(GetValueArray(slave, {refs[i] : i \in DOMAIN refs}, NaN, type))
      BY <1>6 DEF GetVariables
    <2> QED BY <2>2, <2>3, GotKeeps
  <1> QED BY <1>2, <1>3, <1>4, <1>5, <1>6

-----------------------------------------------------------------------------
(* Use of a wrapper keeps the invariant.                                   *)

LEMMA BecomesKeeps ==
    ASSUME CoSimulationInv, Wrapped, NEW v, NEW t1 \in Nat, Becomes(v, t1),
           v \in WrapperRecord, v.kind = w.kind, SlaveOK(v.slave),
           v.ready => Synced(v, w, IF v.outcome = "refused" THEN lastT1 ELSE t1)
    PROVE  CoSimulationInv'
  <1> PICK last : last = IF v.outcome = "refused" THEN lastT1 ELSE t1
    OBVIOUS
  <1>1. last \in Nat
    BY DEF CoSimulationInv, TypeOK
  <1> PICK s : s = [v.slave EXCEPT !.returned = v.slave.lastStatus_]
    OBVIOUS
  <1>2. w' = [v EXCEPT !.slave = s] /\ lastT1' = last /\ UNCHANGED <<exists, known, got>>
    BY DEF Becomes
  <1>3. SameRun(v.slave, s)
    BY DEF SameRun, SlaveRecord, SlaveOK
  <1>a. SlaveOK(s)
    BY <1>3, SameRunKeeps
  <1>4. SlaveOK(s) /\ s \in SlaveRecord
    BY <1>a DEF SlaveOK
  <1>5. w' \in WrapperRecord /\ w'.kind = w.kind /\ w'.slave = s /\ w'.ready = v.ready
    BY <1>2, <1>4 DEF WrapperRecord
  <1>6. v.ready => Synced(w', w, last)
    <2>1. ASSUME v.ready PROVE Synced([v EXCEPT !.slave = s], w, last)
      BY <1>1, <1>3, <2>1, SameRunSynced
    <2> QED BY <1>2, <2>1
  <1>7. ReadyInv(w, lastT1)' /\ (w.ready => ResultInv(w, lastT1))'
    <2>1. ASSUME w'.ready
          PROVE  PointInv(w', last) /\ OutputInv(w', last) /\ ResultInv(w', last)
      BY <1>5, <1>6, <2>1 DEF Synced
    <2>2. PointInv(w', lastT1') /\ OutputInv(w', lastT1') /\ ResultInv(w', lastT1')
             <=> (PointInv(w, lastT1) /\ OutputInv(w, lastT1) /\ ResultInv(w, lastT1))'
      OBVIOUS
    <2> QED BY <1>2, <2>1, <2>2 DEF ReadyInv
  <1>8. known' = Nothing /\ got' = <<>> /\ w'.kind # "direct" /\ w'.kind \in Users
    BY <1>2, <1>5 DEF CoSimulationInv, Wrapped
  <1>9. TypeOK'
    BY <1>1, <1>2, <1>5 DEF TypeOK, CoSimulationInv
  <1>10. AccessInv'
    BY <1>8, NothingKnown DEF AccessInv
  <1>11. SlaveOK(slave)'
    BY <1>4, <1>5 DEF slave, SlaveOK
  <1> QED BY <1>7, <1>8, <1>9, <1>10, <1>11 DEF CoSimulationInv, Nothing, Refs

LEMMA InitKeeps ==
    ASSUME CoSimulationInv, NEW names \in InitialInputs, NEW value \in InputValues,
           NEW start \in StartTimes, NEW stop \in Stops, NEW canHandle \in BOOLEAN,
           CallInit(names, value, start, stop, canHandle)
    PROVE  CoSimulationInv'
  <1>1. names \in Seq(STRING) /\ value \in Values /\ start \in Nat /\ stop \in Nat
    BY CoSimulationAssumption, StepSizeFmuAssumption DEF Stops
  <1>2. PICK v \in InitOf(names, value, start, stop, canHandle) : Becomes(v, start)
    BY DEF CallInit
  <1>3. w \in WrapperRecord /\ SlaveOK(w.slave) /\ Wrapped
        /\ w.kind \in {"fixed", "interpolating", "variable"}
    BY DEF CoSimulationInv, TypeOK, slave, CallInit, Wrapped, WrapperRecord, Kinds
  <1>4. \/ v \in InitFixed(w, names, value, start, stop)
        \/ v \in InitInterpolating(w, names, value, start, stop)
        \/ v \in InitVariable(w, names, value, start, stop, canHandle)
    BY <1>3 DEF InitOf
  <1>5. /\ v \in WrapperRecord /\ v.kind = w.kind
        /\ SlaveOK(v.slave)
        /\ Started(v, w, start)
        /\ ReadyInv(v, start)
    BY <1>1, <1>3, <1>4, InitGives
  <1>5a. v.outcome = "none"
    BY <1>5 DEF Started
  <1>6. v.ready => Synced(v, w, start)
    BY <1>5, <1>5a DEF Synced, ReadyInv, ResultInv
  <1> QED BY <1>1, <1>2, <1>3, <1>5, <1>5a, <1>6, BecomesKeeps

(* What is known of a wrapper before it synchronizes.                      *)
LEMMA ReadyWrapper ==
    ASSUME CoSimulationInv, Wrapped, w.ready
    PROVE  /\ w \in WrapperRecord /\ lastT1 \in Nat /\ SlaveOK(w.slave)
           /\ w.kind \in {"fixed", "interpolating", "variable"}
           /\ PointInv(w, lastT1) /\ OutputInv(w, lastT1) /\ ResultInv(w, lastT1)
           /\ From = FromOf(w, lastT1)
  BY DEF CoSimulationInv, TypeOK, slave, Wrapped, WrapperRecord, Kinds, ReadyInv, From, FromOf

LEMMA IntervalTypes ==
    ASSUME CoSimulationInv
    PROVE  IntervalStarts \subseteq Int /\ IntervalEnds \subseteq Nat /\ Times \subseteq Nat
  <1>1. Times \subseteq Nat
    BY CoSimulationAssumption DEF Times
  <1>2. lastT1 \in Int /\ w.point \in Int
    BY DEF CoSimulationInv, TypeOK, WrapperRecord
  <1>3. w.point - 1 \in Int /\ w.point + 1 \in Int
    BY <1>2
  <1>4. IntervalStarts \subseteq {lastT1} \cup {w.point - 1, w.point, w.point + 1}
    BY Zenon DEF IntervalStarts
  <1>5. ASSUME NEW t0 \in IntervalStarts PROVE t0 \in Int
    BY <1>2, <1>3, <1>4, <1>5
  <1>6. IntervalEnds \subseteq Times
    BY Zenon DEF IntervalEnds
  <1> QED BY <1>1, <1>5, <1>6

LEMMA SyncKeeps ==
    ASSUME CoSimulationInv, NEW t0 \in IntervalStarts, NEW t1 \in IntervalEnds, CallSync(t0, t1)
    PROVE  CoSimulationInv'
  <1>1. t0 \in Int /\ t1 \in Nat
    BY IntervalTypes
  <1>2. Wrapped /\ w.ready /\ t1 >= From
    BY DEF CallSync
  <1>3. PICK v \in Sync(w, t0, t1) : Becomes(v, t1)
    BY DEF CallSync
  <1>4. Synced(v, w, IF v.outcome = "refused" THEN lastT1 ELSE t1)
    BY <1>1, <1>2, ReadyWrapper, SyncGives
  <1>5. v \in WrapperRecord /\ v.kind = w.kind /\ SlaveOK(v.slave)
    BY <1>4 DEF Synced
  <1> QED BY <1>1, <1>2, <1>3, <1>4, <1>5, BecomesKeeps

LEMMA SyncInputsKeeps ==
    ASSUME CoSimulationInv, NEW t0 \in IntervalStarts, NEW t1 \in IntervalEnds,
           NEW value \in InputValues, NEW iterate \in BOOLEAN,
           CallSyncWithInputs(t0, t1, value, iterate)
    PROVE  CoSimulationInv'
  <1>1. t0 \in Int /\ t1 \in Nat /\ value \in Values
    BY IntervalTypes, CoSimulationAssumption
  <1>2. Wrapped /\ w.ready /\ t1 >= From
    BY DEF CallSyncWithInputs
  <1>3. PICK v \in SyncWithInputs(w, t0, t1, value, iterate) : Becomes(v, t1)
    BY DEF CallSyncWithInputs
  <1>4. Synced(v, w, IF v.outcome = "refused" THEN lastT1 ELSE t1)
    BY <1>1, <1>2, ReadyWrapper, SyncWithInputsGives
  <1>5. v \in WrapperRecord /\ v.kind = w.kind /\ SlaveOK(v.slave)
    BY <1>4 DEF Synced
  <1> QED BY <1>1, <1>2, <1>3, <1>4, <1>5, BecomesKeeps

LEMMA IterateKeeps ==
    ASSUME CoSimulationInv, CallIterateOnce
    PROVE  CoSimulationInv'
  <1>1. Wrapped /\ w.ready /\ (w.kind = "interpolating" => lastT1 = w.point)
    BY DEF CallIterateOnce
  <1>2. PICK v \in IterateOnce(w) : Becomes(v, lastT1)
    BY DEF CallIterateOnce
  <1>3. Synced(w, w, lastT1) /\ lastT1 \in Nat
    BY <1>1, ReadyWrapper DEF Synced
  <1>4. Synced(v, w, lastT1)
    BY <1>1, <1>3, IterateOnceGives
  <1>5. v \in WrapperRecord /\ v.kind = w.kind /\ SlaveOK(v.slave)
    BY <1>4 DEF Synced
  <1> QED BY <1>1, <1>2, <1>3, <1>4, <1>5, BecomesKeeps

LEMMA DestroyKeeps ==
    ASSUME CoSimulationInv, Destroy
    PROVE  CoSimulationInv'
  <1> PICK s : s = Terminate(slave)
    OBVIOUS
  <1>1. SlaveOK(s) /\ s.var = slave.var /\ s \in SlaveRecord
    BY Terminated DEF CoSimulationInv, SlaveOK
  <1>2. w \in WrapperRecord /\ (w.kind = "direct" => ~w.ready)
    BY DEF CoSimulationInv, TypeOK
  <1>3. UNCHANGED <<lastT1, known, got>> /\ exists' \in BOOLEAN
    BY DEF Destroy
  <1>4. w' = IF w.kind = "direct" THEN [w EXCEPT !.slave = s]
             ELSE [w EXCEPT !.slave = s, !.ready = FALSE]
    BY DEF Destroy, Delete, slave
  <1>5. w' \in WrapperRecord /\ w'.kind = w.kind /\ w'.slave = s /\ ~w'.ready
    BY <1>1, <1>2, <1>4 DEF WrapperRecord
  <1>6. TypeOK'
    BY <1>3, <1>5 DEF TypeOK, CoSimulationInv
  <1>7. AccessInv'
    BY <1>1, <1>3, <1>5 DEF CoSimulationInv, AccessInv, slave, Numeric, TypeOfRef
  <1>8. SlaveOK(slave)'
    BY <1>1, <1>5 DEF slave, SlaveOK
  <1> QED BY <1>3, <1>5, <1>6, <1>7, <1>8 DEF CoSimulationInv, ReadyInv, Nothing, Refs

-----------------------------------------------------------------------------
(* The invariant, and what follows from it.                                *)

LEMMA Unchanged ==
    ASSUME CoSimulationInv, UNCHANGED vars
    PROVE  CoSimulationInv'
  BY DEF vars, CoSimulationInv, TypeOK, AccessInv, slave, SlaveOK, ReadyInv, PointInv, OutputInv,
         HistoryInv, ReadingInv, ResultInv, Resolved, FromOf, DriftOf, SlackOf, ReadAt, Stale,
         Numeric, TypeOfRef, Nothing, Refs

LEMMA NextInv ==
    ASSUME CoSimulationInv, [Next]_vars
    PROVE  CoSimulationInv'
  <1>1. CASE CallInstantiate
    BY <1>1, InstantiateKeeps
  <1>2. CASE \E start \in StartTimes : CallInitialize(start)
    BY <1>2, InitializeKeeps
  <1>3. ASSUME NEW point \in Times, NEW size \in {0, StepSize}, CallDoStep(point, size)
        PROVE  CoSimulationInv'
    <2>1. point \in Int /\ size \in Int
      BY IntervalTypes, StepSizeFmuAssumption
    <2> QED BY <1>3, <2>1, DoStepKeeps
  <1>4. CASE CallTerminate
    BY <1>4, TerminateKeeps
  <1>5. CASE \/ \E name \in Names, value \in Values : SetVariable(name, value)
             \/ \E array \in Arrays, value \in Values : SetVariables(array.refs, array.type, value)
             \/ \E name \in Names : GetVariable(name) \/ GetNamedVariable(name)
             \/ \E array \in Arrays : GetVariables(array.refs, array.type)
    BY <1>5, AccessKeeps
  <1>6. CASE \E names \in InitialInputs, value \in InputValues, start \in StartTimes,
                stop \in Stops, canHandle \in BOOLEAN :
                CallInit(names, value, start, stop, canHandle)
    BY <1>6, InitKeeps
  <1>7. CASE \E t0 \in IntervalStarts, t1 \in IntervalEnds : CallSync(t0, t1)
    BY <1>7, SyncKeeps
  <1>8. CASE \E t0 \in IntervalStarts, t1 \in IntervalEnds, value \in InputValues,
                iterate \in BOOLEAN : CallSyncWithInputs(t0, t1, value, iterate)
    BY <1>8, SyncInputsKeeps
  <1>9. CASE CallIterateOnce
    BY <1>9, IterateKeeps
  <1>10. CASE Destroy
    BY <1>10, DestroyKeeps
  <1>11. CASE Gone
    BY <1>11, Unchanged DEF Gone
  <1>12. CASE UNCHANGED vars
    BY <1>12, Unchanged
  <1> QED BY <1>1, <1>2, <1>3, <1>4, <1>5, <1>6, <1>7, <1>8, <1>9, <1>10, <1>11, <1>12 DEF Next

(* What ties the clocks of FMU, object and wrapper, the outputs that were  *)
(* read and the values that were set together holds after every call, for  *)
(* any answers of the FMU.                                                 *)
THEOREM CoSimulationInvariant == Spec => []CoSimulationInv
  <1>1. Init => CoSimulationInv
    BY InitInv
  <1>2. CoSimulationInv /\ [Next]_vars => CoSimulationInv'
    BY NextInv
  <1> QED BY <1>1, <1>2, PTL DEF Spec

(* An object and its wrapper keep their types, and so does what a program  *)
(* knows of them.                                                          *)
THEOREM CoSimulationTypeOK == Spec => []TypeOK
  <1>1. CoSimulationInv => TypeOK
    BY DEF CoSimulationInv
  <1> QED BY <1>1, CoSimulationInvariant, PTL

(* time_, which doStep() hands to the FMU, is the FMU's own time while it  *)
(* is stepping, unless the FMU moved and answered with a warning: for any  *)
(* answers of the FMU, in any order of the calls of the object, and in the *)
(* loops of sync().                                                        *)
THEOREM ClockFollowsFmuInv == Spec => []ClockFollowsFmu
  <1>1. CoSimulationInv => ClockFollowsFmu
    BY DEF CoSimulationInv, SlaveOK, ClockFollowsFmu
  <1> QED BY <1>1, CoSimulationInvariant, PTL

(* A wrapper that is ready drives an FMU that is initialized, and its      *)
(* communication point stays with the slave's time, or within twice the    *)
(* resolution of it.                                                       *)
THEOREM WrapperFollowsSlaveInv == Spec => []WrapperFollowsSlave
  <1>1. CoSimulationInv => WrapperFollowsSlave
    BY DEF CoSimulationInv, ReadyInv, PointInv, slave, WrapperFollowsSlave, Drift, DriftOf
  <1> QED BY <1>1, CoSimulationInvariant, PTL

(* The outputs of getRealOutputs() and the like are those of the time of   *)
(* the current state, whether they were read at a communication point or   *)
(* interpolated between two, and the others are not newer.                 *)
THEOREM OutputsOfOneTimeInv == Spec => []OutputsOfOneTime
  <1>1. ASSUME CoSimulationInv, w.ready, ~slave.warned, w.kind = "interpolating"
        PROVE  /\ w.current.real # Stale => Abs(w.current.real - w.current.time_) <= Drift
               /\ w.current.other # Stale => w.current.other <= w.current.time_
    <2>1. HistoryInv(w, lastT1) /\ ~w.slave.warned /\ w.current.time_ \in Int /\ Drift = 0
      BY <1>1 DEF CoSimulationInv, ReadyInv, OutputInv, TypeOK, WrapperRecord, State, slave, Drift
    <2>2. /\ w.current.real # Stale => w.current.real = w.current.time_
          /\ w.current.other # Stale => w.current.other <= w.current.time_
      BY <2>1 DEF HistoryInv, ReadAt
    <2>3. Abs(w.current.time_ - w.current.time_) = 0
      BY <2>1 DEF Abs
    <2> QED BY <2>1, <2>2, <2>3
  <1>2. ASSUME CoSimulationInv, w.ready, ~slave.warned, w.kind # "interpolating"
        PROVE  /\ w.current.real # Stale => Abs(w.current.real - w.current.time_) <= Drift
               /\ w.current.other # Stale => w.current.real \in {w.current.other, Stale}
    BY <1>2 DEF CoSimulationInv, ReadyInv, OutputInv, ReadingInv, slave, Drift, DriftOf
  <1>3. CoSimulationInv => OutputsOfOneTime
    BY <1>1, <1>2 DEF OutputsOfOneTime
  <1> QED BY <1>3, CoSimulationInvariant, PTL

(* The loops of sync() leave the communication point no later than the     *)
(* program asked for, those of the interpolating wrapper less than a step. *)
THEOREM NotAheadOfRequestInv == Spec => []NotAheadOfRequest
  <1>1. ASSUME CoSimulationInv, w.ready
        PROVE  w.point <= lastT1 + IF w.kind = "interpolating" THEN StepSize - 1 ELSE 0
    <2>1. /\ PointInv(w, lastT1) /\ lastT1 \in Int /\ StepSize \in Int
          /\ w.point \in Int
      BY <1>1, StepSizeFmuAssumption
         DEF CoSimulationInv, ReadyInv, TypeOK, WrapperRecord
    <2> QED BY <2>1 DEF PointInv, FromOf
  <1>2. CoSimulationInv => NotAheadOfRequest
    BY <1>1 DEF NotAheadOfRequest
  <1> QED BY <1>2, CoSimulationInvariant, PTL

(* A number that setValue() set, by name or in an array, is the one that   *)
(* every getter gives back.                                                *)
THEOREM ReadAsSetInv == Spec => []ReadAsSet
  <1>1. CoSimulationInv => ReadAsSet
    BY DEF CoSimulationInv, AccessInv, Numeric, ReadAsSet
  <1> QED BY <1>1, CoSimulationInvariant, PTL

(* What sync() returns is later than the interval's end if it was reached, *)
(* and none later if a step failed; of the variable wrapper, when its step *)
(* size exceeds the resolution of the times.                               *)
THEOREM ResultTellsProgressInv ==
    ASSUME "variable" \in Users => StepSize > TimeDiffResolution
    PROVE  Spec => []ResultTellsProgress
  <1>1. ASSUME CoSimulationInv, w.ready, lastT1 <= w.final
        PROVE  /\ w.outcome = "done" => w.result > lastT1 + Slack
               /\ w.outcome = "failed" => w.result <= lastT1 + Slack
    <2>1. /\ PointInv(w, lastT1) /\ ResultInv(w, lastT1) /\ lastT1 \in Int
          /\ w.kind \in Users /\ w.point \in Int
      BY <1>1 DEF CoSimulationInv, ReadyInv, TypeOK, WrapperRecord
    <2>2. Resolved(w) /\ SlackOf(w) = Slack
      BY <2>1 DEF Resolved, Slack, SlackOf
    <2>3. Slack \in Nat
      BY CoSimulationSlaveAssumption DEF Slack
    <2>4. w.outcome = "failed" => w.result <= lastT1
      BY <2>1 DEF PointInv
    <2>5. lastT1 <= lastT1 + Slack
      BY <2>1, <2>3
    <2>6. w.result \in Int
      BY <1>1 DEF CoSimulationInv, TypeOK, WrapperRecord
    <2>7. w.outcome = "failed" => w.result <= lastT1 + Slack
      BY <2>1, <2>3, <2>4, <2>6
    <2> QED BY <1>1, <2>1, <2>2, <2>7 DEF ResultInv
  <1>2. CoSimulationInv => ResultTellsProgress
    BY <1>1 DEF ResultTellsProgress
  <1> QED BY <1>2, CoSimulationInvariant, PTL

-----------------------------------------------------------------------------
(* The wrappers keep the contract of sync().                               *)

LEMMA InitStarts ==
    ASSUME CoSimulationInv, NEW names \in InitialInputs, NEW value \in InputValues,
           NEW start \in StartTimes, NEW stop \in Stops, NEW canHandle \in BOOLEAN,
           CallInit(names, value, start, stop, canHandle)
    PROVE  Contract!Start
  <1>1. names \in Seq(STRING) /\ value \in Values /\ start \in Nat /\ stop \in Nat
    BY CoSimulationAssumption, StepSizeFmuAssumption DEF Stops
  <1>2. PICK v \in InitOf(names, value, start, stop, canHandle) : Becomes(v, start)
    BY DEF CallInit
  <1>3. w \in WrapperRecord /\ SlaveOK(w.slave) /\ Wrapped
        /\ w.kind \in {"fixed", "interpolating", "variable"}
        /\ (w.ready => w.outcome = "failed")
    BY DEF CoSimulationInv, TypeOK, slave, CallInit, Wrapped, WrapperRecord, Kinds
  <1>4. \/ v \in InitFixed(w, names, value, start, stop)
        \/ v \in InitInterpolating(w, names, value, start, stop)
        \/ v \in InitVariable(w, names, value, start, stop, canHandle)
    BY <1>3 DEF InitOf
  <1>5. v \in WrapperRecord /\ v.kind = w.kind /\ Started(v, w, start)
    BY <1>1, <1>3, <1>4, InitGives
  <1>6. /\ w'.kind = v.kind /\ w'.ready = v.ready /\ w'.final = v.final
        /\ w'.current = v.current /\ w'.result = v.result /\ w'.outcome = v.outcome
    BY <1>2, <1>5 DEF Becomes, WrapperRecord
  <1>7. lastT1' = start /\ start \in Int /\ v.ready \in BOOLEAN
    BY <1>1, <1>2, <1>5 DEF Becomes, Started, WrapperRecord
  <1> QED BY <1>3, <1>5, <1>6, <1>7 DEF Contract!Start, Started

(* What sync() leads to, with inputs or without, is what is promised.      *)
LEMMA SyncedKeepsContract ==
    ASSUME "variable" \in Users => StepSize > TimeDiffResolution,
           CoSimulationInv, Wrapped, w.ready, NEW t1 \in Nat, t1 >= From,
           NEW v, Becomes(v, t1),
           Synced(v, w, IF v.outcome = "refused" THEN lastT1 ELSE t1), Promised(v, w, t1)
    PROVE  Contract!Sync \/ Contract!Refuse
  <1>1. /\ w \in WrapperRecord /\ lastT1 \in Nat /\ From = FromOf(w, lastT1)
        /\ w.kind \in {"fixed", "interpolating", "variable"} /\ w.kind \in Users
    BY ReadyWrapper DEF CoSimulationInv
  <1>2. v \in WrapperRecord /\ v.kind = w.kind /\ v.ready
    BY DEF Synced
  <1>3. /\ w'.kind = v.kind /\ w'.ready = v.ready /\ w'.final = v.final
        /\ w'.current = v.current /\ w'.result = v.result /\ w'.outcome = v.outcome
    BY <1>2 DEF Becomes, WrapperRecord
  <1>4. v.final = w.final /\ v.outcome \in {"done", "failed", "refused"}
    BY DEF Promised
  <1>5. w.ready /\ v.ready /\ v.ready = w.ready
    BY <1>1, <1>2 DEF WrapperRecord
  <1>6. CASE v.outcome = "refused"
    <2>1. v.kind = "variable" /\ v.current.time_ = w.current.time_
      BY <1>6 DEF Promised
    <2>2. lastT1' = lastT1
      BY <1>6 DEF Becomes
    <2> QED BY <1>2, <1>3, <1>4, <1>5, <1>6, <2>1, <2>2 DEF Contract!Refuse
  <1>7. CASE v.outcome # "refused"
    <2>1. lastT1' = t1
      BY <1>7 DEF Becomes
    <2>2. Contract!From <= t1 /\ t1 \in Int
      BY <1>1 DEF Contract!From, From, FromOf, WrapperRecord
    <2>3. w.current.time_ <= v.current.time_
      BY DEF Promised
    <2>4. CASE v.outcome = "failed"
      <3>1. v.current.time_ <= v.result /\ v.result <= t1
        BY <2>4 DEF Promised
      <3>2. Contract!Failed
        BY <1>3, <2>1, <2>4, <3>1 DEF Contract!Failed
      <3> QED BY <1>2, <1>3, <1>4, <1>5, <2>1, <2>2, <2>3, <3>2 DEF Contract!Sync
    <2>5. CASE v.outcome = "done"
      <3>1. /\ IF v.kind = "fixed"
               THEN /\ v.current.time_ <= t1
                    /\ \/ t1 < v.current.time_ + StepSize
                       \/ v.current.time_ = w.current.time_ /\ v.final <= v.current.time_
               ELSE v.current.time_ = t1
            /\ v.result <= t1 + StepSize
        BY <2>5 DEF Promised
      <3>2. Resolved(v)
        BY <1>1, <1>2 DEF Resolved
      <3>3. t1 <= v.final => v.result > t1 + SlackOf(v)
        BY <1>7, <2>5, <3>2 DEF Synced, ResultInv
      <3>4. Contract!Slack = SlackOf(v)
        BY <1>2 DEF Contract!Slack, SlackOf
      <3>5. Contract!Done
        BY <1>2, <1>3, <1>4, <2>1, <2>5, <3>1, <3>3, <3>4 DEF Contract!Done, Contract!ShowsLastStep
      <3> QED BY <1>2, <1>3, <1>4, <1>5, <2>1, <2>2, <2>3, <3>5 DEF Contract!Sync
    <2> QED BY <1>4, <1>7, <2>4, <2>5
  <1> QED BY <1>6, <1>7

LEMMA SyncKeepsContract ==
    ASSUME "variable" \in Users => StepSize > TimeDiffResolution,
           CoSimulationInv, NEW t0 \in IntervalStarts, NEW t1 \in IntervalEnds, CallSync(t0, t1)
    PROVE  Contract!Sync \/ Contract!Refuse
  <1>1. t0 \in Int /\ t1 \in Nat
    BY IntervalTypes
  <1>2. Wrapped /\ w.ready /\ t1 >= From
    BY DEF CallSync
  <1>3. PICK v \in Sync(w, t0, t1) : Becomes(v, t1)
    BY DEF CallSync
  <1>4. Synced(v, w, IF v.outcome = "refused" THEN lastT1 ELSE t1) /\ Promised(v, w, t1)
    BY <1>1, <1>2, ReadyWrapper, SyncGives
  <1> QED BY <1>1, <1>2, <1>3, <1>4, SyncedKeepsContract

LEMMA SyncInputsKeepContract ==
    ASSUME "variable" \in Users => StepSize > TimeDiffResolution,
           CoSimulationInv, NEW t0 \in IntervalStarts, NEW t1 \in IntervalEnds,
           NEW value \in InputValues, NEW iterate \in BOOLEAN,
           CallSyncWithInputs(t0, t1, value, iterate)
    PROVE  Contract!Sync \/ Contract!Refuse
  <1>1. t0 \in Int /\ t1 \in Nat /\ value \in Values
    BY IntervalTypes, CoSimulationAssumption
  <1>2. Wrapped /\ w.ready /\ t1 >= From
    BY DEF CallSyncWithInputs
  <1>3. PICK v \in SyncWithInputs(w, t0, t1, value, iterate) : Becomes(v, t1)
    BY DEF CallSyncWithInputs
  <1>4. Synced(v, w, IF v.outcome = "refused" THEN lastT1 ELSE t1) /\ Promised(v, w, t1)
    BY <1>1, <1>2, ReadyWrapper, SyncWithInputsGives
  <1> QED BY <1>1, <1>2, <1>3, <1>4, SyncedKeepsContract

(* iterateOnce() reads the outputs of the point at which the interpolating *)
(* wrapper's interval ended, and at which the outputs of the others are.   *)
LEMMA IterateKeepsContract ==
    ASSUME CoSimulationInv, CallIterateOnce
    PROVE  Contract!Iterate
  <1>1. Wrapped /\ w.ready /\ (w.kind = "interpolating" => lastT1 = w.point)
    BY DEF CallIterateOnce
  <1>2. PICK v \in IterateOnce(w) : Becomes(v, lastT1)
    BY DEF CallIterateOnce
  <1>3. /\ Synced(w, w, lastT1) /\ lastT1 \in Nat /\ w \in WrapperRecord
        /\ PointInv(w, lastT1) /\ OutputInv(w, lastT1)
    BY <1>1, ReadyWrapper DEF Synced
  <1>4. /\ Synced(v, w, lastT1)
        /\ v.kind = w.kind /\ v.ready = w.ready /\ v.point = w.point /\ v.final = w.final
        /\ v.outcome = w.outcome /\ v.result = w.result
        /\ v.current.time_ = w.point
    BY <1>1, <1>2, <1>3, IterateOnceGives
  <1>5. v \in WrapperRecord
    BY <1>4 DEF Synced
  <1>6. /\ w'.kind = v.kind /\ w'.ready = v.ready /\ w'.final = v.final
        /\ w'.current = v.current /\ w'.result = v.result /\ w'.outcome = v.outcome
    BY <1>2, <1>5 DEF Becomes, WrapperRecord
  <1>7. lastT1' = lastT1
    BY <1>2 DEF Becomes
  <1>8. w.current.time_ <= w.point /\ w.point \in {w.current.time_, Contract!From}
    <2>1. CASE w.kind = "interpolating"
      <3>1. w.current.time_ <= FromOf(w, lastT1)
        BY <1>3, <2>1 DEF OutputInv, HistoryInv
      <3>2. FromOf(w, lastT1) = w.point
        BY <1>1, <1>3, <2>1 DEF FromOf, PointInv
      <3>3. Contract!From = FromOf(w, lastT1)
        BY DEF Contract!From, FromOf
      <3> QED BY <3>1, <3>2, <3>3
    <2>2. CASE w.kind # "interpolating"
      <3>1. w.current.time_ = w.point
        BY <1>3, <2>2 DEF OutputInv, ReadingInv
      <3>2. w.point \in Int
        BY <1>3 DEF WrapperRecord
      <3> QED BY <3>1, <3>2
    <2> QED BY <2>1, <2>2
  <1> QED BY <1>1, <1>4, <1>6, <1>7, <1>8 DEF Contract!Iterate

(* What a program does with an object of its own, the wrapper that there   *)
(* is none of does not show.                                               *)
LEMMA DirectStutters ==
    ASSUME CoSimulationInv, NEW s, BecomesSlave(s)
    PROVE  UNCHANGED Contract!vars
  <1>1. w \in WrapperRecord
    BY DEF CoSimulationInv, TypeOK
  <1>2. w' = [w EXCEPT !.slave = s] /\ lastT1' = lastT1
    BY DEF BecomesSlave
  <1>3. \A f \in {"kind", "ready", "final", "current", "result", "outcome"} : w'[f] = w[f]
    BY <1>1, <1>2 DEF WrapperRecord
  <1> QED BY <1>2, <1>3 DEF Contract!vars

LEMMA DestroyKeepsContract ==
    ASSUME CoSimulationInv, Destroy
    PROVE  Contract!Delete \/ UNCHANGED Contract!vars
  <1>1. w \in WrapperRecord /\ UNCHANGED lastT1
    BY DEF CoSimulationInv, TypeOK, Destroy
  <1> PICK s : s = Terminate(slave)
    OBVIOUS
  <1>2. CASE w.kind = "direct"
    <2>1. w' = [w EXCEPT !.slave = s]
      BY <1>2 DEF Destroy
    <2>2. \A f \in {"kind", "ready", "final", "current", "result", "outcome"} : w'[f] = w[f]
      BY <1>1, <2>1 DEF WrapperRecord
    <2> QED BY <1>1, <2>2 DEF Contract!vars
  <1>3. CASE w.kind # "direct"
    <2>1. w' = [w EXCEPT !.slave = s, !.ready = FALSE]
      BY <1>3 DEF Destroy, Delete, slave
    <2>2. /\ \A f \in {"kind", "final", "current", "result", "outcome"} : w'[f] = w[f]
          /\ ~w'.ready
      BY <1>1, <2>1 DEF WrapperRecord
    <2> QED BY <1>1, <2>2 DEF Contract!Delete
  <1> QED BY <1>2, <1>3

LEMMA StepKeepsContract ==
    ASSUME "variable" \in Users => StepSize > TimeDiffResolution,
           CoSimulationInv, [Next]_vars
    PROVE  [Contract!Next]_(Contract!vars)
  <1>1. CASE \/ CallInstantiate
             \/ \E start \in StartTimes : CallInitialize(start)
             \/ \E point \in Times, size \in {0, StepSize} : CallDoStep(point, size)
             \/ CallTerminate
             \/ \E name \in Names, value \in Values : SetVariable(name, value)
             \/ \E array \in Arrays, value \in Values : SetVariables(array.refs, array.type, value)
             \/ \E name \in Names : GetVariable(name) \/ GetNamedVariable(name)
             \/ \E array \in Arrays : GetVariables(array.refs, array.type)
    <2>1. \E s : BecomesSlave(s)
      BY <1>1, Zenon DEF CallInstantiate, CallInitialize, CallDoStep, CallTerminate, SetVariable,
         SetVariables, Set, GetVariable, GetNamedVariable, GetVariables, Got
    <2> QED BY <2>1, DirectStutters
  <1>2. CASE \E names \in InitialInputs, value \in InputValues, start \in StartTimes,
                stop \in Stops, canHandle \in BOOLEAN :
                CallInit(names, value, start, stop, canHandle)
    BY <1>2, InitStarts DEF Contract!Next
  <1>3. CASE \E t0 \in IntervalStarts, t1 \in IntervalEnds : CallSync(t0, t1)
    BY <1>3, SyncKeepsContract DEF Contract!Next
  <1>4. CASE \E t0 \in IntervalStarts, t1 \in IntervalEnds, value \in InputValues,
                iterate \in BOOLEAN : CallSyncWithInputs(t0, t1, value, iterate)
    BY <1>4, SyncInputsKeepContract DEF Contract!Next
  <1>5. CASE CallIterateOnce
    BY <1>5, IterateKeepsContract DEF Contract!Next
  <1>6. CASE Destroy
    BY <1>6, DestroyKeepsContract DEF Contract!Next
  <1>7. CASE UNCHANGED vars
    BY <1>7 DEF vars, Contract!vars
  <1>8. CASE Gone
    BY <1>7, <1>8 DEF Gone
  <1> QED BY <1>1, <1>2, <1>3, <1>4, <1>5, <1>6, <1>7, <1>8 DEF Next

(* Whichever of the three wrappers a program uses, what it sees of it is a *)
(* behaviour of the contract of sync(): the outputs never go back and are  *)
(* of the end of the interval, or of the last step before it, and the time *)
(* that is returned is one to go on from. Of the variable wrapper, when    *)
(* its step size exceeds the resolution of the times.                      *)
THEOREM WrappersKeepSyncContract ==
    ASSUME "variable" \in Users => StepSize > TimeDiffResolution
    PROVE  Spec => KeepsSyncContract
  <1>1. Init => Contract!Init
    <2>1. ASSUME NEW kind \in Users, NEW version \in {1, 2}, NEW status \in ConstructStatuses,
                 w = IF kind = "direct"
                     THEN [ConstructWrapper(kind, version)
                              EXCEPT !.slave = Construct(version, status)]
                     ELSE ConstructWrapper(kind, version)
          PROVE  Contract!Init
      <3> PICK x : x = ConstructWrapper(kind, version)
        OBVIOUS
      <3> PICK s : s = Construct(version, status)
        OBVIOUS
      <3>1. ~x.ready /\ x.outcome = "none"
        BY DEF ConstructWrapper
      <3>2. w = IF kind = "direct" THEN [x EXCEPT !.slave = s] ELSE x
        BY <2>1
      <3>3. [x EXCEPT !.slave = s].ready = x.ready /\ [x EXCEPT !.slave = s].outcome = x.outcome
        BY DEF ConstructWrapper
      <3> QED BY <3>1, <3>2, <3>3 DEF Contract!Init
    <2> QED BY <2>1 DEF Init
  <1>2. CoSimulationInv /\ [Next]_vars => [Contract!Next]_(Contract!vars)
    BY StepKeepsContract
  <1> QED BY <1>1, <1>2, CoSimulationInvariant, PTL DEF Spec, KeepsSyncContract, Contract!Spec

=============================================================================
