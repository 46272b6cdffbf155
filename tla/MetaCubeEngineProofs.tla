------------------------ MODULE MetaCubeEngineProofs ------------------------
(* Machine-checked proofs about MetaCubeEngine, for every set of instances, *)
(* executions, requests and steps.  Each action touches one execution, so   *)
(* the invariant is cut into what it says of one execution (ExecInv) and    *)
(* what it says of the running instances, with a frame lemma for the rest.  *)
EXTENDS MetaCubeEngine, TLAPS

ExecInv(e) ==
    /\ IF Accepted(e) THEN status[e] # "absent" ELSE Untouched(e)
    /\ checkpoints[e] = results[e]
    /\ Accepted(e) => \A s \in results[e] : PlanOf(e).deps[s] \subseteq results[e]
    /\ status[e] = "completed" => Remaining(e) = {}
    /\ status[e] = "dead_letter" =>
         \E l \in dlq[e] : /\ l.step \in Remaining(e)
                           /\ l.attempts = attempts[e][l.step]
                           /\ l.attempts >= PlanOf(e).max
    /\ status[e] = "created" => dlq[e] = {}
    /\ Accepted(e) =>
         \A s \in Step :
            attempts[e][s] <=
                IF deliveries[e] = 0 THEN 0 ELSE PlanOf(e).max + deliveries[e] - 1

Same(f) ==
    /\ request'[f] = request[f] /\ status'[f] = status[f]
    /\ attempts'[f] = attempts[f] /\ results'[f] = results[f]
    /\ checkpoints'[f] = checkpoints[f] /\ dlq'[f] = dlq[f]
    /\ deliveries'[f] = deliveries[f]

LEMMA InvParts ==
    EngineInv <=> TypeOK /\ RunsExclusive /\ RunsSound /\ \A e \in Exec : ExecInv(e)
BY DEF EngineInv, ExecInv, OnlyAcceptedTouched, CheckpointsMatchResults, DependenciesFirst,
   CompletedHasAllSteps, DeadLetterExplained, CreatedHasNoLetters, AttemptsAccounted

LEMMA NextInvParts ==
    (TypeOK /\ RunsExclusive /\ RunsSound /\ \A e \in Exec : ExecInv(e))' => EngineInv'
BY DEF EngineInv, ExecInv, OnlyAcceptedTouched, CheckpointsMatchResults, DependenciesFirst,
   CompletedHasAllSteps, DeadLetterExplained, CreatedHasNoLetters, AttemptsAccounted

LEMMA ExecFrame ==
    ASSUME NEW f \in Exec, ExecInv(f), Same(f)
    PROVE  ExecInv(f)'
BY DEF ExecInv, Same, Accepted, Untouched, Remaining, Steps, PlanOf

LEMMA RunFrame ==
    ASSUME NEW v \in Worker, NEW f \in Exec, RunSound(v, f), Same(f), run'[v] = run[v]
    PROVE  RunSound(v, f)'
BY DEF RunSound, Same, Accepted, Ready, Remaining, Steps, PlanOf

(* The plan of an accepted request is well formed.                         *)
LEMMA PlanTyped ==
    ASSUME NEW e \in Exec, request[e] \in Request
    PROVE  /\ PlanOf(e).max \in Nat \ {0}
           /\ PlanOf(e).deps \in [Step -> SUBSET Step]
           /\ Steps(e) \subseteq Step
<1>1. PlanOf(e) \in PlanType
  BY EngineAssumption DEF PlanOf
<1>2. PlanOf(e).order \in Seq(Step)
  BY <1>1 DEF PlanType
<1>3. \A i \in DOMAIN PlanOf(e).order : PlanOf(e).order[i] \in Step
  BY <1>2
<1>4. Steps(e) \subseteq Step
  BY <1>3 DEF Steps, Range
<1>. QED
  BY <1>1, <1>4 DEF PlanType

(* What a running instance may rely on when it takes its next step.        *)
LEMMA RunFacts ==
    ASSUME EngineInv, NEW w \in Worker, NEW e \in Exec, Running(w, e)
    PROVE  /\ Accepted(e) /\ request[e] \in Request
           /\ RunSound(w, e)
           /\ Batch(w, e) \subseteq Ready(e)
           /\ Ready(e) \subseteq Step
           /\ deliveries[e] \in Nat /\ deliveries[e] > 0
           /\ \A v \in Worker \ {w} : run[v].exec # e
<1>1. RunSound(w, e)
  BY DEF EngineInv, RunsSound, Running
<1>2. request[e] \in Request /\ deliveries[e] \in Nat
  BY <1>1 DEF EngineInv, TypeOK, Accepted, RunSound
<1>3. Ready(e) \subseteq Step
  BY <1>2, PlanTyped DEF Ready, Remaining
<1>4. \A v \in Worker \ {w} : run[v].exec # e
  BY EngineAssumption DEF EngineInv, RunsExclusive, Running
<1>. QED
  BY <1>1, <1>2, <1>3, <1>4 DEF Batch, Running, RunSound

(* The initial state satisfies the invariant.                              *)
LEMMA InitEstablishes == Init => EngineInv
<1> SUFFICES ASSUME Init PROVE EngineInv
  OBVIOUS
<1>1. TypeOK
  BY DEF Init, TypeOK, Status, Run, Idle
<1>2. \A e \in Exec : ~Accepted(e) /\ Untouched(e)
  BY EngineAssumption DEF Init, Accepted, Untouched
<1>3. \A w \in Worker : run[w].exec = NoExec
  BY DEF Init, Idle
<1>4. RunsExclusive /\ RunsSound
  BY <1>3, EngineAssumption DEF RunsExclusive, RunsSound
<1>5. \A e \in Exec : ExecInv(e)
  BY <1>2 DEF Untouched, ExecInv
<1>. QED
  BY <1>1, <1>4, <1>5, InvParts

-----------------------------------------------------------------------------
(* One lemma per action.                                                   *)

LEMMA AcceptPreserves ==
    ASSUME EngineInv, NEW e \in Exec, NEW r \in Request, Accept(e, r)
    PROVE  EngineInv'
<1>1. TypeOK'
  BY DEF EngineInv, Accept, TypeOK, Status
<1>2. /\ Untouched(e) /\ Accepted(e)' /\ request'[e] = r
      /\ status'[e] = "created"
      /\ UNCHANGED <<attempts, results, checkpoints, dlq, deliveries, run>>
  BY EngineAssumption DEF EngineInv, Accept, Accepted, OnlyAcceptedTouched, TypeOK
<1>3. \A f \in Exec \ {e} : Same(f)
  BY DEF EngineInv, TypeOK, Accept, Same
<1>4. RunsExclusive'
  BY <1>2 DEF EngineInv, RunsExclusive
<1>5. RunsSound'
  <2>1. \A w \in Worker : run[w].exec # e
    BY DEF EngineInv, RunsSound, RunSound, Accept
  <2>. QED
    BY <2>1, <1>2, <1>3, RunFrame DEF EngineInv, RunsSound
<1>6. ExecInv(e)'
  <2>1. /\ results'[e] = {} /\ checkpoints'[e] = {} /\ dlq'[e] = {} /\ deliveries'[e] = 0
        /\ \A s \in Step : attempts'[e][s] = 0
    BY <1>2 DEF Untouched
  <2>. QED
    BY <1>2, <2>1 DEF ExecInv
<1>7. \A f \in Exec : ExecInv(f)'
  BY <1>3, <1>6, ExecFrame, InvParts
<1>. QED
  BY <1>1, <1>4, <1>5, <1>7, NextInvParts

LEMMA BeginPreserves ==
    ASSUME EngineInv, NEW w \in Worker, NEW e \in Exec,
           NEW m \in {"running", "recovered"}, Begin(w, e, m)
    PROVE  EngineInv'
<1>1. TypeOK'
  BY DEF EngineInv, Begin, TypeOK, durable, Run
<1>2. /\ UNCHANGED <<request, status, attempts, results, checkpoints, dlq>>
      /\ deliveries'[e] = deliveries[e] + 1 /\ deliveries[e] \in Nat
      /\ run'[w].exec = e /\ run'[w].batch = {}
      /\ \A v \in Worker \ {w} : run'[v] = run[v] /\ run[v].exec # e
  BY DEF EngineInv, Begin, durable, TypeOK, Locked
<1>3. \A f \in Exec \ {e} : Same(f)
  BY <1>2 DEF EngineInv, TypeOK, Begin, Same
<1>4. Accepted(e) /\ request[e] \in Request /\ status[e] # "completed" /\ ExecInv(e)
  BY InvParts DEF EngineInv, Begin, TypeOK, Accepted
<1>5. PlanOf(e).max \in Nat \ {0}
  BY <1>4, PlanTyped
<1>6. \A s \in Step : attempts[e][s] \in Nat /\ attempts[e][s] < PlanOf(e).max + deliveries'[e] - 1
  BY <1>2, <1>4, <1>5 DEF ExecInv, EngineInv, TypeOK
<1>7. RunsExclusive'
  BY <1>2 DEF EngineInv, RunsExclusive
<1>8. RunSound(w, e)'
  BY <1>2, <1>4, <1>6 DEF RunSound, Accepted, PlanOf
<1>9. RunsSound'
  BY <1>2, <1>3, <1>8, RunFrame DEF EngineInv, RunsSound
<1>10. ExecInv(e)'
  BY <1>2, <1>4, <1>5, <1>6 DEF ExecInv, Accepted, Remaining, Steps, PlanOf
<1>11. \A f \in Exec : ExecInv(f)'
  BY <1>3, <1>10, ExecFrame, InvParts
<1>. QED
  BY <1>1, <1>7, <1>9, <1>11, NextInvParts

(* A run gives up its lock: what is left is the executions' own invariant. *)
LEMMA ReleaseKeepsRuns ==
    ASSUME EngineInv, NEW w \in Worker, NEW e \in Exec, Running(w, e),
           Release(w), \A f \in Exec \ {e} : Same(f)
    PROVE  RunsExclusive' /\ RunsSound'
<1>1. /\ run'[w].exec = NoExec
      /\ \A v \in Worker \ {w} : run'[v] = run[v] /\ run[v].exec # e
  BY RunFacts DEF EngineInv, TypeOK, Release, Idle
<1>2. RunsExclusive'
  BY <1>1 DEF EngineInv, RunsExclusive
<1>3. RunsSound'
  BY <1>1, RunFrame, EngineAssumption DEF EngineInv, RunsSound
<1>. QED
  BY <1>2, <1>3

LEMMA SucceedsPreserves ==
    ASSUME EngineInv, NEW w \in Worker, NEW e \in Exec, NEW s \in Step, StepSucceeds(w, e, s)
    PROVE  EngineInv'
<1>1. TypeOK'
  <2>1. Batch(w, e) \subseteq Step
    BY RunFacts DEF StepSucceeds
  <2>2. run' \in [Worker -> Run]
    <3>1. run[w] \in Run
      BY DEF EngineInv, TypeOK
    <3>2. [run[w] EXCEPT !.batch = Batch(w, e) \ {s}] \in Run
      BY <2>1, <3>1 DEF Run
    <3>3. run' = [run EXCEPT ![w] = [run[w] EXCEPT !.batch = Batch(w, e) \ {s}]]
      BY DEF StepSucceeds
    <3>. QED
      BY <3>2, <3>3 DEF EngineInv, TypeOK
  <2>3. run[w].mode \in Status
    BY DEF EngineInv, TypeOK, Run, Status
  <2>4. status' \in [Exec -> Status]
    BY <2>3 DEF EngineInv, TypeOK, StepSucceeds
  <2>. QED
    BY <2>2, <2>4 DEF EngineInv, StepSucceeds, TypeOK, Attempted
<1>2. /\ Running(w, e) /\ s \in Batch(w, e)
      /\ request'[e] = request[e] /\ dlq'[e] = dlq[e] /\ deliveries'[e] = deliveries[e]
      /\ status'[e] \in {"running", "recovered"}
      /\ results'[e] = results[e] \cup {s} /\ checkpoints'[e] = checkpoints[e] \cup {s}
      /\ attempts'[e][s] = attempts[e][s] + 1
      /\ \A t \in Step \ {s} : attempts'[e][t] = attempts[e][t]
      /\ run'[w].exec = e /\ run'[w].batch = Batch(w, e) \ {s}
      /\ \A v \in Worker \ {w} : run'[v] = run[v]
  BY DEF EngineInv, StepSucceeds, TypeOK, Attempted, Run, Running, IsNext
<1>3. \A f \in Exec \ {e} : Same(f)
  BY DEF EngineInv, StepSucceeds, TypeOK, Attempted, Same
<1>4. /\ Accepted(e) /\ request[e] \in Request /\ RunSound(w, e) /\ ExecInv(e)
      /\ Batch(w, e) \subseteq Ready(e) /\ deliveries[e] \in Nat /\ deliveries[e] > 0
      /\ \A v \in Worker \ {w} : run[v].exec # e
  BY <1>2, RunFacts, InvParts
<1>5. s \in Ready(e) /\ s \notin results[e] /\ PlanOf(e).deps[s] \subseteq results[e]
  BY <1>2, <1>4 DEF Ready, Remaining
<1>6. PlanOf(e).max \in Nat \ {0} /\ attempts[e] \in [Step -> Nat]
  BY <1>4, PlanTyped DEF EngineInv, TypeOK
<1>7. RunsExclusive'
  BY <1>2, <1>4 DEF EngineInv, RunsExclusive
<1>8. RunSound(w, e)'
  <2>1. \A t \in Step \ results'[e] : attempts'[e][t] < PlanOf(e)'.max + deliveries'[e] - 1
    BY <1>2, <1>4 DEF RunSound, PlanOf
  <2>2. run'[w].batch \subseteq Ready(e)'
    BY <1>2, <1>4 DEF Ready, Remaining, Steps, PlanOf
  <2>. QED
    BY <2>1, <2>2, <1>2, <1>4 DEF RunSound, Accepted
<1>9. RunsSound'
  BY <1>2, <1>3, <1>4, <1>8, RunFrame DEF EngineInv, RunsSound
<1>10. ExecInv(e)'
  <2>1. \A t \in results'[e] : PlanOf(e)'.deps[t] \subseteq results'[e]
    BY <1>2, <1>4, <1>5 DEF ExecInv, PlanOf
  <2>2. \A t \in Step : attempts'[e][t] <= PlanOf(e)'.max + deliveries'[e] - 1
    <3>1. attempts[e][s] < PlanOf(e).max + deliveries[e] - 1
      BY <1>4, <1>5 DEF RunSound
    <3>2. \A t \in Step : attempts[e][t] <= PlanOf(e).max + deliveries[e] - 1
      BY <1>4 DEF ExecInv
    <3>. QED
      BY <3>1, <3>2, <1>2, <1>4, <1>6 DEF PlanOf
  <2>. QED
    BY <2>1, <2>2, <1>2, <1>4 DEF ExecInv, Accepted
<1>11. \A f \in Exec : ExecInv(f)'
  BY <1>3, <1>10, ExecFrame, InvParts
<1>. QED
  BY <1>1, <1>7, <1>9, <1>11, NextInvParts

LEMMA RetriesPreserves ==
    ASSUME EngineInv, NEW w \in Worker, NEW e \in Exec, NEW s \in Step, StepRetries(w, e, s)
    PROVE  EngineInv'
<1>1. TypeOK'
  <2>1. run' \in [Worker -> Run]
    BY DEF EngineInv, StepRetries, TypeOK, Run
  <2>. QED
    BY <2>1 DEF EngineInv, StepRetries, TypeOK, Attempted, Status
<1>2. /\ Running(w, e) /\ s \in Batch(w, e) /\ ~Exhausted(e, s)
      /\ request'[e] = request[e] /\ dlq'[e] = dlq[e] /\ deliveries'[e] = deliveries[e]
      /\ status'[e] = "retry_wait"
      /\ results'[e] = results[e] /\ checkpoints'[e] = checkpoints[e]
      /\ attempts'[e][s] = attempts[e][s] + 1
      /\ \A t \in Step \ {s} : attempts'[e][t] = attempts[e][t]
      /\ run'[w].exec = e /\ run'[w].batch = {}
      /\ \A v \in Worker \ {w} : run'[v] = run[v]
  BY DEF EngineInv, StepRetries, TypeOK, Attempted, Run, Running, IsNext
<1>3. \A f \in Exec \ {e} : Same(f)
  BY DEF EngineInv, StepRetries, TypeOK, Attempted, Same
<1>4. /\ Accepted(e) /\ request[e] \in Request /\ RunSound(w, e) /\ ExecInv(e)
      /\ deliveries[e] \in Nat /\ deliveries[e] > 0
      /\ \A v \in Worker \ {w} : run[v].exec # e
  BY <1>2, RunFacts, InvParts
<1>5. PlanOf(e).max \in Nat \ {0} /\ attempts[e] \in [Step -> Nat]
  BY <1>4, PlanTyped DEF EngineInv, TypeOK
<1>6. attempts'[e][s] < PlanOf(e).max
  BY <1>2, <1>5 DEF Exhausted
<1>7. RunsExclusive'
  BY <1>2, <1>4 DEF EngineInv, RunsExclusive
<1>8. RunSound(w, e)'
  <2>1. \A t \in Step \ results'[e] : attempts'[e][t] < PlanOf(e)'.max + deliveries'[e] - 1
    BY <1>2, <1>4, <1>5, <1>6 DEF RunSound, PlanOf
  <2>. QED
    BY <2>1, <1>2, <1>4 DEF RunSound, Accepted
<1>9. RunsSound'
  BY <1>2, <1>3, <1>4, <1>8, RunFrame DEF EngineInv, RunsSound
<1>10. ExecInv(e)'
  <2>1. \A t \in Step : attempts'[e][t] <= PlanOf(e)'.max + deliveries'[e] - 1
    <3>1. \A t \in Step : attempts[e][t] <= PlanOf(e).max + deliveries[e] - 1
      BY <1>4 DEF ExecInv
    <3>. QED
      BY <3>1, <1>2, <1>4, <1>5, <1>6 DEF PlanOf
  <2>. QED
    BY <2>1, <1>2, <1>4 DEF ExecInv, Accepted, PlanOf
<1>11. \A f \in Exec : ExecInv(f)'
  BY <1>3, <1>10, ExecFrame, InvParts
<1>. QED
  BY <1>1, <1>7, <1>9, <1>11, NextInvParts

LEMMA DeadLettersPreserves ==
    ASSUME EngineInv, NEW w \in Worker, NEW e \in Exec, NEW s \in Step,
           StepDeadLetters(w, e, s)
    PROVE  EngineInv'
<1> DEFINE letter == [step |-> s, attempts |-> attempts[e][s] + 1]
<1>1. TypeOK'
  <2>1. letter \in Letter
    BY DEF EngineInv, TypeOK, Letter
  <2>2. run' \in [Worker -> Run]
    BY DEF EngineInv, StepDeadLetters, Release, Idle, TypeOK, Run
  <2>3. dlq' \in [Exec -> SUBSET Letter]
    BY <2>1 DEF EngineInv, StepDeadLetters, TypeOK
  <2>. QED
    BY <2>2, <2>3 DEF EngineInv, StepDeadLetters, TypeOK, Attempted, Status
<1>2. /\ Running(w, e) /\ s \in Batch(w, e) /\ Exhausted(e, s) /\ Release(w)
      /\ request'[e] = request[e] /\ deliveries'[e] = deliveries[e]
      /\ dlq'[e] = dlq[e] \cup {letter}
      /\ status'[e] = "dead_letter"
      /\ results'[e] = results[e] /\ checkpoints'[e] = checkpoints[e]
      /\ attempts'[e][s] = attempts[e][s] + 1
      /\ \A t \in Step \ {s} : attempts'[e][t] = attempts[e][t]
  BY DEF EngineInv, StepDeadLetters, TypeOK, Attempted, Running, IsNext
<1>3. \A f \in Exec \ {e} : Same(f)
  BY DEF EngineInv, StepDeadLetters, TypeOK, Attempted, Same
<1>4. /\ Accepted(e) /\ request[e] \in Request /\ RunSound(w, e) /\ ExecInv(e)
      /\ Batch(w, e) \subseteq Ready(e) /\ deliveries[e] \in Nat /\ deliveries[e] > 0
  BY <1>2, RunFacts, InvParts
<1>5. PlanOf(e).max \in Nat \ {0} /\ attempts[e] \in [Step -> Nat]
  BY <1>4, PlanTyped DEF EngineInv, TypeOK
<1>6. s \in Remaining(e) /\ s \notin results[e]
  BY <1>2, <1>4 DEF Ready, Remaining
<1>7. RunsExclusive' /\ RunsSound'
  BY <1>2, <1>3, ReleaseKeepsRuns
<1>8. ExecInv(e)'
  <2>1. \A t \in Step : attempts'[e][t] <= PlanOf(e)'.max + deliveries'[e] - 1
    <3>1. \A t \in Step : attempts[e][t] <= PlanOf(e).max + deliveries[e] - 1
      BY <1>4 DEF ExecInv
    <3>2. attempts[e][s] < PlanOf(e).max + deliveries[e] - 1
      BY <1>4, <1>6 DEF RunSound
    <3>. QED
      BY <3>1, <3>2, <1>2, <1>4, <1>5 DEF PlanOf
  <2>2. /\ letter \in dlq'[e] /\ letter.step \in Remaining(e)'
        /\ letter.attempts = attempts'[e][letter.step]
        /\ letter.attempts >= PlanOf(e)'.max
    BY <1>2, <1>6 DEF Exhausted, Remaining, Steps, PlanOf
  <2>3. \E l \in dlq'[e] : /\ l.step \in Remaining(e)'
                           /\ l.attempts = attempts'[e][l.step]
                           /\ l.attempts >= PlanOf(e)'.max
    BY <2>2
  <2>4. \A t \in results'[e] : PlanOf(e)'.deps[t] \subseteq results'[e]
    BY <1>2, <1>4 DEF ExecInv, PlanOf
  <2>. QED
    BY <2>1, <2>3, <2>4, <1>2, <1>4 DEF ExecInv, Accepted
<1>9. \A f \in Exec : ExecInv(f)'
  BY <1>3, <1>8, ExecFrame, InvParts
<1>. QED
  BY <1>1, <1>7, <1>9, NextInvParts

LEMMA RaisesPreserves ==
    ASSUME EngineInv, NEW w \in Worker, NEW e \in Exec, NEW s \in Step, StepRaises(w, e, s)
    PROVE  EngineInv'
<1>1. TypeOK'
  BY DEF EngineInv, StepRaises, Release, Idle, TypeOK, Run, durable
<1>2. \A f \in Exec : Same(f)
  BY DEF StepRaises, Same, durable
<1>3. RunsExclusive' /\ RunsSound'
  BY <1>2, ReleaseKeepsRuns DEF StepRaises
<1>4. \A f \in Exec : ExecInv(f)'
  BY <1>2, ExecFrame, InvParts
<1>. QED
  BY <1>1, <1>3, <1>4, NextInvParts

LEMMA CompletesPreserves ==
    ASSUME EngineInv, NEW w \in Worker, NEW e \in Exec, RunCompletes(w, e)
    PROVE  EngineInv'
<1>1. TypeOK'
  BY DEF EngineInv, RunCompletes, Release, Idle, TypeOK, Run, Status
<1>2. \A f \in Exec \ {e} : Same(f)
  BY DEF EngineInv, RunCompletes, TypeOK, Same
<1>3. RunsExclusive' /\ RunsSound'
  BY <1>2, ReleaseKeepsRuns DEF RunCompletes
<1>4. /\ status'[e] = "completed" /\ Remaining(e) = {} /\ Accepted(e)
      /\ UNCHANGED <<request, attempts, results, checkpoints, dlq, deliveries>>
  BY RunFacts DEF EngineInv, RunCompletes, TypeOK
<1>5. ExecInv(e)'
  BY <1>4, InvParts DEF ExecInv, Accepted, Remaining, Steps, PlanOf
<1>6. \A f \in Exec : ExecInv(f)'
  BY <1>2, <1>5, ExecFrame, InvParts
<1>. QED
  BY <1>1, <1>3, <1>6, NextInvParts

LEMMA StuckPreserves ==
    ASSUME EngineInv, NEW w \in Worker, NEW e \in Exec, RunStuck(w, e)
    PROVE  EngineInv'
<1>1. TypeOK'
  BY DEF EngineInv, RunStuck, Release, Idle, TypeOK, Run, Status
<1>2. \A f \in Exec \ {e} : Same(f)
  BY DEF EngineInv, RunStuck, TypeOK, Same
<1>3. RunsExclusive' /\ RunsSound'
  BY <1>2, ReleaseKeepsRuns DEF RunStuck
<1>4. /\ status'[e] = "failed" /\ Accepted(e)
      /\ UNCHANGED <<request, attempts, results, checkpoints, dlq, deliveries>>
  BY RunFacts DEF EngineInv, RunStuck, TypeOK
<1>5. ExecInv(e)'
  BY <1>4, InvParts DEF ExecInv, Accepted, Remaining, Steps, PlanOf
<1>6. \A f \in Exec : ExecInv(f)'
  BY <1>2, <1>5, ExecFrame, InvParts
<1>. QED
  BY <1>1, <1>3, <1>6, NextInvParts

LEMMA AbortPreserves ==
    ASSUME EngineInv, NEW w \in Worker, Abort(w)
    PROVE  EngineInv'
<1>1. TypeOK'
  BY DEF EngineInv, Abort, Release, Idle, TypeOK, Run, durable
<1>2. \A f \in Exec : Same(f)
  BY DEF Abort, Same, durable
<1>3. run'[w].exec = NoExec /\ \A v \in Worker \ {w} : run'[v] = run[v]
  BY DEF EngineInv, TypeOK, Abort, Release, Idle
<1>4. RunsExclusive'
  BY <1>3 DEF EngineInv, RunsExclusive
<1>5. RunsSound'
  BY <1>2, <1>3, RunFrame, EngineAssumption DEF EngineInv, RunsSound
<1>6. \A f \in Exec : ExecInv(f)'
  BY <1>2, ExecFrame, InvParts
<1>. QED
  BY <1>1, <1>4, <1>5, <1>6, NextInvParts

LEMMA RetryPreserves ==
    ASSUME EngineInv, NEW e \in Exec, Retry(e)
    PROVE  EngineInv'
<1>1. TypeOK'
  <2>1. [t \in Step |-> IF FirstIncomplete(e, t) THEN 0 ELSE attempts[e][t]] \in [Step -> Nat]
    BY DEF EngineInv, TypeOK
  <2>. QED
    BY <2>1 DEF EngineInv, Retry, TypeOK, Status
<1>2. \A f \in Exec \ {e} : Same(f)
  BY DEF EngineInv, Retry, TypeOK, Same
<1>3. /\ \A v \in Worker : run[v].exec # e
      /\ status'[e] = "created" /\ dlq'[e] = {} /\ status[e] # "absent"
      /\ \A t \in Step : attempts'[e][t] \in {0, attempts[e][t]}
      /\ UNCHANGED <<request, results, checkpoints, deliveries, run>>
  BY DEF EngineInv, Retry, TypeOK, Locked
<1>4. Accepted(e) /\ request[e] \in Request /\ ExecInv(e) /\ deliveries[e] \in Nat
  BY <1>3, InvParts DEF ExecInv, Untouched, EngineInv, TypeOK, Accepted
<1>5. PlanOf(e).max \in Nat \ {0} /\ attempts[e] \in [Step -> Nat]
  BY <1>4, PlanTyped DEF EngineInv, TypeOK
<1>6. RunsExclusive' /\ RunsSound'
  BY <1>2, <1>3, RunFrame DEF EngineInv, RunsExclusive, RunsSound
<1>7. ExecInv(e)'
  <2>1. \A t \in Step : attempts'[e][t] <=
            IF deliveries[e] = 0 THEN 0 ELSE PlanOf(e).max + deliveries[e] - 1
    BY <1>3, <1>4, <1>5 DEF ExecInv
  <2>. QED
    BY <2>1, <1>3, <1>4 DEF ExecInv, Accepted, PlanOf
<1>8. \A f \in Exec : ExecInv(f)'
  BY <1>2, <1>7, ExecFrame, InvParts
<1>. QED
  BY <1>1, <1>6, <1>8, NextInvParts

LEMMA RecoverPreserves ==
    ASSUME EngineInv, NEW e \in Exec, Recover(e)
    PROVE  EngineInv'
<1>1. TypeOK'
  BY DEF EngineInv, Recover, TypeOK, Status
<1>2. \A f \in Exec \ {e} : Same(f)
  BY DEF EngineInv, Recover, TypeOK, Same
<1>3. /\ \A v \in Worker : run[v].exec # e
      /\ status'[e] = "recovered" /\ checkpoints[e] # {}
      /\ UNCHANGED <<request, attempts, results, checkpoints, dlq, deliveries, run>>
  BY DEF EngineInv, Recover, TypeOK, Locked
<1>4. Accepted(e) /\ ExecInv(e)
  BY <1>3, InvParts DEF ExecInv, Untouched
<1>5. RunsExclusive' /\ RunsSound'
  BY <1>2, <1>3, RunFrame DEF EngineInv, RunsExclusive, RunsSound
<1>6. ExecInv(e)'
  BY <1>3, <1>4 DEF ExecInv, Accepted, PlanOf
<1>7. \A f \in Exec : ExecInv(f)'
  BY <1>2, <1>6, ExecFrame, InvParts
<1>. QED
  BY <1>1, <1>5, <1>7, NextInvParts

-----------------------------------------------------------------------------
LEMMA NextPreserves == EngineInv /\ [Next]_vars => EngineInv'
<1> SUFFICES ASSUME EngineInv, [Next]_vars PROVE EngineInv'
  OBVIOUS
<1>1. CASE UNCHANGED vars
  <2>1. TypeOK' /\ RunsExclusive' /\ \A f \in Exec : Same(f)
    BY <1>1 DEF EngineInv, vars, TypeOK, RunsExclusive, Same
  <2>2. RunsSound'
    BY <1>1, <2>1, RunFrame DEF EngineInv, vars, RunsSound
  <2>3. \A f \in Exec : ExecInv(f)'
    BY <2>1, ExecFrame, InvParts
  <2>. QED
    BY <2>1, <2>2, <2>3, NextInvParts
<1>2. ASSUME NEW e \in Exec, NEW r \in Request, Accept(e, r) PROVE EngineInv'
  BY <1>2, AcceptPreserves
<1>3. ASSUME NEW w \in Worker, NEW e \in Exec, NEW m \in {"running", "recovered"},
             Begin(w, e, m)
      PROVE  EngineInv'
  BY <1>3, BeginPreserves
<1>4. ASSUME NEW w \in Worker, NEW e \in Exec, RunStep(w, e) PROVE EngineInv'
  BY <1>4, SucceedsPreserves, RetriesPreserves, DeadLettersPreserves, RaisesPreserves,
     CompletesPreserves, StuckPreserves DEF RunStep
<1>5. ASSUME NEW w \in Worker, Abort(w) PROVE EngineInv'
  BY <1>5, AbortPreserves
<1>6. ASSUME NEW e \in Exec, Retry(e) \/ Recover(e) PROVE EngineInv'
  BY <1>6, RetryPreserves, RecoverPreserves
<1>. QED
  BY <1>1, <1>2, <1>3, <1>4, <1>5, <1>6 DEF Next

(* Every reachable state of the engine is well typed and consistent, for   *)
(* any number of instances, executions and steps.                          *)
THEOREM EngineInvariant == Spec => []EngineInv
BY InitEstablishes, NextPreserves, PTL DEF Spec

(* Type correctness of the store and of what the instances hold.           *)
THEOREM TypeCorrect == Spec => []TypeOK
<1>1. EngineInv => TypeOK
  BY DEF EngineInv
<1>. QED
  BY <1>1, EngineInvariant, PTL

(* Results and checkpoints agree at every instant a crash may strike, so   *)
(* what a new run reads is what the cut-short run had committed.           *)
THEOREM ResumeIsExact == Spec => [](CheckpointsMatchResults /\ DependenciesFirst)
<1>1. EngineInv => CheckpointsMatchResults /\ DependenciesFirst
  BY DEF EngineInv
<1>. QED
  BY <1>1, EngineInvariant, PTL

(* The terminal statuses mean what they say: completed has every step, a   *)
(* dead letter names a missing step at its exhausted counter.              *)
THEOREM TerminalStatusesSound ==
    Spec => [](CompletedHasAllSteps /\ DeadLetterExplained /\ CreatedHasNoLetters)
<1>1. EngineInv => CompletedHasAllSteps /\ DeadLetterExplained /\ CreatedHasNoLetters
  BY DEF EngineInv
<1>. QED
  BY <1>1, EngineInvariant, PTL

(* Redelivery costs at most one attempt per extra hand-over.               *)
THEOREM AttemptsBounded == Spec => []AttemptsAccounted
<1>1. EngineInv => AttemptsAccounted
  BY DEF EngineInv
<1>. QED
  BY <1>1, EngineInvariant, PTL

LEMMA StepKeepsCheckpointed ==
    ASSUME EngineInv, [Next]_vars, NEW f \in Exec, NEW t \in results[f]
    PROVE  t \in results'[f] /\ attempts'[f][t] = attempts[f][t]
<1> USE DEF EngineInv, TypeOK
<1>1. t \in Step
  OBVIOUS
<1>2. CASE UNCHANGED <<attempts, results>>
  BY <1>2
<1>3. ASSUME NEW w \in Worker, NEW e \in Exec, NEW s \in Step,
             StepSucceeds(w, e, s) \/ StepRetries(w, e, s) \/ StepDeadLetters(w, e, s)
      PROVE  t \in results'[f] /\ attempts'[f][t] = attempts[f][t]
  <2>1. s \notin results[e]
    BY <1>3, RunFacts DEF StepSucceeds, StepRetries, StepDeadLetters, IsNext, Ready, Remaining
  <2>2. /\ attempts' = [attempts EXCEPT ![e][s] = @ + 1]
        /\ results' = results \/ results' = [results EXCEPT ![e] = @ \cup {s}]
    BY <1>3 DEF StepSucceeds, StepRetries, StepDeadLetters, Attempted
  <2>3. t \in results'[f]
    BY <2>2
  <2>4. f # e \/ t # s
    BY <2>1
  <2>. QED
    BY <2>2, <2>3, <2>4, <1>1
<1>4. ASSUME NEW e \in Exec, Retry(e)
      PROVE  t \in results'[f] /\ attempts'[f][t] = attempts[f][t]
  <2>1. \A s \in Step : FirstIncomplete(e, s) => s \notin results[e]
    BY DEF FirstIncomplete
  <2>. QED
    BY <1>1, <1>4, <2>1 DEF Retry
<1>5. ASSUME NEW e \in Exec, Recover(e)
      PROVE  t \in results'[f] /\ attempts'[f][t] = attempts[f][t]
  BY <1>5, <1>2 DEF Recover
<1>. QED
  BY <1>2, <1>3, <1>4, <1>5 DEF Next, RunStep, Accept, Begin, durable, StepRaises,
     RunCompletes, RunStuck, Abort, vars

(* A checkpointed step is never run again, whatever is redelivered,        *)
(* retried, recovered or cut short.                                        *)
THEOREM CheckpointsAreFinal == Spec => CheckpointedStepsFrozen
<1>1. EngineInv /\ [Next]_vars =>
        [\A e \in Exec : \A s \in results[e] :
           s \in results'[e] /\ attempts'[e][s] = attempts[e][s]]_vars
  BY StepKeepsCheckpointed
<1>. QED
  BY <1>1, EngineInvariant, PTL DEF Spec, CheckpointedStepsFrozen

-----------------------------------------------------------------------------
(* Refinement of the life cycle: each engine step is a life-cycle step of  *)
(* one execution or leaves the status and the existence of checkpoints.    *)

LEMMA InitRefines == Init => Lifecycle!LifeInit
BY DEF Init, Lifecycle!LifeInit

LEMMA StepRefines ==
    EngineInv /\ [Next]_vars => [Lifecycle!LifeNext]_(Lifecycle!lifeVars)
<1> SUFFICES ASSUME EngineInv, [Next]_vars
             PROVE  Lifecycle!LifeNext \/ UNCHANGED <<status, [e \in Exec |-> checkpoints[e] # {}]>>
  BY DEF Lifecycle!lifeVars
<1> DEFINE saved == [e \in Exec |-> checkpoints[e] # {}]
<1>1. CASE UNCHANGED <<status, checkpoints>>
  BY <1>1
<1>2. ASSUME NEW e \in Exec, NEW r \in Request, Accept(e, r) PROVE Lifecycle!LifeNext
  <2>1. status[e] = "absent"
    BY <1>2 DEF EngineInv, OnlyAcceptedTouched, Accept, Untouched
  <2>2. Lifecycle!Accepting(e)
    BY <1>2, <2>1 DEF Accept, Lifecycle!Accepting, Lifecycle!Move
  <2>. QED
    BY <2>2 DEF Lifecycle!LifeNext
<1>3. ASSUME NEW w \in Worker, NEW e \in Exec, Running(w, e) PROVE Lifecycle!Workable(e)
  BY <1>3, RunFacts DEF RunSound, Lifecycle!Workable, EngineInv, OnlyAcceptedTouched
<1>4. ASSUME NEW w \in Worker, NEW e \in Exec, NEW s \in Step, StepSucceeds(w, e, s)
      PROVE  Lifecycle!LifeNext
  <2>1. saved' = [saved EXCEPT ![e] = TRUE]
    BY <1>4 DEF StepSucceeds, EngineInv, TypeOK
  <2>2. run[w].mode \in {"running", "recovered"}
    BY DEF EngineInv, TypeOK, Run
  <2>3. Lifecycle!Progressing(e)
    BY <1>3, <1>4, <2>1, <2>2 DEF StepSucceeds, Lifecycle!Progressing, Lifecycle!Move
  <2>. QED
    BY <2>3 DEF Lifecycle!LifeNext
<1>5. ASSUME NEW w \in Worker, NEW e \in Exec, NEW s \in Step, StepRetries(w, e, s)
      PROVE  Lifecycle!LifeNext
  <2>1. Lifecycle!Progressing(e)
    BY <1>3, <1>5 DEF StepRetries, Lifecycle!Progressing, Lifecycle!Move
  <2>. QED
    BY <2>1 DEF Lifecycle!LifeNext
<1>6. ASSUME NEW w \in Worker, NEW e \in Exec,
             \/ \E s \in Step : StepDeadLetters(w, e, s)
             \/ RunCompletes(w, e) \/ RunStuck(w, e)
      PROVE  Lifecycle!LifeNext
  <2>1. Lifecycle!Settling(e)
    BY <1>3, <1>6 DEF StepDeadLetters, RunCompletes, RunStuck, Lifecycle!Settling,
       Lifecycle!Move, Lifecycle!Outcome
  <2>. QED
    BY <2>1 DEF Lifecycle!LifeNext
<1>7. ASSUME NEW e \in Exec, Retry(e) PROVE Lifecycle!LifeNext
  <2>1. Lifecycle!Retrying(e)
    BY <1>7 DEF Retry, Lifecycle!Retrying, Lifecycle!Move
  <2>. QED
    BY <2>1 DEF Lifecycle!LifeNext
<1>8. ASSUME NEW e \in Exec, Recover(e) PROVE Lifecycle!LifeNext
  <2>1. Lifecycle!Recovering(e)
    BY <1>8 DEF Recover, Lifecycle!Recovering, Lifecycle!Move
  <2>. QED
    BY <2>1 DEF Lifecycle!LifeNext
<1>9. ASSUME NEW w \in Worker, NEW e \in Exec, RunStep(w, e)
      PROVE  Lifecycle!LifeNext \/ UNCHANGED <<status, checkpoints>>
  BY <1>4, <1>5, <1>6, <1>9 DEF RunStep, StepRaises, durable
<1>. QED
  BY <1>1, <1>2, <1>7, <1>8, <1>9 DEF Next, Begin, Abort, durable, vars

(* The engine implements ExecutionLifecycle, for every instance set.       *)
THEOREM EngineImplementsLifecycle == Spec => ImplementsLifecycle
BY InitRefines, StepRefines, EngineInvariant, PTL DEF Spec, ImplementsLifecycle, Lifecycle!LifeSpec

(* An execution that was accepted remains, a checkpoint is never taken     *)
(* back, and what is completed is left only by an operator's recovery.     *)
CompletionHolds(e) ==
    /\ status[e] # "absent" => status'[e] # "absent"
    /\ checkpoints[e] # {} => checkpoints'[e] # {}
    /\ status[e] = "completed" /\ status'[e] # "completed" => status'[e] = "recovered" /\ checkpoints[e] # {}

(* No run, abort, retry or duplicate acceptance reopens what is completed. *)
THEOREM CompletedIsNotReopened == Spec => [][\A e \in Exec : CompletionHolds(e)]_vars
<1>1. ASSUME EngineInv, [Next]_vars, NEW e \in Exec
      PROVE  CompletionHolds(e)
  <2> DEFINE saved == [x \in Exec |-> checkpoints[x] # {}]
  <2>1. status \in [Exec -> Status]
    BY <1>1 DEF EngineInv, TypeOK
  <2>2. saved[e] = (checkpoints[e] # {}) /\ saved'[e] = (checkpoints'[e] # {})
    OBVIOUS
  <2>3. Lifecycle!LifeNext \/ (status' = status /\ saved' = saved)
    BY <1>1, StepRefines DEF Lifecycle!lifeVars
  <2>4. CASE status' = status /\ saved' = saved
    BY <2>2, <2>4 DEF CompletionHolds
  <2>5. ASSUME NEW x \in Exec,
               \/ Lifecycle!Accepting(x) \/ Lifecycle!Progressing(x) \/ Lifecycle!Settling(x)
               \/ Lifecycle!Retrying(x) \/ Lifecycle!Recovering(x)
        PROVE  /\ status[e] # "absent" => status'[e] # "absent"
               /\ saved[e] => saved'[e]
               /\ status[e] = "completed" /\ status'[e] # "completed" =>
                     status'[e] = "recovered" /\ saved[e]
    BY <2>1, <2>5 DEF Lifecycle!Accepting, Lifecycle!Progressing, Lifecycle!Settling,
       Lifecycle!Retrying, Lifecycle!Recovering, Lifecycle!Move, Lifecycle!Workable, Lifecycle!Outcome
  <2> HIDE DEF saved
  <2> QED
    BY <2>2, <2>3, <2>4, <2>5 DEF Lifecycle!LifeNext, CompletionHolds
<1>2. EngineInv /\ [Next]_vars => \A e \in Exec : CompletionHolds(e)
  BY <1>1
<1> QED
  BY <1>2, EngineInvariant, PTL DEF Spec
=============================================================================
