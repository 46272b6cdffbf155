-------------------------- MODULE CpuSimulatorProofs --------------------------
(* Theorems about CpuSimulator, for any number of instances and any bounds *)
(* on forecasts, events and faults.  SimulatorInv is inductive: whoever    *)
(* works with a connection holds the lock, so what it has read of the      *)
(* memory is not changed by anybody else.                                  *)
EXTENDS CpuSimulator, FiniteSetTheorems, TLAPS

(* Nothing has been forecast yet.                                          *)
LEMMA SimulatorInitially == Init => SimulatorInv
BY SimulatorAssumption
DEF Init, SimulatorInv, TypeOK, Exclusive, OneOpen, OutcomeOnce, ReadsAreFresh,
    LinksAmongResolved, Pending, Forecast, CycleSteps, Locked

(* Both ends of a pair are where they should be.                           *)
LEMMA PairEnds ==
    ASSUME NEW A, NEW B, NEW l \in A \X B
    PROVE  l[1] \in A /\ l[2] \in B
OBVIOUS

(* Every action keeps the types.                                           *)
LEMMA TypesKept == ASSUME SimulatorInv, [Next]_vars PROVE TypeOK'
<1> USE SimulatorAssumption
<1> USE DEF SimulatorInv, TypeOK, CycleSteps, Locked, Goto, At, server, ingest, cycle, memory
<1>1. ASSUME NEW i \in Instance, Boot(i) PROVE TypeOK'
  BY <1>1 DEF Boot
<1>2. ASSUME NEW i \in Instance, Bind(i) PROVE TypeOK'
  BY <1>2 DEF Bind
<1>3. ASSUME NEW i \in Instance, Seeded(i) PROVE TypeOK'
  BY <1>3 DEF Seeded
<1>4. ASSUME NEW i \in Instance, Signal(i) PROVE TypeOK'
  BY <1>4 DEF Signal
<1>5. ASSUME NEW i \in Instance, Exit(i) PROVE TypeOK'
  BY <1>5 DEF Exit, Off
<1>6. ASSUME NEW i \in Instance, Enqueue(i) PROVE TypeOK'
  BY <1>6 DEF Enqueue
<1>7. ASSUME NEW i \in Instance, Process(i) PROVE TypeOK'
  BY <1>7 DEF Process
<1>8. ASSUME NEW i \in Instance, Processed(i) PROVE TypeOK'
  BY <1>8 DEF Processed
<1>9. ASSUME NEW i \in Instance, Tick(i) PROVE TypeOK'
  BY <1>9 DEF Tick
<1>10. ASSUME NEW i \in Instance, TryLock(i) PROVE TypeOK'
  BY <1>10 DEF TryLock
<1>11. ASSUME NEW i \in Instance, ReadPending(i) PROVE TypeOK'
  BY <1>11 DEF ReadPending, Pending, Forecast
<1>12. ASSUME NEW i \in Instance, Recover(i) PROVE TypeOK'
  <2>1. CASE todo[i] = {} /\ pc' = [pc EXCEPT ![i] = "predict"] /\ UNCHANGED <<todo, outcomes>>
    BY <1>12, <2>1 DEF Recover
  <2>2. ASSUME NEW p \in todo[i],
               outcomes' = [outcomes EXCEPT ![p] = IF @ = <<>> THEN <<"recovery">> ELSE @],
               todo' = [todo EXCEPT ![i] = @ \ {p}], pc' = pc
        PROVE  TypeOK'
    <3>1. <<"recovery">> \in Seq({"simulation", "recovery"})
      OBVIOUS
    <3>2. outcomes' \in [Forecast -> Seq({"simulation", "recovery"})]
      BY <2>2, <3>1
    <3> QED
      BY <1>12, <2>2, <3>2 DEF Recover
  <2> QED
    BY <1>12, <2>1, <2>2 DEF Recover
<1>13. ASSUME NEW i \in Instance, Predict(i) PROVE TypeOK'
  <2>1. last' \in 0 .. MaxForecast /\ mine' \in [Instance -> 0 .. MaxForecast]
    BY <1>13 DEF Predict
  <2> QED
    BY <1>13, <2>1 DEF Predict
<1>14. ASSUME NEW i \in Instance, Observe(i) PROVE TypeOK'
  BY <1>14 DEF Observe
<1>15. ASSUME NEW i \in Instance, RecordOutcome(i) PROVE TypeOK'
  <2>1. mine[i] \in Forecast
    BY <1>15 DEF RecordOutcome, ReadsAreFresh, Pending, Forecast
  <2>2. Append(outcomes[mine[i]], "simulation") \in Seq({"simulation", "recovery"})
    BY <2>1
  <2>3. outcomes' \in [Forecast -> Seq({"simulation", "recovery"})]
    BY <1>15, <2>1, <2>2 DEF RecordOutcome
  <2> QED
    BY <1>15, <2>3 DEF RecordOutcome
<1>16. ASSUME NEW i \in Instance, Epilogue(i) PROVE TypeOK'
  <2>1. PICK linked \in SUBSET (1 .. mine[i] - 1) : links' = links \cup (linked \X {mine[i]})
    BY <1>16 DEF Epilogue
  <2>2. \A a \in linked : mine[i] \in Forecast /\ a \in Forecast
    BY <2>1 DEF Forecast
  <2>3. links' \subseteq Forecast \X Forecast
    <3> SUFFICES ASSUME NEW l \in linked \X {mine[i]} PROVE l \in Forecast \X Forecast
      BY <2>1
    <3> QED
      BY <2>2
  <2> QED
    BY <1>16, <2>3 DEF Epilogue
<1>17. ASSUME NEW i \in Instance, Unlock(i) PROVE TypeOK'
  BY <1>17 DEF Unlock, Over
<1>18. ASSUME NEW i \in Instance, FailQuietly(i) PROVE TypeOK'
  <2>1. CASE Over(i)
    BY <1>18, <2>1 DEF FailQuietly, Over
  <2>2. CASE pc' = [pc EXCEPT ![i] = "unlock"] /\ UNCHANGED <<conn, todo, mine>>
    BY <1>18, <2>2 DEF FailQuietly
  <2> QED
    BY <1>18, <2>1, <2>2 DEF FailQuietly
<1>19. ASSUME NEW i \in Instance, Fail(i) PROVE TypeOK'
  BY <1>19 DEF Fail
<1>20. ASSUME NEW i \in Instance, Disconnect(i) PROVE TypeOK'
  BY <1>20 DEF Disconnect, Released
<1>21. ASSUME NEW i \in Instance, Crash(i) PROVE TypeOK'
  BY <1>21 DEF Crash, Off, Over, Released
<1>22. CASE SessionEnds
  BY <1>22 DEF SessionEnds
<1>23. CASE UNCHANGED vars
  BY <1>23 DEF vars
<1> QED
  BY <1>1, <1>2, <1>3, <1>4, <1>5, <1>6, <1>7, <1>8, <1>9, <1>10, <1>11, <1>12,
     <1>13, <1>14, <1>15, <1>16, <1>17, <1>18, <1>19, <1>20, <1>21, <1>22, <1>23
  DEF Next, Life, Step

(* Every action keeps the rest.                                            *)
LEMMA MemoryKept ==
    ASSUME SimulatorInv, [Next]_vars
    PROVE  (Exclusive /\ OneOpen /\ OutcomeOnce /\ ReadsAreFresh /\ LinksAmongResolved)'
<1> DEFINE Sound == Exclusive /\ OneOpen /\ OutcomeOnce /\ ReadsAreFresh /\ LinksAmongResolved
<1> SUFFICES Sound'
  OBVIOUS
<1> USE SimulatorAssumption
<1> USE DEF SimulatorInv, TypeOK, Exclusive, OneOpen, OutcomeOnce, ReadsAreFresh, LinksAmongResolved,
            CycleSteps, Locked, Goto, At, Over, cycle, memory
<1>a. \A l \in links : l[1] \in Forecast /\ l[2] \in Forecast
  BY PairEnds
<1>b. last \in Nat /\ MaxForecast \in Nat /\ last <= MaxForecast
  OBVIOUS
<1>0. ASSUME UNCHANGED <<last, outcomes>> PROVE Pending' = Pending
  BY <1>0 DEF Pending
<1>1. CASE UNCHANGED <<cycle, lock, memory>>
  BY <1>0, <1>1
<1>2. ASSUME NEW i \in Instance, Tick(i) PROVE Sound'
  BY <1>0, <1>2 DEF Tick
<1>3. ASSUME NEW i \in Instance, TryLock(i) PROVE Sound'
  <2>1. CASE lock = NoOne /\ lock' = i /\ pc' = [pc EXCEPT ![i] = "read"]
    BY <1>0, <1>3, <2>1 DEF TryLock
  <2>2. CASE lock' = lock /\ pc' = [pc EXCEPT ![i] = "idle"]
    BY <1>0, <1>3, <2>2 DEF TryLock
  <2> QED
    BY <1>3, <2>1, <2>2 DEF TryLock
<1>4. ASSUME NEW i \in Instance, ReadPending(i) PROVE Sound'
  <2> DEFINE Older(p) == Cardinality({q \in Pending : q < p})
  <2>1. ASSUME NEW p \in Pending PROVE Older(p) = 0
    <3>1. {q \in Pending : q < p} = {}
      BY DEF Pending
    <3> QED
      BY <3>1, FS_EmptySet
  <2>2. todo' = [todo EXCEPT ![i] = {p \in Pending : Older(p) < Limit}]
    BY <1>4 DEF ReadPending
  <2> HIDE DEF Older
  <2>3. {p \in Pending : Older(p) < Limit} = Pending
    BY <2>1
  <2>4. todo' = [todo EXCEPT ![i] = Pending]
    BY <2>2, <2>3
  <2>5. Pending' = Pending
    BY <1>0, <1>4 DEF ReadPending
  <2>6. \A j \in Instance : conn[j] /\ pc[j] \in Locked => j = i
    BY <1>4 DEF ReadPending
  <2>7. /\ pc' = [pc EXCEPT ![i] = "recover"]
        /\ UNCHANGED <<conn, mine, lock, last, outcomes, links>>
    BY <1>4 DEF ReadPending
  <2>8. OutcomeOnce' /\ LinksAmongResolved'
    BY <2>7
  <2>9. todo'[i] = Pending' /\ \A j \in Instance : j # i => pc'[j] = pc[j]
    BY <2>4, <2>5, <2>7
  <2>10. OneOpen' /\ Exclusive'
    BY <1>4, <2>5, <2>7 DEF ReadPending
  <2>11. ReadsAreFresh'
    BY <2>5, <2>6, <2>7, <2>9
  <2> QED
    BY <2>8, <2>10, <2>11
<1>5. ASSUME NEW i \in Instance, Recover(i) PROVE Sound'
  <2>1. \A j \in Instance : conn[j] /\ pc[j] \in Locked => j = i
    BY <1>5 DEF Recover
  <2>2. CASE todo[i] = {} /\ pc' = [pc EXCEPT ![i] = "predict"] /\ UNCHANGED <<todo, outcomes>>
    BY <1>0, <1>5, <2>1, <2>2 DEF Recover
  <2>3. ASSUME NEW p \in todo[i],
               outcomes' = [outcomes EXCEPT ![p] = IF @ = <<>> THEN <<"recovery">> ELSE @],
               todo' = [todo EXCEPT ![i] = @ \ {p}], pc' = pc
        PROVE  Sound'
    <3>1. conn[i] /\ pc[i] = "recover" /\ UNCHANGED <<conn, mine, lock, last, links>>
      BY <1>5 DEF Recover
    <3>2. todo[i] = Pending /\ p \in Pending
      BY <2>3, <3>1
    <3>3. p \in Forecast /\ p <= last /\ outcomes[p] = <<>>
      BY <3>2 DEF Pending, Forecast
    <3>4. outcomes' = [outcomes EXCEPT ![p] = <<"recovery">>]
      BY <2>3, <3>3
    <3>5. /\ \A q \in Forecast \ {p} : outcomes'[q] = outcomes[q]
          /\ outcomes'[p] = <<"recovery">>
      BY <3>3, <3>4
    <3>6. Len(<<"recovery">>) = 1 /\ <<"recovery">> # <<>>
      OBVIOUS
    <3>7. \A q \in Forecast : outcomes'[q] = <<>> <=> outcomes[q] = <<>> /\ q # p
      BY <3>5, <3>6
    <3>8. Pending' = {} /\ todo'[i] = {}
      <4>1. ASSUME NEW q \in 1 .. last, outcomes'[q] = <<>> PROVE FALSE
        <5>1. q \in Pending /\ q # p
          BY <4>1, <1>b, <3>7 DEF Pending, Forecast
        <5> QED
          BY <5>1, <3>2
      <4> QED
        BY <2>3, <3>1, <3>2, <4>1 DEF Pending
    <3>9. OutcomeOnce' /\ LinksAmongResolved'
      <4>1. OutcomeOnce'
        <5> SUFFICES ASSUME NEW q \in Forecast
                     PROVE  Len(outcomes'[q]) <= 1 /\ (q > last => outcomes'[q] = <<>>)
          BY <3>1
        <5>1. CASE q = p
          <6>1. ~(q > last)
            BY <1>b, <3>3, <5>1 DEF Forecast
          <6>2. outcomes'[q] = <<"recovery">>
            BY <3>5, <5>1
          <6> QED
            BY <3>6, <6>1, <6>2
        <5>2. CASE q # p
          BY <3>5, <5>2
        <5> QED
          BY <5>1, <5>2
      <4>2. LinksAmongResolved'
        BY <1>a, <3>1, <3>7
      <4> QED
        BY <4>1, <4>2
    <3> HIDE DEF OutcomeOnce, LinksAmongResolved
    <3> QED
      BY <2>1, <2>3, <3>1, <3>8, <3>9
  <2> QED
    BY <1>5, <2>2, <2>3 DEF Recover
<1>6. ASSUME NEW i \in Instance, Predict(i) PROVE Sound'
  <2>1. \A j \in Instance : conn[j] /\ pc[j] \in Locked => j = i
    BY <1>6 DEF Predict
  <2>2. /\ conn[i] /\ pc[i] = "predict" /\ pc' = [pc EXCEPT ![i] = "layers"]
        /\ last < MaxForecast /\ last' = last + 1 /\ mine' = [mine EXCEPT ![i] = last + 1]
        /\ UNCHANGED <<conn, todo, lock, outcomes, links>>
    BY <1>6 DEF Predict
  <2>3. Pending = {}
    BY <2>2
  <2>4. last + 1 \in Forecast /\ outcomes[last + 1] = <<>>
    BY <2>2 DEF Forecast
  <2>5. Pending' = {last + 1}
    <3>1. \A q \in 1 .. last : outcomes[q] # <<>>
      BY <2>3 DEF Pending
    <3>2. \A q \in 1 .. last + 1 : q \in 1 .. last \/ q = last + 1
      BY <1>b
    <3>3. last' = last + 1 /\ outcomes' = outcomes
      BY <2>2
    <3>4. \A q \in Pending' : q = last + 1
      BY <3>1, <3>2, <3>3 DEF Pending
    <3>5. last + 1 \in Pending'
      BY <1>b, <2>4, <3>3 DEF Pending
    <3> QED
      BY <3>4, <3>5
  <2>6. OutcomeOnce' /\ LinksAmongResolved'
    <3>1. OutcomeOnce'
      BY <1>b, <2>2 DEF Forecast
    <3>2. LinksAmongResolved'
      BY <1>a, <1>b, <2>2 DEF Forecast
    <3> QED
      BY <3>1, <3>2
  <2> HIDE DEF OutcomeOnce, LinksAmongResolved
  <2> QED
    BY <2>1, <2>2, <2>5, <2>6
<1>7. ASSUME NEW i \in Instance, Observe(i) PROVE Sound'
  BY <1>0, <1>7 DEF Observe
<1>8. ASSUME NEW i \in Instance, RecordOutcome(i) PROVE Sound'
  <2>1. \A j \in Instance : conn[j] /\ pc[j] \in Locked => j = i
    BY <1>8 DEF RecordOutcome
  <2>2. /\ conn[i] /\ pc[i] = "outcome" /\ pc' = [pc EXCEPT ![i] = "epilogue"]
        /\ UNCHANGED <<conn, todo, mine, lock, last, links>>
    BY <1>8 DEF RecordOutcome
  <2>3. Pending = {mine[i]}
    BY <2>2
  <2>4. mine[i] \in Forecast /\ mine[i] <= last /\ outcomes[mine[i]] = <<>>
    BY <2>3 DEF Pending, Forecast
  <2>5. /\ \A q \in Forecast \ {mine[i]} : outcomes'[q] = outcomes[q]
        /\ outcomes'[mine[i]] = Append(<<>>, "simulation")
    BY <1>8, <2>4 DEF RecordOutcome
  <2>6. Len(Append(<<>>, "simulation")) = 1 /\ Append(<<>>, "simulation") # <<>>
    OBVIOUS
  <2>7. \A q \in Forecast : outcomes'[q] = <<>> <=> outcomes[q] = <<>> /\ q # mine[i]
    BY <2>5, <2>6
  <2>8. Pending' = {}
    BY <2>2, <2>3, <2>7 DEF Pending, Forecast
  <2>9. OutcomeOnce' /\ LinksAmongResolved'
    <3>1. OutcomeOnce'
      <4> SUFFICES ASSUME NEW q \in Forecast
                   PROVE  Len(outcomes'[q]) <= 1 /\ (q > last => outcomes'[q] = <<>>)
        BY <2>2
      <4>1. CASE q = mine[i]
        <5>1. ~(q > last)
          BY <1>b, <2>4, <4>1 DEF Forecast
        <5>2. outcomes'[q] = Append(<<>>, "simulation")
          BY <2>5, <4>1
        <5> QED
          BY <2>6, <5>1, <5>2
      <4>2. CASE q # mine[i]
        BY <2>5, <4>2
      <4> QED
        BY <4>1, <4>2
    <3>2. LinksAmongResolved'
      BY <1>a, <2>2, <2>7
    <3> QED
      BY <3>1, <3>2
  <2> HIDE DEF OutcomeOnce, LinksAmongResolved
  <2> QED
    BY <2>1, <2>2, <2>8, <2>9
<1>9. ASSUME NEW i \in Instance, Epilogue(i) PROVE Sound'
  <2>1. \A j \in Instance : conn[j] /\ pc[j] \in Locked => j = i
    BY <1>9 DEF Epilogue
  <2>2. /\ conn[i] /\ pc[i] = "epilogue" /\ pc' = [pc EXCEPT ![i] = "unlock"]
        /\ UNCHANGED <<conn, todo, mine, lock, last, outcomes>>
    BY <1>9 DEF Epilogue
  <2>3. PICK linked \in SUBSET (1 .. mine[i] - 1) : links' = links \cup (linked \X {mine[i]})
    BY <1>9 DEF Epilogue
  <2>4. \A p \in 1 .. last : outcomes[p] # <<>>
    BY <2>2 DEF Pending
  <2>5. \A a \in linked : a \in 1 .. last /\ mine[i] \in 1 .. last /\ a < mine[i]
    BY <2>3
  <2>6. \A l \in links' : l \in links \/ (l[1] \in linked /\ l[2] \in {mine[i]})
    BY <2>3, PairEnds
  <2>7. LinksAmongResolved'
    BY <2>2, <2>4, <2>5, <2>6
  <2>8. Pending' = Pending
    BY <1>0, <2>2
  <2> HIDE DEF LinksAmongResolved
  <2> QED
    BY <2>1, <2>2, <2>7, <2>8
<1>10. ASSUME NEW i \in Instance, Unlock(i) PROVE Sound'
  BY <1>0, <1>10 DEF Unlock
<1>11. ASSUME NEW i \in Instance, FailQuietly(i) PROVE Sound'
  <2>1. CASE pc[i] = "lock" /\ Over(i)
    BY <1>0, <1>11, <2>1 DEF FailQuietly
  <2>2. CASE pc' = [pc EXCEPT ![i] = "unlock"] /\ UNCHANGED <<conn, todo, mine>>
    BY <1>0, <1>11, <2>2 DEF FailQuietly
  <2> QED
    BY <1>11, <2>1, <2>2 DEF FailQuietly
<1>12. ASSUME NEW i \in Instance, Fail(i) PROVE Sound'
  BY <1>0, <1>12 DEF Fail
<1>13. ASSUME NEW i \in Instance, Disconnect(i) PROVE Sound'
  BY <1>0, <1>13 DEF Disconnect, Released
<1>14. ASSUME NEW i \in Instance, Crash(i) PROVE Sound'
  BY <1>0, <1>14 DEF Crash, Released
<1>15. CASE SessionEnds
  BY <1>0, <1>15 DEF SessionEnds
<1>16. ASSUME NEW i \in Instance, Life(i) PROVE Tick(i) \/ UNCHANGED <<cycle, lock, memory>>
  BY <1>16 DEF Life, Boot, Bind, Seeded, Signal, Exit, Enqueue, Process, Processed
<1> QED
  BY <1>1, <1>2, <1>3, <1>4, <1>5, <1>6, <1>7, <1>8, <1>9, <1>10, <1>11, <1>12, <1>13, <1>14, <1>15, <1>16
  DEF Next, Step, vars

(* Two outcomes of one forecast, two open forecasts and stale reads never  *)
(* happen (cpu-simulator.ts: the cycle runs under one advisory lock).      *)
THEOREM SimulatorInvariant == Spec => []SimulatorInv
<1>1. Init => SimulatorInv
  BY SimulatorInitially
<1>2. SimulatorInv /\ [Next]_vars => SimulatorInv'
  BY TypesKept, MemoryKept DEF SimulatorInv
<1> QED
  BY <1>1, <1>2, PTL DEF Spec

(* A step of the simulator makes a forecast, resolves one or does nothing  *)
(* to the ledger.                                                          *)
LEMMA StepsOfLedger == ASSUME SimulatorInv, [Next]_vars PROVE [Ledger!Next]_Record
<1> USE SimulatorAssumption
<1> DEFINE Entry(p) == IF p > last THEN "none"
                       ELSE IF outcomes[p] = <<>> THEN "open"
                       ELSE IF Len(outcomes[p]) = 1 THEN outcomes[p][1] ELSE "twice"
<1>a. Record = [p \in Forecast |-> Entry(p)]
  BY DEF Record
<1>b. TypeOK /\ OutcomeOnce /\ ReadsAreFresh /\ last \in Nat /\ MaxForecast \in Nat
  BY DEF SimulatorInv, TypeOK
<1>0. ASSUME UNCHANGED <<last, outcomes>> PROVE Record' = Record
  BY <1>0 DEF Record
<1>1. ASSUME NEW i \in Instance, Predict(i) PROVE Ledger!Next
  <2>1. /\ last < MaxForecast /\ last' = last + 1 /\ outcomes' = outcomes
        /\ pc[i] = "predict" /\ conn[i]
    BY <1>1 DEF Predict, At
  <2>0. PICK p \in Nat : p = last + 1
    BY <1>b
  <2>2. p \in Forecast /\ outcomes[p] = <<>>
    BY <1>b, <2>0, <2>1 DEF Forecast, OutcomeOnce
  <2>3. \A q \in 1 .. last : outcomes[q] # <<>>
    BY <1>b, <2>1 DEF ReadsAreFresh, Pending
  <2>4. \A q \in Forecast : Record[q] # "open"
    <3> SUFFICES ASSUME NEW q \in Forecast PROVE Entry(q) # "open"
      BY <1>a
    <3>1. CASE q > last
      BY <3>1
    <3>2. CASE q <= last
      <4>1. outcomes[q] # <<>> /\ outcomes[q] \in Seq({"simulation", "recovery"})
        BY <1>b, <2>3, <3>2 DEF Forecast, TypeOK
      <4>2. Len(outcomes[q]) = 1 => outcomes[q][1] # "open"
        BY <4>1
      <4> QED
        BY <4>1, <4>2
    <3> QED
      BY <1>b, <3>1, <3>2 DEF Forecast
  <2>5. Record[p] = "none"
    BY <1>a, <1>b, <2>0, <2>2
  <2>6. Record' = [Record EXCEPT ![p] = "open"]
    <3>1. \A q \in Forecast : q # p => Entry(q)' = Entry(q)
      BY <1>b, <2>0, <2>1 DEF Forecast
    <3>2. Entry(p)' = "open"
      BY <1>b, <2>0, <2>1, <2>2
    <3>3. Record' = [q \in Forecast |-> Entry(q)']
      BY DEF Record
    <3> HIDE DEF Entry
    <3> QED
      BY <1>a, <2>2, <3>1, <3>2, <3>3
  <2>7. Ledger!Make(p)
    BY <2>4, <2>5, <2>6 DEF Ledger!Make, Ledger!NothingOpen
  <2> QED
    BY <2>2, <2>7 DEF Ledger!Next
<1>2. ASSUME NEW p \in Forecast, NEW s \in {"simulation", "recovery"}, p <= last, last' = last,
             outcomes[p] = <<>>, outcomes' = [outcomes EXCEPT ![p] = <<s>>]
      PROVE  Ledger!Next
  <2>1. outcomes'[p] = <<s>> /\ \A q \in Forecast : q # p => outcomes'[q] = outcomes[q]
    BY <1>2, <1>b DEF TypeOK
  <2>2. Record[p] = "open"
    BY <1>a, <1>b, <1>2 DEF Forecast
  <2>3. \A q \in Forecast : q # p => Entry(q)' = Entry(q)
    BY <1>2, <2>1
  <2>4. <<s>> # <<>> /\ Len(<<s>>) = 1 /\ <<s>>[1] = s
    OBVIOUS
  <2>5. Entry(p)' = s
    <3>1. ~(p > last') /\ outcomes'[p] = <<s>>
      BY <1>b, <1>2, <2>1 DEF Forecast
    <3> QED
      BY <2>4, <3>1
  <2>6. Record' = [q \in Forecast |-> Entry(q)']
    BY DEF Record
  <2>7. Record' = [Record EXCEPT ![p] = s]
    <3> HIDE DEF Entry
    <3> QED
      BY <1>a, <2>3, <2>5, <2>6
  <2> QED
    BY <2>2, <2>7 DEF Ledger!Next, Ledger!Resolve, Ledger!Sources
<1>3. ASSUME NEW i \in Instance, Recover(i) PROVE Ledger!Next \/ UNCHANGED Record
  <2>1. CASE UNCHANGED <<todo, outcomes>>
    BY <1>0, <1>3, <2>1 DEF Recover
  <2>2. ASSUME NEW p \in todo[i],
               outcomes' = [outcomes EXCEPT ![p] = IF @ = <<>> THEN <<"recovery">> ELSE @]
        PROVE  Ledger!Next
    <3>1. p \in Pending /\ last' = last
      BY <1>b, <1>3, <2>2 DEF Recover, At, ReadsAreFresh
    <3>2. p \in Forecast /\ p <= last /\ outcomes[p] = <<>>
      BY <1>b, <3>1 DEF Pending, Forecast, TypeOK
    <3>3. outcomes' = [outcomes EXCEPT ![p] = <<"recovery">>]
      BY <2>2, <3>2
    <3> QED
      BY <1>2, <3>1, <3>2, <3>3
  <2> QED
    BY <1>3, <2>1, <2>2 DEF Recover
<1>4. ASSUME NEW i \in Instance, RecordOutcome(i) PROVE Ledger!Next
  <2>1. last' = last /\ Pending = {mine[i]}
    BY <1>b, <1>4 DEF RecordOutcome, At, ReadsAreFresh
  <2>2. mine[i] \in Forecast /\ mine[i] <= last /\ outcomes[mine[i]] = <<>>
    BY <1>b, <2>1 DEF Pending, Forecast, TypeOK
  <2>3. Append(<<>>, "simulation") = <<"simulation">>
    OBVIOUS
  <2>4. outcomes' = [outcomes EXCEPT ![mine[i]] = <<"simulation">>]
    BY <1>4, <2>2, <2>3 DEF RecordOutcome
  <2> QED
    BY <1>2, <2>1, <2>2, <2>4
<1>5. CASE UNCHANGED memory
  BY <1>0, <1>5 DEF memory
<1>6. \/ UNCHANGED <<last, outcomes>>
      \/ \E i \in Instance : Predict(i) \/ Recover(i) \/ RecordOutcome(i)
  BY DEF Next, Life, Step, Boot, Bind, Seeded, Signal, Exit, Enqueue, Process, Processed, Tick,
         TryLock, ReadPending, Observe, Epilogue, Unlock, FailQuietly, Fail, Disconnect, Crash,
         SessionEnds, vars, memory
<1> QED
  BY <1>0, <1>1, <1>3, <1>4, <1>6

(* The memory is a ForecastLedger: one forecast at a time, each resolved   *)
(* once and for good, and only then the next.                              *)
THEOREM SimulatorImplementsLedger == Spec => ImplementsLedger
<1>1. Init => Ledger!Init
  BY SimulatorAssumption DEF Init, Ledger!Init, Record, Forecast
<1>2. SimulatorInv /\ [Next]_vars => [Ledger!Next]_Record
  BY StepsOfLedger
<1> QED
  BY <1>1, <1>2, SimulatorInvariant, PTL DEF Spec, ImplementsLedger, Ledger!Spec

(* An outcome, once recorded, is never changed, taken back or joined by    *)
(* another one (recordOutcome, and the check of reconcilePendingOutcomes). *)
LEMMA OutcomesKept ==
    ASSUME SimulatorInv, [Next]_vars,
           NEW p \in Forecast, outcomes[p] # <<>>
    PROVE  outcomes'[p] = outcomes[p]
<1> USE DEF SimulatorInv, TypeOK, At, server, ingest, cycle, memory
<1>1. CASE UNCHANGED outcomes
  BY <1>1
<1>2. ASSUME NEW i \in Instance, Recover(i) PROVE outcomes'[p] = outcomes[p]
  BY <1>2 DEF Recover
<1>3. ASSUME NEW i \in Instance, RecordOutcome(i) PROVE outcomes'[p] = outcomes[p]
  <2>1. mine[i] # p
    BY <1>3 DEF RecordOutcome, ReadsAreFresh, Pending
  <2> QED
    BY <1>3, <2>1 DEF RecordOutcome
<1>4. CASE \E i \in Instance : Life(i)
  <2>1. UNCHANGED memory
    BY <1>4 DEF Life, Boot, Bind, Seeded, Signal, Exit, Enqueue, Process, Processed, Tick
  <2> QED
    BY <1>1, <2>1
<1>5. CASE \E i \in Instance : TryLock(i) \/ ReadPending(i) \/ Predict(i) \/ Observe(i)
                             \/ Epilogue(i) \/ Unlock(i) \/ FailQuietly(i) \/ Fail(i)
  <2>1. UNCHANGED outcomes
    BY <1>5 DEF TryLock, ReadPending, Predict, Observe, Epilogue, Unlock, FailQuietly, Fail
  <2> QED
    BY <1>1, <2>1
<1>6. CASE SessionEnds \/ UNCHANGED vars \/ \E i \in Instance : Disconnect(i) \/ Crash(i)
  <2>1. UNCHANGED outcomes
    BY <1>6 DEF SessionEnds, Disconnect, Crash, vars
  <2> QED
    BY <1>1, <2>1
<1> QED
  BY <1>2, <1>3, <1>4, <1>5, <1>6 DEF Next, Step

(* The memory only grows: an outcome is final, a forecast is not taken     *)
(* back, and a link stays.                                                 *)
MemoryStays ==
    [][/\ \A p \in Forecast : outcomes[p] # <<>> => outcomes'[p] = outcomes[p]
       /\ last <= last' /\ links \subseteq links']_vars

(* What has been recorded stays recorded, whichever instances are          *)
(* interrupted and whatever they recover (cpu-simulator-scheduler.ts).     *)
THEOREM OutcomesAreFinal == Spec => MemoryStays
<1>1. ASSUME SimulatorInv, [Next]_vars
      PROVE  /\ \A p \in Forecast : outcomes[p] # <<>> => outcomes'[p] = outcomes[p]
             /\ last <= last' /\ links \subseteq links'
  <2>1. \A p \in Forecast : outcomes[p] # <<>> => outcomes'[p] = outcomes[p]
    BY <1>1, OutcomesKept
  <2>2. last <= last' /\ links \subseteq links'
    BY <1>1
    DEF SimulatorInv, TypeOK, Next, Life, Step, vars, server, ingest, cycle, memory,
        Boot, Bind, Seeded, Signal, Exit, Enqueue, Process, Processed, Tick,
        TryLock, ReadPending, Recover, Predict, Observe, RecordOutcome, Epilogue,
        Unlock, FailQuietly, Fail, Disconnect, Crash, SessionEnds
  <2> QED
    BY <2>1, <2>2
<1> QED
  BY <1>1, SimulatorInvariant, PTL DEF Spec, MemoryStays
=============================================================================
