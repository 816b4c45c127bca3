------------------------ MODULE CoreMTHistory_proofs ------------------------
(***************************************************************************)
(* Nobody starves, for any number of threads, images and latencies: a      *)
(* ready thread is overtaken at most once by each of the others, and the   *)
(* blocked core leaves a thread only when it has to wait.  No latency is   *)
(* cut short, no cycle is lost but to work and penalties, and a thread     *)
(* that shares no word does not notice the others.                         *)
(***************************************************************************)
EXTENDS CoreMTHistory, CoreMT_proofs

\* How many places thread t comes after thread c.
Ahead(c, t) == IF t >= c THEN t - c ELSE t - c + NThreads

LEMMA AheadFacts ==
  ASSUME NEW c \in Threads, NEW t \in Threads
  PROVE  /\ Ahead(c, t) \in 0 .. NThreads - 1
         /\ t # c <=> Ahead(c, t) >= 1
         /\ (c + Ahead(c, t)) % NThreads = t
<1>1. NThreads \in Nat \ {0} /\ c \in 0 .. NThreads - 1 /\ t \in 0 .. NThreads - 1
  BY ImageAssumption DEF Threads
<1>2. /\ t % NThreads = t
      /\ (t + NThreads) % NThreads = t
  BY <1>1, ModSmall
<1>3. CASE t >= c
  <2>1. Ahead(c, t) = t - c /\ c + (t - c) = t
    BY <1>1, <1>3 DEF Ahead
  <2> QED BY <1>1, <1>2, <1>3, <2>1
<1>4. CASE ~(t >= c)
  <2>1. Ahead(c, t) = t - c + NThreads /\ c + (t - c + NThreads) = t + NThreads
    BY <1>1, <1>4 DEF Ahead
  <2> QED BY <1>1, <1>2, <1>4, <2>1
<1> QED BY <1>3, <1>4

\* A thread that comes after the one served next is nearer from there.
LEMMA AheadLess ==
  ASSUME NEW c \in Threads, NEW t \in Threads,
         NEW d \in 1 .. NThreads, d <= Ahead(c, t)
  PROVE  Ahead((c + d) % NThreads, t) = Ahead(c, t) - d
<1>1. NThreads \in Nat \ {0} /\ c \in 0 .. NThreads - 1 /\ t \in 0 .. NThreads - 1
  BY ImageAssumption DEF Threads
<1>2. CASE c + d < NThreads
  <2>1. c + d \in 0 .. NThreads - 1
    BY <1>1, <1>2
  <2>2. (c + d) % NThreads = c + d
    BY <1>1, <2>1, ModSmall
  <2> QED BY <1>1, <1>2, <2>2 DEF Ahead
<1>3. CASE c + d >= NThreads
  <2>1. c + d - NThreads \in 0 .. NThreads - 1
    BY <1>1, <1>3
  <2>2. ((c + d - NThreads) + NThreads) % NThreads = c + d - NThreads
    BY <1>1, <2>1, ModSmall
  <2>3. (c + d - NThreads) + NThreads = c + d
    BY <1>1
  <2>4. (c + d) % NThreads = c + d - NThreads
    BY <2>2, <2>3
  <2> QED BY <1>1, <1>3, <2>4 DEF Ahead
<1> QED BY <1>1, <1>2, <1>3

-----------------------------------------------------------------------------
\* What the proofs need of a step: which instruction of which thread, if any,
\* and how the scheduler went on.

\* The scheduler stays with its thread, or calls switch_thread.
GoesOn == (isBlocked /\ cur' = cur) \/ SwitchThread(cycle + 1)

LEMMA StepKinds ==
  ASSUME IInv, Next
  PROVE  /\ cycle' >= cycle /\ cycle' \in Nat
         /\ \/ /\ Issue /\ GoesOn /\ Issues /\ ~idle /\ cycle' > cycle
               /\ startCycle'[cur] = cycle + 1
            \/ Bubble /\ idle /\ SwitchThread(cycle + 1) /\ ~Issues
            \/ Terminated /\ ~Issues
<1>1. cycle \in Nat /\ nInst \in Nat /\ cur \in Threads
  BY DEF IInv, TypeOK
<1>2. SwitchPenalty \in Nat
  BY PenaltyFacts DEF IInv
<1>3. Issue => Issues /\ ~idle /\ startCycle'[cur] = cycle + 1
  BY <1>1, IssueType DEF Issue, Issues, IInv
<1>4. Bubble => ~Issues /\ idle
  BY DEF Bubble, Issues
<1>5. CASE FinegrainedIssue
  BY <1>1, <1>3, <1>5 DEF FinegrainedIssue, FinegrainedTick, GoesOn
<1>6. CASE FinegrainedIdle
  BY <1>1, <1>4, <1>6 DEF FinegrainedIdle, FinegrainedTick
<1>7. CASE BlockedIssueEvent
  BY <1>1, <1>2, <1>3, <1>7 DEF BlockedIssueEvent, BlockedSwitch, GoesOn
<1>8. CASE BlockedIssueOther
  BY <1>1, <1>3, <1>8 DEF BlockedIssueOther, GoesOn
<1>9. CASE BlockedIdle
  BY <1>1, <1>2, <1>4, <1>9 DEF BlockedIdle, BlockedSwitch
<1>10. CASE Terminated
  BY <1>1, <1>10 DEF Terminated, vars, schedVars, Issues
<1> QED BY <1>5, <1>6, <1>7, <1>8, <1>9, <1>10 DEF Next

\* A thread that does not issue keeps its data.
Undisturbed(t) ==
  /\ halted'[t] = halted[t]
  /\ startCycle'[t] = startCycle[t]
  /\ Latency(curOp[t])' = Latency(curOp[t])

LEMMA OthersUndisturbed ==
  ASSUME IInv, Next, NEW t \in Threads, t # cur \/ ~Issues
  PROVE  Undisturbed(t)
<1>1. CASE Issue /\ t # cur
  BY <1>1 DEF Issue, Execute, Undisturbed, Latency, IInv, TypeOK
<1>2. CASE Bubble
  BY <1>2 DEF Bubble, archVars, Undisturbed, Latency
<1>3. CASE Terminated
  BY <1>3 DEF Terminated, vars, schedVars, archVars, Undisturbed, Latency
<1> QED BY <1>1, <1>2, <1>3, StepKinds

\* What is free stays free until it issues.
LEMMA StaysFree ==
  ASSUME IInv, Next, NEW t \in Threads, Undisturbed(t), Free(t, cycle)
  PROVE  /\ Free(t, cycle)'
         /\ Issue => FreeNext(t, cycle + 1)
<1>1. cycle' >= cycle /\ cycle' \in Nat
  BY StepKinds
<1>2. Latency(curOp[t]) \in Nat /\ startCycle[t] \in Nat /\ cycle \in Nat
  BY LatencyInNat DEF IInv, TypeOK
<1>3. Free(t, cycle)'
  BY <1>1, <1>2 DEF Free, Undisturbed
<1>4. ASSUME Issue PROVE FreeNext(t, cycle + 1)
  <2>1. Latency(curOp'[t]) = Latency(curOp[t])'
    BY <1>4 DEF Latency, Issue
  <2> QED BY <1>2, <2>1 DEF Free, FreeNext, Undisturbed
<1> QED BY <1>3, <1>4

\* switch_thread leads towards every thread that is free.
LEMMA ComesNearer ==
  ASSUME cur \in Threads, NEW t \in Threads, t # cur, NEW now,
         FreeNext(t, now), SwitchThread(now)
  PROVE  \/ isBlocked /\ cur' = cur
         \/ cur' # cur /\ Ahead(cur', t) < Ahead(cur, t)
<1> DEFINE a == Ahead(cur, t)
<1>1. a \in SearchOrder /\ After(a) = t /\ a \in Nat
  <2>1. /\ a \in 0 .. NThreads - 1 /\ a >= 1
        /\ (cur + a) % NThreads = t
    BY AheadFacts
  <2>2. NThreads \in Nat
    BY ImageAssumption
  <2> HIDE DEF a
  <2> QED BY <2>1, <2>2 DEF SearchOrder, After
<1> HIDE DEF a
<1>2. CASE KeepCurrent(now) /\ cur' = cur
  BY <1>2 DEF KeepCurrent
<1>3. CASE TakeNextFree(now)
  <2>1. PICK d \in SearchOrder :
          /\ \A e \in 1 .. d - 1 : ~FreeNext(After(e), now)
          /\ cur' = After(d)
    BY <1>3 DEF TakeNextFree
  <2>2. d \in 1 .. NThreads /\ NThreads \in Nat /\ a \in 1 .. NThreads
    BY <1>1, <2>1, ImageAssumption DEF SearchOrder
  <2>3. a \notin 1 .. d - 1
    BY <1>1, <2>1
  <2>4. d <= a
    BY <2>2, <2>3
  <2>5. Ahead(cur', t) = a - d
    BY <2>1, <2>2, <2>4, AheadLess DEF After, a
  <2>6. cur' # cur
    BY <2>2, <2>5 DEF a
  <2>7. a - d < a
    BY <2>2
  <2> QED BY <2>5, <2>6, <2>7 DEF a
<1>4. CASE \A d \in SearchOrder : ~FreeNext(After(d), now)
  BY <1>1, <1>4
<1> QED BY <1>2, <1>3, <1>4 DEF SwitchThread

-----------------------------------------------------------------------------
\* Thread u has had its turn before t: the search that is going on has passed
\* it, or it is the thread whose run of instructions is going on.
HasPassed(t, u) ==
  \/ Ahead(u, t) > Ahead(cur, t)
  \/ isBlocked /\ u = cur /\ u = lastIssued

\* A thread that has been overtaken is free, and who has overtaken it will not
\* come again before it: each switch leads nearer to the thread.
OvertakenInv ==
  /\ lastIssued \in Threads
  /\ overtaken \in [Threads -> [Threads -> {0, 1}]]
  /\ \A t \in Threads : ~Free(t, cycle) => overtaken[t] = NoTurns
  /\ \A t, u \in Threads : overtaken[t][u] = 1 => HasPassed(t, u)

LEMMA NoTurnsType ==
  /\ NoTurns \in [Threads -> {0, 1}]
  /\ \A u \in Threads : NoTurns[u] = 0
BY DEF NoTurns

LEMMA InitOvertaken == HInit => OvertakenInv
<1> SUFFICES ASSUME HInit PROVE OvertakenInv
  OBVIOUS
<1>1. 0 \in Threads /\ lastIssued = 0
  BY ThreadsFacts DEF HInit
<1>2. overtaken = [t \in Threads |-> NoTurns]
  BY DEF HInit
<1>3. \A t \in Threads : overtaken[t] = NoTurns
  BY <1>2
<1>4. overtaken \in [Threads -> [Threads -> {0, 1}]]
  BY <1>2, NoTurnsType
<1>5. \A t, u \in Threads : overtaken[t][u] # 1
  BY <1>3, NoTurnsType
<1> QED BY <1>1, <1>3, <1>4, <1>5 DEF OvertakenInv

\* What a free thread remembers after a turn of another one.
OneMore(t) == [overtaken[t] EXCEPT ![cur] = @ + 1]

\* A turn of another thread, seen by a thread that is free.
LEMMA TurnOfAnother ==
  ASSUME IInv, OvertakenInv, HNext, Issue, GoesOn, Issues, cur' \in Threads,
         NEW t \in Threads, t # cur, Free(t, cycle)
  PROVE  /\ overtaken'[t] \in [Threads -> {0, 1}]
         /\ \A u \in Threads : overtaken'[t][u] = 1 => HasPassed(t, u)'
<1>1. /\ cur \in Threads
      /\ overtaken[t] \in [Threads -> {0, 1}]
      /\ \A u \in Threads : overtaken[t][u] = 1 => HasPassed(t, u)
  BY DEF OvertakenInv, IInv, TypeOK
<1>2. \A u \in Threads : Ahead(u, t) \in Int
  BY AheadFacts
<1>3. /\ lastIssued' = cur /\ isBlocked' = isBlocked
      /\ overtaken'[t] =
           IF isBlocked => cur # lastIssued THEN OneMore(t) ELSE overtaken[t]
  BY DEF HNext, Remember, NewTurn, Issue, OneMore
<1>4. \/ isBlocked /\ cur' = cur
      \/ cur' # cur /\ Ahead(cur', t) < Ahead(cur, t)
  <2>1. FreeNext(t, cycle + 1)
    BY OthersUndisturbed, StaysFree DEF HNext
  <2> QED BY <1>1, <2>1, ComesNearer DEF GoesOn
<1>5. \A u \in Threads : HasPassed(t, u)' <=> \/ Ahead(u, t) > Ahead(cur', t)
                                              \/ isBlocked /\ u = cur' /\ u = cur
  BY <1>3 DEF HasPassed, Ahead
<1>6. \A u \in Threads : u = cur => HasPassed(t, u)'
  BY <1>1, <1>2, <1>4, <1>5
<1>7. ASSUME NEW u \in Threads, u # cur, overtaken[t][u] = 1
      PROVE  HasPassed(t, u)'
  <2>1. Ahead(u, t) > Ahead(cur, t)
    BY <1>1, <1>7 DEF HasPassed
  <2> QED BY <1>1, <1>2, <1>4, <1>5, <2>1
<1>8. CASE isBlocked => cur # lastIssued
  <2>1. ~HasPassed(t, cur)
    BY <1>1, <1>2, <1>8 DEF HasPassed
  <2>2. overtaken[t][cur] = 0
    BY <1>1, <2>1
  <2>3. /\ OneMore(t) \in [Threads -> {0, 1}]
        /\ \A u \in Threads : u # cur => OneMore(t)[u] = overtaken[t][u]
    BY <1>1, <2>2 DEF OneMore
  <2>4. overtaken'[t] = OneMore(t)
    BY <1>3, <1>8
  <2> QED BY <1>6, <1>7, <2>3, <2>4
<1>9. CASE ~(isBlocked => cur # lastIssued)
  <2>1. overtaken'[t] = overtaken[t]
    BY <1>3, <1>9
  <2> QED BY <1>1, <1>6, <1>7, <2>1
<1> QED BY <1>8, <1>9

LEMMA NextOvertaken ==
  ASSUME IInv, IInv', OvertakenInv, HNext
  PROVE  OvertakenInv'
<1>1. /\ cur \in Threads /\ cur' \in Threads
      /\ lastIssued' \in Threads
      /\ Next
      /\ overtaken \in [Threads -> [Threads -> {0, 1}]]
  BY DEF IInv, TypeOK, OvertakenInv, HNext, Remember
<1>2. /\ overtaken' = [t \in Threads |-> overtaken'[t]]
      /\ \A t \in Threads : overtaken'[t] =
               CASE Issues /\ t = cur -> NoTurns
                 [] NewTurn /\ t # cur /\ Free(t, cycle) -> OneMore(t)
                 [] OTHER -> overtaken[t]
  BY DEF HNext, Remember, OneMore
<1>3. ASSUME NEW t \in Threads, ~Free(t, cycle) \/ (Issues /\ t = cur)
      PROVE  overtaken'[t] = NoTurns
  BY <1>2, <1>3 DEF OvertakenInv, NewTurn
<1>4. ASSUME NEW t \in Threads, ~Free(t, cycle)'
      PROVE  overtaken'[t] = NoTurns
  <2>1. CASE Issues /\ t = cur
    BY <1>3, <2>1
  <2>2. CASE ~(Issues /\ t = cur)
    <3>1. Undisturbed(t)
      BY <1>1, <2>2, OthersUndisturbed
    <3>2. ~Free(t, cycle)
      BY <1>1, <1>4, <3>1, StaysFree
    <3> QED BY <1>3, <3>2
  <2> QED BY <2>1, <2>2
<1>5. ASSUME NEW t \in Threads
      PROVE  /\ overtaken'[t] \in [Threads -> {0, 1}]
             /\ \A u \in Threads : overtaken'[t][u] = 1 => HasPassed(t, u)'
  <2>1. CASE ~Free(t, cycle) \/ (Issues /\ t = cur)
    BY <1>3, <2>1, NoTurnsType
  <2>2. CASE Free(t, cycle) /\ ~(Issues /\ t = cur)
    <3>1. ~idle /\ ~AllHalted
      BY <2>2 DEF IInv, IdleMeansNoneFree, AllHalted, Free
    <3>2. Issue /\ GoesOn /\ Issues
      BY <1>1, <3>1, StepKinds DEF Terminated
    <3> QED BY <1>1, <2>2, <3>2, TurnOfAnother
  <2> QED BY <2>1, <2>2
<1>6. overtaken' \in [Threads -> [Threads -> {0, 1}]]
  BY <1>2, <1>5
<1>7. (\A t \in Threads : ~Free(t, cycle) => overtaken[t] = NoTurns)'
  BY <1>4 DEF NoTurns
<1>8. (\A t, u \in Threads : overtaken[t][u] = 1 => HasPassed(t, u))'
  BY <1>5
<1> QED BY <1>1, <1>6, <1>7, <1>8 DEF OvertakenInv

-----------------------------------------------------------------------------
\* The blocked core has left a thread only if that had to wait.  A latency
\* counts from the cycle behind the issue, which has come.
LeaveInv ==
  /\ \A t \in Threads : startCycle[t] <= cycle
  /\ isBlocked /\ cur # lastIssued =>
       halted[lastIssued] \/ Latency(curOp[lastIssued]) > 0

LEMMA InitLeave == HInit => LeaveInv
  BY DEF HInit, Init, LeaveInv

LEMMA NextLeave ==
  ASSUME IInv, OvertakenInv, LeaveInv, HNext
  PROVE  LeaveInv'
<1>1. /\ cur \in Threads /\ lastIssued \in Threads /\ cycle \in Nat
      /\ startCycle \in [Threads -> Nat]
      /\ Next
      /\ \A t \in Threads : Latency(curOp[t]) \in Nat
  BY LatencyInNat DEF IInv, TypeOK, OvertakenInv, HNext
<1>2. CASE Issue /\ GoesOn /\ Issues /\ cycle' > cycle /\ startCycle'[cur] = cycle + 1
  <2>1. /\ startCycle' = [startCycle EXCEPT ![cur] = cycle + 1]
        /\ cycle' >= cycle + 1
    BY <1>1, <1>2, StepKinds DEF Issue
  <2>2. \A t \in Threads : startCycle'[t] <= cycle'
    BY <1>1, <2>1, StepKinds DEF LeaveInv
  <2>3. lastIssued' = cur /\ isBlocked' = isBlocked /\ img' = img
    BY <1>2 DEF HNext, Remember, Issue
  <2>4. ASSUME isBlocked, cur' # cur, ~(halted'[cur])
        PROVE  Latency(curOp'[cur]) > 0
    <3>1. ~FreeNext(cur, cycle + 1)
      <4>1. ~KeepCurrent(cycle + 1)
        BY <1>2, <2>4 DEF GoesOn, SwitchThread
      <4> QED BY <2>4, <4>1 DEF KeepCurrent
    <3>2. /\ Latency(curOp'[cur]) \in Nat
          /\ startCycle'[cur] = cycle + 1 /\ cycle \in Nat
      BY <1>1, <1>2, LatencyInNat DEF IInv
    <3> QED BY <2>4, <3>1, <3>2 DEF FreeNext
  <2>5. ~isBlocked \/ cur' = cur \/ halted'[cur] \/ Latency(curOp'[cur]) > 0
    BY <2>4
  <2>6. (isBlocked /\ cur # lastIssued =>
           halted[lastIssued] \/ Latency(curOp[lastIssued]) > 0)'
    BY <2>3, <2>5 DEF Latency
  <2> QED BY <2>2, <2>6 DEF LeaveInv
<1>3. CASE Bubble /\ idle /\ ~Issues
  <2>1. /\ lastIssued' = lastIssued /\ UNCHANGED <<halted, startCycle, curOp, isBlocked, img>>
        /\ cycle' >= cycle /\ cycle' \in Nat
    BY <1>1, <1>3, StepKinds DEF HNext, Remember, Bubble, archVars
  <2>2. \A t \in Threads : startCycle'[t] <= cycle'
    BY <1>1, <2>1 DEF LeaveInv
  <2>3. ~Free(lastIssued, cycle)
    BY <1>1, <1>3 DEF IInv, IdleMeansNoneFree
  <2>4. halted[lastIssued] \/ Latency(curOp[lastIssued]) > 0
    BY <1>1, <2>3 DEF Free, LeaveInv
  <2> QED BY <2>1, <2>2, <2>4 DEF LeaveInv, Latency
<1>4. CASE Terminated /\ ~Issues
  BY <1>4 DEF Terminated, vars, archVars, schedVars, HNext, Remember, LeaveInv, Latency
<1> QED BY <1>1, <1>2, <1>3, <1>4, StepKinds

-----------------------------------------------------------------------------
\* The time that a thread, and all of them together, would take serially, as
\* a sum that does not depend on the order of its terms.

Costs(t) == [j \in Nat |-> 1 + Latency(img.prog[t][j].op)]
Serial(t, k) == Weight(Costs(t), 1..k)
Works == [t \in Threads |-> Serial(t, pc[t])]

\* A function that adds up the elements of S as MapThenSumSet does.
SumsUp(f, S, c) ==
  f = [s \in SUBSET S |-> IF s = {} THEN 0
                          ELSE LET x == CHOOSE x \in s : TRUE
                               IN  c[x] + f[s \ {x}]]

LEMMA SumsUpExists ==
  ASSUME NEW S, IsFiniteSet(S), NEW c \in [S -> Nat]
  PROVE  \E f : SumsUp(f, S, c)
<1>1. PICK f \in [SUBSET S -> Nat] : InChosenOrder(f, S, c)
  BY SumExists
<1>2. ASSUME NEW s \in SUBSET S
      PROVE  f[s] = IF s = {} THEN 0 ELSE LET x == CHOOSE x \in s : TRUE
                                          IN  c[x] + f[s \ {x}]
  <2> DEFINE x == CHOOSE x \in s : TRUE
  <2>1. s # {} => x \in s /\ x \in S /\ s \ {x} \in SUBSET S
    OBVIOUS
  <2>2. f[s] = IF s = {} THEN 0 ELSE f[s \ {x}] + c[x]
    BY <1>1 DEF InChosenOrder
  <2> HIDE DEF x
  <2>3. s # {} => f[s \ {x}] \in Nat /\ c[x] \in Nat
    BY <2>1
  <2>4. f[s] = IF s = {} THEN 0 ELSE c[x] + f[s \ {x}]
    BY <2>2, <2>3
  <2> QED BY <2>4 DEF x
<1>3. f = [s \in SUBSET S |-> f[s]]
  OBVIOUS
<1>4. f = [s \in SUBSET S |-> IF s = {} THEN 0 ELSE LET x == CHOOSE x \in s : TRUE
                                                    IN  c[x] + f[s \ {x}]]
  BY <1>2, <1>3
<1> QED BY <1>4 DEF SumsUp

\* Whatever function is chosen to add them up, it gives their weight.
LEMMA SumsUpIsWeight ==
  ASSUME NEW D, NEW cost \in [D -> Nat], NEW S \in SUBSET D, IsFiniteSet(S),
         NEW f, SumsUp(f, S, cost)
  PROVE  f[S] = Weight(cost, S)
<1>1. AddsUp(f, S, cost)
  <2>1. \A s \in SUBSET S : f[s] = IF s = {} THEN 0 ELSE LET x == CHOOSE x \in s : TRUE
                                                         IN  cost[x] + f[s \ {x}]
    BY DEF SumsUp
  <2>2. f[{}] = 0
    BY <2>1
  <2>3. ASSUME NEW s \in SUBSET S, s # {}
        PROVE  \E x \in s : f[s \ {x}] \in Nat => f[s] = f[s \ {x}] + cost[x]
    <3> DEFINE x == CHOOSE x \in s : TRUE
    <3>1. x \in s /\ x \in S
      BY <2>3
    <3>2. f[s] = cost[x] + f[s \ {x}]
      BY <2>1, <2>3
    <3> HIDE DEF x
    <3>3. cost[x] \in Nat
      BY <3>1
    <3>4. f[s \ {x}] \in Nat => f[s] = f[s \ {x}] + cost[x]
      <4>1. \A a, b \in Nat : a + b = b + a
        OBVIOUS
      <4> QED BY <3>2, <3>3, <4>1
    <3> QED BY <3>1, <3>4
  <2> QED BY <2>2, <2>3 DEF AddsUp
<1> QED BY <1>1, SumIsWeight

LEMMA CostsType ==
  TypeOK => \A t : Costs(t) \in [Nat -> Nat]
<1>1. ASSUME TypeOK, NEW op PROVE Latency(op) \in Nat
  BY <1>1, LatencyInNat
<1> QED BY <1>1 DEF Costs

LEMMA SerialIsSerialTime ==
  TypeOK => \A t : \A k \in Nat : SerialTime(t, k) = Serial(t, k)
<1> SUFFICES ASSUME TypeOK, NEW t, NEW k \in Nat
             PROVE  SerialTime(t, k) = Serial(t, k)
  OBVIOUS
<1> DEFINE S == 1..k
           Cost(j) == 1 + Latency(img.prog[t][j].op)
           c == Costs(t)
           IsIter(f) == f = [s \in SUBSET S |->
              IF s = {} THEN 0 ELSE LET x == CHOOSE x \in s : TRUE
                                    IN  Cost(x) + f[s \ {x}]]
<1>1. SerialTime(t, k) = (CHOOSE f : IsIter(f))[S]
  BY DEF SerialTime, MapThenSumSet, MapThenFoldSet
<1>2. c \in [Nat -> Nat] /\ S \in SUBSET Nat /\ \A x \in S : Cost(x) = c[x]
  <2>1. c \in [Nat -> Nat]
    BY CostsType
  <2>2. S \in SUBSET Nat
    OBVIOUS
  <2>3. \A x \in Nat : Cost(x) = c[x]
    BY DEF Costs
  <2> HIDE DEF S, Cost, c
  <2> QED BY <2>1, <2>2, <2>3
<1>3. IsFiniteSet(S)
  BY FS_Interval
<1> HIDE DEF S, Cost, c
<1>4. \A f : IsIter(f) <=> SumsUp(f, S, c)
  <2> TAKE f
  <2>1. ASSUME NEW s \in SUBSET S, s # {}
        PROVE  Cost(CHOOSE x \in s : TRUE) = c[CHOOSE x \in s : TRUE]
    <3>1. (CHOOSE x \in s : TRUE) \in s
      BY <2>1
    <3> QED BY <1>2, <3>1
  <2>2. [s \in SUBSET S |->
              IF s = {} THEN 0 ELSE LET x == CHOOSE x \in s : TRUE
                                    IN  Cost(x) + f[s \ {x}]]
        = [s \in SUBSET S |->
              IF s = {} THEN 0 ELSE LET x == CHOOSE x \in s : TRUE
                                    IN  c[x] + f[s \ {x}]]
    BY <2>1
  <2> QED BY <2>2 DEF SumsUp
<1>5. \E f : IsIter(f)
  <2>1. [j \in S |-> c[j]] \in [S -> Nat]
    BY <1>2
  <2>2. PICK f : SumsUp(f, S, [j \in S |-> c[j]])
    BY <1>3, <2>1, SumsUpExists
  <2>3. SumsUp(f, S, c)
    <3>1. ASSUME NEW s \in SUBSET S, s # {}
          PROVE  [j \in S |-> c[j]][CHOOSE x \in s : TRUE] = c[CHOOSE x \in s : TRUE]
      <4>1. (CHOOSE x \in s : TRUE) \in s
        BY <3>1
      <4> QED BY <4>1
    <3> QED BY <2>2, <3>1 DEF SumsUp
  <2> HIDE DEF IsIter
  <2> QED BY <1>4, <2>3
<1> HIDE DEF IsIter
<1>6. PICK f : IsIter(f) /\ SerialTime(t, k) = f[S]
  BY <1>1, <1>5
<1>7. f[S] = Weight(c, S)
  BY <1>2, <1>3, <1>4, <1>6, SumsUpIsWeight
<1> QED BY <1>6, <1>7 DEF Serial, S, c

LEMMA SerialNext ==
  ASSUME TypeOK, NEW t, NEW k \in Nat
  PROVE  /\ Serial(t, k) \in Nat
         /\ Serial(t, 0) = 0
         /\ Serial(t, k + 1) = Serial(t, k) + 1 + Latency(img.prog[t][k + 1].op)
<1> DEFINE S == 1..k
           c == Costs(t)
           n == k + 1
<1>1. c \in [Nat -> Nat] /\ S \in SUBSET Nat /\ n \in Nat /\ n \notin S
  BY CostsType
<1>2. IsFiniteSet(S)
  BY FS_Interval
<1>3. 1..n = S \cup {n}
  OBVIOUS
<1>4. c[n] = 1 + Latency(img.prog[t][n].op) /\ Latency(img.prog[t][n].op) \in Nat
  BY LatencyInNat DEF Costs
<1>5. Weight(c, {}) = 0 /\ 1..0 = {}
  BY WeightEmpty
<1> DEFINE D == Nat
<1>d. c \in [D -> Nat] /\ S \in SUBSET D /\ n \in D
  BY <1>1
<1> HIDE DEF S, c, n, D
<1>6. IsFiniteSet(Units(c, S)) /\ Weight(c, S) \in Nat
  BY <1>d, <1>2, WeightFinite
<1>7. Weight(c, S \cup {n}) = Weight(c, S) + c[n]
  <2>1. n \notin S
    BY <1>1
  <2>2. IsFiniteSet(Units(c, S))
    BY <1>6
  <2> QED BY <1>d, <2>1, <2>2, WeightAdd
<1>8. Weight(c, S \cup {n}) = Weight(c, S) + 1 + Latency(img.prog[t][n].op)
  BY <1>4, <1>6, <1>7
<1> QED BY <1>3, <1>5, <1>6, <1>8 DEF Serial, S, c, n

-----------------------------------------------------------------------------
\* The last instruction of a thread was issued when those before it were over.
\* A latency that is not over is waited for; what of it is left falls with
\* every cycle.

ClockInv ==
  \A t \in Threads :
    IF pc[t] = 0 THEN curOp[t] = "NOP"
    ELSE /\ curOp[t] = img.prog[t][pc[t]].op
         /\ startCycle[t] >= Serial(t, pc[t] - 1) + 1

Rest(t) == IF startCycle[t] + Latency(curOp[t]) > cycle
           THEN startCycle[t] + Latency(curOp[t]) - cycle ELSE 0
Waits == [t \in Threads |-> Rest(t)]

\* Each cycle so far was spent on the work of some thread or on a penalty,
\* and what is still to be waited for comes on top.
CostInv ==
  /\ nInst <= cycle
  /\ switches \in Nat
  /\ idle => cur = lastIssued
  /\ ~AllHalted => cycle + Weight(Waits, Threads) <= Weight(Works, Threads) + Penalties

\* What a step pays for a switch.
Paid == IF isBlocked /\ ~idle' /\ cur' # cur THEN img.switchCyc ELSE 0

LEMMA StepTimes ==
  ASSUME IInv, Next
  PROVE  \/ Terminated
         \/ (Issue \/ Bubble) /\ cycle' = cycle + 1 + Paid /\ (idle' => cur' = cur)
<1>1. \A now : SwitchThread(now) => (idle' => cur' = cur)
  BY DEF SwitchThread
<1>2. cycle + 1 + 0 = cycle + 1
  BY DEF IInv, TypeOK
<1>3. CASE FinegrainedIssue \/ FinegrainedIdle
  BY <1>1, <1>2, <1>3 DEF FinegrainedIssue, FinegrainedIdle, FinegrainedTick, Paid
<1>4. CASE BlockedIssueEvent \/ BlockedIdle
  BY <1>1, <1>4 DEF BlockedIssueEvent, BlockedIdle, BlockedSwitch, SwitchPenalty, Paid
<1>5. CASE BlockedIssueOther
  BY <1>2, <1>5 DEF BlockedIssueOther, Paid
<1> QED BY <1>3, <1>4, <1>5 DEF Next

\* The image never changes, nor do the costs.
LEMMA CostsStay ==
  ASSUME IInv, Next
  PROVE  /\ img' = img /\ isBlocked' = isBlocked
         /\ \A t, k : Serial(t, k)' = Serial(t', k')
         /\ \A op : Latency(op)' = Latency(op')
<1>1. img' = img /\ isBlocked' = isBlocked
  BY StepKinds DEF Issue, Bubble, Terminated, vars, archVars, schedVars
<1> QED BY <1>1 DEF Serial, Costs, Latency

LEMMA ThreadsFinite == IsFiniteSet(Threads)
<1>1. NThreads \in Nat
  BY ImageAssumption
<1> QED BY <1>1, FS_Interval DEF Threads

LEMMA InitCost == HInit => ClockInv /\ CostInv
<1> SUFFICES ASSUME HInit PROVE ClockInv /\ CostInv
  OBVIOUS
<1>1. /\ TypeOK /\ nInst = 0 /\ cycle = 0 /\ switches = 0 /\ ~idle /\ cur = lastIssued
      /\ pc = [t \in Threads |-> 0] /\ curOp = [t \in Threads |-> "NOP"]
      /\ startCycle = [t \in Threads |-> 0] /\ img \in Images
  BY InitIInv DEF HInit, Init, ArchInit, IInv
<1>2. ClockInv
  BY <1>1 DEF ClockInv
<1>3. \A t \in Threads : Rest(t) = 0 /\ Serial(t, pc[t]) = 0
  BY <1>1, SerialNext DEF Rest, Latency
<1>4. Waits = Works /\ Waits \in [Threads -> Nat]
  BY <1>3 DEF Waits, Works
<1>5. Weight(Waits, Threads) \in Nat
  BY <1>4, ThreadsFinite, WeightFinite
<1>6. Penalties = 0
  <2>1. img.switchCyc \in Nat
    BY <1>1, ImageFields, ThreadsFacts
  <2> QED BY <1>1, <2>1 DEF Penalties
<1> QED BY <1>1, <1>2, <1>4, <1>5, <1>6 DEF CostInv

\* What the current thread has waited for is the work it had to wait for.
LEMMA FreeHasWorked ==
  ASSUME IInv, ClockInv, NEW t \in Threads, Free(t, cycle)
  PROVE  /\ cycle >= Serial(t, pc[t])
         /\ Serial(t, pc[t]) \in Nat
         /\ Rest(t) = 0
<1>1. /\ pc[t] \in Nat /\ cycle \in Nat /\ startCycle[t] \in Nat /\ Latency(curOp[t]) \in Nat
      /\ TypeOK
  BY LatencyInNat DEF IInv, TypeOK
<1>2. cycle - startCycle[t] >= Latency(curOp[t])
  BY DEF Free
<1>3. CASE pc[t] = 0
  <2>1. Serial(t, 0) = 0
    BY <1>1, SerialNext
  <2> QED BY <1>1, <1>2, <1>3, <2>1 DEF Rest
<1>4. CASE pc[t] # 0
  <2> DEFINE k == pc[t] - 1
  <2>1. k \in Nat /\ k + 1 = pc[t]
    BY <1>1, <1>4
  <2>2. curOp[t] = img.prog[t][pc[t]].op /\ startCycle[t] >= Serial(t, k) + 1
    BY <1>4 DEF ClockInv
  <2> HIDE DEF k
  <2>3. /\ Serial(t, k) \in Nat
        /\ Serial(t, k + 1) = Serial(t, k) + 1 + Latency(img.prog[t][k + 1].op)
    BY <1>1, <2>1, SerialNext
  <2> QED BY <1>1, <1>2, <2>1, <2>2, <2>3 DEF Rest
<1> QED BY <1>3, <1>4

\* What an issue leaves of the data on the threads.
LEMMA IssuedThread ==
  ASSUME IInv, Next, Issue, NEW t \in Threads
  PROVE  /\ t # cur => pc'[t] = pc[t] /\ curOp'[t] = curOp[t] /\ startCycle'[t] = startCycle[t]
         /\ t = cur => /\ pc'[t] = pc[t] + 1
                       /\ curOp'[t] = img.prog[t][pc[t] + 1].op
                       /\ startCycle'[t] = cycle + 1
BY DEF Issue, Execute, Fetch, IInv, TypeOK

LEMMA NextClock ==
  ASSUME IInv, ClockInv, HNext
  PROVE  ClockInv'
<1>1. /\ Next /\ img' = img /\ TypeOK
      /\ \A t, k : Serial(t, k)' = Serial(t', k')
  BY CostsStay DEF HNext, IInv
<1>2. CASE Issue
  <2>1. /\ cur \in Threads /\ cycle \in Nat /\ \A t \in Threads : pc[t] \in Nat
        /\ Free(cur, cycle)
    BY <1>2 DEF IInv, TypeOK, IssueSafe, Issue
  <2>2. cycle >= Serial(cur, pc[cur]) /\ Serial(cur, pc[cur]) \in Nat
    BY <2>1, FreeHasWorked
  <2> SUFFICES ASSUME NEW t \in Threads
               PROVE  IF pc'[t] = 0 THEN curOp'[t] = "NOP"
                      ELSE /\ curOp'[t] = img.prog[t][pc'[t]].op
                           /\ startCycle'[t] >= Serial(t, pc'[t] - 1) + 1
    BY <1>1 DEF ClockInv
  <2>3. CASE t # cur
    BY <1>1, <1>2, <2>3, IssuedThread DEF ClockInv
  <2>4. CASE t = cur
    <3>1. pc'[t] = pc[t] + 1 /\ startCycle'[t] = cycle + 1
          /\ curOp'[t] = img.prog[t][pc[t] + 1].op
      BY <1>1, <1>2, <2>4, IssuedThread
    <3>2. pc'[t] - 1 = pc[t] /\ pc'[t] # 0
      BY <2>1, <3>1
    <3> QED BY <2>1, <2>2, <2>4, <3>1, <3>2
  <2> QED BY <2>3, <2>4
<1>3. CASE Bubble \/ Terminated
  <2>1. UNCHANGED <<pc, curOp, startCycle>>
    BY <1>3 DEF Bubble, Terminated, vars, archVars, schedVars
  <2> QED BY <1>1, <2>1 DEF ClockInv
<1> QED BY <1>1, <1>2, <1>3, StepKinds

LEMMA WaitsAndWorks ==
  IInv /\ LeaveInv => Waits \in [Threads -> Nat] /\ Works \in [Threads -> Nat]
<1> SUFFICES ASSUME IInv, LeaveInv
             PROVE  Waits \in [Threads -> Nat] /\ Works \in [Threads -> Nat]
  OBVIOUS
<1>1. ASSUME NEW t \in Threads PROVE Rest(t) \in Nat /\ Serial(t, pc[t]) \in Nat
  <2>1. /\ TypeOK /\ pc[t] \in Nat /\ startCycle[t] \in Nat
        /\ Latency(curOp[t]) \in Nat /\ cycle \in Nat
    BY LatencyInNat DEF IInv, TypeOK
  <2>2. Serial(t, pc[t]) \in Nat
    BY <2>1, SerialNext
  <2> QED BY <2>1, <2>2 DEF Rest
<1> QED BY <1>1 DEF Waits, Works

\* An issue adds its cycle and its latency to the work of its thread, and at
\* most the latency to what is waited for.
LEMMA IssueCosts ==
  ASSUME IInv, IInv', LeaveInv, LeaveInv', ClockInv, Next, Issue
  PROVE  /\ {Weight(Waits, Threads), Weight(Works, Threads),
             Weight(Waits, Threads)', Weight(Works, Threads)'} \subseteq Nat
         /\ Weight(Waits, Threads)' - Weight(Waits, Threads) + 1
              <= Weight(Works, Threads)' - Weight(Works, Threads)
<1> DEFINE L == Latency(curOp'[cur])
<1>1. /\ cur \in Threads /\ cycle \in Nat /\ TypeOK /\ cycle' \in Nat /\ cycle' >= cycle + 1
      /\ \A t \in Threads : /\ pc[t] \in Nat /\ startCycle[t] \in Nat
                            /\ Latency(curOp[t]) \in Nat
      /\ L \in Nat
  <2>1. cycle \in Nat /\ cycle' \in Nat /\ cycle' > cycle
    BY StepKinds DEF IInv, TypeOK, Bubble, Terminated, Issue
  <2>2. cycle' >= cycle + 1
    BY <2>1
  <2> QED BY <2>1, <2>2, LatencyInNat DEF IInv, TypeOK
<1>2. /\ Rest(cur) = 0
      /\ Serial(cur, pc[cur] + 1) = Serial(cur, pc[cur]) + 1 + L
      /\ Serial(cur, pc[cur]) \in Nat
  <2>1. Free(cur, cycle)
    BY DEF IInv, IssueSafe, Issue
  <2>2. curOp'[cur] = img.prog[cur][pc[cur] + 1].op
    BY <1>1, IssuedThread
  <2>3. Rest(cur) = 0
    BY <1>1, <2>1, FreeHasWorked
  <2> QED BY <1>1, <2>2, <2>3, SerialNext
<1>3. /\ Waits' = [t \in Threads |-> Rest(t)'] /\ Works' = [t \in Threads |-> Serial(t, pc'[t])]
      /\ \A t \in Threads : Rest(t)' = IF startCycle'[t] + Latency(curOp'[t]) > cycle'
                                       THEN startCycle'[t] + Latency(curOp'[t]) - cycle' ELSE 0
  BY CostsStay DEF Waits, Works, Rest
<1>4. /\ Waits \in [Threads -> Nat] /\ Works \in [Threads -> Nat]
      /\ Waits' \in [Threads -> Nat] /\ Works' \in [Threads -> Nat]
  <2>1. (IInv /\ LeaveInv)' => (Waits \in [Threads -> Nat] /\ Works \in [Threads -> Nat])'
    BY WaitsAndWorks, PTL
  <2> QED BY <2>1, WaitsAndWorks
<1>5. ASSUME NEW t \in Threads, t # cur
      PROVE  Waits'[t] <= Waits[t] /\ Works'[t] = Works[t]
  <2>1. pc'[t] = pc[t] /\ curOp'[t] = curOp[t] /\ startCycle'[t] = startCycle[t]
    BY <1>5, IssuedThread
  <2>2. Rest(t)' <= Rest(t)
    BY <1>1, <1>3, <2>1 DEF Rest
  <2> QED BY <1>3, <2>1, <2>2 DEF Waits, Works
<1>6. Waits[cur] = 0 /\ Waits'[cur] <= L /\ Works'[cur] = Works[cur] + 1 + L
  <2>1. startCycle'[cur] = cycle + 1 /\ pc'[cur] = pc[cur] + 1
    BY <1>1, IssuedThread
  <2>2. Waits'[cur] <= L
    <3>1. Waits'[cur] = IF startCycle'[cur] + L > cycle' THEN startCycle'[cur] + L - cycle' ELSE 0
      BY <1>1, <1>3
    <3> HIDE DEF L
    <3>2. Waits'[cur] = IF (cycle + 1) + L > cycle' THEN (cycle + 1) + L - cycle' ELSE 0
      BY <2>1, <3>1
    <3>3. L \in Nat /\ cycle \in Nat /\ cycle' \in Nat /\ cycle' >= cycle + 1
      BY <1>1
    <3>4. \A l, a, b \in Nat : b >= a => (IF a + l > b THEN a + l - b ELSE 0) <= l
      OBVIOUS
    <3>5. cycle + 1 \in Nat
      BY <3>3
    <3> QED BY <3>2, <3>3, <3>4, <3>5
  <2> QED BY <1>1, <1>2, <1>3, <2>1, <2>2 DEF Waits, Works
<1> DEFINE a == Waits
           b == Waits'
           c == Works
           d == Works'
<1>7. /\ a \in [Threads -> Nat] /\ b \in [Threads -> Nat] /\ c \in [Threads -> Nat]
      /\ d \in [Threads -> Nat] /\ Threads \in SUBSET Threads /\ IsFiniteSet(Threads)
      /\ \A y \in Threads : y # cur => b[y] <= a[y]
      /\ \A y \in Threads : y # cur => c[y] <= d[y]
      /\ a[cur] = 0 /\ b[cur] <= L /\ d[cur] = c[cur] + 1 + L
  <2>1. \A y \in Threads : y # cur => c[y] <= d[y]
    BY <1>4, <1>5
  <2> QED BY <1>4, <1>5, <1>6, <2>1, ThreadsFinite
<1>8. /\ Weight(Waits, Threads)' = Weight(b, Threads)
      /\ Weight(Works, Threads)' = Weight(d, Threads)
  BY DEF Weight, Units, Threads
<1>k. L \in Nat /\ cur \in Threads
  BY <1>1
<1> HIDE DEF a, b, c, d, L
<1>9. /\ Weight(a, Threads) \in Nat /\ Weight(b, Threads) \in Nat
      /\ Weight(b, Threads) - b[cur] <= Weight(a, Threads) - a[cur]
  BY <1>7, <1>k, WeightChange
<1>10. /\ Weight(c, Threads) \in Nat /\ Weight(d, Threads) \in Nat
       /\ Weight(c, Threads) - c[cur] <= Weight(d, Threads) - d[cur]
  BY <1>7, <1>k, WeightChange
<1>11. a[cur] \in Nat /\ b[cur] \in Nat /\ c[cur] \in Nat /\ d[cur] \in Nat
  BY <1>7, <1>k
<1>12. Weight(b, Threads) - Weight(a, Threads) + 1 <= Weight(d, Threads) - Weight(c, Threads)
  BY <1>7, <1>k, <1>9, <1>10, <1>11
<1> QED BY <1>8, <1>9, <1>10, <1>12 DEF a, c

\* In a cycle without an issue a thread that has not halted is waited for.
LEMMA BubbleCosts ==
  ASSUME IInv, IInv', LeaveInv, LeaveInv', Next, Bubble
  PROVE  /\ {Weight(Waits, Threads), Weight(Works, Threads),
             Weight(Waits, Threads)'} \subseteq Nat
         /\ Weight(Works, Threads)' = Weight(Works, Threads)
         /\ Weight(Waits, Threads)' + 1 <= Weight(Waits, Threads)
<1>1. /\ cycle \in Nat /\ cycle' \in Nat /\ cycle' >= cycle + 1
      /\ \A t \in Threads : startCycle[t] \in Nat /\ Latency(curOp[t]) \in Nat
      /\ img' = img
      /\ UNCHANGED <<pc, startCycle, curOp>>
  <2>1. cycle \in Nat /\ Paid \in Nat /\ TypeOK
    BY ImageFields, ThreadsFacts DEF IInv, TypeOK, Paid
  <2>2. cycle' = cycle + 1 + Paid
    BY StepTimes DEF Bubble, Terminated
  <2> QED BY <2>1, <2>2, LatencyInNat, CostsStay DEF TypeOK, Bubble, archVars
<1>2. Works' = Works
  BY <1>1, CostsStay DEF Works
<1>3. /\ Waits' = [t \in Threads |-> Rest(t)']
      /\ \A t \in Threads : Rest(t)' = IF startCycle[t] + Latency(curOp[t]) > cycle'
                                       THEN startCycle[t] + Latency(curOp[t]) - cycle' ELSE 0
  BY <1>1 DEF Waits, Rest, Latency
<1>4. /\ Waits \in [Threads -> Nat] /\ Works \in [Threads -> Nat] /\ Waits' \in [Threads -> Nat]
  <2>1. (IInv /\ LeaveInv)' => (Waits \in [Threads -> Nat])'
    BY WaitsAndWorks, PTL
  <2> QED BY <2>1, WaitsAndWorks
<1>5. PICK u \in Threads : ~halted[u]
  BY DEF Bubble, AllHalted
<1>6. Rest(u)' + 1 <= Rest(u)
  <2>1. cycle - startCycle[u] < Latency(curOp[u])
    BY <1>1, <1>5 DEF IInv, IdleMeansNoneFree, Bubble, Free
  <2> QED BY <1>1, <1>3, <2>1 DEF Rest
<1>7. \A t \in Threads : Rest(t)' <= Rest(t)
  BY <1>1, <1>3 DEF Rest
<1> DEFINE a == Waits
           b == Waits'
<1>8. /\ a \in [Threads -> Nat] /\ b \in [Threads -> Nat]
      /\ Threads \in SUBSET Threads /\ IsFiniteSet(Threads) /\ u \in Threads
      /\ \A y \in Threads : y # u => b[y] <= a[y]
      /\ b[u] + 1 <= a[u]
  BY <1>3, <1>4, <1>6, <1>7, ThreadsFinite DEF Waits
<1>9. /\ Weight(Waits, Threads)' = Weight(b, Threads)
      /\ Weight(Works, Threads)' = Weight(Works, Threads)
  BY <1>2 DEF Weight, Units, Threads
<1>10. Weight(Works, Threads) \in Nat
  BY <1>4, ThreadsFinite, WeightFinite
<1> HIDE DEF a, b
<1>11. /\ Weight(a, Threads) \in Nat /\ Weight(b, Threads) \in Nat
       /\ Weight(b, Threads) - b[u] <= Weight(a, Threads) - a[u]
  BY <1>8, WeightChange
<1>12. a[u] \in Nat /\ b[u] \in Nat
  BY <1>8
<1>13. Weight(b, Threads) + 1 <= Weight(a, Threads)
  BY <1>8, <1>11, <1>12
<1> QED BY <1>9, <1>10, <1>11, <1>13 DEF a

\* The penalties of the history are those that the steps pay.
LEMMA PenaltiesPaid ==
  ASSUME IInv, CostInv, HNext, Issue \/ Bubble, idle' => cur' = cur
  PROVE  /\ Penalties \in Nat /\ Paid \in Nat
         /\ Penalties' = Penalties + Paid
         /\ switches' \in Nat
         /\ idle' => cur' = lastIssued'
<1> DEFINE s == IF isBlocked THEN img.switchCyc ELSE 0
           n == switches + (IF ~idle /\ cur # lastIssued THEN 1 ELSE 0)
           n2 == switches' + (IF ~idle' /\ cur' # lastIssued' THEN 1 ELSE 0)
<1>1. s \in Nat /\ switches \in Nat /\ img' = img /\ isBlocked' = isBlocked
  BY ImageFields, ThreadsFacts DEF Issue, Bubble, archVars, HNext, IInv, TypeOK, CostInv
<1>2. Penalties = n * s /\ Penalties' = n2 * s
  BY <1>1 DEF Penalties
<1>3. /\ n \in Nat /\ switches' \in Nat
      /\ n2 = IF ~idle' /\ cur' # cur THEN n + 1 ELSE n
      /\ idle' => cur' = lastIssued'
  <2>1. CASE Issue
    <3>1. Issues /\ ~idle
      BY <2>1, IssueType DEF Issue, Issues, IInv, TypeOK
    <3>2. lastIssued' = cur
          /\ switches' = IF cur # lastIssued THEN switches + 1 ELSE switches
      BY <3>1 DEF HNext, Remember
    <3> QED BY <1>1, <3>1, <3>2
  <2>2. CASE Bubble
    <3>1. ~Issues /\ idle /\ cur = lastIssued
      BY <2>2 DEF Bubble, Issues, CostInv
    <3>2. lastIssued' = lastIssued /\ switches' = switches
      BY <3>1 DEF HNext, Remember
    <3> QED BY <1>1, <3>1, <3>2
  <2> QED BY <2>1, <2>2
<1>4. Paid = IF ~idle' /\ cur' # cur THEN s ELSE 0
  BY DEF Paid
<1> HIDE DEF s, n, n2
<1>5. (n + 1) * s = n * s + s /\ n * s \in Nat
  BY <1>1, <1>3
<1> QED BY <1>1, <1>2, <1>3, <1>4, <1>5

LEMMA NextCost ==
  ASSUME IInv, IInv', LeaveInv, LeaveInv', ClockInv, CostInv, HNext
  PROVE  CostInv'
<1>1. Next /\ cycle \in Nat /\ nInst \in Nat /\ nInst <= cycle
  BY DEF HNext, IInv, TypeOK, CostInv
<1>2. CASE Terminated
  BY <1>2 DEF Terminated, vars, archVars, schedVars, HNext, Remember, Issues, CostInv, AllHalted
<1>3. ASSUME ~Terminated, Issue \/ Bubble, cycle' = cycle + 1 + Paid, idle' => cur' = cur
      PROVE  CostInv'
  <2>1. /\ Penalties \in Nat /\ Paid \in Nat /\ Penalties' = Penalties + Paid
        /\ switches' \in Nat /\ (idle' => cur' = lastIssued')
    BY <1>3, PenaltiesPaid
  <2>2. nInst' \in {nInst, nInst + 1}
    BY <1>3 DEF Issue, Bubble
  <2>3. nInst' <= cycle'
    BY <1>1, <1>3, <2>1, <2>2
  <2>4. cycle + Weight(Waits, Threads) <= Weight(Works, Threads) + Penalties
    BY <1>3 DEF CostInv, Issue, Bubble
  <2>5. cycle' + Weight(Waits, Threads)' <= Weight(Works, Threads)' + Penalties'
    <3>1. CASE Issue
      <4>1. /\ {Weight(Waits, Threads), Weight(Works, Threads),
                Weight(Waits, Threads)', Weight(Works, Threads)'} \subseteq Nat
            /\ Weight(Waits, Threads)' - Weight(Waits, Threads) + 1
                 <= Weight(Works, Threads)' - Weight(Works, Threads)
        BY <1>1, <3>1, IssueCosts
      <4> QED BY <1>1, <1>3, <2>1, <2>4, <4>1
    <3>2. CASE Bubble
      <4>1. /\ {Weight(Waits, Threads), Weight(Works, Threads),
                Weight(Waits, Threads)'} \subseteq Nat
            /\ Weight(Works, Threads)' = Weight(Works, Threads)
            /\ Weight(Waits, Threads)' + 1 <= Weight(Waits, Threads)
        BY <1>1, <3>2, BubbleCosts
      <4> QED BY <1>1, <1>3, <2>1, <2>4, <4>1
    <3> QED BY <1>3, <3>1, <3>2
  <2> QED BY <2>1, <2>3, <2>5 DEF CostInv
<1> QED BY <1>1, <1>2, <1>3, StepTimes

-----------------------------------------------------------------------------
\* While no word is used by two threads: a thread has seen what it sees when
\* alone, and a word no thread has used is as the image has it.

PrivateIn(m, p) ==
  \A t, u \in Threads :
    t # u => AloneIn(m, t, p[t]).uses \cap AloneIn(m, u, p[u]).uses = {}

\* How a run alone stands: only the words it used may differ from the image.
AloneFits(m, a) ==
  /\ a.mem \in Memory /\ a.uses \subseteq 0..NWords-1
  /\ \A w \in 0..NWords-1 : w \notin a.uses => a.mem[w] = m.data[w]

ApartInv ==
  PrivateIn(img, pc) =>
    /\ \A t \in Threads :
         /\ AloneFits(img, AloneIn(img, t, pc[t]))
         /\ reg[t] = AloneIn(img, t, pc[t]).reg
         /\ \A w \in AloneIn(img, t, pc[t]).uses : data[w] = AloneIn(img, t, pc[t]).mem[w]
    /\ \A w \in 0..NWords-1 :
         (\A t \in Threads : w \notin AloneIn(img, t, pc[t]).uses) => data[w] = img.data[w]

LEMMA AloneIsAloneIn == \A t, k : Alone(t, k) = AloneIn(img, t, k)
BY DEF Alone, AloneIn, RunOf, Effect, FirstOf

LEMMA InitApart == HInit => ApartInv
<1> SUFFICES ASSUME HInit PROVE ApartInv
  OBVIOUS
<1>1. /\ img \in Images /\ data = img.data /\ pc = [t \in Threads |-> 0]
      /\ reg = [t \in Threads |-> [r \in Reg |-> 0]] /\ data \in Memory
  BY InitIInv DEF HInit, Init, ArchInit, IInv, TypeOK
<1>2. ASSUME NEW t \in Threads
      PROVE  AloneIn(img, t, pc[t]) = FirstOf(img)
  <2>1. 0 < Len(img.prog[t])
    BY <1>1, ImageFields
  <2> QED BY <1>1, <2>1, AloneNext
<1> QED BY <1>1, <1>2 DEF ApartInv, AloneFits, FirstOf

\* The words an instruction uses, and the step of a thread next to what the
\* same instruction does to it alone.
WordsOf(i, r, first) ==
  IF i.op \in MemoryOpcode THEN {WordIndex(Address(i, r), first)} ELSE {}

StepsAlike(m, i, r, d, a, b, d2) ==
  LET used == WordsOf(i, r, m.dataStart) IN
  /\ b.reg = RegsAfter(i, r, d, m.dataStart)
  /\ b.uses = a.uses \cup used
  /\ AloneFits(m, b)
  /\ used \subseteq 0..NWords-1
  /\ \A w \in 0..NWords-1 : w \notin used => d2[w] = d[w] /\ b.mem[w] = a.mem[w]
  /\ \A w \in used : d2[w] = b.mem[w]

LEMMA EffectFits ==
  ASSUME NEW m \in Images, NEW i \in Instruction, NEW a, NEW r \in RegFile, NEW d \in Memory,
         a.reg = r, AloneFits(m, a), Defined(i, r, m.dataStart),
         \A w \in WordsOf(i, r, m.dataStart) : d[w] = a.mem[w]
  PROVE  StepsAlike(m, i, r, d, a, Effect(m, a, i), MemAfter(i, r, d, m.dataStart))
<1> DEFINE x == WordIndex(Address(i, r), m.dataStart)
           b == Effect(m, a, i)
           d2 == MemAfter(i, r, d, m.dataStart)
           used == WordsOf(i, r, m.dataStart)
<1>1. /\ i.op \in Opcode /\ i.src1 \in Reg /\ r[i.src1] \in Word
      /\ i.op \in MemoryOpcode => x \in 0..NWords-1
      /\ i.op \in MemoryOpcode <=> i.op = "LOAD" \/ i.op = "STORE"
      /\ a.mem \in Memory /\ d \in Memory
  BY FieldsOfInstruction DEF AloneFits, RegFile, Defined, MemoryOpcode
<1>2. /\ b.reg = RegsAfter(i, r, a.mem, m.dataStart)
      /\ b.mem = MemAfter(i, r, a.mem, m.dataStart)
      /\ b.uses = a.uses \cup used
  BY DEF Effect, WordsOf
<1>3. b.reg = RegsAfter(i, r, d, m.dataStart)
  <2>1. CASE i.op = "LOAD"
    <3>1. Result(i, r, a.mem, m.dataStart) = a.mem[x] /\ Result(i, r, d, m.dataStart) = d[x]
      BY <2>1 DEF Result
    <3>2. d[x] = a.mem[x]
      BY <1>1, <2>1 DEF WordsOf
    <3>3. Result(i, r, a.mem, m.dataStart) = Result(i, r, d, m.dataStart)
      BY <3>1, <3>2
    <3> HIDE DEF b
    <3> QED BY <1>2, <3>3 DEF RegsAfter
  <2>2. CASE i.op # "LOAD"
    <3> HIDE DEF b
    <3>1. CASE i.op \in {"NOP", "STORE", "HALT"}
      BY <1>2, <3>1 DEF RegsAfter
    <3>2. CASE i.op \in {"ADD", "ADDI", "SUB", "SUBI"}
      <4>1. Result(i, r, a.mem, m.dataStart) = Result(i, r, d, m.dataStart)
        BY <3>2 DEF Result
      <4> QED BY <1>2, <4>1 DEF RegsAfter
    <3> QED BY <1>1, <2>2, <3>1, <3>2 DEF Opcode
  <2> QED BY <2>1, <2>2
<1>4. used \subseteq 0..NWords-1 /\ \A w \in used : w = x /\ i.op \in MemoryOpcode
  BY <1>1 DEF WordsOf
<1> HIDE DEF b, d2, x, used
<1>5. /\ AloneFits(m, b)
      /\ \A w \in 0..NWords-1 : w \notin used => d2[w] = d[w] /\ b.mem[w] = a.mem[w]
      /\ \A w \in used : d2[w] = b.mem[w]
  <2>1. CASE i.op = "STORE"
    <3>1. /\ b.mem = [a.mem EXCEPT ![x] = r[i.src1]]
          /\ d2 = [d EXCEPT ![x] = r[i.src1]]
      BY <1>2, <2>1 DEF MemAfter, x, d2
    <3>2. used = {x} /\ x \in 0..NWords-1
      BY <1>1, <2>1 DEF used, WordsOf, x
    <3>3. /\ b.mem \in Memory
          /\ \A w \in 0..NWords-1 : w # x => d2[w] = d[w] /\ b.mem[w] = a.mem[w]
          /\ d2[x] = b.mem[x]
      BY <1>1, <3>1, <3>2 DEF Memory
    <3>4. AloneFits(m, b)
      BY <1>2, <3>2, <3>3 DEF AloneFits
    <3> QED BY <3>2, <3>3, <3>4
  <2>2. CASE i.op # "STORE"
    <3>1. b.mem = a.mem /\ d2 = d
      BY <1>2, <2>2 DEF MemAfter, d2
    <3>2. \A w \in used : d[w] = a.mem[w]
      BY DEF used
    <3>3. AloneFits(m, b)
      BY <1>2, <1>4, <3>1 DEF AloneFits
    <3> QED BY <3>1, <3>2, <3>3
  <2> QED BY <2>1, <2>2
<1> QED BY <1>2, <1>3, <1>4, <1>5 DEF StepsAlike, b, d2, used

LEMMA NextApart ==
  ASSUME IInv, ApartInv, HNext
  PROVE  ApartInv'
<1>1. Next /\ img' = img /\ img \in Images
  BY CostsStay DEF HNext, IInv, TypeOK
<1>2. CASE Bubble \/ Terminated
  <2>1. UNCHANGED <<pc, reg, data>>
    BY <1>2 DEF Bubble, Terminated, vars, archVars
  <2> QED BY <1>1, <2>1 DEF ApartInv
<1>3. CASE Issue
  <2> DEFINE c == cur
             k == pc[c]
             i == Fetch(c)
             A(t) == AloneIn(img, t, pc[t])
             B(t) == AloneIn(img, t, pc'[t])
             x == WordIndex(Address(i, reg[c]), img.dataStart)
             used == WordsOf(i, reg[c], img.dataStart)
  <2>1. /\ c \in Threads /\ k \in Nat /\ i \in Instruction /\ reg[c] \in RegFile /\ data \in Memory
        /\ k < Len(img.prog[c]) /\ i = img.prog[c][k + 1]
    <3>1. ~halted[c] /\ c \in Threads /\ TypeOK /\ NoHaltBehind
      BY <1>3, IssueType DEF IInv, TypeOK
    <3>2. k + 1 \in DOMAIN img.prog[c] /\ k \in Nat
      BY <3>1, InProgram DEF TypeOK
    <3>3. img.prog[c] \in Seq(Instruction)
      BY <1>1, <3>1, ImageFields
    <3>4. k < Len(img.prog[c])
      BY <3>2, <3>3
    <3> QED BY <3>1, <3>2, <3>4, FetchType DEF TypeOK, Fetch
  <2>2. /\ Defined(i, reg[c], img.dataStart)
        /\ \A t \in Threads : /\ t # c => pc'[t] = pc[t] /\ reg'[t] = reg[t]
                              /\ t = c => /\ pc'[t] = k + 1
                                          /\ reg'[t] = RegsAfter(i, reg[c], data, img.dataStart)
        /\ data' = MemAfter(i, reg[c], data, img.dataStart)
    BY <1>3, <2>1 DEF Issue, Execute, IInv, TypeOK
  <2>3. B(c) = Effect(img, A(c), i) /\ \A t \in Threads : t # c => B(t) = A(t)
    BY <1>1, <2>1, <2>2, AloneNext
  <2> HIDE DEF A, B, i, x
  <2>u. used = IF i.op \in MemoryOpcode THEN {x} ELSE {}
    BY DEF WordsOf, x
  <2> HIDE DEF used
  <2>4. SUFFICES ASSUME \A t, u \in Threads : t # u => B(t).uses \cap B(u).uses = {}
        PROVE  /\ \A t \in Threads :
                    /\ AloneFits(img, B(t))
                    /\ reg'[t] = B(t).reg
                    /\ \A w \in B(t).uses : data'[w] = B(t).mem[w]
               /\ \A w \in 0..NWords-1 :
                    (\A t \in Threads : w \notin B(t).uses) => data'[w] = img.data[w]
    BY <1>1 DEF ApartInv, PrivateIn, B
  <2>5. A(c).uses \subseteq B(c).uses
    BY <2>3 DEF Effect
  <2>6. \A t, u \in Threads : t # u => A(t).uses \cap A(u).uses = {}
    <3>1. \A t \in Threads : A(t).uses \subseteq B(t).uses
      BY <2>3, <2>5
    <3> QED BY <2>4, <3>1
  <2>7. /\ \A t \in Threads :
             /\ AloneFits(img, A(t)) /\ reg[t] = A(t).reg
             /\ \A w \in A(t).uses : data[w] = A(t).mem[w]
        /\ \A w \in 0..NWords-1 :
             (\A t \in Threads : w \notin A(t).uses) => data[w] = img.data[w]
    BY <2>6 DEF ApartInv, PrivateIn, A
  <2>8. i.op \in MemoryOpcode => /\ x \in 0..NWords-1 /\ x \in B(c).uses
                                 /\ \A t \in Threads : t # c => x \notin A(t).uses
    <3>1. i.op \in MemoryOpcode => x \in 0..NWords-1
      BY <2>2 DEF Defined, x
    <3>2. i.op \in MemoryOpcode => x \in B(c).uses
      BY <2>1, <2>3, <2>7 DEF Effect, x
    <3>3. \A t \in Threads : t # c => B(c).uses \cap A(t).uses = {}
      BY <2>1, <2>3, <2>4
    <3> QED BY <3>1, <3>2, <3>3
  <2>9. i.op \in MemoryOpcode => data[x] = A(c).mem[x]
    <3>1. CASE x \in A(c).uses
      BY <2>1, <2>7, <3>1
    <3>2. ASSUME x \notin A(c).uses, i.op \in MemoryOpcode PROVE data[x] = A(c).mem[x]
      <4>1. data[x] = img.data[x]
        BY <2>7, <2>8, <3>2
      <4>2. A(c).mem[x] = img.data[x]
        BY <2>1, <2>7, <2>8, <3>2 DEF AloneFits
      <4> QED BY <4>1, <4>2
    <3> QED BY <3>1, <3>2
  <2> DEFINE a == A(c)
             b == Effect(img, a, i)
             d2 == MemAfter(i, reg[c], data, img.dataStart)
  <2>10. /\ b.reg = RegsAfter(i, reg[c], data, img.dataStart)
         /\ b.uses = a.uses \cup used
         /\ AloneFits(img, b)
         /\ used \subseteq 0..NWords-1
         /\ \A w \in 0..NWords-1 : w \notin used => d2[w] = data[w] /\ b.mem[w] = a.mem[w]
         /\ \A w \in used : d2[w] = b.mem[w]
    <3>1. a.reg = reg[c] /\ AloneFits(img, a)
      BY <2>1, <2>7
    <3>2. \A w \in WordsOf(i, reg[c], img.dataStart) : data[w] = a.mem[w]
      BY <2>u, <2>9 DEF used
    <3> HIDE DEF a
    <3>3. StepsAlike(img, i, reg[c], data, a, Effect(img, a, i),
                     MemAfter(i, reg[c], data, img.dataStart))
      BY <1>1, <2>1, <2>2, <3>1, <3>2, EffectFits
    <3> QED BY <3>3 DEF StepsAlike, used, a
  <2>11. b = B(c) /\ d2 = data'
    BY <2>2, <2>3
  <2>12. \A t \in Threads : t # c => used \cap A(t).uses = {}
    BY <2>8, <2>u
  <2> HIDE DEF a, b, d2
  <2>13. \A t \in Threads : AloneFits(img, A(t)) => A(t).uses \subseteq 0..NWords-1
    BY DEF AloneFits
  <2>14. ASSUME NEW t \in Threads
        PROVE  /\ AloneFits(img, B(t))
               /\ reg'[t] = B(t).reg
               /\ \A w \in B(t).uses : data'[w] = B(t).mem[w]
    <3>1. CASE t # c
      <4>1. B(t) = A(t) /\ reg'[t] = reg[t]
        BY <2>2, <2>3, <3>1
      <4>2. \A w \in A(t).uses : w \in 0..NWords-1 /\ w \notin used
        BY <2>7, <2>12, <2>13, <3>1
      <4> QED BY <2>7, <2>10, <2>11, <4>1, <4>2
    <3>2. CASE t = c
      <4>1. AloneFits(img, B(t)) /\ reg'[t] = B(t).reg
        BY <2>2, <2>10, <2>11, <3>2
      <4>2. ASSUME NEW w \in B(t).uses PROVE data'[w] = B(t).mem[w]
        <5>1. CASE w \in used
          BY <2>10, <2>11, <3>2, <5>1
        <5>2. CASE w \notin used
          <6>1. w \in a.uses /\ w \in 0..NWords-1
            BY <2>7, <2>10, <2>11, <2>13, <3>2, <5>2 DEF a
          <6>2. data[w] = a.mem[w]
            BY <2>1, <2>7, <6>1 DEF a
          <6> QED BY <2>10, <2>11, <3>2, <5>2, <6>1, <6>2
        <5> QED BY <5>1, <5>2
      <4> QED BY <4>1, <4>2
    <3> QED BY <3>1, <3>2
  <2>15. ASSUME NEW w \in 0..NWords-1, \A t \in Threads : w \notin B(t).uses
         PROVE  data'[w] = img.data[w]
    <3>1. w \notin b.uses
      BY <2>1, <2>11, <2>15
    <3>2. w \notin used /\ \A t \in Threads : w \notin A(t).uses
      BY <2>3, <2>10, <2>15, <3>1 DEF a
    <3> QED BY <2>7, <2>10, <2>11, <3>2
  <2> QED BY <2>14, <2>15
<1> QED BY <1>1, <1>2, <1>3, StepKinds

-----------------------------------------------------------------------------
\* The history changes nothing of the core.
HInv == IInv /\ OvertakenInv /\ LeaveInv /\ ClockInv /\ CostInv /\ ApartInv

LEMMA HistoryInvariant == HSpec => []HInv
<1>1. HInit => HInv
  BY InitIInv, InitOvertaken, InitLeave, InitCost, InitApart DEF HInit, HInv
<1>2. HInv /\ [HNext]_hvars => HInv'
  <2> SUFFICES ASSUME HInv, [HNext]_hvars PROVE HInv'
    OBVIOUS
  <2>1. CASE HNext
    <3>1. IInv'
      BY <2>1, NextIInv DEF HNext, HInv
    <3>2. OvertakenInv' /\ LeaveInv'
      BY <2>1, <3>1, NextOvertaken, NextLeave DEF HInv
    <3>3. ClockInv' /\ CostInv'
      BY <2>1, <3>1, <3>2, NextClock, NextCost DEF HInv
    <3>4. ApartInv'
      BY <2>1, NextApart DEF HInv
    <3> QED BY <3>1, <3>2, <3>3, <3>4 DEF HInv
  <2>2. CASE UNCHANGED hvars
    <3>1. IInv'
      BY <2>2, NextIInv DEF hvars, HInv
    <3>2. OvertakenInv'
      BY <2>2 DEF hvars, vars, archVars, schedVars, historyVars, HInv,
         OvertakenInv, HasPassed, Ahead, NoTurns, Free, Latency
    <3>3. LeaveInv'
      BY <2>2 DEF hvars, vars, archVars, schedVars, historyVars, HInv,
         LeaveInv, Latency
    <3>4. ClockInv'
      BY <2>2 DEF hvars, vars, archVars, schedVars, historyVars, HInv,
         ClockInv, Serial, Costs, Latency
    <3>5. CostInv'
      <4>1. Weight(Waits, Threads)' = Weight(Waits, Threads)
            /\ Weight(Works, Threads)' = Weight(Works, Threads)
        BY <2>2 DEF hvars, vars, archVars, schedVars, Waits, Works, Rest, Serial, Costs,
           Weight, Units, Latency
      <4>2. Penalties' = Penalties /\ (AllHalted' <=> AllHalted)
        BY <2>2 DEF hvars, vars, archVars, schedVars, historyVars, Penalties, AllHalted
      <4> QED BY <2>2, <4>1, <4>2 DEF hvars, vars, archVars, schedVars, historyVars, HInv, CostInv
    <3>6. ApartInv'
      BY <2>2 DEF hvars, vars, archVars, HInv, ApartInv
    <3> QED BY <3>1, <3>2, <3>3, <3>4, <3>5, <3>6 DEF HInv
  <2> QED BY <2>1, <2>2
<1> QED BY <1>1, <1>2, PTL DEF HSpec

(***************************************************************************)
(* Nobody starves in either mode: while a thread could issue, each of the  *)
(* others takes at most one turn, whatever latencies and penalties the     *)
(* image asks for.                                                         *)
(***************************************************************************)
THEOREM NobodyStarves == HSpec => []BoundedOvertaking
<1>1. HInv => BoundedOvertaking
  <2> SUFFICES ASSUME HInv, NEW t \in Threads, NEW u \in Threads
               PROVE  overtaken[t][u] <= 1
    BY DEF BoundedOvertaking
  <2>1. overtaken[t][u] \in {0, 1}
    BY DEF HInv, OvertakenInv
  <2> QED BY <2>1
<1> QED BY <1>1, HistoryInvariant, PTL

(***************************************************************************)
(* The blocked core serves another thread than before only if the thread   *)
(* it left has halted or had to wait for its memory access.                *)
(***************************************************************************)
THEOREM LeavesForAReason == HSpec => []LeavesOnlyWaiting
<1>1. HInv => LeavesOnlyWaiting
  BY DEF HInv, LeaveInv, LeavesOnlyWaiting
<1> QED BY <1>1, HistoryInvariant, PTL

(***************************************************************************)
(* The last instruction of a thread was issued no earlier than serial      *)
(* execution of the thread alone would have issued it, in both modes.      *)
(***************************************************************************)
THEOREM NoLatencyIsCutShort == HSpec => []CriticalPath
<1>1. HInv => CriticalPath
  <2> SUFFICES ASSUME HInv, NEW t \in Threads, pc[t] > 0
               PROVE  startCycle[t] >= SerialTime(t, pc[t] - 1) + 1
    BY DEF CriticalPath
  <2>1. TypeOK /\ pc[t] \in Nat
    BY DEF HInv, IInv, TypeOK
  <2>2. pc[t] - 1 \in Nat /\ pc[t] # 0
    BY <2>1
  <2>3. SerialTime(t, pc[t] - 1) = Serial(t, pc[t] - 1)
    BY <2>1, <2>2, SerialIsSerialTime
  <2> QED BY <2>2, <2>3 DEF HInv, ClockInv
<1> QED BY <1>1, HistoryInvariant, PTL

LEMMA WorksAreSerialTimes ==
  ASSUME HInv
  PROVE  MapThenSumSet(LAMBDA t : SerialTime(t, pc[t]), Threads) = Weight(Works, Threads)
<1> DEFINE S == Threads
           c == Works
           Cost(t) == SerialTime(t, pc[t])
           IsIter(f) == f = [s \in SUBSET S |->
              IF s = {} THEN 0 ELSE LET x == CHOOSE x \in s : TRUE
                                    IN  Cost(x) + f[s \ {x}]]
           total == MapThenSumSet(LAMBDA t : SerialTime(t, pc[t]), Threads)
<1>1. total = (CHOOSE f : IsIter(f))[S]
  BY DEF MapThenSumSet, MapThenFoldSet
<1>2. /\ c \in [S -> Nat] /\ S \in SUBSET S /\ IsFiniteSet(S)
      /\ \A x \in S : Cost(x) = c[x]
  <2>1. TypeOK /\ c \in [S -> Nat]
    BY WaitsAndWorks DEF HInv, IInv
  <2>2. \A x \in S : Cost(x) = c[x]
    BY <2>1, SerialIsSerialTime DEF Works, TypeOK
  <2> QED BY <2>1, <2>2, ThreadsFinite
<1> HIDE DEF S, Cost, c, total
<1>4. \A f : IsIter(f) <=> SumsUp(f, S, c)
  <2> TAKE f
  <2>1. ASSUME NEW s \in SUBSET S, s # {}
        PROVE  Cost(CHOOSE x \in s : TRUE) = c[CHOOSE x \in s : TRUE]
    <3>1. (CHOOSE x \in s : TRUE) \in s
      BY <2>1
    <3> QED BY <1>2, <3>1
  <2>2. [s \in SUBSET S |->
              IF s = {} THEN 0 ELSE LET x == CHOOSE x \in s : TRUE
                                    IN  Cost(x) + f[s \ {x}]]
        = [s \in SUBSET S |->
              IF s = {} THEN 0 ELSE LET x == CHOOSE x \in s : TRUE
                                    IN  c[x] + f[s \ {x}]]
    BY <2>1
  <2> QED BY <2>2 DEF SumsUp
<1>5. \E f : IsIter(f)
  <2>1. \E f : SumsUp(f, S, c)
    BY <1>2, SumsUpExists
  <2> HIDE DEF IsIter
  <2> QED BY <1>4, <2>1
<1> HIDE DEF IsIter
<1>6. PICK f : IsIter(f) /\ total = f[S]
  BY <1>1, <1>5
<1>7. f[S] = Weight(c, S)
  BY <1>2, <1>4, <1>6, SumsUpIsWeight
<1> QED BY <1>6, <1>7 DEF total, S, c

(***************************************************************************)
(* Until the last thread halts, the cycles spent are no more than the      *)
(* programs so far would have taken one after the other, plus one penalty  *)
(* for each switch of the blocked core: an idle cycle always passes time   *)
(* that some thread must wait in any case.                                 *)
(***************************************************************************)
THEOREM MultithreadingCostsOnlyPenalties == HSpec => []NeverSlowerThanSerial
<1>1. HInv => NeverSlowerThanSerial
  <2> SUFFICES ASSUME HInv PROVE NeverSlowerThanSerial
    OBVIOUS
  <2> DEFINE total == MapThenSumSet(LAMBDA t : SerialTime(t, pc[t]), Threads)
  <2>1. total = Weight(Works, Threads)
    BY WorksAreSerialTimes
  <2>2. NeverSlowerThanSerial <=> /\ nInst <= cycle
                                  /\ ~AllHalted => cycle <= total + Penalties
    BY DEF NeverSlowerThanSerial
  <2> HIDE DEF total
  <2>3. /\ Weight(Waits, Threads) \in Nat /\ Weight(Works, Threads) \in Nat
        /\ cycle \in Nat
    BY WaitsAndWorks, WeightFinite, ThreadsFinite DEF HInv, IInv, TypeOK
  <2>4. Penalties \in Nat
    <3> DEFINE s == IF isBlocked THEN img.switchCyc ELSE 0
               n == switches + (IF ~idle /\ cur # lastIssued THEN 1 ELSE 0)
    <3>1. s \in Nat /\ n \in Nat
      BY ImageFields, ThreadsFacts DEF HInv, IInv, TypeOK, CostInv
    <3>2. Penalties = n * s
      BY DEF Penalties
    <3> HIDE DEF s, n
    <3> QED BY <3>1, <3>2
  <2>5. nInst <= cycle /\ (~AllHalted => cycle + Weight(Waits, Threads)
                                            <= Weight(Works, Threads) + Penalties)
    BY DEF HInv, CostInv
  <2> QED BY <2>1, <2>2, <2>3, <2>4, <2>5
<1> QED BY <1>1, HistoryInvariant, PTL

(***************************************************************************)
(* As long as no word of memory is used by two threads, each thread has    *)
(* the registers and the memory of a run on its own, in both modes and     *)
(* with any interleaving.                                                  *)
(***************************************************************************)
THEOREM PrivateThreadsNeverInterfere == HSpec => []PrivateThreadsAreIsolated
<1>1. HInv => PrivateThreadsAreIsolated
  <2>1. \A t, n : Alone(t, n) = AloneIn(img, t, n)
    BY AloneIsAloneIn
  <2>2. Private => PrivateIn(img, pc)
    BY <2>1 DEF Private, PrivateIn
  <2> QED BY <2>1, <2>2 DEF HInv, ApartInv, PrivateThreadsAreIsolated
<1> QED BY <1>1, HistoryInvariant, PTL
=============================================================================
