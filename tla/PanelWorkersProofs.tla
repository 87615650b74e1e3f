------------------------ MODULE PanelWorkersProofs -------------------------
(***************************************************************************)
(* What the steps of the worker processes of PanelWorkers keep, for the    *)
(* modules that add tasks and timers to them: start times stay bounded, a  *)
(* process that ended does not come back under its token, and scheduler    *)
(* loops exist only in the worker that holds the leader lock or in one     *)
(* that a failed takeover put out of the election.                         *)
(***************************************************************************)
EXTENDS PanelWorkers, TLAPS

\* Process times: a start time is no later than the ends of workers allow, and
\* only a starting worker has startup actions left.
TicksBounded ==
    \A w \in Workers :
        /\ ticks[w] <= IF up[w] \in {"starting", "serving"} THEN stops + 1 ELSE stops
        /\ up[w] # "down" => ticks[w] >= 1
        /\ todo[w] # 0 => up[w] = "starting"

\* Loops are under the lock, except in a worker whose takeover failed, which is
\* out of the election; holding the lock, waiting for it and starting exclude
\* one another.
LoopsAreLed ==
    /\ \A w \in looping : leader = w
    /\ \A w \in waiting : up[w] = "serving" /\ leader # w
    /\ \A w \in Workers : leader = w => up[w] = "serving" \/ (up[w] = "starting" /\ todo[w] # 0)
    /\ \A w \in stray : up[w] = "serving" /\ leader # w /\ w \notin waiting
    /\ stray # {} => faults > 0

\* A step that ends no process and brings none back that ended.
Calm ==
    \A v \in Workers :
        /\ ticks'[v] \in Nat
        /\ up[v] # "down" => up'[v] # "down" /\ ticks'[v] = ticks[v]
        /\ up[v] = "down" => \/ up'[v] = "down" /\ ticks'[v] = ticks[v]
                             \/ ticks'[v] > ticks[v]

\* No process starts, stops or ends.
Still == UNCHANGED <<up, ticks, leader, waiting, looping, stray, todo, stops>>

\* The steps of a worker on its way from its start to the end of its loops.
Alive(w) ==
    \/ ElectionRuns(w)
    \/ TakeoverFails(w)
    \/ todo[w] # 0 /\ StartupGoesOn(w) /\ (UNCHANGED faults \/ Fault)
    \/ Stops(w)

\* The election, failed takeovers, startup actions and shutdowns keep types and
\* times, end no process, and only a shutdown makes a worker stop serving.
LEMMA CalmSteps ==
  ASSUME WorkersTypeOK, TicksBounded, NEW w \in Workers, Alive(w)
  PROVE  /\ WorkersTypeOK' /\ TicksBounded' /\ Calm
         /\ \A v \in Workers : up[v] = "serving" => up'[v] = "serving" \/ (v = w /\ Stops(w))
  <1> USE WorkersAssumption
  <1>1. CASE WorkerStarts(w)
    BY <1>1 DEF WorkerStarts, WorkersTypeOK, TicksBounded, Calm
  <1>2. CASE LeadsFromStart(w)
    BY <1>2 DEF LeadsFromStart, WorkersTypeOK, TicksBounded, Calm
  <1>3. CASE WaitsForLeader(w)
    BY <1>3 DEF WaitsForLeader, WorkersTypeOK, TicksBounded, Calm
  <1>4. CASE TakesOver(w)
    BY <1>4 DEF TakesOver, WorkersTypeOK, TicksBounded, Calm
  <1>5. CASE TakeoverFails(w)
    BY <1>5 DEF TakeoverFails, Fault, WorkersTypeOK, TicksBounded, Calm
  <1>6. CASE todo[w] # 0 /\ StartupGoesOn(w) /\ (UNCHANGED faults \/ Fault)
    <2>1. WorkersTypeOK'
      BY <1>6 DEF StartupGoesOn, Fault, WorkersTypeOK
    <2>2. TicksBounded'
      BY <1>6 DEF StartupGoesOn, WorkersTypeOK, TicksBounded
    <2>3. Calm /\ \A v \in Workers : up[v] = "serving" => up'[v] = "serving"
      BY <1>6 DEF StartupGoesOn, WorkersTypeOK, TicksBounded, Calm
    <2> QED
      BY <2>1, <2>2, <2>3
  <1>7. CASE Stops(w)
    <2>1. /\ stops' = stops + 1 /\ up' = [up EXCEPT ![w] = "stopping"] /\ LeavesElection(w)
          /\ stops < MaxStops /\ ticks' = ticks /\ faults' = faults /\ up[w] = "serving"
      BY <1>7 DEF Stops
    <2>2. WorkersTypeOK' /\ TicksBounded' /\ Calm
      BY <2>1 DEF LeavesElection, WorkersTypeOK, TicksBounded, Calm
    <2>3. \A v \in Workers : v # w => up'[v] = up[v]
      BY <2>1 DEF WorkersTypeOK
    <2> QED
      BY <1>7, <2>2, <2>3
  <1> QED
    BY <1>1, <1>2, <1>3, <1>4, <1>5, <1>6, <1>7 DEF Alive, ElectionRuns

\* The end of a process keeps types and times.
LEMMA EndSteps ==
  ASSUME WorkersTypeOK, TicksBounded, NEW w \in Workers, Exits(w) \/ Dies(w)
  PROVE  WorkersTypeOK' /\ TicksBounded' /\ up' = [up EXCEPT ![w] = "down"] /\ ticks' = ticks
  <1> USE WorkersAssumption
  <1>1. CASE Exits(w)
    BY <1>1 DEF Exits, WorkersTypeOK, TicksBounded
  <1>2. CASE Dies(w)
    BY <1>2 DEF Dies, LeavesElection, WorkersTypeOK, TicksBounded
  <1> QED
    BY <1>1, <1>2

\* So do steps of requests and threads, which no worker process takes.
LEMMA StillSteps ==
  ASSUME WorkersTypeOK, TicksBounded, Still, UNCHANGED faults \/ Fault
  PROVE  WorkersTypeOK' /\ TicksBounded' /\ Calm
  <1> USE WorkersAssumption
  <1>1. WorkersTypeOK' /\ TicksBounded'
    BY DEF Still, Fault, WorkersTypeOK, TicksBounded
  <1>2. Calm
    BY DEF Still, WorkersTypeOK, Calm
  <1> QED
    BY <1>1, <1>2

\* Where loops are, through every takeover, failed takeover, shutdown and death.
LEMMA LoopSteps ==
  ASSUME WorkersTypeOK, LoopsAreLed, NEW w \in Workers, Alive(w) \/ Exits(w) \/ Dies(w)
  PROVE  LoopsAreLed'
  <1> USE WorkersAssumption
  <1>1. CASE WorkerStarts(w)
    BY <1>1 DEF WorkerStarts, WorkersTypeOK, LoopsAreLed
  <1>2. CASE LeadsFromStart(w)
    BY <1>2 DEF LeadsFromStart, WorkersTypeOK, LoopsAreLed
  <1>3. CASE WaitsForLeader(w)
    BY <1>3 DEF WaitsForLeader, WorkersTypeOK, LoopsAreLed
  <1>4. CASE TakesOver(w)
    BY <1>4 DEF TakesOver, WorkersTypeOK, LoopsAreLed
  <1>5. CASE TakeoverFails(w)
    BY <1>5 DEF TakeoverFails, Fault, WorkersTypeOK, LoopsAreLed
  <1>6. CASE todo[w] # 0 /\ StartupGoesOn(w) /\ (UNCHANGED faults \/ Fault)
    <2>1. faults > 0 => faults' > 0
      BY <1>6 DEF Fault, WorkersTypeOK
    <2>2. UNCHANGED <<ticks, leader, waiting, looping, stray, stops>>
      BY <1>6 DEF StartupGoesOn
    <2>3. \A v \in Workers : up[v] = "serving" => up'[v] = "serving"
      BY <1>6 DEF StartupGoesOn, WorkersTypeOK
    <2>4. ASSUME NEW v \in Workers, leader' = v
          PROVE  up'[v] = "serving" \/ (up'[v] = "starting" /\ todo'[v] # 0)
      BY <1>6, <2>2, <2>4 DEF StartupGoesOn, WorkersTypeOK, LoopsAreLed
    <2> QED
      BY <2>1, <2>2, <2>3, <2>4 DEF WorkersTypeOK, LoopsAreLed
  <1>7. CASE Stops(w)
    BY <1>7 DEF Stops, LeavesElection, WorkersTypeOK, LoopsAreLed
  <1>8. CASE Exits(w)
    BY <1>8 DEF Exits, WorkersTypeOK, LoopsAreLed
  <1>9. CASE Dies(w)
    BY <1>9 DEF Dies, LeavesElection, WorkersTypeOK, LoopsAreLed
  <1> QED
    BY <1>1, <1>2, <1>3, <1>4, <1>5, <1>6, <1>7, <1>8, <1>9 DEF Alive, ElectionRuns

\* A step that is not the shutdown of w leaves stops alone.
LEMMA NoStop ==
  ASSUME WorkersTypeOK, NEW w \in Workers, ElectionRuns(w) \/ TakeoverFails(w) \/ StartupGoesOn(w)
  PROVE  ~Stops(w)
  BY WorkersAssumption DEF ElectionRuns, WorkerStarts, LeadsFromStart, WaitsForLeader, TakesOver,
     TakeoverFails, StartupGoesOn, Stops, WorkersTypeOK

\* At the first start nothing runs.
LEMMA WorkersStart ==
  ASSUME WorkersInit
  PROVE  WorkersTypeOK /\ TicksBounded /\ LoopsAreLed
  BY WorkersAssumption DEF WorkersInit, WorkersTypeOK, TicksBounded, LoopsAreLed
=============================================================================
