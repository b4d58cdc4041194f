----------------------------- MODULE RuntimeProofs -----------------------------
(* Proofs about what an agent's process does with a message before its session  *)
(* runs: the runtimes that take it in and let it go (AgentRuntimes), for any    *)
(* number of agents, runtimes, calls and connections and any failures, and the  *)
(* intake of messages into windows and records (ReplyIntake), for any number    *)
(* of conversations, senders, messages, deliveries and events, any debounce and *)
(* any of the disturbances the model has.                                       *)
EXTENDS AgentRuntimes, ReplyIntake, FiniteSetTheorems, WellFoundedInduction, TLAPS

--------------------------------------------------------------------------------
(* Agent runtimes                                                               *)

RuntimeRow ==
  [agent : Agents, life : {"new", "open", "closed", "abandoned"}, running : BOOLEAN,
   generation : 0 .. MaxGeneration]

StepRow ==
  [pc : {"idle", "probe", "config", "initialize"}, existing : Runtimes \cup {None},
   previous : {"none", "ready", "not_ready"}, created : Runtimes \cup {None}]

ResumeRow == [at : {"none", "next", "waiting", "failed"}, left : SUBSET Agents]

Frame ==
  /\ runtimes \in [Agents -> Runtimes \cup {None}]
  /\ readiness \in [Agents -> {"none", "ready", "not_ready"}]
  /\ lanes \in [Agents -> Seq(Operation)]
  /\ step \in [Agents -> StepRow]
  /\ runtime \in [Runtimes -> RuntimeRow]
  /\ generation \in Nat /\ active \in BOOLEAN /\ connected \in BOOLEAN
  /\ resumes \in [Generations -> ResumeRow]
  /\ closing \in {"no", "waiting", "broken", "failed", "done"}
  /\ calls \in 0 .. MaxCalls /\ failed \subseteq Failures

\* What an operation has read and made, as long as it is the first of its lane.
StepOK(a) ==
  /\ step[a].pc # "idle" => lanes[a] # <<>> /\ Head(lanes[a]).kind = "start"
  /\ step[a].pc = "probe" => step[a].existing = runtimes[a] /\ step[a].previous = readiness[a]
  /\ step[a].pc = "config" => a # Default
  /\ step[a].pc \in {"config", "initialize"} => runtimes[a] = None
  /\ step[a].pc # "initialize" => step[a].created = None
  /\ step[a].pc = "initialize" =>
       /\ step[a].created \in Runtimes
       /\ runtime[step[a].created].agent = a /\ runtime[step[a].created].life # "new"
       /\ a # Default => runtime[step[a].created].life = "open"

LoadedOK(a) ==
  runtimes[a] # None =>
    /\ runtime[runtimes[a]].agent = a /\ runtime[runtimes[a]].life # "new"
    /\ (~closed /\ {"resume", "close"} \cap failed = {} /\ a # Default) =>
         runtime[runtimes[a]].life = "open"

\* The resume of the connection is over, and nothing went wrong in it.
Settled == active /\ "resume" \notin failed /\ resumes[generation].at = "none"

ReadyOK(a) ==
  Settled /\ runtimes[a] # None /\ readiness[a] # "not_ready" =>
    (runtime[runtimes[a]].life = "open" => runtime[runtimes[a]].generation = generation)

AgentOK(a) == StepOK(a) /\ LoadedOK(a) /\ ReadyOK(a)

\* A runtime that is neither in the map nor being initialised is out of use.
RowOK(r) ==
  /\ runtime[r].life = "open" =>
       r = runtimes[runtime[r].agent] \/ r = step[runtime[r].agent].created
  /\ r # runtimes[runtime[r].agent] =>
       ~runtime[r].running /\ (runtime[r].life # "closed" => runtime[r].generation = 0)
  /\ runtime[r].generation <= generation
  /\ runtime[r].life = "open" /\ active /\ runtime[r].generation = generation => runtime[r].running
  /\ runtime[r].running => active \/ closed
  /\ r = 1 => runtime[r].agent = Default

WorldOK ==
  /\ active => connected /\ ~closed /\ generation \in Generations
  /\ closing \in {"failed", "done"} => \A a \in Agents : lanes[a] = <<>>
  /\ closing = "done" => \A a \in Agents : runtimes[a] = None

ManagerInv ==
  /\ Frame
  /\ \A a \in Agents : AgentOK(a)
  /\ \A r \in Runtimes : RowOK(r)
  /\ WorldOK

--------------------------------------------------------------------------------
(* Rows *)

\* A closed runtime runs nothing.
LEMMA ShutIs ==
  ASSUME Frame, NEW S, NEW r \in Runtimes
  PROVE  /\ Shut(runtime, S)[r] \in RuntimeRow
         /\ r \notin S => Shut(runtime, S)[r] = runtime[r]
         /\ r \in S => /\ Shut(runtime, S)[r].life = "closed" /\ ~Shut(runtime, S)[r].running
                       /\ Shut(runtime, S)[r].agent = runtime[r].agent
                       /\ Shut(runtime, S)[r].generation = runtime[r].generation
<1> DEFINE y == [runtime[r] EXCEPT !.life = "closed", !.running = FALSE]
<1>1. runtime[r] \in RuntimeRow
  BY DEF Frame
<1>2. y \in RuntimeRow
  BY <1>1 DEF RuntimeRow
<1>3. /\ y.life = "closed" /\ ~y.running /\ y.agent = runtime[r].agent
      /\ y.generation = runtime[r].generation
  BY <1>1 DEF RuntimeRow
<1>4. Shut(runtime, S)[r] = IF r \in S THEN y ELSE runtime[r]
  BY DEF Shut
<1> HIDE DEF y
<1> QED  BY <1>1, <1>2, <1>3, <1>4

\* A suspended one runs nothing either.
LEMMA SuspendedIs ==
  ASSUME NEW rt \in [Runtimes -> RuntimeRow], NEW S, NEW r \in Runtimes
  PROVE  /\ Suspended(rt, S)[r] \in RuntimeRow
         /\ r \notin S => Suspended(rt, S)[r] = rt[r]
         /\ r \in S => /\ ~Suspended(rt, S)[r].running /\ Suspended(rt, S)[r].life = rt[r].life
                       /\ Suspended(rt, S)[r].agent = rt[r].agent
                       /\ Suspended(rt, S)[r].generation = rt[r].generation
<1> DEFINE y == [rt[r] EXCEPT !.running = FALSE]
<1>1. rt[r] \in RuntimeRow
  OBVIOUS
<1>2. y \in RuntimeRow
  BY <1>1 DEF RuntimeRow
<1>3. /\ y.life = rt[r].life /\ ~y.running /\ y.agent = rt[r].agent
      /\ y.generation = rt[r].generation
  BY <1>1 DEF RuntimeRow
<1>4. Suspended(rt, S)[r] = IF r \in S THEN y ELSE rt[r]
  BY DEF Suspended
<1> HIDE DEF y
<1> QED  BY <1>1, <1>2, <1>3, <1>4

\* A runtime is resumed for the present connection, unless it was already.
LEMMA ResumedIs ==
  ASSUME Frame, WorldOK, NEW S, NEW r \in Runtimes
  PROVE  /\ Resumed(runtime, S)[r] \in RuntimeRow
         /\ Resumed(runtime, S)[r].agent = runtime[r].agent
         /\ Resumed(runtime, S)[r].life = runtime[r].life
         /\ \/ Resumed(runtime, S)[r] = runtime[r]
            \/ /\ r \in S /\ active /\ Resumed(runtime, S)[r].generation = generation
               /\ Resumed(runtime, S)[r].running <=> runtime[r].life = "open"
         /\ r \in S /\ active => Resumed(runtime, S)[r].generation = generation
<1> DEFINE z(g, b) == [runtime[r] EXCEPT !.generation = g, !.running = b]
<1>1. runtime[r] \in RuntimeRow
  BY DEF Frame
<1>2. \A g \in 0 .. MaxGeneration, b \in BOOLEAN :
        z(g, b) \in RuntimeRow
  BY <1>1 DEF RuntimeRow
<1>3. \A g \in 0 .. MaxGeneration, b \in BOOLEAN :
        /\ z(g, b).agent = runtime[r].agent /\ z(g, b).life = runtime[r].life
        /\ z(g, b).generation = g /\ z(g, b).running = b
  BY <1>1 DEF RuntimeRow
<1>4. (runtime[r].life = "open") \in BOOLEAN
  OBVIOUS
<1>5. active => generation \in 0 .. MaxGeneration
  BY AgentsAssumption DEF WorldOK, Generations
<1>6. Resumed(runtime, S)[r] = IF r \in S /\ active /\ runtime[r].generation # generation
                                 THEN z(generation, runtime[r].life = "open") ELSE runtime[r]
  BY DEF Resumed
<1> DEFINE y == z(generation, runtime[r].life = "open")
<1>7. ASSUME active
      PROVE  /\ y \in RuntimeRow /\ y.agent = runtime[r].agent /\ y.life = runtime[r].life
             /\ y.generation = generation /\ y.running = (runtime[r].life = "open")
  <2> HIDE DEF z
  <2> QED  BY <1>2, <1>3, <1>4, <1>5, <1>7
<1>8. active => (y.running <=> runtime[r].life = "open")
  BY <1>7
<1>9. Resumed(runtime, S)[r] = IF r \in S /\ active /\ runtime[r].generation # generation
                                 THEN y ELSE runtime[r]
  BY <1>6
<1> HIDE DEF y, z
<1> QED  BY <1>1, <1>7, <1>8, <1>9

--------------------------------------------------------------------------------
(* Steps of one agent *)

\* What holds before a step of a lane.
LEMMA Before ==
  ASSUME ManagerInv, NEW a \in Agents
  PROVE  /\ AgentOK(a) /\ step[a] \in StepRow /\ lanes[a] \in Seq(Operation)
         /\ runtimes[a] \in Runtimes \cup {None} /\ readiness[a] \in {"none", "ready", "not_ready"}
         /\ None \notin Runtimes /\ 1 \in Runtimes
BY AgentsAssumption DEF ManagerInv, Frame, Runtimes, None

\* A step of the lane of a: what it has to leave in order, and what it leaves alone.
LaneStep(a) ==
  /\ lanes[a] # <<>> \/ ~closed
  /\ UNCHANGED <<generation, active, connected>>
  /\ closing' = closing \/ (closing = "waiting" /\ closing' = "broken")
  /\ failed \subseteq failed'
  /\ \A b \in Agents \ {a} :
       /\ runtimes'[b] = runtimes[b] /\ readiness'[b] = readiness[b]
       /\ step'[b] = step[b] /\ lanes'[b] = lanes[b]
  /\ \A r \in Runtimes :
       \/ runtime'[r] = runtime[r]
       \/ runtime'[r].agent = a /\ (runtime[r].agent = a \/ runtime[r].life = "new")
  /\ \A g \in Generations : resumes'[g].at = resumes[g].at \/ resumes'[g].at # "none"

\* Such a step concerns no other agent.
LEMMA LaneKeeps ==
  ASSUME ManagerInv, NEW a \in Agents, LaneStep(a), Frame', AgentOK(a)',
         \A r \in Runtimes : runtime'[r].agent = a => RowOK(r)'
  PROVE  ManagerInv'
<1>0. /\ generation' = generation /\ active' = active /\ connected' = connected
      /\ closed' = closed /\ WorldOK
  BY DEF LaneStep, closed, ManagerInv
<1>1. ASSUME NEW b \in Agents, b # a PROVE AgentOK(b)'
  <2>0. /\ AgentOK(b) /\ runtimes'[b] = runtimes[b] /\ readiness'[b] = readiness[b]
        /\ step'[b] = step[b] /\ lanes'[b] = lanes[b]
        /\ runtimes[b] \in Runtimes \cup {None}
    BY <1>1 DEF ManagerInv, Frame, LaneStep
  <2>1. ASSUME NEW r \in Runtimes, runtime[r].agent = b, runtime[r].life # "new"
        PROVE  runtime'[r] = runtime[r]
    BY <1>1, <2>1 DEF LaneStep
  <2>2. StepOK(b)'
    BY <2>0, <2>1 DEF AgentOK, StepOK
  <2>3. runtimes[b] # None => runtime'[runtimes[b]] = runtime[runtimes[b]]
    BY <2>0, <2>1 DEF AgentOK, LoadedOK
  <2>4. /\ "resume" \notin failed' => "resume" \notin failed
        /\ {"resume", "close"} \cap failed' = {} => {"resume", "close"} \cap failed = {}
    BY DEF LaneStep
  <2>5. LoadedOK(b)'
    BY <1>0, <2>0, <2>3, <2>4 DEF AgentOK, LoadedOK
  <2>6. Settled' => Settled
    BY <1>0, <2>4 DEF Settled, WorldOK, LaneStep
  <2>7. ReadyOK(b)'
    BY <1>0, <2>0, <2>3, <2>6 DEF AgentOK, ReadyOK
  <2> QED  BY <2>2, <2>5, <2>7 DEF AgentOK
<1>2. ASSUME NEW r \in Runtimes PROVE RowOK(r)'
  <2>1. CASE runtime'[r].agent = a
    BY <2>1
  <2>2. CASE runtime'[r].agent # a
    <3>1. runtime'[r] = runtime[r] /\ RowOK(r) /\ runtime[r].agent \in Agents \ {a}
      BY <2>2 DEF LaneStep, ManagerInv, Frame, RuntimeRow
    <3>2. /\ runtimes'[runtime[r].agent] = runtimes[runtime[r].agent]
          /\ step'[runtime[r].agent] = step[runtime[r].agent]
      BY <3>1 DEF LaneStep
    <3> QED  BY <1>0, <3>1, <3>2 DEF RowOK
  <2> QED  BY <2>1, <2>2
<1>3. WorldOK'
  <2>1. closing \notin {"failed", "done"}
    BY <1>0 DEF WorldOK, LaneStep, closed
  <2> QED  BY <1>0, <2>1 DEF WorldOK, LaneStep
<1> QED  BY <1>1, <1>2, <1>3 DEF ManagerInv

\* The first operation of a lane is over.
LEMMA EndsIs ==
  ASSUME ManagerInv, NEW a \in Agents, lanes[a] # <<>>, NEW failing, Ends(a, failing)
  PROVE  /\ lanes' \in [Agents -> Seq(Operation)] /\ step' \in [Agents -> StepRow]
         /\ resumes' \in [Generations -> ResumeRow]
         /\ step'[a].pc = "idle" /\ step'[a].created = None
         /\ \A b \in Agents \ {a} : step'[b] = step[b] /\ lanes'[b] = lanes[b]
         /\ \A g \in Generations : resumes'[g].at = resumes[g].at \/ resumes'[g].at # "none"
<1>0. /\ lanes \in [Agents -> Seq(Operation)] /\ step \in [Agents -> StepRow]
      /\ resumes \in [Generations -> ResumeRow]
  BY DEF ManagerInv, Frame
<1>1. /\ NoStep \in StepRow /\ NoStep.pc = "idle" /\ NoStep.created = None
  BY DEF NoStep, StepRow
<1>2. Tail(lanes[a]) \in Seq(Operation) /\ Head(lanes[a]) \in Operation
  BY <1>0
<1>3. lanes' = [lanes EXCEPT ![a] = Tail(@)] /\ step' = [step EXCEPT ![a] = NoStep]
  BY DEF Ends
<1>4. resumes' \in [Generations -> ResumeRow]
      /\ \A g \in Generations : resumes'[g].at = resumes[g].at \/ resumes'[g].at # "none"
  <2> DEFINE g == Head(lanes[a]).by
  <2>1. g \in Generations \cup {None}
    BY <1>2 DEF Operation
  <2>2. CASE resumes' = resumes
    BY <1>0, <2>2
  <2>3. CASE resumes' # resumes
    <3>1. g \in Generations
      BY <2>1, <2>3 DEF Ends
    <3>2. PICK w \in {"failed", "next"} : resumes' = [resumes EXCEPT ![g].at = w]
      BY <2>3 DEF Ends
    <3> HIDE DEF g
    <3> QED  BY <1>0, <3>1, <3>2 DEF ResumeRow
  <2> QED  BY <2>2, <2>3
<1> QED  BY <1>0, <1>1, <1>2, <1>3, <1>4

\* What an operation that ends has to leave in order.
Outcome(a) ==
  /\ UNCHANGED <<generation, active, connected, calls>>
  /\ closing' = closing \/ (closing = "waiting" /\ closing' = "broken")
  /\ failed \subseteq failed' /\ failed' \subseteq Failures
  /\ runtimes' \in [Agents -> Runtimes \cup {None}]
  /\ readiness' \in [Agents -> {"none", "ready", "not_ready"}]
  /\ runtime' \in [Runtimes -> RuntimeRow]
  /\ \A b \in Agents \ {a} : runtimes'[b] = runtimes[b] /\ readiness'[b] = readiness[b]
  /\ \A r \in Runtimes :
       \/ runtime'[r] = runtime[r]
       \/ runtime'[r].agent = a /\ runtime[r].agent = a

\* An operation that ends concerns its own agent only.
LEMMA OutcomeKeeps ==
  ASSUME ManagerInv, NEW a \in Agents, lanes[a] # <<>>, NEW failing, Ends(a, failing), Outcome(a),
         LoadedOK(a)', ReadyOK(a)', \A r \in Runtimes : runtime'[r].agent = a => RowOK(r)'
  PROVE  ManagerInv'
<1>1. /\ lanes' \in [Agents -> Seq(Operation)] /\ step' \in [Agents -> StepRow]
      /\ resumes' \in [Generations -> ResumeRow]
      /\ step'[a].pc = "idle" /\ step'[a].created = None
      /\ \A b \in Agents \ {a} : step'[b] = step[b] /\ lanes'[b] = lanes[b]
      /\ \A g \in Generations : resumes'[g].at = resumes[g].at \/ resumes'[g].at # "none"
  BY EndsIs
<1>2. Frame'
  BY <1>1 DEF ManagerInv, Frame, Outcome
<1>3. StepOK(a)'
  BY <1>1 DEF StepOK
<1>4. LaneStep(a)
  BY <1>1 DEF LaneStep, Outcome
<1> QED  BY <1>2, <1>3, <1>4, LaneKeeps DEF AgentOK

\* It was settled before, if it is after the operation.
LEMMA WasSettled ==
  ASSUME ManagerInv, NEW a \in Agents, lanes[a] # <<>>, NEW failing, Ends(a, failing), Outcome(a), Settled'
  PROVE  Settled /\ active /\ active' /\ generation' = generation
<1>1. \A g \in Generations : resumes'[g].at = resumes[g].at \/ resumes'[g].at # "none"
  BY EndsIs
<1> QED  BY <1>1 DEF ManagerInv, WorldOK, Settled, Outcome

\* An operation that leaves the runtime of its agent as it is.
LEMMA EndsOnly ==
  ASSUME ManagerInv, NEW a \in Agents, lanes[a] # <<>>, NEW failing, Ends(a, failing), Outcome(a),
         step[a].pc # "initialize", UNCHANGED <<runtimes, runtime>>,
         ~Settled' \/ runtimes[a] = None \/ readiness'[a] \in {readiness[a], "not_ready"}
  PROVE  ManagerInv'
<1>0. /\ runtimes' = runtimes /\ runtime' = runtime /\ AgentOK(a) /\ generation' = generation
      /\ active' = active /\ (closed' <=> closed) /\ failed \subseteq failed'
  BY Before DEF Outcome, closed
<1>1. LoadedOK(a)'
  BY <1>0 DEF LoadedOK, AgentOK
<1>2. ReadyOK(a)'
  BY <1>0, WasSettled DEF ReadyOK, AgentOK
<1>3. ASSUME NEW r \in Runtimes, runtime'[r].agent = a PROVE RowOK(r)'
  <2>1. RowOK(r) /\ runtime[r].agent = a /\ None \notin Runtimes
    BY <1>0, <1>3, Before DEF ManagerInv
  <2> QED  BY <1>0, <2>1 DEF RowOK, AgentOK, StepOK
<1> QED  BY <1>1, <1>2, <1>3, OutcomeKeeps

\* What remains when nothing is announced, moved or counted.
LEMMA SameWorld ==
  ASSUME ManagerInv, UNCHANGED <<World, failed, runtimes, readiness, runtime>>
  PROVE  \A a : Outcome(a)
<1>1. /\ UNCHANGED <<generation, active, connected, calls>> /\ closing' = closing
      /\ failed' = failed /\ runtimes' = runtimes /\ readiness' = readiness /\ runtime' = runtime
  BY DEF World
<1> QED  BY <1>1 DEF ManagerInv, Frame, Outcome

\* Whether an agent's operation of this kind is the first of its lane.
LEMMA RunningIs ==
  ASSUME ManagerInv, NEW a \in Agents, NEW kind, Running(a, kind)
  PROVE  lanes[a] # <<>> /\ (kind # "start" => step[a].pc = "idle")
BY DEF ManagerInv, AgentOK, StepOK, Running

\* A start reads what is there.
LEMMA BeginStartKeeps == ASSUME ManagerInv, NEW a \in Agents, BeginStart(a) PROVE ManagerInv'
<1>0. lanes[a] # <<>> /\ Head(lanes[a]).kind = "start" /\ step[a].pc = "idle"
  BY DEF BeginStart, Running
<1>1. CASE closed
  <2>1. Ends(a, FALSE) /\ UNCHANGED <<World, failed, runtimes, readiness, runtime>>
    BY <1>1 DEF BeginStart
  <2> QED  BY <1>0, <2>1, SameWorld, EndsOnly
<1>2. CASE ~closed
  <2> DEFINE y == [NoStep EXCEPT !.pc = "probe", !.existing = runtimes[a], !.previous = readiness[a]]
  <2>0. /\ step' = [step EXCEPT ![a] = y] /\ lanes' = lanes /\ resumes' = resumes
        /\ runtimes' = runtimes /\ readiness' = readiness /\ runtime' = runtime
        /\ generation' = generation /\ active' = active /\ connected' = connected
        /\ closing' = closing /\ calls' = calls /\ failed' = failed
    BY <1>2 DEF BeginStart, World
  <2>1. y \in StepRow /\ y.pc = "probe" /\ y.existing = runtimes[a] /\ y.previous = readiness[a]
        /\ y.created = None
    BY Before DEF NoStep, StepRow
  <2> HIDE DEF y
  <2>2. /\ step' \in [Agents -> StepRow] /\ step'[a] = y
        /\ \A b \in Agents \ {a} : step'[b] = step[b]
    BY <2>0, <2>1 DEF ManagerInv, Frame
  <2>3. Frame'
    BY <2>0, <2>2 DEF ManagerInv, Frame
  <2>4. LaneStep(a)
    BY <1>0, <2>0, <2>2 DEF LaneStep
  <2>5. AgentOK(a) /\ \A r \in Runtimes : RowOK(r)
    BY DEF ManagerInv
  <2>6. AgentOK(a)'
    <3>1. StepOK(a)'
      BY <1>0, <2>0, <2>1, <2>2 DEF StepOK
    <3>2. LoadedOK(a)' /\ ReadyOK(a)'
      BY <2>0, <2>5 DEF AgentOK, LoadedOK, ReadyOK, closed, Settled
    <3> QED  BY <3>1, <3>2 DEF AgentOK
  <2>7. ASSUME NEW r \in Runtimes, runtime'[r].agent = a PROVE RowOK(r)'
    BY <1>0, <2>0, <2>1, <2>2, <2>5, <2>7, Before DEF RowOK, AgentOK, StepOK, closed
  <2> QED  BY <2>3, <2>4, <2>6, <2>7, LaneKeeps
<1> QED  BY <1>1, <1>2

\* A runtime is closed and leaves the map, with whatever its agent was.
LEMMA UnloadKeeps ==
  ASSUME ManagerInv, NEW a \in Agents, lanes[a] # <<>>, step[a].pc \in {"idle", "probe"}, Ends(a, FALSE),
         runtimes[a] # None, Unload(a, runtimes[a]), UNCHANGED <<World, failed>>,
         readiness' = [readiness EXCEPT ![a] = "not_ready"]
  PROVE  ManagerInv'
<1> DEFINE h == runtimes[a]
<1>0. /\ AgentOK(a) /\ h \in Runtimes /\ None \notin Runtimes /\ runtime[h].agent = a
      /\ step[a].created = None /\ Frame
  BY Before DEF AgentOK, LoadedOK, StepOK, ManagerInv
<1>1. /\ runtimes' = [runtimes EXCEPT ![a] = None] /\ runtime' = Shut(runtime, {h})
      /\ generation' = generation /\ active' = active /\ connected' = connected
      /\ closing' = closing /\ calls' = calls /\ failed' = failed
  BY DEF Unload, World
<1>2. /\ runtimes' \in [Agents -> Runtimes \cup {None}] /\ runtimes'[a] = None
      /\ readiness' \in [Agents -> {"none", "ready", "not_ready"}]
      /\ \A b \in Agents \ {a} : runtimes'[b] = runtimes[b] /\ readiness'[b] = readiness[b]
  BY <1>0, <1>1 DEF Frame
<1> HIDE DEF h
<1>3. /\ runtime' \in [Runtimes -> RuntimeRow]
      /\ \A r \in Runtimes \ {h} : runtime'[r] = runtime[r]
      /\ runtime'[h].life = "closed" /\ ~runtime'[h].running /\ runtime'[h].agent = a
      /\ runtime'[h].generation = runtime[h].generation
  <2>1. \A r \in Runtimes : Shut(runtime, {h})[r] \in RuntimeRow
    BY <1>0, ShutIs
  <2>2. runtime' \in [Runtimes -> RuntimeRow]
    BY <1>1, <2>1 DEF Shut
  <2>3. \A r \in Runtimes \ {h} : Shut(runtime, {h})[r] = runtime[r]
    BY <1>0, ShutIs
  <2>4. /\ Shut(runtime, {h})[h].life = "closed" /\ ~Shut(runtime, {h})[h].running
        /\ Shut(runtime, {h})[h].agent = runtime[h].agent
        /\ Shut(runtime, {h})[h].generation = runtime[h].generation
    <3>1. h \in {h}
      OBVIOUS
    <3> QED  BY <1>0, <3>1, ShutIs
  <2> QED  BY <1>0, <1>1, <2>2, <2>3, <2>4
<1>4. Outcome(a)
  BY <1>0, <1>1, <1>2, <1>3 DEF Outcome, ManagerInv, Frame
<1>5. LoadedOK(a)' /\ ReadyOK(a)'
  BY <1>2 DEF LoadedOK, ReadyOK
<1>6. ASSUME NEW r \in Runtimes, runtime'[r].agent = a PROVE RowOK(r)'
  <2>1. RowOK(r) /\ runtime[r].agent = a /\ (r # h => runtime'[r] = runtime[r])
    BY <1>0, <1>3, <1>6 DEF ManagerInv
  <2>2. h = runtimes[a]
    BY DEF h
  <2> QED  BY <1>0, <1>1, <1>2, <1>3, <2>1, <2>2 DEF RowOK, closed
<1> QED  BY <1>4, <1>5, <1>6, OutcomeKeeps

\* A stop unloads, or finds nothing to unload.
LEMMA StopAgentKeeps == ASSUME ManagerInv, NEW a \in Agents, StopAgent(a) PROVE ManagerInv'
<1>0. lanes[a] # <<>> /\ step[a].pc = "idle" /\ Ends(a, FALSE) /\ UNCHANGED <<World, failed>>
  <2>1. Running(a, "stop") /\ Ends(a, FALSE) /\ UNCHANGED <<World, failed>>
    BY DEF StopAgent
  <2>2. "stop" # "start"
    OBVIOUS
  <2> QED  BY <2>1, <2>2, RunningIs
<1>1. CASE runtimes[a] = None \/ a = Default
  <2>1. UNCHANGED <<runtimes, readiness, runtime>>
    BY <1>1 DEF StopAgent
  <2> QED  BY <1>0, <2>1, SameWorld, EndsOnly
<1>2. CASE ~(runtimes[a] = None \/ a = Default)
  <2>1. readiness' = [readiness EXCEPT ![a] = "not_ready"] /\ Unload(a, runtimes[a])
    BY <1>2 DEF StopAgent
  <2> QED  BY <1>0, <1>2, <2>1, UnloadKeeps
<1> QED  BY <1>1, <1>2

\* A call queues an operation behind the others.
LEMMA CallKeeps ==
  ASSUME ManagerInv, NEW a \in Agents, NEW kind \in {"start", "stop"}, Call(a, kind) PROVE ManagerInv'
<1> DEFINE e == [kind |-> kind, by |-> None]
<1>0. /\ ~closed /\ lanes' = [lanes EXCEPT ![a] = Append(@, e)] /\ calls' = calls + 1
      /\ calls < MaxCalls
      /\ runtimes' = runtimes /\ readiness' = readiness /\ step' = step /\ runtime' = runtime
      /\ generation' = generation /\ active' = active /\ connected' = connected
      /\ resumes' = resumes /\ closing' = closing /\ failed' = failed
  BY DEF Call
<1>1. e \in Operation
  BY DEF Operation
<1> HIDE DEF e
<1>2. lanes \in [Agents -> Seq(Operation)] /\ lanes[a] \in Seq(Operation)
  BY DEF ManagerInv, Frame
<1>3. /\ lanes' \in [Agents -> Seq(Operation)] /\ lanes'[a] = Append(lanes[a], e)
      /\ \A b \in Agents \ {a} : lanes'[b] = lanes[b]
  BY <1>0, <1>1, <1>2
<1>4. calls' \in 0 .. MaxCalls
  BY <1>0, AgentsAssumption DEF ManagerInv, Frame
<1>5. Frame'
  BY <1>0, <1>3, <1>4 DEF ManagerInv, Frame
<1>6. LaneStep(a)
  BY <1>0, <1>3 DEF LaneStep
<1>7. AgentOK(a) /\ \A r \in Runtimes : RowOK(r)
  BY DEF ManagerInv
<1>8. StepOK(a)'
  <2>1. lanes[a] # <<>> => lanes'[a] # <<>> /\ Head(lanes'[a]) = Head(lanes[a])
    BY <1>1, <1>2, <1>3
  <2> QED  BY <1>0, <1>7, <2>1 DEF AgentOK, StepOK
<1>9. LoadedOK(a)' /\ ReadyOK(a)'
  BY <1>0, <1>7 DEF AgentOK, LoadedOK, ReadyOK, closed, Settled
<1>10. \A r \in Runtimes : RowOK(r)'
  BY <1>0, <1>7 DEF RowOK, closed
<1> QED  BY <1>5, <1>6, <1>8, <1>9, <1>10, LaneKeeps DEF AgentOK

\* The first operation of a lane that awaits something is a start.
LEMMA Awaiting ==
  ASSUME ManagerInv, NEW a \in Agents, step[a].pc # "idle"
  PROVE  /\ lanes[a] # <<>> /\ Head(lanes[a]).kind = "start"
         /\ AgentOK(a) /\ Frame /\ \A r \in Runtimes : RowOK(r)
BY DEF ManagerInv, AgentOK, StepOK

\* The default agent's runtime is kept when the agent is not ready: it is suspended.
LEMMA DefaultRests ==
  ASSUME ManagerInv, step[Default].pc = "probe", Ends(Default, FALSE), UNCHANGED <<World, failed, runtimes>>,
         readiness' = [readiness EXCEPT ![Default] = "not_ready"],
         runtime' = [Suspended(runtime, {1}) EXCEPT ![1].generation = 0]
  PROVE  ManagerInv'
<1> DEFINE s == Suspended(runtime, {1})
<1>0. /\ Default \in Agents /\ 1 \in Runtimes /\ MaxGeneration \in Nat /\ None \notin Runtimes
      /\ runtime \in [Runtimes -> RuntimeRow] /\ readiness \in [Agents -> {"none", "ready", "not_ready"}]
      /\ generation' = generation /\ active' = active /\ connected' = connected
      /\ closing' = closing /\ calls' = calls /\ failed' = failed /\ runtimes' = runtimes
  BY AgentsAssumption, Before DEF World, ManagerInv, Frame
<1>1. /\ s \in [Runtimes -> RuntimeRow] /\ \A r \in Runtimes \ {1} : s[r] = runtime[r]
  <2>1. \A r \in Runtimes : s[r] \in RuntimeRow
    BY <1>0, SuspendedIs
  <2>2. \A r \in Runtimes \ {1} : s[r] = runtime[r]
    BY <1>0, SuspendedIs
  <2> QED  BY <2>1, <2>2 DEF Suspended
<1>2. s[1] \in RuntimeRow /\ ~s[1].running /\ s[1].life = runtime[1].life /\ s[1].agent = runtime[1].agent
  <2>1. 1 \in {1}
    OBVIOUS
  <2> QED  BY <1>0, <2>1, SuspendedIs
<1> HIDE DEF s
<1> DEFINE x == [s[1] EXCEPT !.generation = 0]
<1>3. x \in RuntimeRow
  BY <1>0, <1>2 DEF RuntimeRow
<1>4. /\ ~x.running /\ x.life = runtime[1].life /\ x.agent = runtime[1].agent /\ x.generation = 0
  BY <1>2 DEF RuntimeRow
<1>5. runtime' = [s EXCEPT ![1] = x]
  BY DEF s
<1> HIDE DEF x
<1>6. /\ runtime' \in [Runtimes -> RuntimeRow] /\ runtime'[1] = x
      /\ \A r \in Runtimes \ {1} : runtime'[r] = runtime[r]
  BY <1>0, <1>1, <1>3, <1>5
<1>7. runtime[1].agent = Default
  BY <1>0 DEF ManagerInv, RowOK
<1>8. lanes[Default] # <<>>
  BY <1>0, Awaiting
<1>9. Outcome(Default)
  BY <1>0, <1>4, <1>6, <1>7 DEF Outcome, ManagerInv, Frame
<1>10. LoadedOK(Default)' /\ ReadyOK(Default)'
  <2>1. AgentOK(Default) /\ runtimes[Default] \in Runtimes \cup {None}
    BY <1>0, Before
  <2>2. readiness'[Default] = "not_ready"
    BY <1>0
  <2>3. runtimes[Default] # None =>
          /\ runtime'[runtimes[Default]].agent = runtime[runtimes[Default]].agent
          /\ runtime'[runtimes[Default]].life = runtime[runtimes[Default]].life
    BY <1>4, <1>6, <2>1
  <2>4. LoadedOK(Default)'
    BY <1>0, <2>1, <2>3 DEF LoadedOK, AgentOK
  <2>5. ReadyOK(Default)'
    BY <2>2 DEF ReadyOK
  <2> QED  BY <2>4, <2>5
<1>11. ASSUME NEW r \in Runtimes, runtime'[r].agent = Default PROVE RowOK(r)'
  <2>1. RowOK(r) /\ step[Default].created = None /\ (active => generation > 0) /\ generation \in Nat
    BY <1>0, Awaiting DEF ManagerInv, AgentOK, StepOK, WorldOK, Generations, Frame
  <2>2. CASE r = 1
    <3>1. /\ ~runtime'[1].running /\ runtime'[1].life = runtime[1].life
          /\ runtime'[1].agent = Default /\ runtime'[1].generation = 0
      BY <1>4, <1>6, <1>7
    <3>2. runtime'[1].life = "open" =>
            1 = runtimes'[Default] \/ 1 = step'[Default].created
      BY <1>0, <1>7, <2>1, <2>2, <3>1 DEF RowOK
    <3> QED  BY <1>0, <2>1, <2>2, <3>1, <3>2 DEF RowOK
  <2>3. CASE r # 1
    BY <1>0, <1>6, <1>11, <2>1, <2>3 DEF RowOK, closed
  <2> QED  BY <2>2, <2>3
<1> QED  BY <1>0, <1>8, <1>9, <1>10, <1>11, OutcomeKeeps

\* An agent that is not ready.
LEMMA NotReadyKeeps ==
  ASSUME ManagerInv, NEW a \in Agents, step[a].pc = "probe", NotReady(a), UNCHANGED <<World, failed>>
  PROVE  ManagerInv'
<1>0. /\ lanes[a] # <<>> /\ Ends(a, FALSE) /\ step[a].existing = runtimes[a]
      /\ readiness' = [readiness EXCEPT ![a] = "not_ready"]
      /\ readiness \in [Agents -> {"none", "ready", "not_ready"}]
  BY Awaiting DEF NotReady, AgentOK, StepOK, Frame
<1>1. CASE runtimes[a] # None /\ a # Default
  BY <1>0, <1>1, UnloadKeeps DEF NotReady
<1>2. CASE a = Default /\ step[a].previous # "not_ready"
  BY <1>0, <1>2, DefaultRests DEF NotReady
<1>3. CASE UNCHANGED <<runtimes, runtime>>
  <2>1. Outcome(a) /\ readiness'[a] = "not_ready"
    BY <1>0, <1>3 DEF Outcome, World, ManagerInv, Frame
  <2> QED  BY <1>0, <1>3, <2>1, EndsOnly
<1> QED  BY <1>0, <1>1, <1>2, <1>3 DEF NotReady

\* A runtime that is there is resumed if its agent was not ready before.
LEMMA FoundKeeps ==
  ASSUME ManagerInv, NEW a \in Agents, step[a].pc = "probe", Ready(a), UNCHANGED <<World, failed>>,
         runtimes[a] # None
  PROVE  ManagerInv'
<1> DEFINE h == runtimes[a]
<1>0. /\ lanes[a] # <<>> /\ AgentOK(a) /\ Frame /\ h \in Runtimes /\ step[a].created = None
      /\ step[a].existing = h /\ step[a].previous = readiness[a] /\ runtime[h].agent = a
      /\ runtimes' = runtimes /\ readiness' = [readiness EXCEPT ![a] = "ready"]
      /\ generation' = generation /\ active' = active /\ connected' = connected
      /\ closing' = closing /\ calls' = calls /\ failed' = failed
  BY Awaiting, Before DEF Ready, AgentOK, StepOK, LoadedOK, World
<1>1. Ends(a, FALSE)
      /\ runtime' = IF readiness[a] = "not_ready" THEN Resumed(runtime, {h}) ELSE runtime
  BY <1>0 DEF Ready
<1> HIDE DEF h
<1>2. /\ runtime' \in [Runtimes -> RuntimeRow] /\ \A r \in Runtimes \ {h} : runtime'[r] = runtime[r]
      /\ runtime'[h].agent = a /\ runtime'[h].life = runtime[h].life
      /\ \/ runtime'[h] = runtime[h]
         \/ /\ active /\ runtime'[h].generation = generation
            /\ runtime'[h].running <=> runtime[h].life = "open"
      /\ active /\ readiness[a] = "not_ready" => runtime'[h].generation = generation
  <2>1. CASE readiness[a] = "not_ready"
    <3>1. WorldOK /\ h \in {h} /\ runtime' = Resumed(runtime, {h})
      BY <1>1, <2>1 DEF ManagerInv
    <3>2. \A r \in Runtimes : Resumed(runtime, {h})[r] \in RuntimeRow
      BY <1>0, <3>1, ResumedIs
    <3>3. runtime' \in [Runtimes -> RuntimeRow]
      BY <3>1, <3>2 DEF Resumed
    <3>4. \A r \in Runtimes \ {h} : Resumed(runtime, {h})[r] = runtime[r]
      BY <1>0, <3>1, ResumedIs
    <3>5. /\ Resumed(runtime, {h})[h].agent = a /\ Resumed(runtime, {h})[h].life = runtime[h].life
          /\ \/ Resumed(runtime, {h})[h] = runtime[h]
             \/ /\ active /\ Resumed(runtime, {h})[h].generation = generation
                /\ Resumed(runtime, {h})[h].running <=> runtime[h].life = "open"
          /\ active => Resumed(runtime, {h})[h].generation = generation
      BY <1>0, <3>1, ResumedIs
    <3> QED  BY <3>1, <3>3, <3>4, <3>5
  <2>2. CASE readiness[a] # "not_ready"
    BY <1>0, <1>1, <2>2 DEF Frame
  <2> QED  BY <2>1, <2>2
<1>3. Outcome(a)
  BY <1>0, <1>2 DEF Outcome, Frame
<1>4. LoadedOK(a)' /\ ReadyOK(a)'
  <2>1. h = runtimes[a]
    BY DEF h
  <2>2. LoadedOK(a)'
    BY <1>0, <1>2, <2>1 DEF LoadedOK, AgentOK, closed
  <2>3. ASSUME Settled' PROVE runtime'[h].life = "open" => runtime'[h].generation = generation
    <3>1. Settled /\ active
      BY <1>0, <1>1, <1>3, <2>3, WasSettled
    <3> QED  BY <1>0, <1>2, <2>1, <3>1 DEF AgentOK, ReadyOK
  <2> QED  BY <1>0, <2>1, <2>2, <2>3 DEF ReadyOK
<1>5. ASSUME NEW r \in Runtimes, runtime'[r].agent = a PROVE RowOK(r)'
  <2>1. RowOK(r) /\ runtime[r].agent = a /\ h = runtimes[a] /\ None \notin Runtimes
    BY <1>0, <1>2, <1>5, Before DEF ManagerInv, h
  <2>2. CASE r = h
    BY <1>0, <1>2, <2>1, <2>2 DEF RowOK, closed, Frame
  <2>3. CASE r # h
    BY <1>0, <1>2, <2>1, <2>3 DEF RowOK, closed
  <2> QED  BY <2>2, <2>3
<1> QED  BY <1>0, <1>1, <1>3, <1>4, <1>5, OutcomeKeeps

\* The runtime r is the one that a start of a makes, and it was not there before.
Opened(a, y, r) ==
  /\ r = y.created /\ y.pc = "initialize"
  /\ runtime[r].life = "new" \/ (runtime[r].agent = a /\ runtime[r].life = "abandoned")
  /\ runtime'[r].agent = a /\ runtime'[r].life = "open"
  /\ runtime'[r].running = runtime[r].running
  /\ runtime'[r].generation = runtime[r].generation
  /\ r = 1 => a = Default

Makes(a, y) ==
  /\ y.created \in Runtimes /\ runtime'[y.created].agent = a
  /\ runtime'[y.created].life # "new"
  /\ a # Default => runtime'[y.created].life = "open"

\* A start goes on: the runtime it is about to make or has made is the only one of its agent.
LEMMA StartGoesOn ==
  ASSUME ManagerInv, NEW a \in Agents, step[a].pc \in {"probe", "config"}, runtimes[a] = None,
         NEW y \in StepRow, y.pc \in {"config", "initialize"}, y.pc = "config" => a # Default /\ y.created = None,
         step' = [step EXCEPT ![a] = y], lanes' = lanes, resumes' = resumes, runtimes' = runtimes,
         UNCHANGED <<World, failed>>,
         readiness' \in [Agents -> {"none", "ready", "not_ready"}],
         \A b \in Agents \ {a} : readiness'[b] = readiness[b],
         runtime' \in [Runtimes -> RuntimeRow],
         \A r \in Runtimes : runtime'[r] = runtime[r] \/ Opened(a, y, r),
         y.pc = "initialize" => Makes(a, y)
  PROVE  ManagerInv'
<1>0. /\ lanes[a] # <<>> /\ Head(lanes[a]).kind = "start" /\ AgentOK(a) /\ Frame /\ step[a].created = None
      /\ (\A r \in Runtimes : RowOK(r)) /\ None \notin Runtimes
      /\ generation' = generation /\ active' = active /\ connected' = connected
      /\ closing' = closing /\ calls' = calls /\ failed' = failed
  BY Awaiting, Before DEF AgentOK, StepOK, World
<1>1. /\ step' \in [Agents -> StepRow] /\ step'[a] = y /\ \A b \in Agents \ {a} : step'[b] = step[b]
  BY <1>0 DEF Frame
<1>2. Frame'
  BY <1>0, <1>1 DEF Frame
<1>3. LaneStep(a)
  BY <1>0, <1>1 DEF LaneStep, Opened
<1>4. AgentOK(a)'
  <2>1. StepOK(a)'
    BY <1>0, <1>1 DEF StepOK, Makes
  <2>2. LoadedOK(a)' /\ ReadyOK(a)'
    BY DEF LoadedOK, ReadyOK
  <2> QED  BY <2>1, <2>2 DEF AgentOK
<1>5. ASSUME NEW r \in Runtimes, runtime'[r].agent = a PROVE RowOK(r)'
  <2>0. RowOK(r) /\ runtime[r] \in RuntimeRow
    BY <1>0 DEF Frame
  <2>1. CASE runtime'[r] = runtime[r]
    <3>1. runtime[r].life # "open"
      BY <1>0, <1>5, <2>0, <2>1 DEF RowOK
    <3> QED  BY <1>0, <1>5, <2>0, <2>1, <3>1 DEF RowOK, closed
  <2>2. CASE runtime'[r] # runtime[r]
    <3>1. /\ r = y.created /\ runtime'[r].agent = a
          /\ runtime[r].life = "new" \/ (runtime[r].agent = a /\ runtime[r].life = "abandoned")
          /\ runtime'[r].life = "open" /\ runtime'[r].running = runtime[r].running
          /\ runtime'[r].generation = runtime[r].generation /\ (r = 1 => a = Default)
      BY <2>2 DEF Opened
    <3>2. r # runtimes[runtime[r].agent]
      <4>1. runtime[r].agent \in Agents
        BY <2>0 DEF RuntimeRow
      <4>2. LoadedOK(runtime[r].agent)
        BY <4>1 DEF ManagerInv, AgentOK
      <4> QED  BY <1>0, <3>1, <4>2 DEF LoadedOK
    <3>3. ~runtime[r].running /\ runtime[r].generation = 0
      BY <2>0, <3>1, <3>2 DEF RowOK
    <3>4. active => generation > 0
      BY DEF ManagerInv, WorldOK, Generations
    <3>5. generation \in Nat
      BY <1>0 DEF Frame
    <3>6. ~runtime'[r].running /\ runtime'[r].generation = 0
      BY <3>1, <3>3
    <3> QED  BY <1>0, <1>1, <3>1, <3>4, <3>5, <3>6 DEF RowOK
  <2> QED  BY <2>1, <2>2
<1> QED  BY <1>2, <1>3, <1>4, <1>5, LaneKeeps

\* An agent that is ready and has no runtime gets one: the default agent the one
\* that has always been there.
LEMMA FreshKeeps ==
  ASSUME ManagerInv, NEW a \in Agents, step[a].pc = "probe", Ready(a), UNCHANGED <<World, failed>>,
         runtimes[a] = None
  PROVE  ManagerInv'
<1>0. /\ step[a] \in StepRow /\ step[a].existing = None /\ step[a].created = None /\ Frame
      /\ runtimes' = runtimes /\ lanes' = lanes /\ resumes' = resumes
      /\ readiness' = [readiness EXCEPT ![a] = "ready"] /\ 1 \in Runtimes
  BY Awaiting, Before DEF Ready, AgentOK, StepOK
<1>1. /\ readiness' \in [Agents -> {"none", "ready", "not_ready"}]
      /\ \A b \in Agents \ {a} : readiness'[b] = readiness[b]
  BY <1>0 DEF Frame
<1>2. CASE a # Default
  <2> DEFINE y == [step[a] EXCEPT !.pc = "config"]
  <2>1. y \in StepRow /\ y.pc = "config" /\ y.created = None
    BY <1>0 DEF StepRow
  <2>2. step' = [step EXCEPT ![a] = y] /\ runtime' = runtime
    BY <1>0, <1>2 DEF Ready
  <2> HIDE DEF y
  <2> QED  BY <1>0, <1>1, <1>2, <2>1, <2>2, StartGoesOn DEF Frame
<1>3. CASE a = Default
  <2> DEFINE y == [step[a] EXCEPT !.pc = "initialize", !.created = 1]
  <2> DEFINE x == [runtime[1] EXCEPT !.life = "open"]
  <2>1. y \in StepRow /\ y.pc = "initialize" /\ y.created = 1
    BY <1>0 DEF StepRow
  <2>2. step' = [step EXCEPT ![a] = y]
    BY <1>0, <1>3 DEF Ready
  <2>3. runtime' = IF runtime[1].life \in {"new", "abandoned"} THEN [runtime EXCEPT ![1] = x]
                   ELSE runtime
    BY <1>0, <1>3 DEF Ready
  <2>4. runtime[1] \in RuntimeRow /\ runtime[1].agent = a
    BY <1>0, <1>3 DEF ManagerInv, RowOK, Frame
  <2>5. /\ x \in RuntimeRow /\ x.life = "open" /\ x.agent = a
        /\ x.running = runtime[1].running /\ x.generation = runtime[1].generation
    BY <2>4 DEF RuntimeRow
  <2> HIDE DEF x, y
  <2>6. /\ runtime' \in [Runtimes -> RuntimeRow] /\ \A r \in Runtimes \ {1} : runtime'[r] = runtime[r]
        /\ runtime'[1] = runtime[1] \/ (runtime[1].life \in {"new", "abandoned"} /\ runtime'[1] = x)
        /\ runtime[1].life = "new" => runtime'[1] = x
    BY <1>0, <2>3, <2>5 DEF Frame
  <2>7. runtime'[1].agent = a /\ runtime'[1].life # "new"
    BY <2>4, <2>5, <2>6
  <2>8. \A r \in Runtimes : runtime'[r] = runtime[r] \/ Opened(a, y, r)
    BY <1>3, <2>1, <2>4, <2>5, <2>6 DEF Opened
  <2>9. Makes(a, y)
    BY <1>0, <1>3, <2>1, <2>7 DEF Makes
  <2> QED  BY <1>0, <1>1, <2>1, <2>2, <2>6, <2>8, <2>9, StartGoesOn
<1> QED  BY <1>2, <1>3

\* The probe has answered, or the manager is closed.
LEMMA ProbedKeeps == ASSUME ManagerInv, NEW a \in Agents, Probed(a) PROVE ManagerInv'
<1>0. step[a].pc = "probe" /\ UNCHANGED <<World, failed>> /\ lanes[a] # <<>>
  BY Awaiting DEF Probed
<1>1. CASE closed
  <2>1. Ends(a, FALSE) /\ UNCHANGED <<runtimes, readiness, runtime>>
    BY <1>1 DEF Probed
  <2> QED  BY <1>0, <2>1, SameWorld, EndsOnly
<1>2. CASE NotReady(a)
  BY <1>0, <1>2, NotReadyKeeps
<1>3. CASE Ready(a)
  BY <1>0, <1>3, FoundKeeps, FreshKeeps
<1> QED  BY <1>1, <1>2, <1>3 DEF Probed

\* A runtime is made.
LEMMA CreatedKeeps == ASSUME ManagerInv, NEW a \in Agents, Created(a) PROVE ManagerInv'
<1>1. PICK r \in Runtimes \ {1} :
        /\ runtime[r].life = "new"
        /\ runtime' = [runtime EXCEPT ![r].agent = a, ![r].life = "open"]
        /\ step' = [step EXCEPT ![a].pc = "initialize", ![a].created = r]
  BY DEF Created
<1>0. /\ step[a].pc = "config" /\ step[a] \in StepRow /\ runtimes[a] = None /\ Frame
      /\ runtimes' = runtimes /\ readiness' = readiness /\ lanes' = lanes /\ resumes' = resumes
      /\ UNCHANGED <<World, failed>> /\ a # Default
  BY Awaiting, Before DEF Created, AgentOK, StepOK
<1> DEFINE y == [step[a] EXCEPT !.pc = "initialize", !.created = r]
<1> DEFINE x == [runtime[r] EXCEPT !.agent = a, !.life = "open"]
<1>2. y \in StepRow /\ y.pc = "initialize" /\ y.created = r
  BY <1>0 DEF StepRow
<1>3. step' = [step EXCEPT ![a] = y] /\ runtime' = [runtime EXCEPT ![r] = x]
  BY <1>1
<1>4. runtime[r] \in RuntimeRow /\ runtime \in [Runtimes -> RuntimeRow]
  BY <1>0 DEF Frame
<1>5. /\ x \in RuntimeRow /\ x.life = "open" /\ x.agent = a
      /\ x.running = runtime[r].running /\ x.generation = runtime[r].generation
  BY <1>4 DEF RuntimeRow
<1> HIDE DEF x, y
<1>6. /\ runtime' \in [Runtimes -> RuntimeRow] /\ \A q \in Runtimes \ {r} : runtime'[q] = runtime[q]
      /\ runtime'[r] = x
  BY <1>3, <1>4, <1>5
<1>7. \A q \in Runtimes : runtime'[q] = runtime[q] \/ Opened(a, y, q)
  BY <1>1, <1>2, <1>5, <1>6 DEF Opened
<1>8. Makes(a, y)
  BY <1>2, <1>5, <1>6 DEF Makes
<1>9. readiness' \in [Agents -> {"none", "ready", "not_ready"}]
  BY <1>0 DEF Frame
<1> QED  BY <1>0, <1>2, <1>3, <1>6, <1>7, <1>8, <1>9, StartGoesOn

\* It could not be made: nothing is left.
LEMMA CreateFailsKeeps == ASSUME ManagerInv, NEW a \in Agents, CreateFails(a) PROVE ManagerInv'
<1>1. /\ lanes[a] # <<>> /\ Ends(a, TRUE) /\ step[a].pc = "config"
      /\ UNCHANGED <<runtimes, readiness, runtime>>
  BY Awaiting DEF CreateFails
<1>2. Outcome(a)
  BY <1>1 DEF CreateFails, Fails, FailTogether, Breaks, Outcome, ManagerInv, Frame
<1> QED  BY <1>1, <1>2, EndsOnly

\* The runtime that is being initialised.
LEMMA Initialising ==
  ASSUME ManagerInv, NEW a \in Agents, step[a].pc = "initialize"
  PROVE  /\ lanes[a] # <<>> /\ Frame /\ None \notin Runtimes /\ runtimes[a] = None
         /\ step[a].created \in Runtimes /\ runtime[step[a].created].agent = a
         /\ runtime[step[a].created].life # "new"
         /\ a # Default => runtime[step[a].created].life = "open"
         /\ \A r \in Runtimes : runtime[r].agent = a =>
              /\ RowOK(r) /\ ~runtime[r].running
              /\ r # step[a].created => runtime[r].life # "open"
BY Awaiting, Before DEF AgentOK, StepOK, RowOK

\* What is left of it where it is not taken into use: a runtime that is open no longer,
\* or one in the map, for close to find.
LEMMA LeftKeeps ==
  ASSUME ManagerInv, NEW a \in Agents, step[a].pc = "initialize", NEW failing, Ends(a, failing),
         NEW h \in Runtimes, h = step[a].created,
         runtime' \in [Runtimes -> RuntimeRow], \A r \in Runtimes \ {h} : runtime'[r] = runtime[r],
         runtime'[h].agent = a, runtime'[h].life # "new", ~runtime'[h].running,
         runtime'[h].generation = runtime[h].generation,
         runtime'[h].life # "closed" => runtime[h].life # "closed",
         UNCHANGED <<readiness, generation, active, connected, calls>>,
         closing' = closing \/ (closing = "waiting" /\ closing' = "broken"),
         failed \subseteq failed', failed' \subseteq Failures,
         \/ runtimes' = runtimes /\ runtime'[h].life # "open"
         \/ /\ "resume" \in failed' \/ (closed /\ "close" \in failed')
            /\ runtimes' = [runtimes EXCEPT ![a] = h]
  PROVE  ManagerInv'
<1>0. /\ lanes[a] # <<>> /\ Frame /\ None \notin Runtimes /\ runtimes[a] = None
      /\ runtime[h].agent = a
      /\ \A r \in Runtimes : runtime[r].agent = a =>
           RowOK(r) /\ ~runtime[r].running /\ (r # h => runtime[r].life # "open")
      /\ readiness' = readiness /\ generation' = generation /\ active' = active
      /\ connected' = connected /\ calls' = calls /\ (closed' <=> closed) /\ WorldOK
  BY Initialising DEF closed, ManagerInv
<1>1. /\ runtimes' \in [Agents -> Runtimes \cup {None}]
      /\ \A b \in Agents \ {a} : runtimes'[b] = runtimes[b]
      /\ \/ runtimes'[a] = None /\ runtime'[h].life # "open"
         \/ runtimes'[a] = h /\ ("resume" \in failed' \/ (closed /\ "close" \in failed'))
  <2>0. runtimes \in [Agents -> Runtimes \cup {None}]
    BY <1>0 DEF Frame
  <2>1. CASE runtimes' = runtimes
    BY <1>0, <2>0, <2>1
  <2>2. CASE runtimes' = [runtimes EXCEPT ![a] = h]
    BY <1>0, <2>0, <2>2
  <2> QED  BY <2>1, <2>2
<1>2. Outcome(a)
  BY <1>0, <1>1 DEF Outcome, Frame
<1>3. LoadedOK(a)' /\ ReadyOK(a)'
  BY <1>0, <1>1 DEF LoadedOK, ReadyOK, Settled, WorldOK
<1>4. ASSUME NEW r \in Runtimes, runtime'[r].agent = a PROVE RowOK(r)'
  <2>1. RowOK(r) /\ runtime[r].agent = a /\ ~runtime[r].running /\ (r # h => runtime[r].life # "open")
    BY <1>0, <1>4
  <2>2. CASE r = h
    <3>1. runtime'[h].life # "closed" => runtime[h].generation = 0
      BY <1>0, <2>1, <2>2 DEF RowOK
    <3>2. active => generation > 0
      BY <1>0 DEF WorldOK, Generations
    <3>3. generation \in Nat
      BY <1>0 DEF Frame
    <3> QED  BY <1>0, <1>1, <2>1, <2>2, <3>1, <3>2, <3>3 DEF RowOK
  <2>3. CASE r # h
    <3>1. runtime'[r] = runtime[r] /\ r # runtimes[a] /\ r # runtimes'[a]
      BY <1>0, <1>1, <2>3
    <3> QED  BY <1>0, <2>1, <2>3, <3>1 DEF RowOK
  <2> QED  BY <2>2, <2>3
<1> QED  BY <1>0, <1>2, <1>3, <1>4, OutcomeKeeps

\* A runtime of the agent is closed, and no other is touched.
LEMMA ShutOne ==
  ASSUME Frame, NEW h \in Runtimes, runtime' = Shut(runtime, {h})
  PROVE  /\ runtime' \in [Runtimes -> RuntimeRow]
         /\ \A r \in Runtimes \ {h} : runtime'[r] = runtime[r]
         /\ runtime'[h].life = "closed" /\ ~runtime'[h].running
         /\ runtime'[h].agent = runtime[h].agent
         /\ runtime'[h].generation = runtime[h].generation
<1>0. h \in {h}
  OBVIOUS
<1>1. \A r \in Runtimes : Shut(runtime, {h})[r] \in RuntimeRow
  BY ShutIs
<1>2. runtime' \in [Runtimes -> RuntimeRow]
  BY <1>1 DEF Shut
<1>3. \A r \in Runtimes \ {h} : Shut(runtime, {h})[r] = runtime[r]
  BY ShutIs
<1>4. /\ Shut(runtime, {h})[h].life = "closed" /\ ~Shut(runtime, {h})[h].running
      /\ Shut(runtime, {h})[h].agent = runtime[h].agent
      /\ Shut(runtime, {h})[h].generation = runtime[h].generation
  BY <1>0, ShutIs
<1> QED  BY <1>2, <1>3, <1>4

\* It is closed, or closing it threw, and it has entered the map or not.
LEMMA ShutKeeps ==
  ASSUME ManagerInv, NEW a \in Agents, step[a].pc = "initialize", NEW failing, Ends(a, failing),
         CloseThrows(step[a].created),
         UNCHANGED <<readiness, generation, active, connected, calls>>,
         closing' = closing \/ (closing = "waiting" /\ closing' = "broken"),
         failed \subseteq failed', failed' \subseteq Failures,
         \/ runtimes' = runtimes /\ runtime' = Shut(runtime, {step[a].created})
         \/ /\ "resume" \in failed' \/ (closed /\ "close" \in failed')
            /\ runtimes' = [runtimes EXCEPT ![a] = step[a].created]
  PROVE  ManagerInv'
<1> DEFINE h == step[a].created
<1>0. /\ Frame /\ h \in Runtimes /\ runtime[h].agent = a /\ runtime[h].life # "new"
      /\ ~runtime[h].running
  BY Initialising
<1>1. /\ h = step[a].created
      /\ \/ runtimes' = runtimes /\ runtime' = Shut(runtime, {h})
         \/ /\ "resume" \in failed' \/ (closed /\ "close" \in failed')
            /\ runtimes' = [runtimes EXCEPT ![a] = h]
      /\ runtime' = runtime \/ runtime' = Shut(runtime, {h})
  BY DEF CloseThrows
<1> HIDE DEF h
<1>2. CASE runtime' = Shut(runtime, {h})
  <2>1. /\ runtime' \in [Runtimes -> RuntimeRow]
        /\ \A r \in Runtimes \ {h} : runtime'[r] = runtime[r]
        /\ runtime'[h].life = "closed" /\ ~runtime'[h].running
        /\ runtime'[h].agent = a /\ runtime'[h].generation = runtime[h].generation
    BY <1>0, <1>2, ShutOne
  <2>2. runtime'[h].life \notin {"new", "open"} /\ ~(runtime'[h].life # "closed")
    BY <2>1
  <2>3. \/ runtimes' = runtimes /\ runtime'[h].life # "open"
        \/ /\ "resume" \in failed' \/ (closed /\ "close" \in failed')
           /\ runtimes' = [runtimes EXCEPT ![a] = h]
    BY <1>1, <2>2
  <2> QED  BY <1>0, <1>1, <2>1, <2>2, <2>3, LeftKeeps
<1>3. CASE runtime' = runtime /\ runtime' # Shut(runtime, {h})
  <2>1. /\ runtime' \in [Runtimes -> RuntimeRow]
        /\ \A r \in Runtimes \ {h} : runtime'[r] = runtime[r]
        /\ runtime'[h].life = runtime[h].life /\ ~runtime'[h].running
        /\ runtime'[h].agent = a /\ runtime'[h].generation = runtime[h].generation
    BY <1>0, <1>3 DEF Frame
  <2>2. /\ "resume" \in failed' \/ (closed /\ "close" \in failed')
        /\ runtimes' = [runtimes EXCEPT ![a] = h]
    BY <1>1, <1>3
  <2>3. runtime'[h].life # "new" /\ (runtime'[h].life # "closed" => runtime[h].life # "closed")
    BY <1>0, <2>1
  <2> QED  BY <1>0, <1>1, <2>1, <2>2, <2>3, LeftKeeps
<1> QED  BY <1>1, <1>2, <1>3

\* What could not be initialised is closed.
LEMMA InitialiseFailsKeeps == ASSUME ManagerInv, NEW a \in Agents, InitialiseFails(a) PROVE ManagerInv'
<1>1. /\ step[a].pc = "initialize" /\ Ends(a, TRUE) /\ runtime' = Shut(runtime, {step[a].created})
      /\ UNCHANGED <<runtimes, readiness, generation, active, connected, calls>>
      /\ closing' = closing \/ (closing = "waiting" /\ closing' = "broken")
      /\ failed \subseteq failed'
  BY DEF InitialiseFails, Fails, FailTogether, Breaks
<1>2. failed' \subseteq Failures
  BY DEF InitialiseFails, Fails, FailTogether, ManagerInv, Frame
<1>3. CloseThrows(step[a].created)
  BY <1>1 DEF CloseThrows
<1> QED  BY <1>1, <1>2, <1>3, ShutKeeps

\* Or it is abandoned.
LEMMA InitialiseAbandonsKeeps ==
  ASSUME ManagerInv, NEW a \in Agents, InitialiseAbandons(a) PROVE ManagerInv'
<1> DEFINE h == step[a].created
<1> DEFINE x == [runtime[h] EXCEPT !.life = IF @ = "open" THEN "abandoned" ELSE @]
<1>1. /\ step[a].pc = "initialize" /\ Ends(a, TRUE) /\ runtime' = [runtime EXCEPT ![h] = x]
      /\ UNCHANGED <<readiness, generation, active, connected, calls>> /\ runtimes' = runtimes
      /\ closing' = closing \/ (closing = "waiting" /\ closing' = "broken")
      /\ failed \subseteq failed'
  BY DEF InitialiseAbandons, FailTogether, Breaks
<1>2. failed' \subseteq Failures
  BY DEF InitialiseAbandons, FailTogether, ManagerInv, Frame
<1>3. /\ Frame /\ h \in Runtimes /\ runtime[h].agent = a /\ runtime[h].life # "new"
      /\ ~runtime[h].running /\ runtime[h] \in RuntimeRow /\ runtime \in [Runtimes -> RuntimeRow]
  BY <1>1, Initialising DEF Frame
<1>4. /\ x \in RuntimeRow /\ x.agent = a /\ ~x.running /\ x.generation = runtime[h].generation
      /\ x.life = IF runtime[h].life = "open" THEN "abandoned" ELSE runtime[h].life
  BY <1>3 DEF RuntimeRow
<1>5. h = step[a].created
  OBVIOUS
<1> HIDE DEF h, x
<1>6. /\ runtime' \in [Runtimes -> RuntimeRow] /\ runtime'[h] = x
      /\ \A r \in Runtimes \ {h} : runtime'[r] = runtime[r]
  BY <1>1, <1>3, <1>4
<1>7. /\ runtime'[h].agent = a /\ ~runtime'[h].running
      /\ runtime'[h].generation = runtime[h].generation
      /\ runtime'[h].life # "new" /\ runtime'[h].life # "open"
      /\ runtime'[h].life # "closed" => runtime[h].life # "closed"
  BY <1>3, <1>4, <1>6
<1> QED  BY <1>1, <1>2, <1>3, <1>5, <1>6, <1>7, LeftKeeps

\* So is what could not be resumed, though it has entered the map.
LEMMA ResumeThrowsKeeps == ASSUME ManagerInv, NEW a \in Agents, ResumeThrows(a) PROVE ManagerInv'
<1>1. /\ step[a].pc = "initialize" /\ Ends(a, TRUE) /\ CloseThrows(step[a].created)
      /\ UNCHANGED <<readiness, generation, active, connected, calls>> /\ closing' = closing
      /\ failed \subseteq failed' /\ "resume" \in failed'
      /\ runtimes' = [runtimes EXCEPT ![a] = step[a].created]
  BY DEF ResumeThrows, Fails, FailTogether, World, CloseThrows
<1>2. failed' \subseteq Failures
  BY DEF ResumeThrows, Fails, FailTogether, ManagerInv, Frame
<1> QED  BY <1>1, <1>2, ShutKeeps

\* And what was ready when the manager had been closed, if closing it throws.
LEMMA InitialisedThrowsKeeps ==
  ASSUME ManagerInv, NEW a \in Agents, InitialisedThrows(a) PROVE ManagerInv'
<1>1. /\ step[a].pc = "initialize" /\ Ends(a, TRUE) /\ CloseThrows(step[a].created)
      /\ UNCHANGED <<readiness, generation, active, connected, calls>>
      /\ closing' = closing \/ (closing = "waiting" /\ closing' = "broken")
      /\ failed \subseteq failed' /\ closed /\ "close" \in failed'
      /\ runtimes' = [runtimes EXCEPT ![a] = step[a].created]
  BY DEF InitialisedThrows, Fails, FailTogether, Breaks
<1>2. failed' \subseteq Failures
  BY DEF InitialisedThrows, Fails, FailTogether, ManagerInv, Frame
<1> QED  BY <1>1, <1>2, ShutKeeps

\* A runtime whose close throws stays in the map, and its agent is not ready.
LEMMA UnloadThrowsKeeps ==
  ASSUME ManagerInv, NEW a \in Agents, lanes[a] # <<>>, step[a].pc \in {"idle", "probe"},
         runtimes[a] # None, UnloadThrows(a, runtimes[a])
  PROVE  ManagerInv'
<1> DEFINE h == runtimes[a]
<1>0. /\ AgentOK(a) /\ h \in Runtimes /\ None \notin Runtimes /\ runtime[h].agent = a
      /\ step[a].created = None /\ Frame
  BY Before DEF AgentOK, LoadedOK, StepOK, ManagerInv
<1>1. /\ Ends(a, TRUE) /\ "close" \in failed' /\ failed \subseteq failed' /\ runtimes' = runtimes
      /\ generation' = generation /\ active' = active /\ connected' = connected
      /\ calls' = calls /\ readiness' = [readiness EXCEPT ![a] = "not_ready"]
      /\ closing' = closing \/ (closing = "waiting" /\ closing' = "broken")
      /\ (closed' <=> closed)
  BY DEF UnloadThrows, Fails, FailTogether, Breaks, closed
<1>2. failed' \subseteq Failures
  BY <1>0 DEF UnloadThrows, Fails, FailTogether, Frame
<1>3. /\ readiness' \in [Agents -> {"none", "ready", "not_ready"}] /\ readiness'[a] = "not_ready"
      /\ \A b \in Agents \ {a} : readiness'[b] = readiness[b]
  BY <1>0, <1>1 DEF Frame
<1>4. CASE runtime' = runtime
  <2>1. Outcome(a)
    BY <1>0, <1>1, <1>2, <1>3, <1>4 DEF Outcome, Frame
  <2> QED  BY <1>1, <1>3, <1>4, <2>1, EndsOnly
<1>5. CASE runtime' = Shut(runtime, {h})
  <2>0. h = runtimes[a]
    OBVIOUS
  <2> HIDE DEF h
  <2>1. /\ runtime' \in [Runtimes -> RuntimeRow]
        /\ \A r \in Runtimes \ {h} : runtime'[r] = runtime[r]
        /\ runtime'[h].life = "closed" /\ ~runtime'[h].running
        /\ runtime'[h].agent = a /\ runtime'[h].generation = runtime[h].generation
    BY <1>0, <1>5, ShutOne
  <2>2. Outcome(a)
    BY <1>0, <1>1, <1>2, <1>3, <2>1 DEF Outcome, Frame
  <2>3. LoadedOK(a)' /\ ReadyOK(a)'
    BY <1>1, <1>3, <2>0, <2>1 DEF LoadedOK, ReadyOK
  <2>4. ASSUME NEW r \in Runtimes, runtime'[r].agent = a PROVE RowOK(r)'
    <3>1. RowOK(r) /\ runtime[r].agent = a /\ (r # h => runtime'[r] = runtime[r])
      BY <1>0, <2>1, <2>4 DEF ManagerInv
    <3> QED  BY <1>0, <1>1, <2>0, <2>1, <3>1 DEF RowOK
  <2> QED  BY <1>1, <2>2, <2>3, <2>4, OutcomeKeeps
<1> QED  BY <1>4, <1>5 DEF UnloadThrows, CloseThrows

\* So it is when the agent is not ready or is stopped.
LEMMA NotReadyThrowsKeeps == ASSUME ManagerInv, NEW a \in Agents, NotReadyThrows(a) PROVE ManagerInv'
<1>1. /\ lanes[a] # <<>> /\ step[a].pc = "probe" /\ step[a].existing = runtimes[a]
      /\ runtimes[a] # None /\ UnloadThrows(a, runtimes[a])
  BY Awaiting DEF NotReadyThrows, AgentOK, StepOK
<1> QED  BY <1>1, UnloadThrowsKeeps

LEMMA StopThrowsKeeps == ASSUME ManagerInv, NEW a \in Agents, StopThrows(a) PROVE ManagerInv'
<1>1. Running(a, "stop") /\ runtimes[a] # None /\ UnloadThrows(a, runtimes[a]) /\ "stop" # "start"
  BY DEF StopThrows
<1>2. lanes[a] # <<>> /\ step[a].pc = "idle"
  BY <1>1, RunningIs
<1> QED  BY <1>1, <1>2, UnloadThrowsKeeps

\* The runtime enters the map and is resumed, unless the manager was closed meanwhile.
LEMMA InitialisedKeeps == ASSUME ManagerInv, NEW a \in Agents, Initialised(a) PROVE ManagerInv'
<1> DEFINE h == step[a].created
<1>0. /\ step[a].pc = "initialize" /\ Ends(a, FALSE)
      /\ readiness' = readiness /\ generation' = generation /\ active' = active
      /\ connected' = connected /\ calls' = calls /\ closing' = closing /\ failed' = failed
  BY DEF Initialised, World
<1>1. CASE closed
  <2>1. runtime' = Shut(runtime, {step[a].created}) /\ runtimes' = runtimes
    BY <1>1 DEF Initialised
  <2>2. failed' \subseteq Failures
    BY <1>0 DEF ManagerInv, Frame
  <2>3. CloseThrows(step[a].created)
    BY <2>1 DEF CloseThrows
  <2> QED  BY <1>0, <2>1, <2>2, <2>3, ShutKeeps
<1>2. CASE ~closed
  <2>0. /\ lanes[a] # <<>> /\ Frame /\ None \notin Runtimes /\ runtimes[a] = None /\ WorldOK
        /\ h \in Runtimes /\ runtime[h].agent = a /\ runtime[h].life # "new"
        /\ a # Default => runtime[h].life = "open"
        /\ \A r \in Runtimes : runtime[r].agent = a =>
             RowOK(r) /\ ~runtime[r].running /\ (r # h => runtime[r].life # "open")
    BY <1>0, Initialising DEF ManagerInv
  <2>1. /\ runtimes' = [runtimes EXCEPT ![a] = h] /\ runtime' = Resumed(runtime, {h}) /\ h \in {h}
        /\ (closed' <=> closed)
    BY <1>0, <1>2 DEF Initialised, closed
  <2> HIDE DEF h
  <2>2. /\ runtime' \in [Runtimes -> RuntimeRow]
        /\ \A r \in Runtimes \ {h} : runtime'[r] = runtime[r]
        /\ runtime'[h].agent = a /\ runtime'[h].life = runtime[h].life
        /\ \/ runtime'[h] = runtime[h]
           \/ /\ active /\ runtime'[h].generation = generation
              /\ runtime'[h].running <=> runtime[h].life = "open"
        /\ active => runtime'[h].generation = generation
    <3>1. \A r \in Runtimes : Resumed(runtime, {h})[r] \in RuntimeRow
      BY <2>0, ResumedIs
    <3>2. runtime' \in [Runtimes -> RuntimeRow]
      BY <2>1, <3>1 DEF Resumed
    <3>3. \A r \in Runtimes \ {h} : Resumed(runtime, {h})[r] = runtime[r]
      BY <2>0, ResumedIs
    <3>4. /\ Resumed(runtime, {h})[h].agent = a /\ Resumed(runtime, {h})[h].life = runtime[h].life
          /\ \/ Resumed(runtime, {h})[h] = runtime[h]
             \/ /\ active /\ Resumed(runtime, {h})[h].generation = generation
                /\ Resumed(runtime, {h})[h].running <=> runtime[h].life = "open"
          /\ active => Resumed(runtime, {h})[h].generation = generation
      BY <2>0, <2>1, ResumedIs
    <3> QED  BY <2>1, <3>2, <3>3, <3>4
  <2>3. /\ runtimes' \in [Agents -> Runtimes \cup {None}] /\ runtimes'[a] = h
        /\ \A b \in Agents \ {a} : runtimes'[b] = runtimes[b]
    BY <2>0, <2>1 DEF Frame
  <2>4. Outcome(a)
    BY <1>0, <2>0, <2>2, <2>3 DEF Outcome, Frame
  <2>5. LoadedOK(a)'
    BY <2>0, <2>2, <2>3 DEF LoadedOK
  <2>6. ReadyOK(a)'
    BY <1>0, <2>2, <2>3 DEF ReadyOK, Settled
  <2>7. ASSUME NEW r \in Runtimes, runtime'[r].agent = a PROVE RowOK(r)'
    <3>1. RowOK(r) /\ runtime[r].agent = a /\ ~runtime[r].running /\ (r # h => runtime[r].life # "open")
      BY <2>0, <2>2, <2>7
    <3>2. CASE r = h
      <4>1. generation \in Nat /\ runtime'[h].generation <= generation
        BY <2>0, <2>2, <3>1, <3>2 DEF RowOK, Frame
      <4> QED  BY <1>0, <2>0, <2>1, <2>2, <2>3, <3>1, <3>2, <4>1 DEF RowOK
    <3>3. CASE r # h
      BY <1>0, <2>0, <2>1, <2>2, <2>3, <3>1, <3>3 DEF RowOK
    <3> QED  BY <3>2, <3>3
  <2> QED  BY <1>0, <2>0, <2>4, <2>5, <2>6, <2>7, OutcomeKeeps
<1> QED  BY <1>1, <1>2

\* A resume that throws makes an agent no less ready.
LEMMA ReadyThrowsKeeps == ASSUME ManagerInv, NEW a \in Agents, ReadyThrows(a) PROVE ManagerInv'
<1>1. /\ lanes[a] # <<>> /\ step[a].pc = "probe" /\ Ends(a, TRUE) /\ UNCHANGED <<runtimes, runtime>>
      /\ "resume" \in failed' /\ generation' = generation /\ active' = active
      /\ connected' = connected /\ calls' = calls /\ closing' = closing
      /\ failed \subseteq failed' /\ readiness' = [readiness EXCEPT ![a] = "ready"]
  BY Awaiting DEF ReadyThrows, Fails, FailTogether, World
<1>2. failed' \subseteq Failures /\ Frame
  BY DEF ReadyThrows, Fails, FailTogether, ManagerInv, Frame
<1>3. Outcome(a)
  BY <1>1, <1>2 DEF Outcome, Frame
<1> QED  BY <1>1, <1>3, EndsOnly DEF Settled

--------------------------------------------------------------------------------
(* Steps of the gateway and of close *)

\* Steps that leave the map, the starts under way and the lives of runtimes alone.
Outside ==
  /\ UNCHANGED <<runtimes, readiness, step>>
  /\ closed => closed'
  /\ failed \subseteq failed'
  /\ \A r \in Runtimes : runtime'[r].agent = runtime[r].agent /\ runtime'[r].life = runtime[r].life
  /\ \A a \in Agents : lanes[a] # <<>> => lanes'[a] # <<>> /\ Head(lanes'[a]) = Head(lanes[a])

\* They keep what starts and the map rest on.
LEMMA OutsideKeeps ==
  ASSUME ManagerInv, Outside, Frame', WorldOK', \A r \in Runtimes : RowOK(r)', \A a \in Agents : ReadyOK(a)'
  PROVE  ManagerInv'
<1>1. ASSUME NEW a \in Agents PROVE StepOK(a)' /\ LoadedOK(a)'
  <2>1. AgentOK(a) /\ runtimes[a] \in Runtimes \cup {None}
    BY Before
  <2>2. runtimes' = runtimes /\ readiness' = readiness /\ step' = step
    BY DEF Outside
  <2>3. StepOK(a)'
    BY <2>1, <2>2 DEF AgentOK, StepOK, Outside
  <2>4. LoadedOK(a)'
    BY <2>1, <2>2 DEF AgentOK, LoadedOK, Outside
  <2> QED  BY <2>3, <2>4
<1> QED  BY <1>1 DEF ManagerInv, AgentOK

\* A runtime is in the map under its own agent.
LEMMA LoadedIs ==
  ASSUME ManagerInv, NEW r \in Runtimes
  PROVE  r \in Loaded <=> r = runtimes[runtime[r].agent]
<1>1. runtime[r].agent \in Agents /\ None \notin Runtimes
  BY Before DEF ManagerInv, Frame, RuntimeRow
<1>2. ASSUME r \in Loaded PROVE r = runtimes[runtime[r].agent]
  <2>1. PICK a \in Agents : runtimes[a] = r /\ r # None
    BY <1>2 DEF Loaded
  <2>2. LoadedOK(a)
    BY DEF ManagerInv, AgentOK
  <2> QED  BY <2>1, <2>2 DEF LoadedOK
<1> QED  BY <1>1, <1>2 DEF Loaded

\* All are suspended, whatever had been resumed of them.
LEMMA SuspendAllKeeps ==
  ASSUME ManagerInv, NEW rt \in [Runtimes -> RuntimeRow], ClearActivation,
         \A r \in Runtimes : /\ rt[r].agent = runtime[r].agent /\ rt[r].life = runtime[r].life
                             /\ rt[r].generation <= generation
                             /\ r \notin Loaded => rt[r] = runtime[r],
         runtime' = Suspended(rt, Loaded), connected' \in BOOLEAN,
         UNCHANGED <<runtimes, readiness, lanes, step, closing, calls>>,
         resumes' \in [Generations -> ResumeRow], failed \subseteq failed', failed' \subseteq Failures
  PROVE  ManagerInv'
<1>0. /\ generation' = generation + 1 /\ ~active' /\ active' \in BOOLEAN /\ generation \in Nat
      /\ runtimes' = runtimes /\ readiness' = readiness /\ lanes' = lanes /\ step' = step
      /\ closing' = closing /\ calls' = calls /\ (closed' <=> closed)
  BY DEF ClearActivation, closed, ManagerInv, Frame
<1>1. \A r \in Runtimes : Suspended(rt, Loaded)[r] \in RuntimeRow
  BY SuspendedIs
<1>2. runtime' \in [Runtimes -> RuntimeRow]
  BY <1>1 DEF Suspended
<1>3. ASSUME NEW r \in Runtimes
      PROVE  /\ runtime'[r].agent = runtime[r].agent /\ runtime'[r].life = runtime[r].life
             /\ runtime'[r].generation <= generation /\ ~runtime'[r].running
             /\ r \notin Loaded => runtime'[r].generation = runtime[r].generation
  <2>1. CASE r \in Loaded
    BY <2>1, SuspendedIs
  <2>2. CASE r \notin Loaded
    <3>1. Suspended(rt, Loaded)[r] = runtime[r]
      BY <2>2, SuspendedIs
    <3>2. ~runtime[r].running
      BY <2>2, LoadedIs DEF ManagerInv, RowOK
    <3>3. rt[r].generation <= generation
      OBVIOUS
    <3> QED  BY <2>2, <3>1, <3>2, <3>3
  <2> QED  BY <2>1, <2>2
<1>4. Frame'
  BY <1>0, <1>2 DEF ManagerInv, Frame
<1>5. Outside
  BY <1>0, <1>3 DEF Outside
<1>6. WorldOK'
  BY <1>0 DEF ManagerInv, WorldOK
<1>7. \A a \in Agents : ReadyOK(a)'
  BY <1>0 DEF ReadyOK, Settled
<1>8. ASSUME NEW r \in Runtimes PROVE RowOK(r)'
  <2>1. RowOK(r) /\ runtime'[r] \in RuntimeRow
    BY <1>2 DEF ManagerInv
  <2>2. runtime'[r].generation <= generation + 1
    BY <1>0, <1>3, <2>1, AgentsAssumption DEF RuntimeRow
  <2>3. r # runtimes[runtime[r].agent] => r \notin Loaded
    BY LoadedIs
  <2> QED  BY <1>0, <1>3, <2>1, <2>2, <2>3 DEF RowOK
<1> QED  BY <1>4, <1>5, <1>6, <1>7, <1>8, OutsideKeeps

\* The last socket is gone.
LEMMA DisconnectKeeps == ASSUME ManagerInv, Disconnect PROVE ManagerInv'
<1>1. /\ ClearActivation /\ runtime' = Suspended(runtime, Loaded) /\ connected' \in BOOLEAN
      /\ UNCHANGED <<runtimes, readiness, lanes, step, closing, calls>>
      /\ resumes' = resumes /\ failed' = failed
  BY DEF Disconnect
<1>2. /\ runtime \in [Runtimes -> RuntimeRow] /\ resumes \in [Generations -> ResumeRow]
      /\ failed \subseteq Failures /\ \A r \in Runtimes : runtime[r].generation <= generation
  BY DEF ManagerInv, Frame, RowOK
<1> QED  BY <1>1, <1>2, SuspendAllKeeps

\* A resume is over.
LEMMA ResumeOver ==
  ASSUME ManagerInv, NEW g \in Generations, resumes' = [resumes EXCEPT ![g] = NoResume]
  PROVE  /\ resumes' \in [Generations -> ResumeRow]
         /\ \A q \in Generations \ {g} : resumes'[q] = resumes[q]
<1>1. NoResume \in ResumeRow
  BY DEF NoResume, ResumeRow
<1> QED  BY <1>1 DEF ManagerInv, Frame

\* A resume that ends without effect leaves what was settled.
LEMMA OverIsQuiet ==
  ASSUME ManagerInv, NEW g \in Generations, resumes' = [resumes EXCEPT ![g] = NoResume], ~Current(g),
         UNCHANGED <<runtimes, readiness, lanes, step, runtime, generation, active, connected,
                     closing, calls, failed>>
  PROVE  ManagerInv'
<1>0. /\ runtimes' = runtimes /\ readiness' = readiness /\ lanes' = lanes /\ step' = step
      /\ runtime' = runtime /\ generation' = generation /\ active' = active
      /\ connected' = connected /\ closing' = closing /\ calls' = calls /\ failed' = failed
      /\ (closed' <=> closed)
  BY DEF closed
<1>1. Frame' /\ Outside
  BY <1>0, ResumeOver DEF ManagerInv, Frame, Outside
<1>2. WorldOK' /\ \A r \in Runtimes : RowOK(r)'
  BY <1>0 DEF ManagerInv, WorldOK, RowOK
<1>3. Settled' => Settled
  BY <1>0, ResumeOver DEF Settled, Current, ManagerInv, WorldOK
<1>4. \A a \in Agents : ReadyOK(a)'
  BY <1>0, <1>3 DEF ManagerInv, AgentOK, ReadyOK
<1> QED  BY <1>1, <1>2, <1>4, OutsideKeeps

\* An agent that did not start: all are suspended, unless the resume was overtaken.
LEMMA ResumeFailsKeeps == ASSUME ManagerInv, NEW g \in Generations, ResumeFails(g) PROVE ManagerInv'
<1>1. /\ resumes' = [resumes EXCEPT ![g] = NoResume]
      /\ UNCHANGED <<runtimes, readiness, lanes, step, connected, closing, calls, failed>>
  BY DEF ResumeFails
<1>2. CASE Current(g)
  <2>1. ClearActivation /\ runtime' = Suspended(runtime, Loaded)
    BY <1>2 DEF ResumeFails
  <2>2. /\ runtime \in [Runtimes -> RuntimeRow] /\ connected \in BOOLEAN
        /\ failed \subseteq Failures /\ \A r \in Runtimes : runtime[r].generation <= generation
    BY DEF ManagerInv, Frame, RowOK
  <2> QED  BY <1>1, <2>1, <2>2, ResumeOver, SuspendAllKeeps
<1>3. CASE ~Current(g)
  BY <1>1, <1>3, OverIsQuiet DEF ResumeFails
<1> QED  BY <1>2, <1>3

\* One of the runtimes throws: all are suspended again.
LEMMA ResumeAllThrowsKeeps == ASSUME ManagerInv, NEW g \in Generations, ResumeAllThrows(g) PROVE ManagerInv'
<1>1. PICK S \in SUBSET Routable : runtime' = Suspended(Resumed(runtime, S), Loaded)
  BY DEF ResumeAllThrows
<1>2. /\ resumes' = [resumes EXCEPT ![g] = NoResume] /\ ClearActivation
      /\ UNCHANGED <<runtimes, readiness, lanes, step, connected, closing, calls>>
      /\ failed \subseteq failed'
  BY DEF ResumeAllThrows, Fails, FailTogether
<1>3. failed' \subseteq Failures /\ connected \in BOOLEAN /\ Frame /\ WorldOK /\ generation \in Nat
  BY DEF ResumeAllThrows, Fails, FailTogether, ManagerInv, Frame
<1> DEFINE rt == Resumed(runtime, S)
<1>4. rt \in [Runtimes -> RuntimeRow]
  <2>1. \A r \in Runtimes : Resumed(runtime, S)[r] \in RuntimeRow
    BY <1>3, ResumedIs
  <2> QED  BY <2>1 DEF Resumed
<1>5. ASSUME NEW r \in Runtimes
      PROVE  /\ rt[r].agent = runtime[r].agent /\ rt[r].life = runtime[r].life
             /\ rt[r].generation <= generation
             /\ r \notin Loaded => rt[r] = runtime[r]
  <2>1. /\ rt[r].agent = runtime[r].agent /\ rt[r].life = runtime[r].life
        /\ rt[r] = runtime[r] \/ (r \in S /\ rt[r].generation = generation)
    BY <1>3, ResumedIs
  <2>2. S \subseteq Loaded
    BY DEF Routable, Loaded
  <2>3. runtime[r].generation <= generation
    BY DEF ManagerInv, RowOK
  <2> QED  BY <1>3, <2>1, <2>2, <2>3
<1>6. runtime' = Suspended(rt, Loaded)
  BY <1>1
<1> HIDE DEF rt
<1> QED  BY <1>2, <1>3, <1>4, <1>5, <1>6, ResumeOver, SuspendAllKeeps

\* All agents that are ready are resumed, unless the resume was overtaken.
LEMMA ResumeAllKeeps == ASSUME ManagerInv, NEW g \in Generations, ResumeAll(g) PROVE ManagerInv'
<1>0. /\ resumes' = [resumes EXCEPT ![g] = NoResume]
      /\ runtimes' = runtimes /\ readiness' = readiness /\ lanes' = lanes /\ step' = step
      /\ generation' = generation /\ active' = active
      /\ connected' = connected /\ closing' = closing /\ calls' = calls /\ failed' = failed
      /\ (closed' <=> closed)
  BY DEF ResumeAll, World, closed
<1>1. CASE ~Current(g)
  <2>1. runtime' = runtime
    BY <1>1 DEF ResumeAll
  <2> QED  BY <1>0, <1>1, <2>1, OverIsQuiet
<1>2. CASE Current(g)
  <2>1. runtime' = Resumed(runtime, Routable)
    BY <1>2 DEF ResumeAll
  <2>2. /\ active /\ generation \in Nat /\ WorldOK /\ Frame
    BY <1>2 DEF Current, ManagerInv, Frame
  <2>3. \A r \in Runtimes : runtime'[r] \in RuntimeRow
    BY <2>1, <2>2, ResumedIs
  <2>4. runtime' \in [Runtimes -> RuntimeRow]
    BY <2>1, <2>3 DEF Resumed
  <2>5. ASSUME NEW r \in Runtimes
        PROVE  /\ runtime'[r].agent = runtime[r].agent /\ runtime'[r].life = runtime[r].life
               /\ \/ runtime'[r] = runtime[r]
                  \/ /\ r \in Loaded /\ runtime'[r].generation = generation
                     /\ runtime'[r].running <=> runtime[r].life = "open"
               /\ r \in Routable => runtime'[r].generation = generation
    <3>1. Routable \subseteq Loaded
      BY DEF Routable, Loaded
    <3> QED  BY <2>1, <2>2, <3>1, ResumedIs
  <2>6. Frame'
    BY <1>0, <2>4, ResumeOver DEF ManagerInv, Frame
  <2>7. Outside
    BY <1>0, <2>5 DEF Outside
  <2>8. WorldOK'
    BY <1>0, <2>2 DEF WorldOK
  <2>9. ASSUME NEW a \in Agents PROVE ReadyOK(a)'
    <3>1. runtimes[a] # None /\ readiness[a] # "not_ready" =>
            runtimes[a] \in Routable /\ runtimes[a] \in Runtimes
      BY Before DEF Routable
    <3> QED  BY <1>0, <2>5, <3>1 DEF ReadyOK
  <2>10. ASSUME NEW r \in Runtimes PROVE RowOK(r)'
    <3>1. RowOK(r) /\ (r \in Loaded <=> r = runtimes[runtime[r].agent])
      BY LoadedIs DEF ManagerInv
    <3>2. CASE runtime'[r] = runtime[r]
      BY <1>0, <3>1, <3>2 DEF RowOK
    <3>3. CASE r \in Loaded /\ runtime'[r].generation = generation
               /\ (runtime'[r].running <=> runtime[r].life = "open")
      BY <1>0, <2>2, <2>5, <3>1, <3>3 DEF RowOK
    <3> QED  BY <2>5, <3>2, <3>3
  <2> QED  BY <2>6, <2>7, <2>8, <2>9, <2>10, OutsideKeeps
<1> QED  BY <1>1, <1>2

\* The first socket: a generation that no runtime has.
LEMMA ConnectKeeps == ASSUME ManagerInv, Connect PROVE ManagerInv'
<1> DEFINE x == [at |-> "next", left |-> {a \in Agents : readiness[a] # "none" \/ runtimes[a] # None}]
<1> DEFINE n == generation + 1
<1>0. /\ resumes' = [resumes EXCEPT ![n] = x] /\ generation' = n /\ active' /\ active' \in BOOLEAN
      /\ connected' /\ connected' \in BOOLEAN /\ ~closed /\ generation < MaxGeneration
      /\ runtimes' = runtimes /\ readiness' = readiness /\ lanes' = lanes /\ step' = step
      /\ runtime' = runtime /\ closing' = closing /\ calls' = calls /\ failed' = failed
      /\ ~closed'
  BY DEF Connect, closed
<1>1. n \in Generations /\ n \in Nat /\ generation \in Nat
  BY <1>0, AgentsAssumption DEF ManagerInv, Frame, Generations
<1>2. x \in ResumeRow /\ x.at = "next"
  BY DEF ResumeRow
<1>3. n > generation
  BY <1>1
<1> HIDE DEF n, x
<1>4. resumes' \in [Generations -> ResumeRow] /\ resumes'[n].at = "next"
  BY <1>0, <1>1, <1>2 DEF ManagerInv, Frame
<1>5. Frame'
  BY <1>0, <1>1, <1>4 DEF ManagerInv, Frame
<1>6. Outside /\ WorldOK'
  BY <1>0, <1>1 DEF Outside, ManagerInv, WorldOK, closed
<1>7. \A a \in Agents : ReadyOK(a)'
  BY <1>0, <1>4 DEF ReadyOK, Settled
<1>8. ASSUME NEW r \in Runtimes PROVE RowOK(r)'
  <2>1. RowOK(r) /\ runtime[r].generation \in Nat
    BY AgentsAssumption DEF ManagerInv, Frame, RuntimeRow
  <2>2. runtime[r].generation <= generation
    BY <2>1 DEF RowOK
  <2>3. runtime[r].generation <= n /\ runtime[r].generation # n
    BY <1>1, <1>3, <2>1, <2>2
  <2> QED  BY <1>0, <2>1, <2>3 DEF RowOK
<1> QED  BY <1>5, <1>6, <1>7, <1>8, OutsideKeeps

\* The next agent is started again, for the resume.
LEMMA RefreshNextKeeps == ASSUME ManagerInv, NEW g \in Generations, RefreshNext(g) PROVE ManagerInv'
<1>0. /\ runtimes' = runtimes /\ readiness' = readiness /\ step' = step
      /\ runtime' = runtime /\ generation' = generation /\ active' = active
      /\ connected' = connected /\ closing' = closing /\ calls' = calls /\ failed' = failed
      /\ (closed' <=> closed) /\ resumes[g].at = "next" /\ resumes[g] \in ResumeRow
      /\ resumes \in [Generations -> ResumeRow] /\ lanes \in [Agents -> Seq(Operation)]
  BY DEF RefreshNext, World, closed, ManagerInv, Frame
<1>1. PICK a \in resumes[g].left :
        IF closed
        THEN resumes' = [resumes EXCEPT ![g].left = @ \ {a}] /\ UNCHANGED lanes
        ELSE /\ resumes' = [resumes EXCEPT ![g] = [at |-> "waiting", left |-> @.left \ {a}]]
             /\ lanes' = [lanes EXCEPT ![a] = Append(@, [kind |-> "start", by |-> g])]
  BY DEF RefreshNext
<1>2. a \in Agents /\ resumes[g].left \ {a} \in SUBSET Agents
  BY <1>0, <1>1 DEF ResumeRow
<1>3. /\ resumes' \in [Generations -> ResumeRow] /\ resumes'[g].at # "none"
      /\ \A q \in Generations \ {g} : resumes'[q] = resumes[q]
  <2> DEFINE left == resumes[g].left \ {a}
  <2> DEFINE x == [resumes[g] EXCEPT !.left = left]
  <2> DEFINE y == [at |-> "waiting", left |-> left]
  <2>1. x \in ResumeRow /\ x.at = "next"
    BY <1>0, <1>2 DEF ResumeRow
  <2>2. y \in ResumeRow /\ y.at = "waiting"
    BY <1>2 DEF ResumeRow
  <2>3. resumes' = [resumes EXCEPT ![g] = x] \/ resumes' = [resumes EXCEPT ![g] = y]
    BY <1>1
  <2> HIDE DEF x, y
  <2> QED  BY <1>0, <2>1, <2>2, <2>3
<1>4. /\ lanes' \in [Agents -> Seq(Operation)]
      /\ \A b \in Agents : lanes[b] # <<>> => lanes'[b] # <<>> /\ Head(lanes'[b]) = Head(lanes[b])
      /\ closed => lanes' = lanes
  <2> DEFINE e == [kind |-> "start", by |-> g]
  <2>1. e \in Operation
    BY DEF Operation
  <2>2. lanes' = lanes \/ (~closed /\ lanes' = [lanes EXCEPT ![a] = Append(@, e)])
    BY <1>1
  <2> HIDE DEF e
  <2>3. CASE lanes' = lanes
    BY <1>0, <2>3
  <2>4. CASE ~closed /\ lanes' = [lanes EXCEPT ![a] = Append(@, e)]
    <3>1. lanes[a] \in Seq(Operation) /\ Append(lanes[a], e) \in Seq(Operation)
      BY <1>0, <1>2, <2>1
    <3>2. lanes' \in [Agents -> Seq(Operation)] /\ lanes'[a] = Append(lanes[a], e)
          /\ \A b \in Agents \ {a} : lanes'[b] = lanes[b]
      BY <1>0, <1>2, <2>4, <3>1
    <3>3. lanes[a] # <<>> => lanes'[a] # <<>> /\ Head(lanes'[a]) = Head(lanes[a])
      BY <2>1, <3>1, <3>2
    <3> QED  BY <2>4, <3>2, <3>3
  <2> QED  BY <2>2, <2>3, <2>4
<1>5. Frame' /\ Outside
  BY <1>0, <1>3, <1>4 DEF ManagerInv, Frame, Outside
<1>6. WorldOK' /\ \A r \in Runtimes : RowOK(r)'
  BY <1>0, <1>4 DEF ManagerInv, WorldOK, RowOK, closed
<1>7. Settled' => Settled
  BY <1>0, <1>3 DEF Settled, ManagerInv, WorldOK
<1>8. \A b \in Agents : ReadyOK(b)'
  BY <1>0, <1>7 DEF ManagerInv, AgentOK, ReadyOK
<1> QED  BY <1>5, <1>6, <1>8, OutsideKeeps

\* Close ends the activation and waits.
LEMMA CloseKeeps == ASSUME ManagerInv, Close PROVE ManagerInv'
<1>0. /\ runtimes' = runtimes /\ readiness' = readiness /\ lanes' = lanes /\ step' = step
      /\ runtime' = runtime /\ connected' = connected /\ resumes' = resumes /\ calls' = calls
      /\ failed' = failed /\ closing' = "waiting" /\ closed' /\ ~active' /\ active' \in BOOLEAN
      /\ generation' = generation + 1 /\ generation \in Nat
  BY DEF Close, ClearActivation, closed, ManagerInv, Frame
<1>1. Frame' /\ Outside /\ WorldOK'
  BY <1>0 DEF ManagerInv, Frame, Outside, WorldOK
<1>2. \A a \in Agents : ReadyOK(a)'
  BY <1>0 DEF ReadyOK, Settled
<1>3. ASSUME NEW r \in Runtimes PROVE RowOK(r)'
  <2>1. RowOK(r) /\ runtime[r].generation \in Nat
    BY AgentsAssumption DEF ManagerInv, Frame, RuntimeRow
  <2> QED  BY <1>0, <2>1 DEF RowOK
<1> QED  BY <1>1, <1>2, <1>3, OutsideKeeps

\* The lanes have run out: what is open is in the map, and is closed or stays in it.
LEMMA CloseAllKeeps == ASSUME ManagerInv, CloseAll PROVE ManagerInv'
<1>1. PICK S \in SUBSET Loaded :
        /\ IF S = {} THEN UNCHANGED failed ELSE Fails("close")
        /\ runtime' = Shut(runtime, Loaded \ S)
        /\ runtimes' = [a \in Agents |-> IF runtimes[a] \in S THEN runtimes[a] ELSE None]
        /\ readiness' = IF S = {} THEN [a \in Agents |-> "none"] ELSE readiness
        /\ closing' = IF S = {} /\ closing = "waiting" THEN "done" ELSE "failed"
  BY DEF CloseAll, CloseLoaded
<1>0. /\ lanes' = lanes /\ step' = step /\ generation' = generation /\ active' = active
      /\ connected' = connected /\ resumes' = resumes /\ calls' = calls
      /\ (\A a \in Agents : lanes[a] = <<>>) /\ closed /\ Frame /\ None \notin Runtimes
  BY Before DEF CloseAll, CloseLoaded, closed, ManagerInv, Runtimes, None
<1>2. ~active /\ closed' /\ failed \subseteq failed' /\ failed' \subseteq Failures
  BY <1>0, <1>1 DEF ManagerInv, WorldOK, closed, Fails, FailTogether, Frame
<1>3. \A r \in Runtimes : Shut(runtime, Loaded \ S)[r] \in RuntimeRow
  BY <1>0, ShutIs
<1>4. runtime' \in [Runtimes -> RuntimeRow]
  BY <1>1, <1>3 DEF Shut
<1>5. ASSUME NEW r \in Runtimes
      PROVE  /\ runtime'[r].agent = runtime[r].agent /\ runtime'[r].generation = runtime[r].generation
             /\ r \notin Loaded \ S => runtime'[r] = runtime[r]
             /\ r \in Loaded \ S => runtime'[r].life = "closed" /\ ~runtime'[r].running
  <2>1. CASE r \in Loaded \ S
    BY <1>0, <1>1, <2>1, ShutIs
  <2>2. CASE r \notin Loaded \ S
    <3>1. Shut(runtime, Loaded \ S)[r] = runtime[r]
      BY <1>0, <2>2, ShutIs
    <3> QED  BY <1>1, <2>2, <3>1
  <2> QED  BY <2>1, <2>2
<1>6. /\ runtimes' \in [Agents -> Runtimes \cup {None}]
      /\ \A a \in Agents : runtimes'[a] = IF runtimes[a] \in S THEN runtimes[a] ELSE None
  BY <1>0, <1>1 DEF Frame
<1>7. readiness' \in [Agents -> {"none", "ready", "not_ready"}]
  BY <1>0, <1>1 DEF Frame
<1>8. Frame'
  <2>1. closing' \in {"failed", "done"}
    BY <1>1
  <2> QED  BY <1>0, <1>2, <1>4, <1>6, <1>7, <2>1 DEF Frame
<1>9. ASSUME NEW a \in Agents PROVE AgentOK(a)'
  <2>0. AgentOK(a) /\ step[a].pc = "idle" /\ runtimes[a] \in Runtimes \cup {None}
    BY <1>0, Before DEF AgentOK, StepOK
  <2>1. StepOK(a)'
    BY <1>0, <2>0 DEF AgentOK, StepOK
  <2>2. runtimes'[a] # None => runtimes'[a] = runtimes[a] /\ runtime'[runtimes[a]] = runtime[runtimes[a]]
    BY <1>5, <1>6, <2>0
  <2>3. LoadedOK(a)'
    BY <1>2, <2>0, <2>2 DEF AgentOK, LoadedOK
  <2>4. ReadyOK(a)'
    BY <1>0, <1>2 DEF ReadyOK, Settled
  <2> QED  BY <2>1, <2>3, <2>4 DEF AgentOK
<1>10. ASSUME NEW r \in Runtimes PROVE RowOK(r)'
  <2> DEFINE a == runtime[r].agent
  <2>0. /\ RowOK(r) /\ a \in Agents /\ runtime'[r].agent = a
        /\ r \in Loaded <=> r = runtimes[a]
    BY <1>0, <1>5, LoadedIs DEF ManagerInv, Frame, RuntimeRow
  <2>1. step[a].created = None
    BY <1>0, <2>0, Before DEF AgentOK, StepOK
  <2> HIDE DEF a
  <2>2. CASE r \in Loaded \ S
    BY <1>0, <1>2, <1>5, <2>0, <2>2 DEF RowOK, a
  <2>3. CASE r \notin Loaded \ S /\ r \in Loaded
    <3>1. runtimes'[a] = r /\ runtime'[r] = runtime[r]
      BY <1>5, <1>6, <2>0, <2>3
    <3> QED  BY <1>0, <1>2, <2>0, <3>1 DEF RowOK, a
  <2>4. CASE r \notin Loaded
    <3>1. runtime'[r] = runtime[r] /\ r # runtimes[a]
      BY <1>5, <2>0, <2>4
    <3> QED  BY <1>0, <1>2, <2>0, <2>1, <3>1 DEF RowOK, a
  <2> QED  BY <2>2, <2>3, <2>4
<1>11. WorldOK'
  <2>1. closing' = "done" => S = {}
    BY <1>1
  <2> QED  BY <1>0, <1>2, <1>6, <2>1 DEF WorldOK
<1> QED  BY <1>8, <1>9, <1>10, <1>11 DEF ManagerInv

--------------------------------------------------------------------------------
(* The theorems *)

\* Nothing is loaded in the beginning.
LEMMA InitInv == ManagerInit => ManagerInv
<1> SUFFICES ASSUME ManagerInit PROVE ManagerInv
  OBVIOUS
<1>0. /\ MaxRuntimes \in Nat /\ MaxCalls \in Nat /\ MaxGeneration \in Nat /\ Default \in Agents
      /\ None \notin Runtimes
  BY AgentsAssumption DEF Runtimes, None
<1>1. /\ NoStep \in StepRow /\ NoStep.pc = "idle" /\ NoStep.created = None
  BY DEF NoStep, StepRow
<1>2. NoResume \in ResumeRow
  BY DEF NoResume, ResumeRow
<1>3. /\ NoRuntime \in RuntimeRow /\ NoRuntime.agent = Default /\ NoRuntime.life = "new"
      /\ ~NoRuntime.running /\ NoRuntime.generation = 0
  <2> DEFINE z(g, b) == [agent |-> Default, life |-> "new", running |-> b, generation |-> g]
  <2>1. \A g \in 0 .. MaxGeneration, b \in BOOLEAN :
          /\ z(g, b) \in RuntimeRow /\ z(g, b).agent = Default /\ z(g, b).life = "new"
          /\ z(g, b).running = b /\ z(g, b).generation = g
    BY <1>0 DEF RuntimeRow
  <2>2. NoRuntime = z(0, FALSE) /\ 0 \in 0 .. MaxGeneration
    BY <1>0 DEF NoRuntime
  <2> HIDE DEF z
  <2> QED  BY <2>1, <2>2
<1>4. /\ \A a \in Agents : runtimes[a] = None /\ lanes[a] = <<>> /\ step[a] = NoStep
      /\ \A r \in Runtimes : runtime[r] = NoRuntime
      /\ generation = 0 /\ ~active /\ closing = "no" /\ failed = {}
  BY DEF ManagerInit
<1>5. Frame
  <2>1. /\ runtimes \in [Agents -> Runtimes \cup {None}] /\ step \in [Agents -> StepRow]
        /\ readiness \in [Agents -> {"none", "ready", "not_ready"}]
        /\ lanes \in [Agents -> Seq(Operation)]
    BY <1>1 DEF ManagerInit
  <2>2. runtime \in [Runtimes -> RuntimeRow] /\ resumes \in [Generations -> ResumeRow]
    BY <1>2, <1>3 DEF ManagerInit
  <2>3. active \in BOOLEAN /\ connected \in BOOLEAN
    BY DEF ManagerInit
  <2>4. calls \in 0 .. MaxCalls /\ generation \in Nat
    BY <1>0 DEF ManagerInit
  <2> QED  BY <1>4, <2>1, <2>2, <2>3, <2>4 DEF Frame
<1>6. \A a \in Agents : AgentOK(a)
  BY <1>1, <1>4 DEF AgentOK, StepOK, LoadedOK, ReadyOK
<1>7. \A r \in Runtimes : RowOK(r)
  BY <1>0, <1>3, <1>4 DEF RowOK
<1>8. WorldOK
  BY <1>4 DEF WorldOK
<1> QED  BY <1>5, <1>6, <1>7, <1>8 DEF ManagerInv

\* Every step keeps the invariant.
LEMMA StepInv == ManagerInv /\ [ManagerNext]_managerVars => ManagerInv'
<1> SUFFICES ASSUME ManagerInv, [ManagerNext]_managerVars PROVE ManagerInv'
  OBVIOUS
<1>1. CASE UNCHANGED managerVars
  <2>0. /\ runtimes' = runtimes /\ readiness' = readiness /\ lanes' = lanes /\ step' = step
        /\ runtime' = runtime /\ generation' = generation /\ active' = active
        /\ connected' = connected /\ resumes' = resumes /\ closing' = closing
        /\ calls' = calls /\ failed' = failed /\ (closed' <=> closed)
    BY <1>1 DEF managerVars, closed
  <2>1. Frame' /\ Outside
    BY <2>0 DEF ManagerInv, Frame, Outside
  <2>2. WorldOK' /\ \A r \in Runtimes : RowOK(r)'
    BY <2>0 DEF ManagerInv, WorldOK, RowOK
  <2>3. \A a \in Agents : ReadyOK(a)'
    BY <2>0 DEF ManagerInv, AgentOK, ReadyOK, Settled
  <2> QED  BY <2>1, <2>2, <2>3, OutsideKeeps
<1>2. CASE Connect \/ Disconnect \/ Close \/ CloseAll
  BY <1>2, ConnectKeeps, DisconnectKeeps, CloseKeeps, CloseAllKeeps
<1>3. ASSUME NEW g \in Generations,
             RefreshNext(g) \/ ResumeAll(g) \/ ResumeAllThrows(g) \/ ResumeFails(g)
      PROVE  ManagerInv'
  BY <1>3, RefreshNextKeeps, ResumeAllKeeps, ResumeAllThrowsKeeps, ResumeFailsKeeps
<1>4. ASSUME NEW a \in Agents, Call(a, "start") \/ Call(a, "stop") PROVE ManagerInv'
  BY <1>4, CallKeeps
<1>5. ASSUME NEW a \in Agents,
             \/ BeginStart(a) \/ Probed(a) \/ Created(a) \/ CreateFails(a)
             \/ Initialised(a) \/ InitialiseFails(a) \/ ReadyThrows(a) \/ ResumeThrows(a)
             \/ InitialisedThrows(a) \/ InitialiseAbandons(a)
             \/ StopAgent(a) \/ NotReadyThrows(a) \/ StopThrows(a)
      PROVE  ManagerInv'
  BY <1>5, BeginStartKeeps, ProbedKeeps, CreatedKeeps, CreateFailsKeeps, InitialisedKeeps,
     InitialiseFailsKeeps, ReadyThrowsKeeps, ResumeThrowsKeeps, InitialisedThrowsKeeps,
     InitialiseAbandonsKeeps, StopAgentKeeps, NotReadyThrowsKeeps, StopThrowsKeeps
<1> QED  BY <1>1, <1>2, <1>3, <1>4, <1>5 DEF ManagerNext

\* The invariant of the proofs: what the first operation of a lane has read is still
\* so; a runtime that its agent's entry does not name, and that is not being
\* initialised, is closed or untouched; nobody is resumed for a connection to come,
\* and who was resumed for this one runs.
THEOREM RuntimeInvariance == ManagerSpec => []ManagerInv
<1> QED  BY InitInv, StepInv, PTL DEF ManagerSpec

\* The map and the runtimes agree: nothing open outside it, nothing closed behind an
\* agent that is offered to messages.
THEOREM RuntimesAreAccounted == ManagerSpec => []RuntimesAccounted
<1>1. ManagerInv => RuntimesAccounted
  <2> SUFFICES ASSUME ManagerInv PROVE RuntimesAccounted
    OBVIOUS
  <2>1. Frame /\ (\A a \in Agents : AgentOK(a)) /\ \A r \in Runtimes : RowOK(r)
    BY DEF ManagerInv
  <2>2. AgentsTypeOK
    <3>1. \A a \in Agents : step[a].pc \in {"idle", "probe", "config", "initialize"}
      BY <2>1 DEF Frame, StepRow
    <3>2. \A a \in Agents : runtimes[a] # None =>
            runtime[runtimes[a]].agent = a /\ runtime[runtimes[a]].life # "new"
      BY <2>1 DEF AgentOK, LoadedOK
    <3>3. \A a \in Agents : step[a].pc # "idle" => lanes[a] # <<>>
      BY <2>1 DEF AgentOK, StepOK
    <3> QED  BY <2>1, <3>1, <3>2, <3>3 DEF Frame, AgentsTypeOK, RuntimeRow, ResumeRow
  <2>3. NoStrayRuntime
    BY <2>1 DEF NoStrayRuntime, RowOK
  <2>4. RoutableIsOpen
    BY <2>1 DEF RoutableIsOpen, AgentOK, LoadedOK
  <2> QED  BY <2>2, <2>3, <2>4 DEF RuntimesAccounted
<1> QED  BY <1>1, RuntimeInvariance, PTL

\* The orchestrators follow the connection: none runs without one, and when all is
\* quiet every agent that is offered runs for the present one.
THEOREM OrchestratorsAreLed == ManagerSpec => []OrchestratorsFollow
<1>1. ManagerInv => OrchestratorsFollow
  <2> SUFFICES ASSUME ManagerInv PROVE OrchestratorsFollow
    OBVIOUS
  <2>1. WorldOK /\ (\A a \in Agents : AgentOK(a)) /\ \A r \in Runtimes : RowOK(r)
    BY DEF ManagerInv
  <2>2. Loaded \subseteq Runtimes
    BY Before DEF Loaded
  <2>3. SuspensionWins
    BY <2>1, <2>2 DEF SuspensionWins, WorldOK, RowOK
  <2>4. ASSUME Quiet, active, "resume" \notin failed, NEW r \in Routable, runtime[r].life = "open"
        PROVE  runtime[r].running /\ runtime[r].generation = generation
    <3>1. Settled
      BY <2>1, <2>4 DEF Settled, Quiet, WorldOK
    <3>2. PICK a \in Agents : runtimes[a] = r /\ readiness[a] # "not_ready" /\ r # None
      BY DEF Routable
    <3>3. runtime[r].generation = generation
      BY <2>1, <2>4, <3>1, <3>2 DEF AgentOK, ReadyOK
    <3>4. r \in Runtimes
      BY <2>2, <3>2 DEF Loaded
    <3> QED  BY <2>1, <2>4, <3>3, <3>4 DEF RowOK
  <2>5. EveryoneResumed
    BY <2>4 DEF EveryoneResumed
  <2> QED  BY <2>3, <2>5 DEF OrchestratorsFollow
<1> QED  BY <1>1, RuntimeInvariance, PTL

\* After close has returned nothing is open, whatever it found under way.
THEOREM ClosedStays == ManagerSpec => []ClosedForGood
<1>1. ManagerInv => ClosedForGood
  <2> SUFFICES ASSUME ManagerInv, closing = "done"
               PROVE  Loaded = {} /\ \A r \in Runtimes : runtime[r].life # "open"
    BY DEF ClosedForGood
  <2>1. \A a \in Agents : runtimes[a] = None /\ step[a].created = None
    BY DEF ManagerInv, WorldOK, AgentOK, StepOK
  <2>2. ASSUME NEW r \in Runtimes PROVE runtime[r].life # "open"
    <3>1. RowOK(r) /\ runtime[r].agent \in Agents /\ r # None
      BY Before DEF ManagerInv, Frame, RuntimeRow
    <3> QED  BY <2>1, <3>1 DEF RowOK
  <2> QED  BY <2>1, <2>2 DEF Loaded
<1> QED  BY <1>1, RuntimeInvariance, PTL

--------------------------------------------------------------------------------
(* Reply intake: the words of its invariant                                     *)

Entry == Messages \cup {Assistant}
Snapshot == Messages \X (1..MaxRecord)

Named(body) == {s[1] : s \in body}

\* The snapshot is recorded at its captured sequence, or is the next one to be.
At(rec, s) == s[2] \in DOMAIN rec /\ rec[s[2]] = s[1]
Upcoming(rec, s) == s[2] = Len(rec) + 1 /\ s[1] \notin Entries(rec)

Extends(rec, ext) ==
  Len(rec) <= Len(ext) /\ \A i \in DOMAIN rec : ext[i] = rec[i]

NoRepeat(rec) == \A i, j \in DOMAIN rec : (rec[i] = rec[j] /\ rec[i] # Assistant) => i = j

\* What a snapshot consists of.
LEMMA SnapshotParts ==
  ASSUME NEW s \in Snapshot
  PROVE  s = <<s[1], s[2]>> /\ s[1] \in Messages /\ s[2] \in Nat /\ s[2] > 0 /\ s[2] <= MaxRecord
         /\ s[1] # Assistant
BY IntakeAssumption DEF Snapshot

\* A payload that is not empty has an earliest and a latest snapshot.
LEMMA Extremes ==
  ASSUME NEW body \in SUBSET Snapshot, body # {}
  PROVE  /\ Earliest(body) \in body /\ \A t \in body : Earliest(body)[2] <= t[2]
         /\ Latest(body) \in body /\ \A t \in body : t[2] <= Latest(body)[2]
<1> DEFINE less == OpToRel(<, Nat)
           up == {s[2] : s \in body}
           down == {MaxRecord - s[2] : s \in body}
<1>m. MaxRecord \in Nat
  BY IntakeAssumption
<1>0. \A s \in body : s[2] \in Nat /\ MaxRecord - s[2] \in Nat
  BY SnapshotParts, <1>m
<1>1. IsWellFoundedOn(less, Nat)
  BY NatLessThanWellFounded
<1>2. \A t, u \in Nat : ~(<<u, t>> \in less) => t <= u
  BY DEF OpToRel
<1> HIDE DEF less
<1>3. up \in SUBSET Nat /\ up # {} /\ down \in SUBSET Nat /\ down # {}
  BY <1>0
<1>4. \E t \in up : \A u \in up : ~(<<u, t>> \in less)
  BY <1>1, <1>3, WFMin
<1>5. \E t \in down : \A u \in down : ~(<<u, t>> \in less)
  BY <1>1, <1>3, WFMin
<1>6. \E s \in body : \A t \in body : s[2] <= t[2]
  <2>1. \E t \in up : \A u \in up : t <= u
    BY <1>2, <1>3, <1>4
  <2> QED  BY <2>1
<1>7. \E s \in body : \A t \in body : t[2] <= s[2]
  <2>1. PICK t \in down : \A u \in down : t <= u
    BY <1>2, <1>3, <1>5
  <2>2. PICK s \in body : t = MaxRecord - s[2]
    OBVIOUS
  <2>3. \A u \in body : MaxRecord - s[2] <= MaxRecord - u[2]
    BY <2>1, <2>2
  <2>4. \A u \in body : u[2] <= s[2]
    BY <2>3, <1>0, <1>m
  <2> QED  BY <2>4
<1> QED  BY <1>6, <1>7 DEF Earliest, Latest

\* The first snapshot is the only one that precedes all the others.
LEMMA EarliestIs ==
  ASSUME NEW body \in SUBSET Snapshot, NEW s \in body, \A t \in body : s[2] <= t[2],
         \A t, u \in body : (t[1] = u[1]) <=> (t[2] = u[2])
  PROVE  Earliest(body) = s
<1>1. Earliest(body) \in body /\ Earliest(body)[2] <= s[2]
  BY Extremes
<1>2. s[2] <= Earliest(body)[2]
  BY <1>1
<1>3. s[2] = Earliest(body)[2]
  BY <1>1, <1>2, SnapshotParts
<1>4. s[1] = Earliest(body)[1]
  BY <1>1, <1>3
<1> QED  BY <1>1, <1>3, <1>4, SnapshotParts

\* An entry is appended behind the others.
LEMMA AppendRecord ==
  ASSUME NEW rec \in Seq(Entry), NEW x \in Entry
  PROVE  /\ Append(rec, x) \in Seq(Entry) /\ Extends(rec, Append(rec, x))
         /\ Len(Append(rec, x)) = Len(rec) + 1 /\ Append(rec, x)[Len(rec) + 1] = x
         /\ DOMAIN Append(rec, x) = 1..Len(rec) + 1
         /\ Entries(Append(rec, x)) = Entries(rec) \cup {x}
         /\ NoRepeat(rec) /\ (x \notin Entries(rec) \/ x = Assistant) => NoRepeat(Append(rec, x))
<1>1. /\ Append(rec, x) \in Seq(Entry) /\ DOMAIN Append(rec, x) = 1..Len(rec) + 1
      /\ DOMAIN rec = 1..Len(rec) /\ Len(rec) \in Nat
      /\ Len(Append(rec, x)) = Len(rec) + 1
      /\ \A i \in 1..Len(rec) : Append(rec, x)[i] = rec[i]
      /\ Append(rec, x)[Len(rec) + 1] = x
  OBVIOUS
<1>2. \A i \in 1..Len(rec) + 1 : i \in 1..Len(rec) \/ i = Len(rec) + 1
  BY <1>1
<1>3. \A i \in 1..Len(rec) : i \in 1..Len(rec) + 1
  BY <1>1
<1>4. Len(rec) + 1 \in 1..Len(rec) + 1
  BY <1>1
<1>5. Entries(Append(rec, x)) = Entries(rec) \cup {x}
  <2>1. Entries(Append(rec, x)) \subseteq Entries(rec) \cup {x}
    BY <1>1, <1>2 DEF Entries
  <2>2. Entries(rec) \cup {x} \subseteq Entries(Append(rec, x))
    BY <1>1, <1>3, <1>4 DEF Entries
  <2> QED  BY <2>1, <2>2
<1>6. NoRepeat(rec) /\ (x \notin Entries(rec) \/ x = Assistant) => NoRepeat(Append(rec, x))
  BY <1>1, <1>2 DEF NoRepeat, Entries
<1>7. Extends(rec, Append(rec, x))
  BY <1>1 DEF Extends
<1> QED  BY <1>1, <1>5, <1>6, <1>7

\* What is at its sequence stays there.
LEMMA ExtendsKeeps ==
  ASSUME NEW rec \in Seq(Entry), NEW ext \in Seq(Entry), Extends(rec, ext)
  PROVE  /\ \A i \in DOMAIN rec : i \in DOMAIN ext /\ ext[i] = rec[i]
         /\ Entries(rec) \subseteq Entries(ext)
         /\ \A s : At(rec, s) => At(ext, s)
<1>1. DOMAIN rec = 1..Len(rec) /\ DOMAIN ext = 1..Len(ext) /\ Len(rec) \in Nat /\ Len(ext) \in Nat
  OBVIOUS
<1>2. \A i \in DOMAIN rec : i \in DOMAIN ext /\ ext[i] = rec[i]
  BY <1>1 DEF Extends
<1> QED  BY <1>2 DEF Entries, At

LEMMA ExtendsTransitive ==
  ASSUME NEW a \in Seq(Entry), NEW b \in Seq(Entry), NEW c \in Seq(Entry), Extends(a, b), Extends(b, c)
  PROVE  Extends(a, c)
<1>1. \A i \in DOMAIN a : i \in DOMAIN b
  BY ExtendsKeeps
<1> QED  BY <1>1 DEF Extends

\* Snapshots that pass recoverSnapshots are recorded behind what was there, each
\* message once and each at its captured sequence.
LEMMA RecoveredFacts ==
  ASSUME NEW rec \in Seq(Entry), NEW snaps \in SUBSET Snapshot, Recoverable(rec, snaps)
  PROVE  /\ Recovered(rec, snaps) \in Seq(Entry)
         /\ Extends(rec, Recovered(rec, snaps))
         /\ NoRepeat(rec) => NoRepeat(Recovered(rec, snaps))
         /\ \A s \in Fresh(rec, snaps) : At(Recovered(rec, snaps), s)
         /\ Entries(Recovered(rec, snaps)) \subseteq Entries(rec) \cup Named(snaps)
<1> DEFINE fresh == Fresh(rec, snaps)
           k == Cardinality(fresh)
           before(s) == {t \in fresh : t[2] < s[2]}
           tail == [i \in 1..k |-> CHOOSE m \in Messages : <<m, Len(rec) + i>> \in fresh]
<1>1. /\ fresh \subseteq snaps /\ fresh \subseteq Ahead(rec, snaps)
      /\ \A s \in fresh : s \in Snapshot /\ s[1] \notin Entries(rec) /\ s[2] > Len(rec)
      /\ \A s, t \in fresh : s[1] = t[1] => s[2] <= t[2]
  BY DEF Fresh, Ahead, Unique
<1>2. /\ \A s \in fresh : s[2] = Len(rec) + 1 + Cardinality(before(s))
      /\ \A s, t \in fresh : s[2] = t[2] => s = t
  BY <1>1 DEF Recoverable
<1> HIDE DEF fresh
<1>3. Len(rec) \in Nat /\ DOMAIN rec = 1..Len(rec) /\ MaxRecord \in Nat
  BY IntakeAssumption
<1>4. IsFiniteSet(fresh)
  <2> DEFINE f == [s \in fresh |-> s[2]]
  <2>1. f \in [fresh -> 1..MaxRecord]
    BY <1>1, <1>3, SnapshotParts
  <2>2. f \in Injection(fresh, 1..MaxRecord)
    BY <2>1, <1>2 DEF Injection, IsInjective
  <2>3. IsFiniteSet(1..MaxRecord)
    BY <1>3, FS_Interval
  <2> QED  BY <2>2, <2>3, FS_Injection
<1>5. k \in Nat
  BY <1>4, FS_CardinalityType
<1>6. \A s \in fresh : s[2] - Len(rec) \in 1..k
  <2> SUFFICES ASSUME NEW s \in fresh PROVE s[2] - Len(rec) \in 1..k
    OBVIOUS
  <2>0. s[2] \in Nat
    BY <1>1, SnapshotParts
  <2>1. before(s) \in SUBSET (fresh \ {s})
    BY <2>0
  <2>2. IsFiniteSet(fresh \ {s}) /\ Cardinality(fresh \ {s}) = k - 1
    BY <1>4, FS_RemoveElement
  <2>3. Cardinality(before(s)) <= k - 1 /\ IsFiniteSet(before(s))
    BY <2>1, <2>2, FS_Subset
  <2>4. Cardinality(before(s)) \in Nat
    BY <2>3, FS_CardinalityType
  <2>5. s[2] = Len(rec) + 1 + Cardinality(before(s))
    BY <1>2
  <2> HIDE DEF before, k
  <2> QED  BY <1>3, <1>5, <2>3, <2>4, <2>5
<1>7. \A i \in 1..k : \E s \in fresh : s[2] = Len(rec) + i
  <2> DEFINE g == [s \in fresh |-> s[2] - Len(rec)]
  <2>1. g \in [fresh -> 1..k]
    BY <1>6
  <2>2. \A s, t \in fresh : s[2] - Len(rec) = t[2] - Len(rec) => s = t
    <3>1. \A s \in fresh : s[2] \in Nat
      BY <1>1, SnapshotParts
    <3>2. \A s, t \in fresh : s[2] - Len(rec) = t[2] - Len(rec) => s[2] = t[2]
      BY <3>1, <1>3
    <3> QED  BY <3>2, <1>2
  <2>3. g \in Injection(fresh, 1..k)
    BY <2>1, <2>2 DEF Injection, IsInjective
  <2>4. IsFiniteSet(1..k) /\ Cardinality(1..k) = k
    BY <1>5, FS_Interval
  <2>5. g \in Surjection(fresh, 1..k)
    BY <2>3, <2>4, FS_Injection
  <2>6. \A i \in 1..k : \E s \in fresh : s[2] - Len(rec) = i
    BY <2>5 DEF Surjection
  <2>7. \A s \in fresh : s[2] \in Nat
    BY <1>1, SnapshotParts
  <2> HIDE DEF k
  <2>8. \A s \in fresh, i \in 1..k : s[2] - Len(rec) = i => s[2] = Len(rec) + i
    <3> SUFFICES ASSUME NEW s \in fresh, NEW i \in 1..k, s[2] - Len(rec) = i
                 PROVE  s[2] = Len(rec) + i
      OBVIOUS
    <3>1. s[2] \in Nat /\ i \in Nat
      BY <2>7, <1>5
    <3> QED  BY <3>1, <1>3
  <2> QED  BY <2>6, <2>8
<1>8. \A i \in 1..k : tail[i] \in Messages /\ <<tail[i], Len(rec) + i>> \in fresh
  <2> SUFFICES ASSUME NEW i \in 1..k
               PROVE  tail[i] \in Messages /\ <<tail[i], Len(rec) + i>> \in fresh
    OBVIOUS
  <2>1. PICK s \in fresh : s[2] = Len(rec) + i
    BY <1>7
  <2>2. s = <<s[1], Len(rec) + i>> /\ s[1] \in Messages
    BY <2>1, <1>1, SnapshotParts
  <2>3. \E m \in Messages : <<m, Len(rec) + i>> \in fresh
    BY <2>2
  <2> QED  BY <2>3
<1>9. tail \in Seq(Messages) /\ Len(tail) = k
  <2>1. tail \in [1..k -> Messages]
    BY <1>8
  <2> HIDE DEF tail
  <2> QED  BY <2>1, <1>5
<1>10. Recovered(rec, snaps) = rec \o tail
  BY DEF Recovered, fresh
<1> DEFINE ext == rec \o tail
<1> HIDE DEF tail, k
<1>11. /\ ext \in Seq(Entry) /\ Len(ext) = Len(rec) + k /\ DOMAIN ext = 1..Len(rec) + k
       /\ \A i \in 1..Len(rec) : ext[i] = rec[i]
       /\ \A i \in 1..k : ext[Len(rec) + i] = tail[i]
  <2>1. tail \in Seq(Entry) /\ Len(tail) = k
    <3>1. tail \in Seq(Messages) /\ Messages \subseteq Entry
      BY <1>9 DEF Entry
    <3>2. DOMAIN tail = 1..Len(tail) /\ Len(tail) \in Nat /\ \A i \in 1..Len(tail) : tail[i] \in Entry
      BY <3>1
    <3> QED  BY <3>1, <3>2, <1>9
  <2>2. ext \in Seq(Entry) /\ Len(ext) = Len(rec) + k /\ DOMAIN ext = 1..Len(ext)
    BY <2>1
  <2>3. \A i \in 1..Len(rec) + k : ext[i] = IF i <= Len(rec) THEN rec[i] ELSE tail[i - Len(rec)]
    BY <2>1
  <2>4. \A i \in 1..Len(rec) : i \in 1..Len(rec) + k
    BY <1>3, <1>5
  <2>5. \A i \in 1..k : Len(rec) + i \in 1..Len(rec) + k /\ ~(Len(rec) + i <= Len(rec))
                        /\ Len(rec) + i - Len(rec) = i
    BY <1>3, <1>5
  <2> QED  BY <2>2, <2>3, <2>4, <2>5
<1> HIDE DEF ext
<1>12. \A i \in DOMAIN ext : i \in 1..Len(rec) \/ \E j \in 1..k : i = Len(rec) + j
  <2> SUFFICES ASSUME NEW i \in 1..Len(rec) + k
               PROVE  i \in 1..Len(rec) \/ \E j \in 1..k : i = Len(rec) + j
    BY <1>11
  <2>1. CASE i <= Len(rec)
    BY <2>1
  <2>2. CASE ~(i <= Len(rec))
    <3>1. i - Len(rec) \in 1..k /\ i = Len(rec) + (i - Len(rec))
      BY <2>2, <1>3, <1>5
    <3> QED  BY <3>1
  <2> QED  BY <2>1, <2>2
<1>13. Extends(rec, ext)
  BY <1>3, <1>5, <1>11 DEF Extends
<1>14. \A i \in 1..k : tail[i] \notin Entries(rec) /\ tail[i] # Assistant
  <2> SUFFICES ASSUME NEW i \in 1..k PROVE tail[i] \notin Entries(rec) /\ tail[i] # Assistant
    OBVIOUS
  <2>1. <<tail[i], Len(rec) + i>> \in fresh /\ tail[i] \in Messages
    BY <1>8
  <2>2. <<tail[i], Len(rec) + i>>[1] = tail[i]
    OBVIOUS
  <2> QED  BY <2>1, <2>2, <1>1, IntakeAssumption
<1>15. \A i, j \in 1..k : tail[i] = tail[j] => i = j
  <2> SUFFICES ASSUME NEW i \in 1..k, NEW j \in 1..k, tail[i] = tail[j] PROVE i = j
    OBVIOUS
  <2>1. <<tail[i], Len(rec) + i>> \in fresh /\ <<tail[i], Len(rec) + j>> \in fresh
    BY <1>8
  <2>2. Len(rec) + i <= Len(rec) + j /\ Len(rec) + j <= Len(rec) + i
    <3> DEFINE s == <<tail[i], Len(rec) + i>>
               t == <<tail[i], Len(rec) + j>>
    <3>1. s[1] = t[1] /\ s[2] = Len(rec) + i /\ t[2] = Len(rec) + j /\ s \in fresh /\ t \in fresh
      BY <2>1
    <3> HIDE DEF s, t
    <3>2. s[2] <= t[2] /\ t[2] <= s[2]
      BY <3>1, <1>1
    <3> QED  BY <3>1, <3>2
  <2> QED  BY <2>2, <1>3, <1>5
<1>16. NoRepeat(rec) => NoRepeat(ext)
  <2> SUFFICES ASSUME NoRepeat(rec), NEW i \in DOMAIN ext, NEW j \in DOMAIN ext,
                      ext[i] = ext[j], ext[i] # Assistant
               PROVE  i = j
    BY DEF NoRepeat
  <2>1. CASE i \in 1..Len(rec) /\ j \in 1..Len(rec)
    BY <2>1, <1>3, <1>11 DEF NoRepeat
  <2>2. \A x \in 1..Len(rec) : ext[x] \in Entries(rec)
    BY <1>3, <1>11 DEF Entries
  <2>3. \A x \in 1..k : ext[Len(rec) + x] \notin Entries(rec)
    BY <1>11, <1>14
  <2>4. CASE \E x, y \in 1..k : i = Len(rec) + x /\ j = Len(rec) + y
    BY <2>4, <1>11, <1>15
  <2> QED  BY <2>1, <2>2, <2>3, <2>4, <1>12
<1>17. \A s \in fresh : At(ext, s)
  <2> SUFFICES ASSUME NEW s \in fresh PROVE At(ext, s)
    OBVIOUS
  <2>0. s[2] \in Nat /\ s = <<s[1], s[2]>>
    BY <1>1, SnapshotParts
  <2>1. PICK i \in 1..k : s[2] - Len(rec) = i
    BY <1>6
  <2>2. s[2] = Len(rec) + i
    BY <2>0, <2>1, <1>3, <1>5
  <2>3. <<tail[i], Len(rec) + i>> \in fresh
    BY <1>8
  <2>4. <<tail[i], Len(rec) + i>>[2] = s[2]
    BY <2>2
  <2>5. s = <<tail[i], Len(rec) + i>>
    BY <2>3, <2>4, <1>2
  <2>6. s[1] = tail[i]
    BY <2>5
  <2>7. s[2] \in DOMAIN ext
    BY <2>2, <1>3, <1>5, <1>11
  <2> QED  BY <2>2, <2>6, <2>7, <1>11 DEF At
<1>18. Entries(ext) \subseteq Entries(rec) \cup Named(snaps)
  <2> SUFFICES ASSUME NEW i \in DOMAIN ext PROVE ext[i] \in Entries(rec) \cup Named(snaps)
    BY DEF Entries
  <2>1. CASE i \in 1..Len(rec)
    BY <2>1, <1>3, <1>11 DEF Entries
  <2>2. CASE \E j \in 1..k : i = Len(rec) + j
    <3>1. PICK j \in 1..k : i = Len(rec) + j
      BY <2>2
    <3>2. <<tail[j], Len(rec) + j>> \in snaps /\ <<tail[j], Len(rec) + j>>[1] = tail[j]
      BY <1>8, <1>1
    <3>3. tail[j] \in Named(snaps)
      BY <3>2 DEF Named
    <3> QED  BY <3>1, <3>3, <1>11
  <2> QED  BY <2>1, <2>2, <1>12
<1> QED  BY <1>10, <1>11, <1>13, <1>16, <1>17, <1>18 DEF ext, fresh

\* The snapshots of a conversation in order, at most one of them not recorded yet and
\* that one next: they pass recoverSnapshots, and all are recorded then.
LEMMA NextRecovers ==
  ASSUME NEW rec \in Seq(Entry), NEW snaps \in SUBSET Snapshot, NoRepeat(rec),
         \A s \in snaps : At(rec, s) \/ Upcoming(rec, s),
         \A s, t \in snaps : (Upcoming(rec, s) /\ Upcoming(rec, t)) => s = t
  PROVE  Recoverable(rec, snaps) /\ \A s \in snaps : At(Recovered(rec, snaps), s)
<1>0. Len(rec) \in Nat /\ DOMAIN rec = 1..Len(rec)
  OBVIOUS
<1>1. \A s \in snaps : s \in Snapshot /\ s[2] \in Nat /\ s = <<s[1], s[2]>> /\ s[1] # Assistant
  BY SnapshotParts
<1>2. \A s \in snaps : At(rec, s) => s[2] <= Len(rec) /\ s[1] \in Entries(rec)
  BY <1>0 DEF At, Entries
<1>3. \A s \in snaps : Upcoming(rec, s) => s[2] = Len(rec) + 1 /\ s[1] \notin Entries(rec)
  BY DEF Upcoming
<1>4. \A s, t \in snaps : s[1] = t[1] => s[2] = t[2]
  <2> SUFFICES ASSUME NEW s \in snaps, NEW t \in snaps, s[1] = t[1] PROVE s[2] = t[2]
    OBVIOUS
  <2>1. CASE At(rec, s) /\ At(rec, t)
    BY <2>1, <1>1 DEF At, NoRepeat
  <2>2. CASE Upcoming(rec, s) /\ Upcoming(rec, t)
    BY <2>2, <1>3
  <2> QED  BY <2>1, <2>2, <1>2, <1>3
<1>5. Unique(snaps) = snaps
  <2>1. \A s, t \in snaps : s[1] = t[1] => s[2] <= t[2]
    BY <1>1, <1>4
  <2> QED  BY <2>1 DEF Unique
<1>6. \A s \in Ahead(rec, snaps) : s \in snaps /\ Upcoming(rec, s)
  <2>1. \A s \in snaps : s[2] > Len(rec) => ~(s[2] <= Len(rec))
    BY <1>0, <1>1
  <2> QED  BY <1>2, <1>5, <2>1 DEF Ahead
<1>7. \A s \in snaps : Upcoming(rec, s) => s \in Fresh(rec, snaps)
  BY <1>0, <1>3, <1>5 DEF Fresh, Ahead
<1>8. \A s \in Fresh(rec, snaps) : s \in Ahead(rec, snaps)
  BY DEF Fresh
<1>9. Recoverable(rec, snaps)
  <2>1. \A s \in Unique(snaps) : s[2] <= Len(rec) => rec[s[2]] = s[1]
    <3>1. \A s \in snaps : s[2] <= Len(rec) => ~Upcoming(rec, s)
      BY <1>0, <1>3
    <3> QED  BY <1>5, <3>1 DEF At
  <2>2. ASSUME NEW s \in Ahead(rec, snaps)
        PROVE  s[2] = Len(rec) + 1 + Cardinality({t \in Fresh(rec, snaps) : t[2] < s[2]})
    <3>1. s[2] = Len(rec) + 1
      BY <1>3, <1>6
    <3>2. \A t \in Fresh(rec, snaps) : t[2] = Len(rec) + 1
      BY <1>3, <1>6, <1>8
    <3> DEFINE before == {t \in Fresh(rec, snaps) : t[2] < s[2]}
    <3>3. before = {}
      BY <1>0, <3>1, <3>2
    <3>4. Cardinality(before) = 0
      BY <3>3, FS_EmptySet
    <3> HIDE DEF before
    <3>5. s[2] = Len(rec) + 1 + Cardinality(before)
      BY <1>0, <3>1, <3>4
    <3> QED  BY <3>5 DEF before
  <2>3. \A s, t \in Fresh(rec, snaps) : s[2] = t[2] => s = t
    BY <1>6, <1>8
  <2> QED  BY <2>1, <2>2, <2>3 DEF Recoverable
<1>10. \A s \in snaps : At(Recovered(rec, snaps), s)
  <2>1. /\ Recovered(rec, snaps) \in Seq(Entry) /\ Extends(rec, Recovered(rec, snaps))
        /\ \A s \in Fresh(rec, snaps) : At(Recovered(rec, snaps), s)
    BY <1>9, RecoveredFacts
  <2>2. \A s : At(rec, s) => At(Recovered(rec, snaps), s)
    BY <2>1, ExtendsKeeps
  <2> QED  BY <1>7, <2>1, <2>2
<1> QED  BY <1>9, <1>10

\* The sequence a message is taken at: its own when it is recorded, else the next.
LEMMA CaptureFacts ==
  ASSUME NEW rec \in Seq(Entry), NEW m \in Messages
  PROVE  /\ CaptureSequence(rec, m) \in Nat /\ CaptureSequence(rec, m) > 0
         /\ m \in Entries(rec) => At(rec, <<m, CaptureSequence(rec, m)>>)
         /\ m \notin Entries(rec) => Upcoming(rec, <<m, CaptureSequence(rec, m)>>)
<1>0. Len(rec) \in Nat /\ DOMAIN rec = 1..Len(rec)
  OBVIOUS
<1>1. CASE m \in Entries(rec)
  <2>1. \E i \in DOMAIN rec : rec[i] = m
    BY <1>1 DEF Entries
  <2>2. CaptureSequence(rec, m) \in DOMAIN rec /\ rec[CaptureSequence(rec, m)] = m
    BY <1>1, <2>1 DEF CaptureSequence
  <2> QED  BY <1>0, <1>1, <2>2 DEF At
<1>2. CASE m \notin Entries(rec)
  BY <1>0, <1>2 DEF CaptureSequence, Upcoming
<1> QED  BY <1>1, <1>2

\* A payload names each message at one sequence, and the event's key first.
WellFormed(body, key) ==
  /\ \A s, t \in body : (s[1] = t[1]) <=> (s[2] = t[2])
  /\ \E s \in body : s[1] = key /\ \A t \in body : s[2] <= t[2]

\* The message that opened the window stays first, the newest is never the one dropped.
LEMMA BumpedFacts ==
  ASSUME NEW body \in SUBSET Snapshot, NEW key, WellFormed(body, key),
         NEW m \in Messages, m \notin Named(body), NEW n \in 1..MaxRecord,
         \A t \in body : t[2] < n
  PROVE  /\ Bumped(body, m, n) \in SUBSET Snapshot
         /\ Bumped(body, m, n) \subseteq body \cup {<<m, n>>}
         /\ <<m, n>> \in Bumped(body, m, n)
         /\ WellFormed(Bumped(body, m, n), key)
<1> DEFINE u == <<m, n>>
           follow == (body \ {Earliest(body)}) \cup {u}
           wide == body \cup {u}
<1>m. MaxRecord \in Nat /\ MaxFollowUps \in Nat \ {0}
  BY IntakeAssumption
<1>1. PICK s \in body : s[1] = key /\ \A t \in body : s[2] <= t[2]
  BY DEF WellFormed
<1>2. Earliest(body) = s
  BY <1>1, EarliestIs DEF WellFormed
<1>3. u \in Snapshot /\ u[1] = m /\ u[2] = n /\ n \in Nat
  BY <1>m DEF Snapshot
<1> HIDE DEF u
<1>4. {t \in follow : t[2] > u[2]} = {}
  <2>1. \A t \in body : t[2] \in Nat
    BY SnapshotParts
  <2> QED  BY <2>1, <1>3
<1>5. Cardinality({t \in follow : t[2] > u[2]}) < MaxFollowUps
  BY <1>4, <1>m, FS_EmptySet
<1>6. u \in Bumped(body, m, n) /\ s \in Bumped(body, m, n)
  <2>1. Bumped(body, m, n) =
          {s} \cup {x \in follow : Cardinality({t \in follow : t[2] > x[2]}) < MaxFollowUps}
    BY <1>2 DEF Bumped, u
  <2> QED  BY <2>1, <1>5
<1>7. Bumped(body, m, n) \subseteq wide
  BY <1>2 DEF Bumped, u
<1>8. \A x, y \in wide : (x[1] = y[1]) <=> (x[2] = y[2])
  <2>1. \A x \in body : x[1] # m /\ x[2] # n
    <3>1. \A x \in body : x[2] \in Nat /\ x[2] < n
      BY SnapshotParts
    <3> QED  BY <3>1, <1>3 DEF Named
  <2>2. \A x, y \in body : (x[1] = y[1]) <=> (x[2] = y[2])
    BY DEF WellFormed
  <2> QED  BY <2>1, <2>2, <1>3
<1>9. \A t \in wide : s[2] <= t[2]
  <2>1. s[2] \in Nat /\ s[2] < n
    BY SnapshotParts
  <2>2. s[2] <= u[2]
    BY <2>1, <1>3
  <2> QED  BY <1>1, <2>2
<1>10. WellFormed(Bumped(body, m, n), key)
  <2>1. \A x, y \in Bumped(body, m, n) : (x[1] = y[1]) <=> (x[2] = y[2])
    BY <1>7, <1>8
  <2>2. \A t \in Bumped(body, m, n) : s[2] <= t[2]
    BY <1>7, <1>9
  <2> QED  BY <1>1, <1>6, <2>1, <2>2 DEF WellFormed
<1> QED  BY <1>3, <1>6, <1>7, <1>10 DEF u

--------------------------------------------------------------------------------
(* What the store's operations do to the events, when no turn has said anything *)

Present(e) == events[e].state # "absent"

NothingSaid == \A e \in EventIds, k \in Ordinals : said[e][k].hold = "absent"

\* The event is the one it was, whatever has become of its turn and its deadline.
SameEvent(f) ==
  /\ events'[f].session = events[f].session /\ events'[f].key = events[f].key
  /\ events'[f].body = events[f].body

\* An event that changes in nothing but its state.
OnlyState(e, state) ==
  /\ \A f \in EventIds : f # e => events'[f] = events[f]
  /\ SameEvent(e) /\ events'[e].at = events[e].at /\ events'[e].state = state

LEMMA NothingNeutralized ==
  ASSUME TurnTypeOK, NothingSaid, NEW e \in EventIds, NEW a
  PROVE  /\ NeutralizedRows(e, a) = said
         /\ \A outcome : TurnOutcome(e, a, outcome) = outcome
         /\ ~HasHeldLifecycle(e, a)
<1>1. said \in [EventIds -> [Ordinals -> Said]]
  BY DEF TurnTypeOK
<1>2. \A k \in Ordinals : Neutralized(said[e][k]) = said[e][k] /\ said[e][k].hold = "absent"
  BY DEF NothingSaid, Neutralized
<1>3. [k \in Ordinals |-> IF said[e][k].attempt = a THEN Neutralized(said[e][k]) ELSE said[e][k]]
        = said[e]
  BY <1>1, <1>2
<1>4. NeutralizedRows(e, a) = said
  BY <1>1, <1>3 DEF NeutralizedRows
<1>5. \A k \in RowsOf(e, a) : said[e][k].hold = "absent"
  BY <1>2 DEF RowsOf
<1> QED  BY <1>4, <1>5 DEF TurnOutcome, HasHeldLifecycle

LEMMA EnqueueFacts ==
  ASSUME TurnTypeOK, NEW s \in Sessions, NEW key \in Keys, NEW body \in Bodies,
         NEW at \in 0..MaxTime, EnqueueEvent(s, key, body, at), ~IsDuplicate(s, key)
  PROVE  /\ TurnTypeOK' /\ UNCHANGED said
         /\ filled + 1 \in EventIds /\ filled' = filled + 1
         /\ \A f \in EventIds : f # filled + 1 => events'[f] = events[f]
         /\ events'[filled + 1] = PendingEvent(s, next[s] + 1, key, body, at)
<1>1. /\ filled < MaxEvents /\ filled' = filled + 1 /\ filled + 1 \in EventIds
      /\ UNCHANGED <<turns, said, done>>
      /\ events' = [events EXCEPT ![filled + 1] = PendingEvent(s, next[s] + 1, key, body, at)]
      /\ next' = [next EXCEPT ![s] = @ + 1]
  BY TurnAssumption DEF EnqueueEvent, TurnTypeOK, EventIds
<1>2. PendingEvent(s, next[s] + 1, key, body, at) \in Event
  BY TurnAssumption DEF PendingEvent, Event, TurnTypeOK
<1>3. events \in [EventIds -> Event] /\ next \in [Sessions -> Nat]
  BY DEF TurnTypeOK
<1>4. events' \in [EventIds -> Event]
  BY <1>1, <1>2, <1>3
<1>5. next' \in [Sessions -> Nat]
  BY <1>1, <1>3
<1>6. filled' \in 0..MaxEvents
  BY <1>1, TurnAssumption DEF TurnTypeOK
<1>7. TurnTypeOK'
  BY <1>1, <1>4, <1>5, <1>6 DEF TurnTypeOK
<1> QED  BY <1>1, <1>3, <1>7

LEMMA UpdateFacts ==
  ASSUME TurnTypeOK, NEW e \in EventIds, NEW at \in 0..MaxTime, NEW body \in Bodies,
         UpdateActiveEvent(e, at, body)
  PROVE  /\ TurnTypeOK' /\ UNCHANGED <<filled, said>>
         /\ \A f \in EventIds : f # e => events'[f] = events[f]
         /\ events'[e].session = events[e].session /\ events'[e].key = events[e].key
         /\ events'[e].state = events[e].state /\ events'[e].body = body /\ events'[e].at = at
<1>1. events \in [EventIds -> Event]
  BY DEF TurnTypeOK
<1>2. events' = [events EXCEPT ![e] = [events[e] EXCEPT !.at = at, !.body = body]]
  BY <1>1 DEF UpdateActiveEvent
<1>3. [events[e] EXCEPT !.at = at, !.body = body] \in Event
  BY <1>1 DEF Event
<1>4. events' \in [EventIds -> Event]
  BY <1>1, <1>2, <1>3
<1>5. events'[e] = [events[e] EXCEPT !.at = at, !.body = body]
  BY <1>1, <1>2
<1>6. TurnTypeOK' /\ UNCHANGED <<filled, said>>
  BY <1>4 DEF TurnTypeOK, UpdateActiveEvent
<1> QED  BY <1>1, <1>2, <1>5, <1>6 DEF Event

LEMMA ClaimFacts ==
  ASSUME TurnTypeOK, NEW e \in EventIds, ClaimTurns({e}, TheWorker), events[e].attempts < MaxAttempts
  PROVE  TurnTypeOK' /\ UNCHANGED <<filled, said>> /\ OnlyState(e, "running")
<1>1. events \in [EventIds -> Event] /\ turns \in [EventIds -> [Attempts -> Turn]]
  BY DEF TurnTypeOK
<1>2. \A f \in EventIds : f # e => events'[f] = events[f]
  BY <1>1 DEF ClaimTurns
<1>3. events'[e] = [events[e] EXCEPT !.state = "running", !.attempts = @ + 1]
  BY <1>1 DEF ClaimTurns
<1>4. events[e] \in Event /\ events[e].attempts + 1 \in 0..MaxAttempts
  BY <1>1, TurnAssumption DEF Event
<1>5. [events[e] EXCEPT !.state = "running", !.attempts = events[e].attempts + 1] \in Event
  BY <1>4 DEF Event
<1>6. events' \in [EventIds -> Event]
  <2>1. \A f \in EventIds : events'[f] \in Event
    BY <1>1, <1>2, <1>3, <1>5
  <2> QED  BY <2>1 DEF ClaimTurns
<1>7. turns' \in [EventIds -> [Attempts -> Turn]]
  <2>1. [status |-> "running", worker |-> TheWorker] \in Turn
    BY DEF Turn, TheWorker
  <2> QED  BY <1>1, <2>1 DEF ClaimTurns
<1>8. TurnTypeOK' /\ UNCHANGED <<filled, said>>
  BY <1>6, <1>7 DEF TurnTypeOK, ClaimTurns
<1> QED  BY <1>2, <1>3, <1>4, <1>8 DEF OnlyState, SameEvent, Event

\* Of the events table, a turn's end changes the state of its event.
LEMMA StateMoves ==
  ASSUME events \in [EventIds -> Event], NEW e \in EventIds,
         NEW state \in {"pending", "running", "completed"},
         events' = [events EXCEPT ![e].state = state]
  PROVE  events' \in [EventIds -> Event] /\ OnlyState(e, state)
<1>1. events' = [events EXCEPT ![e] = [events[e] EXCEPT !.state = state]]
  OBVIOUS
<1>2. events[e] \in Event /\ [events[e] EXCEPT !.state = state] \in Event
  BY DEF Event
<1>3. events'[e] = [events[e] EXCEPT !.state = state]
  BY <1>1
<1> QED  BY <1>1, <1>2, <1>3 DEF OnlyState, SameEvent, Event

LEMMA TurnEnds ==
  ASSUME TurnTypeOK, NEW e \in EventIds, NEW a, NEW outcome \in Ended
  PROVE  [turns EXCEPT ![e][a] = EndedTurn(outcome)] \in [EventIds -> [Attempts -> Turn]]
<1>1. turns \in [EventIds -> [Attempts -> Turn]]
  BY DEF TurnTypeOK
<1>2. EndedTurn(outcome) \in Turn
  BY DEF EndedTurn, Turn, NoWorker
<1>3. [turns[e] EXCEPT ![a] = EndedTurn(outcome)] \in [Attempts -> Turn]
  BY <1>1, <1>2
<1>4. [turns EXCEPT ![e][a] = EndedTurn(outcome)]
        = [turns EXCEPT ![e] = [turns[e] EXCEPT ![a] = EndedTurn(outcome)]]
  BY <1>1
<1> QED  BY <1>1, <1>3, <1>4

LEMMA FinishFacts ==
  ASSUME TurnTypeOK, NothingSaid, NEW e \in EventIds, NEW a, NEW outcome \in Ended,
         FinishTurn(e, a, outcome)
  PROVE  TurnTypeOK' /\ UNCHANGED <<filled, said>> /\ OnlyState(e, "completed")
<1>1. events \in [EventIds -> Event] /\ done \in [Sessions -> Nat]
  BY DEF TurnTypeOK
<1>2. events' \in [EventIds -> Event] /\ OnlyState(e, "completed")
  BY <1>1, StateMoves DEF FinishTurn
<1>3. turns' \in [EventIds -> [Attempts -> Turn]]
  BY NothingNeutralized, TurnEnds DEF FinishTurn
<1>4. done' \in [Sessions -> Nat]
  BY <1>1 DEF FinishTurn, Advanced, Event
<1>5. UNCHANGED <<filled, said, next>>
  BY NothingNeutralized DEF FinishTurn
<1> QED  BY <1>2, <1>3, <1>4, <1>5 DEF TurnTypeOK

LEMMA InterruptFacts ==
  ASSUME TurnTypeOK, NothingSaid, NEW e \in EventIds, NEW a, InterruptTurn(e, a)
  PROVE  TurnTypeOK' /\ UNCHANGED <<filled, said>> /\ OnlyState(e, "pending")
<1>1. events \in [EventIds -> Event]
  BY DEF TurnTypeOK
<1>2. events' \in [EventIds -> Event] /\ OnlyState(e, "pending")
  BY <1>1, StateMoves DEF InterruptTurn
<1>3. turns' \in [EventIds -> [Attempts -> Turn]]
  BY TurnEnds DEF InterruptTurn, Ended
<1>4. UNCHANGED <<filled, said, next, done>>
  BY NothingNeutralized DEF InterruptTurn
<1> QED  BY <1>2, <1>3, <1>4 DEF TurnTypeOK

LEMMA HandOffFacts ==
  ASSUME TurnTypeOK, NothingSaid, NEW e \in EventIds, NEW a, NEW s \in Sessions, NEW key \in Keys,
         NEW body \in Bodies, NEW at \in 0..MaxTime, HandOff(e, a, s, key, body, at),
         events[e].state # "absent", ~(filled + 1 = e)
  PROVE  /\ TurnTypeOK' /\ UNCHANGED said
         /\ IsDuplicate(s, key) => UNCHANGED filled /\ OnlyState(e, "completed")
         /\ ~IsDuplicate(s, key) =>
              /\ filled + 1 \in EventIds /\ filled' = filled + 1
              /\ \A f \in EventIds : (f # e /\ f # filled + 1) => events'[f] = events[f]
              /\ SameEvent(e) /\ events'[e].state = "completed"
              /\ events'[filled + 1] = PendingEvent(s, next[s] + 1, key, body, at)
<1> DEFINE source == [events EXCEPT ![e].state = "completed"]
           new == PendingEvent(s, next[s] + 1, key, body, at)
<1>1. events \in [EventIds -> Event] /\ done \in [Sessions -> Nat] /\ next \in [Sessions -> Nat]
  BY DEF TurnTypeOK
<1>2. /\ source \in [EventIds -> Event]
      /\ \A f \in EventIds : f # e => source[f] = events[f]
      /\ source[e] = [events[e] EXCEPT !.state = "completed"]
  <2>1. source = [events EXCEPT ![e] = [events[e] EXCEPT !.state = "completed"]]
    BY <1>1
  <2>2. [events[e] EXCEPT !.state = "completed"] \in Event
    BY <1>1 DEF Event
  <2> HIDE DEF source
  <2> QED  BY <1>1, <2>1, <2>2
<1>3. turns' \in [EventIds -> [Attempts -> Turn]]
  BY TurnEnds DEF HandOff, Ended
<1>4. done' \in [Sessions -> Nat] /\ UNCHANGED said
  BY <1>1, NothingNeutralized DEF HandOff, Advanced, Event
<1>5. source[e].session = events[e].session /\ source[e].key = events[e].key
      /\ source[e].body = events[e].body /\ source[e].at = events[e].at
      /\ source[e].state = "completed"
  BY <1>1, <1>2 DEF Event
<1> HIDE DEF source
<1>6. CASE IsDuplicate(s, key)
  <2>1. events' = source /\ UNCHANGED <<filled, next>>
    BY <1>6 DEF HandOff, source
  <2>2. TurnTypeOK'
    BY <1>2, <1>3, <1>4, <2>1 DEF TurnTypeOK
  <2>3. OnlyState(e, "completed")
    BY <1>2, <1>5, <2>1 DEF OnlyState, SameEvent
  <2> QED  BY <1>4, <1>6, <2>1, <2>2, <2>3
<1>7. CASE ~IsDuplicate(s, key)
  <2>1. /\ filled < MaxEvents /\ filled' = filled + 1
        /\ events' = [source EXCEPT ![filled + 1] = new]
        /\ next' = [next EXCEPT ![s] = @ + 1]
    BY <1>7 DEF HandOff, source
  <2>2. filled + 1 \in EventIds /\ filled' \in 0..MaxEvents
    BY <2>1, TurnAssumption DEF TurnTypeOK, EventIds
  <2>3. new \in Event
    BY <1>1, TurnAssumption DEF PendingEvent, Event
  <2> HIDE DEF new
  <2>4. events' \in [EventIds -> Event]
    BY <1>2, <2>1, <2>3
  <2>5. TurnTypeOK'
    <3>1. next' \in [Sessions -> Nat]
      BY <1>1, <2>1
    <3> QED  BY <1>3, <1>4, <2>2, <2>4, <3>1 DEF TurnTypeOK
  <2>6. events'[e] = source[e] /\ events'[filled + 1] = new
    BY <1>2, <2>1, <2>2
  <2>7. \A f \in EventIds : (f # e /\ f # filled + 1) => events'[f] = events[f]
    BY <1>2, <2>1
  <2>8. SameEvent(e) /\ events'[e].state = "completed"
    BY <1>5, <2>6 DEF SameEvent
  <2> QED  BY <1>4, <1>7, <2>1, <2>2, <2>5, <2>6, <2>7, <2>8 DEF new
<1> QED  BY <1>6, <1>7

LEMMA RecoverLeaseFacts ==
  ASSUME TurnTypeOK, NothingSaid, NEW at \in 0..MaxTime, RecoverTurnLeases(at)
  PROVE  /\ TurnTypeOK' /\ UNCHANGED <<filled, said>>
         /\ \A e \in EventIds :
              /\ SameEvent(e)
              /\ events'[e].at = events[e].at \/ events'[e].at = at
              /\ \/ events'[e].state = events[e].state
                 \/ events[e].state = "running" /\ events'[e].state = "pending"
<1>1. /\ events \in [EventIds -> Event] /\ done \in [Sessions -> Nat]
      /\ turns \in [EventIds -> [Attempts -> Turn]] /\ said \in [EventIds -> [Ordinals -> Said]]
  BY DEF TurnTypeOK
<1>2. \A e \in EventIds : ~Closes(e)
  BY NothingNeutralized DEF Closes
<1>3. \A e \in EventIds :
        events'[e] = IF Recovers(e) /\ events[e].state = "running"
                     THEN [events[e] EXCEPT !.state = "pending", !.at = Later(@, at)] ELSE events[e]
  BY <1>2 DEF RecoverTurnLeases
<1>4. \A e \in EventIds : Later(events[e].at, at) \in 0..MaxTime
                          /\ (Later(events[e].at, at) = events[e].at \/ Later(events[e].at, at) = at)
  BY <1>1 DEF Later, Event
<1>5. \A e \in EventIds :
        /\ events'[e] \in Event /\ SameEvent(e)
        /\ events'[e].at = events[e].at \/ events'[e].at = at
        /\ \/ events'[e].state = events[e].state
           \/ events[e].state = "running" /\ events'[e].state = "pending"
  <2> SUFFICES ASSUME NEW e \in EventIds
               PROVE  /\ events'[e] \in Event /\ SameEvent(e)
                      /\ events'[e].at = events[e].at \/ events'[e].at = at
                      /\ \/ events'[e].state = events[e].state
                         \/ events[e].state = "running" /\ events'[e].state = "pending"
    OBVIOUS
  <2>1. CASE Recovers(e) /\ events[e].state = "running"
    <3> DEFINE l == Later(events[e].at, at)
    <3>1. l \in 0..MaxTime /\ (l = events[e].at \/ l = at) /\ events[e] \in Event
      BY <1>1, <1>4
    <3>2. events'[e] = [events[e] EXCEPT !.state = "pending", !.at = l]
      BY <1>3, <2>1
    <3> HIDE DEF l
    <3>3. [events[e] EXCEPT !.state = "pending", !.at = l] \in Event
      BY <3>1 DEF Event
    <3> QED  BY <2>1, <3>1, <3>2, <3>3 DEF Event, SameEvent
  <2>2. CASE ~(Recovers(e) /\ events[e].state = "running")
    BY <1>1, <1>3, <2>2 DEF SameEvent
  <2> QED  BY <2>1, <2>2
<1>6. events' \in [EventIds -> Event]
  BY <1>5 DEF RecoverTurnLeases
<1>7. turns' \in [EventIds -> [Attempts -> Turn]]
  <2>1. EndedTurn("interrupted") \in Turn
    BY DEF EndedTurn, Turn, NoWorker, Ended
  <2>2. turns' = [e \in EventIds |-> [a \in Attempts |->
                   IF turns[e][a].status # "running" THEN turns[e][a] ELSE EndedTurn("interrupted")]]
    BY NothingNeutralized DEF RecoverTurnLeases
  <2> QED  BY <1>1, <2>1, <2>2
<1>8. said' = said
  BY <1>1, <1>2 DEF RecoverTurnLeases
<1>9. done' \in [Sessions -> Nat]
  <2>1. \A s \in Sessions : ~ \E e \in EventIds : Closes(e) /\ events[e].session = s
    BY <1>2
  <2>2. done' = [s \in Sessions |-> done[s]]
    BY <2>1 DEF RecoverTurnLeases
  <2> QED  BY <1>1, <2>2
<1>10. UNCHANGED <<filled, next>>
  BY DEF RecoverTurnLeases
<1> QED  BY <1>5, <1>6, <1>7, <1>8, <1>9, <1>10 DEF TurnTypeOK

--------------------------------------------------------------------------------
(* The invariant *)

SenderEvent(e) == Present(e) /\ events[e].session \in Senders

ConvOfEvent(e) ==
  IF events[e].session \in Senders THEN Home[events[e].session] ELSE events[e].session

Filled == \A e \in EventIds : (Present(e) <=> e <= filled) /\ (~Present(e) => window[e] = {})

OneOfKey ==
  \A e, f \in EventIds :
    (/\ Present(e) /\ Present(f)
     /\ events[e].session = events[f].session /\ events[e].key = events[f].key) => e = f

OneWindow ==
  \A e, f \in EventIds :
    (SenderEvent(e) /\ Active(e) /\ Active(f) /\ events[e].session = events[f].session) => e = f

\* What a payload names belongs to the window, and a window to one sender.
BodyFit(e) ==
  Present(e) =>
    /\ events[e].key \in Messages
    /\ WellFormed(events[e].body, events[e].key)
    /\ Named(events[e].body) \subseteq window[e]
    /\ events[e].session \in Senders => Delay > 0 /\ \A m \in window[e] : From[m] = events[e].session

\* The window a reply event was handed off from.
Parent(w, e) ==
  /\ SenderEvent(w) /\ events[w].state = "completed"
  /\ events[w].key = events[e].key /\ Home[events[w].session] = events[e].session
  /\ window[w] = window[e]

ReplyFit(e) ==
  Replies(e) =>
    IF Delay = 0 THEN window[e] = {events[e].key} /\ events[e].session = ConvOf(events[e].key)
                 ELSE \E w \in EventIds : Parent(w, e)

Books ==
  /\ NothingSaid /\ Filled /\ OneOfKey /\ OneWindow
  /\ \A e \in EventIds : BodyFit(e)
  /\ \A e \in EventIds : ReplyFit(e)

\* A handler holds the event as it was claimed; while the deadline has not moved the
\* payload has not either.
JobFit(e) ==
  jobs[e].pc # "none" =>
    /\ events[e].state = "running"
    /\ jobs[e].at <= events[e].at
    /\ (jobs[e].at = events[e].at \/ Replies(e)) => jobs[e].body = events[e].body
    /\ WellFormed(jobs[e].body, events[e].key)
    /\ Named(jobs[e].body) \subseteq window[e]
    /\ jobs[e].pc = "ready" => events[e].session \in Senders

JobsFit == (\A e \in EventIds : JobFit(e)) /\ (Lost => \A e \in EventIds : jobs[e].pc = "none")

GateFit ==
  \A m \in Messages, i \in Copies : intake[m][i] # "none" => m \in bound.messages /\ i \in bound.copies

RecordsOnce == \A c \in Conversations : NoRepeat(record[c]) /\ NoRepeat(disk[c])

Written == Calm => record = disk

Waits(c) == \E m \in Messages, i \in Copies : intake[m][i] # "none" /\ ConvOf(m) = c

\* Snapshots of open windows are recorded at their sequences, but for one that a crash
\* may have left to be recorded next, and then nobody is at the gate.
SnapshotsFit(c) ==
  /\ \A s \in ActiveSnapshots(c) : At(record[c], s) \/ (Upcoming(record[c], s) /\ ~Waits(c))
  /\ \A s, t \in ActiveSnapshots(c) : (Upcoming(record[c], s) /\ Upcoming(record[c], t)) => s = t

Reaches(rec, body, m) == \E s \in body, k \in DOMAIN rec : k <= s[2] /\ rec[k] = m

\* A message the payload has dropped is recorded where the payload reaches.
WindowReach(e) ==
  (Active(e) \/ Replies(e)) =>
    \A m \in window[e] : m \in Named(events[e].body) \/ Reaches(record[ConvOfEvent(e)], events[e].body, m)

ReplyRecorded(e) == Replies(e) => \A s \in events[e].body : At(record[events[e].session], s)

JobRecorded(e) ==
  (jobs[e].pc # "none" /\ events[e].session \in Senders) =>
    \A s \in jobs[e].body :
      At(record[ConvOfEvent(e)], s) \/ (jobs[e].pc = "claimed" /\ s \in events[e].body)

RecordsReach ==
  /\ \A c \in Conversations : SnapshotsFit(c)
  /\ \A e \in EventIds : WindowReach(e)
  /\ \A e \in EventIds : ReplyRecorded(e)
  /\ \A e \in EventIds : JobRecorded(e)

HandedOff(w) ==
  \E r \in EventIds :
    Replies(r) /\ events[r].key = events[w].key /\ events[r].session = Home[events[w].session]

\* The window is over and nothing will answer it.
Void(w) == events[w].state = "completed" /\ ~HandedOff(w)

\* What waits at the gate is in no record and in no window that is answered or may be.
NewAtGate(m) ==
  (\E i \in Copies : intake[m][i] # "none") =>
    /\ m \notin Entries(record[ConvOf(m)])
    /\ \A w \in EventIds : (SenderEvent(w) /\ m \in window[w]) => Void(w)

\* Of two windows with the same message one is void.
OneLives(w, x) ==
  (SenderEvent(w) /\ SenderEvent(x) /\ w # x /\ window[w] \cap window[x] # {}) => Void(w) \/ Void(x)

Alone ==
  /\ \A m \in Messages : NewAtGate(m)
  /\ \A w, x \in EventIds : OneLives(w, x)

Base == IntakeTypeOK /\ Books /\ JobsFit /\ GateFit /\ RecordsOnce /\ Written

IntakeInv ==
  /\ Base
  /\ Calm => RecordsReach
  /\ (Calm /\ Delay # 0) => Alone

--------------------------------------------------------------------------------
(* Steps as the queue sees them: the events it has keep what they are, one     *)
(* event is added, or an open window takes a message.                          *)

Keeps(f) ==
  /\ SameEvent(f) /\ window'[f] = window[f]
  /\ (events'[f].state = "absent") <=> (events[f].state = "absent")
  /\ events[f].state = "completed" => events'[f].state = "completed"
  /\ events'[f].state \in {"pending", "running"} => events[f].state \in {"pending", "running"}

QuietStep == UNCHANGED <<filled, said, bound>> /\ \A f \in EventIds : Keeps(f)

GrowStep(n) ==
  /\ UNCHANGED <<said, bound>> /\ n \in EventIds /\ n = filled + 1 /\ filled' = n
  /\ \A f \in EventIds : f # n => Keeps(f)
  /\ events'[n].state = "pending"

BumpStep(e, m) ==
  /\ UNCHANGED <<filled, said, bound>> /\ e \in EventIds
  /\ \A f \in EventIds : f # e => Keeps(f)
  /\ events'[e].session = events[e].session /\ events'[e].key = events[e].key
  /\ events'[e].state = events[e].state /\ window'[e] = window[e] \cup {m}

\* Every session is a conversation's or a sender's.
LEMMA SessionKinds ==
  ASSUME TurnTypeOK, NEW e \in EventIds
  PROVE  /\ events[e].session \in Conversations \/ events[e].session \in Senders
         /\ ~(events[e].session \in Conversations /\ events[e].session \in Senders)
         /\ ConvOfEvent(e) \in Conversations
         /\ events[e].body \in SUBSET Snapshot
         /\ events[e].at \in 0..MaxTime
         /\ events[e].state \in {"absent", "pending", "running", "completed"}
<1>1. events[e].session \in Conversations \cup Senders /\ events[e].body \in SUBSET Snapshot
      /\ events[e].at \in 0..MaxTime
      /\ events[e].state \in {"absent", "pending", "running", "completed"}
  BY IntakeAssumption DEF TurnTypeOK, Event, Snapshot
<1>2. \A s \in Senders : Home[s] \in Conversations
  BY IntakeAssumption
<1> QED  BY <1>1, <1>2, IntakeAssumption DEF ConvOfEvent

LEMMA KeepsReply ==
  ASSUME NEW f \in EventIds, Keeps(f)
  PROVE  (Replies(f)' <=> Replies(f)) /\ (SenderEvent(f)' <=> SenderEvent(f))
         /\ (Present(f)' <=> Present(f)) /\ (Active(f)' => Active(f))
         /\ ConvOfEvent(f)' = ConvOfEvent(f)
BY DEF Keeps, SameEvent, Replies, SenderEvent, Present, Active, ConvOfEvent

LEMMA BodyKept ==
  ASSUME NEW f \in EventIds, Keeps(f), UNCHANGED bound, BodyFit(f)
  PROVE  BodyFit(f)'
<1>1. UNCHANGED <<events[f].session, events[f].key, events[f].body, window[f]>> /\ Delay' = Delay
      /\ (Present(f)' => Present(f))
  BY KeepsReply DEF Keeps, SameEvent, Delay
<1> QED  BY <1>1 DEF BodyFit

LEMMA ParentKept ==
  ASSUME NEW w \in EventIds, NEW f \in EventIds, Keeps(w), Keeps(f), Parent(w, f)
  PROVE  Parent(w, f)'
BY KeepsReply DEF Keeps, SameEvent, Parent

LEMMA ReplyKept ==
  ASSUME NEW f \in EventIds, Keeps(f), UNCHANGED bound, ReplyFit(f),
         \A w \in EventIds : Parent(w, f) => Keeps(w)
  PROVE  ReplyFit(f)'
<1> SUFFICES ASSUME Replies(f)'
             PROVE  (IF Delay = 0 THEN window[f] = {events[f].key} /\ events[f].session = ConvOf(events[f].key)
                                  ELSE \E w \in EventIds : Parent(w, f))'
  BY DEF ReplyFit
<1>1. Replies(f)
  BY KeepsReply
<1>2. UNCHANGED <<events[f].session, events[f].key, window[f]>> /\ Delay' = Delay
  BY DEF Keeps, SameEvent, Delay
<1>3. CASE Delay = 0
  BY <1>1, <1>2, <1>3 DEF ReplyFit, ConvOf
<1>4. CASE Delay # 0
  <2>1. PICK w \in EventIds : Parent(w, f)
    BY <1>1, <1>4 DEF ReplyFit
  <2>2. Parent(w, f)'
    BY <2>1, ParentKept
  <2> QED  BY <1>2, <1>4, <2>2
<1> QED  BY <1>3, <1>4

\* The books are kept by a step that leaves every event what it is.
LEMMA BooksQuiet ==
  ASSUME Books, QuietStep
  PROVE  Books'
<1>1. /\ UNCHANGED <<filled, said, bound>> /\ \A f \in EventIds : Keeps(f)
      /\ \A f \in EventIds : BodyFit(f) /\ ReplyFit(f)
  BY DEF QuietStep, Books
<1>2. NothingSaid'
  BY <1>1 DEF Books, NothingSaid
<1>3. Filled'
  BY <1>1 DEF Books, Filled, Present, Keeps
<1>4. OneOfKey'
  BY <1>1 DEF Books, OneOfKey, Present, Keeps, SameEvent
<1>5. OneWindow'
  <2>1. \A e \in EventIds : (SenderEvent(e)' => SenderEvent(e)) /\ (Active(e)' => Active(e))
                            /\ events'[e].session = events[e].session
    BY <1>1, KeepsReply DEF Keeps, SameEvent
  <2> QED  BY <2>1 DEF Books, OneWindow
<1>6. \A e \in EventIds : BodyFit(e)' /\ ReplyFit(e)'
  BY <1>1, BodyKept, ReplyKept
<1> QED  BY <1>2, <1>3, <1>4, <1>5, <1>6 DEF Books

\* A new event needs a key its session has not had, and a new window a sender without one.
LEMMA BooksGrow ==
  ASSUME TurnTypeOK, Books, NEW n, GrowStep(n), BodyFit(n)', ReplyFit(n)',
         \A f \in EventIds : ~(Present(f) /\ events[f].session = events'[n].session
                               /\ events[f].key = events'[n].key),
         \A f \in EventIds : ~(SenderEvent(f) /\ Active(f) /\ events[f].session = events'[n].session)
  PROVE  Books'
<1>1. /\ UNCHANGED <<said, bound>> /\ n \in EventIds /\ n = filled + 1 /\ filled' = n
      /\ \A f \in EventIds : f # n => Keeps(f)
      /\ events'[n].state = "pending"
      /\ \A f \in EventIds : BodyFit(f) /\ ReplyFit(f)
      /\ NothingSaid /\ Filled /\ OneOfKey /\ OneWindow
  BY DEF GrowStep, Books
<1>2. NothingSaid'
  BY <1>1 DEF NothingSaid
<1>3. filled \in Nat /\ EventIds \subseteq Nat /\ ~Present(n)
  <2>1. filled \in Nat /\ EventIds \subseteq Nat
    BY TurnAssumption DEF TurnTypeOK, EventIds
  <2>2. ~(n <= filled)
    BY <1>1, <2>1
  <2> QED  BY <1>1, <2>1, <2>2 DEF Filled
<1>4. Filled'
  <2>1. \A f \in EventIds : f # n => ((f <= filled') <=> (f <= filled))
    BY <1>1, <1>3
  <2>2. \A f \in EventIds : f # n => (Present(f)' <=> Present(f)) /\ window'[f] = window[f]
    BY <1>1, KeepsReply DEF Keeps
  <2>3. Present(n)' /\ n <= filled'
    BY <1>1, <1>3 DEF Present
  <2> QED  BY <1>1, <2>1, <2>2, <2>3 DEF Filled
<1>5. OneOfKey'
  <2>1. \A f \in EventIds : f # n => (Present(f)' => Present(f)) /\ events'[f].session = events[f].session
                                     /\ events'[f].key = events[f].key
    BY <1>1, KeepsReply DEF Keeps, SameEvent
  <2> QED  BY <1>1, <2>1 DEF OneOfKey
<1>6. OneWindow'
  <2>1. \A f \in EventIds : f # n => /\ (SenderEvent(f)' => SenderEvent(f)) /\ (Active(f)' => Active(f))
                                     /\ events'[f].session = events[f].session
    BY <1>1, KeepsReply DEF Keeps, SameEvent
  <2>2. \A f \in EventIds : SenderEvent(f) <=> Present(f) /\ events[f].session \in Senders
    BY DEF SenderEvent
  <2>3. \A f \in EventIds : Active(f) => Present(f)
    BY DEF Active, Present
  <2>4. (SenderEvent(n) <=> Present(n) /\ events[n].session \in Senders)'
    BY DEF SenderEvent
  <2> QED  BY <1>1, <2>1, <2>2, <2>3, <2>4 DEF OneWindow
<1>7. \A f \in EventIds : BodyFit(f)'
  BY <1>1, BodyKept
<1>8. \A f \in EventIds : ReplyFit(f)'
  <2>1. \A w \in EventIds, f \in EventIds : Parent(w, f) => w # n
    BY <1>3 DEF Parent, SenderEvent
  <2> QED  BY <1>1, <2>1, ReplyKept
<1> QED  BY <1>2, <1>4, <1>5, <1>6, <1>7, <1>8 DEF Books

\* A window takes a message.
LEMMA BooksBump ==
  ASSUME Books, TurnTypeOK, NEW e \in EventIds, NEW m, BumpStep(e, m), SenderEvent(e), Active(e), BodyFit(e)'
  PROVE  Books'
<1>1. /\ UNCHANGED <<filled, said, bound>>
      /\ \A f \in EventIds : f # e => Keeps(f)
      /\ \A f \in EventIds : BodyFit(f) /\ ReplyFit(f)
      /\ NothingSaid /\ Filled /\ OneOfKey /\ OneWindow
      /\ UNCHANGED <<events[e].session, events[e].key, events[e].state>>
  BY DEF BumpStep, Books
<1>2. NothingSaid'
  BY <1>1 DEF NothingSaid
<1>3. \A f \in EventIds : /\ (Present(f)' <=> Present(f)) /\ (SenderEvent(f)' <=> SenderEvent(f))
                          /\ (Active(f)' => Active(f))
                          /\ UNCHANGED <<events[f].session, events[f].key>>
  <2>1. \A f \in EventIds : f # e => UNCHANGED <<events[f].session, events[f].key>>
    BY <1>1 DEF Keeps, SameEvent
  <2>2. (Present(e)' <=> Present(e)) /\ (SenderEvent(e)' <=> SenderEvent(e)) /\ (Active(e)' => Active(e))
    BY <1>1 DEF Present, SenderEvent, Active
  <2> QED  BY <1>1, <2>1, <2>2, KeepsReply
<1>4. Filled'
  <2>1. \A f \in EventIds : ~Present(f)' => window'[f] = {}
    <3>1. \A f \in EventIds : f # e => window'[f] = window[f]
      BY <1>1 DEF Keeps
    <3>2. Present(e)
      BY DEF SenderEvent
    <3> QED  BY <1>1, <1>3, <3>1, <3>2 DEF Filled
  <2> QED  BY <1>1, <1>3, <2>1 DEF Filled
<1>5. OneOfKey' /\ OneWindow'
  BY <1>1, <1>3 DEF OneOfKey, OneWindow
<1>6. \A f \in EventIds : BodyFit(f)'
  BY <1>1, BodyKept
<1>7. \A f \in EventIds : ReplyFit(f)'
  <2>1. ~Replies(e)'
    <3>1. ~Replies(e)
      BY SessionKinds DEF SenderEvent, Replies
    <3> QED  BY <1>1, <3>1 DEF Replies
  <2>2. ReplyFit(e)'
    BY <2>1 DEF ReplyFit
  <2>3. \A w \in EventIds, f \in EventIds : Parent(w, f) => w # e
    BY DEF Parent, Active
  <2> QED  BY <1>1, <2>2, <2>3, ReplyKept
<1> QED  BY <1>2, <1>4, <1>5, <1>6, <1>7 DEF Books

--------------------------------------------------------------------------------
(* Steps as the records see them: they only grow *)

RecordTypes ==
  /\ \A c \in Conversations : record[c] \in Seq(Entry) /\ disk[c] \in Seq(Entry)
  /\ DOMAIN record = Conversations

Grown == RecordTypes /\ RecordTypes' /\ \A c \in Conversations : Extends(record[c], record'[c])

LEMMA GrownKeeps ==
  ASSUME Grown, NEW c \in Conversations
  PROVE  /\ \A s : At(record[c], s) => At(record'[c], s)
         /\ \A body, m : Reaches(record[c], body, m) => Reaches(record'[c], body, m)
         /\ Entries(record[c]) \subseteq Entries(record'[c])
<1>1. record[c] \in Seq(Entry) /\ record'[c] \in Seq(Entry) /\ Extends(record[c], record'[c])
  BY DEF Grown, RecordTypes
<1>2. /\ \A i \in DOMAIN record[c] : i \in DOMAIN record'[c] /\ record'[c][i] = record[c][i]
      /\ Entries(record[c]) \subseteq Entries(record'[c])
      /\ \A s : At(record[c], s) => At(record'[c], s)
  BY <1>1, ExtendsKeeps
<1>3. ASSUME NEW body, NEW m, Reaches(record[c], body, m) PROVE Reaches(record'[c], body, m)
  BY <1>2, <1>3 DEF Reaches
<1> QED  BY <1>2, <1>3

LEMMA WindowReachKept ==
  ASSUME TurnTypeOK, Grown, NEW e \in EventIds, Keeps(e), WindowReach(e)
  PROVE  WindowReach(e)'
<1>1. /\ (Active(e)' \/ Replies(e)') => (Active(e) \/ Replies(e))
      /\ ConvOfEvent(e)' = ConvOfEvent(e) /\ window'[e] = window[e] /\ events'[e].body = events[e].body
  BY KeepsReply DEF Keeps, SameEvent
<1>2. ConvOfEvent(e) \in Conversations
  BY SessionKinds
<1> SUFFICES ASSUME Active(e)' \/ Replies(e)', NEW m \in window[e],
                    m \notin Named(events[e].body)
             PROVE  Reaches(record'[ConvOfEvent(e)], events[e].body, m)
  BY <1>1 DEF WindowReach
<1>3. Reaches(record[ConvOfEvent(e)], events[e].body, m)
  BY <1>1 DEF WindowReach
<1> QED  BY <1>2, <1>3, GrownKeeps

LEMMA ReplyRecordedKept ==
  ASSUME TurnTypeOK, Grown, NEW e \in EventIds, Keeps(e), ReplyRecorded(e)
  PROVE  ReplyRecorded(e)'
<1>1. (Replies(e)' => Replies(e)) /\ UNCHANGED <<events[e].body, events[e].session>>
  BY KeepsReply DEF Keeps, SameEvent
<1>2. Replies(e) => events[e].session \in Conversations
  BY DEF Replies
<1> QED  BY <1>1, <1>2, GrownKeeps DEF ReplyRecorded

LEMMA JobRecordedKept ==
  ASSUME TurnTypeOK, Grown, NEW e \in EventIds, Keeps(e), JobRecorded(e),
         jobs'[e] = jobs[e] \/ jobs'[e].pc = "none"
  PROVE  JobRecorded(e)'
<1>1. /\ ConvOfEvent(e)' = ConvOfEvent(e) /\ ConvOfEvent(e) \in Conversations
      /\ UNCHANGED <<events[e].body, events[e].session>>
  BY KeepsReply, SessionKinds DEF Keeps, SameEvent
<1>2. CASE jobs'[e].pc = "none"
  BY <1>2 DEF JobRecorded
<1>3. CASE jobs'[e] = jobs[e]
  BY <1>1, <1>3, GrownKeeps DEF JobRecorded
<1> QED  BY <1>2, <1>3

\* Where the snapshots of a conversation's open windows come from.
LEMMA SnapshotsOf ==
  ASSUME TurnTypeOK, NEW c
  PROVE  /\ ActiveSnapshots(c) \in SUBSET Snapshot
         /\ \A s \in ActiveSnapshots(c) : \E e \in EventIds :
              SenderEvent(e) /\ Active(e) /\ Home[events[e].session] = c /\ s \in events[e].body
         /\ \A e \in EventIds : (Delay # 0 /\ SenderEvent(e) /\ Active(e) /\ Home[events[e].session] = c)
              => events[e].body \subseteq ActiveSnapshots(c)
<1>1. \A e \in EventIds : e \in ActiveWindows(c) <=>
        SenderEvent(e) /\ Active(e) /\ Home[events[e].session] = c
  BY DEF ActiveWindows, SenderEvent, Active, Present
<1>2. \A s \in ActiveSnapshots(c) : \E e \in EventIds :
        SenderEvent(e) /\ Active(e) /\ Home[events[e].session] = c /\ s \in events[e].body
  BY <1>1 DEF ActiveSnapshots, Payloads, ActiveWindows
<1>3. \A e \in EventIds : (Delay # 0 /\ SenderEvent(e) /\ Active(e) /\ Home[events[e].session] = c)
        => events[e].body \subseteq ActiveSnapshots(c)
  BY <1>1 DEF ActiveSnapshots, Payloads
<1>4. ActiveSnapshots(c) \in SUBSET Snapshot
  BY <1>2, SessionKinds
<1> QED  BY <1>2, <1>3, <1>4

LEMMA SnapshotsFrom ==
  ASSUME TurnTypeOK, TurnTypeOK', UNCHANGED bound, NEW c, NEW s \in ActiveSnapshots(c)'
  PROVE  \/ s \in ActiveSnapshots(c)
         \/ \E f \in EventIds : /\ ~Keeps(f) /\ SenderEvent(f)' /\ Active(f)'
                                /\ Home[events'[f].session] = c /\ s \in events'[f].body
<1>1. PICK f \in EventIds : SenderEvent(f)' /\ Active(f)' /\ Home[events'[f].session] = c /\ s \in events'[f].body
  BY SnapshotsOf DEF ActiveSnapshots, Payloads, ActiveWindows, SenderEvent, Present, Active
<1>2. Delay' = Delay /\ Delay # 0
  BY DEF ActiveSnapshots, Payloads, Delay
<1>3. CASE Keeps(f)
  <2>1. SenderEvent(f) /\ Active(f) /\ Home[events[f].session] = c /\ s \in events[f].body
    BY <1>1, <1>3, KeepsReply DEF Keeps, SameEvent
  <2> QED  BY <1>2, <2>1, SnapshotsOf
<1> QED  BY <1>1, <1>3

\* The three ways in which a conversation's snapshots go on fitting its record.
LEMMA FitSame ==
  ASSUME NEW c, SnapshotsFit(c), ActiveSnapshots(c)' \subseteq ActiveSnapshots(c),
         record'[c] = record[c], Waits(c)' => Waits(c)
  PROVE  SnapshotsFit(c)'
BY DEF SnapshotsFit

LEMMA AtNotUpcoming ==
  ASSUME NEW rec, NEW s, At(rec, s)
  PROVE  ~Upcoming(rec, s)
BY DEF At, Upcoming, Entries

LEMMA FitAll ==
  ASSUME NEW c, \A s \in ActiveSnapshots(c)' : At(record'[c], s)
  PROVE  SnapshotsFit(c)'
BY AtNotUpcoming DEF SnapshotsFit

LEMMA FitNext ==
  ASSUME NEW c, NEW u, ~Waits(c)',
         \A s \in ActiveSnapshots(c)' : At(record'[c], s) \/ (s = u /\ Upcoming(record'[c], u))
  PROVE  SnapshotsFit(c)'
BY AtNotUpcoming DEF SnapshotsFit

LEMMA GateSettled ==
  ASSUME NEW c, SnapshotsFit(c), Waits(c)
  PROVE  \A s \in ActiveSnapshots(c) : At(record[c], s)
BY DEF SnapshotsFit

\* What a handler recovers passes, and is recorded.
LEMMA FitRecovers ==
  ASSUME TurnTypeOK, RecordTypes, NEW c \in Conversations, SnapshotsFit(c), NoRepeat(record[c]),
         NEW more \in SUBSET Snapshot,
         \A s \in more : At(record[c], s) \/ s \in ActiveSnapshots(c)
  PROVE  /\ Recoverable(record[c], ActiveSnapshots(c) \cup more)
         /\ \A s \in ActiveSnapshots(c) \cup more : At(Recovered(record[c], ActiveSnapshots(c) \cup more), s)
<1> DEFINE snaps == ActiveSnapshots(c) \cup more
<1>1. snaps \in SUBSET Snapshot /\ record[c] \in Seq(Entry)
  BY SnapshotsOf DEF RecordTypes
<1>2. \A s \in snaps : At(record[c], s) \/ (Upcoming(record[c], s) /\ s \in ActiveSnapshots(c))
  BY DEF SnapshotsFit
<1>3. \A s, t \in snaps : (Upcoming(record[c], s) /\ Upcoming(record[c], t)) => s = t
  BY <1>2, AtNotUpcoming DEF SnapshotsFit
<1> HIDE DEF snaps
<1>4. /\ Recoverable(record[c], snaps)
      /\ \A s \in snaps : At(Recovered(record[c], snaps), s)
  BY <1>1, <1>2, <1>3, NextRecovers
<1> QED  BY <1>4 DEF snaps

\* A void window stays void unless it is the one handed off.
LEMMA VoidKept ==
  ASSUME NEW w \in EventIds, Keeps(w), Void(w),
         \A f \in EventIds : \/ Keeps(f)
                             \/ ~Replies(f)'
                             \/ ~(events'[f].key = events[w].key /\ events'[f].session = Home[events[w].session])
  PROVE  Void(w)'
<1>1. events'[w].state = "completed" /\ events'[w].key = events[w].key /\ events'[w].session = events[w].session
  BY DEF Keeps, SameEvent, Void
<1>2. \A f \in EventIds :
        (Replies(f)' /\ events'[f].key = events[w].key /\ events'[f].session = Home[events[w].session])
          => Replies(f) /\ events[f].key = events[w].key /\ events[f].session = Home[events[w].session]
  BY KeepsReply DEF Keeps, SameEvent
<1>3. ~HandedOff(w)'
  BY <1>1, <1>2 DEF Void, HandedOff
<1> QED  BY <1>1, <1>3 DEF Void

LEMMA OneLivesKept ==
  ASSUME NEW w \in EventIds, NEW x \in EventIds, Keeps(w), Keeps(x), OneLives(w, x),
         (SenderEvent(w) /\ Void(w)) => Void(w)', (SenderEvent(x) /\ Void(x)) => Void(x)'
  PROVE  OneLives(w, x)'
BY KeepsReply DEF OneLives, Keeps

AtGate(m) == \E i \in Copies : intake[m][i] # "none"

LEMMA NewKept ==
  ASSUME NEW m, NewAtGate(m),
         AtGate(m)' => AtGate(m) /\ (m \in Entries(record'[ConvOf(m)]) => m \in Entries(record[ConvOf(m)])),
         \A w \in EventIds : (SenderEvent(w)' /\ m \in window'[w] /\ AtGate(m))
           => SenderEvent(w) /\ m \in window[w],
         \A w \in EventIds : (SenderEvent(w) /\ m \in window[w] /\ Void(w)) => Void(w)'
  PROVE  NewAtGate(m)'
<1>1. ConvOf(m)' = ConvOf(m)
  BY DEF ConvOf
<1> QED  BY <1>1 DEF NewAtGate, AtGate

--------------------------------------------------------------------------------
(* Steps by what they leave alone *)

\* What the instance bounds.
LEMMA BoundFacts ==
  ASSUME IntakeTypeOK
  PROVE  /\ bound.time \in Nat /\ bound.time \in 0..MaxTime /\ Delay \in Nat
         /\ now \in Nat /\ now \in 0..MaxTime /\ now <= bound.time
         /\ bound.copies \subseteq Copies /\ bound.messages \subseteq Messages
         /\ MaxTime \in Nat /\ RecordTypes /\ TurnTypeOK
         /\ \A e \in EventIds : events[e].at \in Nat
<1>1. bound \in Bound /\ MaxTime \in Nat
  BY IntakeAssumption, TurnAssumption DEF IntakeTypeOK
<1>2. /\ bound.time \in 0..MaxTime /\ Delay \in Nat
      /\ bound.copies \subseteq Copies /\ bound.messages \subseteq Messages
  BY <1>1 DEF Bound, Delay
<1>3. now \in 0..bound.time /\ TurnTypeOK
  BY DEF IntakeTypeOK
<1>4. now \in Nat /\ now \in 0..MaxTime /\ now <= bound.time /\ bound.time \in Nat
  BY <1>1, <1>2, <1>3
<1>5. RecordTypes
  BY DEF RecordTypes, IntakeTypeOK, Entry
<1>6. \A e \in EventIds : events[e].at \in Nat
  BY <1>1, <1>3, SessionKinds
<1> QED  BY <1>1, <1>2, <1>3, <1>4, <1>5, <1>6

\* An event that a handler goes on holding, or a window that has moved on under it.
HeldOn(f) ==
  /\ events'[f].session = events[f].session /\ events'[f].key = events[f].key
  /\ events'[f].state = events[f].state /\ window[f] \subseteq window'[f]
  /\ \/ events'[f].at = events[f].at /\ events'[f].body = events[f].body
     \/ events'[f].at > events[f].at /\ events[f].session \in Senders

Idle(f) == events[f].state # "running"

\* Handlers go on, or end with their turn.
LEMMA JobsKept ==
  ASSUME IntakeTypeOK, IntakeTypeOK', JobsFit, ~Lost,
         \A f \in EventIds :
           \/ jobs'[f] = jobs[f] /\ (HeldOn(f) \/ (Idle(f) /\ Idle(f)'))
           \/ jobs'[f].pc = "none" /\ Idle(f)'
           \/ jobs'[f].pc # "none" /\ JobFit(f)'
  PROVE  JobsFit'
<1>1. \A f \in EventIds : JobFit(f) /\ (events[f].state = "running" => jobs[f].pc # "none")
  BY DEF JobsFit, Lost
<1>2. ASSUME NEW f \in EventIds
      PROVE  JobFit(f)' /\ (events'[f].state = "running" => jobs'[f].pc # "none")
  <2>1. CASE jobs'[f].pc = "none" /\ Idle(f)'
    BY <2>1 DEF JobFit, Idle
  <2>2. CASE jobs'[f] = jobs[f] /\ Idle(f) /\ Idle(f)'
    BY <1>1, <2>2 DEF JobFit, Idle
  <2>3. CASE jobs'[f] = jobs[f] /\ HeldOn(f)
    <3>1. events'[f].state = "running" => jobs'[f].pc # "none"
      BY <1>1, <2>3 DEF HeldOn
    <3> SUFFICES ASSUME jobs[f].pc # "none" PROVE JobFit(f)'
      BY <2>3, <3>1 DEF JobFit
    <3>2. jobs[f].at \in Nat /\ events[f].at \in Nat /\ events'[f].at \in Nat
      <4>1. jobs[f].at \in 0..MaxTime /\ events[f].at \in 0..MaxTime
        BY SessionKinds DEF IntakeTypeOK
      <4>2. TurnTypeOK' /\ MaxTime \in Nat
        BY TurnAssumption DEF IntakeTypeOK
      <4>3. events'[f].at \in 0..MaxTime
        BY <4>2 DEF TurnTypeOK, Event
      <4> QED  BY <4>1, <4>2, <4>3
    <3>3. /\ events[f].state = "running" /\ jobs[f].at <= events[f].at
          /\ (jobs[f].at = events[f].at \/ Replies(f)) => jobs[f].body = events[f].body
          /\ WellFormed(jobs[f].body, events[f].key) /\ Named(jobs[f].body) \subseteq window[f]
          /\ jobs[f].pc = "ready" => events[f].session \in Senders
      BY <1>1 DEF JobFit
    <3>4. (Replies(f))' <=> Replies(f)
      BY <2>3 DEF HeldOn, Replies
    <3>5. jobs[f].at <= events'[f].at
          /\ ((jobs[f].at = events'[f].at \/ Replies(f)) => jobs[f].body = events'[f].body)
      <4>1. CASE events'[f].at = events[f].at /\ events'[f].body = events[f].body
        BY <3>3, <4>1
      <4>2. CASE events'[f].at > events[f].at /\ events[f].session \in Senders
        <5>1. ~Replies(f)
          BY <4>2, IntakeAssumption DEF Replies
        <5> QED  BY <3>2, <3>3, <4>2, <5>1
      <4> QED  BY <2>3, <4>1, <4>2 DEF HeldOn
    <3> QED  BY <2>3, <3>3, <3>4, <3>5 DEF JobFit, HeldOn
  <2> QED  BY <2>1, <2>2, <2>3
<1> QED  BY <1>2 DEF JobsFit, Lost

LEMMA JobsGone ==
  ASSUME \A f \in EventIds : jobs'[f].pc = "none"
  PROVE  JobsFit'
BY DEF JobsFit, JobFit

\* One conversation's record is written, in a calm instance on disk too.
LEMMA RecordsMove ==
  ASSUME RecordTypes, RecordsOnce, Written, bound' = bound, NEW c \in Conversations, NEW new \in Seq(Entry),
         DOMAIN disk = Conversations,
         record' = [record EXCEPT ![c] = new], NoRepeat(record[c]) => NoRepeat(new),
         \/ disk' = [disk EXCEPT ![c] = record'[c]]
         \/ disk' = disk /\ ~Calm
  PROVE  /\ RecordTypes' /\ DOMAIN disk' = Conversations
         /\ RecordsOnce' /\ Written'
         /\ record'[c] = new /\ \A d \in Conversations : d # c => record'[d] = record[d]
         /\ Extends(record[c], new) => Grown
<1>1. DOMAIN record = Conversations
  BY DEF RecordTypes
<1>2. record'[c] = new /\ \A d \in Conversations : d # c => record'[d] = record[d]
  BY <1>1
<1>3. disk'[c] \in {disk[c], new} /\ \A d \in Conversations : d # c => disk'[d] = disk[d]
  BY <1>2
<1>4. RecordTypes' /\ DOMAIN disk' = Conversations
  BY <1>1, <1>2, <1>3 DEF RecordTypes
<1>5. RecordsOnce'
  BY <1>2, <1>3 DEF RecordsOnce
<1>6. Written'
  <2> SUFFICES ASSUME Calm PROVE record' = disk'
    BY DEF Written, Calm, Delay
  <2>1. record = disk /\ disk' = [disk EXCEPT ![c] = record'[c]]
    BY DEF Written
  <2> QED  BY <1>2, <2>1
<1>7. ASSUME Extends(record[c], new) PROVE Grown
  <2>1. \A d \in Conversations : Extends(record[d], record[d])
    BY DEF RecordTypes, Extends
  <2>2. \A d \in Conversations : Extends(record[d], record'[d])
    BY <1>2, <1>7, <2>1
  <2> QED  BY <1>4, <2>2 DEF Grown
<1> QED  BY <1>2, <1>4, <1>5, <1>6, <1>7

LEMMA RecordsSame ==
  ASSUME RecordTypes, RecordsOnce, Written, bound' = bound, UNCHANGED <<record, disk>>
  PROVE  RecordTypes' /\ RecordsOnce' /\ Written' /\ Grown
<1>1. RecordTypes' /\ RecordsOnce' /\ Written'
  BY DEF RecordTypes, RecordsOnce, Written, Calm, Delay
<1>2. \A d \in Conversations : Extends(record[d], record'[d])
  BY DEF RecordTypes, Extends
<1> QED  BY <1>1, <1>2 DEF Grown

\* A recovery that throws leaves the record in order, and the disk as it was.
LEMMA ThrowFacts ==
  ASSUME RecordTypes, RecordsOnce, Written, bound' = bound, NEW c \in Conversations, ~Calm,
         NEW snaps \in SUBSET Snapshot, Throw(c, snaps),
         record \in [Conversations -> Seq(Messages \cup {Assistant})],
         disk \in [Conversations -> Seq(Messages \cup {Assistant})]
  PROVE  /\ RecordTypes' /\ RecordsOnce' /\ Written' /\ Grown /\ disk' = disk
         /\ record' \in [Conversations -> Seq(Messages \cup {Assistant})]
         /\ \A d \in Conversations : d # c => record'[d] = record[d]
<1>1. PICK P \in SUBSET Unique(snaps) :
        /\ Recoverable(record[c], P) /\ disk' = disk
        /\ record' = [record EXCEPT ![c] = Recovered(record[c], P)]
  BY DEF Throw, Passes
<1>2. P \in SUBSET Snapshot /\ record[c] \in Seq(Entry)
  BY <1>1 DEF Unique, RecordTypes
<1>3. PICK new \in Seq(Entry) : /\ new = Recovered(record[c], P) /\ Extends(record[c], new)
                                /\ NoRepeat(record[c]) => NoRepeat(new)
  BY <1>1, <1>2, RecoveredFacts
<1>4. record' = [record EXCEPT ![c] = new] /\ DOMAIN disk = Conversations
  BY <1>1, <1>3
<1>5. /\ RecordTypes' /\ RecordsOnce' /\ Written' /\ Grown
      /\ \A d \in Conversations : d # c => record'[d] = record[d]
  BY <1>1, <1>3, <1>4, RecordsMove
<1>6. record' \in [Conversations -> Seq(Messages \cup {Assistant})]
  BY <1>3, <1>4 DEF Entry
<1> QED  BY <1>1, <1>5, <1>6

LEMMA QuietSnapshots ==
  ASSUME TurnTypeOK, TurnTypeOK', QuietStep, NEW c
  PROVE  ActiveSnapshots(c)' \subseteq ActiveSnapshots(c)
BY SnapshotsFrom DEF QuietStep

\* What waits in a conversation holds back nobody: its snapshots are recorded.
LEMMA FitGrown ==
  ASSUME Grown, NEW c \in Conversations, SnapshotsFit(c), Waits(c), ActiveSnapshots(c)' \subseteq ActiveSnapshots(c)
  PROVE  SnapshotsFit(c)'
<1>1. \A s \in ActiveSnapshots(c)' : At(record[c], s)
  BY GateSettled
<1> QED  BY <1>1, GrownKeeps, FitAll

LEMMA ReachQuiet ==
  ASSUME TurnTypeOK, Grown, RecordsReach, QuietStep, \A c \in Conversations : SnapshotsFit(c)',
         \A e \in EventIds : jobs'[e] = jobs[e] \/ jobs'[e].pc = "none" \/ JobRecorded(e)'
  PROVE  RecordsReach'
<1>1. \A e \in EventIds : Keeps(e) /\ WindowReach(e) /\ ReplyRecorded(e) /\ JobRecorded(e)
  BY DEF QuietStep, RecordsReach
<1>2. \A e \in EventIds : WindowReach(e)' /\ ReplyRecorded(e)'
  BY <1>1, WindowReachKept, ReplyRecordedKept
<1>3. \A e \in EventIds : JobRecorded(e)'
  BY <1>1, JobRecordedKept
<1> QED  BY <1>2, <1>3 DEF RecordsReach

LEMMA AloneQuiet ==
  ASSUME Alone, QuietStep,
         \A m \in Messages :
           \/ AtGate(m)' => AtGate(m) /\ (m \in Entries(record'[ConvOf(m)]) => m \in Entries(record[ConvOf(m)]))
           \/ NewAtGate(m)'
  PROVE  Alone'
<1>1. \A f \in EventIds : Keeps(f) /\ (SenderEvent(f)' <=> SenderEvent(f)) /\ window'[f] = window[f]
  <2>1. \A f \in EventIds : Keeps(f) /\ window'[f] = window[f]
    BY DEF QuietStep, Keeps
  <2> QED  BY <2>1, KeepsReply
<1>2. \A w \in EventIds : Void(w) => Void(w)'
  BY <1>1, VoidKept
<1>3. \A w, x \in EventIds : OneLives(w, x)'
  BY <1>1, <1>2, OneLivesKept DEF Alone
<1>4. \A m \in Messages : NewAtGate(m)'
  BY <1>1, <1>2, NewKept DEF Alone
<1> QED  BY <1>3, <1>4 DEF Alone

LEMMA StillQuiet ==
  ASSUME UNCHANGED <<turnVars, window, bound>>
  PROVE  QuietStep /\ (\A f \in EventIds : HeldOn(f)) /\ (TurnTypeOK => TurnTypeOK')
<1>1. UNCHANGED <<events, filled, turns, said, next, done, window, bound>>
  BY DEF turnVars
<1>2. QuietStep
  BY <1>1 DEF QuietStep, Keeps, SameEvent
<1>3. \A f \in EventIds : HeldOn(f)
  BY <1>1 DEF HeldOn
<1>4. TurnTypeOK => TurnTypeOK'
  BY <1>1 DEF TurnTypeOK
<1> QED  BY <1>2, <1>3, <1>4

\* A step that leaves the queue and the handlers alone.
LEMMA BaseStill ==
  ASSUME Base, ~Lost, UNCHANGED <<turnVars, window, bound, jobs>>, IntakeTypeOK', GateFit',
         RecordsOnce', Written'
  PROVE  Base'
<1>1. QuietStep /\ \A f \in EventIds : HeldOn(f)
  BY StillQuiet
<1>2. Books'
  BY <1>1, BooksQuiet DEF Base
<1>3. JobsFit'
  BY <1>1, JobsKept DEF Base
<1> QED  BY <1>2, <1>3 DEF Base

\* What a handler may have at the gate in a calm instance: one delivery of a message.
LEMMA OneDelivery ==
  ASSUME Base, Calm, Delay # 0, NEW m \in Messages, NEW i \in Copies, intake[m][i] # "none",
         NEW j \in bound.copies, j \in Copies, intake[m][j] # "none"
  PROVE  i = j
BY DEF Base, GateFit, Calm

LEMMA CalmRecords ==
  ASSUME Base, Calm
  PROVE  record = disk /\ "save" \notin bound.kinds /\ (Delay = 0 => "crash" \notin bound.kinds)
BY DEF Base, Written, Calm

\* The window a reply event comes from is the only one with its key.
LEMMA HandedOffWindow ==
  ASSUME Books, NEW w \in EventIds, SenderEvent(w), NEW r \in EventIds, Replies(r),
         events[r].key = events[w].key, events[r].session = Home[events[w].session]
  PROVE  Parent(w, r)
<1>1. /\ BodyFit(w) /\ ReplyFit(r) /\ \A f \in EventIds : BodyFit(f)
      /\ OneOfKey
  BY DEF Books
<1>2. Delay # 0
  BY <1>1 DEF BodyFit, SenderEvent
<1>3. PICK p \in EventIds : Parent(p, r)
  BY <1>1, <1>2 DEF ReplyFit
<1>4. \A f \in EventIds : SenderEvent(f) => From[events[f].key] = events[f].session
  BY <1>1 DEF BodyFit, SenderEvent, WellFormed, Named
<1>5. p = w
  BY <1>1, <1>3, <1>4 DEF Parent, OneOfKey, SenderEvent
<1> QED  BY <1>3, <1>5

\* A window that is answered, or may be, has its messages on record when its snapshots are.
LEMMA LiveRecorded ==
  ASSUME TurnTypeOK, Books, NEW m \in Messages, NEW w \in EventIds, SenderEvent(w), m \in window[w], ~Void(w),
         NEW rec,
         \A e \in EventIds : ((Active(e) \/ Replies(e)) /\ ConvOfEvent(e) = ConvOf(m)) =>
           \A x \in window[e] : x \in Named(events[e].body) \/ Reaches(rec, events[e].body, x),
         \A s \in ActiveSnapshots(ConvOf(m)) : At(rec, s),
         \A e \in EventIds : (Replies(e) /\ events[e].session = ConvOf(m)) => \A s \in events[e].body : At(rec, s)
  PROVE  m \in Entries(rec)
<1>1. BodyFit(w)
  BY DEF Books
<1>2. Delay # 0 /\ From[m] = events[w].session /\ events[w].session \in Senders
  BY <1>1 DEF BodyFit, SenderEvent
<1>3. Home[events[w].session] = ConvOf(m) /\ ConvOfEvent(w) = ConvOf(m)
  BY <1>2 DEF ConvOf, ConvOfEvent
<1>4. \A body : Reaches(rec, body, m) => m \in Entries(rec)
  BY DEF Reaches, Entries
<1>5. \A body : (m \in Named(body) /\ \A s \in body : At(rec, s)) => m \in Entries(rec)
  BY DEF Named, At, Entries
<1>6. CASE Active(w)
  <2>1. \A s \in events[w].body : At(rec, s)
    BY <1>2, <1>3, <1>6, SnapshotsOf
  <2> QED  BY <1>3, <1>4, <1>5, <1>6, <2>1
<1>7. CASE ~Active(w)
  <2>1. HandedOff(w)
    BY <1>7, SessionKinds DEF Void, Active, SenderEvent, Present
  <2>2. PICK r \in EventIds : Replies(r) /\ events[r].key = events[w].key
                              /\ events[r].session = Home[events[w].session]
    BY <2>1 DEF HandedOff
  <2>3. window[r] = window[w]
    BY <2>2, HandedOffWindow DEF Parent
  <2>4. ConvOfEvent(r) = ConvOf(m)
    BY <2>2, <1>3, SessionKinds DEF Replies, ConvOfEvent
  <2> QED  BY <1>3, <1>4, <1>5, <2>2, <2>3, <2>4
<1> QED  BY <1>6, <1>7

LEMMA Assembled ==
  ASSUME bound' = bound, Base', Calm => RecordsReach', (Calm /\ Delay # 0) => Alone'
  PROVE  IntakeInv'
BY DEF IntakeInv, Calm, Delay

--------------------------------------------------------------------------------
(* The steps that leave queue and records alone *)

LEMMA TickKeeps ==
  ASSUME IntakeInv, ~Lost, Tick
  PROVE  IntakeInv'
<1>1. /\ UNCHANGED <<turnVars, seen, record, disk, intake, jobs, window, bound, budget>>
      /\ Base /\ now' = now + 1 /\ now < bound.time
  BY DEF Tick, IntakeInv, intakeVars
<1>2. QuietStep /\ (\A f \in EventIds : HeldOn(f)) /\ TurnTypeOK' /\ TurnTypeOK
  BY <1>1, StillQuiet DEF Base, IntakeTypeOK
<1>3. IntakeTypeOK'
  <2>1. now' \in 0..bound.time
    BY <1>1, BoundFacts DEF Base
  <2>2. events' = events
    BY <1>1 DEF turnVars
  <2> QED  BY <1>1, <1>2, <2>1, <2>2 DEF Base, IntakeTypeOK
<1>4. RecordsOnce' /\ Written' /\ Grown
  BY <1>1, BoundFacts, RecordsSame DEF Base
<1>5. GateFit'
  BY <1>1 DEF Base, GateFit
<1>6. Base'
  BY <1>1, <1>3, <1>4, <1>5, BaseStill
<1>7. ASSUME Calm PROVE RecordsReach'
  <2>1. \A c \in Conversations : SnapshotsFit(c)'
    BY <1>1, <1>2, <1>7, QuietSnapshots, FitSame DEF IntakeInv, RecordsReach, Waits, ConvOf
  <2> QED  BY <1>1, <1>2, <1>4, <1>7, <2>1, ReachQuiet DEF IntakeInv
<1>8. ASSUME Calm, Delay # 0 PROVE Alone'
  BY <1>1, <1>2, <1>8, AloneQuiet DEF IntakeInv, AtGate
<1> QED  BY <1>1, <1>6, <1>7, <1>8, Assembled

LEMMA ForgetKeeps ==
  ASSUME IntakeInv, ~Lost, NEW m \in Messages, Forget(m)
  PROVE  IntakeInv'
<1>1. /\ UNCHANGED <<turnVars, now, record, disk, intake, jobs, window, bound>>
      /\ Base /\ seen' \subseteq seen
  BY DEF Forget, Disturb, IntakeInv
<1>2. QuietStep /\ (\A f \in EventIds : HeldOn(f)) /\ TurnTypeOK' /\ TurnTypeOK
  BY <1>1, StillQuiet DEF Base, IntakeTypeOK
<1>3. IntakeTypeOK'
  <2>1. budget' \in 0..bound.faults
    <3>1. bound.faults \in Nat /\ budget \in 0..bound.faults
      BY IntakeAssumption DEF Bound, IntakeInv, Base, IntakeTypeOK
    <3> QED  BY <3>1 DEF Forget, Disturb
  <2>2. events' = events
    BY <1>1 DEF turnVars
  <2> QED  BY <1>1, <1>2, <2>1, <2>2 DEF Base, IntakeTypeOK
<1>4. RecordsOnce' /\ Written' /\ Grown
  BY <1>1, BoundFacts, RecordsSame DEF Base
<1>5. GateFit'
  BY <1>1 DEF Base, GateFit
<1>6. Base'
  BY <1>1, <1>3, <1>4, <1>5, BaseStill
<1>7. ASSUME Calm PROVE RecordsReach'
  <2>1. \A c \in Conversations : SnapshotsFit(c)'
    BY <1>1, <1>2, <1>7, QuietSnapshots, FitSame DEF IntakeInv, RecordsReach, Waits, ConvOf
  <2> QED  BY <1>1, <1>2, <1>4, <1>7, <2>1, ReachQuiet DEF IntakeInv
<1>8. ASSUME Calm, Delay # 0 PROVE Alone'
  BY <1>1, <1>2, <1>8, AloneQuiet DEF IntakeInv, AtGate
<1> QED  BY <1>1, <1>6, <1>7, <1>8, Assembled

LEMMA DisturbFacts ==
  ASSUME IntakeTypeOK, NEW kind, Disturb(kind)
  PROVE  bound' = bound /\ budget' \in 0..bound.faults /\ kind \in bound.kinds
<1>1. bound.faults \in Nat /\ budget \in 0..bound.faults
  BY IntakeAssumption DEF Bound, IntakeTypeOK
<1> QED  BY <1>1 DEF Disturb

\* A delivery leaves the gate.
LEMMA GateLeft ==
  ASSUME IntakeTypeOK, GateFit, bound' = bound, NEW m \in Messages, NEW i \in Copies,
         intake' = [intake EXCEPT ![m][i] = "none"]
  PROVE  /\ intake' \in [Messages -> [Copies -> {"none", "plain", "strict"}]]
         /\ GateFit' /\ intake'[m][i] = "none"
         /\ \A x \in Messages, j \in Copies : intake'[x][j] # "none" => intake[x][j] # "none"
         /\ \A x \in Messages : AtGate(x)' => AtGate(x)
         /\ \A c : Waits(c)' => Waits(c)
<1>1. intake \in [Messages -> [Copies -> {"none", "plain", "strict"}]]
  BY DEF IntakeTypeOK
<1>2. /\ intake' \in [Messages -> [Copies -> {"none", "plain", "strict"}]] /\ intake'[m][i] = "none"
      /\ \A x \in Messages, j \in Copies : intake'[x][j] # "none" => intake[x][j] # "none"
  BY <1>1
<1>3. GateFit'
  BY <1>2 DEF GateFit
<1> QED  BY <1>2, <1>3 DEF AtGate, Waits, ConvOf

LEMMA BumpDuplicateKeeps ==
  ASSUME IntakeInv, ~Lost, NEW m \in Messages, NEW i \in Copies, BumpDuplicate(m, i)
  PROVE  IntakeInv'
<1>1. /\ UNCHANGED <<turnVars, now, record, disk, jobs, window, bound, budget>>
      /\ Base /\ seen' = seen \cup {m} /\ intake' = [intake EXCEPT ![m][i] = "none"]
  BY DEF BumpDuplicate, IntakeInv
<1>2. QuietStep /\ (\A f \in EventIds : HeldOn(f)) /\ TurnTypeOK' /\ TurnTypeOK
  BY <1>1, StillQuiet DEF Base, IntakeTypeOK
<1>3. /\ intake' \in [Messages -> [Copies -> {"none", "plain", "strict"}]] /\ GateFit'
      /\ \A x \in Messages : AtGate(x)' => AtGate(x)
      /\ \A c : Waits(c)' => Waits(c)
  BY <1>1, GateLeft DEF Base
<1>4. IntakeTypeOK'
  <2>1. events' = events
    BY <1>1 DEF turnVars
  <2> QED  BY <1>1, <1>2, <1>3, <2>1 DEF Base, IntakeTypeOK
<1>5. RecordsOnce' /\ Written' /\ Grown
  BY <1>1, BoundFacts, RecordsSame DEF Base
<1>6. Base'
  BY <1>1, <1>3, <1>4, <1>5, BaseStill
<1>7. ASSUME Calm PROVE RecordsReach'
  <2>1. \A c \in Conversations : SnapshotsFit(c)'
    BY <1>1, <1>2, <1>3, <1>7, QuietSnapshots, FitSame DEF IntakeInv, RecordsReach
  <2> QED  BY <1>1, <1>2, <1>5, <1>7, <2>1, ReachQuiet DEF IntakeInv
<1>8. ASSUME Calm, Delay # 0 PROVE Alone'
  BY <1>1, <1>2, <1>3, <1>8, AloneQuiet DEF IntakeInv, ConvOf
<1> QED  BY <1>1, <1>6, <1>7, <1>8, Assembled

\* A delivery gets past the recovery.
LEMMA PassedKeeps ==
  ASSUME IntakeInv, ~Lost, NEW m \in Messages, NEW i \in Copies, Arrive(m, i),
         Recoverable(record[ConvOf(m)], ToRecover(ConvOf(m)))
  PROVE  IntakeInv'
<1> DEFINE c == ConvOf(m)
           snaps == ActiveSnapshots(c)
           new == IF snaps = {} THEN record[c] ELSE Recovered(record[c], snaps)
<1>1. /\ UNCHANGED <<turnVars, now, jobs, window, bound, budget>> /\ Base
      /\ m \in bound.messages /\ i \in bound.copies /\ intake[m][i] = "none"
      /\ Recoverable(record[c], snaps)
      /\ IF snaps = {} THEN UNCHANGED <<record, disk>> ELSE Recover(c, snaps)
      /\ \/ m \in Entries(record'[c]) /\ seen' = seen \cup {m} /\ UNCHANGED intake
         \/ /\ m \notin Entries(record'[c]) /\ UNCHANGED seen
            /\ \E how \in {"plain", "strict"} : intake' = [intake EXCEPT ![m][i] = how]
  BY DEF Arrive, ToRecover, IntakeInv
<1>2. QuietStep /\ (\A f \in EventIds : HeldOn(f)) /\ TurnTypeOK' /\ TurnTypeOK /\ events' = events
  BY <1>1, StillQuiet DEF Base, IntakeTypeOK, turnVars
<1>3. c \in Conversations /\ record[c] \in Seq(Entry) /\ snaps \in SUBSET Snapshot /\ RecordTypes
      /\ DOMAIN disk = Conversations
  BY <1>1, <1>2, IntakeAssumption, BoundFacts, SnapshotsOf DEF ConvOf, RecordTypes, Base, IntakeTypeOK
<1>4. /\ new \in Seq(Entry) /\ Extends(record[c], new) /\ (NoRepeat(record[c]) => NoRepeat(new))
      /\ Entries(new) \subseteq Entries(record[c]) \cup Named(snaps)
  BY <1>1, <1>3, RecoveredFacts DEF Extends
<1>5. record' = [record EXCEPT ![c] = new] /\ disk' \in {disk, [disk EXCEPT ![c] = record'[c]]}
      /\ (disk' = disk => snaps = {} \/ disk' = [disk EXCEPT ![c] = record'[c]])
  <2>1. record \in [Conversations -> Seq(Messages \cup {Assistant})]
    BY <1>1 DEF Base, IntakeTypeOK
  <2>2. CASE snaps = {}
    BY <1>1, <1>3, <2>1, <2>2
  <2>3. CASE snaps # {}
    BY <1>1, <1>3, <2>1, <2>3 DEF Recover
  <2> QED  BY <2>2, <2>3
<1>6. /\ RecordTypes' /\ DOMAIN disk' = Conversations /\ RecordsOnce' /\ Written' /\ Grown
      /\ record'[c] = new /\ \A d \in Conversations : d # c => record'[d] = record[d]
  <2>1. CASE snaps = {}
    BY <1>1, <1>3, <2>1, RecordsSame DEF Base
  <2>2. CASE snaps # {}
    <3>1. disk' = [disk EXCEPT ![c] = record'[c]]
      BY <1>1, <2>2 DEF Recover
    <3> QED  BY <1>1, <1>3, <1>4, <1>5, <3>1, RecordsMove DEF Base
  <2> QED  BY <2>1, <2>2
<1> HIDE DEF new
<1>7. /\ intake' \in [Messages -> [Copies -> {"none", "plain", "strict"}]] /\ GateFit'
      /\ \A x \in Messages, j \in Copies : intake'[x][j] # intake[x][j] => x = m /\ j = i
      /\ m \in Entries(record'[c]) => UNCHANGED intake
  <2>1. intake \in [Messages -> [Copies -> {"none", "plain", "strict"}]]
    BY <1>1 DEF Base, IntakeTypeOK
  <2>2. /\ intake' \in [Messages -> [Copies -> {"none", "plain", "strict"}]]
        /\ \A x \in Messages, j \in Copies : intake'[x][j] # intake[x][j] => x = m /\ j = i
    BY <1>1, <2>1
  <2>3. GateFit'
    BY <1>1, <2>2 DEF Base, GateFit
  <2> QED  BY <1>1, <2>2, <2>3
<1>8. IntakeTypeOK'
  <2>1. record' \in [Conversations -> Seq(Messages \cup {Assistant})]
        /\ disk' \in [Conversations -> Seq(Messages \cup {Assistant})]
    <3>1. record' = [d \in Conversations |-> record'[d]] /\ disk' = [d \in Conversations |-> disk'[d]]
      BY <1>5, <1>6, <1>1 DEF RecordTypes, Base, IntakeTypeOK
    <3> QED  BY <1>6, <3>1 DEF RecordTypes, Entry
  <2> QED  BY <1>1, <1>2, <1>7, <2>1 DEF Base, IntakeTypeOK
<1>9. Base'
  BY <1>1, <1>6, <1>7, <1>8, BaseStill
<1>10. ASSUME Calm PROVE RecordsReach' /\ \A s \in snaps : At(record'[c], s)
  <2>1. SnapshotsFit(c) /\ NoRepeat(record[c]) /\ RecordsReach
    BY <1>1, <1>3, <1>10 DEF IntakeInv, RecordsReach, Base, RecordsOnce
  <2>2. \A s \in snaps : At(Recovered(record[c], snaps), s)
    <3>1. \A s \in snaps \cup {} : At(Recovered(record[c], snaps \cup {}), s)
      BY <1>2, <1>3, <2>1, FitRecovers
    <3> QED  BY <3>1
  <2>3. \A s \in snaps : At(record'[c], s)
    BY <1>6, <2>2 DEF new
  <2>4. \A d \in Conversations : ActiveSnapshots(d)' \subseteq ActiveSnapshots(d)
    BY <1>2, QuietSnapshots
  <2>5. SnapshotsFit(c)'
    BY <2>3, <2>4, <1>3, FitAll
  <2>6. \A d \in Conversations : d # c => SnapshotsFit(d)'
    <3>1. \A d : d # c => (Waits(d)' => Waits(d))
      BY <1>7 DEF Waits, ConvOf
    <3> QED  BY <1>6, <2>1, <2>4, <3>1, FitSame DEF RecordsReach
  <2> QED  BY <1>1, <1>2, <1>6, <2>1, <2>3, <2>5, <2>6, ReachQuiet
<1>11. ASSUME Calm, Delay # 0 PROVE Alone'
  <2>0. Alone /\ RecordsReach /\ RecordsReach'
    BY <1>10, <1>11 DEF IntakeInv
  <2>1. ASSUME NEW x \in Messages, x # m, AtGate(x)'
        PROVE  AtGate(x) /\ (x \in Entries(record'[ConvOf(x)]) => x \in Entries(record[ConvOf(x)]))
    <3>1. AtGate(x) /\ Waits(ConvOf(x)) /\ ConvOf(x) \in Conversations
      BY <1>7, <2>1, IntakeAssumption DEF AtGate, Waits, ConvOf
    <3>2. CASE ConvOf(x) # c
      BY <1>6, <3>1, <3>2
    <3>3. CASE ConvOf(x) = c
      <4>1. \A s \in snaps : At(record[c], s)
        BY <2>0, <3>1, <3>3, GateSettled DEF RecordsReach
      <4>2. Named(snaps) \subseteq Entries(record[c])
        BY <4>1 DEF Named, At, Entries
      <4> QED  BY <1>4, <1>6, <3>1, <3>3, <4>2
    <3> QED  BY <3>2, <3>3
  <2>2. CASE m \in Entries(record'[c])
    <3>1. ~AtGate(m)'
      <4>1. \A j \in Copies : intake[m][j] = "none"
        BY <1>1, <1>11 DEF Base, GateFit, Calm
      <4> QED  BY <1>7, <2>2, <4>1 DEF AtGate
    <3> QED  BY <1>2, <2>0, <2>1, <3>1, AloneQuiet DEF ConvOf
  <2>3. CASE m \notin Entries(record'[c])
    <3>1. \A w \in EventIds : (SenderEvent(w) /\ m \in window[w]) => Void(w)
      <4> SUFFICES ASSUME NEW w \in EventIds, SenderEvent(w), m \in window[w], ~Void(w)
                   PROVE  m \in Entries(record'[c])
        BY <2>3
      <4>1. UNCHANGED <<events, window>>
        BY <1>1, <1>2
      <4>2. \A e \in EventIds : ((Active(e) \/ Replies(e)) /\ ConvOfEvent(e) = c) =>
              \A x \in window[e] : x \in Named(events[e].body) \/ Reaches(record'[c], events[e].body, x)
        BY <2>0, <4>1 DEF RecordsReach, WindowReach, Active, Replies, ConvOfEvent
      <4>3. \A e \in EventIds : (Replies(e) /\ events[e].session = c) =>
              \A s \in events[e].body : At(record'[c], s)
        BY <2>0, <4>1 DEF RecordsReach, ReplyRecorded, Replies
      <4> QED  BY <1>1, <1>2, <1>10, <1>11, <4>2, <4>3, LiveRecorded DEF Base
    <3>2. \A w \in EventIds : (SenderEvent(w)' /\ m \in window'[w]) => Void(w)'
      <4>1. UNCHANGED <<events, window>>
        BY <1>1, <1>2
      <4> QED  BY <3>1, <4>1 DEF SenderEvent, Present, Void, HandedOff, Replies
    <3>3. NewAtGate(m)'
      BY <2>3, <3>2 DEF NewAtGate, ConvOf
    <3> QED  BY <1>2, <2>0, <2>1, <3>3, AloneQuiet DEF ConvOf
  <2> QED  BY <2>2, <2>3
<1> QED  BY <1>1, <1>9, <1>10, <1>11, Assembled

\* A delivery is refused with the recovery that throws.
LEMMA RefusedKeeps ==
  ASSUME IntakeInv, ~Lost, NEW m \in Messages, NEW i \in Copies, Arrive(m, i),
         ~Recoverable(record[ConvOf(m)], ToRecover(ConvOf(m)))
  PROVE  IntakeInv'
<1> DEFINE c == ConvOf(m)
           snaps == ActiveSnapshots(c)
<1>1. /\ UNCHANGED <<turnVars, now, jobs, window, bound, budget, seen, intake>> /\ Base
      /\ ~Recoverable(record[c], snaps) /\ Throw(c, snaps)
  BY DEF Arrive, ToRecover, IntakeInv
<1>2. QuietStep /\ (\A f \in EventIds : HeldOn(f)) /\ TurnTypeOK' /\ TurnTypeOK /\ events' = events
  BY <1>1, StillQuiet DEF Base, IntakeTypeOK, turnVars
<1>3. /\ c \in Conversations /\ snaps \in SUBSET Snapshot /\ RecordTypes /\ RecordsOnce /\ Written
      /\ record \in [Conversations -> Seq(Messages \cup {Assistant})]
      /\ disk \in [Conversations -> Seq(Messages \cup {Assistant})]
  BY <1>1, <1>2, IntakeAssumption, BoundFacts, SnapshotsOf DEF ConvOf, Base, IntakeTypeOK
<1>4. ~Calm
  <2> SUFFICES ASSUME Calm PROVE FALSE
    OBVIOUS
  <2>1. SnapshotsFit(c) /\ NoRepeat(record[c])
    BY <1>3 DEF IntakeInv, RecordsReach, RecordsOnce
  <2>2. Recoverable(record[c], snaps \cup {})
    BY <1>2, <1>3, <2>1, FitRecovers
  <2> QED  BY <1>1, <2>2
<1>5. /\ RecordTypes' /\ RecordsOnce' /\ Written' /\ Grown /\ disk' = disk
      /\ record' \in [Conversations -> Seq(Messages \cup {Assistant})]
  BY <1>1, <1>3, <1>4, ThrowFacts
<1>6. IntakeTypeOK'
  BY <1>1, <1>2, <1>3, <1>5 DEF Base, IntakeTypeOK
<1>7. GateFit'
  BY <1>1 DEF Base, GateFit
<1>8. Base'
  BY <1>1, <1>5, <1>6, <1>7, BaseStill
<1> QED  BY <1>1, <1>4, <1>8, Assembled

LEMMA ArriveKeeps ==
  ASSUME IntakeInv, ~Lost, NEW m \in Messages, NEW i \in Copies, Arrive(m, i)
  PROVE  IntakeInv'
BY PassedKeeps, RefusedKeeps

--------------------------------------------------------------------------------
(* The process dies and is started again *)

LEMMA LoseFacts ==
  ASSUME Base, LoseMemory, UNCHANGED <<disk, bound>>
  PROVE  /\ seen' \subseteq Messages /\ intake' \in [Messages -> [Copies -> {"none", "plain", "strict"}]]
         /\ record' \in [Conversations -> Seq(Messages \cup {Assistant})]
         /\ jobs' \in [EventIds -> [pc : {"none", "claimed", "ready"}, at : 0..MaxTime, body : Bodies]]
         /\ \A e \in EventIds : jobs'[e].pc = "none"
         /\ \A m \in Messages : ~AtGate(m)'
         /\ \A c : ~Waits(c)'
         /\ JobsFit' /\ GateFit' /\ RecordsOnce' /\ Written'
         /\ Calm => (UNCHANGED record /\ Grown)
<1>1. /\ seen' \subseteq Messages /\ intake' \in [Messages -> [Copies -> {"none", "plain", "strict"}]]
      /\ record' \in [Conversations -> Seq(Messages \cup {Assistant})]
  BY DEF LoseMemory, Base, IntakeTypeOK, NoIntake
<1>2. NoJob \in [pc : {"none", "claimed", "ready"}, at : 0..MaxTime, body : Bodies] /\ NoJob.pc = "none"
  BY IntakeAssumption, TurnAssumption DEF NoJob
<1>3. /\ jobs' \in [EventIds -> [pc : {"none", "claimed", "ready"}, at : 0..MaxTime, body : Bodies]]
      /\ \A e \in EventIds : jobs'[e].pc = "none"
  BY <1>2 DEF LoseMemory
<1>4. \A m \in Messages, i \in Copies : intake'[m][i] = "none"
  BY DEF LoseMemory, NoIntake
<1>5. JobsFit' /\ GateFit'
  BY <1>3, <1>4, JobsGone DEF GateFit
<1>6. RecordsOnce' /\ Written'
  BY DEF Base, RecordsOnce, Written, LoseMemory
<1>7. ASSUME Calm PROVE UNCHANGED record /\ Grown
  <2>1. UNCHANGED record
    BY <1>7, CalmRecords DEF LoseMemory
  <2> QED  BY <2>1, BoundFacts, RecordsSame DEF Base
<1> QED  BY <1>1, <1>3, <1>4, <1>5, <1>6, <1>7 DEF AtGate, Waits

LEMMA CrashKeeps ==
  ASSUME IntakeInv, ~Lost, Crash
  PROVE  IntakeInv'
<1>1. UNCHANGED <<turnVars, now, disk, window>> /\ Base /\ LoseMemory /\ Disturb("crash") /\ IntakeTypeOK
  BY DEF Crash, IntakeInv, Base
<1>2. bound' = bound /\ budget' \in 0..bound.faults
  BY <1>1, DisturbFacts
<1>3. QuietStep /\ TurnTypeOK' /\ TurnTypeOK /\ events' = events
  BY <1>1, <1>2, StillQuiet DEF IntakeTypeOK, turnVars
<1>4. /\ seen' \subseteq Messages /\ intake' \in [Messages -> [Copies -> {"none", "plain", "strict"}]]
      /\ record' \in [Conversations -> Seq(Messages \cup {Assistant})]
      /\ jobs' \in [EventIds -> [pc : {"none", "claimed", "ready"}, at : 0..MaxTime, body : Bodies]]
      /\ \A e \in EventIds : jobs'[e].pc = "none"
      /\ \A m \in Messages : ~AtGate(m)'
      /\ \A c : ~Waits(c)'
      /\ JobsFit' /\ GateFit' /\ RecordsOnce' /\ Written'
      /\ Calm => (UNCHANGED record /\ Grown)
  BY <1>1, <1>2, LoseFacts
<1>5. IntakeTypeOK'
  BY <1>1, <1>2, <1>3, <1>4 DEF IntakeTypeOK
<1>6. Books'
  BY <1>1, <1>3, BooksQuiet DEF Base
<1>7. Base'
  BY <1>4, <1>5, <1>6 DEF Base
<1>8. ASSUME Calm PROVE RecordsReach'
  <2>1. \A c \in Conversations : SnapshotsFit(c)'
    BY <1>3, <1>4, <1>8, QuietSnapshots, FitSame DEF IntakeInv, RecordsReach
  <2> QED  BY <1>3, <1>4, <1>8, <2>1, ReachQuiet DEF IntakeInv
<1>9. ASSUME Calm, Delay # 0 PROVE Alone'
  BY <1>3, <1>4, <1>9, AloneQuiet DEF IntakeInv
<1> QED  BY <1>2, <1>7, <1>8, <1>9, Assembled

LEMMA RestartKeeps ==
  ASSUME IntakeInv, Restart
  PROVE  IntakeInv'
<1>1. /\ UNCHANGED <<now, seen, record, disk, intake, jobs, window, bound, budget>> /\ Base /\ Lost
      /\ RecoverTurnLeases(now) /\ IntakeTypeOK /\ TurnTypeOK /\ NothingSaid
  BY DEF Restart, IntakeInv, intakeVars, Base, IntakeTypeOK, Books
<1>2. /\ TurnTypeOK' /\ UNCHANGED <<filled, said>>
      /\ \A e \in EventIds :
           /\ SameEvent(e)
           /\ events'[e].at = events[e].at \/ events'[e].at = now
           /\ \/ events'[e].state = events[e].state
              \/ events[e].state = "running" /\ events'[e].state = "pending"
  BY <1>1, BoundFacts, RecoverLeaseFacts
<1>3. QuietStep
  BY <1>1, <1>2 DEF QuietStep, Keeps
<1>4. \A e \in EventIds : jobs'[e].pc = "none"
  BY <1>1 DEF Base, JobsFit
<1>5. IntakeTypeOK'
  <2>1. \A e \in EventIds : events'[e].at <= bound.time
    BY <1>1, <1>2, BoundFacts DEF IntakeTypeOK
  <2> QED  BY <1>1, <1>2, <2>1 DEF IntakeTypeOK
<1>6. Books' /\ JobsFit' /\ GateFit'
  BY <1>1, <1>3, <1>4, BooksQuiet, JobsGone DEF Base, GateFit
<1>7. RecordsOnce' /\ Written' /\ Grown
  BY <1>1, BoundFacts, RecordsSame DEF Base
<1>8. Base'
  BY <1>5, <1>6, <1>7 DEF Base
<1>9. ASSUME Calm PROVE RecordsReach'
  <2>1. \A c \in Conversations : SnapshotsFit(c)'
    BY <1>1, <1>2, <1>3, <1>9, QuietSnapshots, FitSame DEF IntakeInv, RecordsReach, Waits, ConvOf
  <2> QED  BY <1>1, <1>3, <1>4, <1>7, <1>9, <2>1, ReachQuiet DEF IntakeInv
<1>10. ASSUME Calm, Delay # 0 PROVE Alone'
  BY <1>1, <1>3, <1>10, AloneQuiet DEF IntakeInv, AtGate
<1> QED  BY <1>1, <1>8, <1>9, <1>10, Assembled

--------------------------------------------------------------------------------
(* A message is recorded, or opens a window *)

\* The message is recorded at its sequence, once.
LEMMA RecordedFacts ==
  ASSUME Base, NEW m \in Messages, NEW i \in Copies, NEW how \in {"recorded", "unsaved"}, bound' = bound,
         how = "unsaved" => "save" \in bound.kinds, NEW n, n = CaptureSequence(record[ConvOf(m)], m),
         n <= MaxRecord, Recorded(m, i, n, how)
  PROVE  /\ RecordsOnce' /\ Written' /\ GateFit' /\ Grown
         /\ record' \in [Conversations -> Seq(Messages \cup {Assistant})]
         /\ disk' \in [Conversations -> Seq(Messages \cup {Assistant})]
         /\ seen' \subseteq Messages
         /\ intake' \in [Messages -> [Copies -> {"none", "plain", "strict"}]]
         /\ \A x \in Messages : AtGate(x)' => AtGate(x)
         /\ \A c : Waits(c)' => Waits(c)
         /\ (Calm /\ Delay # 0 /\ intake[m][i] # "none") => ~AtGate(m)'
         /\ \A d \in Conversations : d # ConvOf(m) => record'[d] = record[d]
         /\ \A x \in Entries(record'[ConvOf(m)]) : x = m \/ x \in Entries(record[ConvOf(m)])
         /\ Calm => At(record'[ConvOf(m)], <<m, n>>)
<1> DEFINE c == ConvOf(m)
           rolledBack == how = "unsaved" /\ intake[m][i] = "strict"
           new == IF rolledBack THEN record[c] ELSE WithMessage(record[c], m, n)
<1>0. /\ record \in [Conversations -> Seq(Messages \cup {Assistant})]
      /\ disk \in [Conversations -> Seq(Messages \cup {Assistant})]
      /\ RecordTypes /\ c \in Conversations /\ record[c] \in Seq(Entry) /\ IntakeTypeOK
      /\ MaxRecord \in Nat
  BY IntakeAssumption, BoundFacts DEF Base, IntakeTypeOK, RecordTypes, ConvOf
<1>1. m \in Entry /\ (m \notin Entries(record[c]) => n = Len(record[c]) + 1)
  BY DEF Entry, CaptureSequence
<1>2. /\ WithMessage(record[c], m, n) \in Seq(Entry) /\ Extends(record[c], WithMessage(record[c], m, n))
      /\ NoRepeat(record[c]) => NoRepeat(WithMessage(record[c], m, n))
      /\ Entries(WithMessage(record[c], m, n)) \subseteq Entries(record[c]) \cup {m}
      /\ At(WithMessage(record[c], m, n), <<m, n>>)
  <2>1. CASE m \in Entries(record[c])
    <3>1. WithMessage(record[c], m, n) = record[c]
      BY <2>1 DEF WithMessage
    <3> QED  BY <1>0, <2>1, <3>1, CaptureFacts DEF Extends
  <2>2. CASE m \notin Entries(record[c])
    <3>1. n = Len(record[c]) + 1 /\ ~(Len(record[c]) >= n)
      BY <1>0, <1>1, <2>2
    <3>2. WithMessage(record[c], m, n) = Append(record[c], m)
      BY <2>2, <3>1 DEF WithMessage
    <3>3. n \in 1..Len(record[c]) + 1
      BY <1>0, <3>1
    <3>4. /\ Append(record[c], m) \in Seq(Entry) /\ Extends(record[c], Append(record[c], m))
          /\ Append(record[c], m)[n] = m /\ n \in DOMAIN Append(record[c], m)
          /\ Entries(Append(record[c], m)) = Entries(record[c]) \cup {m}
          /\ NoRepeat(record[c]) => NoRepeat(Append(record[c], m))
      BY <1>0, <1>1, <2>2, <3>1, <3>3, AppendRecord
    <3> QED  BY <3>2, <3>4 DEF At
  <2> QED  BY <2>1, <2>2
<1>3. new \in Seq(Entry) /\ Extends(record[c], new) /\ (NoRepeat(record[c]) => NoRepeat(new))
      /\ Entries(new) \subseteq Entries(record[c]) \cup {m}
  BY <1>0, <1>2 DEF Extends
<1>4. /\ record' = [record EXCEPT ![c] = new]
      /\ disk' = (IF how = "unsaved" THEN disk ELSE [disk EXCEPT ![c] = record'[c]])
      /\ seen' \in {seen, seen \cup {m}}
      /\ intake' = [intake EXCEPT ![m][i] = "none"]
  BY <1>0 DEF Recorded
<1> HIDE DEF new, rolledBack
<1>5. /\ RecordTypes' /\ DOMAIN disk' = Conversations /\ RecordsOnce' /\ Written' /\ Grown
      /\ record'[c] = new /\ \A d \in Conversations : d # c => record'[d] = record[d]
  <2>1. DOMAIN disk = Conversations
    BY <1>0
  <2>2. \/ disk' = [disk EXCEPT ![c] = record'[c]]
        \/ disk' = disk /\ ~Calm
    BY <1>4 DEF Calm
  <2>3. RecordsOnce /\ Written
    BY DEF Base
  <2> QED  BY <1>0, <1>3, <1>4, <2>1, <2>2, <2>3, RecordsMove
<1>6. /\ record' \in [Conversations -> Seq(Messages \cup {Assistant})]
      /\ disk' \in [Conversations -> Seq(Messages \cup {Assistant})]
  <2>1. record' = [d \in Conversations |-> record'[d]] /\ disk' = [d \in Conversations |-> disk'[d]]
    BY <1>0, <1>4, <1>5
  <2> QED  BY <1>5, <2>1 DEF RecordTypes, Entry
<1>7. /\ intake' \in [Messages -> [Copies -> {"none", "plain", "strict"}]] /\ GateFit'
      /\ intake'[m][i] = "none"
      /\ \A x \in Messages, j \in Copies : intake'[x][j] # "none" => intake[x][j] # "none"
      /\ \A x \in Messages : AtGate(x)' => AtGate(x)
      /\ \A d : Waits(d)' => Waits(d)
  BY <1>0, <1>4, GateLeft DEF Base
<1>8. ASSUME Calm, Delay # 0, intake[m][i] # "none" PROVE ~AtGate(m)'
  <2>1. \A j \in Copies : intake[m][j] # "none" => j = i
    BY <1>8 DEF Base, GateFit, Calm
  <2> QED  BY <1>7, <2>1 DEF AtGate
<1>9. ASSUME Calm PROVE At(record'[c], <<m, n>>)
  <2>1. new = WithMessage(record[c], m, n)
    BY <1>9 DEF Calm, new, rolledBack
  <2> QED  BY <1>2, <1>5, <2>1
<1>10. seen' \subseteq Messages
  BY <1>0, <1>4 DEF IntakeTypeOK
<1> QED  BY <1>3, <1>5, <1>6, <1>7, <1>8, <1>9, <1>10

\* A message is recorded and the queue is left alone.
LEMMA RecordedKeeps ==
  ASSUME IntakeInv, ~Lost, NEW m \in Messages, NEW i \in Copies, NEW how \in {"recorded", "unsaved"},
         IF how = "unsaved" THEN Disturb("save") ELSE UNCHANGED <<bound, budget>>,
         UNCHANGED <<turnVars, now, jobs, window>>, intake[m][i] # "none",
         NEW n, n = CaptureSequence(record[ConvOf(m)], m), n <= MaxRecord, Recorded(m, i, n, how)
  PROVE  IntakeInv'
<1> DEFINE c == ConvOf(m)
<1>0. n = CaptureSequence(record[c], m)
  OBVIOUS
<1>1. /\ UNCHANGED <<turnVars, now, jobs, window>> /\ Base /\ intake[m][i] # "none"
      /\ n <= MaxRecord /\ Recorded(m, i, n, how) /\ IntakeTypeOK
  BY DEF IntakeInv, Base
<1>2. bound' = bound /\ budget' \in 0..bound.faults /\ (how = "unsaved" => "save" \in bound.kinds)
  BY <1>1, DisturbFacts DEF IntakeTypeOK
<1>3. QuietStep /\ TurnTypeOK' /\ TurnTypeOK /\ events' = events
  BY <1>1, <1>2, StillQuiet DEF IntakeTypeOK, turnVars
<1>4. /\ RecordsOnce' /\ Written' /\ GateFit' /\ Grown
      /\ record' \in [Conversations -> Seq(Messages \cup {Assistant})]
      /\ disk' \in [Conversations -> Seq(Messages \cup {Assistant})]
      /\ seen' \subseteq Messages
      /\ intake' \in [Messages -> [Copies -> {"none", "plain", "strict"}]]
      /\ \A x \in Messages : AtGate(x)' => AtGate(x)
      /\ \A d : Waits(d)' => Waits(d)
      /\ (Calm /\ Delay # 0) => ~AtGate(m)'
      /\ \A d \in Conversations : d # c => record'[d] = record[d]
      /\ Entries(record'[c]) \subseteq Entries(record[c]) \cup {m}
  <2>1. /\ RecordsOnce' /\ Written' /\ GateFit' /\ Grown
        /\ record' \in [Conversations -> Seq(Messages \cup {Assistant})]
        /\ disk' \in [Conversations -> Seq(Messages \cup {Assistant})]
        /\ seen' \subseteq Messages
    BY <1>0, <1>1, <1>2, RecordedFacts
  <2>2. /\ intake' \in [Messages -> [Copies -> {"none", "plain", "strict"}]]
        /\ \A x \in Messages : AtGate(x)' => AtGate(x)
        /\ \A d : Waits(d)' => Waits(d)
        /\ (Calm /\ Delay # 0) => ~AtGate(m)'
    BY <1>0, <1>1, <1>2, RecordedFacts
  <2>3. \A d \in Conversations : d # ConvOf(m) => record'[d] = record[d]
    BY <1>0, <1>1, <1>2, RecordedFacts
  <2>4. \A x \in Entries(record'[ConvOf(m)]) : x = m \/ x \in Entries(record[ConvOf(m)])
    BY <1>0, <1>1, <1>2, RecordedFacts
  <2> QED  BY <2>1, <2>2, <2>3, <2>4
<1>5. IntakeTypeOK'
  BY <1>1, <1>2, <1>3, <1>4 DEF IntakeTypeOK
<1>6. Base'
  BY <1>1, <1>2, <1>4, <1>5, BaseStill
<1>7. Waits(c) /\ c \in Conversations
  BY <1>1, IntakeAssumption DEF Waits, ConvOf
<1>8. ASSUME Calm PROVE RecordsReach'
  <2>1. ASSUME NEW d \in Conversations PROVE SnapshotsFit(d)'
    <3>1. ActiveSnapshots(d)' \subseteq ActiveSnapshots(d) /\ SnapshotsFit(d)
      BY <1>3, <1>8, QuietSnapshots DEF IntakeInv, RecordsReach
    <3>2. CASE d = c
      BY <1>4, <1>7, <3>1, <3>2, FitGrown
    <3>3. CASE d # c
      BY <1>4, <3>1, <3>3, FitSame
    <3> QED  BY <3>2, <3>3
  <2> QED  BY <1>1, <1>3, <1>4, <1>8, <2>1, ReachQuiet DEF IntakeInv
<1>9. ASSUME Calm, Delay # 0 PROVE Alone'
  <2>1. \A x \in Messages : AtGate(x)' =>
          AtGate(x) /\ (x \in Entries(record'[ConvOf(x)]) => x \in Entries(record[ConvOf(x)]))
    <3> SUFFICES ASSUME NEW x \in Messages, AtGate(x)'
                 PROVE  x \in Entries(record'[ConvOf(x)]) => x \in Entries(record[ConvOf(x)])
      BY <1>4
    <3>1. x # m
      BY <1>4, <1>9
    <3>2. ConvOf(x) \in Conversations
      BY IntakeAssumption DEF ConvOf
    <3> QED  BY <1>4, <3>1, <3>2
  <2> QED  BY <1>3, <1>9, <2>1, AloneQuiet DEF IntakeInv
<1> QED  BY <1>2, <1>6, <1>8, <1>9, Assembled

\* The session a message's reply is scheduled in.
Target(m) == IF Delay = 0 THEN ConvOf(m) ELSE From[m]

\* The new event and its window, when the key is new.
LEMMA OpenedFacts ==
  ASSUME Base, NEW m \in Messages, bound' = bound, ActiveOf(From[m]) = {}, NEW n \in Nat, n > 0,
         ScheduleReply(m, n), ~IsDuplicate(Target(m), m), NEW e, e = filled + 1
  PROVE  /\ TurnTypeOK' /\ GrowStep(e) /\ Books' /\ n <= MaxRecord
         /\ events'[e].session = Target(m) /\ events'[e].body = {<<m, n>>}
         /\ \A f \in EventIds : events'[f].at <= bound.time
         /\ window' \in [EventIds -> SUBSET Messages] /\ window'[e] = {m}
         /\ \A f \in EventIds : f # e => HeldOn(f)
         /\ Idle(e) /\ Idle(e)' /\ ~Present(e)
<1> DEFINE s == Target(m)
<1>1. /\ IntakeTypeOK /\ TurnTypeOK /\ Books /\ window \in [EventIds -> SUBSET Messages]
      /\ now \in Nat /\ Delay \in Nat /\ bound.time \in Nat /\ bound.time <= MaxTime /\ MaxTime \in Nat
      /\ MaxRecord \in Nat
  BY BoundFacts, IntakeAssumption DEF Base, IntakeTypeOK
<1>2. /\ now + Delay <= bound.time /\ n <= MaxRecord
      /\ EnqueueEvent(s, m, {<<m, n>>}, now + Delay)
      /\ window' = [window EXCEPT ![filled + 1] = {m}]
  BY DEF ScheduleReply, Target
<1>3. now + Delay \in 0..MaxTime /\ n \in 1..MaxRecord
  BY <1>1, <1>2
<1>4. /\ s \in Sessions /\ m \in Keys /\ {<<m, n>>} \in Bodies /\ m # NoKey
      /\ (Delay = 0 => s = ConvOf(m) /\ s \in Conversations)
      /\ (Delay # 0 => s = From[m] /\ s \in Senders)
      /\ ConvOf(m) \in Conversations
  BY <1>3, IntakeAssumption DEF Target, ConvOf
<1> HIDE DEF s
<1>5. PICK at \in 0..MaxTime : at = now + Delay
  BY <1>3
<1>6. PICK t \in Sessions : t = s
  BY <1>4
<1>7. EnqueueEvent(t, m, {<<m, n>>}, at) /\ ~IsDuplicate(t, m)
  BY <1>2, <1>5, <1>6 DEF s
<1>8. /\ TurnTypeOK' /\ UNCHANGED said
      /\ e \in EventIds /\ filled' = e
      /\ \A f \in EventIds : f # e => events'[f] = events[f]
      /\ events'[e] = PendingEvent(t, next[t] + 1, m, {<<m, n>>}, at)
  BY <1>1, <1>4, <1>7, EnqueueFacts
<1>9. /\ events'[e].session = s /\ events'[e].key = m /\ events'[e].body = {<<m, n>>}
      /\ events'[e].state = "pending" /\ events'[e].at = at
  BY <1>6, <1>8 DEF PendingEvent
<1>10. /\ window' \in [EventIds -> SUBSET Messages] /\ window'[e] = {m}
       /\ \A f \in EventIds : f # e => window'[f] = window[f]
  BY <1>1, <1>2, <1>8
<1>11. ~Present(e)
  <2>1. ~(e <= filled)
    <3>1. filled \in Nat
      BY <1>1, TurnAssumption DEF TurnTypeOK
    <3> QED  BY <3>1
  <2> QED  BY <1>1, <1>8, <2>1 DEF Books, Filled
<1>12. \A f \in EventIds : f # e => HeldOn(f) /\ Keeps(f)
  BY <1>8, <1>10 DEF HeldOn, Keeps, SameEvent
<1>13. GrowStep(e)
  BY <1>8, <1>9, <1>12 DEF GrowStep
<1>14. BodyFit(e)'
  <2>1. WellFormed({<<m, n>>}, m) /\ Named({<<m, n>>}) = {m}
    BY DEF WellFormed, Named
  <2>2. (events'[e].session \in Senders) => Delay' > 0 /\ \A x \in window'[e] : From[x] = events'[e].session
    <3>1. Delay' = Delay
      BY DEF Delay
    <3>2. s \in Senders => Delay # 0
      BY <1>4, IntakeAssumption
    <3> QED  BY <1>1, <1>4, <1>9, <1>10, <3>1, <3>2
  <2> QED  BY <1>9, <1>10, <2>1, <2>2 DEF BodyFit
<1>15. ReplyFit(e)'
  <2>1. Delay' = Delay /\ ConvOf(m)' = ConvOf(m)
    BY DEF Delay, ConvOf
  <2>2. CASE Delay = 0
    BY <1>4, <1>9, <1>10, <2>1, <2>2 DEF ReplyFit
  <2>3. CASE Delay # 0
    <3>1. ~Replies(e)'
      BY <1>4, <1>9, <2>3, IntakeAssumption DEF Replies
    <3> QED  BY <3>1 DEF ReplyFit
  <2> QED  BY <2>2, <2>3
<1>16. \A f \in EventIds : ~(Present(f) /\ events[f].session = events'[e].session /\ events[f].key = events'[e].key)
  BY <1>4, <1>6, <1>7, <1>9 DEF IsDuplicate, Holders, Present
<1>17. \A f \in EventIds : ~(SenderEvent(f) /\ Active(f) /\ events[f].session = events'[e].session)
  <2>1. CASE Delay = 0
    BY <1>4, <1>9, <2>1, IntakeAssumption DEF SenderEvent
  <2>2. CASE Delay # 0
    <3>1. Delay > 0
      BY <1>1, <2>2
    <3> QED  BY <1>4, <1>9, <2>2, <3>1 DEF ActiveOf
  <2> QED  BY <2>1, <2>2
<1>18. Books'
  BY <1>1, <1>13, <1>14, <1>15, <1>16, <1>17, BooksGrow
<1>19. \A f \in EventIds : events'[f].at <= bound.time
  BY <1>1, <1>2, <1>5, <1>8, <1>9 DEF IntakeTypeOK
<1>20. Idle(e) /\ Idle(e)'
  BY <1>9, <1>11 DEF Idle, Present
<1> QED  BY <1>2, <1>8, <1>9, <1>10, <1>11, <1>12, <1>13, <1>18, <1>19, <1>20 DEF s

LEMMA ReachGrow ==
  ASSUME TurnTypeOK, Grown, RecordsReach, NEW e \in EventIds, GrowStep(e),
         \A c \in Conversations : SnapshotsFit(c)', WindowReach(e)', ReplyRecorded(e)',
         \A f \in EventIds : (f # e /\ jobs'[f] = jobs[f]) \/ jobs'[f].pc = "none"
  PROVE  RecordsReach'
<1>1. \A f \in EventIds : f # e => Keeps(f)
  BY DEF GrowStep
<1>2. \A f \in EventIds : WindowReach(f) /\ ReplyRecorded(f) /\ JobRecorded(f)
  BY DEF RecordsReach
<1>3. \A f \in EventIds : WindowReach(f)' /\ ReplyRecorded(f)'
  BY <1>1, <1>2, WindowReachKept, ReplyRecordedKept
<1>4. \A f \in EventIds : JobRecorded(f)'
  <2>1. \A f \in EventIds : jobs'[f].pc = "none" => JobRecorded(f)'
    BY DEF JobRecorded
  <2> QED  BY <1>1, <1>2, <2>1, JobRecordedKept
<1> QED  BY <1>3, <1>4 DEF RecordsReach

LEMMA GrowSnapshots ==
  ASSUME TurnTypeOK, TurnTypeOK', NEW e \in EventIds, GrowStep(e), NEW c, NEW s \in ActiveSnapshots(c)'
  PROVE  \/ s \in ActiveSnapshots(c)
         \/ events'[e].session \in Senders /\ Home[events'[e].session] = c /\ s \in events'[e].body
<1>1. \A f \in EventIds : ~Keeps(f) => f = e
  BY DEF GrowStep
<1>2. UNCHANGED bound
  BY DEF GrowStep
<1> QED  BY <1>1, <1>2, SnapshotsFrom DEF SenderEvent

\* A message from the gate opens a window: no other with it lives.
LEMMA AloneOpened ==
  ASSUME Alone, NEW e \in EventIds, GrowStep(e), ~Present(e), events'[e].session \notin Conversations,
         NEW m \in Messages, window'[e] = {m}, AtGate(m),
         \A x \in Messages : AtGate(x)' =>
           x # m /\ AtGate(x) /\ (x \in Entries(record'[ConvOf(x)]) => x \in Entries(record[ConvOf(x)]))
  PROVE  Alone'
<1>1. \A f \in EventIds : f # e => Keeps(f) /\ (SenderEvent(f)' <=> SenderEvent(f)) /\ window'[f] = window[f]
  <2>1. \A f \in EventIds : f # e => Keeps(f) /\ window'[f] = window[f]
    BY DEF GrowStep, Keeps
  <2> QED  BY <2>1, KeepsReply
<1>2. ~Replies(e)' /\ ~SenderEvent(e)
  BY DEF Replies, SenderEvent
<1>3. ASSUME NEW w \in EventIds, Present(w), Void(w) PROVE Void(w)'
  <2>1. w # e
    BY <1>3
  <2> QED  BY <1>1, <1>2, <1>3, <2>1, VoidKept
<1>4. \A w \in EventIds : SenderEvent(w) => Present(w)
  BY DEF SenderEvent
<1>5. ASSUME NEW x \in Messages PROVE NewAtGate(x)'
  <2>1. CASE AtGate(x)'
    <3>1. \A w \in EventIds : (SenderEvent(w)' /\ x \in window'[w]) => SenderEvent(w) /\ x \in window[w]
      BY <1>1, <2>1
    <3> QED  BY <1>3, <1>4, <2>1, <3>1, NewKept DEF Alone
  <2>2. CASE ~AtGate(x)'
    BY <2>2 DEF NewAtGate, AtGate
  <2> QED  BY <2>1, <2>2
<1>6. \A w \in EventIds : (w # e /\ SenderEvent(w)' /\ m \in window'[w]) => Void(w)'
  <2>1. \A w \in EventIds : (SenderEvent(w) /\ m \in window[w]) => Void(w)
    BY DEF Alone, NewAtGate, AtGate
  <2> QED  BY <1>1, <1>3, <1>4, <2>1
<1>7. ASSUME NEW w \in EventIds, NEW x \in EventIds PROVE OneLives(w, x)'
  <2>1. CASE w # e /\ x # e
    <3>1. OneLives(w, x) /\ Keeps(w) /\ Keeps(x)
      BY <1>1, <2>1 DEF Alone
    <3> QED  BY <1>3, <1>4, <3>1, OneLivesKept
  <2>2. CASE w = e \/ x = e
    BY <1>6, <2>2 DEF OneLives
  <2> QED  BY <2>1, <2>2
<1> QED  BY <1>5, <1>7 DEF Alone

LEMMA RecordKeeps ==
  ASSUME IntakeInv, ~Lost, NEW m \in Messages, NEW i \in Copies, NEW how \in {"recorded", "unsaved"},
         IF how = "unsaved" THEN Disturb("save") ELSE UNCHANGED <<bound, budget>>, Record(m, i, how)
  PROVE  IntakeInv'
<1>1. PICK n : n = CaptureSequence(record[ConvOf(m)], m)
  OBVIOUS
<1> QED  BY <1>1, RecordedKeeps DEF Record

LEMMA OpenKeeps ==
  ASSUME IntakeInv, ~Lost, NEW m \in Messages, NEW i \in Copies, NEW how \in {"recorded", "unsaved"},
         IF how = "unsaved" THEN Disturb("save") ELSE UNCHANGED <<bound, budget>>, Open(m, i, how)
  PROVE  IntakeInv'
<1> DEFINE c == ConvOf(m)
<1>0. /\ Base /\ IntakeTypeOK /\ c \in Conversations /\ record[c] \in Seq(Entry)
      /\ TurnTypeOK /\ Books
  BY IntakeAssumption, BoundFacts DEF IntakeInv, Base, ConvOf, RecordTypes
<1>1. PICK n \in Nat : n = CaptureSequence(record[ConvOf(m)], m) /\ n > 0
  BY <1>0, CaptureFacts
<1>2. /\ UNCHANGED <<now, jobs>> /\ intake[m][i] # "none" /\ ActiveOf(From[m]) = {}
      /\ ScheduleReply(m, n) /\ Recorded(m, i, n, how)
  BY <1>1 DEF Open
<1>3. bound' = bound /\ budget' \in 0..bound.faults /\ (how = "unsaved" => "save" \in bound.kinds)
  BY <1>0, DisturbFacts DEF IntakeTypeOK
<1>4. n <= MaxRecord /\ (IsDuplicate(Target(m), m) => UNCHANGED <<turnVars, window>>)
  BY <1>2 DEF ScheduleReply, EnqueueEvent, Target
<1>5. CASE IsDuplicate(Target(m), m)
  BY <1>1, <1>2, <1>4, <1>5, RecordedKeeps
<1>6. CASE ~IsDuplicate(Target(m), m)
  <2>0. PICK e : e = filled + 1
    OBVIOUS
  <2>1. /\ TurnTypeOK' /\ GrowStep(e) /\ Books' /\ e \in EventIds
        /\ events'[e].session = Target(m) /\ events'[e].body = {<<m, n>>}
        /\ \A f \in EventIds : events'[f].at <= bound.time
        /\ window' \in [EventIds -> SUBSET Messages] /\ window'[e] = {m}
        /\ \A f \in EventIds : f # e => HeldOn(f)
        /\ Idle(e) /\ Idle(e)' /\ ~Present(e)
    BY <1>0, <1>1, <1>2, <1>3, <1>6, <2>0, OpenedFacts DEF GrowStep
  <2>2. /\ RecordsOnce' /\ Written' /\ GateFit' /\ Grown
        /\ record' \in [Conversations -> Seq(Messages \cup {Assistant})]
        /\ disk' \in [Conversations -> Seq(Messages \cup {Assistant})]
        /\ seen' \subseteq Messages
    BY <1>0, <1>1, <1>2, <1>3, <1>4, RecordedFacts
  <2>3. /\ intake' \in [Messages -> [Copies -> {"none", "plain", "strict"}]]
        /\ \A x \in Messages : AtGate(x)' => AtGate(x)
        /\ \A d : Waits(d)' => Waits(d)
        /\ (Calm /\ Delay # 0) => ~AtGate(m)'
    BY <1>0, <1>1, <1>2, <1>3, <1>4, RecordedFacts
  <2>4. \A d \in Conversations : d # ConvOf(m) => record'[d] = record[d]
    BY <1>0, <1>1, <1>2, <1>3, <1>4, RecordedFacts
  <2>5. \A x \in Entries(record'[ConvOf(m)]) : x = m \/ x \in Entries(record[ConvOf(m)])
    BY <1>0, <1>1, <1>2, <1>3, <1>4, RecordedFacts
  <2>6. Calm => At(record'[ConvOf(m)], <<m, n>>)
    BY <1>0, <1>1, <1>2, <1>3, <1>4, RecordedFacts
  <2>7. IntakeTypeOK'
    BY <1>0, <1>2, <1>3, <2>1, <2>2, <2>3 DEF IntakeTypeOK
  <2>8. JobsFit'
    BY <1>0, <1>2, <2>1, <2>7, JobsKept DEF Base
  <2>9. Base'
    BY <2>1, <2>2, <2>7, <2>8 DEF Base
  <2>10. Target(m) = ConvOf(m) \/ Target(m) = From[m]
    BY DEF Target
  <2>11. From[m] \in Senders /\ Home[From[m]] = c
    BY IntakeAssumption DEF ConvOf
  <2>12. ASSUME Calm PROVE RecordsReach'
    <3>0. RecordsReach
      BY <2>12 DEF IntakeInv
    <3>1. Waits(c)
      BY <1>2 DEF Waits
    <3>2. ASSUME NEW d \in Conversations PROVE SnapshotsFit(d)'
      <4>1. \A s \in ActiveSnapshots(d)' : s \in ActiveSnapshots(d) \/ (d = c /\ s = <<m, n>>)
        <5>1. \A s \in ActiveSnapshots(d)' :
                \/ s \in ActiveSnapshots(d)
                \/ events'[e].session \in Senders /\ Home[events'[e].session] = d /\ s \in events'[e].body
          BY <1>0, <2>1, GrowSnapshots
        <5> QED  BY <1>0, <2>1, <2>10, <2>11, <5>1, IntakeAssumption
      <4>2. CASE d = c
        <5>1. \A s \in ActiveSnapshots(c) : At(record[c], s)
          BY <1>0, <3>0, <3>1, GateSettled DEF RecordsReach
        <5>2. \A s \in ActiveSnapshots(c)' : At(record'[c], s)
          BY <1>0, <2>2, <2>6, <2>12, <4>1, <4>2, <5>1, GrownKeeps
        <5> QED  BY <4>2, <5>2, FitAll
      <4>3. CASE d # c
        BY <2>3, <2>4, <3>0, <4>1, <4>3, FitSame DEF RecordsReach
      <4> QED  BY <4>2, <4>3
    <3>3. WindowReach(e)'
      <4>1. Named(events'[e].body) = {m}
        BY <2>1 DEF Named
      <4> QED  BY <2>1, <4>1 DEF WindowReach
    <3>4. ReplyRecorded(e)'
      <4>1. Replies(e)' => events'[e].session = c
        BY <2>1, <2>10, <2>11, IntakeAssumption DEF Replies
      <4> QED  BY <2>1, <2>6, <2>12, <4>1 DEF ReplyRecorded
    <3>5. \A f \in EventIds : (f # e /\ jobs'[f] = jobs[f]) \/ jobs'[f].pc = "none"
      BY <1>0, <1>2, <2>1 DEF Base, JobsFit, JobFit, Idle
    <3> QED  BY <1>0, <2>1, <2>2, <3>0, <3>2, <3>3, <3>4, <3>5, ReachGrow
  <2>13. ASSUME Calm, Delay # 0 PROVE Alone'
    <3>1. events'[e].session \notin Conversations /\ AtGate(m) /\ Alone
      BY <1>2, <2>1, <2>11, <2>13, IntakeAssumption DEF Target, AtGate, IntakeInv
    <3>2. \A x \in Messages : AtGate(x)' =>
            x # m /\ AtGate(x) /\ (x \in Entries(record'[ConvOf(x)]) => x \in Entries(record[ConvOf(x)]))
      <4> SUFFICES ASSUME NEW x \in Messages, AtGate(x)'
                   PROVE  x # m /\ (x \in Entries(record'[ConvOf(x)]) => x \in Entries(record[ConvOf(x)]))
        BY <2>3
      <4>1. x # m
        BY <2>3, <2>13
      <4>2. ConvOf(x) \in Conversations
        BY IntakeAssumption DEF ConvOf
      <4> QED  BY <2>4, <2>5, <4>1, <4>2
    <3> QED  BY <2>1, <3>1, <3>2, AloneOpened
  <2> QED  BY <1>3, <2>9, <2>12, <2>13, Assembled
<1> QED  BY <1>5, <1>6

LEMMA CrashAfterOpenKeeps ==
  ASSUME IntakeInv, ~Lost, NEW m \in Messages, NEW i \in Copies, CrashAfterOpen(m, i)
  PROVE  IntakeInv'
<1> DEFINE c == ConvOf(m)
<1>0. /\ Base /\ IntakeTypeOK /\ c \in Conversations /\ record[c] \in Seq(Entry)
      /\ TurnTypeOK /\ Books
  BY IntakeAssumption, BoundFacts DEF IntakeInv, Base, ConvOf, RecordTypes
<1>1. PICK n \in Nat : n = CaptureSequence(record[ConvOf(m)], m) /\ n > 0
  BY <1>0, CaptureFacts
<1>2. /\ UNCHANGED <<now, disk>> /\ intake[m][i] # "none" /\ ActiveOf(From[m]) = {}
      /\ ScheduleReply(m, n) /\ LoseMemory /\ Disturb("crash")
  BY <1>1 DEF CrashAfterOpen
<1>3. bound' = bound /\ budget' \in 0..bound.faults /\ "crash" \in bound.kinds
  BY <1>0, <1>2, DisturbFacts
<1>4. IsDuplicate(Target(m), m) => UNCHANGED <<turnVars, window>>
  BY <1>2 DEF ScheduleReply, EnqueueEvent, Target
<1>5. CASE IsDuplicate(Target(m), m)
  BY <1>2, <1>4, <1>5, CrashKeeps DEF Crash
<1>6. CASE ~IsDuplicate(Target(m), m)
  <2>0. PICK e : e = filled + 1
    OBVIOUS
  <2>1. /\ TurnTypeOK' /\ GrowStep(e) /\ Books' /\ e \in EventIds
        /\ events'[e].session = Target(m) /\ events'[e].body = {<<m, n>>}
        /\ \A f \in EventIds : events'[f].at <= bound.time
        /\ window' \in [EventIds -> SUBSET Messages] /\ window'[e] = {m} /\ ~Present(e)
    BY <1>0, <1>1, <1>2, <1>3, <1>6, <2>0, OpenedFacts DEF GrowStep
  <2>2. /\ seen' \subseteq Messages /\ intake' \in [Messages -> [Copies -> {"none", "plain", "strict"}]]
        /\ record' \in [Conversations -> Seq(Messages \cup {Assistant})]
        /\ jobs' \in [EventIds -> [pc : {"none", "claimed", "ready"}, at : 0..MaxTime, body : Bodies]]
        /\ \A f \in EventIds : jobs'[f].pc = "none"
        /\ \A x \in Messages : ~AtGate(x)'
        /\ \A d : ~Waits(d)'
        /\ JobsFit' /\ GateFit' /\ RecordsOnce' /\ Written'
        /\ Calm => (UNCHANGED record /\ Grown)
    BY <1>0, <1>2, <1>3, LoseFacts
  <2>3. IntakeTypeOK'
    BY <1>0, <1>2, <1>3, <2>1, <2>2 DEF IntakeTypeOK
  <2>4. Base'
    BY <2>1, <2>2, <2>3 DEF Base
  <2>5. Calm => Target(m) = From[m] /\ Delay # 0
    BY <1>0, <1>3, CalmRecords DEF Target
  <2>6. From[m] \in Senders /\ Home[From[m]] = c
    BY IntakeAssumption DEF ConvOf
  <2>7. ASSUME Calm PROVE RecordsReach'
    <3>0. RecordsReach /\ Waits(c) /\ UNCHANGED record
      BY <1>2, <2>2, <2>7 DEF IntakeInv, Waits
    <3>1. ASSUME NEW d \in Conversations PROVE SnapshotsFit(d)'
      <4>1. \A s \in ActiveSnapshots(d)' : s \in ActiveSnapshots(d) \/ (d = c /\ s = <<m, n>>)
        <5>1. \A s \in ActiveSnapshots(d)' :
                \/ s \in ActiveSnapshots(d)
                \/ events'[e].session \in Senders /\ Home[events'[e].session] = d /\ s \in events'[e].body
          BY <1>0, <2>1, GrowSnapshots
        <5> QED  BY <2>1, <2>5, <2>6, <2>7, <5>1
      <4>2. CASE d = c
        <5>1. \A s \in ActiveSnapshots(c) : At(record[c], s)
          BY <1>0, <3>0, GateSettled DEF RecordsReach
        <5>2. At(record[c], <<m, n>>) \/ Upcoming(record[c], <<m, n>>)
          BY <1>0, <1>1, CaptureFacts
        <5>3. \A s \in ActiveSnapshots(c)' :
                At(record'[c], s) \/ (s = <<m, n>> /\ Upcoming(record'[c], <<m, n>>))
          BY <3>0, <4>1, <4>2, <5>1, <5>2
        <5> QED  BY <2>2, <4>2, <5>3, FitNext
      <4>3. CASE d # c
        BY <2>2, <3>0, <4>1, <4>3, FitSame DEF RecordsReach
      <4> QED  BY <4>2, <4>3
    <3>2. WindowReach(e)'
      <4>1. Named(events'[e].body) = {m}
        BY <2>1 DEF Named
      <4> QED  BY <2>1, <4>1 DEF WindowReach
    <3>3. ReplyRecorded(e)'
      <4>1. ~Replies(e)'
        BY <2>1, <2>5, <2>6, <2>7, IntakeAssumption DEF Replies
      <4> QED  BY <4>1 DEF ReplyRecorded
    <3> QED  BY <1>0, <2>1, <2>2, <2>7, <3>0, <3>1, <3>2, <3>3, ReachGrow
  <2>8. ASSUME Calm, Delay # 0 PROVE Alone'
    <3>1. events'[e].session \notin Conversations /\ AtGate(m) /\ Alone
      BY <1>2, <2>1, <2>6, <2>8, IntakeAssumption DEF Target, AtGate, IntakeInv
    <3> QED  BY <2>1, <2>2, <3>1, AloneOpened
  <2> QED  BY <1>3, <2>4, <2>7, <2>8, Assembled
<1> QED  BY <1>5, <1>6

--------------------------------------------------------------------------------
(* A window takes a message *)

\* The compare-and-set of an open window: the new snapshot is its last one.
LEMMA TakenFacts ==
  ASSUME Base, NEW m \in Messages, bound' = bound, NEW e \in ActiveOf(From[m]), e \in EventIds,
         NEW n, n = BumpSequence(e, m), n <= MaxRecord, m \notin Named(events[e].body),
         NEW at, at = Later(now + Delay, events[e].at + 1), at <= bound.time,
         UpdateActiveEvent(e, at, Bumped(events[e].body, m, n)),
         window' = [window EXCEPT ![e] = @ \cup {m}]
  PROVE  /\ TurnTypeOK' /\ BumpStep(e, m) /\ Books' /\ n \in Nat
         /\ SenderEvent(e) /\ Active(e) /\ Delay # 0 /\ Home[events[e].session] = ConvOf(m)
         /\ events'[e].body \in SUBSET Snapshot /\ events'[e].body \subseteq events[e].body \cup {<<m, n>>}
         /\ <<m, n>> \in events'[e].body /\ \A t \in events[e].body : t[2] < n
         /\ events'[e].body = Bumped(events[e].body, m, n)
         /\ \A f \in EventIds : events'[f].at <= bound.time
         /\ window' \in [EventIds -> SUBSET Messages]
         /\ \A f \in EventIds : HeldOn(f)
<1> DEFINE body == events[e].body
<1>0. IntakeTypeOK /\ Books /\ MaxRecord \in Nat
  BY IntakeAssumption DEF Base
<1>t. /\ bound.time \in Nat /\ bound.time \in 0..MaxTime /\ MaxTime \in Nat /\ Delay \in Nat /\ now \in Nat
      /\ TurnTypeOK /\ RecordTypes /\ events[e].at \in Nat
  BY <1>0, BoundFacts
<1>1. /\ IntakeTypeOK /\ TurnTypeOK /\ Books /\ window \in [EventIds -> SUBSET Messages] /\ BodyFit(e)
      /\ now \in Nat /\ Delay \in Nat /\ bound.time \in Nat /\ bound.time <= MaxTime /\ MaxTime \in Nat
      /\ MaxRecord \in Nat /\ events[e].at \in Nat /\ RecordTypes
  <2>1. window \in [EventIds -> SUBSET Messages]
    BY <1>0 DEF IntakeTypeOK
  <2>2. BodyFit(e)
    BY <1>0 DEF Books
  <2> QED  BY <1>0, <1>t, <2>1, <2>2
<1>2. /\ Active(e) /\ events[e].session = From[m] /\ From[m] \in Senders /\ Delay # 0 /\ SenderEvent(e)
      /\ Home[events[e].session] = ConvOf(m) /\ ConvOf(m) \in Conversations
  BY IntakeAssumption, <1>1 DEF ActiveOf, SenderEvent, Present, Active, ConvOf
<1>3. /\ WellFormed(body, events[e].key) /\ Named(body) \subseteq window[e]
      /\ events[e].key \in Messages /\ \A x \in window[e] : From[x] = events[e].session
      /\ Delay > 0
  BY <1>1, <1>2 DEF BodyFit, SenderEvent
<1>4. body \in SUBSET Snapshot /\ body # {}
  BY <1>1, <1>3, SessionKinds DEF WellFormed
<1>5. n \in Nat /\ n > Latest(body)[2] /\ Latest(body)[2] \in Nat
  <2>1. Latest(body)[2] \in Nat
    BY <1>4, Extremes, SnapshotParts
  <2>2. CaptureSequence(record[ConvOf(m)], m) \in Nat
    BY <1>1, <1>2, CaptureFacts DEF RecordTypes
  <2> HIDE DEF body
  <2>3. n = Later(Latest(body)[2] + 1, CaptureSequence(record[ConvOf(m)], m))
    BY DEF BumpSequence, body
  <2> QED  BY <2>1, <2>2, <2>3 DEF Later
<1>6. \A t \in body : t[2] < n
  <2>1. \A t \in body : t[2] <= Latest(body)[2]
    BY <1>4, Extremes
  <2>2. \A t \in body : t[2] \in Nat
    BY <1>4, SnapshotParts
  <2> HIDE DEF body
  <2> QED  BY <1>5, <2>1, <2>2
<1>7. n \in 1..MaxRecord
  BY <1>1, <1>5
<1> DEFINE new == Bumped(body, m, n)
<1>8. /\ new \in SUBSET Snapshot /\ new \subseteq body \cup {<<m, n>>} /\ <<m, n>> \in new
      /\ WellFormed(new, events[e].key)
  BY <1>3, <1>4, <1>6, <1>7, BumpedFacts
<1>9. at \in 0..MaxTime /\ at > events[e].at
  BY <1>1 DEF Later
<1>10. new \in Bodies
  BY <1>8, IntakeAssumption DEF Snapshot
<1>11. PICK nb \in Bodies : nb = new
  BY <1>10
<1> HIDE DEF new, body
<1>12. /\ TurnTypeOK' /\ UNCHANGED <<filled, said>>
       /\ \A f \in EventIds : f # e => events'[f] = events[f]
       /\ events'[e].session = events[e].session /\ events'[e].key = events[e].key
       /\ events'[e].state = events[e].state /\ events'[e].body = nb /\ events'[e].at = at
  <2>1. UpdateActiveEvent(e, at, nb)
    BY <1>11 DEF new, body
  <2> QED  BY <1>1, <1>9, <2>1, UpdateFacts
<1>13. /\ window' \in [EventIds -> SUBSET Messages] /\ window'[e] = window[e] \cup {m}
       /\ \A f \in EventIds : f # e => window'[f] = window[f]
  BY <1>1
<1>14. BumpStep(e, m)
  BY <1>12, <1>13 DEF BumpStep, Keeps, SameEvent
<1>15. BodyFit(e)'
  <2>1. Named(new) \subseteq window'[e]
    <3>1. Named(new) \subseteq Named(body) \cup {m}
      BY <1>8 DEF Named
    <3> QED  BY <1>3, <1>13, <3>1
  <2>2. Delay' = Delay
    BY DEF Delay
  <2> QED  BY <1>2, <1>3, <1>8, <1>11, <1>12, <1>13, <2>1, <2>2 DEF BodyFit
<1>16. Books'
  BY <1>1, <1>2, <1>14, <1>15, BooksBump
<1>17. \A f \in EventIds : events'[f].at <= bound.time
  BY <1>1, <1>12 DEF IntakeTypeOK
<1>18. \A f \in EventIds : HeldOn(f)
  BY <1>2, <1>9, <1>12, <1>13 DEF HeldOn
<1> QED  BY <1>2, <1>5, <1>6, <1>8, <1>11, <1>12, <1>13, <1>14, <1>16, <1>17, <1>18 DEF new, body

\* At the gate of a calm instance a message that enters a window is the next one recorded.
LEMMA TakenNext ==
  ASSUME IntakeInv, Calm, NEW m \in Messages, NEW i \in Copies, intake[m][i] # "none",
         NEW e \in EventIds, SenderEvent(e), Active(e), Delay # 0, Home[events[e].session] = ConvOf(m),
         NEW n, n = BumpSequence(e, m)
  PROVE  /\ \A s \in ActiveSnapshots(ConvOf(m)) : At(record[ConvOf(m)], s)
         /\ \A s \in events[e].body : At(record[ConvOf(m)], s)
         /\ Upcoming(record[ConvOf(m)], <<m, n>>)
<1> DEFINE c == ConvOf(m)
           body == events[e].body
<1>1. /\ TurnTypeOK /\ RecordTypes /\ RecordsReach /\ Alone /\ BodyFit(e) /\ c \in Conversations
      /\ record[c] \in Seq(Entry) /\ Waits(c) /\ AtGate(m)
  BY BoundFacts, IntakeAssumption DEF IntakeInv, Base, Books, ConvOf, RecordTypes, Waits, AtGate
<1>2. \A s \in ActiveSnapshots(c) : At(record[c], s)
  BY <1>1, GateSettled DEF RecordsReach
<1>3. \A s \in body : At(record[c], s)
  BY <1>1, <1>2, SnapshotsOf
<1>4. m \notin Entries(record[c])
  BY <1>1 DEF Alone, NewAtGate, AtGate
<1>5. Len(record[c]) \in Nat /\ CaptureSequence(record[c], m) = Len(record[c]) + 1
  BY <1>1, <1>4 DEF CaptureSequence
<1>6. Latest(body) \in body /\ Latest(body)[2] \in Nat
  <2>1. body \in SUBSET Snapshot /\ body # {}
    BY <1>1, SessionKinds DEF BodyFit, WellFormed, SenderEvent
  <2> QED  BY <2>1, Extremes, SnapshotParts
<1>7. Latest(body)[2] <= Len(record[c])
  BY <1>1, <1>3, <1>6 DEF At
<1>8. n = Len(record[c]) + 1
  <2>1. n = Later(Latest(body)[2] + 1, Len(record[c]) + 1)
    BY <1>5 DEF BumpSequence
  <2> HIDE DEF body, c
  <2> QED  BY <1>5, <1>6, <1>7, <2>1 DEF Later
<1> QED  BY <1>2, <1>3, <1>4, <1>8 DEF Upcoming

LEMMA ReachBump ==
  ASSUME TurnTypeOK, TurnTypeOK', Grown, RecordsReach, NEW e \in EventIds, NEW m \in Messages, BumpStep(e, m),
         SenderEvent(e), Active(e), NEW n \in Nat, <<m, n>> \in events'[e].body,
         \A t \in events[e].body : t[2] < n,
         \A s \in events[e].body : At(record[ConvOfEvent(e)], s),
         \A c \in Conversations : SnapshotsFit(c)',
         \A f \in EventIds : jobs'[f] = jobs[f] \/ jobs'[f].pc = "none"
  PROVE  RecordsReach'
<1> DEFINE c == ConvOfEvent(e)
<1>1. \A f \in EventIds : f # e => Keeps(f)
  BY DEF BumpStep
<1>2. \A f \in EventIds : WindowReach(f) /\ ReplyRecorded(f) /\ JobRecorded(f)
  BY DEF RecordsReach
<1>3. \A f \in EventIds : f # e => WindowReach(f)' /\ ReplyRecorded(f)' /\ JobRecorded(f)'
  BY <1>1, <1>2, WindowReachKept, ReplyRecordedKept, JobRecordedKept
<1>4. /\ c \in Conversations /\ ConvOfEvent(e)' = c /\ record[c] \in Seq(Entry) /\ record'[c] \in Seq(Entry)
      /\ events[e].body \in SUBSET Snapshot /\ window'[e] = window[e] \cup {m}
      /\ events'[e].session = events[e].session
  BY SessionKinds DEF BumpStep, ConvOfEvent, Grown, RecordTypes
<1>5. \A s \in events[e].body : At(record'[c], s)
  BY <1>4, GrownKeeps
<1>6. WindowReach(e)'
  <2> SUFFICES ASSUME NEW x \in window'[e]
               PROVE  x \in Named(events'[e].body) \/ Reaches(record'[c], events'[e].body, x)
    BY <1>4 DEF WindowReach
  <2>1. CASE x = m
    <3>1. <<m, n>>[1] = x
      BY <2>1
    <3> QED  BY <3>1 DEF Named
  <2>2. CASE x \in window[e]
    <3>1. x \in Named(events[e].body) \/ Reaches(record[c], events[e].body, x)
      BY <1>2, <2>2 DEF WindowReach
    <3>2. \E t \in events[e].body, k \in DOMAIN record'[c] : k <= t[2] /\ record'[c][k] = x
      <4>1. CASE x \in Named(events[e].body)
        <5>1. PICK t \in events[e].body : t[1] = x
          BY <4>1 DEF Named
        <5>2. t[2] \in DOMAIN record'[c] /\ record'[c][t[2]] = x
          BY <1>5, <5>1 DEF At
        <5>3. t[2] \in Nat
          BY <1>4, SnapshotParts
        <5>4. t[2] <= t[2]
          BY <5>3
        <5> QED  BY <5>2, <5>4
      <4>2. CASE Reaches(record[c], events[e].body, x)
        <5>1. Reaches(record'[c], events[e].body, x)
          BY <1>4, <4>2, GrownKeeps
        <5> QED  BY <5>1 DEF Reaches
      <4> QED  BY <3>1, <4>1, <4>2
    <3>3. PICK t \in events[e].body, k \in DOMAIN record'[c] : k <= t[2] /\ record'[c][k] = x
      BY <3>2
    <3>4. t[2] \in Nat /\ k \in Nat /\ t[2] < n
      BY <1>4, <3>3, SnapshotParts
    <3>5. k <= n
      BY <3>3, <3>4
    <3>6. <<m, n>>[2] = n
      OBVIOUS
    <3> QED  BY <3>3, <3>5, <3>6 DEF Reaches
  <2> QED  BY <1>4, <2>1, <2>2
<1>7. ReplyRecorded(e)'
  <2>1. ~Replies(e)'
    BY <1>4, IntakeAssumption DEF Replies, SenderEvent
  <2> QED  BY <2>1 DEF ReplyRecorded
<1>8. JobRecorded(e)'
  <2> SUFFICES ASSUME jobs'[e] = jobs[e], jobs[e].pc # "none", NEW s \in jobs[e].body
               PROVE  At(record'[c], s)
    BY <1>4 DEF JobRecorded
  <2>1. At(record[c], s) \/ s \in events[e].body
    BY <1>2 DEF JobRecorded, SenderEvent
  <2> QED  BY <1>4, <1>5, <2>1, GrownKeeps
<1> QED  BY <1>3, <1>6, <1>7, <1>8 DEF RecordsReach

LEMMA AloneBumped ==
  ASSUME Alone, NEW e \in EventIds, NEW m \in Messages, BumpStep(e, m), SenderEvent(e), Active(e), AtGate(m),
         \A x \in Messages : AtGate(x)' =>
           x # m /\ AtGate(x) /\ (x \in Entries(record'[ConvOf(x)]) => x \in Entries(record[ConvOf(x)]))
  PROVE  Alone'
<1>1. \A f \in EventIds : f # e => Keeps(f) /\ (SenderEvent(f)' <=> SenderEvent(f)) /\ window'[f] = window[f]
  <2>1. \A f \in EventIds : f # e => Keeps(f) /\ window'[f] = window[f]
    BY DEF BumpStep, Keeps
  <2> QED  BY <2>1, KeepsReply
<1>2. /\ ~Replies(e)' /\ SenderEvent(e)' /\ window'[e] = window[e] \cup {m} /\ ~Void(e)
  BY IntakeAssumption DEF Replies, SenderEvent, Present, BumpStep, Void, Active
<1>3. ASSUME NEW w \in EventIds, Void(w) PROVE Void(w)'
  <2>1. w # e
    BY <1>2, <1>3
  <2> QED  BY <1>1, <1>2, <1>3, <2>1, VoidKept
<1>4. ASSUME NEW x \in Messages PROVE NewAtGate(x)'
  <2>1. CASE AtGate(x)'
    <3>1. \A w \in EventIds : (SenderEvent(w)' /\ x \in window'[w]) => SenderEvent(w) /\ x \in window[w]
      BY <1>1, <1>2, <2>1
    <3> QED  BY <1>3, <2>1, <3>1, NewKept DEF Alone
  <2>2. CASE ~AtGate(x)'
    BY <2>2 DEF NewAtGate, AtGate
  <2> QED  BY <2>1, <2>2
<1>5. \A w \in EventIds : (w # e /\ SenderEvent(w)' /\ window'[w] \cap window'[e] # {}) => Void(w)'
  <2> SUFFICES ASSUME NEW w \in EventIds, w # e, SenderEvent(w), NEW y \in window[w], y \in window[e] \cup {m}
               PROVE  Void(w)
    BY <1>1, <1>2, <1>3
  <2>1. CASE y = m
    BY <2>1 DEF Alone, NewAtGate, AtGate
  <2>2. CASE y \in window[e]
    <3>1. OneLives(w, e) /\ window[w] \cap window[e] # {}
      BY <2>2 DEF Alone
    <3> QED  BY <1>2, <3>1 DEF OneLives
  <2> QED  BY <2>1, <2>2
<1>6. ASSUME NEW w \in EventIds, NEW x \in EventIds PROVE OneLives(w, x)'
  <2>1. CASE w # e /\ x # e
    <3>1. OneLives(w, x) /\ Keeps(w) /\ Keeps(x)
      BY <1>1, <2>1 DEF Alone
    <3> QED  BY <1>3, <3>1, OneLivesKept
  <2>2. CASE w = e /\ x # e
    BY <1>5, <2>2 DEF OneLives
  <2>3. CASE w # e /\ x = e
    BY <1>5, <2>3 DEF OneLives
  <2>4. CASE w = x
    BY <2>4 DEF OneLives
  <2> QED  BY <2>1, <2>2, <2>3, <2>4
<1> QED  BY <1>4, <1>6 DEF Alone

LEMMA BumpSnapshots ==
  ASSUME TurnTypeOK, TurnTypeOK', NEW e \in EventIds, NEW m, BumpStep(e, m), SenderEvent(e), Active(e), Delay # 0,
         NEW u, events'[e].body \subseteq events[e].body \cup {u}, NEW c, NEW s \in ActiveSnapshots(c)'
  PROVE  s \in ActiveSnapshots(c) \/ (Home[events[e].session] = c /\ s = u)
<1>1. \A f \in EventIds : ~Keeps(f) => f = e
  BY DEF BumpStep
<1>2. UNCHANGED <<bound, events[e].session>>
  BY DEF BumpStep
<1>3. \/ s \in ActiveSnapshots(c)
      \/ Home[events[e].session] = c /\ s \in events[e].body \cup {u}
  BY <1>1, <1>2, SnapshotsFrom
<1>4. Home[events[e].session] = c => events[e].body \subseteq ActiveSnapshots(c)
  BY SnapshotsOf
<1> QED  BY <1>3, <1>4

LEMMA BumpKeeps ==
  ASSUME IntakeInv, ~Lost, NEW m \in Messages, NEW i \in Copies, NEW how \in {"recorded", "unsaved"},
         IF how = "unsaved" THEN Disturb("save") ELSE UNCHANGED <<bound, budget>>, Bump(m, i, how)
  PROVE  IntakeInv'
<1> DEFINE c == ConvOf(m)
<1>0. /\ Base /\ IntakeTypeOK /\ c \in Conversations /\ record[c] \in Seq(Entry) /\ TurnTypeOK /\ RecordTypes
      /\ RecordsOnce /\ Written /\ DOMAIN disk = Conversations
      /\ record \in [Conversations -> Seq(Messages \cup {Assistant})]
      /\ disk \in [Conversations -> Seq(Messages \cup {Assistant})]
  BY IntakeAssumption, BoundFacts DEF IntakeInv, Base, ConvOf, RecordTypes, IntakeTypeOK
<1>1. bound' = bound /\ budget' \in 0..bound.faults /\ (how = "unsaved" => "save" \in bound.kinds)
  BY <1>0, DisturbFacts DEF IntakeTypeOK
<1>2. PICK e \in ActiveOf(From[m]) :
        LET body == events[e].body
            n == BumpSequence(e, m)
            at == Later(now + Delay, events[e].at + 1)
            snaps == Payloads(ActiveWindows(c) \ {e}) \cup Bumped(body, m, n)
        IN /\ intake[m][i] # "none"
           /\ m \notin {s[1] : s \in body}
           /\ at <= bound.time /\ n <= MaxRecord
           /\ UpdateActiveEvent(e, at, Bumped(body, m, n))
           /\ window' = [window EXCEPT ![e] = @ \cup {m}]
           /\ intake' = [intake EXCEPT ![m][i] = "none"]
           /\ IF ~Recoverable(record[c], snaps) THEN Throw(c, snaps) /\ UNCHANGED seen
              ELSE /\ record' = [record EXCEPT ![c] = Recovered(@, snaps)]
                   /\ IF how = "unsaved" THEN UNCHANGED <<disk, seen>>
                      ELSE /\ disk' = [disk EXCEPT ![c] = record'[c]]
                           /\ seen' = seen \cup {m}
           /\ UNCHANGED <<now, jobs>>
  BY DEF Bump
<1>3. e \in EventIds
  BY DEF ActiveOf
<1>4. PICK n : n = BumpSequence(e, m)
  OBVIOUS
<1>5. PICK at : at = Later(now + Delay, events[e].at + 1)
  OBVIOUS
<1>6. PICK new : new = Bumped(events[e].body, m, n)
  OBVIOUS
<1>7. PICK snaps : snaps = Payloads(ActiveWindows(c) \ {e}) \cup new
  OBVIOUS
<1>8. /\ intake[m][i] # "none" /\ m \notin Named(events[e].body)
      /\ at <= bound.time /\ n <= MaxRecord
      /\ UpdateActiveEvent(e, at, Bumped(events[e].body, m, n))
      /\ window' = [window EXCEPT ![e] = @ \cup {m}]
      /\ intake' = [intake EXCEPT ![m][i] = "none"]
      /\ UNCHANGED <<now, jobs>>
  BY <1>2, <1>4, <1>5 DEF Named
<1>9. /\ Recoverable(record[c], snaps) \/ (Throw(c, snaps) /\ UNCHANGED seen)
      /\ Recoverable(record[c], snaps) =>
           /\ record' = [record EXCEPT ![c] = Recovered(record[c], snaps)]
           /\ how = "unsaved" => UNCHANGED <<disk, seen>>
           /\ how # "unsaved" => disk' = [disk EXCEPT ![c] = record'[c]] /\ seen' = seen \cup {m}
  BY <1>2, <1>4, <1>6, <1>7
<1>10. /\ TurnTypeOK' /\ BumpStep(e, m) /\ Books' /\ n \in Nat
       /\ SenderEvent(e) /\ Active(e) /\ Delay # 0 /\ Home[events[e].session] = c
       /\ new \in SUBSET Snapshot /\ new \subseteq events[e].body \cup {<<m, n>>}
       /\ <<m, n>> \in new /\ \A t \in events[e].body : t[2] < n
       /\ events'[e].body = new
  <2>1. /\ TurnTypeOK' /\ BumpStep(e, m) /\ Books' /\ n \in Nat
        /\ SenderEvent(e) /\ Active(e) /\ Delay # 0 /\ Home[events[e].session] = c
    BY <1>0, <1>1, <1>3, <1>4, <1>5, <1>8, TakenFacts
  <2>2. /\ events'[e].body \in SUBSET Snapshot /\ events'[e].body \subseteq events[e].body \cup {<<m, n>>}
        /\ <<m, n>> \in events'[e].body /\ \A t \in events[e].body : t[2] < n
        /\ events'[e].body = Bumped(events[e].body, m, n)
    BY <1>0, <1>1, <1>3, <1>4, <1>5, <1>8, TakenFacts
  <2>3. events'[e].body = new
    BY <1>6, <2>2
  <2> QED  BY <2>1, <2>2, <2>3
<1>11. /\ \A f \in EventIds : events'[f].at <= bound.time
       /\ window' \in [EventIds -> SUBSET Messages]
       /\ \A f \in EventIds : HeldOn(f)
  BY <1>0, <1>1, <1>3, <1>4, <1>5, <1>8, TakenFacts
<1>d. snaps \subseteq ActiveSnapshots(c) \cup new
  <2>1. Payloads(ActiveWindows(c) \ {e}) \subseteq ActiveSnapshots(c)
    BY <1>10 DEF Payloads, ActiveSnapshots
  <2> QED  BY <1>7, <2>1
<1>12. snaps \in SUBSET Snapshot
  BY <1>0, <1>d, <1>10, SnapshotsOf
<1>c. ASSUME Calm
       PROVE  /\ \A s \in ActiveSnapshots(c) : At(record[c], s)
              /\ \A s \in events[e].body : At(record[c], s)
              /\ Upcoming(record[c], <<m, n>>)
              /\ \A s \in snaps : At(record[c], s) \/ s = <<m, n>>
              /\ Recoverable(record[c], snaps) /\ \A s \in snaps : At(Recovered(record[c], snaps), s)
  <2>1. /\ \A s \in ActiveSnapshots(c) : At(record[c], s)
        /\ \A s \in events[e].body : At(record[c], s)
        /\ Upcoming(record[c], <<m, n>>)
    BY <1>3, <1>4, <1>8, <1>10, <1>c, TakenNext
  <2>2. \A s \in snaps : At(record[c], s) \/ s = <<m, n>>
    BY <1>d, <1>10, <2>1
  <2>3. NoRepeat(record[c])
    BY <1>0 DEF RecordsOnce
  <2>4. Recoverable(record[c], snaps) /\ \A s \in snaps : At(Recovered(record[c], snaps), s)
    <3>1. \A s \in snaps : At(record[c], s) \/ Upcoming(record[c], s)
      BY <2>1, <2>2
    <3>2. \A s, t \in snaps : (Upcoming(record[c], s) /\ Upcoming(record[c], t)) => s = t
      BY <2>2, AtNotUpcoming
    <3> QED  BY <1>0, <1>12, <2>3, <3>1, <3>2, NextRecovers
  <2> QED  BY <2>1, <2>2, <2>4
<1>13. /\ RecordTypes' /\ DOMAIN disk' = Conversations /\ RecordsOnce' /\ Written' /\ Grown
       /\ \A d \in Conversations : d # c => record'[d] = record[d]
       /\ Recoverable(record[c], snaps) => record'[c] = Recovered(record[c], snaps)
  <2>1. CASE Throw(c, snaps) /\ ~Recoverable(record[c], snaps)
    <3>1. ~Calm
      BY <1>c, <2>1
    <3> QED  BY <1>0, <1>1, <1>12, <2>1, <3>1, ThrowFacts
  <2>2. CASE Recoverable(record[c], snaps)
    <3>1. PICK rec \in Seq(Entry) : rec = Recovered(record[c], snaps) /\ Extends(record[c], rec)
                                    /\ (NoRepeat(record[c]) => NoRepeat(rec))
      BY <1>0, <1>12, <2>2, RecoveredFacts
    <3>2. record' = [record EXCEPT ![c] = rec]
      BY <1>9, <2>2, <3>1
    <3>3. disk' = [disk EXCEPT ![c] = record'[c]] \/ (disk' = disk /\ ~Calm)
      BY <1>1, <1>9, <2>2 DEF Calm
    <3> QED  BY <1>0, <1>1, <3>1, <3>2, <3>3, RecordsMove
  <2> QED  BY <1>9, <2>1, <2>2
<1>14. /\ intake' \in [Messages -> [Copies -> {"none", "plain", "strict"}]] /\ GateFit'
       /\ intake'[m][i] = "none"
       /\ \A x \in Messages, j \in Copies : intake'[x][j] # "none" => intake[x][j] # "none"
       /\ \A x \in Messages : AtGate(x)' => AtGate(x)
       /\ \A d : Waits(d)' => Waits(d)
  BY <1>0, <1>1, <1>8, GateLeft DEF Base
<1>15. IntakeTypeOK'
  <2>1. /\ record' \in [Conversations -> Seq(Messages \cup {Assistant})]
        /\ disk' \in [Conversations -> Seq(Messages \cup {Assistant})]
    <3>1. record' = [d \in Conversations |-> record'[d]] /\ disk' = [d \in Conversations |-> disk'[d]]
      <4>1. record' = [record EXCEPT ![c] = record'[c]]
        BY <1>0, <1>9 DEF Throw
      <4>2. disk' = disk \/ disk' = [disk EXCEPT ![c] = record'[c]]
        BY <1>9 DEF Throw
      <4> QED  BY <1>0, <4>1, <4>2
    <3> QED  BY <1>13, <3>1 DEF RecordTypes, Entry
  <2>2. seen' \subseteq Messages
    BY <1>0, <1>9 DEF IntakeTypeOK
  <2> QED  BY <1>0, <1>1, <1>8, <1>10, <1>11, <1>14, <2>1, <2>2 DEF IntakeTypeOK
<1>16. JobsFit'
  BY <1>0, <1>8, <1>11, <1>15, JobsKept DEF Base
<1>17. Base'
  BY <1>10, <1>13, <1>14, <1>15, <1>16 DEF Base
<1>18. ASSUME Calm
       PROVE  /\ \A s \in ActiveSnapshots(c) : At(record[c], s)
              /\ \A s \in events[e].body : At(record[c], s)
              /\ Upcoming(record[c], <<m, n>>)
              /\ \A s \in snaps : At(record[c], s) \/ s = <<m, n>>
              /\ Recoverable(record[c], snaps) /\ \A s \in snaps : At(record'[c], s)
  BY <1>c, <1>13, <1>18
<1>19. ASSUME Calm PROVE RecordsReach'
  <2>0. RecordsReach
    BY <1>19 DEF IntakeInv
  <2>1. ASSUME NEW d \in Conversations PROVE SnapshotsFit(d)'
    <3>1. \A s \in ActiveSnapshots(d)' : s \in ActiveSnapshots(d) \/ (d = c /\ s = <<m, n>>)
      <4>1. PICK u : u = <<m, n>>
        OBVIOUS
      <4>2. events'[e].body \subseteq events[e].body \cup {u}
        BY <1>10, <4>1
      <4>3. \A s \in ActiveSnapshots(d)' : s \in ActiveSnapshots(d) \/ (Home[events[e].session] = d /\ s = u)
        BY <1>0, <1>3, <1>10, <4>2, BumpSnapshots
      <4> QED  BY <1>10, <4>1, <4>3
    <3>2. CASE d = c
      <4>1. ASSUME NEW s, At(record[c], s) PROVE At(record'[c], s)
        BY <1>0, <1>13, <4>1 DEF Grown, Extends, At
      <4>2. \A s \in ActiveSnapshots(d)' : At(record'[d], s)
        BY <1>7, <1>10, <1>18, <1>19, <3>1, <3>2, <4>1
      <4> QED  BY <4>2, FitAll
    <3>3. CASE d # c
      BY <1>13, <1>14, <2>0, <3>1, <3>3, FitSame DEF RecordsReach
    <3> QED  BY <3>2, <3>3
  <2>2. ConvOfEvent(e) = c
    BY <1>10 DEF ConvOfEvent, SenderEvent
  <2> QED  BY <1>0, <1>3, <1>8, <1>10, <1>13, <1>18, <1>19, <2>0, <2>1, <2>2, ReachBump
<1>20. ASSUME Calm, Delay # 0 PROVE Alone'
  <2>1. Alone /\ AtGate(m)
    BY <1>8, <1>20 DEF IntakeInv, AtGate
  <2>2. ~AtGate(m)'
    <3>1. \A j \in Copies : intake[m][j] # "none" => j = i
      BY <1>0, <1>8, <1>20 DEF Base, GateFit, Calm
    <3> QED  BY <1>14, <3>1 DEF AtGate
  <2>3. \A x \in Entries(record'[c]) : x = m \/ x \in Entries(record[c])
    <3>1. Entries(Recovered(record[c], snaps)) \subseteq Entries(record[c]) \cup Named(snaps)
      BY <1>0, <1>12, <1>18, <1>20, RecoveredFacts
    <3>2. Named(snaps) \subseteq Entries(record[c]) \cup {m}
      <4>1. \A s \in snaps : s[1] \in Entries(record[c]) \/ s[1] = m
        BY <1>18, <1>20 DEF At, Entries
      <4> QED  BY <4>1 DEF Named
    <3> QED  BY <1>13, <1>18, <1>20, <3>1, <3>2
  <2>4. \A x \in Messages : AtGate(x)' =>
          x # m /\ AtGate(x) /\ (x \in Entries(record'[ConvOf(x)]) => x \in Entries(record[ConvOf(x)]))
    <3> SUFFICES ASSUME NEW x \in Messages, AtGate(x)'
                 PROVE  x # m /\ (x \in Entries(record'[ConvOf(x)]) => x \in Entries(record[ConvOf(x)]))
      BY <1>14
    <3>1. x # m
      BY <2>2
    <3>2. ConvOf(x) \in Conversations
      BY IntakeAssumption DEF ConvOf
    <3> QED  BY <1>13, <2>3, <3>1, <3>2
  <2> QED  BY <1>3, <1>10, <2>1, <2>4, AloneBumped
<1> QED  BY <1>1, <1>17, <1>19, <1>20, Assembled

LEMMA CrashAfterBumpKeeps ==
  ASSUME IntakeInv, ~Lost, NEW m \in Messages, NEW i \in Copies, CrashAfterBump(m, i)
  PROVE  IntakeInv'
<1> DEFINE c == ConvOf(m)
<1>0. /\ Base /\ IntakeTypeOK /\ c \in Conversations /\ record[c] \in Seq(Entry) /\ TurnTypeOK
  BY IntakeAssumption, BoundFacts DEF IntakeInv, Base, ConvOf, RecordTypes
<1>1. UNCHANGED <<now, disk>> /\ LoseMemory /\ Disturb("crash") /\ intake[m][i] # "none"
  BY DEF CrashAfterBump
<1>2. bound' = bound /\ budget' \in 0..bound.faults
  BY <1>0, <1>1, DisturbFacts
<1>3. PICK e \in ActiveOf(From[m]) :
        LET at == Later(now + Delay, events[e].at + 1)
        IN /\ m \notin {s[1] : s \in events[e].body}
           /\ at <= bound.time /\ BumpSequence(e, m) <= MaxRecord
           /\ UpdateActiveEvent(e, at, Bumped(events[e].body, m, BumpSequence(e, m)))
           /\ window' = [window EXCEPT ![e] = @ \cup {m}]
  BY DEF CrashAfterBump
<1>4. e \in EventIds
  BY DEF ActiveOf
<1>5. PICK n : n = BumpSequence(e, m)
  OBVIOUS
<1>6. PICK at : at = Later(now + Delay, events[e].at + 1)
  OBVIOUS
<1>7. PICK u : u = <<m, n>>
  OBVIOUS
<1>8. /\ m \notin Named(events[e].body) /\ at <= bound.time /\ n <= MaxRecord
      /\ UpdateActiveEvent(e, at, Bumped(events[e].body, m, n))
      /\ window' = [window EXCEPT ![e] = @ \cup {m}]
  BY <1>3, <1>5, <1>6 DEF Named
<1>9. /\ TurnTypeOK' /\ BumpStep(e, m) /\ Books' /\ n \in Nat
      /\ SenderEvent(e) /\ Active(e) /\ Delay # 0 /\ Home[events[e].session] = c
  BY <1>0, <1>2, <1>4, <1>5, <1>6, <1>8, TakenFacts
<1>10. /\ events'[e].body \subseteq events[e].body \cup {<<m, n>>}
       /\ <<m, n>> \in events'[e].body /\ \A t \in events[e].body : t[2] < n
  BY <1>0, <1>2, <1>4, <1>5, <1>6, <1>8, TakenFacts
<1>11. /\ \A f \in EventIds : events'[f].at <= bound.time
       /\ window' \in [EventIds -> SUBSET Messages]
  BY <1>0, <1>2, <1>4, <1>5, <1>6, <1>8, TakenFacts
<1>12. /\ seen' \subseteq Messages /\ intake' \in [Messages -> [Copies -> {"none", "plain", "strict"}]]
       /\ record' \in [Conversations -> Seq(Messages \cup {Assistant})]
       /\ jobs' \in [EventIds -> [pc : {"none", "claimed", "ready"}, at : 0..MaxTime, body : Bodies]]
       /\ \A f \in EventIds : jobs'[f].pc = "none"
       /\ \A x \in Messages : ~AtGate(x)'
       /\ \A d : ~Waits(d)'
       /\ JobsFit' /\ GateFit' /\ RecordsOnce' /\ Written'
       /\ Calm => (UNCHANGED record /\ Grown)
  BY <1>0, <1>1, <1>2, LoseFacts
<1>13. IntakeTypeOK'
  BY <1>0, <1>1, <1>2, <1>9, <1>11, <1>12 DEF IntakeTypeOK
<1>14. Base'
  BY <1>9, <1>12, <1>13 DEF Base
<1>15. ASSUME Calm PROVE RecordsReach'
  <2>0. RecordsReach /\ UNCHANGED record
    BY <1>12, <1>15 DEF IntakeInv
  <2>1. /\ \A s \in ActiveSnapshots(c) : At(record[c], s)
        /\ \A s \in events[e].body : At(record[c], s)
        /\ Upcoming(record[c], <<m, n>>)
    BY <1>1, <1>4, <1>5, <1>9, <1>15, TakenNext
  <2>2. ASSUME NEW d \in Conversations PROVE SnapshotsFit(d)'
    <3>1. \A s \in ActiveSnapshots(d)' : s \in ActiveSnapshots(d) \/ (d = c /\ s = u)
      <4>1. events'[e].body \subseteq events[e].body \cup {u}
        BY <1>7, <1>10
      <4>2. \A s \in ActiveSnapshots(d)' : s \in ActiveSnapshots(d) \/ (Home[events[e].session] = d /\ s = u)
        BY <1>0, <1>4, <1>9, <4>1, BumpSnapshots
      <4> QED  BY <1>9, <4>2
    <3>2. CASE d = c
      <4>1. \A s \in ActiveSnapshots(c)' : At(record'[c], s) \/ (s = u /\ Upcoming(record'[c], u))
        BY <1>7, <2>0, <2>1, <3>1, <3>2
      <4> QED  BY <1>12, <3>2, <4>1, FitNext
    <3>3. CASE d # c
      BY <1>12, <2>0, <3>1, <3>3, FitSame DEF RecordsReach
    <3> QED  BY <3>2, <3>3
  <2>3. ConvOfEvent(e) = c
    BY <1>9 DEF ConvOfEvent, SenderEvent
  <2> QED  BY <1>0, <1>4, <1>9, <1>10, <1>12, <1>15, <2>0, <2>1, <2>2, <2>3, ReachBump
<1>16. ASSUME Calm, Delay # 0 PROVE Alone'
  <2>1. Alone /\ AtGate(m)
    BY <1>1, <1>16 DEF IntakeInv, AtGate
  <2> QED  BY <1>4, <1>9, <1>12, <2>1, AloneBumped
<1> QED  BY <1>2, <1>14, <1>15, <1>16, Assembled

--------------------------------------------------------------------------------
(* Handlers *)

\* A step that changes one event's state only.
LEMMA OnlyQuiet ==
  ASSUME UNCHANGED <<filled, said, bound, window>>, NEW e \in EventIds, Active(e),
         NEW state \in {"pending", "running", "completed"}, OnlyState(e, state)
  PROVE  QuietStep /\ (\A f \in EventIds : f # e => HeldOn(f)) /\ \A f \in EventIds : events'[f].at = events[f].at
<1>1. events[e].state \in {"pending", "running"}
  BY DEF Active
<1>2. Keeps(e)
  BY <1>1 DEF OnlyState, Keeps
<1>3. \A f \in EventIds : f # e => events'[f] = events[f]
  BY DEF OnlyState
<1>4. \A f \in EventIds : f # e => Keeps(f) /\ HeldOn(f)
  BY <1>3 DEF Keeps, SameEvent, HeldOn
<1>5. \A f \in EventIds : events'[f].at = events[f].at
  BY <1>3 DEF OnlyState
<1> QED  BY <1>2, <1>4, <1>5 DEF QuietStep

LEMMA ClaimKeeps ==
  ASSUME IntakeInv, ~Lost, NEW e \in EventIds, Claim(e)
  PROVE  IntakeInv'
<1>1. /\ ClaimableAt(e, now) /\ ClaimTurns({e}, TheWorker)
      /\ jobs' = [jobs EXCEPT ![e] = [pc |-> "claimed", at |-> events[e].at, body |-> events[e].body]]
      /\ UNCHANGED <<now, seen, record, disk, intake, window, bound, budget>>
      /\ Base /\ IntakeTypeOK /\ TurnTypeOK /\ RecordTypes
  BY BoundFacts DEF Claim, intakeVars, IntakeInv, Base
<1>2. events[e].state = "pending" /\ events[e].attempts < MaxAttempts
  BY <1>1 DEF ClaimableAt, Waiting
<1>3. TurnTypeOK' /\ UNCHANGED <<filled, said>> /\ OnlyState(e, "running")
  BY <1>1, <1>2, ClaimFacts
<1>4. QuietStep /\ (\A f \in EventIds : f # e => HeldOn(f)) /\ \A f \in EventIds : events'[f].at = events[f].at
  BY <1>1, <1>2, <1>3, OnlyQuiet DEF Active
<1>5. /\ events'[e].state = "running" /\ SameEvent(e) /\ events'[e].at = events[e].at
      /\ events[e].at \in 0..MaxTime /\ events[e].body \in Bodies
  BY <1>1, <1>3 DEF OnlyState, TurnTypeOK, Event
<1>6. /\ jobs' \in [EventIds -> [pc : {"none", "claimed", "ready"}, at : 0..MaxTime, body : Bodies]]
      /\ jobs'[e] = [pc |-> "claimed", at |-> events[e].at, body |-> events[e].body]
      /\ \A f \in EventIds : f # e => jobs'[f] = jobs[f]
  <2>1. jobs \in [EventIds -> [pc : {"none", "claimed", "ready"}, at : 0..MaxTime, body : Bodies]]
    BY <1>1 DEF IntakeTypeOK
  <2>2. [pc |-> "claimed", at |-> events[e].at, body |-> events[e].body]
          \in [pc : {"none", "claimed", "ready"}, at : 0..MaxTime, body : Bodies]
    BY <1>5
  <2> QED  BY <1>1, <2>1, <2>2
<1>7. IntakeTypeOK'
  <2>1. \A f \in EventIds : events'[f].at <= bound.time
    BY <1>1, <1>4 DEF IntakeTypeOK
  <2> QED  BY <1>1, <1>3, <1>6, <2>1 DEF IntakeTypeOK
<1>8. BodyFit(e) /\ Present(e)
  BY <1>1, <1>2 DEF Base, Books, Present
<1>9. JobFit(e)'
  <2>1. events'[e].at \in Nat
    BY <1>5, TurnAssumption
  <2>2. jobs'[e].at <= events'[e].at
    BY <1>5, <1>6, <2>1
  <2> QED  BY <1>1, <1>5, <1>6, <1>8, <2>2 DEF JobFit, BodyFit, SameEvent
<1>10. JobsFit'
  <2>1. jobs'[e].pc # "none"
    BY <1>6
  <2> QED  BY <1>1, <1>4, <1>6, <1>7, <1>9, <2>1, JobsKept DEF Base
<1>11. Books' /\ GateFit' /\ RecordsOnce' /\ Written' /\ Grown
  BY <1>1, <1>4, BooksQuiet, RecordsSame DEF Base, GateFit
<1>12. Base'
  BY <1>7, <1>10, <1>11 DEF Base
<1>13. ASSUME Calm PROVE RecordsReach'
  <2>1. \A c \in Conversations : SnapshotsFit(c)'
    BY <1>1, <1>3, <1>4, <1>13, QuietSnapshots, FitSame DEF IntakeInv, RecordsReach, Waits, ConvOf
  <2>2. JobRecorded(e)'
    BY <1>5, <1>6 DEF JobRecorded, SameEvent
  <2> QED  BY <1>1, <1>4, <1>6, <1>11, <1>13, <2>1, <2>2, ReachQuiet DEF IntakeInv
<1>14. ASSUME Calm, Delay # 0 PROVE Alone'
  BY <1>1, <1>4, <1>14, AloneQuiet DEF IntakeInv, AtGate
<1> QED  BY <1>1, <1>12, <1>13, <1>14, Assembled

\* What a running handler holds.
LEMMA HeldFacts ==
  ASSUME Base, NEW e \in EventIds, jobs[e].pc # "none"
  PROVE  /\ events[e].state = "running" /\ Active(e) /\ Present(e) /\ JobFit(e) /\ BodyFit(e)
         /\ jobs[e].body \in SUBSET Snapshot /\ jobs[e].at \in 0..MaxTime
         /\ WellFormed(jobs[e].body, events[e].key) /\ Named(jobs[e].body) \subseteq window[e]
         /\ events[e].key \in Messages
         /\ Earliest(jobs[e].body)[1] = events[e].key
<1>1. JobFit(e) /\ BodyFit(e) /\ IntakeTypeOK
  BY DEF Base, JobsFit, Books
<1>2. events[e].state = "running" /\ Active(e) /\ Present(e)
  BY <1>1 DEF JobFit, Active, Present
<1>3. jobs[e].body \in SUBSET Snapshot /\ jobs[e].at \in 0..MaxTime
  BY <1>1, IntakeAssumption DEF IntakeTypeOK, Snapshot
<1>4. WellFormed(jobs[e].body, events[e].key) /\ Named(jobs[e].body) \subseteq window[e] /\ events[e].key \in Messages
  BY <1>1, <1>2 DEF JobFit, BodyFit
<1>5. PICK s \in jobs[e].body : s[1] = events[e].key /\ \A t \in jobs[e].body : s[2] <= t[2]
  BY <1>4 DEF WellFormed
<1>6. Earliest(jobs[e].body) = s
  BY <1>3, <1>4, <1>5, EarliestIs DEF WellFormed
<1> QED  BY <1>1, <1>2, <1>3, <1>4, <1>5, <1>6

LEMMA JobLeaves ==
  ASSUME IntakeTypeOK, NEW e \in EventIds, jobs' = [jobs EXCEPT ![e] = NoJob]
  PROVE  /\ jobs' \in [EventIds -> [pc : {"none", "claimed", "ready"}, at : 0..MaxTime, body : Bodies]]
         /\ jobs'[e].pc = "none" /\ \A f \in EventIds : f # e => jobs'[f] = jobs[f]
<1>1. NoJob \in [pc : {"none", "claimed", "ready"}, at : 0..MaxTime, body : Bodies] /\ NoJob.pc = "none"
  BY IntakeAssumption, TurnAssumption DEF NoJob
<1>2. jobs \in [EventIds -> [pc : {"none", "claimed", "ready"}, at : 0..MaxTime, body : Bodies]]
  BY DEF IntakeTypeOK
<1> QED  BY <1>1, <1>2

\* No record is written, but for what a recovery has left in memory that threw.
Unwritten ==
  \/ UNCHANGED <<record, disk>>
  \/ ~Calm /\ \E c \in Conversations, snaps \in SUBSET Snapshot : Throw(c, snaps)

\* A handler is gone and its event over, or pending again.
LEMMA StoppedKeeps ==
  ASSUME IntakeInv, ~Lost, NEW e \in EventIds, Active(e), NEW state \in {"pending", "completed"},
         TurnTypeOK', UNCHANGED <<filled, said>>, OnlyState(e, state), jobs' = [jobs EXCEPT ![e] = NoJob],
         UNCHANGED <<now, seen, intake, window, bound>>, Unwritten, budget' \in 0..bound.faults
  PROVE  IntakeInv'
<1>1. Base /\ IntakeTypeOK /\ TurnTypeOK /\ RecordTypes
  BY BoundFacts DEF IntakeInv, Base
<1>2. QuietStep /\ (\A f \in EventIds : f # e => HeldOn(f)) /\ \A f \in EventIds : events'[f].at = events[f].at
  BY OnlyQuiet
<1>3. /\ jobs' \in [EventIds -> [pc : {"none", "claimed", "ready"}, at : 0..MaxTime, body : Bodies]]
      /\ jobs'[e].pc = "none" /\ \A f \in EventIds : f # e => jobs'[f] = jobs[f]
  BY <1>1, JobLeaves
<1>r. /\ RecordsOnce' /\ Written' /\ Grown /\ (Calm => UNCHANGED <<record, disk>>)
      /\ record' \in [Conversations -> Seq(Messages \cup {Assistant})]
      /\ disk' \in [Conversations -> Seq(Messages \cup {Assistant})]
  <2>1. /\ record \in [Conversations -> Seq(Messages \cup {Assistant})]
        /\ disk \in [Conversations -> Seq(Messages \cup {Assistant})]
        /\ RecordsOnce /\ Written
    BY <1>1 DEF IntakeTypeOK, Base
  <2>2. CASE UNCHANGED <<record, disk>>
    BY <1>1, <2>1, <2>2, RecordsSame
  <2>3. CASE ~Calm /\ \E c \in Conversations, snaps \in SUBSET Snapshot : Throw(c, snaps)
    <3>1. PICK c \in Conversations, snaps \in SUBSET Snapshot : Throw(c, snaps)
      BY <2>3
    <3> QED  BY <1>1, <2>1, <2>3, <3>1, ThrowFacts
  <2> QED  BY <2>2, <2>3 DEF Unwritten
<1>4. IntakeTypeOK'
  BY <1>1, <1>2, <1>3, <1>r DEF IntakeTypeOK
<1>5. JobsFit'
  <2>1. Idle(e)'
    BY DEF OnlyState, Idle
  <2> QED  BY <1>1, <1>2, <1>3, <1>4, <2>1, JobsKept DEF Base
<1>6. Books' /\ GateFit' /\ RecordsOnce' /\ Written' /\ Grown
  BY <1>1, <1>2, <1>r, BooksQuiet DEF Base, GateFit
<1>7. Base'
  BY <1>4, <1>5, <1>6 DEF Base
<1>8. ASSUME Calm PROVE RecordsReach'
  <2>1. \A c \in Conversations : SnapshotsFit(c)'
    BY <1>1, <1>2, <1>r, <1>8, QuietSnapshots, FitSame DEF IntakeInv, RecordsReach, Waits, ConvOf
  <2> QED  BY <1>1, <1>2, <1>3, <1>6, <1>8, <2>1, ReachQuiet DEF IntakeInv
<1>9. ASSUME Calm, Delay # 0 PROVE Alone'
  BY <1>2, <1>r, <1>9, AloneQuiet DEF IntakeInv, AtGate
<1> QED  BY <1>7, <1>8, <1>9, Assembled

LEMMA EndedKeeps ==
  ASSUME IntakeInv, ~Lost, NEW e \in EventIds, jobs[e].pc # "none", NEW outcome \in Ended, EndJob(e, outcome),
         UNCHANGED <<now, seen, intake, window, bound>>, Unwritten, budget' \in 0..bound.faults
  PROVE  IntakeInv'
<1>1. Base /\ TurnTypeOK /\ NothingSaid
  BY DEF IntakeInv, Base, IntakeTypeOK, Books
<1>2. PICK a : a = Attempt(e)
  OBVIOUS
<1>3. FinishTurn(e, a, outcome) /\ jobs' = [jobs EXCEPT ![e] = NoJob]
  BY <1>2 DEF EndJob
<1>4. TurnTypeOK' /\ UNCHANGED <<filled, said>> /\ OnlyState(e, "completed")
  BY <1>1, <1>3, FinishFacts
<1>5. Active(e)
  BY <1>1, HeldFacts
<1> QED  BY <1>3, <1>4, <1>5, StoppedKeeps

LEMMA GateClosedKeeps ==
  ASSUME IntakeInv, ~Lost, NEW e \in EventIds, GateClosed(e)
  PROVE  IntakeInv'
<1>1. IntakeTypeOK
  BY DEF IntakeInv, Base
<1>2. jobs[e].pc # "none" /\ EndJob(e, "no_reply") /\ Disturb("gate")
      /\ UNCHANGED <<now, seen, record, disk, intake, window>>
  BY DEF GateClosed, intakeVars
<1>3. bound' = bound /\ budget' \in 0..bound.faults
  BY <1>1, <1>2, DisturbFacts
<1>4. "no_reply" \in Ended
  BY DEF Ended
<1> QED  BY <1>2, <1>3, <1>4, EndedKeeps DEF Unwritten

\* A handler's own snapshots are recorded, or are those of an open window.
LEMMA HeldSnapshots ==
  ASSUME IntakeInv, NEW e \in EventIds, jobs[e].pc # "none", NEW c, c = ConvOfEvent(e)
  PROVE  /\ c \in Conversations /\ JobSnapshots(e, c) \in SUBSET Snapshot
         /\ Calm => \A s \in jobs[e].body : At(record[c], s) \/ s \in ActiveSnapshots(c)
         /\ Calm => Recoverable(record[c], JobSnapshots(e, c))
<1>1. Base /\ TurnTypeOK /\ RecordTypes /\ c \in Conversations /\ NoRepeat(record[c])
  BY BoundFacts, SessionKinds DEF IntakeInv, Base, RecordsOnce
<1>2. /\ Active(e) /\ Present(e) /\ JobFit(e) /\ BodyFit(e) /\ jobs[e].body \in SUBSET Snapshot
  BY <1>1, HeldFacts
<1>3. JobSnapshots(e, c) = ActiveSnapshots(c) \cup jobs[e].body /\ JobSnapshots(e, c) \in SUBSET Snapshot
  BY <1>1, <1>2, SnapshotsOf DEF JobSnapshots
<1>4. ASSUME Calm, NEW s \in jobs[e].body PROVE At(record[c], s) \/ s \in ActiveSnapshots(c)
  <2>1. JobRecorded(e) /\ ReplyRecorded(e)
    BY <1>4 DEF IntakeInv, RecordsReach
  <2>2. CASE events[e].session \in Senders
    <3>1. At(record[c], s) \/ s \in events[e].body
      BY <1>2, <1>4, <2>1, <2>2 DEF JobRecorded, Active
    <3>2. SenderEvent(e) /\ Home[events[e].session] = c /\ Delay # 0
      BY <1>2, <2>2 DEF SenderEvent, ConvOfEvent, BodyFit
    <3>3. events[e].body \subseteq ActiveSnapshots(c)
      BY <1>1, <1>2, <3>2, SnapshotsOf
    <3> QED  BY <3>1, <3>3
  <2>3. CASE events[e].session \notin Senders
    <3>1. events[e].session \in Conversations /\ c = events[e].session
      BY <1>1, <2>3, SessionKinds DEF ConvOfEvent
    <3>2. Replies(e)
      BY <1>2, <3>1 DEF Replies, Present
    <3>3. jobs[e].body = events[e].body
      BY <1>2, <3>2 DEF JobFit, Active
    <3> QED  BY <1>4, <2>1, <3>1, <3>2, <3>3 DEF ReplyRecorded
  <2> QED  BY <2>2, <2>3
<1>5. ASSUME Calm PROVE Recoverable(record[c], JobSnapshots(e, c))
  <2>1. SnapshotsFit(c)
    BY <1>1, <1>5 DEF IntakeInv, RecordsReach
  <2>2. Recoverable(record[c], ActiveSnapshots(c) \cup jobs[e].body)
    BY <1>1, <1>2, <1>4, <1>5, <2>1, FitRecovers
  <2> QED  BY <1>3, <2>2
<1> QED  BY <1>1, <1>3, <1>4, <1>5

\* The record a handler writes: the snapshots of the windows and its own, and an
\* answer behind them.
LEMMA TurnRecords ==
  ASSUME IntakeInv, NEW e \in EventIds, jobs[e].pc # "none", NEW c, c = ConvOfEvent(e),
         NEW snaps, snaps = JobSnapshots(e, c), Recoverable(record[c], snaps),
         NEW new, new = Recovered(record[c], snaps) \/ new = Append(Recovered(record[c], snaps), Assistant)
  PROVE  /\ c \in Conversations /\ new \in Seq(Entry) /\ Extends(record[c], new)
         /\ NoRepeat(record[c]) => NoRepeat(new)
         /\ Calm => \A s \in snaps : At(new, s)
         /\ Calm => \A x \in Messages : (AtGate(x) /\ ConvOf(x) = c /\ x \in Entries(new))
                                           => x \in Entries(record[c])
<1> DEFINE rec == Recovered(record[c], snaps)
<1>1. /\ Base /\ TurnTypeOK /\ RecordTypes /\ c \in Conversations /\ record[c] \in Seq(Entry)
      /\ NoRepeat(record[c])
  BY BoundFacts, SessionKinds DEF IntakeInv, Base, RecordTypes, RecordsOnce
<1>2. /\ Active(e) /\ Present(e) /\ JobFit(e) /\ BodyFit(e) /\ jobs[e].body \in SUBSET Snapshot
  BY <1>1, HeldFacts
<1>3. snaps = ActiveSnapshots(c) \cup jobs[e].body /\ snaps \in SUBSET Snapshot
  BY <1>1, <1>2, SnapshotsOf DEF JobSnapshots
<1>4. /\ rec \in Seq(Entry) /\ Extends(record[c], rec) /\ NoRepeat(rec)
      /\ Entries(rec) \subseteq Entries(record[c]) \cup Named(snaps)
  BY <1>1, <1>3, RecoveredFacts
<1>5. Calm => \A s \in jobs[e].body : At(record[c], s) \/ s \in ActiveSnapshots(c)
  BY HeldSnapshots
<1>6. Calm => \A s \in snaps : At(rec, s)
  <2> SUFFICES ASSUME Calm PROVE \A s \in snaps : At(rec, s)
    OBVIOUS
  <2>1. SnapshotsFit(c)
    BY <1>1 DEF IntakeInv, RecordsReach
  <2>2. \A s \in ActiveSnapshots(c) \cup jobs[e].body :
          At(Recovered(record[c], ActiveSnapshots(c) \cup jobs[e].body), s)
    BY <1>1, <1>2, <1>5, <2>1, FitRecovers
  <2> QED  BY <1>3, <2>2
<1>7. Calm => \A x \in Messages : (AtGate(x) /\ ConvOf(x) = c /\ x \in Entries(rec)) => x \in Entries(record[c])
  <2> SUFFICES ASSUME Calm, NEW x \in Messages, AtGate(x), ConvOf(x) = c, x \in Entries(rec)
               PROVE  x \in Entries(record[c])
    OBVIOUS
  <2>1. SnapshotsFit(c) /\ Waits(c)
    BY <1>1 DEF IntakeInv, RecordsReach, Waits, AtGate
  <2>2. \A s \in snaps : At(record[c], s)
    BY <1>3, <1>5, <2>1, GateSettled
  <2>3. Named(snaps) \subseteq Entries(record[c])
    BY <2>2 DEF Named, At, Entries
  <2> QED  BY <1>4, <2>3
<1> HIDE DEF rec
<1>8. CASE new = rec
  BY <1>1, <1>4, <1>6, <1>7, <1>8
<1>9. CASE new = Append(rec, Assistant)
  <2>1. /\ new \in Seq(Entry) /\ Extends(rec, new) /\ NoRepeat(new)
        /\ Entries(new) = Entries(rec) \cup {Assistant}
    BY <1>4, <1>9, AppendRecord DEF Entry
  <2>2. Extends(record[c], new)
    BY <1>1, <1>4, <2>1, ExtendsTransitive
  <2>3. \A s : At(rec, s) => At(new, s)
    BY <1>4, <2>1, ExtendsKeeps
  <2>4. \A x \in Messages : x # Assistant
    BY IntakeAssumption
  <2> QED  BY <1>1, <1>6, <1>7, <2>1, <2>2, <2>3, <2>4
<1> QED  BY <1>8, <1>9 DEF rec

\* What every record that a handler writes leaves in order.
LEMMA WrittenKeeps ==
  ASSUME IntakeInv, NEW e \in EventIds, jobs[e].pc # "none", NEW c, c = ConvOfEvent(e),
         NEW snaps, snaps = JobSnapshots(e, c), Recoverable(record[c], snaps),
         NEW new, new = Recovered(record[c], snaps) \/ new = Append(Recovered(record[c], snaps), Assistant),
         record' = [record EXCEPT ![c] = new], disk' = [disk EXCEPT ![c] = record'[c]],
         UNCHANGED <<intake, bound>>, TurnTypeOK', QuietStep
  PROVE  /\ record' \in [Conversations -> Seq(Messages \cup {Assistant})]
         /\ disk' \in [Conversations -> Seq(Messages \cup {Assistant})]
         /\ RecordsOnce' /\ Written' /\ Grown
         /\ Calm => \A d \in Conversations : SnapshotsFit(d)'
         /\ Calm => \A s \in jobs[e].body : At(record'[c], s)
         /\ (Calm /\ Delay # 0) => Alone'
<1>1. /\ Base /\ TurnTypeOK /\ RecordTypes /\ RecordsOnce /\ Written
      /\ record \in [Conversations -> Seq(Messages \cup {Assistant})]
      /\ disk \in [Conversations -> Seq(Messages \cup {Assistant})]
  BY BoundFacts DEF IntakeInv, Base, IntakeTypeOK
<1>2. /\ c \in Conversations /\ new \in Seq(Entry) /\ Extends(record[c], new)
      /\ NoRepeat(record[c]) => NoRepeat(new)
      /\ Calm => \A s \in snaps : At(new, s)
      /\ Calm => \A x \in Messages : (AtGate(x) /\ ConvOf(x) = c /\ x \in Entries(new)) => x \in Entries(record[c])
  BY TurnRecords
<1>3. /\ RecordTypes' /\ DOMAIN disk' = Conversations /\ RecordsOnce' /\ Written'
      /\ record'[c] = new /\ (\A d \in Conversations : d # c => record'[d] = record[d]) /\ Grown
  <2>1. DOMAIN disk = Conversations
    BY <1>1
  <2> QED  BY <1>1, <1>2, <2>1, RecordsMove
<1>4. /\ record' \in [Conversations -> Seq(Messages \cup {Assistant})]
      /\ disk' \in [Conversations -> Seq(Messages \cup {Assistant})]
  <2>1. record' = [d \in Conversations |-> record'[d]] /\ disk' = [d \in Conversations |-> disk'[d]]
    BY <1>1
  <2> QED  BY <1>3, <2>1 DEF RecordTypes, Entry
<1>5. snaps = ActiveSnapshots(c) \cup jobs[e].body
  BY DEF JobSnapshots
<1>6. ASSUME Calm, NEW d \in Conversations PROVE SnapshotsFit(d)'
  <2>1. ActiveSnapshots(d)' \subseteq ActiveSnapshots(d) /\ SnapshotsFit(d)
    BY <1>1, <1>6, QuietSnapshots DEF IntakeInv, RecordsReach
  <2>2. CASE d = c
    <3>1. \A s \in ActiveSnapshots(d)' : At(record'[d], s)
      BY <1>2, <1>3, <1>5, <1>6, <2>1, <2>2
    <3> QED  BY <3>1, FitAll
  <2>3. CASE d # c
    <3>1. Waits(d)' => Waits(d)
      BY DEF Waits, ConvOf
    <3> QED  BY <1>3, <2>1, <2>3, <3>1, FitSame
  <2> QED  BY <2>2, <2>3
<1>7. ASSUME Calm, Delay # 0 PROVE Alone'
  <2>1. \A x \in Messages : AtGate(x)' =>
          AtGate(x) /\ (x \in Entries(record'[ConvOf(x)]) => x \in Entries(record[ConvOf(x)]))
    <3> SUFFICES ASSUME NEW x \in Messages, AtGate(x), x \in Entries(record'[ConvOf(x)])
                 PROVE  x \in Entries(record[ConvOf(x)])
      BY DEF AtGate
    <3>1. ConvOf(x) \in Conversations
      BY IntakeAssumption DEF ConvOf
    <3> QED  BY <1>2, <1>3, <1>7, <3>1
  <2> QED  BY <1>7, <2>1, AloneQuiet DEF IntakeInv
<1> QED  BY <1>2, <1>3, <1>4, <1>5, <1>6, <1>7

LEMMA ProcessDebounceKeeps ==
  ASSUME IntakeInv, ~Lost, NEW e \in EventIds, ProcessDebounce(e)
  PROVE  IntakeInv'
<1>0. PICK c : c = Home[events[e].session]
  OBVIOUS
<1>1. PICK snaps : snaps = JobSnapshots(e, c)
  OBVIOUS
<1>2. /\ jobs[e].pc = "claimed" /\ events[e].session \in Senders /\ c = ConvOfEvent(e)
      /\ UNCHANGED <<now, seen, intake, window, bound, budget>>
      /\ \/ /\ Recoverable(record[c], snaps)
            /\ RecoverForTurn(c, snaps)
            /\ jobs' = [jobs EXCEPT ![e].pc = "ready"]
            /\ UNCHANGED turnVars
         \/ /\ ~Recoverable(record[c], snaps)
            /\ Throw(c, snaps)
            /\ EndJob(e, "failed")
  BY <1>0, <1>1 DEF ProcessDebounce, ConvOfEvent
<1>3. Base /\ IntakeTypeOK /\ TurnTypeOK
  BY DEF IntakeInv, Base, IntakeTypeOK
<1>4. CASE ~Recoverable(record[c], snaps) /\ Throw(c, snaps) /\ EndJob(e, "failed")
  <2>1. "failed" \in Ended /\ jobs[e].pc # "none"
    BY <1>2 DEF Ended
  <2>u. Unwritten
    BY <1>1, <1>2, <1>4, <2>1, HeldSnapshots DEF Unwritten
  <2>2. budget' \in 0..bound.faults
    BY <1>2, <1>3 DEF IntakeTypeOK
  <2> QED  BY <1>2, <1>4, <2>1, <2>2, <2>u, EndedKeeps
<1>5. CASE /\ Recoverable(record[c], snaps) /\ RecoverForTurn(c, snaps)
           /\ jobs' = [jobs EXCEPT ![e].pc = "ready"] /\ UNCHANGED turnVars
  <2>1. QuietStep /\ (\A f \in EventIds : HeldOn(f)) /\ TurnTypeOK' /\ events' = events
    BY <1>2, <1>3, <1>5, StillQuiet DEF turnVars
  <2>2. PICK new : new = Recovered(record[c], snaps)
    OBVIOUS
  <2>3. record' = [record EXCEPT ![c] = new] /\ disk' = [disk EXCEPT ![c] = record'[c]]
    BY <1>5, <2>2 DEF RecoverForTurn, Recover
  <2>4. jobs[e].pc # "none"
    BY <1>2
  <2>5. /\ record' \in [Conversations -> Seq(Messages \cup {Assistant})]
        /\ disk' \in [Conversations -> Seq(Messages \cup {Assistant})]
        /\ RecordsOnce' /\ Written' /\ Grown
        /\ Calm => \A d \in Conversations : SnapshotsFit(d)'
        /\ Calm => \A s \in jobs[e].body : At(record'[c], s)
        /\ (Calm /\ Delay # 0) => Alone'
    BY <1>1, <1>2, <1>5, <2>1, <2>2, <2>3, <2>4, WrittenKeeps
  <2>6. /\ jobs' \in [EventIds -> [pc : {"none", "claimed", "ready"}, at : 0..MaxTime, body : Bodies]]
        /\ jobs'[e].pc = "ready" /\ jobs'[e].at = jobs[e].at /\ jobs'[e].body = jobs[e].body
        /\ \A f \in EventIds : f # e => jobs'[f] = jobs[f]
    <3>1. jobs \in [EventIds -> [pc : {"none", "claimed", "ready"}, at : 0..MaxTime, body : Bodies]]
      BY <1>3 DEF IntakeTypeOK
    <3>2. jobs' = [jobs EXCEPT ![e] = [jobs[e] EXCEPT !.pc = "ready"]]
      BY <1>5, <3>1
    <3>3. [jobs[e] EXCEPT !.pc = "ready"] \in [pc : {"none", "claimed", "ready"}, at : 0..MaxTime, body : Bodies]
      BY <3>1
    <3> QED  BY <3>1, <3>2, <3>3
  <2>7. IntakeTypeOK'
    BY <1>2, <1>3, <2>1, <2>5, <2>6 DEF IntakeTypeOK
  <2>8. JobFit(e)'
    <3>1. JobFit(e)
      BY <1>3 DEF Base, JobsFit
    <3> QED  BY <1>2, <2>1, <2>4, <2>6, <3>1 DEF JobFit, Replies
  <2>9. JobsFit'
    <3>1. jobs'[e].pc # "none"
      BY <2>6
    <3> QED  BY <1>3, <2>1, <2>6, <2>7, <2>8, <3>1, JobsKept DEF Base
  <2>10. Books' /\ GateFit'
    BY <1>2, <1>3, <2>1, BooksQuiet DEF Base, GateFit
  <2>11. Base'
    BY <2>5, <2>7, <2>9, <2>10 DEF Base
  <2>12. ASSUME Calm PROVE RecordsReach'
    <3>1. JobRecorded(e)'
      <4>1. ConvOfEvent(e)' = c
        BY <1>2, <2>1 DEF ConvOfEvent
      <4> QED  BY <2>5, <2>6, <2>12, <4>1 DEF JobRecorded
    <3> QED  BY <1>3, <2>1, <2>5, <2>6, <2>12, <3>1, ReachQuiet DEF IntakeInv
  <2> QED  BY <1>2, <2>5, <2>11, <2>12, Assembled
<1> QED  BY <1>2, <1>4, <1>5

LEMMA AnswerKeeps ==
  ASSUME IntakeInv, ~Lost, NEW e \in EventIds, Answer(e)
  PROVE  IntakeInv'
<1>0. PICK c : c = events[e].session
  OBVIOUS
<1>1. PICK snaps : snaps = JobSnapshots(e, c)
  OBVIOUS
<1>2. /\ jobs[e].pc = "claimed" /\ Replies(e) /\ UNCHANGED <<now, intake, window, bound, budget>>
      /\ \/ /\ Recoverable(record[c], snaps)
            /\ record' = [record EXCEPT ![c] = Append(Recovered(record[c], snaps), Assistant)]
            /\ disk' = [disk EXCEPT ![c] = record'[c]]
            /\ seen' = seen \cup {Earliest(jobs[e].body)[1]}
            /\ EndJob(e, "replied")
         \/ /\ ~Recoverable(record[c], snaps)
            /\ Throw(c, snaps)
            /\ EndJob(e, "failed")
            /\ UNCHANGED seen
  BY <1>0, <1>1 DEF Answer
<1>3. Base /\ IntakeTypeOK /\ TurnTypeOK /\ NothingSaid
  BY DEF IntakeInv, Base, IntakeTypeOK, Books
<1>4. c = ConvOfEvent(e) /\ jobs[e].pc # "none"
  BY <1>0, <1>2, <1>3, IntakeAssumption DEF ConvOfEvent, Replies
<1>5. CASE ~Recoverable(record[c], snaps) /\ Throw(c, snaps) /\ EndJob(e, "failed") /\ UNCHANGED seen
  <2>1. "failed" \in Ended
    BY DEF Ended
  <2>u. Unwritten
    BY <1>1, <1>4, <1>5, HeldSnapshots DEF Unwritten
  <2>2. budget' \in 0..bound.faults
    BY <1>2, <1>3 DEF IntakeTypeOK
  <2> QED  BY <1>2, <1>4, <1>5, <2>1, <2>2, <2>u, EndedKeeps
<1>6. CASE /\ Recoverable(record[c], snaps)
           /\ record' = [record EXCEPT ![c] = Append(Recovered(record[c], snaps), Assistant)]
           /\ disk' = [disk EXCEPT ![c] = record'[c]]
           /\ seen' = seen \cup {Earliest(jobs[e].body)[1]}
           /\ EndJob(e, "replied")
  <2>1. PICK a : a = Attempt(e)
    OBVIOUS
  <2>2. FinishTurn(e, a, "replied") /\ jobs' = [jobs EXCEPT ![e] = NoJob] /\ "replied" \in Ended
    BY <1>6, <2>1 DEF EndJob, Ended
  <2>3. TurnTypeOK' /\ UNCHANGED <<filled, said>> /\ OnlyState(e, "completed")
    BY <1>3, <2>2, FinishFacts
  <2>4. Active(e) /\ Earliest(jobs[e].body)[1] \in Messages
    BY <1>3, <1>4, HeldFacts
  <2>5. QuietStep /\ (\A f \in EventIds : f # e => HeldOn(f)) /\ \A f \in EventIds : events'[f].at = events[f].at
    BY <1>2, <2>3, <2>4, OnlyQuiet
  <2>6. PICK new : new = Append(Recovered(record[c], snaps), Assistant)
    OBVIOUS
  <2>7. record' = [record EXCEPT ![c] = new] /\ disk' = [disk EXCEPT ![c] = record'[c]]
    BY <1>6, <2>6
  <2>8. /\ record' \in [Conversations -> Seq(Messages \cup {Assistant})]
        /\ disk' \in [Conversations -> Seq(Messages \cup {Assistant})]
        /\ RecordsOnce' /\ Written' /\ Grown
        /\ Calm => \A d \in Conversations : SnapshotsFit(d)'
        /\ (Calm /\ Delay # 0) => Alone'
    <3>1. new = Recovered(record[c], snaps) \/ new = Append(Recovered(record[c], snaps), Assistant)
      BY <2>6
    <3>2. Recoverable(record[c], snaps)
      BY <1>6
    <3>3. UNCHANGED <<intake, bound>>
      BY <1>2
    <3> QED  BY <1>1, <1>4, <2>3, <2>5, <2>7, <3>1, <3>2, <3>3, WrittenKeeps
  <2>9. /\ jobs' \in [EventIds -> [pc : {"none", "claimed", "ready"}, at : 0..MaxTime, body : Bodies]]
        /\ jobs'[e].pc = "none" /\ \A f \in EventIds : f # e => jobs'[f] = jobs[f]
    BY <1>3, <2>2, JobLeaves
  <2>10. IntakeTypeOK'
    BY <1>2, <1>3, <1>6, <2>3, <2>4, <2>5, <2>8, <2>9 DEF IntakeTypeOK
  <2>11. JobsFit'
    <3>1. Idle(e)'
      BY <2>3 DEF OnlyState, Idle
    <3> QED  BY <1>3, <2>5, <2>9, <2>10, <3>1, JobsKept DEF Base
  <2>12. Books' /\ GateFit'
    BY <1>2, <1>3, <2>5, BooksQuiet DEF Base, GateFit
  <2>13. Base'
    BY <2>8, <2>10, <2>11, <2>12 DEF Base
  <2>14. ASSUME Calm PROVE RecordsReach'
    BY <1>3, <2>5, <2>8, <2>9, <2>14, ReachQuiet DEF IntakeInv
  <2> QED  BY <1>2, <2>8, <2>13, <2>14, Assembled
<1> QED  BY <1>2, <1>5, <1>6

\* A reply event takes the place of its window.
LEMMA AloneHandedOff ==
  ASSUME Books, Alone, NEW e \in EventIds, SenderEvent(e), NEW n \in EventIds, GrowStep(n), ~Present(n), Active(e),
         events'[n].session = Home[events[e].session], events'[n].key = events[e].key,
         events'[n].session \notin Senders, UNCHANGED <<record, intake>>
  PROVE  Alone'
<1>1. \A f \in EventIds : f # n => Keeps(f) /\ (SenderEvent(f)' <=> SenderEvent(f)) /\ window'[f] = window[f]
  <2>1. \A f \in EventIds : f # n => Keeps(f) /\ window'[f] = window[f]
    BY DEF GrowStep, Keeps
  <2> QED  BY <2>1, KeepsReply
<1>2. ~SenderEvent(n)' /\ ~SenderEvent(n) /\ ~Void(e)
  BY DEF SenderEvent, Void, Active
<1>3. ASSUME NEW w \in EventIds, SenderEvent(w), Void(w) PROVE Void(w)'
  <2>1. w # n /\ w # e
    BY <1>2, <1>3
  <2>2. ~(events'[n].key = events[w].key /\ events'[n].session = Home[events[w].session])
    <3> SUFFICES ASSUME events[e].key = events[w].key PROVE FALSE
      OBVIOUS
    <3>1. From[events[w].key] = events[w].session /\ From[events[e].key] = events[e].session
      <4>1. \A f \in EventIds : SenderEvent(f) => From[events[f].key] = events[f].session
        BY DEF Books, BodyFit, SenderEvent, WellFormed, Named
      <4> QED  BY <1>3, <4>1
    <3>2. w = e
      BY <1>3, <3>1 DEF Books, OneOfKey, SenderEvent
    <3> QED  BY <2>1, <3>2
  <2> QED  BY <1>1, <1>3, <2>1, <2>2, VoidKept
<1>4. ASSUME NEW x \in Messages PROVE NewAtGate(x)'
  <2>1. \A w \in EventIds : (SenderEvent(w)' /\ x \in window'[w]) => SenderEvent(w) /\ x \in window[w]
    BY <1>1, <1>2
  <2>2. AtGate(x)' => AtGate(x) /\ (x \in Entries(record'[ConvOf(x)]) => x \in Entries(record[ConvOf(x)]))
    BY DEF AtGate
  <2> QED  BY <1>3, <2>1, <2>2, NewKept DEF Alone
<1>5. ASSUME NEW w \in EventIds, NEW x \in EventIds PROVE OneLives(w, x)'
  <2>1. CASE w # n /\ x # n
    <3>1. OneLives(w, x) /\ Keeps(w) /\ Keeps(x)
      BY <1>1, <2>1 DEF Alone
    <3> QED  BY <1>3, <3>1, OneLivesKept
  <2>2. CASE w = n \/ x = n
    BY <1>2, <2>2 DEF OneLives
  <2> QED  BY <2>1, <2>2
<1> QED  BY <1>4, <1>5 DEF Alone

LEMMA HandOffWindowKeeps ==
  ASSUME IntakeInv, ~Lost, NEW e \in EventIds, HandOffWindow(e)
  PROVE  IntakeInv'
<1>0. /\ Base /\ IntakeTypeOK /\ TurnTypeOK /\ RecordTypes /\ NothingSaid /\ Books
      /\ window \in [EventIds -> SUBSET Messages]
      /\ now \in 0..MaxTime /\ now <= bound.time /\ now \in Nat
  BY BoundFacts DEF IntakeInv, Base, Books, IntakeTypeOK
<1>1. jobs[e].pc = "ready" /\ jobs[e].pc # "none"
  BY DEF HandOffWindow
<1>2. /\ Active(e) /\ Present(e) /\ JobFit(e) /\ BodyFit(e) /\ events[e].state # "absent"
      /\ jobs[e].body \in SUBSET Snapshot /\ WellFormed(jobs[e].body, events[e].key)
      /\ Named(jobs[e].body) \subseteq window[e]
      /\ Earliest(jobs[e].body)[1] = events[e].key /\ events[e].key \in Messages
  BY <1>0, <1>1, HeldFacts DEF Present
<1>3. events[e].session \in Senders /\ SenderEvent(e) /\ Delay # 0
  BY <1>1, <1>2 DEF JobFit, SenderEvent, BodyFit
<1>4. PICK c \in Conversations : c = Home[events[e].session]
  BY <1>3, IntakeAssumption
<1>5. PICK key \in Messages : key = events[e].key
  BY <1>2
<1>6. PICK body \in Bodies : body = jobs[e].body
  BY <1>2, IntakeAssumption DEF Snapshot
<1>7. PICK t \in 0..MaxTime : t = now
  BY <1>0
<1>8. PICK a : a = Attempt(e)
  OBVIOUS
<1>9. key \in Keys /\ key # NoKey /\ c \in Sessions /\ c \notin Senders
  BY IntakeAssumption
<1> DEFINE moved == DeadlineMoved(e, jobs[e].at, now)
<1>10. /\ IF ~moved /\ HandoffCollides(c, key, body)
            THEN InterruptTurn(e, a)
            ELSE HandoffTurn(e, a, c, key, body, jobs[e].at, t)
       /\ window' = IF ~moved /\ ~IsDuplicate(c, key) THEN [window EXCEPT ![filled + 1] = window[e]] ELSE window
       /\ jobs' = [jobs EXCEPT ![e] = NoJob]
       /\ UNCHANGED <<now, seen, record, disk, intake, bound, budget>>
  BY <1>2, <1>4, <1>5, <1>6, <1>7, <1>8 DEF HandOffWindow, intakeVars
<1>11. budget' \in 0..bound.faults
  BY <1>0, <1>10 DEF IntakeTypeOK
<1>12. moved <=> DeadlineMoved(e, jobs[e].at, t)
  BY <1>7
<1> HIDE DEF moved
<1>13. CASE moved \/ HandoffCollides(c, key, body)
  <2>1. InterruptTurn(e, a) /\ window' = window
    BY <1>9, <1>10, <1>12, <1>13 DEF HandoffTurn, HandoffCollides, IsDuplicate
  <2>2. TurnTypeOK' /\ UNCHANGED <<filled, said>> /\ OnlyState(e, "pending")
    BY <1>0, <2>1, InterruptFacts
  <2> QED  BY <1>2, <1>10, <1>11, <2>1, <2>2, StoppedKeeps DEF Unwritten
<1>14. CASE ~moved /\ ~HandoffCollides(c, key, body)
  <2>1. HandOff(e, a, c, key, body, t)
    BY <1>10, <1>12, <1>14 DEF HandoffTurn
  <2>2. ~(filled + 1 = e)
    <3>1. filled \in Nat /\ e <= filled
      BY <1>0, <1>2, TurnAssumption DEF Books, Filled, TurnTypeOK
    <3> QED  BY <3>1
  <2>3. CASE IsDuplicate(c, key)
    <3>1. TurnTypeOK' /\ UNCHANGED <<filled, said>> /\ OnlyState(e, "completed") /\ window' = window
      BY <1>0, <1>2, <1>9, <1>10, <2>1, <2>2, <2>3, HandOffFacts
    <3> QED  BY <1>2, <1>10, <1>11, <3>1, StoppedKeeps DEF Unwritten
  <2>4. CASE ~IsDuplicate(c, key)
    <3>0. PICK n : n = filled + 1
      OBVIOUS
    <3>1. /\ TurnTypeOK' /\ UNCHANGED said /\ n \in EventIds /\ filled' = n /\ n # e
          /\ \A f \in EventIds : (f # e /\ f # n) => events'[f] = events[f]
          /\ SameEvent(e) /\ events'[e].state = "completed"
          /\ events'[n] = PendingEvent(c, next[c] + 1, key, body, t)
      BY <1>0, <1>2, <1>9, <2>1, <2>2, <2>4, <3>0, HandOffFacts
    <3>2. /\ events'[n].session = c /\ events'[n].key = key /\ events'[n].body = body
          /\ events'[n].state = "pending" /\ events'[n].at = t
      BY <3>1 DEF PendingEvent
    <3>3. /\ window' \in [EventIds -> SUBSET Messages] /\ window'[n] = window[e]
          /\ \A f \in EventIds : f # n => window'[f] = window[f]
      BY <1>0, <1>10, <1>14, <2>4, <3>0, <3>1
    <3>4. ~Present(n)
      <4>1. ~(n <= filled)
        <5>1. filled \in Nat
          BY <1>0, TurnAssumption DEF TurnTypeOK
        <5> QED  BY <3>0, <5>1
      <4> QED  BY <1>0, <3>1, <4>1 DEF Books, Filled
    <3>5. Keeps(e)
      BY <1>2, <3>1, <3>3 DEF Keeps, SameEvent
    <3>6. \A f \in EventIds : (f # n /\ f # e) => Keeps(f) /\ HeldOn(f)
      BY <3>1, <3>3 DEF Keeps, SameEvent, HeldOn
    <3>7. GrowStep(n)
      BY <1>10, <3>0, <3>1, <3>2, <3>5, <3>6 DEF GrowStep
    <3>8. BodyFit(n)'
      BY <1>2, <1>5, <1>6, <1>9, <3>2, <3>3 DEF BodyFit
    <3>9. ReplyFit(n)'
      <4>1. Parent(e, n)'
        <5>1. SenderEvent(e)'
          BY <1>3, <3>5, KeepsReply
        <5> QED  BY <1>4, <1>5, <3>1, <3>2, <3>3, <5>1 DEF Parent, SameEvent
      <4>2. Delay' = Delay
        BY <1>10 DEF Delay
      <4> QED  BY <1>3, <4>1, <4>2 DEF ReplyFit
    <3>10. \A f \in EventIds : ~(Present(f) /\ events[f].session = events'[n].session
                                 /\ events[f].key = events'[n].key)
      BY <1>9, <2>4, <3>2 DEF IsDuplicate, Holders, Present
    <3>11. \A f \in EventIds : ~(SenderEvent(f) /\ Active(f) /\ events[f].session = events'[n].session)
      BY <1>9, <3>2 DEF SenderEvent
    <3>12. Books'
      BY <1>0, <3>7, <3>8, <3>9, <3>10, <3>11, BooksGrow
    <3>13. /\ jobs' \in [EventIds -> [pc : {"none", "claimed", "ready"}, at : 0..MaxTime, body : Bodies]]
           /\ jobs'[e].pc = "none" /\ \A f \in EventIds : f # e => jobs'[f] = jobs[f]
      BY <1>0, <1>10, JobLeaves
    <3>14. IntakeTypeOK'
      <4>1. \A f \in EventIds : events'[f].at <= bound.time
        <5>1. events'[e].at <= bound.time
          <6>1. events'[e].at = events[e].at
            BY <2>1, <3>0, <3>1, <1>0, <2>4 DEF HandOff, TurnTypeOK, Event
          <6> QED  BY <1>0, <6>1 DEF IntakeTypeOK
        <5> QED  BY <1>0, <1>7, <3>1, <3>2, <5>1 DEF IntakeTypeOK
      <4> QED  BY <1>0, <1>10, <1>11, <3>1, <3>3, <3>13, <4>1 DEF IntakeTypeOK
    <3>15. JobsFit'
      <4>1. Idle(e)' /\ Idle(n)' /\ Idle(n)
        BY <3>1, <3>2, <3>4 DEF Idle, Present
      <4> QED  BY <1>0, <3>1, <3>6, <3>13, <3>14, <4>1, JobsKept DEF Base
    <3>16. GateFit' /\ RecordsOnce' /\ Written' /\ Grown
      BY <1>0, <1>10, RecordsSame DEF Base, GateFit
    <3>17. Base'
      BY <3>12, <3>14, <3>15, <3>16 DEF Base
    <3>18. ASSUME Calm PROVE RecordsReach'
      <4>0. RecordsReach
        BY <3>18 DEF IntakeInv
      <4>1. ASSUME NEW d \in Conversations PROVE SnapshotsFit(d)'
        <5>1. ActiveSnapshots(d)' \subseteq ActiveSnapshots(d)
          BY <1>0, <1>9, <3>1, <3>2, <3>7, GrowSnapshots
        <5> QED  BY <1>10, <4>0, <5>1, FitSame DEF RecordsReach, Waits, ConvOf
      <4>2. body = events[e].body
        BY <1>1, <1>2, <1>6, <1>14 DEF JobFit, DeadlineMoved, moved
      <4>3. ConvOfEvent(e) = c /\ ConvOfEvent(n)' = c
        BY <1>3, <1>4, <1>9, <3>2 DEF ConvOfEvent
      <4>4. WindowReach(n)'
        <5>1. \A m \in window[e] : m \in Named(body) \/ Reaches(record[c], body, m)
          BY <1>2, <4>0, <4>2, <4>3 DEF RecordsReach, WindowReach
        <5> QED  BY <1>10, <3>2, <3>3, <4>3, <5>1 DEF WindowReach
      <4>5. ReplyRecorded(n)'
        <5>1. \A s \in body : At(record[c], s)
          BY <1>1, <1>3, <1>6, <4>0, <4>3 DEF RecordsReach, JobRecorded
        <5> QED  BY <1>10, <3>2, <5>1 DEF ReplyRecorded
      <4>6. \A f \in EventIds : (f # n /\ jobs'[f] = jobs[f]) \/ jobs'[f].pc = "none"
        <5>1. jobs[n].pc = "none"
          BY <1>0, <3>1, <3>4 DEF Base, JobsFit, JobFit, Present
        <5> QED  BY <3>1, <3>13, <5>1
      <4> QED  BY <1>0, <3>1, <3>7, <3>16, <4>0, <4>1, <4>4, <4>5, <4>6, ReachGrow
    <3>19. ASSUME Calm, Delay # 0 PROVE Alone'
      <4>1. Alone
        BY <3>19 DEF IntakeInv
      <4>2. events'[n].session = Home[events[e].session] /\ events'[n].key = events[e].key
            /\ events'[n].session \notin Senders
        BY <1>4, <1>5, <1>9, <3>2
      <4> QED  BY <1>0, <1>2, <1>3, <1>10, <3>1, <3>4, <3>7, <4>1, <4>2, AloneHandedOff
    <3> QED  BY <1>10, <3>17, <3>18, <3>19, Assembled
  <2> QED  BY <2>3, <2>4
<1> QED  BY <1>13, <1>14

--------------------------------------------------------------------------------
(* The invariant holds initially, in every step and so always *)

LEMMA Starts == Init => IntakeInv
<1> SUFFICES ASSUME Init PROVE IntakeInv
  OBVIOUS
<1>1. /\ TurnStoreInit /\ now = 0 /\ seen = {} /\ intake = NoIntake /\ bound \in Bounds
      /\ budget = bound.faults
      /\ record = [c \in Conversations |-> <<>>] /\ disk = [c \in Conversations |-> <<>>]
      /\ jobs = [e \in EventIds |-> NoJob] /\ window = [e \in EventIds |-> {}]
  BY DEF Init
<1>2. /\ bound \in Bound /\ bound.time \in 0..MaxTime /\ bound.faults \in Nat /\ MaxTime \in Nat
      /\ bound.time \in Nat
  <2>1. bound \in Bound /\ MaxTime \in Nat
    BY <1>1, IntakeAssumption, TurnAssumption
  <2> QED  BY <2>1 DEF Bound
<1>3. NoEvent \in Event /\ NoEvent.state = "absent" /\ NoEvent.at = 0
  <2>1. (CHOOSE s \in Sessions : TRUE) \in Sessions /\ (CHOOSE b \in Bodies : TRUE) \in Bodies
    BY TurnAssumption
  <2>2. NoKey \in Keys /\ 0 \in 0..MaxTime /\ 0 \in 0..MaxAttempts
    BY <1>2, TurnAssumption
  <2> QED  BY <2>1, <2>2 DEF NoEvent, PendingEvent, Event
<1>4. TurnTypeOK
  <2>1. events \in [EventIds -> Event]
    BY <1>1, <1>3 DEF TurnStoreInit
  <2>2. turns \in [EventIds -> [Attempts -> Turn]]
    BY <1>1 DEF TurnStoreInit, Turn, NoWorker
  <2>3. said \in [EventIds -> [Ordinals -> Said]]
    BY <1>1, TurnAssumption DEF TurnStoreInit, Said
  <2>4. filled \in 0..MaxEvents /\ next \in [Sessions -> Nat] /\ done \in [Sessions -> Nat]
    BY <1>1, TurnAssumption DEF TurnStoreInit
  <2> QED  BY <2>1, <2>2, <2>3, <2>4 DEF TurnTypeOK
<1>5. /\ \A e \in EventIds : events[e] = NoEvent
      /\ \A e \in EventIds : events[e].state = "absent" /\ events[e].at = 0 /\ window[e] = {}
      /\ \A e \in EventIds : jobs[e].pc = "none"
      /\ \A m \in Messages, i \in Copies : intake[m][i] = "none"
      /\ \A c \in Conversations : record[c] = <<>> /\ disk[c] = <<>>
  BY <1>1, <1>3 DEF TurnStoreInit, NoJob, NoIntake
<1>6. IntakeTypeOK
  <2>1. {} \in Bodies
    BY IntakeAssumption
  <2>2. jobs \in [EventIds -> [pc : {"none", "claimed", "ready"}, at : 0..MaxTime, body : Bodies]]
    BY <1>1, <1>2, <2>1 DEF NoJob
  <2>3. intake \in [Messages -> [Copies -> {"none", "plain", "strict"}]]
    BY <1>1 DEF NoIntake
  <2>4. /\ record \in [Conversations -> Seq(Messages \cup {Assistant})]
        /\ disk \in [Conversations -> Seq(Messages \cup {Assistant})]
    BY <1>1
  <2>5. now \in 0..bound.time /\ budget \in 0..bound.faults /\ \A e \in EventIds : events[e].at <= bound.time
    BY <1>1, <1>2, <1>5
  <2>6. window \in [EventIds -> SUBSET Messages] /\ seen \subseteq Messages
    BY <1>1
  <2> QED  BY <1>1, <1>4, <2>2, <2>3, <2>4, <2>5, <2>6 DEF IntakeTypeOK
<1>7. \A e \in EventIds : ~Present(e) /\ ~Active(e) /\ ~Replies(e) /\ ~SenderEvent(e)
  BY <1>5 DEF Present, Active, Replies, SenderEvent
<1>8. Books
  <2>1. NothingSaid
    BY <1>1 DEF NothingSaid, TurnStoreInit
  <2>2. Filled
    BY <1>1, <1>5, <1>7 DEF Filled, TurnStoreInit, EventIds
  <2> QED  BY <1>7, <2>1, <2>2 DEF Books, OneOfKey, OneWindow, BodyFit, ReplyFit
<1>9. JobsFit
  BY <1>5 DEF JobsFit, JobFit
<1>10. GateFit /\ RecordsOnce /\ Written
  BY <1>1, <1>5 DEF GateFit, RecordsOnce, NoRepeat, Written
<1>11. RecordsReach
  <2>1. \A c \in Conversations : SnapshotsFit(c)
    BY <1>7 DEF SnapshotsFit, ActiveSnapshots, Payloads, ActiveWindows
  <2> QED  BY <1>5, <1>7, <2>1 DEF RecordsReach, WindowReach, ReplyRecorded, JobRecorded
<1>12. Alone
  BY <1>5, <1>7 DEF Alone, NewAtGate, OneLives
<1> QED  BY <1>6, <1>8, <1>9, <1>10, <1>11, <1>12 DEF IntakeInv, Base

LEMMA StutterKeeps ==
  ASSUME IntakeInv, UNCHANGED vars
  PROVE  IntakeInv'
<1>1. /\ UNCHANGED <<turnVars, now, seen, record, disk, intake, jobs, window, bound, budget>>
      /\ UNCHANGED <<events, filled, turns, said, next, done>>
      /\ Base
  BY DEF vars, intakeVars, turnVars, IntakeInv
<1>2. QuietStep /\ (\A f \in EventIds : HeldOn(f)) /\ TurnTypeOK' /\ TurnTypeOK
  BY <1>1, StillQuiet DEF Base, IntakeTypeOK
<1>3. IntakeTypeOK'
  BY <1>1, <1>2 DEF Base, IntakeTypeOK
<1>4. RecordsOnce' /\ Written' /\ Grown /\ GateFit'
  BY <1>1, BoundFacts, RecordsSame DEF Base, GateFit
<1>5. Books' /\ JobsFit'
  BY <1>1, <1>2, BooksQuiet DEF Base, JobsFit, JobFit, Lost, Replies
<1>6. Base'
  BY <1>3, <1>4, <1>5 DEF Base
<1>7. ASSUME Calm PROVE RecordsReach'
  <2>1. \A c \in Conversations : SnapshotsFit(c)'
    BY <1>1, <1>2, <1>7, QuietSnapshots, FitSame DEF IntakeInv, RecordsReach, Waits, ConvOf
  <2> QED  BY <1>1, <1>2, <1>4, <1>7, <2>1, ReachQuiet DEF IntakeInv
<1>8. ASSUME Calm, Delay # 0 PROVE Alone'
  BY <1>1, <1>2, <1>8, AloneQuiet DEF IntakeInv, AtGate
<1> QED  BY <1>1, <1>6, <1>7, <1>8, Assembled

LEMMA StepKeeps == IntakeInv /\ [Next]_vars => IntakeInv'
<1> SUFFICES ASSUME IntakeInv, [Next]_vars PROVE IntakeInv'
  OBVIOUS
<1>1. CASE UNCHANGED vars
  BY <1>1, StutterKeeps
<1>2. CASE Restart
  BY <1>2, RestartKeeps
<1>3. CASE ~Lost /\ Work
  <2>1. ASSUME NEW m \in Messages, Forget(m) PROVE IntakeInv'
    BY <1>3, <2>1, ForgetKeeps
  <2>2. ASSUME NEW m \in Messages, NEW i \in Copies, Arrive(m, i) PROVE IntakeInv'
    BY <1>3, <2>2, ArriveKeeps
  <2>3. ASSUME NEW m \in Messages, NEW i \in Copies, Accept(m, i) PROVE IntakeInv'
    <3>1. CASE BumpDuplicate(m, i)
      BY <1>3, <3>1, BumpDuplicateKeeps
    <3>2. ASSUME NEW how \in {"recorded", "unsaved"},
                 IF how = "unsaved" THEN Disturb("save") ELSE UNCHANGED <<bound, budget>>,
                 Bump(m, i, how) \/ Open(m, i, how) \/ Record(m, i, how)
          PROVE  IntakeInv'
      <4>1. CASE Bump(m, i, how)
        BY <1>3, <3>2, <4>1, BumpKeeps
      <4>2. CASE Open(m, i, how)
        BY <1>3, <3>2, <4>2, OpenKeeps
      <4>3. CASE Record(m, i, how)
        BY <1>3, <3>2, <4>3, RecordKeeps
      <4> QED  BY <3>2, <4>1, <4>2, <4>3
    <3> QED  BY <2>3, <3>1, <3>2 DEF Accept
  <2>4. ASSUME NEW m \in Messages, NEW i \in Copies, CrashAfterOpen(m, i) PROVE IntakeInv'
    BY <1>3, <2>4, CrashAfterOpenKeeps
  <2>5. ASSUME NEW m \in Messages, NEW i \in Copies, CrashAfterBump(m, i) PROVE IntakeInv'
    BY <1>3, <2>5, CrashAfterBumpKeeps
  <2>6. ASSUME NEW e \in EventIds, Handle(e) \/ GateClosed(e) PROVE IntakeInv'
    <3>1. CASE Claim(e)
      BY <1>3, <3>1, ClaimKeeps
    <3>2. CASE ProcessDebounce(e)
      BY <1>3, <3>2, ProcessDebounceKeeps
    <3>3. CASE HandOffWindow(e)
      BY <1>3, <3>3, HandOffWindowKeeps
    <3>4. CASE Answer(e)
      BY <1>3, <3>4, AnswerKeeps
    <3>5. CASE GateClosed(e)
      BY <1>3, <3>5, GateClosedKeeps
    <3> QED  BY <2>6, <3>1, <3>2, <3>3, <3>4, <3>5 DEF Handle
  <2>7. CASE Tick
    BY <1>3, <2>7, TickKeeps
  <2>8. CASE Crash
    BY <1>3, <2>8, CrashKeeps
  <2> QED  BY <1>3, <2>1, <2>2, <2>3, <2>4, <2>5, <2>6, <2>7, <2>8 DEF Work
<1> QED  BY <1>1, <1>2, <1>3 DEF Next

\* The inductive invariant: the bookkeeping of windows, reply events and handlers, and, in a
\* calm instance, what the records hold of every window.
THEOREM IntakeInvariant == Spec => []IntakeInv
<1>1. Init => IntakeInv
  BY Starts
<1>2. IntakeInv /\ [Next]_vars => IntakeInv'
  BY StepKeeps
<1> QED  BY <1>1, <1>2, PTL DEF Spec

--------------------------------------------------------------------------------
(* What it implies *)

LEMMA AtMostOne ==
  ASSUME NEW S, \A x, y \in S : x = y
  PROVE  Cardinality(S) <= 1
<1>1. CASE S = {}
  BY <1>1, FS_EmptySet
<1>2. CASE S # {}
  <2>1. PICK x \in S : TRUE
    BY <1>2
  <2>2. S = {x}
    BY <2>1
  <2> QED  BY <2>2, FS_Singleton
<1> QED  BY <1>1, <1>2

LEMMA InvRecordsFit == IntakeInv => RecordsFit
<1> SUFFICES ASSUME IntakeInv PROVE RecordsFit
  OBVIOUS
<1>1. IntakeTypeOK /\ RecordsOnce /\ TurnTypeOK /\ RecordTypes /\ Base
  BY BoundFacts DEF IntakeInv, Base
<1>2. ASSUME NEW c \in Conversations, NEW m \in Messages
      PROVE  Cardinality({i \in DOMAIN record[c] : record[c][i] = m}) <= 1
  <2>1. \A i, j \in {k \in DOMAIN record[c] : record[c][k] = m} : i = j
    BY <1>1, IntakeAssumption DEF RecordsOnce, NoRepeat
  <2> QED  BY <2>1, AtMostOne
<1>3. ASSUME Calm, NEW c \in Conversations
      PROVE  Recoverable(disk[c], ActiveSnapshots(c) \cup
               UNION {events[e].body : e \in {t \in EventIds : Active(t) /\ events[t].session = c}})
  <2> DEFINE more == UNION {events[e].body : e \in {t \in EventIds : Active(t) /\ events[t].session = c}}
  <2>1. record = disk
    BY <1>1, <1>3, CalmRecords
  <2>2. SnapshotsFit(c) /\ NoRepeat(record[c]) /\ \A e \in EventIds : ReplyRecorded(e)
    BY <1>1, <1>3 DEF IntakeInv, RecordsReach, RecordsOnce
  <2>3. \A s \in more : At(record[c], s)
    BY <2>2 DEF Active, Replies, ReplyRecorded
  <2>4. more \in SUBSET Snapshot
    BY <1>1, SessionKinds
  <2> HIDE DEF more
  <2>5. Recoverable(record[c], ActiveSnapshots(c) \cup more)
    BY <1>1, <2>2, <2>3, <2>4, FitRecovers
  <2> QED  BY <2>1, <2>5 DEF more
<1> QED  BY <1>1, <1>2, <1>3 DEF RecordsFit, RecordedOnce, SnapshotsRecoverable

\* The events of one session with one key are one; with windows, one of two is void.
LEMMA InvAnsweredOnce == IntakeInv => AnsweredOnce
<1> SUFFICES ASSUME IntakeInv, Delay = 0 \/ Calm, NEW m \in Messages,
                    NEW e \in EventIds, NEW f \in EventIds,
                    Replies(e), m \in window[e], Replies(f), m \in window[f]
             PROVE  e = f
  BY AtMostOne DEF AnsweredOnce
<1>1. ReplyFit(e) /\ ReplyFit(f) /\ OneOfKey /\ Present(e) /\ Present(f)
  BY DEF IntakeInv, Base, Books, Replies, Present
<1>2. CASE Delay = 0
  BY <1>1, <1>2 DEF ReplyFit, OneOfKey
<1>3. CASE Delay # 0
  <2>1. PICK w \in EventIds : Parent(w, e)
    BY <1>1, <1>3 DEF ReplyFit
  <2>2. PICK x \in EventIds : Parent(x, f)
    BY <1>1, <1>3 DEF ReplyFit
  <2>3. ~Void(w) /\ ~Void(x)
    BY <2>1, <2>2 DEF Void, HandedOff, Parent
  <2>4. OneLives(w, x)
    BY <1>3 DEF IntakeInv, Alone
  <2>5. w = x
    BY <2>1, <2>2, <2>3, <2>4 DEF OneLives, Parent
  <2> QED  BY <1>1, <2>1, <2>2, <2>5 DEF Parent, OneOfKey
<1> QED  BY <1>2, <1>3

LEMMA InvHandoffCarriesAll == IntakeInv => HandoffCarriesAll
<1> SUFFICES ASSUME IntakeInv, Delay = 0 \/ Calm, NEW e \in EventIds, Replies(e), events[e].body # {},
                    NEW m \in window[e]
             PROVE  \/ m \in {s[1] : s \in events[e].body}
                    \/ \E n \in 1..Latest(events[e].body)[2] :
                         n \in DOMAIN disk[events[e].session] /\ disk[events[e].session][n] = m
  BY DEF HandoffCarriesAll
<1> DEFINE body == events[e].body
           c == events[e].session
<1>1. /\ Base /\ TurnTypeOK /\ RecordTypes /\ ReplyFit(e) /\ BodyFit(e) /\ Present(e)
  BY BoundFacts DEF IntakeInv, Base, Books, Replies, Present
<1>2. CASE Delay = 0
  <2>1. m = events[e].key /\ WellFormed(events[e].body, events[e].key)
    BY <1>1, <1>2 DEF ReplyFit, BodyFit
  <2> QED  BY <2>1 DEF WellFormed
<1>3. CASE Delay # 0 /\ m \notin Named(body)
  <2>1. record = disk /\ WindowReach(e)
    BY <1>1, <1>3, CalmRecords DEF IntakeInv, RecordsReach
  <2>2. ConvOfEvent(e) = c /\ body \in SUBSET Snapshot /\ c \in Conversations
    BY <1>1, SessionKinds DEF Replies, ConvOfEvent
  <2>3. Reaches(disk[c], body, m)
    BY <1>3, <2>1, <2>2 DEF WindowReach
  <2>4. PICK s \in body, k \in DOMAIN disk[c] : k <= s[2] /\ disk[c][k] = m
    BY <2>3 DEF Reaches
  <2>5. Latest(body) \in body /\ s[2] <= Latest(body)[2]
    BY <2>2, Extremes
  <2>6. s[2] \in Nat /\ Latest(body)[2] \in Nat /\ k \in Nat /\ k >= 1
    <3>1. disk[c] \in Seq(Entry)
      BY <1>1, <2>2 DEF RecordTypes
    <3>2. k \in 1..Len(disk[c]) /\ Len(disk[c]) \in Nat
      BY <2>4, <3>1
    <3> QED  BY <2>2, <2>5, <3>2, SnapshotParts
  <2>7. k \in 1..Latest(body)[2]
    BY <2>4, <2>5, <2>6
  <2> QED  BY <2>4, <2>7
<1> QED  BY <1>2, <1>3 DEF Named

\* Each message is recorded once in its conversation, and in a calm instance whatever the
\* queue still holds of a conversation can be merged into its record on disk: recoverSnapshots
\* (replyDebounce.ts) never throws, between the two stores' writes or after a crash there.
THEOREM AlwaysRecordsFit == Spec => []RecordsFit
BY IntakeInvariant, InvRecordsFit, PTL

\* A message is answered by one reply event: redelivery, a crash at any point of intake or
\* handoff, and a handoff that is repeated never make a second one.
THEOREM AlwaysAnsweredOnce == Spec => []AnsweredOnce
BY IntakeInvariant, InvAnsweredOnce, PTL

\* The reply event that a window is handed off to reaches every message the window took,
\* those too that its bounded payload had to drop: they are on disk where the payload reaches.
THEOREM AlwaysHandoffCarriesAll == Spec => []HandoffCarriesAll
BY IntakeInvariant, InvHandoffCarriesAll, PTL

================================================================================
