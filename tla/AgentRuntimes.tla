------------------------------ MODULE AgentRuntimes ----------------------------
(* The runtimes of the agents: services/agents/agentRuntimeManager.ts.         *)
(*                                                                             *)
(* Starts and stops of one agent run one after another in its lane, those of   *)
(* different agents side by side; a start awaits the readiness probe, the      *)
(* configuration and the runtime's initialize. The gateway's first socket      *)
(* resumes the group orchestrators of all runtimes after each agent has been   *)
(* started again, its last one suspends them, and close may come at any time.  *)
(*                                                                             *)
(* A runtime is a number; that of the default agent exists from the beginning. *)
(* A resume is named by its generation. The agents' order in it is left open.  *)
EXTENDS Naturals, Sequences, FiniteSets

CONSTANTS
  Agents, Default,
  MaxRuntimes,      \* bounds the runtimes ever created
  MaxCalls,         \* bounds the starts and stops from outside
  MaxGeneration,    \* bounds connections and disconnections
  Failures,         \* what may throw, each once: "create", "initialize", "resume", "close"
  MaxFailures       \* bounds how many of them do

ASSUME AgentsAssumption ==
  /\ Default \in Agents
  /\ {MaxRuntimes, MaxCalls, MaxGeneration, MaxFailures} \subseteq Nat /\ MaxRuntimes > 0

VARIABLES
  runtimes,     \* agent -> its runtime in the map, or None
  readiness,    \* agent -> "none", "ready" (or degraded) or "not_ready"
  lanes,        \* agentOperations: agent -> the operations not yet over
  step,         \* agent -> what the first of them awaits, and what it has read
  runtime,      \* runtime -> the runtime itself
  generation,   \* orchestratorGeneration
  active,       \* there is an orchestratorActivation, that of the generation
  connected,    \* the gateway has a socket
  resumes,      \* generation -> the resume under way
  closing,      \* close: "no", "waiting" for the lanes, of which one failed: "broken",
                \* "failed" or "done"
  calls,
  failed        \* history: what has thrown

managerVars == <<runtimes, readiness, lanes, step, runtime, generation, active, connected, resumes,
                 closing, calls, failed>>

None == 0
Runtimes == 1 .. MaxRuntimes
Generations == 1 .. MaxGeneration
closed == closing # "no"

NoStep == [pc |-> "idle", existing |-> None, previous |-> "none", created |-> None]
NoResume == [at |-> "none", left |-> {}]
NoRuntime == [agent |-> Default, life |-> "new", running |-> FALSE, generation |-> 0]

Operation == [kind : {"start", "stop"}, by : Generations \cup {None}]

AgentsTypeOK ==
  /\ runtimes \in [Agents -> Runtimes \cup {None}]
  /\ readiness \in [Agents -> {"none", "ready", "not_ready"}]
  /\ lanes \in [Agents -> Seq(Operation)]
  /\ \A a \in Agents : step[a].pc \in {"idle", "probe", "config", "initialize"}
  /\ runtime \in [Runtimes -> [agent : Agents, life : {"new", "open", "closed", "abandoned"},
                               running : BOOLEAN, generation : 0 .. MaxGeneration]]
  /\ generation \in Nat /\ active \in BOOLEAN /\ connected \in BOOLEAN
  /\ resumes \in [Generations -> [at : {"none", "next", "waiting", "failed"}, left : SUBSET Agents]]
  /\ closing \in {"no", "waiting", "broken", "failed", "done"}
  /\ calls \in 0 .. MaxCalls /\ failed \subseteq Failures
  /\ \A a \in Agents : runtimes[a] # None =>
       runtime[runtimes[a]].agent = a /\ runtime[runtimes[a]].life # "new"
  /\ \A a \in Agents : step[a].pc # "idle" => lanes[a] # <<>>

ManagerInit ==
  /\ runtimes = [a \in Agents |-> None]
  /\ readiness = [a \in Agents |-> "none"]
  /\ lanes = [a \in Agents |-> <<>>]
  /\ step = [a \in Agents |-> NoStep]
  /\ runtime = [r \in Runtimes |-> NoRuntime]
  /\ generation = 0 /\ active = FALSE /\ connected = FALSE
  /\ resumes = [g \in Generations |-> NoResume]
  /\ closing = "no"
  /\ calls = 0 /\ failed = {}

FailTogether(kinds) ==
  /\ kinds \subseteq Failures \ failed /\ Cardinality(failed \cup kinds) <= MaxFailures
  /\ failed' = failed \cup kinds

Fails(kind) == FailTogether({kind})

--------------------------------------------------------------------------------
(* The orchestrators of the runtimes *)

Shut(rt, S) == [r \in Runtimes |-> IF r \in S THEN [rt[r] EXCEPT !.life = "closed", !.running = FALSE]
                                              ELSE rt[r]]

(* A close that throws may have closed the runtime or not.                     *)
CloseThrows(r) == runtime' \in {runtime, Shut(runtime, {r})}

Suspended(rt, S) == [r \in Runtimes |-> IF r \in S THEN [rt[r] EXCEPT !.running = FALSE] ELSE rt[r]]

(* resumeRuntimeIfActive; a closed runtime returns at once                     *)
Resumed(rt, S) ==
  [r \in Runtimes |->
     IF r \in S /\ active /\ rt[r].generation # generation
     THEN [rt[r] EXCEPT !.generation = generation, !.running = rt[r].life = "open"]
     ELSE rt[r]]

Loaded == {runtimes[a] : a \in Agents} \ {None}

(* clearOrchestratorActivation *)
ClearActivation == generation' = generation + 1 /\ active' = FALSE

--------------------------------------------------------------------------------
(* runAgentOperation *)

(* The operation is over; the resume that waits for it goes on.                *)
Ends(a, failing) ==
  LET g == Head(lanes[a]).by
  IN /\ lanes' = [lanes EXCEPT ![a] = Tail(@)]
     /\ step' = [step EXCEPT ![a] = NoStep]
     /\ resumes' = IF g = None THEN resumes
                   ELSE [resumes EXCEPT ![g].at = IF failing THEN "failed" ELSE "next"]

Call(a, kind) ==
  /\ ~closed /\ calls < MaxCalls
  /\ calls' = calls + 1
  /\ lanes' = [lanes EXCEPT ![a] = Append(@, [kind |-> kind, by |-> None])]
  /\ UNCHANGED <<runtimes, readiness, step, runtime, generation, active, connected, resumes,
                 closing, failed>>

Running(a, kind) == lanes[a] # <<>> /\ Head(lanes[a]).kind = kind

World == <<generation, active, connected, closing, calls>>

(* The last operation of a lane has failed: close awaits it and fails as well. *)
Breaks(a) ==
  /\ closing' = IF closing = "waiting" /\ Tail(lanes[a]) = <<>> THEN "broken" ELSE closing
  /\ UNCHANGED <<generation, active, connected, calls>>

(* startAgent up to the probe *)
BeginStart(a) ==
  /\ Running(a, "start") /\ step[a].pc = "idle"
  /\ IF closed THEN Ends(a, FALSE)
     ELSE /\ step' = [step EXCEPT ![a] = [NoStep EXCEPT !.pc = "probe", !.existing = runtimes[a],
                                                        !.previous = readiness[a]]]
          /\ UNCHANGED <<lanes, resumes>>
  /\ UNCHANGED <<runtimes, readiness, runtime, World, failed>>

\* mutant: a runtime that is not ready is dropped without being closed
Drop(a, r) ==
  /\ runtimes' = [runtimes EXCEPT ![a] = None]
  /\ UNCHANGED runtime

(* A runtime is closed and leaves the map.                                     *)
Unload(a, r) ==
  /\ runtimes' = [runtimes EXCEPT ![a] = None]
  /\ runtime' = Shut(runtime, {r})

NotReady(a) ==
  LET r == step[a].existing
  IN /\ readiness' = [readiness EXCEPT ![a] = "not_ready"]
     /\ CASE r # None /\ a # Default -> Unload(a, r)
          [] a = Default /\ step[a].previous # "not_ready" ->
               /\ runtime' = [Suspended(runtime, {1}) EXCEPT ![1].generation = 0]
               /\ UNCHANGED runtimes
          [] OTHER -> UNCHANGED <<runtimes, runtime>>
     /\ Ends(a, FALSE)

Ready(a) ==
  LET r == step[a].existing
  IN /\ readiness' = [readiness EXCEPT ![a] = "ready"]
     /\ UNCHANGED runtimes
     /\ IF r # None
        THEN /\ runtime' = IF step[a].previous = "not_ready" THEN Resumed(runtime, {r}) ELSE runtime
             /\ Ends(a, FALSE)
        ELSE /\ step' = IF a = Default THEN [step EXCEPT ![a].pc = "initialize", ![a].created = 1]
                        ELSE [step EXCEPT ![a].pc = "config"]
             /\ runtime' = IF a = Default /\ runtime[1].life \in {"new", "abandoned"}
                             THEN [runtime EXCEPT ![1].life = "open"] ELSE runtime
             /\ UNCHANGED <<lanes, resumes>>

(* startAgent after the probe, which reports an error of its own as not ready  *)
Probed(a) ==
  /\ step[a].pc = "probe"
  /\ IF closed THEN Ends(a, FALSE) /\ UNCHANGED <<runtimes, readiness, runtime>>
     ELSE NotReady(a) \/ Ready(a)
  /\ UNCHANGED <<World, failed>>

(* createRuntime, and initialize up to its first await                         *)
Created(a) ==
  /\ step[a].pc = "config"
  /\ \E r \in Runtimes \ {1} :
       /\ runtime[r].life = "new" /\ \A q \in 2 .. r - 1 : runtime[q].life # "new"
       /\ runtime' = [runtime EXCEPT ![r].agent = a, ![r].life = "open"]
       /\ step' = [step EXCEPT ![a].pc = "initialize", ![a].created = r]
  /\ UNCHANGED <<runtimes, readiness, lanes, resumes, World, failed>>

CreateFails(a) ==
  /\ step[a].pc = "config"
  /\ Fails("create") /\ Ends(a, TRUE) /\ Breaks(a)
  /\ UNCHANGED <<runtimes, readiness, runtime>>

Initialised(a) ==
  /\ step[a].pc = "initialize"
  /\ LET r == step[a].created
     IN IF closed
        THEN runtime' = Shut(runtime, {r}) /\ UNCHANGED runtimes
        ELSE runtimes' = [runtimes EXCEPT ![a] = r] /\ runtime' = Resumed(runtime, {r})
  /\ Ends(a, FALSE)
  /\ UNCHANGED <<readiness, World, failed>>

(* Closing it throws: it enters the map, for close to try again.               *)
InitialisedThrows(a) ==
  /\ step[a].pc = "initialize" /\ closed
  /\ Fails("close")
  /\ runtimes' = [runtimes EXCEPT ![a] = step[a].created]
  /\ CloseThrows(step[a].created)
  /\ Ends(a, TRUE) /\ Breaks(a)
  /\ UNCHANGED readiness

(* What could not be initialised is closed.                                    *)
InitialiseFails(a) ==
  /\ step[a].pc = "initialize"
  /\ Fails("initialize")
  /\ runtime' = Shut(runtime, {step[a].created})
  /\ Ends(a, TRUE) /\ Breaks(a)
  /\ UNCHANGED <<runtimes, readiness>>

(* That throws as well: nothing knows the runtime any more, but for the default *)
(* agent's, which the next start opens again.                                  *)
InitialiseAbandons(a) ==
  /\ step[a].pc = "initialize"
  /\ FailTogether({"initialize", "close"})
  /\ runtime' = [runtime EXCEPT ![step[a].created].life = IF @ = "open" THEN "abandoned" ELSE @]
  /\ Ends(a, TRUE) /\ Breaks(a)
  /\ UNCHANGED <<runtimes, readiness>>

(* A runtime that was there cannot be resumed.                                 *)
ReadyThrows(a) ==
  /\ step[a].pc = "probe" /\ ~closed
  /\ step[a].existing # None /\ step[a].previous = "not_ready"
  /\ active /\ runtime[step[a].existing].generation # generation
  /\ Fails("resume")
  /\ readiness' = [readiness EXCEPT ![a] = "ready"]
  /\ Ends(a, TRUE)
  /\ UNCHANGED <<runtimes, runtime, World>>

(* resume throws after the runtime has entered the map, and perhaps close too  *)
ResumeThrows(a) ==
  /\ step[a].pc = "initialize" /\ ~closed /\ active
  /\ runtimes' = [runtimes EXCEPT ![a] = step[a].created]
  /\ \/ Fails("resume") /\ runtime' = Shut(runtime, {step[a].created})
     \/ FailTogether({"resume", "close"}) /\ CloseThrows(step[a].created)
  /\ Ends(a, TRUE)
  /\ UNCHANGED <<readiness, World>>

(* stop *)
StopAgent(a) ==
  /\ Running(a, "stop")
  /\ IF runtimes[a] = None \/ a = Default THEN UNCHANGED <<runtimes, readiness, runtime>>
     ELSE /\ readiness' = [readiness EXCEPT ![a] = "not_ready"]
          /\ Unload(a, runtimes[a])
  /\ Ends(a, FALSE)
  /\ UNCHANGED <<World, failed>>

(* The close of a runtime that was to leave the map throws: it stays there.    *)
UnloadThrows(a, r) ==
  /\ Fails("close")
  /\ readiness' = [readiness EXCEPT ![a] = "not_ready"]
  /\ CloseThrows(r)
  /\ Ends(a, TRUE) /\ Breaks(a)
  /\ UNCHANGED runtimes

NotReadyThrows(a) ==
  /\ step[a].pc = "probe" /\ ~closed
  /\ step[a].existing # None /\ a # Default
  /\ UnloadThrows(a, step[a].existing)

StopThrows(a) ==
  /\ Running(a, "stop") /\ runtimes[a] # None /\ a # Default
  /\ UnloadThrows(a, runtimes[a])

--------------------------------------------------------------------------------
(* The gateway *)

(* resumeUserGroupOrchestrators up to its first await; the default agent was   *)
(* started before the gateway was opened                                       *)
Connect ==
  /\ ~connected /\ ~closed /\ generation < MaxGeneration /\ readiness[Default] # "none"
  /\ connected' = TRUE
  /\ generation' = generation + 1 /\ active' = TRUE
  /\ resumes' = [resumes EXCEPT ![generation + 1] =
                   [at |-> "next", left |-> {a \in Agents : readiness[a] # "none" \/ runtimes[a] # None}]]
  /\ UNCHANGED <<runtimes, readiness, lanes, step, runtime, closing, calls, failed>>

(* suspendUserGroupOrchestrators *)
Disconnect ==
  /\ connected
  /\ connected' = FALSE
  /\ ClearActivation
  /\ runtime' = Suspended(runtime, Loaded)
  /\ UNCHANGED <<runtimes, readiness, lanes, step, resumes, closing, calls, failed>>

(* refreshReadiness of the next agent                                          *)
RefreshNext(g) ==
  /\ resumes[g].at = "next"
  /\ \E a \in resumes[g].left :
       IF closed
       THEN resumes' = [resumes EXCEPT ![g].left = @ \ {a}] /\ UNCHANGED lanes
       ELSE /\ resumes' = [resumes EXCEPT ![g] = [at |-> "waiting", left |-> @.left \ {a}]]
            /\ lanes' = [lanes EXCEPT ![a] = Append(@, [kind |-> "start", by |-> g])]
  /\ UNCHANGED <<runtimes, readiness, step, runtime, World, failed>>

Current(g) == active /\ generation = g

Routable == {runtimes[a] : a \in {b \in Agents : readiness[b] # "not_ready"}} \ {None}

\* mutant: the resume that was overtaken goes on, for its own connection
ResumeAllAnyway(g) ==
  /\ resumes[g].at = "next" /\ resumes[g].left = {}
  /\ runtime' = [r \in Runtimes |-> IF r \in Routable /\ runtime[r].life = "open"
                                      THEN [runtime[r] EXCEPT !.running = TRUE] ELSE runtime[r]]
  /\ resumes' = [resumes EXCEPT ![g] = NoResume]
  /\ UNCHANGED <<runtimes, readiness, lanes, step, World, failed>>

(* A resume that was overtaken resumes nothing.                                *)
ResumeAll(g) ==
  /\ resumes[g].at = "next" /\ resumes[g].left = {}
  /\ runtime' = IF Current(g) THEN Resumed(runtime, Routable) ELSE runtime
  /\ resumes' = [resumes EXCEPT ![g] = NoResume]
  /\ UNCHANGED <<runtimes, readiness, lanes, step, World, failed>>

(* One of the runtimes throws; all are suspended again.                        *)
ResumeAllThrows(g) ==
  /\ resumes[g].at = "next" /\ resumes[g].left = {} /\ Current(g)
  /\ Fails("resume")
  /\ \E S \in SUBSET Routable :
       S # Routable /\ runtime' = Suspended(Resumed(runtime, S), Loaded)
  /\ ClearActivation
  /\ resumes' = [resumes EXCEPT ![g] = NoResume]
  /\ UNCHANGED <<runtimes, readiness, lanes, step, connected, closing, calls>>

(* An agent that did not start ends the resume; unless it was overtaken, all   *)
(* are suspended.                                                              *)
ResumeFails(g) ==
  /\ resumes[g].at = "failed"
  /\ resumes' = [resumes EXCEPT ![g] = NoResume]
  /\ IF Current(g) THEN ClearActivation /\ runtime' = Suspended(runtime, Loaded)
     ELSE UNCHANGED <<generation, active, runtime>>
  /\ UNCHANGED <<runtimes, readiness, lanes, step, connected, closing, calls, failed>>

--------------------------------------------------------------------------------
(* close up to its await; one that has failed is called again                  *)
Close ==
  /\ closing \in {"no", "failed"}
  /\ closing' = "waiting"
  /\ ClearActivation
  /\ UNCHANGED <<runtimes, readiness, lanes, step, runtime, connected, resumes, calls, failed>>

(* closeAll once the lanes have run out: the runtimes whose close throws stay  *)
CloseLoaded ==
  /\ \E S \in SUBSET Loaded :
       /\ IF S = {} THEN UNCHANGED failed ELSE Fails("close")
       /\ runtime' = Shut(runtime, Loaded \ S)
       /\ runtimes' = [a \in Agents |-> IF runtimes[a] \in S THEN runtimes[a] ELSE None]
       /\ readiness' = IF S = {} THEN [a \in Agents |-> "none"] ELSE readiness
       /\ closing' = IF S = {} /\ closing = "waiting" THEN "done" ELSE "failed"
  /\ UNCHANGED <<lanes, step, generation, active, connected, resumes, calls>>

\* mutant: operations under way are not waited for
CloseAllNow == closing \in {"waiting", "broken"} /\ CloseLoaded

CloseAll ==
  /\ closing \in {"waiting", "broken"}
  /\ \A a \in Agents : lanes[a] = <<>>
  /\ CloseLoaded

ManagerNext ==
  \/ Connect \/ Disconnect \/ Close \/ CloseAll
  \/ \E g \in Generations : RefreshNext(g) \/ ResumeAll(g) \/ ResumeAllThrows(g) \/ ResumeFails(g)
  \/ \E a \in Agents :
       \/ Call(a, "start") \/ Call(a, "stop")
       \/ BeginStart(a) \/ Probed(a) \/ Created(a) \/ CreateFails(a)
       \/ Initialised(a) \/ InitialiseFails(a) \/ ReadyThrows(a) \/ ResumeThrows(a)
       \/ InitialisedThrows(a) \/ InitialiseAbandons(a)
       \/ StopAgent(a) \/ NotReadyThrows(a) \/ StopThrows(a)

ManagerSpec == ManagerInit /\ [][ManagerNext]_managerVars

--------------------------------------------------------------------------------
(* An open runtime is in the map, where close and suspend find it, or is being *)
(* initialised: no refresh, failure or closing in between leaves one behind    *)
(* that goes on delivering and draining beside its successor. (Only a runtime  *)
(* whose initialize and whose close both threw is abandoned.)                  *)
NoStrayRuntime ==
  \A r \in Runtimes : runtime[r].life = "open" =>
    r \in {runtimes[runtime[r].agent], step[runtime[r].agent].created}

(* An agent that is offered to messages has an open runtime, however its       *)
(* stops, starts and failures follow each other. (The default agent's runtime, *)
(* which cannot be replaced, and one whose resume or close threw may be        *)
(* closed.)                                                                    *)
RoutableIsOpen ==
  (~closed /\ {"resume", "close"} \cap failed = {}) =>
    \A a \in Agents \ {Default} :
      (runtimes[a] # None /\ readiness[a] # "not_ready") => runtime[runtimes[a]].life = "open"

(* Without a connection no runtime runs its orchestrators, though resumes and  *)
(* starts of an earlier connection are still under way: the suspension wins.   *)
SuspensionWins ==
  /\ active => connected
  /\ (~closed /\ ~active) => \A r \in Loaded : ~runtime[r].running

Quiet ==
  /\ \A a \in Agents : lanes[a] = <<>>
  /\ \A g \in Generations : resumes[g].at = "none"

(* Once all is quiet under a connection every agent that is ready runs for it, *)
(* also those that started, recovered or were replaced during the resume.      *)
EveryoneResumed ==
  (Quiet /\ active /\ "resume" \notin failed) =>
    \A r \in Routable : runtime[r].life = "open" =>
      runtime[r].running /\ runtime[r].generation = generation

(* After close has returned nothing is open, whatever it found under way and   *)
(* though a close threw before.                                                *)
ClosedForGood ==
  closing = "done" => Loaded = {} /\ \A r \in Runtimes : runtime[r].life # "open"

(* The map and the runtimes agree: nothing open outside it, nothing closed     *)
(* behind an agent that is offered.                                            *)
RuntimesAccounted == AgentsTypeOK /\ NoStrayRuntime /\ RoutableIsOpen

(* The orchestrators follow the connection, whatever resumes and starts of an  *)
(* earlier one are still under way: none runs without it, all run with it.     *)
OrchestratorsFollow == SuspensionWins /\ EveryoneResumed

================================================================================
