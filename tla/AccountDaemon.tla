----------------------------- MODULE AccountDaemon -----------------------------
(***************************************************************************)
(* The account runtime daemon (tooling/runtime/account-runtime-daemon.mjs) *)
(* with the launcher that starts it (startAccountRuntimeDaemon of          *)
(* tooling/runtime/launcher.mjs) and the bot that asks it to reconcile an  *)
(* account (services/agents/accountRuntimeReconciler.ts).  Launcher,       *)
(* daemons and bot are processes that share a directory: the owner file,   *)
(* and a request file that moves from requests/ to processing/ and is      *)
(* answered by a file in results/.                                         *)
(*                                                                         *)
(* A daemon is the number of its start; its first steps are those of its   *)
(* launcher.  Every step is one operation on the directory; an inspection  *)
(* of the owner is two, since it reads the file first and judges its       *)
(* evidence and its process afterwards.                                    *)
(***************************************************************************)
EXTENDS RuntimeOwner, FiniteSets

CONSTANTS
  Requests,
  Bounds      \* how far behaviours may go, one of these records each

\* A small instance: the starts and requests, which disturbances may happen and how many.
Bound == [left : Daemons \cup {None}, daemons : SUBSET Daemons, requests : SUBSET Requests,
          kinds : SUBSET STRING, faults : Nat]

ASSUME DaemonAssumption ==
  /\ Daemons \subseteq Nat
  /\ None \notin Files /\ None \notin Requests
  /\ Bounds \subseteq Bound

VARIABLES
  proc,      \* daemon -> its process
  place,     \* request -> the directory its file is in
  result,    \* request -> the answer in results/
  claimer,   \* request -> the daemon that moved it to processing/
  runs,      \* history: how often the request was carried out
  client,    \* request -> what the bot has of it
  bound,     \* how far this behaviour goes
  budget     \* disturbances left

requestVars == <<place, result, claimer, runs, client>>
limits == <<bound, budget>>
vars == <<ownerVars, proc, requestVars, limits>>

\* what an inspection of the owner is for
LauncherAims == {"launch", "clear"}
Aims == LauncherAims \cup {"acquire", "confirm", "serve", "release"}

Process ==
  [pc    : {"off", "read", "judge", "take", "compare", "recheck", "publish", "exists", "recover",
            "closing", "assured", "work", "answer", "tidy", "out"},
   aim   : Aims,
   seen  : Files \cup {None},        \* the file the inspection under way has read
   tries : 0..1,
   todo  : SUBSET Requests,          \* left of the abandoned claims it listed
   job   : Requests \cup {None},
   stop  : BOOLEAN,                  \* SIGTERM has arrived
   watch : BOOLEAN]                  \* its launcher waits for it to take charge

Blank(pc) ==
  [pc |-> pc, aim |-> "launch", seen |-> None, tries |-> 0, todo |-> {}, job |-> None,
   stop |-> FALSE, watch |-> FALSE]

DaemonTypeOK ==
  /\ OwnerTypeOK
  /\ proc \in [Daemons -> Process]
  /\ place \in [Requests -> {"none", "requests", "processing", "gone"}]
  /\ result \in [Requests -> {"none", "done", "closed"}]
  /\ claimer \in [Requests -> Daemons \cup {None}]
  /\ runs \in [Requests -> Nat]
  /\ client \in [Requests -> {"idle", "waiting", "done", "closed", "timeout"}]
  /\ bound \in Bounds /\ budget \in 0..bound.faults

\* after the death of a daemon, what was asked since waits
Waits(r) == bound.left # None /\ r \in bound.requests

Init ==
  /\ bound \in Bounds /\ budget = bound.faults
  /\ OwnerLeft(bound.left)
  /\ proc = [d \in Daemons |-> Blank(IF d = bound.left THEN "out" ELSE "off")]
  /\ place = [r \in Requests |-> IF Waits(r) THEN "requests" ELSE "none"]
  /\ client = [r \in Requests |-> IF Waits(r) THEN "waiting" ELSE "idle"]
  /\ result = [r \in Requests |-> "none"]
  /\ claimer = [r \in Requests |-> None] /\ runs = [r \in Requests |-> 0]

Disturb(kind) ==
  /\ kind \in bound.kinds /\ budget > 0
  /\ budget' = budget - 1 /\ UNCHANGED bound

At(d, pc) == proc[d].pc = pc
On(d, pc, aim) == proc[d].pc = pc /\ proc[d].aim = aim
Goto(d, pc) == proc' = [proc EXCEPT ![d].pc = pc]
Ends(d) == proc' = [proc EXCEPT ![d] = Blank("out")]
Inspect(d, aim) == proc' = [proc EXCEPT ![d].pc = "read", ![d].aim = aim, ![d].seen = None]

\* the process of the daemon runs (the launcher's own steps come before)
Alive(d) == proc[d].pc \notin {"off", "out"} /\ proc[d].aim \notin LauncherAims
Alone(d) == \A e \in Daemons : Alive(e) => e = d

Spawn(d) ==
  proc' = [proc EXCEPT ![d].pc = "publish", ![d].aim = "acquire", ![d].seen = None,
                       ![d].tries = 0, ![d].watch = TRUE]

\* inspectAccountRuntimeOwner, after the file was read
Status(f) ==
  IF f \notin intact THEN "invalid" ELSE IF Alive(f.of) THEN "running" ELSE "stale"

\* sameOwnerLease, of an owner that runs
IsOwner(d) == Status(proc[d].seen) = "running" /\ proc[d].seen.of = d

--------------------------------------------------------------------------------
(* The launcher, and what each inspection leads to *)

\* startAccountRuntimeDaemon of another launcher or of a later one
Launch(d) ==
  /\ At(d, "off") /\ d \in bound.daemons
  /\ \A e \in bound.daemons : e < d => ~At(e, "off")
  /\ Inspect(d, "launch")
  /\ UNCHANGED <<ownerVars, requestVars, limits>>

\* readOwnerSnapshot; a serving daemon that finds no file looks again (GivesUp)
Read(d) ==
  /\ At(d, "read") /\ owner # None
  /\ IF proc[d].aim = "confirm" /\ owner.of # d
       THEN Ends(d) ELSE proc' = [proc EXCEPT ![d].pc = "judge", ![d].seen = owner]
  /\ UNCHANGED <<ownerVars, requestVars, limits>>

\* the launcher starts a daemon if no process is listed; nothing is left to release; a
\* daemon whose publication vanished, or the file it ran into, ends
ReadsNothing(d) ==
  /\ At(d, "read") /\ owner = None /\ proc[d].aim # "serve"
  /\ \/ proc[d].aim \in LauncherAims
        /\ IF Alone(d) \/ proc[d].aim = "clear" THEN Spawn(d) ELSE Ends(d)
     \/ proc[d].aim \notin LauncherAims /\ Ends(d)
  /\ UNCHANGED <<ownerVars, requestVars, limits>>

\* a stale file is cleared by the launcher, and by the daemon that ran into it
JudgeStart(d) ==
  /\ At(d, "judge") /\ proc[d].aim \in {"launch", "clear", "acquire"}
  /\ IF Status(proc[d].seen) # "stale" \/ (proc[d].aim = "launch" /\ ~Alone(d))
       THEN Ends(d)
       ELSE IF proc[d].aim = "launch" THEN Inspect(d, "clear") ELSE Goto(d, "take")
  /\ UNCHANGED <<ownerVars, requestVars, limits>>

\* the publication stands: the daemon is in charge and lists the claims left behind
Confirm(d) ==
  /\ On(d, "judge", "confirm")
  /\ IF proc[d].seen \in intact
       THEN proc' = [proc EXCEPT ![d].pc = "recover", ![d].aim = "serve",
                                 ![d].seen = None, ![d].tries = 0,
                                 ![d].todo = {r \in Requests : place[r] = "processing"}]
       ELSE Ends(d)
  /\ UNCHANGED <<ownerVars, requestVars, limits>>

\* releaseAccountRuntimeOwner refuses to remove what is not its own
JudgeRelease(d) ==
  /\ On(d, "judge", "release")
  /\ IF IsOwner(d) THEN Goto(d, "take") ELSE Ends(d)
  /\ UNCHANGED <<ownerVars, requestVars, limits>>

--------------------------------------------------------------------------------
(* removeOwnerSnapshot *)

Take(d) ==
  /\ At(d, "take")
  /\ \/ owner = None /\ Ends(d) /\ UNCHANGED ownerVars
     \/ TakeAside(d) /\ Goto(d, "compare")
  /\ UNCHANGED <<requestVars, limits>>

\* the launcher goes on to start its daemon, a daemon to its second attempt to publish
Cleared(d) ==
  CASE proc[d].aim = "clear" -> Spawn(d)
    [] proc[d].aim = "acquire" /\ proc[d].tries = 0 ->
         proc' = [proc EXCEPT ![d].pc = "publish", ![d].tries = 1]
    [] OTHER -> Ends(d)

RemovesIt(d) ==
  /\ At(d, "compare") /\ IsExpected(d, proc[d].seen)
  /\ Discard(d) /\ Cleared(d)
  /\ UNCHANGED <<requestVars, limits>>

\* it took another file: that is put back, or kept aside when the path is taken again
PutsBack(d) ==
  /\ At(d, "compare") /\ ~IsExpected(d, proc[d].seen)
  /\ \/ /\ Restore(d)
        /\ proc' = [proc EXCEPT ![d].pc = "recheck", ![d].seen = NextFile(aside[d].of)]
     \/ owner # None /\ Ends(d) /\ UNCHANGED ownerVars
  /\ UNCHANGED <<requestVars, limits>>

\* cleanupClaimedOwnerArtifacts, if the copy is still in place; either way the removal throws
Rechecks(d) ==
  /\ At(d, "recheck") /\ Ends(d)
  /\ IF owner = proc[d].seen THEN Discard(d) ELSE UNCHANGED ownerVars
  /\ UNCHANGED <<requestVars, limits>>

--------------------------------------------------------------------------------
(* acquireAccountRuntimeOwner *)

Publishes(d) ==
  /\ At(d, "publish")
  /\ \/ Publish(d) /\ Inspect(d, "confirm")
     \/ owner # None /\ Goto(d, "exists") /\ UNCHANGED ownerVars
  /\ UNCHANGED <<requestVars, limits>>

\* the link was refused: the file is gone again, or it is inspected
Exists(d) ==
  /\ At(d, "exists")
  /\ IF owner # None THEN Inspect(d, "acquire")
     ELSE IF proc[d].tries = 0 THEN proc' = [proc EXCEPT ![d].pc = "publish", ![d].tries = 1]
     ELSE Ends(d)
  /\ UNCHANGED <<ownerVars, requestVars, limits>>

--------------------------------------------------------------------------------
(* recoverAbandonedClaims: answered, vanished or closed without being carried out again *)

\* mutant: what was claimed and not answered is carried out again
Requeue(d, r) ==
  /\ proc' = [proc EXCEPT ![d].todo = @ \ {r}]
  /\ place' = [place EXCEPT ![r] = IF @ = "processing" THEN "requests" ELSE @]
  /\ UNCHANGED result

CloseClaim(d, r) ==
  IF result[r] # "none" \/ place[r] # "processing"
    THEN /\ proc' = [proc EXCEPT ![d].todo = @ \ {r}]
         /\ place' = [place EXCEPT ![r] = IF @ = "processing" THEN "gone" ELSE @]
         /\ UNCHANGED result
    ELSE /\ result' = [result EXCEPT ![r] = "closed"]
         /\ proc' = [proc EXCEPT ![d].pc = "closing", ![d].job = r, ![d].todo = @ \ {r}]
         /\ UNCHANGED place

Recovers(d) ==
  /\ At(d, "recover")
  /\ \/ \E r \in proc[d].todo : CloseClaim(d, r)
     \/ proc[d].todo = {} /\ Inspect(d, "serve") /\ UNCHANGED <<place, result>>
  /\ UNCHANGED <<ownerVars, claimer, runs, client, limits>>

\* the request file goes after the answer is there
RemovesRequest(d) ==
  /\ proc[d].pc \in {"closing", "tidy"}
  /\ place' = [place EXCEPT ![proc[d].job] = IF @ = "processing" THEN "gone" ELSE @]
  /\ proc' = [proc EXCEPT ![d].pc = IF At(d, "closing") THEN "recover" ELSE "read",
                          ![d].job = None, ![d].seen = None]
  /\ UNCHANGED <<ownerVars, result, claimer, runs, client, limits>>

--------------------------------------------------------------------------------
(* The loop of runAccountRuntimeDaemon *)

\* assertAccountRuntimeOwnership
Asserts(d) ==
  /\ On(d, "judge", "serve")
  /\ IF IsOwner(d) THEN proc' = [proc EXCEPT ![d].pc = "assured", ![d].seen = None]
     ELSE IF Status(proc[d].seen) = "running" THEN Inspect(d, "release")
     ELSE Inspect(d, "serve")
  /\ UNCHANGED <<ownerVars, requestVars, limits>>

\* mutant: a daemon whose file is missing looks for it for ever
KeepsLooking(d) ==
  /\ On(d, "judge", "serve") /\ Status(proc[d].seen) # "running"
  /\ Inspect(d, "release")
  /\ UNCHANGED <<ownerVars, requestVars, limits>>

\* for two seconds the daemon has seen no owner that runs
GivesUp(d) ==
  /\ \/ On(d, "read", "serve") /\ (owner = None \/ Status(owner) # "running")
     \/ On(d, "judge", "serve") /\ Status(proc[d].seen) # "running"
  /\ Inspect(d, "release")
  /\ UNCHANGED <<ownerVars, requestVars, limits>>

ClaimRequest(d, r) ==
  /\ At(d, "assured") /\ place[r] = "requests"
  /\ place' = [place EXCEPT ![r] = "processing"]
  /\ claimer' = [claimer EXCEPT ![r] = d]
  /\ proc' = [proc EXCEPT ![d].pc = "work", ![d].job = r]
  /\ UNCHANGED <<ownerVars, result, runs, client, limits>>

FindsNone(d) ==
  /\ At(d, "assured") /\ \A r \in Requests : place[r] # "requests"
  /\ Inspect(d, "serve")
  /\ UNCHANGED <<ownerVars, requestVars, limits>>

\* processRequest: the launcher carries it out, if the file is still there
CarriesOut(d) ==
  LET r == proc[d].job IN
  /\ At(d, "work")
  /\ IF place[r] = "processing"
       THEN runs' = [runs EXCEPT ![r] = @ + 1] /\ Goto(d, "answer")
       ELSE proc' = [proc EXCEPT ![d].pc = "read", ![d].job = None, ![d].seen = None]
            /\ UNCHANGED runs
  /\ UNCHANGED <<ownerVars, place, result, claimer, client, limits>>

Answers(d) ==
  /\ At(d, "answer") /\ Goto(d, "tidy")
  /\ result' = [result EXCEPT ![proc[d].job] = "done"]
  /\ UNCHANGED <<ownerVars, place, claimer, runs, client, limits>>

StopSeen(d) ==
  /\ On(d, "read", "serve") /\ proc[d].stop
  /\ Inspect(d, "release")
  /\ UNCHANGED <<ownerVars, requestVars, limits>>

--------------------------------------------------------------------------------
(* Signals and crashes *)

\* SIGTERM is handled once the owner file is acquired
Signalled(d) ==
  IF proc[d].aim = "serve" THEN proc' = [proc EXCEPT ![d].stop = TRUE, ![d].watch = FALSE]
                           ELSE Ends(d)

Stop(d) ==
  /\ Alive(d) /\ Disturb("stop") /\ Signalled(d)
  /\ UNCHANGED <<ownerVars, requestVars>>

Crash(d) ==
  /\ proc[d].pc \notin {"off", "out"} /\ Disturb("crash") /\ Ends(d)
  /\ UNCHANGED <<ownerVars, requestVars>>

\* the launcher sees its daemon in charge and alone
Registers(d) ==
  /\ Alive(d) /\ proc[d].watch /\ Names(d) /\ owner \in intact /\ Alone(d)
  /\ proc' = [proc EXCEPT ![d].watch = FALSE]
  /\ UNCHANGED <<ownerVars, requestVars, limits>>

\* it sees another beside it, and stops its own: SIGTERM, SIGKILL a second later
SplitBrain(d) ==
  /\ Alive(d) /\ proc[d].watch /\ ~Alone(d)
  /\ owner # None /\ Status(owner) = "running"
  /\ Signalled(d) \/ Ends(d)
  /\ UNCHANGED <<ownerVars, requestVars, limits>>

--------------------------------------------------------------------------------
(* AccountRuntimeReconciler.request *)

Ask(r) ==
  /\ client[r] = "idle" /\ r \in bound.requests
  /\ client' = [client EXCEPT ![r] = "waiting"] /\ place' = [place EXCEPT ![r] = "requests"]
  /\ UNCHANGED <<ownerVars, proc, result, claimer, runs, limits>>

\* the request, unless it was claimed, and the answer are removed at the end
Leave(r, outcome) ==
  /\ client' = [client EXCEPT ![r] = outcome]
  /\ place' = [place EXCEPT ![r] = IF @ = "requests" THEN "gone" ELSE @]
  /\ result' = [result EXCEPT ![r] = "none"]
  /\ UNCHANGED <<ownerVars, proc, claimer, runs>>

Poll(r) ==
  /\ client[r] = "waiting" /\ result[r] # "none"
  /\ Leave(r, result[r]) /\ UNCHANGED limits

TimesOut(r) == client[r] = "waiting" /\ Disturb("timeout") /\ Leave(r, "timeout")

--------------------------------------------------------------------------------

\* what a launcher or a daemon does of itself
Step(d) ==
  \/ Read(d) \/ ReadsNothing(d) \/ JudgeStart(d) \/ Confirm(d) \/ JudgeRelease(d)
  \/ Take(d) \/ RemovesIt(d) \/ PutsBack(d) \/ Rechecks(d)
  \/ Publishes(d) \/ Exists(d)
  \/ Recovers(d) \/ RemovesRequest(d) \/ Asserts(d) \/ FindsNone(d)
  \/ \E r \in Requests : ClaimRequest(d, r)
  \/ CarriesOut(d) \/ Answers(d)

Next ==
  \/ \E d \in Daemons :
       \/ Launch(d) \/ Step(d) \/ GivesUp(d) \/ StopSeen(d)
       \/ Stop(d) \/ Crash(d) \/ Registers(d) \/ SplitBrain(d)
  \/ \E r \in Requests : Ask(r) \/ Poll(r) \/ TimesOut(r)

Spec == Init /\ [][Next]_vars

\* every process goes on, a deadline passes; nobody has to start, ask or fail
FairSpec ==
  /\ Spec
  /\ \A d \in Daemons : WF_vars(Step(d)) /\ WF_vars(GivesUp(d))
  /\ \A r \in Requests : WF_vars(Poll(r))

--------------------------------------------------------------------------------
(* Properties *)

Serving(d) == Alive(d) /\ proc[d].aim = "serve"

\* At every moment, also between two steps of a process that is killed there, the owner
\* path is free or holds a record that the next start can judge.
OwnerWhole == owner # None => owner \in intact

\* A daemon in charge is the one the owner file names, unless somebody who judged an
\* earlier file stale has just taken the wrong one; so two serve at once only then.
LeaseStands == \A d \in Daemons : Serving(d) => Names(d) \/ Robbed(d)

\* The owner file protects the workspace over races of starts, stops and crashes.
OneOwner == DaemonTypeOK /\ OwnerWhole /\ LeaseStands

\* a living daemon has had its file taken
Dispute == \E d \in Daemons : Alive(d) /\ Robbed(d)

Working(d, r) == Alive(d) /\ proc[d].job = r /\ proc[d].pc \in {"work", "answer"}

\* A request is carried out at most once, however often its daemon is replaced, and who
\* is told that it was done is told the truth.
CarriedOutOnce ==
  \A r \in Requests : runs[r] <= 1 /\ (client[r] = "done" => runs[r] = 1)

\* A claim is closed as abandoned only when the daemon that made it is gone, or while
\* some daemon's file is taken: taking charge does not cut short what another works on.
ClosedForCause ==
  \A r \in Requests :
    (result[r] = "none" /\ result'[r] = "closed") => ~Working(claimer[r], r) \/ Dispute

\* The claims of the daemons that were replaced are neither repeated nor cut short.
RequestsHandledOnce == [][CarriedOutOnce' /\ ClosedForCause]_vars

\* After the last race whoever still serves is the one the owner file names.
OneRemains == <>[](\A d \in Daemons : Serving(d) => Names(d))

\* While some daemon serves, every request is taken, and every claim closed, except
\* those of a daemon whose file was taken.
RequestsAreServed ==
  \A r \in Requests :
    (place[r] \in {"requests", "processing"}) ~>
      \/ place[r] = "gone"
      \/ \A d \in Daemons : ~Serving(d)
      \/ claimer[r] # None /\ Robbed(claimer[r])

\* Once the starts, stops and crashes are over, one daemon at most goes on, and the
\* requests do not wait for it in vain.
DaemonSettles == OneRemains /\ RequestsAreServed

================================================================================
