-------------------------- MODULE AccountDaemonProofs --------------------------
(* Proofs about AccountDaemon for any number of starts and requests. *)
EXTENDS AccountDaemon, TLAPS

\* d has got as far as to publish a record
Begun(d) == At(d, "out") \/ Alive(d)

\* what a file on disk or in memory says of its daemon
FileOK(f) == f.copy <= made[f.of] /\ Begun(f.of)

OwnerOK == owner # None => owner \in intact /\ FileOK(owner)

\* what p holds aside, what it has seen, what it is about to take
HeldOK(p) ==
  /\ aside[p] # None => /\ proc[p].pc \in {"compare", "recheck", "out"}
                        /\ aside[p] # owner /\ FileOK(aside[p])
  /\ proc[p].pc \in {"compare", "recheck"} => aside[p] # None
SeenOK(p) ==
  /\ proc[p].seen # None => FileOK(proc[p].seen)
  /\ proc[p].pc \in {"judge", "take", "compare", "recheck"} => proc[p].seen # None
  /\ proc[p].pc = "recheck" => proc[p].seen.of = aside[p].of
TakesOK(p) ==
  proc[p].pc \in {"take", "compare"} =>
    IF proc[p].aim = "release" THEN proc[p].seen.of = p ELSE ~Alive(proc[p].seen.of)
AimOK(p) ==
  /\ proc[p].pc \in {"publish", "exists"} => proc[p].aim = "acquire"
  /\ proc[p].pc \in {"recover", "closing", "assured", "work", "answer", "tidy"} =>
       proc[p].aim = "serve"
ChargeOK(p) ==
  Alive(p) /\ proc[p].aim \in {"confirm", "serve"} => Names(p) \/ Robbed(p)

ProcOK(p) == HeldOK(p) /\ SeenOK(p) /\ TakesOK(p) /\ AimOK(p) /\ ChargeOK(p)

Inv == DaemonTypeOK /\ OwnerOK /\ \A p \in Daemons : ProcOK(p)

\* d, which has not ended, is the one that moves
Moves(d) ==
  /\ ~At(d, "out")
  /\ \A e \in Daemons : e # d => proc'[e] = proc[e]
  /\ Begun(d) => Begun(d)'

--------------------------------------------------------------------------------

\* A workspace without a daemon, or with the file of one that was killed, is sound.
LEMMA InitOK == Init => Inv
<1> SUFFICES ASSUME Init PROVE Inv
  OBVIOUS
<1>1. bound.left \in Daemons \cup {None} /\ bound.faults \in Nat
  BY DaemonAssumption DEF Init, Bound
<1>2. owner \in Files \cup {None} /\ (owner # None => owner \in intact)
  BY <1>1, DaemonAssumption DEF Init, OwnerLeft, Files
<1>3. DaemonTypeOK
  <2>1. OwnerTypeOK
    BY <1>1, <1>2, DaemonAssumption DEF Init, OwnerLeft, OwnerTypeOK
  <2>2. proc \in [Daemons -> Process]
    BY DEF Init, Blank, Process, Aims, LauncherAims
  <2> QED  BY <1>1, <2>1, <2>2 DEF Init, DaemonTypeOK
<1>4. OwnerOK
  BY <1>1, <1>2 DEF Init, OwnerLeft, OwnerOK, FileOK, Begun, At, Blank
<1>5. ASSUME NEW p \in Daemons PROVE ProcOK(p)
  BY <1>5 DEF Init, OwnerLeft, ProcOK, HeldOK, SeenOK, TakesOK, AimOK, ChargeOK, Alive, Blank
<1> QED  BY <1>3, <1>4, <1>5 DEF Inv

\* A process that is over stays over, and what was begun stays begun.
LEMMA MovesKeep ==
  ASSUME NEW d \in Daemons, Moves(d), NEW e \in Daemons
  PROVE  /\ Begun(e) => Begun(e)'
         /\ Begun(e) /\ ~Alive(e) => ~Alive(e)'
         /\ e # d => Alive(e)' = Alive(e)
  BY DEF Moves, Begun, Alive, At

\* The invariant without the types of what the files do not depend on.
Sound ==
  /\ OwnerTypeOK /\ proc \in [Daemons -> Process]
  /\ OwnerOK /\ \A p \in Daemons : ProcOK(p)

\* d moves by itself and leaves the files alone
Quiet(d) ==
  /\ Moves(d) /\ UNCHANGED ownerVars
  /\ proc' \in [Daemons -> Process]
  /\ ProcOK(d)'

\* After such a step all is sound again.
LEMMA QuietKeeps ==
  ASSUME Inv, NEW d \in Daemons, Quiet(d)
  PROVE  Sound'
<1>0. Moves(d) /\ UNCHANGED ownerVars /\ ProcOK(d)' /\ OwnerTypeOK'
  BY DEF Quiet, Inv, DaemonTypeOK, OwnerTypeOK, ownerVars
<1>1. OwnerOK'
  BY <1>0, MovesKeep DEF Inv, DaemonTypeOK, OwnerTypeOK, OwnerOK, FileOK, Files, ownerVars
<1>2. ASSUME NEW e \in Daemons, e # d PROVE ProcOK(e)'
  <2>1. proc'[e] = proc[e]
    BY <1>0, <1>2 DEF Moves
  <2>2. ProcOK(e)
    BY DEF Inv
  <2>3. owner' = owner /\ aside' = aside /\ made' = made
    BY <1>0 DEF ownerVars
  <2>4. aside[e] \in Files \cup {None} /\ proc[e].seen \in Files \cup {None}
    BY DEF Inv, DaemonTypeOK, OwnerTypeOK, Process
  <2>5. HeldOK(e)'
    BY <2>1, <2>2, <2>3, <2>4, <1>0, MovesKeep DEF ProcOK, HeldOK, FileOK, Files
  <2>6. SeenOK(e)'
    BY <2>1, <2>2, <2>3, <2>4, <1>0, MovesKeep DEF ProcOK, SeenOK, FileOK, Files
  <2>7. TakesOK(e)'
    BY <2>1, <2>2, <2>3, <2>4, <1>0, MovesKeep DEF ProcOK, TakesOK, SeenOK, FileOK, Files
  <2>8. AimOK(e)'
    BY <2>1, <2>2 DEF ProcOK, AimOK
  <2>9. ChargeOK(e)'
    BY <1>2, <2>1, <2>2, <2>3, <1>0, MovesKeep DEF ProcOK, ChargeOK, Names, Robbed
  <2> QED  BY <2>5, <2>6, <2>7, <2>8, <2>9 DEF ProcOK
<1> QED  BY <1>0, <1>1, <1>2 DEF Quiet, Sound

--------------------------------------------------------------------------------
(* Types *)

\* What the steps do to the requests, and to the limits of the instance.
LEMMA RequestTypes ==
  ASSUME DaemonTypeOK, Next
  PROVE  /\ place' \in [Requests -> {"none", "requests", "processing", "gone"}]
         /\ result' \in [Requests -> {"none", "done", "closed"}]
         /\ claimer' \in [Requests -> Daemons \cup {None}]
         /\ runs' \in [Requests -> Nat]
         /\ client' \in [Requests -> {"idle", "waiting", "done", "closed", "timeout"}]
         /\ bound' \in Bounds /\ budget' \in 0..bound'.faults
<1>0. bound \in Bounds /\ bound.faults \in Nat /\ budget \in 0..bound.faults
  BY DaemonAssumption DEF DaemonTypeOK, Bound
<1>1. ASSUME NEW r \in Requests, Ask(r) \/ Poll(r) \/ TimesOut(r) PROVE
         /\ place' \in [Requests -> {"none", "requests", "processing", "gone"}]
         /\ result' \in [Requests -> {"none", "done", "closed"}]
         /\ claimer' = claimer /\ runs' = runs
         /\ client' \in [Requests -> {"idle", "waiting", "done", "closed", "timeout"}]
         /\ bound' = bound /\ budget' \in {budget, budget - 1} /\ budget' \in Nat
  BY <1>0, <1>1 DEF DaemonTypeOK, Ask, Poll, TimesOut, Leave, Disturb, limits
<1>2. ASSUME NEW d \in Daemons, NEW r \in Requests, ClaimRequest(d, r)
      PROVE  /\ place' \in [Requests -> {"none", "requests", "processing", "gone"}]
             /\ claimer' \in [Requests -> Daemons \cup {None}]
             /\ UNCHANGED <<result, runs, client, limits>>
  BY <1>2 DEF DaemonTypeOK, ClaimRequest, limits
<1>3. ASSUME NEW d \in Daemons, Recovers(d)
      PROVE  /\ place' \in [Requests -> {"none", "requests", "processing", "gone"}]
             /\ result' \in [Requests -> {"none", "done", "closed"}]
             /\ UNCHANGED <<claimer, runs, client, limits>>
  <2>1. CASE \E r \in proc[d].todo : CloseClaim(d, r)
    <3> PICK r \in proc[d].todo : CloseClaim(d, r)
      BY <2>1
    <3>1. place' \in [Requests -> {"none", "requests", "processing", "gone"}]
      BY DEF DaemonTypeOK, CloseClaim
    <3>2. result' \in [Requests -> {"none", "done", "closed"}]
      BY DEF DaemonTypeOK, CloseClaim
    <3> QED  BY <1>3, <3>1, <3>2 DEF Recovers
  <2>2. CASE UNCHANGED <<place, result>>
    BY <1>3, <2>2 DEF Recovers, DaemonTypeOK
  <2> QED  BY <1>3, <2>1, <2>2 DEF Recovers
<1>4. ASSUME NEW d \in Daemons, RemovesRequest(d)
      PROVE  /\ place' \in [Requests -> {"none", "requests", "processing", "gone"}]
             /\ UNCHANGED <<result, claimer, runs, client, limits>>
  BY <1>4 DEF DaemonTypeOK, RemovesRequest
<1>5. ASSUME NEW d \in Daemons, CarriesOut(d)
      PROVE  /\ runs' \in [Requests -> Nat]
             /\ UNCHANGED <<place, result, claimer, client, limits>>
  BY <1>5 DEF DaemonTypeOK, CarriesOut
<1>6. ASSUME NEW d \in Daemons, Answers(d)
      PROVE  /\ result' \in [Requests -> {"none", "done", "closed"}]
             /\ UNCHANGED <<place, claimer, runs, client, limits>>
  BY <1>6 DEF DaemonTypeOK, Answers
<1>7. ASSUME NEW d \in Daemons, Stop(d) \/ Crash(d)
      PROVE  UNCHANGED requestVars /\ bound' = bound /\ budget' = budget - 1 /\ budget > 0
  BY <1>7 DEF Stop, Crash, Disturb
<1>8. ASSUME NEW d \in Daemons,
             \/ Launch(d) \/ Read(d) \/ ReadsNothing(d) \/ JudgeStart(d) \/ Confirm(d)
             \/ JudgeRelease(d) \/ Take(d) \/ RemovesIt(d) \/ PutsBack(d) \/ Rechecks(d)
             \/ Publishes(d) \/ Exists(d) \/ Asserts(d) \/ FindsNone(d) \/ GivesUp(d)
             \/ StopSeen(d) \/ Registers(d) \/ SplitBrain(d)
      PROVE  UNCHANGED <<requestVars, limits>>
  BY <1>8 DEF Launch, Read, ReadsNothing, JudgeStart, Confirm, JudgeRelease, Take, RemovesIt,
              PutsBack, Rechecks, Publishes, Exists, Asserts, FindsNone, GivesUp, StopSeen,
              Registers, SplitBrain
<1>9. CASE \E r \in Requests : Ask(r) \/ Poll(r) \/ TimesOut(r)
  <2> PICK r \in Requests : Ask(r) \/ Poll(r) \/ TimesOut(r)
    BY <1>9
  <2> QED  BY <1>0, <1>1 DEF DaemonTypeOK
<1>10. CASE \E d \in Daemons :
             \/ Launch(d) \/ Step(d) \/ GivesUp(d) \/ StopSeen(d)
             \/ Stop(d) \/ Crash(d) \/ Registers(d) \/ SplitBrain(d)
  <2> PICK d \in Daemons :
             \/ Launch(d) \/ Step(d) \/ GivesUp(d) \/ StopSeen(d)
             \/ Stop(d) \/ Crash(d) \/ Registers(d) \/ SplitBrain(d)
    BY <1>10
  <2>1. CASE \E r \in Requests : ClaimRequest(d, r)
    BY <1>0, <1>2, <2>1 DEF DaemonTypeOK, limits
  <2>2. CASE Recovers(d) \/ RemovesRequest(d) \/ CarriesOut(d) \/ Answers(d)
    BY <1>0, <1>3, <1>4, <1>5, <1>6, <2>2 DEF DaemonTypeOK, limits
  <2>3. CASE Stop(d) \/ Crash(d)
    BY <1>0, <1>7, <2>3 DEF DaemonTypeOK, requestVars
  <2>4. CASE UNCHANGED <<requestVars, limits>>
    BY <1>0, <2>4 DEF DaemonTypeOK, requestVars, limits
  <2> QED  BY <1>8, <2>1, <2>2, <2>3, <2>4 DEF Step
<1> QED  BY <1>9, <1>10 DEF Next

Pcs ==
  {"off", "read", "judge", "take", "compare", "recheck", "publish", "exists", "recover",
   "closing", "assured", "work", "answer", "tidy", "out"}

\* The helpers by which a process moves keep its type.
LEMMA GotoTyped ==
  ASSUME proc \in [Daemons -> Process], NEW d \in Daemons, NEW pc \in Pcs, Goto(d, pc)
  PROVE  proc' \in [Daemons -> Process]
<1>1. proc' = [proc EXCEPT ![d] = [proc[d] EXCEPT !.pc = pc]]
  BY DEF Goto
<1>2. [proc[d] EXCEPT !.pc = pc] \in Process
  BY DEF Process, Pcs
<1> QED  BY <1>1, <1>2

\* An inspection starts with nothing read.
LEMMA InspectTyped ==
  ASSUME proc \in [Daemons -> Process], NEW d \in Daemons, NEW aim \in Aims, Inspect(d, aim)
  PROVE  proc' \in [Daemons -> Process]
<1>1. proc' = [proc EXCEPT ![d] = [proc[d] EXCEPT !.pc = "read", !.aim = aim, !.seen = None]]
  BY DEF Inspect
<1>2. [proc[d] EXCEPT !.pc = "read", !.aim = aim, !.seen = None] \in Process
  BY DEF Process
<1> QED  BY <1>1, <1>2

\* A process that ends keeps nothing.
LEMMA EndsTyped ==
  ASSUME proc \in [Daemons -> Process], NEW d \in Daemons, Ends(d)
  PROVE  proc' \in [Daemons -> Process]
<1>1. Blank("out") \in Process
  BY DEF Process, Blank, Aims, LauncherAims
<1> QED  BY <1>1 DEF Ends

\* A process that starts anew.
LEMMA Spawned ==
  ASSUME NEW q \in Process, NEW pc \in Pcs, NEW a \in Aims, NEW f \in Files \cup {None},
         NEW n \in 0..1, NEW w \in BOOLEAN
  PROVE  [q EXCEPT !.pc = pc, !.aim = a, !.seen = f, !.tries = n, !.watch = w] \in Process
  BY DEF Process, Pcs

\* The same of a daemon that takes charge.
LEMMA Confirmed ==
  ASSUME NEW q \in Process, NEW pc \in Pcs, NEW a \in Aims, NEW f \in Files \cup {None},
         NEW n \in 0..1, NEW t \in SUBSET Requests
  PROVE  [q EXCEPT !.pc = pc, !.aim = a, !.seen = f, !.tries = n, !.todo = t] \in Process
  BY DEF Process, Pcs

\* The second attempt to publish.
LEMMA Retried ==
  ASSUME NEW q \in Process, NEW pc \in Pcs, NEW n \in 0..1
  PROVE  [q EXCEPT !.pc = pc, !.tries = n] \in Process
  BY DEF Process, Pcs

\* A daemon that serves notes the signal.
LEMMA Told ==
  ASSUME NEW q \in Process, NEW b \in BOOLEAN, NEW w \in BOOLEAN
  PROVE  [q EXCEPT !.stop = b, !.watch = w] \in Process
  BY DEF Process

\* A signal to a daemon that serves or to one that does not.
LEMMA SignalledTyped ==
  ASSUME proc \in [Daemons -> Process], NEW d \in Daemons, Signalled(d)
  PROVE  proc' \in [Daemons -> Process]
<1>1. [proc[d] EXCEPT !.stop = TRUE, !.watch = FALSE] \in Process
  BY Told
<1>2. CASE Ends(d)
  BY <1>2, EndsTyped
<1>3. CASE proc' = [proc EXCEPT ![d].stop = TRUE, ![d].watch = FALSE]
  <2>1. proc' = [proc EXCEPT ![d] = [proc[d] EXCEPT !.stop = TRUE, !.watch = FALSE]]
    BY <1>3
  <2> QED  BY <1>1, <2>1
<1> QED  BY <1>2, <1>3 DEF Signalled

\* The launcher's process gives way to the daemon's.
LEMMA SpawnTyped ==
  ASSUME proc \in [Daemons -> Process], NEW d \in Daemons, Spawn(d)
  PROVE  proc' \in [Daemons -> Process]
<1>1. proc' = [proc EXCEPT ![d] = [proc[d] EXCEPT !.pc = "publish", !.aim = "acquire",
                                                  !.seen = None, !.tries = 0, !.watch = TRUE]]
  BY DEF Spawn
<1>2. /\ "publish" \in Pcs /\ "acquire" \in Aims /\ None \in Files \cup {None}
      /\ 0 \in 0..1 /\ TRUE \in BOOLEAN /\ proc[d] \in Process
  BY DEF Pcs, Aims
<1>3. [proc[d] EXCEPT !.pc = "publish", !.aim = "acquire", !.seen = None, !.tries = 0,
                      !.watch = TRUE] \in Process
  BY <1>2, Spawned
<1> QED  BY <1>1, <1>3

--------------------------------------------------------------------------------
(* The steps that leave the files alone *)

\* A start looks at the owner path first.
LEMMA LaunchQuiet ==
  ASSUME Inv, NEW d \in Daemons, Launch(d) PROVE Quiet(d)
<1>0. proc \in [Daemons -> Process] /\ owner \in Files \cup {None}
  BY DEF Inv, DaemonTypeOK, OwnerTypeOK
<1>1. proc' \in [Daemons -> Process]
  BY <1>0, InspectTyped DEF Launch, Pcs, Aims, LauncherAims
<1>2. Moves(d)
  BY <1>0 DEF Launch, Moves, Begun, Alive, At, Process, Inspect
<1>3. ProcOK(d)'
  BY DEF Inv, DaemonTypeOK, OwnerTypeOK, Launch, ProcOK, HeldOK, SeenOK, TakesOK, AimOK, ChargeOK,
         FileOK, Begun, Alive, At, Process, Files, Inspect, ownerVars, Names, Robbed
<1> QED  BY <1>1, <1>2, <1>3 DEF Quiet, Launch

\* What is read at the path is a file that FileOK speaks of.
LEMMA ReadQuiet ==
  ASSUME Inv, NEW d \in Daemons, Read(d) PROVE Quiet(d)
<1>0. proc \in [Daemons -> Process] /\ owner \in Files \cup {None}
  BY DEF Inv, DaemonTypeOK, OwnerTypeOK
<1>a. [proc[d] EXCEPT !.pc = "judge", !.seen = owner] \in Process
  BY <1>0 DEF Process
<1>1. proc' \in [Daemons -> Process]
  BY <1>0, <1>a, EndsTyped DEF Read, Pcs, Aims, LauncherAims
<1>2. Moves(d)
  BY <1>0 DEF Read, Moves, Begun, Alive, At, Process, Ends, Blank
<1>3. ProcOK(d)'
  BY DEF Inv, DaemonTypeOK, OwnerTypeOK, Read, ProcOK, HeldOK, SeenOK, TakesOK, AimOK, ChargeOK,
         FileOK, Begun, Alive, At, Process, Files, Ends, Blank, ownerVars, Names, Robbed
<1> QED  BY <1>1, <1>2, <1>3 DEF Quiet, Read

\* A daemon that is started has not been alive before.
LEMMA ReadsNothingQuiet ==
  ASSUME Inv, NEW d \in Daemons, ReadsNothing(d) PROVE Quiet(d)
<1>0. proc \in [Daemons -> Process] /\ owner \in Files \cup {None}
  BY DEF Inv, DaemonTypeOK, OwnerTypeOK
<1>1. proc' \in [Daemons -> Process]
  BY <1>0, EndsTyped, SpawnTyped DEF ReadsNothing, Pcs, Aims, LauncherAims
<1>2. Moves(d)
  BY <1>0 DEF ReadsNothing, Moves, Begun, Alive, At, Process, Ends, Blank, Spawn, LauncherAims
<1>3. ProcOK(d)'
  BY DEF Inv, DaemonTypeOK, OwnerTypeOK, ReadsNothing, ProcOK, HeldOK, SeenOK, TakesOK, AimOK, ChargeOK,
         FileOK, Begun, Alive, At, Process, Files, Ends, Blank, Spawn, LauncherAims, ownerVars, Names, Robbed
<1> QED  BY <1>1, <1>2, <1>3 DEF Quiet, ReadsNothing

\* Only a file whose daemon no longer lives is about to be taken.
LEMMA JudgeStartQuiet ==
  ASSUME Inv, NEW d \in Daemons, JudgeStart(d) PROVE Quiet(d)
<1>0. proc \in [Daemons -> Process] /\ owner \in Files \cup {None}
  BY DEF Inv, DaemonTypeOK, OwnerTypeOK
<1>1. proc' \in [Daemons -> Process]
  BY <1>0, InspectTyped, GotoTyped, EndsTyped DEF JudgeStart, Pcs, Aims, LauncherAims
<1>2. Moves(d)
  BY <1>0 DEF JudgeStart, Moves, Begun, Alive, At, Process, On, Inspect, Goto, Ends, Blank, Status
<1>3. ProcOK(d)'
  BY DEF Inv, DaemonTypeOK, OwnerTypeOK, JudgeStart, ProcOK, HeldOK, SeenOK, TakesOK, AimOK, ChargeOK,
         FileOK, Begun, Alive, At, Process, Files, On, Inspect, Goto, Ends, Blank, Status, ownerVars, Names, Robbed
<1> QED  BY <1>1, <1>2, <1>3 DEF Quiet, JudgeStart

\* Who takes charge was named already.
LEMMA ConfirmQuiet ==
  ASSUME Inv, NEW d \in Daemons, Confirm(d) PROVE Quiet(d)
<1>0. proc \in [Daemons -> Process] /\ owner \in Files \cup {None}
  BY DEF Inv, DaemonTypeOK, OwnerTypeOK
<1>1. proc' \in [Daemons -> Process]
  <2>1. CASE Ends(d)
    BY <1>0, <2>1, EndsTyped
  <2>2. CASE proc[d].seen \in intact
    <3> DEFINE left == {r \in Requests : place[r] = "processing"}
    <3>1. proc' = [proc EXCEPT ![d] = [proc[d] EXCEPT !.pc = "recover", !.aim = "serve",
                                         !.seen = None, !.tries = 0, !.todo = left]]
      BY <2>2 DEF Confirm
    <3>2. /\ "recover" \in Pcs /\ "serve" \in Aims /\ None \in Files \cup {None}
          /\ 0 \in 0..1 /\ left \in SUBSET Requests /\ proc[d] \in Process
      BY <1>0 DEF Pcs, Aims
    <3> HIDE DEF left
    <3>3. [proc[d] EXCEPT !.pc = "recover", !.aim = "serve", !.seen = None, !.tries = 0,
                          !.todo = left] \in Process
      BY <3>2, Confirmed
    <3> QED  BY <1>0, <3>1, <3>3
  <2> QED  BY <2>1, <2>2 DEF Confirm
<1>2. Moves(d)
  BY <1>0 DEF Confirm, Moves, Begun, Alive, At, Process, On, Ends, Blank
<1>3. ProcOK(d)'
  BY DEF Inv, DaemonTypeOK, OwnerTypeOK, Confirm, ProcOK, HeldOK, SeenOK, TakesOK, AimOK, ChargeOK,
         FileOK, Begun, Alive, At, Process, Files, On, Ends, Blank, ownerVars, Names, Robbed
<1> QED  BY <1>1, <1>2, <1>3 DEF Quiet, Confirm

\* A release is about to take its own file only, and serves no more.
LEMMA JudgeReleaseQuiet ==
  ASSUME Inv, NEW d \in Daemons, JudgeRelease(d) PROVE Quiet(d)
<1>0. proc \in [Daemons -> Process] /\ owner \in Files \cup {None}
  BY DEF Inv, DaemonTypeOK, OwnerTypeOK
<1>1. proc' \in [Daemons -> Process]
  BY <1>0, GotoTyped, EndsTyped DEF JudgeRelease, Pcs, Aims, LauncherAims
<1>2. Moves(d)
  BY <1>0 DEF JudgeRelease, Moves, Begun, Alive, At, Process, On, Goto, Ends, Blank, IsOwner, Status
<1>3. ProcOK(d)'
  BY DEF Inv, DaemonTypeOK, OwnerTypeOK, JudgeRelease, ProcOK, HeldOK, SeenOK, TakesOK, AimOK, ChargeOK,
         FileOK, Begun, Alive, At, Process, Files, On, Goto, Ends, Blank, IsOwner, Status, ownerVars, Names, Robbed
<1> QED  BY <1>1, <1>2, <1>3 DEF Quiet, JudgeRelease

\* The refused link leads to an inspection or a second attempt.
LEMMA ExistsQuiet ==
  ASSUME Inv, NEW d \in Daemons, Exists(d) PROVE Quiet(d)
<1>0. proc \in [Daemons -> Process] /\ owner \in Files \cup {None}
  BY DEF Inv, DaemonTypeOK, OwnerTypeOK
<1>a. [proc[d] EXCEPT !.pc = "publish", !.tries = 1] \in Process
  <2>1. "publish" \in Pcs /\ 1 \in 0..1 /\ proc[d] \in Process
    BY <1>0 DEF Pcs
  <2> QED  BY <2>1, Retried
<1>1. proc' \in [Daemons -> Process]
  BY <1>0, <1>a, InspectTyped, EndsTyped DEF Exists, Pcs, Aims, LauncherAims
<1>2. Moves(d)
  BY <1>0 DEF Exists, Moves, Begun, Alive, At, Process, Inspect, Ends, Blank
<1>3. ProcOK(d)'
  BY DEF Inv, DaemonTypeOK, OwnerTypeOK, Exists, ProcOK, HeldOK, SeenOK, TakesOK, AimOK, ChargeOK,
         FileOK, Begun, Alive, At, Process, Files, Inspect, Ends, Blank, ownerVars, Names, Robbed
<1> QED  BY <1>1, <1>2, <1>3 DEF Quiet, Exists

\* The abandoned claims are closed without a look at the owner.
LEMMA RecoversQuiet ==
  ASSUME Inv, NEW d \in Daemons, Recovers(d) PROVE Quiet(d)
<1>0. proc \in [Daemons -> Process] /\ proc[d].pc = "recover" /\ UNCHANGED ownerVars
  BY DEF Inv, DaemonTypeOK, Recovers, At
<1>1. CASE Inspect(d, "serve")
  <2>1. proc' \in [Daemons -> Process]
    BY <1>0, <1>1, InspectTyped DEF Aims
  <2>2. Moves(d)
    BY <1>0, <1>1 DEF Moves, Begun, Alive, At, Process, Inspect
  <2>3. ProcOK(d)'
    BY <1>0, <1>1 DEF Inv, DaemonTypeOK, OwnerTypeOK, ProcOK, HeldOK, SeenOK, TakesOK, AimOK,
           ChargeOK, FileOK, Begun, Alive, At, Process, Files, Inspect, ownerVars, Names, Robbed
  <2> QED  BY <1>0, <2>1, <2>2, <2>3 DEF Quiet
<1>2. ASSUME NEW r \in Requests, NEW t \in SUBSET Requests,
             \/ proc' = [proc EXCEPT ![d].todo = t]
             \/ proc' = [proc EXCEPT ![d].pc = "closing", ![d].job = r, ![d].todo = t]
      PROVE  Quiet(d)
  <2>0. proc' = [proc EXCEPT ![d] = [proc[d] EXCEPT !.todo = t]] \/
        proc' = [proc EXCEPT ![d] = [proc[d] EXCEPT !.pc = "closing", !.job = r, !.todo = t]]
    BY <1>2
  <2>1. [proc[d] EXCEPT !.todo = t] \in Process
    BY <1>0 DEF Process
  <2>2. [proc[d] EXCEPT !.pc = "closing", !.job = r, !.todo = t] \in Process
    BY <1>0 DEF Process
  <2>3. proc' \in [Daemons -> Process]
    BY <1>0, <2>0, <2>1, <2>2
  <2>4. Moves(d)
    BY <1>0, <1>2 DEF Moves, Begun, Alive, At, Process
  <2>5. ProcOK(d)'
    BY <1>0, <1>2 DEF Inv, DaemonTypeOK, OwnerTypeOK, ProcOK, HeldOK, SeenOK, TakesOK, AimOK,
           ChargeOK, FileOK, Begun, Alive, At, Process, Files, ownerVars, Names, Robbed
  <2> QED  BY <1>0, <2>3, <2>4, <2>5 DEF Quiet
<1>3. CASE \E r \in proc[d].todo : CloseClaim(d, r)
  <2> PICK r \in proc[d].todo : CloseClaim(d, r)
    BY <1>3
  <2>1. r \in Requests /\ proc[d].todo \ {r} \in SUBSET Requests
    BY <1>0 DEF Process
  <2>2. \/ proc' = [proc EXCEPT ![d].todo = proc[d].todo \ {r}]
        \/ proc' = [proc EXCEPT ![d].pc = "closing", ![d].job = r,
                                ![d].todo = proc[d].todo \ {r}]
    BY <1>0 DEF CloseClaim
  <2> QED  BY <1>2, <2>1, <2>2
<1> QED  BY <1>1, <1>3 DEF Recovers

\* The removal of a request file.
LEMMA RemovesRequestQuiet ==
  ASSUME Inv, NEW d \in Daemons, RemovesRequest(d) PROVE Quiet(d)
<1>0. proc \in [Daemons -> Process] /\ owner \in Files \cup {None}
  BY DEF Inv, DaemonTypeOK, OwnerTypeOK
<1>a. [proc[d] EXCEPT !.pc = IF At(d, "closing") THEN "recover" ELSE "read", !.job = None, !.seen = None] \in Process
  BY <1>0 DEF Process, RemovesRequest
<1>1. proc' \in [Daemons -> Process]
  BY <1>0, <1>a DEF RemovesRequest, Pcs, Aims, LauncherAims
<1>2. Moves(d)
  BY <1>0 DEF RemovesRequest, Moves, Begun, Alive, At, Process
<1>3. ProcOK(d)'
  BY DEF Inv, DaemonTypeOK, OwnerTypeOK, RemovesRequest, ProcOK, HeldOK, SeenOK, TakesOK, AimOK, ChargeOK,
         FileOK, Begun, Alive, At, Process, Files, ownerVars, Names, Robbed
<1> QED  BY <1>1, <1>2, <1>3 DEF Quiet, RemovesRequest

\* The owner is confirmed, or lost.
LEMMA AssertsQuiet ==
  ASSUME Inv, NEW d \in Daemons, Asserts(d) PROVE Quiet(d)
<1>0. proc \in [Daemons -> Process] /\ owner \in Files \cup {None}
  BY DEF Inv, DaemonTypeOK, OwnerTypeOK
<1>a. [proc[d] EXCEPT !.pc = "assured", !.seen = None] \in Process
  BY <1>0 DEF Process, Asserts
<1>1. proc' \in [Daemons -> Process]
  BY <1>0, <1>a, InspectTyped DEF Asserts, Pcs, Aims, LauncherAims
<1>2. Moves(d)
  BY <1>0 DEF Asserts, Moves, Begun, Alive, At, Process, On, Inspect, IsOwner, Status
<1>3. ProcOK(d)'
  BY DEF Inv, DaemonTypeOK, OwnerTypeOK, Asserts, ProcOK, HeldOK, SeenOK, TakesOK, AimOK, ChargeOK,
         FileOK, Begun, Alive, At, Process, Files, On, Inspect, IsOwner, Status, ownerVars, Names, Robbed
<1> QED  BY <1>1, <1>2, <1>3 DEF Quiet, Asserts

\* The two seconds without an owner.
LEMMA GivesUpQuiet ==
  ASSUME Inv, NEW d \in Daemons, GivesUp(d) PROVE Quiet(d)
<1>0. proc \in [Daemons -> Process] /\ owner \in Files \cup {None}
  BY DEF Inv, DaemonTypeOK, OwnerTypeOK
<1>1. proc' \in [Daemons -> Process]
  BY <1>0, InspectTyped DEF GivesUp, Pcs, Aims, LauncherAims
<1>2. Moves(d)
  BY <1>0 DEF GivesUp, Moves, Begun, Alive, At, Process, On, Inspect
<1>3. ProcOK(d)'
  BY DEF Inv, DaemonTypeOK, OwnerTypeOK, GivesUp, ProcOK, HeldOK, SeenOK, TakesOK, AimOK, ChargeOK,
         FileOK, Begun, Alive, At, Process, Files, On, Inspect, ownerVars, Names, Robbed
<1> QED  BY <1>1, <1>2, <1>3 DEF Quiet, GivesUp

\* Nothing to do.
LEMMA FindsNoneQuiet ==
  ASSUME Inv, NEW d \in Daemons, FindsNone(d) PROVE Quiet(d)
<1>0. proc \in [Daemons -> Process] /\ owner \in Files \cup {None}
  BY DEF Inv, DaemonTypeOK, OwnerTypeOK
<1>1. proc' \in [Daemons -> Process]
  BY <1>0, InspectTyped DEF FindsNone, Pcs, Aims, LauncherAims
<1>2. Moves(d)
  BY <1>0 DEF FindsNone, Moves, Begun, Alive, At, Process, Inspect
<1>3. ProcOK(d)'
  BY DEF Inv, DaemonTypeOK, OwnerTypeOK, FindsNone, ProcOK, HeldOK, SeenOK, TakesOK, AimOK, ChargeOK,
         FileOK, Begun, Alive, At, Process, Files, Inspect, ownerVars, Names, Robbed
<1> QED  BY <1>1, <1>2, <1>3 DEF Quiet, FindsNone

\* A claim.
LEMMA ClaimRequestQuiet ==
  ASSUME Inv, NEW d \in Daemons, NEW r \in Requests, ClaimRequest(d, r) PROVE Quiet(d)
<1>0. proc \in [Daemons -> Process] /\ owner \in Files \cup {None}
  BY DEF Inv, DaemonTypeOK, OwnerTypeOK
<1>a. [proc[d] EXCEPT !.pc = "work", !.job = r] \in Process
  BY <1>0 DEF Process, ClaimRequest
<1>1. proc' \in [Daemons -> Process]
  BY <1>0, <1>a DEF ClaimRequest, Pcs, Aims, LauncherAims
<1>2. Moves(d)
  BY <1>0 DEF ClaimRequest, Moves, Begun, Alive, At, Process
<1>3. ProcOK(d)'
  BY DEF Inv, DaemonTypeOK, OwnerTypeOK, ClaimRequest, ProcOK, HeldOK, SeenOK, TakesOK, AimOK, ChargeOK,
         FileOK, Begun, Alive, At, Process, Files, ownerVars, Names, Robbed
<1> QED  BY <1>1, <1>2, <1>3 DEF Quiet, ClaimRequest

\* The launcher at work.
LEMMA CarriesOutQuiet ==
  ASSUME Inv, NEW d \in Daemons, CarriesOut(d) PROVE Quiet(d)
<1>0. proc \in [Daemons -> Process] /\ owner \in Files \cup {None}
  BY DEF Inv, DaemonTypeOK, OwnerTypeOK
<1>a. [proc[d] EXCEPT !.pc = "read", !.job = None, !.seen = None] \in Process
  BY <1>0 DEF Process
<1>1. proc' \in [Daemons -> Process]
  BY <1>0, <1>a, GotoTyped DEF CarriesOut, Pcs, Aims, LauncherAims
<1>2. Moves(d)
  BY <1>0 DEF CarriesOut, Moves, Begun, Alive, At, Process, Goto
<1>3. ProcOK(d)'
  BY DEF Inv, DaemonTypeOK, OwnerTypeOK, CarriesOut, ProcOK, HeldOK, SeenOK, TakesOK, AimOK, ChargeOK,
         FileOK, Begun, Alive, At, Process, Files, Goto, ownerVars, Names, Robbed
<1> QED  BY <1>1, <1>2, <1>3 DEF Quiet, CarriesOut

\* An answer.
LEMMA AnswersQuiet ==
  ASSUME Inv, NEW d \in Daemons, Answers(d) PROVE Quiet(d)
<1>0. proc \in [Daemons -> Process] /\ owner \in Files \cup {None}
  BY DEF Inv, DaemonTypeOK, OwnerTypeOK
<1>1. proc' \in [Daemons -> Process]
  BY <1>0, GotoTyped DEF Answers, Pcs, Aims, LauncherAims
<1>2. Moves(d)
  BY <1>0 DEF Answers, Moves, Begun, Alive, At, Process, Goto
<1>3. ProcOK(d)'
  BY DEF Inv, DaemonTypeOK, OwnerTypeOK, Answers, ProcOK, HeldOK, SeenOK, TakesOK, AimOK, ChargeOK,
         FileOK, Begun, Alive, At, Process, Files, Goto, ownerVars, Names, Robbed
<1> QED  BY <1>1, <1>2, <1>3 DEF Quiet, Answers

\* A stop in the loop.
LEMMA StopSeenQuiet ==
  ASSUME Inv, NEW d \in Daemons, StopSeen(d) PROVE Quiet(d)
<1>0. proc \in [Daemons -> Process] /\ owner \in Files \cup {None}
  BY DEF Inv, DaemonTypeOK, OwnerTypeOK
<1>1. proc' \in [Daemons -> Process]
  BY <1>0, InspectTyped DEF StopSeen, Pcs, Aims, LauncherAims
<1>2. Moves(d)
  BY <1>0 DEF StopSeen, Moves, Begun, Alive, At, Process, On, Inspect
<1>3. ProcOK(d)'
  BY DEF Inv, DaemonTypeOK, OwnerTypeOK, StopSeen, ProcOK, HeldOK, SeenOK, TakesOK, AimOK, ChargeOK,
         FileOK, Begun, Alive, At, Process, Files, On, Inspect, ownerVars, Names, Robbed
<1> QED  BY <1>1, <1>2, <1>3 DEF Quiet, StopSeen

\* A signal.
LEMMA StopQuiet ==
  ASSUME Inv, NEW d \in Daemons, Stop(d) PROVE Quiet(d)
<1>0. proc \in [Daemons -> Process] /\ owner \in Files \cup {None}
  BY DEF Inv, DaemonTypeOK, OwnerTypeOK
<1>1. proc' \in [Daemons -> Process]
  BY <1>0, SignalledTyped DEF Stop
<1>2. Moves(d)
  BY <1>0 DEF Stop, Moves, Begun, Alive, At, Process, Signalled, Ends, Blank
<1>3. ProcOK(d)'
  BY DEF Inv, DaemonTypeOK, OwnerTypeOK, Stop, ProcOK, HeldOK, SeenOK, TakesOK, AimOK, ChargeOK,
         FileOK, Begun, Alive, At, Process, Files, Signalled, Ends, Blank, ownerVars, Names, Robbed
<1> QED  BY <1>1, <1>2, <1>3 DEF Quiet, Stop

\* A crash leaves the files as they are.
LEMMA CrashQuiet ==
  ASSUME Inv, NEW d \in Daemons, Crash(d) PROVE Quiet(d)
<1>0. proc \in [Daemons -> Process] /\ owner \in Files \cup {None}
  BY DEF Inv, DaemonTypeOK, OwnerTypeOK
<1>1. proc' \in [Daemons -> Process]
  BY <1>0, EndsTyped DEF Crash, Pcs, Aims, LauncherAims
<1>2. Moves(d)
  BY <1>0 DEF Crash, Moves, Begun, Alive, At, Process, Ends, Blank
<1>3. ProcOK(d)'
  BY DEF Inv, DaemonTypeOK, OwnerTypeOK, Crash, ProcOK, HeldOK, SeenOK, TakesOK, AimOK, ChargeOK,
         FileOK, Begun, Alive, At, Process, Files, Ends, Blank, ownerVars, Names, Robbed
<1> QED  BY <1>1, <1>2, <1>3 DEF Quiet, Crash

\* The launcher registers its daemon.
LEMMA RegistersQuiet ==
  ASSUME Inv, NEW d \in Daemons, Registers(d) PROVE Quiet(d)
<1>0. proc \in [Daemons -> Process] /\ owner \in Files \cup {None}
  BY DEF Inv, DaemonTypeOK, OwnerTypeOK
<1>a. [proc[d] EXCEPT !.watch = FALSE] \in Process
  BY <1>0 DEF Process, Registers
<1>1. proc' \in [Daemons -> Process]
  BY <1>0, <1>a DEF Registers, Pcs, Aims, LauncherAims
<1>2. Moves(d)
  BY <1>0 DEF Registers, Moves, Begun, Alive, At, Process
<1>3. ProcOK(d)'
  BY DEF Inv, DaemonTypeOK, OwnerTypeOK, Registers, ProcOK, HeldOK, SeenOK, TakesOK, AimOK, ChargeOK,
         FileOK, Begun, Alive, At, Process, Files, ownerVars, Names, Robbed
<1> QED  BY <1>1, <1>2, <1>3 DEF Quiet, Registers

\* The launcher stops its daemon.
LEMMA SplitBrainQuiet ==
  ASSUME Inv, NEW d \in Daemons, SplitBrain(d) PROVE Quiet(d)
<1>0. proc \in [Daemons -> Process] /\ owner \in Files \cup {None}
  BY DEF Inv, DaemonTypeOK, OwnerTypeOK
<1>1. proc' \in [Daemons -> Process]
  BY <1>0, EndsTyped, SignalledTyped DEF SplitBrain
<1>2. Moves(d)
  BY <1>0 DEF SplitBrain, Moves, Begun, Alive, At, Process, Signalled, Ends, Blank
<1>3. ProcOK(d)'
  BY DEF Inv, DaemonTypeOK, OwnerTypeOK, SplitBrain, ProcOK, HeldOK, SeenOK, TakesOK, AimOK, ChargeOK,
         FileOK, Begun, Alive, At, Process, Files, Signalled, Ends, Blank, ownerVars, Names, Robbed
<1> QED  BY <1>1, <1>2, <1>3 DEF Quiet, SplitBrain

--------------------------------------------------------------------------------
(* The steps that move the files *)

\* A file yet to be written is none of those there are.
LEMMA Fresh ==
  ASSUME Inv, NEW x \in Daemons
  PROVE  /\ NextFile(x) \in Files /\ NextFile(x).copy > made[x]
         /\ NextFile(x).of = x /\ NextFile(x) # None
         /\ \A p \in Daemons : NextFile(x) # aside[p]
<1>1. made[x] \in Nat /\ NextFile(x) \in Files /\ NextFile(x).copy = made[x] + 1
  BY DEF Inv, DaemonTypeOK, OwnerTypeOK, NextFile, Files
<1>2. ASSUME NEW p \in Daemons, NextFile(x) = aside[p] PROVE FALSE
  <2>1. aside[p] # None
    BY <1>1, <1>2, DaemonAssumption
  <2>2. aside[p].copy <= made[aside[p].of] /\ aside[p].of = x
    BY <1>2, <2>1 DEF Inv, ProcOK, HeldOK, FileOK, NextFile
  <2> QED  BY <1>1, <1>2, <2>2
<1> QED  BY <1>1, <1>2, DaemonAssumption DEF NextFile

\* What was true of a file stays true.
LEMMA FilesStay ==
  ASSUME Inv, NEW d \in Daemons, Moves(d),
         made' \in [Daemons -> Nat], \A x \in Daemons : made[x] <= made'[x],
         NEW f \in Files, FileOK(f)
  PROVE  FileOK(f)'
  BY MovesKeep DEF FileOK, Files, Inv, DaemonTypeOK, OwnerTypeOK

\* What a step of d that writes a file of x, and one that takes a file away, leave of the
\* other processes.
LEMMA OthersKeep ==
  ASSUME Inv, NEW d \in Daemons, Moves(d),
         made' \in [Daemons -> Nat], \A x \in Daemons : made[x] <= made'[x],
         \A e \in Daemons : e # d => aside'[e] = aside[e],
         \A e \in Daemons : e # d /\ aside[e] # None => owner' # aside[e],
         \A e \in Daemons : Alive(e) /\ e # d => (Names(e) \/ Robbed(e) => (Names(e) \/ Robbed(e))'),
         NEW e \in Daemons, e # d
  PROVE  ProcOK(e)'
<1>1. proc'[e] = proc[e] /\ aside'[e] = aside[e]
  BY DEF Moves
<1>2. ProcOK(e)
  BY DEF Inv
<1>3. \A f \in Files : FileOK(f) => FileOK(f)'
  BY MovesKeep DEF FileOK, Files, Inv, DaemonTypeOK, OwnerTypeOK
<1>4. aside[e] \in Files \cup {None} /\ proc[e].seen \in Files \cup {None}
  BY DEF Inv, DaemonTypeOK, OwnerTypeOK, Process
<1>5. HeldOK(e)'
  BY <1>1, <1>2, <1>3, <1>4 DEF ProcOK, HeldOK
<1>6. SeenOK(e)'
  BY <1>1, <1>2, <1>3, <1>4 DEF ProcOK, SeenOK
<1>7. TakesOK(e)'
  BY <1>1, <1>2, <1>4, MovesKeep DEF ProcOK, TakesOK, SeenOK, FileOK, Files
<1>8. AimOK(e)'
  BY <1>1, <1>2 DEF ProcOK, AimOK
<1>9. ChargeOK(e)'
  BY <1>1, <1>2, MovesKeep DEF ProcOK, ChargeOK
<1> QED  BY <1>5, <1>6, <1>7, <1>8, <1>9 DEF ProcOK

\* The take: the file of the daemon it names is now held aside.
LEMMA TakeKeeps ==
  ASSUME Inv, NEW d \in Daemons, Take(d) PROVE Sound'
<1>0. /\ proc \in [Daemons -> Process] /\ proc[d].pc = "take" /\ OwnerTypeOK
      /\ ProcOK(d) /\ None \notin Files /\ aside[d] = None /\ proc[d].seen # None
  BY DaemonAssumption DEF Inv, DaemonTypeOK, Take, At, ProcOK, HeldOK, SeenOK
<1>1. CASE Ends(d) /\ UNCHANGED ownerVars
  <2>1. proc' \in [Daemons -> Process]
    BY <1>0, <1>1, EndsTyped
  <2>2. Moves(d)
    BY <1>0, <1>1 DEF Moves, Begun, Alive, At, Process, Ends, Blank
  <2>3. ProcOK(d)'
    BY <1>0, <1>1 DEF ProcOK, HeldOK, SeenOK, TakesOK, AimOK, ChargeOK, Alive, Process,
           Ends, Blank, ownerVars
  <2> QED  BY <1>1, <2>1, <2>2, <2>3, QuietKeeps DEF Quiet
<1>2. CASE TakeAside(d) /\ Goto(d, "compare")
  <2>1. proc' \in [Daemons -> Process] /\ proc'[d].pc = "compare"
        /\ proc'[d].aim = proc[d].aim /\ proc'[d].seen = proc[d].seen
    BY <1>0, <1>2, GotoTyped DEF Pcs, Goto, Process
  <2>2. Moves(d)
    BY <1>0, <1>2 DEF Moves, Begun, Alive, At, Process, Goto
  <2>3. OwnerTypeOK' /\ owner # None /\ owner' = None /\ aside'[d] = owner
        /\ \A e \in Daemons : e # d => aside'[e] = aside[e]
    BY <1>0, <1>2 DEF OwnerTypeOK, TakeAside
  <2>4. OwnerOK'
    BY <2>3 DEF OwnerOK
  <2>5. ASSUME NEW e \in Daemons, Names(e) \/ Robbed(e) PROVE Robbed(e)'
    BY <1>0, <2>3, <2>5 DEF Names, Robbed
  <2>6. FileOK(aside[d])' /\ FileOK(proc[d].seen)'
    <3>1. owner \in Files /\ proc[d].seen \in Files /\ FileOK(owner) /\ FileOK(proc[d].seen)
      BY <1>0, <2>3 DEF OwnerTypeOK, Inv, OwnerOK, ProcOK, SeenOK, Process
    <3>2. made' = made /\ made \in [Daemons -> Nat]
      BY <1>0, <1>2 DEF OwnerTypeOK, TakeAside
    <3>3. ASSUME NEW f \in Files, FileOK(f) PROVE FileOK(f)'
      BY <2>2, <3>2, <3>3, FilesStay
    <3> QED  BY <2>1, <2>3, <3>1, <3>3 DEF FileOK
  <2>7. ProcOK(d)'
    <3>1. HeldOK(d)'
      BY <1>0, <2>1, <2>3, <2>6 DEF HeldOK, FileOK
    <3>2. SeenOK(d)'
      BY <1>0, <2>1, <2>6 DEF SeenOK, FileOK
    <3>3. TakesOK(d)'
      BY <1>0, <2>1, <2>2, MovesKeep DEF ProcOK, TakesOK, SeenOK, FileOK, Files, Process
    <3> QED  BY <1>0, <2>1, <2>5, <3>1, <3>2, <3>3 DEF ProcOK, AimOK, ChargeOK, Alive
  <2>8. ASSUME NEW e \in Daemons, e # d PROVE ProcOK(e)'
    BY <1>0, <1>2, <2>2, <2>3, <2>5, <2>8, OthersKeep DEF TakeAside, OwnerTypeOK
  <2> QED  BY <2>1, <2>3, <2>4, <2>7, <2>8 DEF Sound
<1> QED  BY <1>1, <1>2 DEF Take

\* The file that is removed is the one that was judged: of a daemon that is over, or
\* of the remover itself on its way out.
LEMMA RemovesItKeeps ==
  ASSUME Inv, NEW d \in Daemons, RemovesIt(d) PROVE Sound'
<1>0. /\ proc \in [Daemons -> Process] /\ proc[d].pc = "compare" /\ OwnerTypeOK
      /\ ProcOK(d) /\ aside[d] = proc[d].seen /\ aside[d] # None /\ aside[d] # owner
      /\ Discard(d) /\ Cleared(d)
  BY DEF Inv, DaemonTypeOK, RemovesIt, IsExpected, At, ProcOK, HeldOK
<1>1. proc' \in [Daemons -> Process]
  <2>1. CASE Spawn(d)
    BY <1>0, <2>1, SpawnTyped
  <2>2. CASE Ends(d)
    BY <1>0, <2>2, EndsTyped
  <2>3. CASE proc' = [proc EXCEPT ![d].pc = "publish", ![d].tries = 1]
    <3>1. proc' = [proc EXCEPT ![d] = [proc[d] EXCEPT !.pc = "publish", !.tries = 1]]
      BY <2>3
    <3>2. "publish" \in Pcs /\ 1 \in 0..1 /\ proc[d] \in Process
      BY <1>0 DEF Pcs
    <3>3. [proc[d] EXCEPT !.pc = "publish", !.tries = 1] \in Process
      BY <3>2, Retried
    <3> QED  BY <1>0, <3>1, <3>3
  <2> QED  BY <1>0, <2>1, <2>2, <2>3 DEF Cleared
<1>2. Moves(d)
  BY <1>0 DEF Moves, Begun, Alive, At, Process, Cleared, Spawn, Ends, Blank
<1>3. /\ owner' = owner /\ made' = made /\ intact' = intact \ {aside[d]} /\ aside'[d] = None
      /\ \A e \in Daemons : e # d => aside'[e] = aside[e]
      /\ OwnerTypeOK'
  BY <1>0 DEF Discard, OwnerTypeOK
<1>4. OwnerOK'
  <2>1. \A f \in Files : FileOK(f) => FileOK(f)'
    BY <1>0, <1>2, <1>3, FilesStay DEF OwnerTypeOK
  <2> QED  BY <1>0, <1>3, <2>1 DEF Inv, OwnerOK, OwnerTypeOK, FileOK
<1>5. ProcOK(d)'
  BY <1>0, <1>3 DEF ProcOK, HeldOK, SeenOK, TakesOK, AimOK, ChargeOK, FileOK, Alive, Process,
         Cleared, Spawn, Ends, Blank
<1>6. ASSUME NEW e \in Daemons, e # d PROVE ProcOK(e)'
  <2>1. ASSUME NEW x \in Daemons, Alive(x), x # d, Names(x) \/ Robbed(x)
        PROVE  (Names(x) \/ Robbed(x))'
    <3>1. aside[d].of # x
      BY <1>0, <2>1 DEF ProcOK, TakesOK
    <3> QED  BY <1>3, <2>1, <3>1 DEF Names, Robbed
  <2>2. \A x \in Daemons : x # d /\ aside[x] # None => owner' # aside[x]
    BY <1>3 DEF Inv, ProcOK, HeldOK
  <2>3. made' \in [Daemons -> Nat] /\ \A x \in Daemons : made[x] <= made'[x]
    BY <1>0, <1>3 DEF OwnerTypeOK
  <2> QED  BY <1>2, <1>3, <1>6, <2>1, <2>2, <2>3, OthersKeep
<1> QED  BY <1>1, <1>3, <1>4, <1>5, <1>6 DEF Sound

\* What a publication of a file of x does to the files and to the claims of the others.
LEMMA PublishKeeps ==
  ASSUME Inv, NEW d \in Daemons, NEW x \in Daemons, Publish(x), Moves(d), Begun(x)
  PROVE  /\ OwnerTypeOK' /\ OwnerOK' /\ owner' = NextFile(x) /\ aside' = aside
         /\ aside[d] # owner' /\ \A f \in Files : FileOK(f) => FileOK(f)'
         /\ \A e \in Daemons : Robbed(e) => Robbed(e)'
         /\ \A e \in Daemons : e # d => ProcOK(e)'
<1>0. /\ owner = None /\ owner' = NextFile(x) /\ intact' = intact \cup {NextFile(x)}
      /\ made' = [made EXCEPT ![x] = @ + 1] /\ aside' = aside /\ OwnerTypeOK
  BY DEF Publish, Inv, DaemonTypeOK
<1>1. /\ made' \in [Daemons -> Nat] /\ \A y \in Daemons : made[y] <= made'[y]
      /\ NextFile(x).copy = made'[x] /\ NextFile(x).of = x /\ NextFile(x) \in Files
  BY <1>0, Fresh DEF OwnerTypeOK, NextFile
<1>2. OwnerTypeOK'
  BY <1>0, <1>1 DEF OwnerTypeOK
<1>3. OwnerOK'
  <2>1. Begun(x)'
    BY MovesKeep
  <2> QED  BY <1>0, <1>1, <2>1 DEF OwnerOK, FileOK, OwnerTypeOK
<1>4. \A f \in Files : FileOK(f) => FileOK(f)'
  BY <1>1, FilesStay
<1>5. \A e \in Daemons : Robbed(e) => Robbed(e)'
  BY <1>0 DEF Robbed
<1>6. \A p \in Daemons : owner' # aside[p]
  BY <1>0, Fresh
<1>7. ASSUME NEW e \in Daemons, e # d PROVE ProcOK(e)'
  BY <1>0, <1>1, <1>5, <1>6, <1>7, OthersKeep DEF Names
<1> QED  BY <1>0, <1>2, <1>3, <1>4, <1>5, <1>6, <1>7

\* A daemon publishes its own record, and has yet to see that it stands.
LEMMA PublishesKeeps ==
  ASSUME Inv, NEW d \in Daemons, Publishes(d) PROVE Sound'
<1>0. /\ proc \in [Daemons -> Process] /\ proc[d].pc = "publish" /\ proc[d].aim = "acquire"
      /\ ProcOK(d) /\ aside[d] = None /\ Begun(d)
  BY DEF Inv, DaemonTypeOK, Publishes, At, ProcOK, HeldOK, AimOK, Begun, Alive, LauncherAims
<1>1. CASE Publish(d) /\ Inspect(d, "confirm")
  <2>1. proc' \in [Daemons -> Process]
    BY <1>0, <1>1, InspectTyped DEF Aims
  <2>2. Moves(d)
    BY <1>0, <1>1 DEF Moves, Begun, Alive, At, Process, Inspect, LauncherAims
  <2>3. /\ OwnerTypeOK' /\ OwnerOK' /\ owner' = NextFile(d) /\ aside' = aside
        /\ \A e \in Daemons : e # d => ProcOK(e)'
    BY <1>0, <1>1, <2>2, PublishKeeps
  <2>4. Names(d)'
    BY <2>3, Fresh DEF Names
  <2>5. proc'[d].pc = "read" /\ proc'[d].aim = "confirm" /\ proc'[d].seen = None
    BY <1>0, <1>1 DEF Inspect, Process
  <2>6. ProcOK(d)'
    BY <1>0, <2>3, <2>4, <2>5 DEF ProcOK, HeldOK, SeenOK, TakesOK, AimOK, ChargeOK
  <2> QED  BY <2>1, <2>3, <2>6 DEF Sound
<1>2. CASE owner # None /\ Goto(d, "exists") /\ UNCHANGED ownerVars
  <2>1. proc' \in [Daemons -> Process]
    BY <1>0, <1>2, GotoTyped DEF Pcs
  <2>2. Moves(d)
    BY <1>0, <1>2 DEF Moves, Begun, Alive, At, Process, Goto, LauncherAims
  <2>3. ProcOK(d)'
    BY <1>0, <1>2, <2>2, MovesKeep DEF Inv, DaemonTypeOK, OwnerTypeOK, ProcOK, HeldOK, SeenOK,
           TakesOK, AimOK, ChargeOK, FileOK, Process, Files, Goto, ownerVars, Names, Robbed
  <2> QED  BY <1>2, <2>1, <2>2, <2>3, QuietKeeps DEF Quiet
<1> QED  BY <1>1, <1>2 DEF Publishes

\* What was taken by mistake goes back as a copy, or stays aside; the path is never left
\* with a file that somebody holds.
LEMMA PutsBackKeeps ==
  ASSUME Inv, NEW d \in Daemons, PutsBack(d) PROVE Sound'
<1>0. /\ proc \in [Daemons -> Process] /\ proc[d].pc = "compare" /\ OwnerTypeOK
      /\ ProcOK(d) /\ aside[d] \in Files /\ aside[d] # None /\ FileOK(aside[d])
      /\ aside[d].of \in Daemons /\ Begun(aside[d].of)
  BY DaemonAssumption
     DEF Inv, DaemonTypeOK, OwnerTypeOK, PutsBack, At, ProcOK, HeldOK, FileOK, Files
<1>1. CASE owner # None /\ Ends(d) /\ UNCHANGED ownerVars
  <2>1. proc' \in [Daemons -> Process]
    BY <1>0, <1>1, EndsTyped
  <2>2. Moves(d)
    BY <1>0, <1>1 DEF Moves, Begun, Alive, At, Process, Ends, Blank
  <2>3. FileOK(aside[d])'
    <3>1. \A f \in Files : FileOK(f) => FileOK(f)'
      BY <1>0, <1>1, <2>2, FilesStay DEF ownerVars, OwnerTypeOK
    <3> QED  BY <1>0, <1>1, <3>1 DEF ownerVars, FileOK
  <2>4. ProcOK(d)'
    BY <1>0, <1>1, <2>3 DEF ProcOK, HeldOK, SeenOK, TakesOK, AimOK, ChargeOK, Alive, Process,
           Ends, Blank, ownerVars
  <2> QED  BY <1>1, <2>1, <2>2, <2>4, QuietKeeps DEF Quiet
<1>2. CASE /\ Restore(d)
           /\ proc' = [proc EXCEPT ![d].pc = "recheck", ![d].seen = NextFile(aside[d].of)]
  <2> DEFINE x == aside[d].of
  <2>0. NextFile(x) \in Files /\ NextFile(x).of = x /\ NextFile(x) # None
    BY <1>0, Fresh
  <2>1. proc' \in [Daemons -> Process]
    <3>1. proc' = [proc EXCEPT ![d] = [proc[d] EXCEPT !.pc = "recheck", !.seen = NextFile(x)]]
      BY <1>2
    <3>2. [proc[d] EXCEPT !.pc = "recheck", !.seen = NextFile(x)] \in Process
      BY <1>0, <2>0 DEF Process
    <3> QED  BY <1>0, <3>1, <3>2
  <2>2. Moves(d)
    BY <1>0, <1>2 DEF Moves, Begun, Alive, At, Process
  <2>3. /\ OwnerTypeOK' /\ OwnerOK' /\ owner' = NextFile(x) /\ aside' = aside
        /\ aside[d] # owner' /\ \A f \in Files : FileOK(f) => FileOK(f)'
        /\ \A e \in Daemons : Robbed(e) => Robbed(e)'
        /\ \A e \in Daemons : e # d => ProcOK(e)'
    BY <1>0, <1>2, <2>2, PublishKeeps DEF Restore
  <2>4. proc'[d].pc = "recheck" /\ proc'[d].aim = proc[d].aim /\ proc'[d].seen = owner'
    BY <1>0, <1>2, <2>3 DEF Process
  <2>5. FileOK(aside[d])' /\ FileOK(owner)'
    BY <1>0, <2>0, <2>3 DEF FileOK, OwnerOK
  <2>6. HeldOK(d)'
    BY <1>0, <2>3, <2>4, <2>5 DEF HeldOK
  <2>7. SeenOK(d)'
    BY <2>0, <2>3, <2>4, <2>5 DEF SeenOK, FileOK
  <2>8. TakesOK(d)' /\ AimOK(d)'
    BY <2>4 DEF TakesOK, AimOK
  <2>9. ChargeOK(d)'
    BY <1>0, <1>2, <2>3, <2>4 DEF ProcOK, ChargeOK, Alive, Names, Restore, Publish
  <2> QED  BY <2>1, <2>3, <2>6, <2>7, <2>8, <2>9 DEF Sound, ProcOK
<1> QED  BY <1>1, <1>2 DEF PutsBack

\* The copy is what is looked for at the path, so the daemon it names is in place when
\* the original is removed.
LEMMA RechecksKeeps ==
  ASSUME Inv, NEW d \in Daemons, Rechecks(d) PROVE Sound'
<1>0. /\ proc \in [Daemons -> Process] /\ proc[d].pc = "recheck" /\ OwnerTypeOK
      /\ ProcOK(d) /\ aside[d] # None /\ aside[d] # owner /\ proc[d].seen.of = aside[d].of
      /\ aside[d] \in Files /\ FileOK(aside[d]) /\ Ends(d)
  BY DEF Inv, DaemonTypeOK, OwnerTypeOK, Rechecks, At, ProcOK, HeldOK, SeenOK
<1>1. proc' \in [Daemons -> Process]
  BY <1>0, EndsTyped
<1>2. Moves(d)
  BY <1>0 DEF Moves, Begun, Alive, At, Process, Ends, Blank
<1>3. proc'[d] = Blank("out")
  BY <1>0 DEF Ends
<1>4. CASE UNCHANGED ownerVars
  <2>1. \A f \in Files : FileOK(f) => FileOK(f)'
    BY <1>0, <1>2, <1>4, FilesStay DEF ownerVars, OwnerTypeOK
  <2>2. FileOK(aside[d])'
    BY <1>0, <1>4, <2>1 DEF ownerVars, FileOK
  <2>3. ProcOK(d)'
    BY <1>0, <1>3, <1>4, <2>2 DEF ProcOK, HeldOK, SeenOK, TakesOK, AimOK, ChargeOK, Alive,
           Blank, ownerVars
  <2> QED  BY <1>1, <1>2, <1>4, <2>3, QuietKeeps DEF Quiet
<1>5. CASE owner = proc[d].seen /\ Discard(d)
  <2>1. /\ owner' = owner /\ made' = made /\ intact' = intact \ {aside[d]} /\ aside'[d] = None
        /\ \A e \in Daemons : e # d => aside'[e] = aside[e]
        /\ OwnerTypeOK'
    BY <1>0, <1>5 DEF Discard, OwnerTypeOK
  <2>2. OwnerOK'
    <3>1. \A f \in Files : FileOK(f) => FileOK(f)'
      BY <1>0, <1>2, <2>1, FilesStay DEF OwnerTypeOK
    <3> QED  BY <1>0, <2>1, <3>1 DEF Inv, OwnerOK, OwnerTypeOK, FileOK
  <2>3. ProcOK(d)'
    BY <1>3, <2>1 DEF ProcOK, HeldOK, SeenOK, TakesOK, AimOK, ChargeOK, Alive, Blank
  <2>4. ASSUME NEW e \in Daemons, e # d PROVE ProcOK(e)'
    <3>1. owner # None
      BY <1>0, <1>5 DEF ProcOK, SeenOK
    <3>2. ASSUME NEW y \in Daemons, Names(y) \/ Robbed(y) PROVE (Names(y) \/ Robbed(y))'
      BY <1>0, <1>5, <2>1, <3>1, <3>2 DEF Names, Robbed
    <3>3. \A y \in Daemons : y # d /\ aside[y] # None => owner' # aside[y]
      BY <2>1 DEF Inv, ProcOK, HeldOK
    <3>4. made' \in [Daemons -> Nat] /\ \A y \in Daemons : made[y] <= made'[y]
      BY <1>0, <2>1 DEF OwnerTypeOK
    <3> QED  BY <1>2, <2>1, <2>4, <3>2, <3>3, <3>4, OthersKeep
  <2> QED  BY <1>1, <2>1, <2>2, <2>3, <2>4 DEF Sound
<1> QED  BY <1>0, <1>4, <1>5 DEF Rechecks

--------------------------------------------------------------------------------

\* Every step, and every step of a request, leaves all sound.
LEMMA NextSound ==
  ASSUME Inv, Next PROVE Sound'
<1>1. CASE \E r \in Requests : Ask(r) \/ Poll(r) \/ TimesOut(r)
  <2>1. UNCHANGED <<ownerVars, proc>>
    BY <1>1 DEF Ask, Poll, TimesOut, Leave
  <2> QED  BY <2>1 DEF Inv, DaemonTypeOK, OwnerTypeOK, Sound, OwnerOK, FileOK, Begun, At, Alive,
               ProcOK, HeldOK, SeenOK, TakesOK, AimOK, ChargeOK, Names, Robbed, ownerVars
<1>2. ASSUME NEW d \in Daemons,
             \/ Launch(d) \/ Step(d) \/ GivesUp(d) \/ StopSeen(d)
             \/ Stop(d) \/ Crash(d) \/ Registers(d) \/ SplitBrain(d)
      PROVE  Sound'
  <2>1. CASE Take(d) \/ RemovesIt(d) \/ PutsBack(d) \/ Rechecks(d) \/ Publishes(d)
    BY <2>1, TakeKeeps, RemovesItKeeps, PutsBackKeeps, RechecksKeeps, PublishesKeeps
  <2>2. CASE Quiet(d)
    BY <2>2, QuietKeeps
  <2>3. CASE Launch(d) \/ GivesUp(d) \/ StopSeen(d) \/ Stop(d) \/ Crash(d) \/ Registers(d)
             \/ SplitBrain(d)
    BY <2>2, <2>3, LaunchQuiet, GivesUpQuiet, StopSeenQuiet, StopQuiet, CrashQuiet,
       RegistersQuiet, SplitBrainQuiet
  <2>4. CASE Step(d)
    BY <2>1, <2>2, <2>4, ReadQuiet, ReadsNothingQuiet, JudgeStartQuiet, ConfirmQuiet,
       JudgeReleaseQuiet, ExistsQuiet, RecoversQuiet, RemovesRequestQuiet, AssertsQuiet,
       FindsNoneQuiet, ClaimRequestQuiet, CarriesOutQuiet, AnswersQuiet DEF Step
  <2> QED  BY <1>2, <2>3, <2>4
<1> QED  BY <1>1, <1>2 DEF Next

\* What is known of the files and of the processes is inductive.
LEMMA StepKeeps == Inv /\ [Next]_vars => Inv'
<1> SUFFICES ASSUME Inv, [Next]_vars PROVE Inv'
  OBVIOUS
<1>1. CASE Next
  BY <1>1, NextSound, RequestTypes DEF Inv, Sound, DaemonTypeOK
<1>2. CASE UNCHANGED vars
  BY <1>2 DEF vars, ownerVars, requestVars, limits, Inv, DaemonTypeOK, OwnerTypeOK, OwnerOK,
     FileOK, Begun, At, Alive, ProcOK, HeldOK, SeenOK, TakesOK, AimOK, ChargeOK, Names, Robbed
<1> QED  BY <1>1, <1>2

\* However many daemons are started, stopped and killed, and wherever: the owner path is
\* free or holds a record that can be judged, and a daemon in charge is the one it names
\* unless its file has just been taken (acquireAccountRuntimeOwner, removeOwnerSnapshot).
THEOREM OneDaemonInCharge == Spec => []OneOwner
<1>1. Inv => OneOwner
  BY DEF Inv, OneOwner, OwnerWhole, OwnerOK, LeaseStands, Serving, ProcOK, ChargeOK
<1> QED  BY <1>1, InitOK, StepKeeps, PTL DEF Spec

--------------------------------------------------------------------------------
(* The requests *)

\* d is at work on r, or has been since it claimed it
Has(d, r) == proc[d].job = r /\ proc[d].pc \in {"work", "answer", "tidy"}

HasOK(d, r) == Has(d, r) => claimer[r] = d /\ runs[r] = IF At(d, "work") THEN 0 ELSE 1

\* A request is asked once, claimed once, and carried out by who claimed it.
RequestOK(r) ==
  /\ client[r] = "idle" => place[r] = "none"
  /\ place[r] \in {"none", "requests"} => runs[r] = 0 /\ result[r] = "none" /\ \A d \in Daemons : ~Has(d, r)
  /\ place[r] = "processing" => claimer[r] \in Daemons
  /\ runs[r] \in {0, 1}
  /\ "done" \in {result[r], client[r]} => runs[r] = 1
  /\ \A d \in Daemons : HasOK(d, r)

\* who is at one of these steps knows its request
AtWork == {"work", "answer", "tidy", "closing"}
JobOK(d) == proc[d].pc \in AtWork => proc[d].job \in Requests

Handled == (\A r \in Requests : RequestOK(r)) /\ \A d \in Daemons : JobOK(d)

\* At the start no request is in the hands of a daemon.
LEMMA HandledInit == Init => Handled
<1> SUFFICES ASSUME Init PROVE Handled
  OBVIOUS
<1>1. \A d \in Daemons : proc[d].pc \in {"off", "out"}
  BY DEF Init, Blank
<1>3. \A d \in Daemons : JobOK(d)
  BY <1>1 DEF JobOK, AtWork
<1> SUFFICES ASSUME NEW r \in Requests PROVE RequestOK(r)
  BY <1>3 DEF Handled
<1>2. \A d \in Daemons : ~Has(d, r)
  BY <1>1 DEF Has
<1> QED  BY <1>2 DEF Init, RequestOK, HasOK

\* Nobody takes up a request, and who leaves one leaves it for good.
NoneTaken ==
  /\ \A d \in Daemons, r \in Requests : Has(d, r)' => Has(d, r) /\ proc'[d].pc = proc[d].pc
  /\ \A d \in Daemons : JobOK(d) => JobOK(d)'

Rests == UNCHANGED requestVars /\ NoneTaken

\* Such a step keeps what is known of the requests.
LEMMA RestsKeeps == ASSUME Handled, Rests PROVE Handled'
<1>4. \A d \in Daemons : JobOK(d)'
  BY DEF Handled, Rests, NoneTaken
<1> SUFFICES ASSUME NEW r \in Requests PROVE RequestOK(r)'
  BY <1>4 DEF Handled
<1>1. RequestOK(r) /\ UNCHANGED <<place, result, claimer, runs, client>>
  BY DEF Handled, Rests, requestVars
<1>2. ASSUME NEW d \in Daemons PROVE HasOK(d, r)'
  BY <1>1 DEF Rests, NoneTaken, RequestOK, HasOK, At
<1>3. \A d \in Daemons : Has(d, r)' => Has(d, r)
  BY DEF Rests, NoneTaken
<1> QED  BY <1>1, <1>2, <1>3 DEF RequestOK

\* One process moves, and is not at work afterwards or stays where it is.
LEMMA OneMoves ==
  ASSUME proc \in [Daemons -> Process], NEW d \in Daemons, NEW q, proc' = [proc EXCEPT ![d] = q],
         \/ q.pc \notin AtWork
         \/ q.pc = proc[d].pc /\ q.job = proc[d].job
  PROVE  NoneTaken
<1>1. proc'[d] = q /\ \A e \in Daemons : e # d => proc'[e] = proc[e]
  OBVIOUS
<1>2. \A e \in Daemons, r \in Requests : Has(e, r)' => Has(e, r) /\ proc'[e].pc = proc[e].pc
  BY <1>1 DEF Has, AtWork
<1>3. \A e \in Daemons : JobOK(e) => JobOK(e)'
  BY <1>1 DEF JobOK
<1> QED  BY <1>2, <1>3 DEF NoneTaken

\* Who takes up a request, and where a process leaves for.
LEMMA Gone ==
  ASSUME proc \in [Daemons -> Process], NEW d \in Daemons, NEW pc \in Pcs \ AtWork, NEW aim,
         Goto(d, pc) \/ Ends(d) \/ Inspect(d, aim) \/ Spawn(d) \/ Signalled(d)
  PROVE  NoneTaken
<1>0. proc[d] \in Process /\ Blank("out").pc = "out" /\ {"out", "read", "publish"} \cap AtWork = {}
  BY DEF Blank, AtWork
<1>1. CASE Ends(d)
  BY <1>0, <1>1, OneMoves DEF Ends
<1>2. CASE Goto(d, pc)
  <2> DEFINE q == [proc[d] EXCEPT !.pc = pc]
  <2>1. proc' = [proc EXCEPT ![d] = q] /\ q.pc = pc
    BY <1>0, <1>2 DEF Goto, Process
  <2> HIDE DEF q
  <2> QED  BY <2>1, OneMoves
<1>3. CASE Inspect(d, aim)
  <2> DEFINE q == [proc[d] EXCEPT !.pc = "read", !.aim = aim, !.seen = None]
  <2>1. proc' = [proc EXCEPT ![d] = q] /\ q.pc = "read"
    BY <1>0, <1>3 DEF Inspect, Process
  <2> HIDE DEF q
  <2> QED  BY <1>0, <2>1, OneMoves
<1>4. CASE Spawn(d)
  <2> DEFINE q == [proc[d] EXCEPT !.pc = "publish", !.aim = "acquire", !.seen = None, !.tries = 0, !.watch = TRUE]
  <2>1. proc' = [proc EXCEPT ![d] = q] /\ q.pc = "publish"
    BY <1>0, <1>4 DEF Spawn, Process
  <2> HIDE DEF q
  <2> QED  BY <1>0, <2>1, OneMoves
<1>5. CASE Signalled(d) /\ proc[d].aim = "serve"
  <2> DEFINE q == [proc[d] EXCEPT !.stop = TRUE, !.watch = FALSE]
  <2>1. proc' = [proc EXCEPT ![d] = q] /\ q.pc = proc[d].pc /\ q.job = proc[d].job
    BY <1>0, <1>5 DEF Signalled, Process
  <2> HIDE DEF q
  <2> QED  BY <2>1, OneMoves
<1> QED  BY <1>1, <1>2, <1>3, <1>4, <1>5 DEF Signalled

\* The steps by which a process does not touch the requests.
LEMMA StepRests ==
  ASSUME proc \in [Daemons -> Process], NEW d \in Daemons,
         \/ Launch(d) \/ Read(d) \/ ReadsNothing(d) \/ JudgeStart(d) \/ Confirm(d)
         \/ JudgeRelease(d) \/ Take(d) \/ RemovesIt(d) \/ PutsBack(d) \/ Rechecks(d)
         \/ Publishes(d) \/ Exists(d) \/ Asserts(d) \/ FindsNone(d) \/ GivesUp(d)
         \/ StopSeen(d) \/ Stop(d) \/ Crash(d) \/ Registers(d) \/ SplitBrain(d)
  PROVE  Rests
<1>0. UNCHANGED requestVars
  BY DEF Launch, Read, ReadsNothing, JudgeStart, Confirm, JudgeRelease, Take, RemovesIt,
         PutsBack, Rechecks, Publishes, Exists, Asserts, FindsNone, GivesUp, StopSeen,
         Stop, Crash, Registers, SplitBrain
<1>1. proc[d] \in Process
  OBVIOUS
<1>2. ASSUME NEW q, proc' = [proc EXCEPT ![d] = q],
             \/ q.pc \notin AtWork
             \/ q.pc = proc[d].pc /\ q.job = proc[d].job
      PROVE  Rests
  BY <1>0, <1>2, OneMoves DEF Rests
<1>3. ASSUME NEW pc \in Pcs \ AtWork, NEW aim,
             Goto(d, pc) \/ Ends(d) \/ Inspect(d, aim) \/ Spawn(d) \/ Signalled(d)
      PROVE  Rests
  BY <1>0, <1>3, Gone DEF Rests
<1>4. "take" \in Pcs \ AtWork /\ "exists" \in Pcs \ AtWork
      /\ "compare" \in Pcs \ AtWork
      /\ {"judge", "recover", "publish", "recheck", "assured"} \cap AtWork = {}
  BY DEF Pcs, AtWork
<1>5. CASE Launch(d) \/ ReadsNothing(d) \/ JudgeStart(d) \/ JudgeRelease(d) \/ Take(d) \/ Rechecks(d)
           \/ Publishes(d) \/ FindsNone(d) \/ GivesUp(d) \/ StopSeen(d) \/ Stop(d) \/ Crash(d) \/ SplitBrain(d)
  <2>1. \/ \E pc \in {"take", "compare", "exists"} : Goto(d, pc)
        \/ \E aim \in Aims : Inspect(d, aim)
        \/ Ends(d) \/ Spawn(d) \/ Signalled(d)
    BY <1>5 DEF Launch, ReadsNothing, JudgeStart, JudgeRelease, Take, Rechecks,
                Publishes, FindsNone, GivesUp, StopSeen, Stop, Crash, SplitBrain, Aims, LauncherAims
  <2> QED  BY <1>3, <1>4, <2>1
<1>6. CASE Read(d)
  <2> DEFINE q == [proc[d] EXCEPT !.pc = "judge", !.seen = owner]
  <2>1. q.pc = "judge"
    BY <1>1 DEF Process
  <2>2. Ends(d) \/ proc' = [proc EXCEPT ![d] = q]
    BY <1>6 DEF Read
  <2> HIDE DEF q
  <2> QED  BY <1>2, <1>3, <1>4, <2>1, <2>2
<1>7. CASE Confirm(d)
  <2> DEFINE q == [proc[d] EXCEPT !.pc = "recover", !.aim = "serve", !.seen = None, !.tries = 0,
                                  !.todo = {r \in Requests : place[r] = "processing"}]
  <2>1. q.pc = "recover"
    BY <1>1 DEF Process
  <2>2. Ends(d) \/ proc' = [proc EXCEPT ![d] = q]
    BY <1>7 DEF Confirm
  <2> HIDE DEF q
  <2> QED  BY <1>2, <1>3, <1>4, <2>1, <2>2
<1>8. CASE RemovesIt(d) \/ Exists(d)
  <2> DEFINE q == [proc[d] EXCEPT !.pc = "publish", !.tries = 1]
  <2>1. q.pc = "publish"
    BY <1>1 DEF Process
  <2>2. Ends(d) \/ Spawn(d) \/ Inspect(d, "acquire") \/ proc' = [proc EXCEPT ![d] = q]
    BY <1>8 DEF RemovesIt, Cleared, Exists
  <2> HIDE DEF q
  <2> QED  BY <1>2, <1>3, <1>4, <2>1, <2>2
<1>9. CASE PutsBack(d)
  <2> DEFINE q == [proc[d] EXCEPT !.pc = "recheck", !.seen = NextFile(aside[d].of)]
  <2>1. q.pc = "recheck"
    BY <1>1 DEF Process
  <2>2. Ends(d) \/ proc' = [proc EXCEPT ![d] = q]
    BY <1>9 DEF PutsBack
  <2> HIDE DEF q
  <2> QED  BY <1>2, <1>3, <1>4, <2>1, <2>2
<1>10. CASE Asserts(d)
  <2> DEFINE q == [proc[d] EXCEPT !.pc = "assured", !.seen = None]
  <2>1. q.pc = "assured"
    BY <1>1 DEF Process
  <2>2. Inspect(d, "release") \/ Inspect(d, "serve") \/ proc' = [proc EXCEPT ![d] = q]
    BY <1>10 DEF Asserts
  <2> HIDE DEF q
  <2> QED  BY <1>2, <1>3, <1>4, <2>1, <2>2
<1>11. CASE Registers(d)
  <2> DEFINE q == [proc[d] EXCEPT !.watch = FALSE]
  <2>1. q.pc = proc[d].pc /\ q.job = proc[d].job
    BY <1>1 DEF Process
  <2>2. proc' = [proc EXCEPT ![d] = q]
    BY <1>11 DEF Registers
  <2> HIDE DEF q
  <2> QED  BY <1>2, <2>1, <2>2
<1> QED  BY <1>5, <1>6, <1>7, <1>8, <1>9, <1>10, <1>11

\* Asking, polling and giving up by the bot.
LEMMA BotHandled ==
  ASSUME DaemonTypeOK, Handled, NEW s \in Requests, Ask(s) \/ Poll(s) \/ TimesOut(s)
  PROVE  Handled'
<1>0. \A d \in Daemons : JobOK(d)'
  BY DEF Handled, JobOK, Ask, Poll, TimesOut, Leave
<1> SUFFICES ASSUME NEW r \in Requests PROVE RequestOK(r)'
  BY <1>0 DEF Handled
<1>1. RequestOK(r) /\ RequestOK(s) /\ UNCHANGED <<proc, claimer, runs>>
  BY DEF Handled, Ask, Poll, TimesOut, Leave
<1>2. /\ \A d \in Daemons : HasOK(d, r)'
      /\ \A d \in Daemons : Has(d, r)' <=> Has(d, r)
  BY <1>1 DEF RequestOK, HasOK, Has, At
<1>3. CASE r # s
  <2>1. UNCHANGED <<place[r], result[r], client[r]>>
    BY <1>3 DEF DaemonTypeOK, Ask, Poll, TimesOut, Leave
  <2> QED  BY <1>1, <1>2, <2>1 DEF RequestOK
<1>4. CASE r = s /\ Ask(s)
  <2>1. /\ client[r] = "idle" /\ client'[r] = "waiting" /\ place'[r] = "requests" /\ result'[r] = result[r]
    BY <1>4 DEF DaemonTypeOK, Ask
  <2> QED  BY <1>1, <1>2, <2>1 DEF RequestOK
<1>5. CASE r = s /\ (Poll(s) \/ TimesOut(s))
  <2>1. PICK outcome \in {result[r], "timeout"} : Leave(r, outcome) /\ client[r] = "waiting"
    BY <1>5 DEF Poll, TimesOut
  <2>2. /\ client'[r] = outcome /\ result'[r] = "none"
        /\ place'[r] = IF place[r] = "requests" THEN "gone" ELSE place[r]
    BY <2>1 DEF DaemonTypeOK, Leave
  <2>3. outcome # "idle"
    BY DEF DaemonTypeOK
  <2> QED  BY <1>1, <1>2, <2>2, <2>3 DEF RequestOK
<1> QED  BY <1>3, <1>4, <1>5

\* recoverAbandonedClaims: the claims left behind are closed, not carried out.
LEMMA RecoversHandled ==
  ASSUME DaemonTypeOK, Handled, NEW d \in Daemons, Recovers(d)
  PROVE  Handled'
<1>0. proc \in [Daemons -> Process] /\ proc[d] \in Process /\ UNCHANGED <<claimer, runs, client>>
  BY DEF DaemonTypeOK, Recovers
<1>1. CASE proc[d].todo = {} /\ Inspect(d, "serve") /\ UNCHANGED <<place, result>>
  <2>1. "read" \in Pcs \ AtWork
    BY DEF Pcs, AtWork
  <2> QED  BY <1>0, <1>1, <2>1, Gone, RestsKeeps DEF Rests, requestVars
<1>2. ASSUME NEW s \in proc[d].todo, CloseClaim(d, s) PROVE Handled'
  <2>0. s \in Requests
    BY <1>0 DEF Process
  <2>1. /\ \A e \in Daemons, r \in Requests : Has(e, r)' => Has(e, r) /\ proc'[e].pc = proc[e].pc
        /\ \A e \in Daemons : JobOK(e)'
    <3> DEFINE q == [proc[d] EXCEPT !.todo = @ \ {s}]
               j == [proc[d] EXCEPT !.pc = "closing", !.job = s, !.todo = @ \ {s}]
    <3>1. q.pc = proc[d].pc /\ q.job = proc[d].job /\ j.pc = "closing" /\ j.job = s
      BY <1>0 DEF Process
    <3>2. proc' = [proc EXCEPT ![d] = q] \/ proc' = [proc EXCEPT ![d] = j]
      BY <1>2 DEF CloseClaim
    <3> HIDE DEF q, j
    <3>3. \A e \in Daemons : e # d => proc'[e] = proc[e]
      BY <1>0, <3>2
    <3>4. proc'[d] = q \/ proc'[d] = j
      BY <1>0, <3>2
    <3> QED  BY <2>0, <3>1, <3>3, <3>4 DEF Has, Handled, JobOK
  <2> SUFFICES ASSUME NEW r \in Requests PROVE RequestOK(r)'
    BY <2>1 DEF Handled
  <2>2. RequestOK(r)
    BY DEF Handled
  <2>3. \A e \in Daemons : HasOK(e, r)' /\ (Has(e, r)' => Has(e, r))
    BY <1>0, <2>1, <2>2 DEF RequestOK, HasOK, At
  <2>4. \/ UNCHANGED <<place[r], result[r]>>
        \/ place[r] = "processing" /\ place'[r] = "gone" /\ result'[r] = result[r]
        \/ place[r] = "processing" /\ place'[r] = "processing" /\ result'[r] = "closed"
    BY <1>2, <2>0 DEF DaemonTypeOK, CloseClaim
  <2> QED  BY <1>0, <2>2, <2>3, <2>4 DEF RequestOK
<1> QED  BY <1>1, <1>2 DEF Recovers

\* A claim, its execution by the claimer, the answer and the removal of the file.
LEMMA WorkHandled ==
  ASSUME DaemonTypeOK, Handled, NEW d \in Daemons,
         (\E s \in Requests : ClaimRequest(d, s)) \/ CarriesOut(d) \/ Answers(d) \/ RemovesRequest(d)
  PROVE  Handled'
<1>0. /\ proc \in [Daemons -> Process] /\ proc[d] \in Process
      /\ proc[d].pc \in {"work", "answer", "tidy", "closing"} => proc[d].job \in Requests
  BY DEF DaemonTypeOK, Handled, JobOK, AtWork
<1>6. \A e \in Daemons : JobOK(e)'
  <2>1. proc'[d].pc \in AtWork => proc'[d].job \in Requests
    BY <1>0 DEF ClaimRequest, CarriesOut, Answers, RemovesRequest, Goto, Process, At, AtWork
  <2>2. \A e \in Daemons : e # d => proc'[e] = proc[e]
    BY <1>0 DEF ClaimRequest, CarriesOut, Answers, RemovesRequest, Goto
  <2> QED  BY <2>1, <2>2 DEF Handled, JobOK
<1> SUFFICES ASSUME NEW r \in Requests PROVE RequestOK(r)'
  BY <1>6 DEF Handled
<1>1. RequestOK(r) /\ \A e \in Daemons : HasOK(e, r)
  BY DEF Handled, RequestOK
<1>2. ASSUME NEW s \in Requests, ClaimRequest(d, s) PROVE RequestOK(r)'
  <2> DEFINE q == [proc[d] EXCEPT !.pc = "work", !.job = s]
  <2>1. q.pc = "work" /\ q.job = s
    BY <1>0 DEF Process
  <2>2. proc' = [proc EXCEPT ![d] = q] /\ UNCHANGED <<result, runs, client>> /\ place[s] = "requests"
        /\ proc[d].pc = "assured"
    BY <1>2 DEF ClaimRequest, At
  <2> HIDE DEF q
  <2>3. proc'[d] = q /\ \A e \in Daemons : e # d => proc'[e] = proc[e]
    BY <1>0, <2>2
  <2>4. CASE r = s
    <3>1. place'[r] = "processing" /\ claimer'[r] = d
      BY <1>2, <2>4 DEF DaemonTypeOK, ClaimRequest
    <3>2. \A e \in Daemons : Has(e, r)' => e = d
      BY <1>1, <2>2, <2>3, <2>4 DEF RequestOK, Has
    <3>3. \A e \in Daemons : HasOK(e, r)'
      BY <1>1, <2>1, <2>2, <2>3, <2>4, <3>1, <3>2 DEF RequestOK, HasOK, At
    <3> QED  BY <1>1, <2>2, <2>4, <3>1, <3>3 DEF RequestOK
  <2>5. CASE r # s
    <3>1. UNCHANGED <<place[r], claimer[r]>>
      BY <1>2, <2>5 DEF DaemonTypeOK, ClaimRequest
    <3>2. ASSUME NEW e \in Daemons PROVE Has(e, r)' => Has(e, r) /\ proc'[e] = proc[e]
      BY <2>1, <2>3, <2>5 DEF Has
    <3>3. \A e \in Daemons : HasOK(e, r)'
      BY <1>1, <2>2, <3>1, <3>2 DEF HasOK, At
    <3> QED  BY <1>1, <2>2, <3>1, <3>2, <3>3 DEF RequestOK
  <2> QED  BY <2>4, <2>5
<1>3. CASE CarriesOut(d)
  <2>0. proc[d].job \in Requests /\ proc[d].pc = "work" /\ UNCHANGED <<place, result, claimer, client>>
    BY <1>0, <1>3 DEF CarriesOut, At
  <2>1. CASE place[proc[d].job] = "processing"
    <3> DEFINE q == [proc[d] EXCEPT !.pc = "answer"]
    <3>1. q.pc = "answer" /\ q.job = proc[d].job
      BY <1>0 DEF Process
    <3>2. proc' = [proc EXCEPT ![d] = q] /\ runs' = [runs EXCEPT ![proc[d].job] = @ + 1]
      BY <1>3, <2>1 DEF CarriesOut, Goto
    <3> HIDE DEF q
    <3>3. proc'[d] = q /\ \A e \in Daemons : e # d => proc'[e] = proc[e]
      BY <1>0, <3>2
    <3>4. CASE r = proc[d].job
      <4>1. Has(d, r) /\ claimer[r] = d /\ runs[r] = 0
        BY <1>1, <2>0, <3>4 DEF HasOK, Has, At
      <4>2. runs'[r] = 1
        BY <2>0, <3>2, <3>4, <4>1 DEF DaemonTypeOK
      <4>3. \A e \in Daemons : Has(e, r)' => e = d
        BY <1>1, <3>3, <4>1 DEF HasOK, Has
      <4>4. \A e \in Daemons : HasOK(e, r)'
        BY <2>0, <3>1, <3>3, <4>1, <4>2, <4>3 DEF HasOK, At
      <4> QED  BY <1>1, <2>0, <2>1, <3>4, <4>2, <4>4 DEF RequestOK
    <3>5. CASE r # proc[d].job
      <4>1. runs'[r] = runs[r]
        BY <3>2, <3>5 DEF DaemonTypeOK
      <4>2. ASSUME NEW e \in Daemons PROVE Has(e, r)' => Has(e, r) /\ proc'[e] = proc[e]
        BY <3>1, <3>3, <3>5 DEF Has
      <4>3. \A e \in Daemons : HasOK(e, r)'
        BY <1>1, <2>0, <4>1, <4>2 DEF HasOK, At
      <4> QED  BY <1>1, <2>0, <4>1, <4>2, <4>3 DEF RequestOK
    <3> QED  BY <3>4, <3>5
  <2>2. CASE place[proc[d].job] # "processing"
    <3> DEFINE q == [proc[d] EXCEPT !.pc = "read", !.job = None, !.seen = None]
    <3>1. q.pc = "read"
      BY <1>0 DEF Process
    <3>2. proc' = [proc EXCEPT ![d] = q] /\ UNCHANGED runs
      BY <1>3, <2>2 DEF CarriesOut
    <3> HIDE DEF q
    <3>3. q.pc \notin AtWork
      BY <3>1 DEF AtWork
    <3> QED  BY <1>0, <2>0, <3>2, <3>3, OneMoves, RestsKeeps DEF Rests, requestVars, Handled
  <2> QED  BY <2>1, <2>2
<1>4. CASE Answers(d)
  <2> DEFINE q == [proc[d] EXCEPT !.pc = "tidy"]
  <2>0. proc[d].job \in Requests /\ proc[d].pc = "answer" /\ UNCHANGED <<place, claimer, runs, client>>
    BY <1>0, <1>4 DEF Answers, At
  <2>1. q.pc = "tidy" /\ q.job = proc[d].job
    BY <1>0 DEF Process
  <2>2. proc' = [proc EXCEPT ![d] = q] /\ result' = [result EXCEPT ![proc[d].job] = "done"]
    BY <1>4 DEF Answers, Goto
  <2> HIDE DEF q
  <2>3. proc'[d] = q /\ \A e \in Daemons : e # d => proc'[e] = proc[e]
    BY <1>0, <2>2
  <2>4. ASSUME NEW e \in Daemons PROVE HasOK(e, r)' /\ (Has(e, r)' => Has(e, r))
    BY <1>1, <2>0, <2>1, <2>3 DEF HasOK, Has, At
  <2>5. CASE r = proc[d].job
    <3>1. Has(d, r) /\ runs[r] = 1
      BY <1>1, <2>0, <2>5 DEF HasOK, Has, At
    <3> QED  BY <1>1, <2>0, <2>4, <3>1 DEF RequestOK
  <2>6. CASE r # proc[d].job
    <3>1. result'[r] = result[r]
      BY <2>2, <2>6 DEF DaemonTypeOK
    <3> QED  BY <1>1, <2>0, <2>4, <3>1 DEF RequestOK
  <2> QED  BY <2>5, <2>6
<1>5. CASE RemovesRequest(d)
  <2> DEFINE q == [proc[d] EXCEPT !.pc = IF At(d, "closing") THEN "recover" ELSE "read",
                                  !.job = None, !.seen = None]
  <2>0. proc[d].job \in Requests /\ UNCHANGED <<result, claimer, runs, client>>
    BY <1>0, <1>5 DEF RemovesRequest
  <2>1. q.pc \in {"recover", "read"}
    BY <1>0 DEF Process
  <2>2. proc' = [proc EXCEPT ![d] = q]
    BY <1>5 DEF RemovesRequest
  <2> HIDE DEF q
  <2>3. \A e \in Daemons : Has(e, r)' => Has(e, r) /\ proc'[e].pc = proc[e].pc
    BY <1>0, <2>1, <2>2, OneMoves DEF NoneTaken, AtWork
  <2>4. \A e \in Daemons : HasOK(e, r)'
    BY <1>1, <2>0, <2>3 DEF HasOK, At
  <2>5. place'[r] = place[r] \/ (place[r] = "processing" /\ place'[r] = "gone")
    BY <1>5, <2>0 DEF DaemonTypeOK, RemovesRequest
  <2> QED  BY <1>1, <2>0, <2>3, <2>4, <2>5 DEF RequestOK
<1> QED  BY <1>2, <1>3, <1>4, <1>5

\* Every step keeps what is known of the requests.
LEMMA HandledKeeps == Inv /\ Handled /\ [Next]_vars => Handled'
<1> SUFFICES ASSUME Inv, Handled, [Next]_vars PROVE Handled'
  OBVIOUS
<1>0. DaemonTypeOK /\ proc \in [Daemons -> Process]
  BY DEF Inv, DaemonTypeOK
<1>1. CASE UNCHANGED vars
  <2>1. Rests
    BY <1>1 DEF Rests, NoneTaken, Has, JobOK, vars
  <2> QED  BY <2>1, RestsKeeps
<1>2. CASE \E s \in Requests : Ask(s) \/ Poll(s) \/ TimesOut(s)
  BY <1>0, <1>2, BotHandled
<1>3. ASSUME NEW d \in Daemons,
             \/ Launch(d) \/ Step(d) \/ GivesUp(d) \/ StopSeen(d)
             \/ Stop(d) \/ Crash(d) \/ Registers(d) \/ SplitBrain(d)
      PROVE  Handled'
  <2>1. CASE Recovers(d)
    BY <1>0, <2>1, RecoversHandled
  <2>2. CASE (\E s \in Requests : ClaimRequest(d, s)) \/ CarriesOut(d) \/ Answers(d) \/ RemovesRequest(d)
    BY <1>0, <2>2, WorkHandled
  <2>3. CASE \/ Launch(d) \/ Read(d) \/ ReadsNothing(d) \/ JudgeStart(d) \/ Confirm(d)
             \/ JudgeRelease(d) \/ Take(d) \/ RemovesIt(d) \/ PutsBack(d) \/ Rechecks(d)
             \/ Publishes(d) \/ Exists(d) \/ Asserts(d) \/ FindsNone(d) \/ GivesUp(d)
             \/ StopSeen(d) \/ Stop(d) \/ Crash(d) \/ Registers(d) \/ SplitBrain(d)
    BY <1>0, <2>3, StepRests, RestsKeeps
  <2> QED  BY <1>3, <2>1, <2>2, <2>3 DEF Step
<1> QED  BY <1>1, <1>2, <1>3 DEF Next

\* Only a daemon that takes charge closes a claim, of one that has been replaced or is
\* being robbed.
LEMMA ClosesForCause ==
  ASSUME Inv, Handled, Next, NEW r \in Requests, result[r] = "none", result'[r] = "closed"
  PROVE  ~Working(claimer[r], r) \/ Dispute
<1>0. DaemonTypeOK /\ result \in [Requests -> {"none", "done", "closed"}]
  BY DEF Inv, DaemonTypeOK
<1>1. PICK d \in Daemons : Recovers(d)
  <2>1. ASSUME NEW s \in Requests, Ask(s) \/ Poll(s) \/ TimesOut(s) PROVE FALSE
    BY <1>0, <2>1 DEF Ask, Poll, TimesOut, Leave
  <2>2. PICK d \in Daemons :
             \/ Launch(d) \/ Step(d) \/ GivesUp(d) \/ StopSeen(d)
             \/ Stop(d) \/ Crash(d) \/ Registers(d) \/ SplitBrain(d)
    BY <2>1 DEF Next
  <2>3. ASSUME \/ (\E s \in Requests : ClaimRequest(d, s)) \/ CarriesOut(d) \/ Answers(d)
               \/ RemovesRequest(d)
        PROVE  FALSE
    BY <1>0, <2>3 DEF ClaimRequest, CarriesOut, Answers, RemovesRequest
  <2>4. ASSUME
            \/ Launch(d) \/ Read(d) \/ ReadsNothing(d) \/ JudgeStart(d) \/ Confirm(d)
            \/ JudgeRelease(d) \/ Take(d) \/ RemovesIt(d) \/ PutsBack(d) \/ Rechecks(d)
            \/ Publishes(d) \/ Exists(d) \/ Asserts(d) \/ FindsNone(d) \/ GivesUp(d)
            \/ StopSeen(d) \/ Stop(d) \/ Crash(d) \/ Registers(d) \/ SplitBrain(d)
        PROVE  FALSE
    BY <1>0, <2>4, StepRests DEF DaemonTypeOK, Rests, requestVars
  <2> QED  BY <2>2, <2>3, <2>4 DEF Step
<1>2. At(d, "recover") /\ place[r] = "processing"
  <2>1. PICK s \in proc[d].todo : CloseClaim(d, s)
    BY <1>1 DEF Recovers
  <2>2. s \in Requests
    BY <1>0 DEF DaemonTypeOK, Process
  <2> QED  BY <1>0, <1>1, <2>1, <2>2 DEF DaemonTypeOK, Recovers, CloseClaim
<1>3. claimer[r] \in Daemons
  BY <1>2 DEF Handled, RequestOK
<1>4. SUFFICES ASSUME Working(claimer[r], r) PROVE Dispute
  OBVIOUS
<1>5. claimer[r] # d /\ \A p \in {d, claimer[r]} : Alive(p) /\ proc[p].aim = "serve"
  BY <1>2, <1>3, <1>4 DEF Working, Inv, ProcOK, AimOK, Alive, At, LauncherAims
<1>6. \A p \in {d, claimer[r]} : Names(p) \/ Robbed(p)
  BY <1>3, <1>5 DEF Inv, ProcOK, ChargeOK
<1> QED  BY <1>3, <1>5, <1>6 DEF Names, Dispute

\* Whatever daemon is started, stopped or killed at whatever point: no request is carried
\* out twice, none is reported done that was not, and the claim of a daemon still at work
\* is not closed under it while every owner file is left in place (processRequest,
\* recoverAbandonedClaims).
THEOREM RequestsAreHandledOnce == Spec => RequestsHandledOnce
<1>1. Init => Inv /\ Handled
  BY InitOK, HandledInit
<1>2. Inv /\ Handled /\ [Next]_vars => (Inv /\ Handled)'
  BY StepKeeps, HandledKeeps
<1>3. ASSUME Inv, Handled, (Inv /\ Handled)', [Next]_vars
      PROVE  [CarriedOutOnce' /\ ClosedForCause]_vars
  <2>1. CarriedOutOnce'
    BY <1>3 DEF CarriedOutOnce, Handled, RequestOK
  <2>2. CASE Next
    BY <1>3, <2>1, <2>2, ClosesForCause DEF ClosedForCause
  <2> QED  BY <1>3, <2>2
<1> QED  BY <1>1, <1>2, <1>3, PTL DEF Spec, RequestsHandledOnce

================================================================================
