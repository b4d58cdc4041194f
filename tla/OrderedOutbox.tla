----------------------------- MODULE OrderedOutbox -----------------------------
(***************************************************************************)
(* What the durable outbox promises the turns that append to it, with      *)
(* nothing of leases, workers, pauses or recovery:                         *)
(*   - a message is handed to its transport at most once: out of           *)
(*     "waiting" there is no way back;                                     *)
(*   - a session's message goes out only when every earlier one of the     *)
(*     session is closed for good, a delivery partition's only when no     *)
(*     earlier one of the partition still waits;                           *)
(*   - a message whose last effect is in doubt holds its session until     *)
(*     somebody settles the doubt.                                         *)
(***************************************************************************)
EXTENDS Integers

CONSTANTS Sessions, Partitions, MaxRows

VARIABLES log, length

Fates == {"absent", "waiting", "out", "doubtful", "closed"}

Ids == 1..MaxRows

OrderedInit ==
  /\ length = 0
  /\ log \in [Ids -> [session : Sessions, partition : Partitions, fate : {"absent"}]]

\* some message takes the next place of the log
Append ==
  /\ length < MaxRows
  /\ length' = length + 1
  /\ \E s \in Sessions, p \in Partitions :
       log' = [log EXCEPT ![length + 1] =
                 [session |-> s, partition |-> p, fate |-> "waiting"]]

MayGoOut(i) ==
  \A e \in 1..(i - 1) :
    /\ log[e].session = log[i].session => log[e].fate = "closed"
    /\ log[e].partition = log[i].partition => log[e].fate # "waiting"

GoOut(i) ==
  /\ log[i].fate = "waiting" /\ MayGoOut(i)
  /\ log' = [log EXCEPT ![i].fate = "out"]
  /\ UNCHANGED length

\* messages are given up, finish, or end in doubt, several at once on recovery
Conclude ==
  /\ UNCHANGED length
  /\ \E fate \in [Ids -> Fates] :
       /\ log' = [i \in Ids |-> [log[i] EXCEPT !.fate = fate[i]]]
       /\ \A i \in Ids :
            \/ fate[i] = log[i].fate
            \/ log[i].fate \in {"waiting", "out"} /\ fate[i] = "closed"
            \/ log[i].fate = "out" /\ fate[i] = "doubtful"

\* somebody says whether a doubtful effect was applied
SettleDoubt(i) ==
  /\ log[i].fate = "doubtful"
  /\ log' = [log EXCEPT ![i].fate = "out"]
  /\ UNCHANGED length

OrderedNext == Append \/ Conclude \/ \E i \in Ids : GoOut(i) \/ SettleDoubt(i)

OrderedSpec == OrderedInit /\ [][OrderedNext]_<<log, length>>

================================================================================
