------------------------------ MODULE RuntimeOwner ------------------------------
(***************************************************************************)
(* owner.json of the account runtime daemon (tooling/runtime/              *)
(* account-runtime-daemon.mjs): the lock file by which one daemon per      *)
(* workspace is in charge.  A record is published by a hard link from an   *)
(* evidence file that carries the name of the record, and taken away by a  *)
(* rename to a name of the taker's own.                                    *)
(*                                                                         *)
(* A file is an inode: `of' is the daemon whose record it holds, `copy'    *)
(* tells the inodes of one record apart.  A file is intact while its       *)
(* evidence stands and it has two links; who holds a file aside is the     *)
(* only one to touch its links.                                            *)
(***************************************************************************)
EXTENDS Naturals

CONSTANTS
  Daemons,  \* starts of the daemon, each with a pid and an owner token of its own
  None      \* no file

VARIABLES
  owner,    \* the file at the owner path
  intact,   \* the files whose evidence stands
  aside,    \* process -> the file it renamed away from the owner path
  made      \* daemon -> files written with its record

ownerVars == <<owner, intact, aside, made>>

Files == [of : Daemons, copy : Nat \ {0}]

OwnerTypeOK ==
  /\ owner \in Files \cup {None}
  /\ intact \subseteq Files
  /\ aside \in [Daemons -> Files \cup {None}]
  /\ made \in [Daemons -> Nat]

\* a daemon that was killed in charge left its file behind
OwnerLeft(d) ==
  /\ owner = IF d = None THEN None ELSE [of |-> d, copy |-> 1]
  /\ intact = {owner} \ {None}
  /\ aside = [p \in Daemons |-> None]
  /\ made = [p \in Daemons |-> IF p = d THEN 1 ELSE 0]

NextFile(d) == [of |-> d, copy |-> made[d] + 1]

\* the evidence is written whole, then linked to the owner path, which fails if it is taken
Publish(d) ==
  /\ owner = None
  /\ owner' = NextFile(d)
  /\ intact' = intact \cup {NextFile(d)}
  /\ made' = [made EXCEPT ![d] = @ + 1]
  /\ UNCHANGED aside

\* claimOwnerPath, up to the rename
TakeAside(p) ==
  /\ owner # None
  /\ aside' = [aside EXCEPT ![p] = owner]
  /\ owner' = None
  /\ UNCHANGED <<intact, made>>

\* mutant: any sound record is what was inspected
IsSound(p, seen) == aside[p] \in intact

\* what was taken is what was inspected: inode, size and content
IsExpected(p, seen) == aside[p] = seen /\ aside[p] \in intact

\* both links of a file held aside are removed
Discard(p) ==
  /\ intact' = intact \ {aside[p]}
  /\ aside' = [aside EXCEPT ![p] = None]
  /\ UNCHANGED <<owner, made>>

\* republishClaimedOwnerWithoutOverwrite: a copy with evidence of its own
Restore(p) == Publish(aside[p].of)

Names(d) == owner # None /\ owner.of = d

\* somebody has taken the file of d from the owner path
Robbed(d) == \E p \in Daemons : aside[p] # None /\ aside[p].of = d

================================================================================
