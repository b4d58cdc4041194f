----------------------------- MODULE WorkingMemory -----------------------------
(* WORKING_MEMORY.md of one agent (services/memory/workingMemoryDocument.ts).  *)
(* add_workmemory appends a note, a Dream replaces the document by its         *)
(* compression; both read the file, compare its revision and rename a          *)
(* temporary file over it, and every file operation is an await between two    *)
(* steps. The revision of a document is its content. An item is the set of     *)
(* notes its text stands for.                                                  *)
EXTENDS Naturals, FiniteSets

CONSTANTS
  Notes,    \* the notes conversations append, each by a writer of its own
  Dreams,   \* the Dream tasks that replace the document
  None      \* no document

ASSUME WritersAssumption == Notes \cap Dreams = {}

VARIABLES
  doc,      \* the file: a set of items
  swap,     \* the replacement every writer is making
  raced     \* history: the writers that renamed in the window of another one

memoryVars == <<doc, swap, raced>>

Writers == Notes \cup Dreams
Items == [kind : {"note", "dream"}, covers : SUBSET Notes]
NoteItem(n) == [kind |-> "note", covers |-> {n}]
Covered(d) == UNION {i.covers : i \in d}

Idle == [at |-> "idle", expected |-> None, content |-> None, seen |-> None, tries |-> 0]

(* The swap of w turns expected into content; seen is what it read back.       *)
StartSwap(w, expected, content, tries) ==
  swap' = [swap EXCEPT ![w] = [at |-> "open", expected |-> expected, content |-> content,
                               seen |-> None, tries |-> tries]]

At(w, place) == swap[w].at = place
Goto(w, place) == swap' = [swap EXCEPT ![w].at = place]

MemoryTypeOK ==
  /\ doc \subseteq Items
  /\ DOMAIN swap = Writers
  /\ \A w \in Writers :
       /\ swap[w].at \in {"idle", "open", "check", "rename", "renamed", "updated", "unchanged",
                          "conflict", "done", "failed"}
       /\ {swap[w].expected, swap[w].content, swap[w].seen} \subseteq (SUBSET Items) \cup {None}
       /\ swap[w].tries \in 0 .. 2
  /\ raced \subseteq Writers

MemoryInit == doc = {} /\ swap = [w \in Writers |-> Idle] /\ raced = {}

(* readWorkingMemoryDocument and the comparison after it. *)
Open(w) ==
  /\ At(w, "open")
  /\ Goto(w, IF doc # swap[w].expected THEN "conflict"
             ELSE IF doc = swap[w].content THEN "unchanged" ELSE "check")
  /\ UNCHANGED <<doc, raced>>

(* The temporary file is written, the revision read again. *)
Check(w) ==
  /\ At(w, "check")
  /\ Goto(w, IF doc # swap[w].expected THEN "conflict" ELSE "rename")
  /\ UNCHANGED <<doc, raced>>

Rename(w) ==
  /\ At(w, "rename")
  /\ doc' = swap[w].content
  /\ raced' = IF doc # swap[w].expected \/ \E v \in Writers \ {w} : swap[v].at \in {"rename", "renamed"}
                THEN raced \cup {w} ELSE raced
  /\ Goto(w, "renamed")

Reread(w) ==
  /\ At(w, "renamed")
  /\ swap' = [swap EXCEPT ![w].at = "updated", ![w].seen = doc]
  /\ UNCHANGED <<doc, raced>>

(* One try of an append: it reads the document and asks for itself appended,   *)
(* unless its decision is there already. A conflict is tried once more.        *)
AppendRead(n) ==
  /\ swap[n].at \in {"idle", "conflict"}
  /\ IF swap[n].at = "conflict" /\ swap[n].tries = 2 THEN Goto(n, "failed")
     ELSE IF NoteItem(n) \in doc THEN Goto(n, "done")
     ELSE StartSwap(n, doc, doc \cup {NoteItem(n)}, swap[n].tries + 1)
  /\ UNCHANGED <<doc, raced>>

AppendEnds(n) ==
  /\ swap[n].at \in {"updated", "unchanged"}
  /\ swap' = [swap EXCEPT ![n] = [Idle EXCEPT !.at = "done"]]
  /\ UNCHANGED <<doc, raced>>

Append(n) ==
  \/ AppendRead(n) \/ Open(n) \/ Check(n) \/ Rename(n) \/ Reread(n) \/ AppendEnds(n)

-------------------------------------------------------------------------------
(* An acknowledged note is lost only if another writer had its revision        *)
(* checked and its file not yet read back when the note was renamed into place *)
(* (workingMemoryDocument.ts:137-146): neither a Dream whose input is older,   *)
(* nor a rollback, nor a second append may drop a note otherwise.              *)
LossNeedsRace == \A n \in Notes : At(n, "done") /\ n \notin Covered(doc) => n \in raced

(* specs/04:79 and 04:29: a replacement never overwrites what was added after  *)
(* the revision it is bound to; a conflict keeps the old document.             *)
NotesKept == \A n \in Notes : At(n, "done") => n \in Covered(doc)

================================================================================
