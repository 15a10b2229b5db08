----------------------------- MODULE Migrations -----------------------------
(***************************************************************************)
(* The migration runner (database/migrations.js), run by several           *)
(* deployments at once, each with its own directory of files.              *)
(*                                                                         *)
(* A runner takes the session lock 724002 (or gives up after 30 seconds),  *)
(* reads the history once, checks all of it against its files, and applies *)
(* what is missing in the order of the names, each file and its history    *)
(* row in one transaction.  The lock is of the session: it outlives the    *)
(* commits and falls with the connection, which is never reused.           *)
(*                                                                         *)
(* A file is a number, its place in the order of the names, and a content  *)
(* (the checksum).  Ghost: "schema" is what was executed and committed.    *)
(***************************************************************************)
EXTENDS Integers, Sequences, FiniteSets

CONSTANTS
  Runners,
  Files,     \* names, as numbers
  Contents,  \* contents a file may have
  None

FileAssumption == Files \subseteq Nat
NoneAssumption == None \notin Contents \union Files \union Runners

VARIABLES
  directory,  \* each runner's files
  history,    \* schema_migrations, in the order it was written
  schema,     \* the contents executed, in their order
  lock,       \* the holder of the advisory lock
  run

vars == <<directory, history, schema, lock, run>>

Entries == [name : Files, checksum : Contents]
Idle == [step |-> "new", read |-> {}, at |-> None]
In(s) == {s[i] : i \in DOMAIN s}

TypeOK ==
  /\ directory \in [Runners -> [Files -> Contents \union {None}]]
  /\ In(history) \subseteq Entries
  /\ lock \in Runners \union {None}
  /\ \A r \in Runners :
       /\ run[r].step \in {"new", "locked", "checked", "applying", "ended", "refused", "failed"}
       /\ run[r].read \subseteq In(history)
       /\ run[r].step \in {"locked", "checked", "applying"} <=> lock = r

(* The deployments know the files of the release they belong to; a file    *)
(* may have been edited, or forgotten.                                     *)
Init ==
  /\ directory \in [Runners -> [Files -> Contents \union {None}]]
  /\ history = <<>> /\ schema = <<>>
  /\ lock = None
  /\ run = [r \in Runners |-> Idle]

Named(r) == {f \in Files : directory[r][f] # None}

(* Mutant: no lock. *)
AnyTime(r) == TRUE

Unlocked(r) == lock = None

Lock(r) ==
  /\ run[r].step = "new"
  /\ Unlocked(r)
  /\ lock' = r
  /\ run' = [run EXCEPT ![r].step = "locked"]
  /\ UNCHANGED <<directory, history, schema>>

(* lock_timeout                                                            *)
GiveUp(r) ==
  /\ run[r].step = "new" /\ lock # None
  /\ run' = [run EXCEPT ![r].step = "refused"]
  /\ UNCHANGED <<directory, history, schema, lock>>

Matches(r, row) == directory[r][row.name] = row.checksum
Unaltered(r) == \A row \in In(history) : Matches(r, row)

End(r, step) ==
  /\ run' = [run EXCEPT ![r].step = step]
  /\ lock' = None
  /\ UNCHANGED <<directory, history, schema>>

Check(r) ==
  /\ run[r].step = "locked"
  /\ Unaltered(r)
  /\ run' = [run EXCEPT ![r].step = "checked", ![r].read = In(history)]
  /\ UNCHANGED <<directory, history, schema, lock>>

RefuseAltered(r) == run[r].step = "locked" /\ ~Unaltered(r) /\ End(r, "refused")

(* The loop over the files, in order: those after the last one applied.    *)
Missing(r) == {f \in Named(r) : /\ \A row \in run[r].read : row.name # f
                                /\ run[r].at # None => f > run[r].at}
Following(r) == CHOOSE f \in Missing(r) : \A g \in Missing(r) : f <= g

InOrder(r, f) == \A row \in run[r].read : row.name < f

BeginFile(r) ==
  /\ run[r].step = "checked"
  /\ Missing(r) # {}
  /\ InOrder(r, Following(r))
  /\ run' = [run EXCEPT ![r].step = "applying", ![r].at = Following(r)]
  /\ UNCHANGED <<directory, history, schema, lock>>

RefuseOrder(r) == /\ run[r].step = "checked"
                  /\ Missing(r) # {} /\ ~InOrder(r, Following(r))
                  /\ End(r, "refused")

Execute(r) ==
  LET row == [name |-> run[r].at, checksum |-> directory[r][run[r].at]] IN
  /\ schema' = Append(schema, row)
  /\ history' = Append(history, row)

CommitFile(r) ==
  /\ run[r].step = "applying"
  /\ Execute(r)
  /\ run' = [run EXCEPT ![r].step = "checked"]
  /\ UNCHANGED <<directory, lock>>

Finish(r) == run[r].step = "checked" /\ Missing(r) = {} /\ End(r, "ended")

(* An error of the SQL, or of the process and its connection.              *)
Fail(r) == run[r].step \in {"locked", "checked", "applying"} /\ End(r, "failed")

(* The command is run again, also after the directory was put right.       *)
Again(r) ==
  /\ run[r].step \in {"refused", "failed"}
  /\ run' = [run EXCEPT ![r] = Idle]
  /\ \E d \in [Files -> Contents \union {None}] : directory' = [directory EXCEPT ![r] = d]
  /\ UNCHANGED <<history, schema, lock>>

Next == \E r \in Runners :
  \/ Lock(r) \/ GiveUp(r) \/ Check(r) \/ RefuseAltered(r)
  \/ BeginFile(r) \/ RefuseOrder(r) \/ CommitFile(r) \/ Finish(r)
  \/ Fail(r) \/ Again(r)

Spec == Init /\ [][Next]_vars

-----------------------------------------------------------------------------
(* Properties.                                                             *)

(* What was executed is what the history says, after any crash: a file is  *)
(* never executed without its row, nor twice.                              *)
ExecutedOnce ==
  /\ schema = history
  /\ \A i, j \in DOMAIN schema : schema[i].name = schema[j].name => i = j

(* Whatever the directories of the deployments, the schema was changed in  *)
(* the order of the names.                                                 *)
OrderOfNames == \A i, j \in DOMAIN schema : i < j => schema[i].name < schema[j].name

(* A runner with a file altered or missing changes nothing at all.         *)
NothingOnMismatch == \A r \in Runners :
  schema' # schema /\ lock = r => \A row \in In(history) : directory[r][row.name] = row.checksum
=============================================================================
