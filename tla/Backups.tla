------------------------------ MODULE Backups ------------------------------
(***************************************************************************)
(* The backups: database/backup/backup.sh, run by loop.sh and by hand.     *)
(*                                                                         *)
(* A run holds a lock, dumps into a partial directory, restores the dump   *)
(* into a scratch database, publishes the set by renaming it, copies it to *)
(* the external disk where one is configured, verifies the copy and        *)
(* publishes it likewise; then latest.json, then status.json, and last the *)
(* old sets are removed.  An error or a signal runs "cleanup"; a kill or a *)
(* power cut does not, and only the lock is let go.                        *)
(*                                                                         *)
(* A set is the number of its run.  Sets grow old, and a disk may damage   *)
(* a set.                                                                  *)
(***************************************************************************)
EXTENDS Integers, FiniteSets

CONSTANTS
  Shells,    \* processes that may run the script: the loop and an operator
  MaxRuns,   \* bound on the runs
  Offsite,   \* BACKUP_OFFSITE_ENABLED
  None

BoundAssumption == MaxRuns \in Nat
OffsiteAssumption == Offsite \in BOOLEAN

VARIABLES
  disk,     \* the local sets: "none", "partial", "set"
  remote,   \* the external sets
  damaged,  \* sets a disk has damaged: <<"local", i>> or <<"remote", i>>
  old,      \* sets older than the retention
  scratch,  \* scratch databases left
  latest,   \* latest.json: run and offsite_verified
  status,   \* status.json
  lock,     \* flock
  run       \* the run that holds the lock

vars == <<disk, remote, damaged, old, scratch, latest, status, lock, run>>

Runs == 1 .. MaxRuns
Phases == {"dump", "publish", "copy", "verify", "latest", "status", "prune"}
Places == {"local", "remote"}
Names == [run : Runs, offsite : BOOLEAN]  \* what latest.json says
Attempts == [id : Runs, phase : Phases]
NoneAssumption == None \notin Shells \union Names \union Attempts

TypeOK ==
  /\ disk \in [Runs -> {"none", "partial", "set"}]
  /\ remote \in [Runs -> {"none", "partial", "set"}]
  /\ damaged \subseteq Places \X Runs
  /\ old \subseteq Runs /\ scratch \subseteq Runs
  /\ latest \in Names \union {None}
  /\ status \in {None, "ok", "failed"}
  /\ lock \in Shells \union {None}
  /\ run \in Attempts \union {None}
  /\ lock = None <=> run = None
  \* only the run under way has half a copy of its own that it may publish
  /\ \A i \in Runs : remote[i] = "set" => disk[i] # "partial"

Init ==
  /\ disk = [i \in Runs |-> "none"] /\ remote = [i \in Runs |-> "none"]
  /\ damaged = {} /\ old = {} /\ scratch = {}
  /\ latest = None /\ status = None
  /\ lock = None /\ run = None

Unused == {i \in Runs : disk[i] = "none" /\ remote[i] = "none" /\ i \notin old}
In(phase) == run # None /\ run.phase = phase
To(phase) == run' = [run EXCEPT !.phase = phase]

-----------------------------------------------------------------------------
(* The run, phase by phase.                                                *)

(* mkdir and pg_dump; the second of two runs leaves at the flock.          *)
Begin(s) ==
  /\ lock = None
  /\ Unused # {}
  /\ LET i == CHOOSE x \in Unused : \A y \in Unused : x <= y IN
       /\ run' = [id |-> i, phase |-> "dump"]
       /\ disk' = [disk EXCEPT ![i] = "partial"]
       /\ scratch' = scratch \union {i}
  /\ lock' = s
  /\ UNCHANGED <<remote, damaged, old, latest, status>>

(* The dump was restored, counted and its checksums written.               *)
Verify ==
  /\ In("dump")
  /\ To("publish")
  /\ UNCHANGED <<disk, remote, damaged, old, scratch, latest, status, lock>>

Publish ==
  /\ In("publish")
  /\ disk' = [disk EXCEPT ![run.id] = "set"]
  /\ To(IF Offsite THEN "copy" ELSE "latest")
  /\ UNCHANGED <<remote, damaged, old, scratch, latest, status, lock>>

Copy ==
  /\ In("copy")
  /\ remote' = [remote EXCEPT ![run.id] = "partial"]
  /\ damaged' = damaged \union
       (IF <<"local", run.id>> \in damaged THEN {<<"remote", run.id>>} ELSE {})
  /\ To("verify")
  /\ UNCHANGED <<disk, old, scratch, latest, status, lock>>

CopyIntact(i) == <<"remote", i>> \notin damaged

PublishCopy ==
  /\ In("verify")
  /\ CopyIntact(run.id)
  /\ remote' = [remote EXCEPT ![run.id] = "set"]
  /\ To("latest")
  /\ UNCHANGED <<disk, damaged, old, scratch, latest, status, lock>>

WriteLatest ==
  /\ In("latest")
  /\ latest' = [run |-> run.id, offsite |-> Offsite]
  /\ To("status")
  /\ UNCHANGED <<disk, remote, damaged, old, scratch, status, lock>>

WriteStatus ==
  /\ In("status")
  /\ status' = "ok"
  /\ To("prune")
  /\ UNCHANGED <<disk, remote, damaged, old, scratch, latest, lock>>

Candidates(place) ==
  {i \in old \ {run.id} : /\ (IF place = "local" THEN disk ELSE remote)[i] = "set"
                          /\ <<place, i>> \notin damaged}

(* Mutant: old sets are removed before the new one is finished. *)
AnyPhase == run # None

MayPrune == In("prune")

PruneLocal ==
  /\ MayPrune
  /\ \E i \in Candidates("local") : disk' = [disk EXCEPT ![i] = "none"]
  /\ UNCHANGED <<remote, damaged, old, scratch, latest, status, lock, run>>

PruneRemote ==
  /\ MayPrune /\ Offsite
  /\ \E i \in Candidates("remote") : remote' = [remote EXCEPT ![i] = "none"]
  /\ UNCHANGED <<disk, damaged, old, scratch, latest, status, lock, run>>

Unlocked == lock' = None

(* cleanup, on every exit of the shell.                                    *)
Cleanup(newStatus) ==
  /\ scratch' = scratch \ {run.id}
  /\ disk' = [disk EXCEPT ![run.id] = IF @ = "partial" THEN "none" ELSE @]
  /\ remote' = [remote EXCEPT ![run.id] = IF @ = "partial" THEN "none" ELSE @]
  /\ status' = newStatus
  /\ Unlocked /\ run' = None

End ==
  /\ In("prune")
  /\ Cleanup(status)
  /\ UNCHANGED <<damaged, old, latest>>

(* A command fails, or SIGINT and SIGTERM.                                 *)
Fail ==
  /\ run # None
  /\ Cleanup(IF In("prune") THEN status ELSE "failed")
  /\ UNCHANGED <<damaged, old, latest>>

(* SIGKILL, or the power fails.                                            *)
Kill ==
  /\ run # None
  /\ lock' = None /\ run' = None
  /\ UNCHANGED <<disk, remote, damaged, old, scratch, latest, status>>

-----------------------------------------------------------------------------
(* Time and the disks.                                                     *)

GrowOld(i) ==
  /\ i \notin old
  /\ disk[i] = "set" \/ remote[i] = "set"
  /\ old' = old \union {i}
  /\ UNCHANGED <<disk, remote, damaged, scratch, latest, status, lock, run>>

Damage(place, i) ==
  /\ (IF place = "local" THEN disk ELSE remote)[i] # "none"
  /\ damaged' = damaged \union {<<place, i>>}
  /\ UNCHANGED <<disk, remote, old, scratch, latest, status, lock, run>>

Next ==
  \/ \E s \in Shells : Begin(s)
  \/ Verify \/ Publish \/ Copy \/ PublishCopy \/ WriteLatest \/ WriteStatus
  \/ PruneLocal \/ PruneRemote \/ End \/ Fail \/ Kill
  \/ \E i \in Runs : GrowOld(i) \/ \E place \in Places : Damage(place, i)

Spec == Init /\ [][Next]_vars

-----------------------------------------------------------------------------
(* Properties.                                                             *)

(* The set latest.json names is there, and so is its external copy when it *)
(* says so, although sets are removed by later runs that may fail at any   *)
(* point.                                                                  *)
LatestIsThere == latest # None =>
  /\ disk[latest.run] = "set"
  /\ latest.offsite => remote[latest.run] = "set"

(* latest.json moves only to a set whose external copy was verified, and   *)
(* an attempt that has not finished removes nothing.                       *)
OnlyFinishedRunsPrune ==
  /\ (\E i \in Runs : disk[i] = "set" /\ disk'[i] = "none") =>
       latest # None /\ run # None /\ latest.run = run.id
  /\ \A i \in Runs : remote[i] = "partial" /\ remote'[i] = "set" =>
       <<"remote", i>> \notin damaged

(* A damaged set is kept for inspection, not removed for a younger one.    *)
DamagedKept == \A i \in Runs :
  disk[i] = "set" /\ disk'[i] = "none" => <<"local", i>> \notin damaged
=============================================================================
