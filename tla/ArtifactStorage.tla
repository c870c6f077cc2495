---------------------------- MODULE ArtifactStorage ----------------------------
(***************************************************************************)
(* LocalDocumentStorage (documents/storage.py): processes commit bodies to *)
(* keys of one directory tree.  A key names its body by the body's digest, *)
(* so a file under a key is "whole" or it is not.  commit copies the body  *)
(* beside its destination, under a name made from the key and the process  *)
(* id, checks the copy and renames it; each step is one of its system      *)
(* calls, and a process may die between any two.                            *)
(***************************************************************************)
EXTENDS Naturals

CONSTANTS
  Process,
  Key,
  NoKey,    \* that of a process without a call
  Pid       \* the process id of each process

\* No two processes on one volume have the same id.
ASSUME PidsApart ==
  /\ Pid \in [Process -> Nat]
  /\ \A p, q \in Process : p # q => Pid[p] # Pid[q]

VARIABLES
  commit,   \* process -> where its call of commit is, and with which key
  staging,  \* process id -> key -> its staging file
  object    \* key -> the file under it

storageVars == <<commit, staging, object>>

Uncommitted == [pc |-> "idle", key |-> NoKey]
At(p, pc) == commit' = [commit EXCEPT ![p].pc = pc]
Staged(p, file) == staging' = [staging EXCEPT ![Pid[p]][commit[p].key] = file]

StorageInit ==
  /\ commit = [p \in Process |-> Uncommitted]
  /\ staging = [n \in {Pid[p] : p \in Process} |-> [k \in Key |-> "absent"]]
  /\ object = [k \in Key |-> "absent"]

\* The destination exists: it must be the body, and nothing is written.
BeginExisting(p, k) ==
  /\ commit[p].pc = "idle" /\ object[k] # "absent"
  /\ commit' = [commit EXCEPT ![p] =
                  [pc |-> IF object[k] = "whole" THEN "done" ELSE "damaged", key |-> k]]
  /\ UNCHANGED <<staging, object>>

\* An error before there is a copy: of the path, of the directory, of reading
\* what the destination holds.  It passes by the `finally`.
BeginFails(p, k) ==
  /\ commit[p].pc = "idle"
  /\ commit' = [commit EXCEPT ![p] = [pc |-> "unprepared", key |-> k]]
  /\ UNCHANGED <<staging, object>>

\* copyfile opens, and empties, the staging file.
BeginCopy(p, k) ==
  /\ commit[p].pc = "idle" /\ object[k] = "absent"
  /\ commit' = [commit EXCEPT ![p] = [pc |-> "copying", key |-> k]]
  /\ staging' = [staging EXCEPT ![Pid[p]][k] = "partial"]
  /\ UNCHANGED object

\* The copy is on disk; the body may have changed since it was received.
Copy(p) ==
  /\ commit[p].pc = "copying"
  /\ \E file \in {"whole", "wrong"} : Staged(p, file)
  /\ At(p, "copied")
  /\ UNCHANGED object

\* For comparison: the copy is taken as it is.
VerifyNothing(p) ==
  /\ commit[p].pc = "copied"
  /\ At(p, "verified")
  /\ UNCHANGED <<staging, object>>

Verify(p) ==
  /\ commit[p].pc = "copied" /\ staging[Pid[p]][commit[p].key] = "whole"
  /\ At(p, "verified")
  /\ UNCHANGED <<staging, object>>

\* os.replace, and the `finally` that removes what is left.
Publish(p) ==
  /\ commit[p].pc = "verified"
  /\ object' = [object EXCEPT ![commit[p].key] = staging[Pid[p]][commit[p].key]]
  /\ Staged(p, "absent")
  /\ At(p, "done")

\* An error of the copy, the check or the rename, and the `finally`.
CommitFails(p) ==
  /\ commit[p].pc \in {"copying", "copied", "verified"}
  /\ Staged(p, "absent")
  /\ At(p, "failed")
  /\ UNCHANGED object

\* The caller goes on, or the process dies where it is.
Release(p) ==
  /\ commit' = [commit EXCEPT ![p] = Uncommitted]
  /\ UNCHANGED <<staging, object>>

\* Not the program's doing.
Damage(k) ==
  /\ object[k] = "whole"
  /\ \E left \in {"absent", "damaged"} : object' = [object EXCEPT ![k] = left]
  /\ UNCHANGED <<commit, staging>>

StorageNext ==
  \/ \E p \in Process :
       \/ \E k \in Key : BeginExisting(p, k) \/ BeginFails(p, k) \/ BeginCopy(p, k)
       \/ Copy(p) \/ Verify(p) \/ Publish(p) \/ CommitFails(p) \/ Release(p)
  \/ \E k \in Key : Damage(k)

StorageSpec == StorageInit /\ [][StorageNext]_storageVars

-----------------------------------------------------------------------------
\* Whatever dies, fails or runs beside it, no reader of a key ever sees a file
\* that was not copied to its end or is not the body of the key, other than one
\* the disk has damaged since.
ObjectsWhole == \A k \in Key : object[k] \in {"absent", "whole", "damaged"}

\* What makes it so: a copy that was checked is still what was checked.
CheckedCopies ==
  \A p \in Process : commit[p].pc = "verified" => staging[Pid[p]][commit[p].key] = "whole"

Store == INSTANCE ArtifactStore

\* The storage does what ArtifactStore promises: its files come by whole bodies.
StoreSpec == Store!Spec
================================================================================
