------------------------ MODULE StorageClassReplace ------------------------
(***************************************************************************)
(* Replacing the source StorageClass of a VolumeModifyClaim, the last      *)
(* thing the claim worker does before a claim is Completed                 *)
(* (replaceStorageClass in pkg/modify/claim_worker.go).                    *)
(*                                                                         *)
(* The parameters of a StorageClass cannot be edited, so the worker copies *)
(* the class to a backup <class>-<claim>, deletes it, creates it again     *)
(* with the merged parameters and deletes the backup: four API calls, each *)
(* of which can fail, before or after it took effect, with the whole       *)
(* sequence started again from the top by the work queue.                  *)
(***************************************************************************)
EXTENDS Naturals

CONSTANTS
  Claims,       \* VolumeModifyClaims that name the same source class
  Source,       \* the name of that class; a claim stands for its backup's name
  Keys,         \* parameter keys of a class
  Values,       \* parameter values
  Unset,        \* a key a map does not have
  NoClass,      \* no class of that name exists
  Base,         \* the parameters of the class at the start
  Changes       \* Changes[c]: Status.Parameters of claim c

Params == [Keys -> Values \cup {Unset}]
Names == Claims \cup {Source}

ASSUME ReplaceAssumption ==
  /\ Source \notin Claims
  /\ Unset \notin Values
  /\ NoClass \notin Params
  /\ Base \in Params
  /\ Changes \in [Claims -> Params]

VARIABLES
  classes,      \* the StorageClasses of the API server
  pc,           \* the next API call of each claim's worker
  read          \* class and its name as getStorageClass returned them

vars == <<classes, pc, read>>

\* The steps that write, in their order.
Steps == {"createBackup", "deleteSource", "createNew", "deleteBackup"}

\* "get": about to read the source class, which is also where a failed call
\* is retried; "done": replaceStorageClass returned nil.
Pcs == Steps \cup {"get", "getBackup", "done"}

TypeOK ==
  /\ classes \in [Names -> Params \cup {NoClass}]
  /\ pc \in [Claims -> Pcs]
  /\ read \in [Claims -> [name : Names, params : Params]]

Init ==
  /\ classes = [n \in Names |-> IF n = Source THEN Base ELSE NoClass]
  /\ pc = [c \in Claims |-> "get"]
  /\ read = [c \in Claims |-> [name |-> Source, params |-> Base]]

\* needReplace is false: every parameter of the claim is in the class.
Contains(params, change) ==
  \A k \in Keys : change[k] # Unset => params[k] = change[k]

\* classClone.Parameters after the loop of replaceStorageClass.
Merge(params, change) ==
  [k \in Keys |-> IF change[k] # Unset THEN change[k] ELSE params[k]]

\* Create: an existing object is left as it is (AlreadyExists).
Created(n, params) ==
  IF classes[n] = NoClass THEN [classes EXCEPT ![n] = params] ELSE classes

Deleted(n) == [classes EXCEPT ![n] = NoClass]

Goto(c, step) == pc' = [pc EXCEPT ![c] = step]

\* replaceStorageClass once it has the class: nothing to do, or the class is
\* remembered under the name it was found by.
Found(c, n) ==
  /\ classes[n] # NoClass
  /\ IF Contains(classes[n], Changes[c])
       THEN /\ Goto(c, "done")
            /\ UNCHANGED read
       ELSE /\ Goto(c, "createBackup")
            /\ read' = [read EXCEPT ![c] = [name |-> n, params |-> classes[n]]]

GetSource(c) ==
  /\ pc[c] = "get"
  /\ \/ Found(c, Source)
     \/ /\ classes[Source] = NoClass
        /\ Goto(c, "getBackup")
        /\ UNCHANGED read
  /\ UNCHANGED classes

\* Faulty: the error of the second Get is dropped.
GetBackupUnchecked(c) ==
  /\ pc[c] = "getBackup"
  /\ read' = [read EXCEPT ![c] = [name |-> c, params |-> classes[c]]]
  /\ Goto(c, "createBackup")
  /\ UNCHANGED classes

GetBackup(c) ==
  /\ pc[c] = "getBackup"
  /\ \/ Found(c, c)
     \/ /\ classes[c] = NoClass
        /\ Goto(c, "get")
        /\ UNCHANGED read
  /\ UNCHANGED classes

\* Faulty: the backup is made from classClone.
CreateBackupOfClone(c) ==
  /\ pc[c] = "createBackup"
  /\ classes' = Created(c, Merge(read[c].params, Changes[c]))
  /\ Goto(c, "deleteSource")
  /\ UNCHANGED read

\* Faulty: a backup that could not be created is only logged.
CreateBackupUnchecked(c) ==
  /\ pc[c] = "createBackup"
  /\ classes' \in {classes, Created(c, read[c].params)}
  /\ Goto(c, "deleteSource")
  /\ UNCHANGED read

CreateBackup(c) ==
  /\ pc[c] = "createBackup"
  /\ classes' = Created(c, read[c].params)
  /\ Goto(c, "deleteSource")
  /\ UNCHANGED read

DeleteSource(c) ==
  /\ pc[c] = "deleteSource"
  /\ classes' = Deleted(Source)
  /\ Goto(c, "createNew")
  /\ UNCHANGED read

\* createCopy keeps the name of the class it was copied from, which is the
\* backup's name when getStorageClass fell back to the backup.
CreateNew(c) ==
  /\ pc[c] = "createNew"
  /\ classes' = Created(read[c].name, Merge(read[c].params, Changes[c]))
  /\ Goto(c, "deleteBackup")
  /\ UNCHANGED read

\* The error of the last call is returned, NotFound included.
DeleteBackup(c) ==
  /\ pc[c] = "deleteBackup"
  /\ classes' = Deleted(c)
  /\ Goto(c, IF classes[c] = NoClass THEN "get" ELSE "done")
  /\ UNCHANGED read

\* The claim's status could not be written after all, and the claim is synced
\* again from the start.
SyncAgain(c) ==
  /\ pc[c] = "done"
  /\ Goto(c, "get")
  /\ UNCHANGED <<classes, read>>

\* What the write a worker is about to make does to the store.
Effect(c) ==
  CASE pc[c] = "createBackup" -> Created(c, read[c].params)
    [] pc[c] = "deleteSource" -> Deleted(Source)
    [] pc[c] = "createNew" -> Created(read[c].name, Merge(read[c].params, Changes[c]))
    [] pc[c] = "deleteBackup" -> Deleted(c)
    [] OTHER -> classes

\* A call fails, with or without having taken effect; the error goes back to
\* the work queue and the sync starts again.
CallFails(c) ==
  /\ pc[c] # "done"
  /\ classes' \in {classes, Effect(c)}
  /\ Goto(c, "get")
  /\ UNCHANGED read

\* The controller restarts: every worker starts its claim again.
Restart ==
  /\ pc' = [c \in Claims |-> IF pc[c] = "done" THEN "done" ELSE "get"]
  /\ UNCHANGED <<classes, read>>

Next ==
  \/ \E c \in Claims : \/ GetSource(c) \/ GetBackup(c)
                       \/ CreateBackup(c) \/ DeleteSource(c)
                       \/ CreateNew(c) \/ DeleteBackup(c)
                       \/ SyncAgain(c)
                       \/ CallFails(c)
  \/ Restart

Spec == Init /\ [][Next]_vars

-----------------------------------------------------------------------------
(* The source class is removed only at a moment when a backup of it exists *)
(* (deleteAndreCreateStorageClass), for every interleaving of claims on    *)
(* the same class, failed calls and restarts.                              *)
SourceRemovedOnlyWithBackup ==
  [][ classes[Source] # NoClass /\ classes'[Source] = NoClass
        => \E c \in Claims : classes'[c] # NoClass ]_vars

(* A backup always holds a class from before its claim's change: neither   *)
(* the recreation under the backup's name nor a repeated backup ever       *)
(* overwrites it with the merged parameters.                               *)
BackupIsFromBefore ==
  \A c \in Claims : classes[c] # NoClass => ~ Contains(classes[c], Changes[c])

(* The backup is made for safety: at every moment the source class or a    *)
(* backup of it is in the API server, so that a retry can go on.           *)
ClassRecoverable == \E n \in Names : classes[n] # NoClass

(* The class is created again with the merged parameters: once             *)
(* replaceStorageClass has returned for a claim, a class that exists has   *)
(* the claim's parameters, also with two claims on the same class.         *)
DoneIsReplaced ==
  \A c \in Claims :
    pc[c] = "done" /\ classes[Source] # NoClass => Contains(classes[Source], Changes[c])
=============================================================================
