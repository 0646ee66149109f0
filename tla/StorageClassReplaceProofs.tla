--------------------- MODULE StorageClassReplaceProofs ---------------------
(***************************************************************************)
(* Proofs about StorageClassReplace, for any number of claims on one class,*)
(* any parameters and any number of faults.                                *)
(***************************************************************************)
EXTENDS StorageClassReplace, TLAPS

-----------------------------------------------------------------------------
(* The inductive invariant.  A worker past getStorageClass holds a class   *)
(* that lacks its claim's change, found under the source's name or under   *)
(* its own backup's; between making the backup and deleting it, it has one.*)
WorkerInv(c) ==
  /\ read[c].name \in {Source, c}
  /\ pc[c] \in Steps => ~ Contains(read[c].params, Changes[c])
  /\ pc[c] \in {"deleteSource", "createNew", "deleteBackup"} => classes[c] # NoClass

IInv ==
  /\ TypeOK
  /\ \A c \in Claims : WorkerInv(c)
  /\ BackupIsFromBefore

(* Merging two parameter maps gives a parameter map.                       *)
LEMMA MergeType ==
  ASSUME NEW p \in Params, NEW q \in Params
  PROVE  Merge(p, q) \in Params
  BY DEF Params, Merge

(* Creating a class keeps the store a store of classes.                    *)
LEMMA CreatedType ==
  ASSUME TypeOK, NEW n \in Names, NEW p \in Params
  PROVE  /\ Created(n, p) \in [Names -> Params \cup {NoClass}]
         /\ \A m \in Names : m # n => Created(n, p)[m] = classes[m]
         /\ classes[n] # NoClass => Created(n, p) = classes
         /\ classes[n] = NoClass => Created(n, p)[n] = p
         /\ Created(n, p)[n] # NoClass
  BY ReplaceAssumption DEF TypeOK, Created

(* Deleting a class touches no other class.                                *)
LEMMA DeletedType ==
  ASSUME TypeOK, NEW n \in Names
  PROVE  /\ Deleted(n) \in [Names -> Params \cup {NoClass}]
         /\ \A m \in Names : m # n => Deleted(n)[m] = classes[m]
         /\ Deleted(n)[n] = NoClass
  BY DEF TypeOK, Deleted

(* The invariant holds initially.                                          *)
LEMMA InitInv == Init => IInv
<1> SUFFICES ASSUME Init PROVE IInv
  OBVIOUS
<1> USE ReplaceAssumption DEF Init
<1>1. TypeOK
  BY DEF TypeOK, Names, Pcs, Steps
<1>2. ASSUME NEW c \in Claims PROVE WorkerInv(c)
  BY DEF WorkerInv, Steps
<1>3. BackupIsFromBefore
  BY DEF BackupIsFromBefore, Names
<1> QED
  BY <1>1, <1>2, <1>3 DEF IInv

(* A write of a worker, successful or not, keeps every backup from before. *)
LEMMA EffectInv ==
  ASSUME IInv, NEW c \in Claims
  PROVE  /\ Effect(c) \in [Names -> Params \cup {NoClass}]
         /\ \A d \in Claims : Effect(c)[d] # NoClass
                                => ~ Contains(Effect(c)[d], Changes[d])
         /\ \A d \in Claims : d # c => Effect(c)[d] = classes[d]
         /\ pc[c] # "deleteBackup" /\ classes[c] # NoClass => Effect(c)[c] = classes[c]
         /\ pc[c] = "createBackup" => Effect(c)[c] # NoClass
<1> DEFINE Good(s) ==
      /\ s \in [Names -> Params \cup {NoClass}]
      /\ \A d \in Claims : s[d] # NoClass => ~ Contains(s[d], Changes[d])
      /\ \A d \in Claims : d # c => s[d] = classes[d]
      /\ pc[c] # "deleteBackup" /\ classes[c] # NoClass => s[c] = classes[c]
      /\ pc[c] = "createBackup" => s[c] # NoClass
<1> USE DEF IInv
<1>0. /\ c \in Names /\ Source \in Names /\ c # Source
      /\ \A d \in Claims : d \in Names /\ d # Source
      /\ read[c].name \in Names /\ read[c].params \in Params
      /\ Changes[c] \in Params
  BY ReplaceAssumption DEF Names, TypeOK
<1>1. CASE pc[c] = "createBackup"
  <2>1. ~ Contains(read[c].params, Changes[c])
    BY <1>1 DEF WorkerInv, Steps
  <2> DEFINE s == Created(c, read[c].params)
  <2>2. /\ s \in [Names -> Params \cup {NoClass}]
        /\ \A m \in Names : m # c => s[m] = classes[m]
        /\ classes[c] # NoClass => s = classes
        /\ classes[c] = NoClass => s[c] = read[c].params
        /\ s[c] # NoClass
    BY <1>0, CreatedType
  <2> HIDE DEF s
  <2>3. Good(s)
    BY <1>0, <1>1, <2>1, <2>2 DEF BackupIsFromBefore
  <2> QED
    BY <1>1, <2>3 DEF Effect, s
<1>2. CASE pc[c] = "deleteSource"
  <2>1. Good(Deleted(Source))
    BY <1>0, <1>2, DeletedType DEF BackupIsFromBefore
  <2> QED
    BY <1>2, <2>1 DEF Effect
<1>3. CASE pc[c] = "createNew"
  <2> DEFINE m == Merge(read[c].params, Changes[c])
  <2>1. m \in Params
    BY <1>0, MergeType
  <2>2. classes[c] # NoClass /\ read[c].name \in {Source, c}
    BY <1>3 DEF WorkerInv
  <2> HIDE DEF m
  <2> DEFINE s == Created(read[c].name, m)
  <2>3. /\ s \in [Names -> Params \cup {NoClass}]
        /\ \A n \in Names : n # read[c].name => s[n] = classes[n]
        /\ classes[read[c].name] # NoClass => s = classes
    BY <1>0, <2>1, CreatedType
  <2> HIDE DEF s
  <2>4. Good(s)
    BY <1>0, <1>3, <2>2, <2>3 DEF BackupIsFromBefore
  <2> QED
    BY <1>3, <2>4 DEF Effect, m, s
<1>4. CASE pc[c] = "deleteBackup"
  <2>1. Good(Deleted(c))
    BY <1>0, <1>4, DeletedType DEF BackupIsFromBefore
  <2> QED
    BY <1>4, <2>1 DEF Effect
<1>5. CASE pc[c] \notin Steps
  <2>1. Good(classes)
    BY <1>5 DEF TypeOK, BackupIsFromBefore, Steps
  <2>2. Effect(c) = classes
    BY <1>5 DEF Effect, Steps
  <2> QED
    BY <2>1, <2>2
<1> QED
  BY <1>1, <1>2, <1>3, <1>4, <1>5 DEF Steps

(* Worker c makes its write, or sees it fail, and goes on with step s.     *)
Write(c, s) ==
  /\ Goto(c, s)
  /\ UNCHANGED read
  /\ \/ classes' = Effect(c) /\ pc[c] \in Steps
     \/ s = "get" /\ classes' \in {classes, Effect(c)}
  /\ \/ s \in {"get", "done"}
     \/ pc[c] = "createBackup" /\ s = "deleteSource"
     \/ pc[c] = "deleteSource" /\ s = "createNew"
     \/ pc[c] = "createNew" /\ s = "deleteBackup"

(* Every step preserves the invariant.                                     *)
LEMMA NextInv == IInv /\ [Next]_vars => IInv'
<1> SUFFICES ASSUME IInv, [Next]_vars PROVE IInv'
  OBVIOUS
<1> USE ReplaceAssumption DEF IInv
\* Reading a class: the store stays, the worker moves on with what it found.
<1>1. ASSUME NEW c \in Claims, NEW n \in {Source, c}, Found(c, n),
             UNCHANGED classes
      PROVE  IInv'
  <2>0. n \in Names
    BY DEF Names
  <2>1. TypeOK'
    <3>1. [name |-> n, params |-> classes[n]] \in [name : Names, params : Params]
      BY <1>1, <2>0 DEF Found, TypeOK
    <3>2. read' \in [Claims -> [name : Names, params : Params]]
      BY <1>1, <3>1 DEF Found, TypeOK
    <3>3. pc' \in [Claims -> Pcs]
      BY <1>1 DEF Found, Goto, TypeOK, Pcs, Steps
    <3> QED
      BY <1>1, <3>2, <3>3 DEF TypeOK
  <2>2. ASSUME NEW d \in Claims PROVE WorkerInv(d)'
    BY <1>1, <2>0 DEF Found, Goto, TypeOK, Steps, WorkerInv, Contains
  <2>3. BackupIsFromBefore'
    BY <1>1 DEF BackupIsFromBefore, Contains
  <2> QED
    BY <2>1, <2>2, <2>3
\* A worker goes back to the start, or falls back to the backup.
<1>2. ASSUME NEW c \in Claims, NEW s \in {"get", "getBackup"}, Goto(c, s),
             UNCHANGED <<classes, read>>
      PROVE  IInv'
  <2>1. TypeOK'
    BY <1>2 DEF Goto, TypeOK, Pcs, Steps
  <2>2. ASSUME NEW d \in Claims PROVE WorkerInv(d)'
    BY <1>2 DEF Goto, TypeOK, Steps, WorkerInv, Contains
  <2>3. BackupIsFromBefore'
    BY <1>2 DEF BackupIsFromBefore, Contains
  <2> QED
    BY <2>1, <2>2, <2>3
\* A worker makes its write, or only thinks it did not.
<1>3. ASSUME NEW c \in Claims, NEW s \in Pcs, Write(c, s)
      PROVE  IInv'
  <2>0. /\ classes' \in [Names -> Params \cup {NoClass}]
        /\ \A d \in Claims : classes'[d] # NoClass
                               => ~ Contains(classes'[d], Changes[d])
        /\ \A d \in Claims : d # c => classes'[d] = classes[d]
    BY <1>3, EffectInv DEF Write, TypeOK, BackupIsFromBefore
  <2>1. TypeOK'
    BY <1>3, <2>0 DEF Write, Goto, TypeOK
  <2>2. ASSUME NEW d \in Claims PROVE WorkerInv(d)'
    <3>1. CASE d # c
      BY <1>3, <2>0, <2>2, <3>1 DEF Write, Goto, TypeOK, WorkerInv, Contains
    <3>2. CASE d = c /\ s \in {"get", "done"}
      BY <1>3, <2>2, <3>2 DEF Write, Goto, TypeOK, WorkerInv, Contains, Steps
    <3>3. CASE d = c /\ s \notin {"get", "done"}
      <4>1. classes'[c] # NoClass
        BY <1>3, <3>3, EffectInv DEF Write, WorkerInv
      <4>2. ~ Contains(read[c].params, Changes[c])
        BY <1>3, <3>3 DEF Write, WorkerInv, Steps
      <4> QED
        BY <1>3, <2>2, <3>3, <4>1, <4>2 DEF Write, Goto, TypeOK, WorkerInv, Contains
    <3> QED
      BY <3>1, <3>2, <3>3
  <2>3. BackupIsFromBefore'
    BY <2>0 DEF BackupIsFromBefore, Contains
  <2> QED
    BY <2>1, <2>2, <2>3
<1>4. ASSUME NEW c \in Claims, GetSource(c) PROVE IInv'
  BY <1>1, <1>2, <1>4 DEF GetSource
<1>5. ASSUME NEW c \in Claims, GetBackup(c) PROVE IInv'
  BY <1>1, <1>2, <1>5 DEF GetBackup
<1>6. ASSUME NEW c \in Claims, CreateBackup(c) PROVE IInv'
  <2>1. Write(c, "deleteSource") /\ "deleteSource" \in Pcs
    BY <1>6 DEF CreateBackup, Write, Effect, TypeOK, Steps, Pcs
  <2> QED
    BY <1>3, <2>1
<1>7. ASSUME NEW c \in Claims, DeleteSource(c) PROVE IInv'
  <2>1. Write(c, "createNew") /\ "createNew" \in Pcs
    BY <1>7 DEF DeleteSource, Write, Effect, TypeOK, Steps, Pcs
  <2> QED
    BY <1>3, <2>1
<1>8. ASSUME NEW c \in Claims, CreateNew(c) PROVE IInv'
  <2>1. Write(c, "deleteBackup") /\ "deleteBackup" \in Pcs
    BY <1>8 DEF CreateNew, Write, Effect, TypeOK, Steps, Pcs
  <2> QED
    BY <1>3, <2>1
<1>9. ASSUME NEW c \in Claims, DeleteBackup(c) PROVE IInv'
  <2>1. Write(c, "get") \/ Write(c, "done")
    BY <1>9 DEF DeleteBackup, Write, Effect, TypeOK, Steps
  <2>2. "get" \in Pcs /\ "done" \in Pcs
    BY DEF Pcs
  <2> QED
    BY <1>3, <2>1, <2>2
<1>10. ASSUME NEW c \in Claims, CallFails(c) PROVE IInv'
  <2>1. Write(c, "get") /\ "get" \in Pcs
    BY <1>10 DEF CallFails, Write, Pcs
  <2> QED
    BY <1>3, <2>1
<1>11. CASE Restart
  <2>1. TypeOK'
    BY <1>11 DEF Restart, TypeOK, Pcs
  <2>2. ASSUME NEW d \in Claims PROVE WorkerInv(d)'
    BY <1>11, <2>2 DEF Restart, TypeOK, Steps, WorkerInv, Contains
  <2>3. BackupIsFromBefore'
    BY <1>11 DEF Restart, BackupIsFromBefore, Contains
  <2> QED
    BY <2>1, <2>2, <2>3
<1>12. ASSUME NEW c \in Claims, SyncAgain(c) PROVE IInv'
  BY <1>2, <1>12 DEF SyncAgain
<1>13. CASE UNCHANGED vars
  BY <1>13 DEF vars, TypeOK, WorkerInv, BackupIsFromBefore, Contains
<1> QED
  BY <1>4, <1>5, <1>6, <1>7, <1>8, <1>9, <1>10, <1>11, <1>12,
     <1>13 DEF Next

(* The state of the replacement always has its type.                       *)
THEOREM ReplaceTypeCorrect == Spec => []TypeOK
<1>1. IInv => TypeOK
  BY DEF IInv
<1> QED
  BY InitInv, NextInv, <1>1, PTL DEF Spec

(* No backup ever holds its claim's change, for every number of claims and *)
(* faults: recreating the class never overwrites the copy made for safety. *)
THEOREM BackupsAreFromBefore == Spec => []BackupIsFromBefore
<1>1. IInv => BackupIsFromBefore
  BY DEF IInv
<1> QED
  BY InitInv, NextInv, <1>1, PTL DEF Spec

(* Deleting the source class is always preceded by a backup that is still  *)
(* there, whatever the interleaving of claims, failures and restarts.      *)
THEOREM SourceRemovalIsSafe == Spec => SourceRemovedOnlyWithBackup
<1> DEFINE Safe == classes[Source] # NoClass /\ classes'[Source] = NoClass
                     => \E c \in Claims : classes'[c] # NoClass
<1>1. IInv /\ [Next]_vars => [Safe]_vars
  <2> SUFFICES ASSUME IInv, Next PROVE Safe
    BY DEF vars
  <2> USE ReplaceAssumption DEF IInv
  <2>0. Source \in Names /\ \A c \in Claims : c \in Names /\ c # Source
    BY DEF Names
  \* Only a worker about to delete the source removes it.
  <2>1. ASSUME NEW c \in Claims, classes' \in {classes, Effect(c)} PROVE Safe
    <3>1. CASE pc[c] = "deleteSource"
      <4>1. classes[c] # NoClass
        BY <3>1 DEF WorkerInv
      <4>2. classes'[c] # NoClass
        BY <2>1, <3>1, <4>1, EffectInv
      <4> QED
        BY <4>2
    <3>2. CASE pc[c] # "deleteSource"
      <4>1. /\ read[c].name \in Names /\ read[c].params \in Params
            /\ Merge(read[c].params, Changes[c]) \in Params
        BY MergeType DEF TypeOK
      <4>2. classes[Source] # NoClass => Effect(c)[Source] # NoClass
        <5>1. CASE pc[c] = "createBackup"
          <6>1. Effect(c) = Created(c, read[c].params) /\ c \in Names /\ Source \in Names
            BY <5>1 DEF Effect, Names
          <6>2. Source # c
            BY ReplaceAssumption
          <6>3. Created(c, read[c].params)[Source] = classes[Source]
            BY <4>1, <6>1, <6>2, CreatedType
          <6> QED
            BY <6>1, <6>3
        <5>2. CASE pc[c] = "createNew"
          <6>1. Effect(c) = Created(read[c].name, Merge(read[c].params, Changes[c]))
            BY <5>2 DEF Effect
          <6>2. PICK n \in Names, q \in Params : Effect(c) = Created(n, q)
            BY <4>1, <6>1
          <6>3. n = Source \/ Created(n, q)[Source] = classes[Source]
            BY <2>0, CreatedType
          <6>4. Created(n, q)[n] # NoClass
            BY CreatedType
          <6> QED
            BY <6>2, <6>3, <6>4
        <5>3. CASE pc[c] = "deleteBackup"
          BY <2>0, <5>3, DeletedType DEF Effect
        <5>4. CASE pc[c] \notin Steps
          BY <5>4 DEF Effect, Steps
        <5> QED
          BY <3>2, <5>1, <5>2, <5>3, <5>4 DEF Steps
      <4> QED
        BY <2>1, <4>2
    <3> QED
      BY <3>1, <3>2
  <2>2. ASSUME NEW c \in Claims,
               \/ GetSource(c) \/ GetBackup(c) \/ CreateBackup(c)
               \/ DeleteSource(c) \/ CreateNew(c) \/ DeleteBackup(c)
               \/ SyncAgain(c) \/ CallFails(c)
        PROVE  classes' \in {classes, Effect(c)}
    BY <2>2 DEF GetSource, GetBackup, CreateBackup, DeleteSource, CreateNew,
                DeleteBackup, SyncAgain, CallFails, Effect
  <2>3. CASE Restart
    BY <2>3 DEF Restart
  <2> HIDE DEF Safe
  <2> QED
    BY <2>1, <2>2, <2>3 DEF Next
<1> QED
  BY InitInv, NextInv, <1>1, PTL DEF Spec, SourceRemovedOnlyWithBackup
=============================================================================
