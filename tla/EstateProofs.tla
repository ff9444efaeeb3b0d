---------------------------- MODULE EstateProofs ----------------------------
(***************************************************************************)
(* Proofs about the estate, for any letters, attachments, movers, sweeps   *)
(* and interruptions: no row of an attachment ever points at an object     *)
(* that is gone or is somebody else's; and handlers that meet nobody and   *)
(* are not stopped leave nothing behind, serve every heir, and erase an    *)
(* account entirely and only when its owner still wants it.                *)
(***************************************************************************)
EXTENDS Estate, TLAPS

USE StoreAssumption, ContentsAssumption, EstateAssumption

\* The types of what is not in a blob.
LEMMA NoBlobApart == NoBlob \notin Blob /\ NoBlob \in Key /\ NoBlob.id = 0
  BY DEF NoBlob, Blob, Key

LEMMA InitInv == EstateInit => StoreInv
<1> SUFFICES ASSUME EstateInit PROVE StoreInv
  OBVIOUS
<1> USE NoBlobApart DEF EstateInit, ContentsInit, BlobInit
<1>1. StoreTypes
  BY DEF StoreTypes, NotUploading, Upload, UploadState, NotMoving, Move, MoverState, Resting,
         Reap, ReaperState, ReaperPc, NoLetter
<1>2. Numbered
  BY DEF Numbered, NotMoving, Move, Resting, Reap
<1>3. MakersApart /\ Uploads /\ Moves /\ Purges
  BY DEF MakersApart, Uploads, Moves, Purges, NotUploading, Upload, NotMoving, Move, Resting, Reap
<1> QED
  BY <1>1, <1>2, <1>3 DEF StoreInv, RowsResolve

-----------------------------------------------------------------------------
(* Steps that touch one handler and neither the store nor the rows.        *)

storeVars == <<stored, puts, key>>

LEMMA Frame ==
  ASSUME StoreInv, UNCHANGED <<storeVars, region, upload, mover, reaper>>
  PROVE  StoreInv'
BY DEF storeVars, StoreInv, StoreTypes, RowsResolve, Numbered, MakersApart, Uploads, Moves,
       Purges, Secret, Spent

\* A request that seals a letter, and holds no blob of its own afterwards.
LEMMA UploadOnly ==
  ASSUME StoreInv, NEW l \in Letter, NEW u \in UploadState, u.pc # "row",
         upload' = [upload EXCEPT ![l] = u],
         UNCHANGED <<storeVars, region, mover, reaper>>
  PROVE  StoreInv'
<1> USE DEF storeVars
<1>1. \A x \in Letter : upload'[x].pc = "row" => upload'[x] = upload[x] /\ upload[x].pc = "row"
  BY DEF StoreInv, StoreTypes
<1>2. StoreTypes' /\ RowsResolve' /\ Numbered'
  BY DEF StoreInv, StoreTypes, RowsResolve, Numbered
<1>3. MakersApart'
  BY <1>1 DEF StoreInv, MakersApart
<1>4. Uploads'
  BY <1>1 DEF StoreInv, Uploads, Secret
<1>5. Moves' /\ Purges'
  BY DEF StoreInv, Moves, Purges, Secret, Spent
<1> QED
  BY <1>2, <1>3, <1>4, <1>5 DEF StoreInv

\* A move that learns of no blob but those of the rows and those it knew.
LEMMA MoverOnly ==
  ASSUME StoreInv, NEW m \in Mover, NEW v \in MoverState,
         v.pc \notin {"repoint", "delete"},
         v.pc = "put" => v.old \in Blob,
         \A b \in v.todo \cup {v.old} :
            b = NoBlob \/ b = mover[m].old \/ b \in mover[m].todo \/ \E f \in File : key[f] = b,
         mover' = [mover EXCEPT ![m] = v], region' \in Region,
         UNCHANGED <<storeVars, upload, reaper>>
  PROVE  StoreInv'
<1> USE DEF storeVars
<1>1. \A x \in Mover : x # m => mover'[x] = mover[x]
  BY DEF StoreInv, StoreTypes
<1>2. mover'[m] = v
  BY DEF StoreInv, StoreTypes
<1>3. StoreTypes' /\ RowsResolve'
  BY DEF StoreInv, StoreTypes, RowsResolve
<1>4. \A b \in v.todo \cup {v.old} : b.id <= puts
  <2> TAKE b \in v.todo \cup {v.old}
  <2>1. CASE b = NoBlob
    BY <2>1, NoBlobApart DEF StoreInv, StoreTypes
  <2>2. CASE b = mover[m].old \/ b \in mover[m].todo
    BY <2>2 DEF StoreInv, Numbered
  <2>3. CASE b # NoBlob /\ \E f \in File : key[f] = b
    BY <2>3 DEF StoreInv, RowsResolve, Numbered
  <2> QED
    BY <2>1, <2>2, <2>3
<1>5. Numbered'
  BY <1>1, <1>2, <1>4 DEF StoreInv, Numbered
<1>6. \A b : Secret(b) => Secret(b)'
  <2> SUFFICES ASSUME NEW b, Secret(b) PROVE Secret(b)'
    OBVIOUS
  <2>1. b # NoBlob
    BY NoBlobApart DEF Secret, StoreInv, StoreTypes
  <2>2. b \notin v.todo /\ v.old # b
    BY <2>1 DEF Secret
  <2> QED
    BY <1>1, <1>2, <2>2 DEF Secret
<1>7. MakersApart'
  BY <1>1, <1>2 DEF StoreInv, MakersApart
<1>8. Uploads'
  BY <1>6 DEF StoreInv, Uploads
<1>9. Moves' /\ Purges'
  BY <1>1, <1>2, <1>6 DEF StoreInv, Moves, Purges, Spent
<1> QED
  BY <1>3, <1>5, <1>7, <1>8, <1>9 DEF StoreInv

\* A sweep, or a request that deletes a letter, between two purged rows.
LEMMA ReaperOnly ==
  ASSUME StoreInv, NEW r \in Reaper, NEW v \in ReaperState,
         v.pc # "blob", v.blob \in {NoBlob, reaper[r].blob},
         reaper' = [reaper EXCEPT ![r] = v],
         UNCHANGED <<storeVars, region, upload, mover>>
  PROVE  StoreInv'
<1> USE DEF storeVars
<1>1. \A x \in Reaper : x # r => reaper'[x] = reaper[x]
  BY DEF StoreInv, StoreTypes
<1>2. reaper'[r] = v
  BY DEF StoreInv, StoreTypes
<1>3. StoreTypes' /\ RowsResolve' /\ MakersApart'
  BY DEF StoreInv, StoreTypes, RowsResolve, MakersApart
<1>4. Numbered'
  BY <1>1, <1>2, NoBlobApart DEF StoreInv, StoreTypes, Numbered
<1>5. \A b : Secret(b) => Secret(b)'
  BY <1>1, <1>2, NoBlobApart DEF Secret, StoreInv, StoreTypes
<1>6. Uploads' /\ Moves'
  BY <1>5 DEF StoreInv, Uploads, Moves, Spent
<1>7. Purges'
  BY <1>1, <1>2 DEF StoreInv, Purges, Spent
<1> QED
  BY <1>3, <1>4, <1>6, <1>7 DEF StoreInv

-----------------------------------------------------------------------------
(* Which steps those are.                                                  *)

LEMMA UploadSteps ==
  ASSUME StoreInv, NEW l \in Letter,
         \/ SealLetter(l) \/ \E fs \in SUBSET FilesOf(l) : SealMultipart(l, fs)
         \/ SealInsert(l) \/ UploadRefused(l) \/ UploadStops(l),
         UNCHANGED reaper
  PROVE  StoreInv'
<1> USE NoBlobApart DEF sealFrame, blobVars, storeVars, StoreInv, StoreTypes, UploadState, Upload,
        NotUploading, FilesOf
<1>0. SealLetter(l) => SealBegin(l, {}) /\ {} \in SUBSET FilesOf(l)
  BY DEF SealLetter
<1>1. ASSUME NEW fs \in SUBSET FilesOf(l), SealBegin(l, fs) PROVE StoreInv'
  <2> DEFINE u == Upload("seal", region, fs, NoBlob)
  <2>1. u \in UploadState /\ u.pc # "row"
    OBVIOUS
  <2>2. upload' = [upload EXCEPT ![l] = u]
    BY <1>1 DEF SealBegin
  <2> HIDE DEF u
  <2> QED
    BY <1>1, <2>1, <2>2, UploadOnly DEF SealBegin
<1>2. CASE SealInsert(l)
  <2> DEFINE u == IF upload[l].todo = {} THEN NotUploading
                  ELSE Upload("put", upload[l].region, upload[l].todo, NoBlob)
  <2>1. u \in UploadState /\ u.pc # "row"
    OBVIOUS
  <2> HIDE DEF u
  <2>2. upload' = [upload EXCEPT ![l] = u]
    BY <1>2 DEF SealInsert, UploadNext, u
  <2> QED
    BY <1>2, <2>1, <2>2, UploadOnly DEF SealInsert
<1>3. CASE UploadRefused(l) \/ UploadStops(l)
  BY <1>3, UploadOnly, NotUploading \in UploadState DEF UploadRefused, UploadStops
<1> QED
  BY <1>0, <1>1, <1>2, <1>3 DEF SealMultipart

LEMMA MoverSteps ==
  ASSUME StoreInv, NEW m \in Mover,
         \/ \E r \in Region : MoveBegin(m, r)
         \/ \E b \in mover[m].todo : MoveGet(m, b) \/ MoveMissing(m, b)
         \/ MoveList(m) \/ MoveDone(m) \/ MoveStops(m) \/ MoveDeleteFails(m),
         UNCHANGED reaper
  PROVE  StoreInv'
<1> USE NoBlobApart DEF moveFrame, blobVars, storeVars, Move, NotMoving
<1>0. /\ NotMoving \in MoverState /\ mover[m] \in MoverState /\ region \in Region
      /\ mover \in [Mover -> MoverState]
  BY DEF StoreInv, StoreTypes, MoverState
<1>1. ASSUME NEW r \in Region, MoveBegin(m, r) PROVE StoreInv'
  <2> DEFINE v == Move("list", r, {})
  <2>1. v \in MoverState /\ v.pc = "list" /\ v.old = NoBlob /\ v.todo = {}
    BY DEF MoverState
  <2>2. mover' = [mover EXCEPT ![m] = v]
    BY <1>1 DEF MoveBegin
  <2> HIDE DEF v
  <2> QED
    BY <1>0, <1>1, <2>1, <2>2, MoverOnly DEF MoveBegin
<1>2. ASSUME NEW b \in mover[m].todo, MoveGet(m, b) PROVE StoreInv'
  <2> DEFINE v == [mover[m] EXCEPT !.pc = "put", !.old = b]
  <2>1. v \in MoverState /\ b \in Blob
    BY <1>0 DEF MoverState, Key
  <2>2. mover' = [mover EXCEPT ![m] = v]
    BY <1>0, <1>2 DEF MoveGet, MoverState
  <2>3. v.pc = "put" /\ v.old = b /\ v.todo = mover[m].todo
    BY <1>0 DEF MoverState
  <2>4. region' = region /\ region \in Region
    BY <1>0, <1>2 DEF MoveGet
  <2>5. \A x \in v.todo \cup {v.old} : x \in mover[m].todo
    BY <2>3
  <2>6. UNCHANGED <<storeVars, upload, reaper>>
    BY <1>2 DEF MoveGet
  <2> HIDE DEF v
  <2> QED
    BY <2>1, <2>2, <2>3, <2>4, <2>5, <2>6, MoverOnly
<1>3. CASE MoveList(m)
  <2> DEFINE found == {key[f] : f \in File} \ {NoBlob}
             v == [mover[m] EXCEPT !.pc = "get",
                     !.todo = {b \in found : KeyRegion(b) # mover[m].target}]
  <2>1. found \subseteq Blob
    BY DEF StoreInv, StoreTypes, Key
  <2>2. v \in MoverState /\ v.pc = "get" /\ v.old = mover[m].old
    BY <1>0, <2>1 DEF MoverState
  <2>3. \A b \in v.todo : \E f \in File : key[f] = b
    BY <1>0 DEF MoverState
  <2>4. mover' = [mover EXCEPT ![m] = v]
    BY <1>0, <1>3 DEF MoveList, MoverState
  <2>5. \A x \in v.todo \cup {v.old} : x = mover[m].old \/ \E f \in File : key[f] = x
    BY <2>2, <2>3
  <2>6. region' = region /\ UNCHANGED <<storeVars, upload, reaper>>
    BY <1>3 DEF MoveList
  <2> HIDE DEF v
  <2> QED
    BY <1>0, <2>2, <2>4, <2>5, <2>6, MoverOnly
<1>4. ASSUME mover' = [mover EXCEPT ![m] = NotMoving], region' \in Region,
             UNCHANGED <<storeVars, upload>>
      PROVE  StoreInv'
  BY <1>0, <1>4, MoverOnly
<1>5. ASSUME NEW b \in mover[m].todo, MoveMissing(m, b) PROVE StoreInv'
  BY <1>0, <1>4, <1>5 DEF MoveMissing
<1>6. CASE MoveDone(m) \/ MoveStops(m)
  BY <1>0, <1>4, <1>6 DEF MoveDone, MoveStops, MoverState
<1>7. CASE MoveDeleteFails(m)
  <2> DEFINE v == Move("get", mover[m].target, mover[m].todo \ {mover[m].old})
  <2>1. v \in MoverState /\ v.pc = "get" /\ v.old = NoBlob /\ v.todo \subseteq mover[m].todo
    BY <1>0 DEF MoverState
  <2>2. mover' = [mover EXCEPT ![m] = v]
    BY <1>7 DEF MoveDeleteFails, MoveOn
  <2> HIDE DEF v
  <2> QED
    BY <1>0, <1>7, <2>1, <2>2, MoverOnly DEF MoveDeleteFails
<1> QED
  BY <1>1, <1>2, <1>3, <1>5, <1>6, <1>7

LEMMA ReaperSteps ==
  ASSUME StoreInv, NEW r \in Reaper,
         \/ SweepBegin(r) \/ SweepExpire(r) \/ SweepDrop(r) \/ SweepAccounts(r)
         \/ SweepAnonymise(r) \/ PurgeList(r) \/ PurgeDone(r) \/ EraseLetter(r)
         \/ ReaperStops(r) \/ PurgeBlobFails(r)
         \/ \E l \in Letter : PurgeLetter(r, l) \/ DeleteLetter(r, l)
  PROVE  StoreInv'
<1> USE DEF sweepFrame, reapFrame, contentVars, blobVars, accountVars, storeVars, ReapGoto
<1>0. /\ reaper \in [Reaper -> ReaperState] /\ reaper[r] \in ReaperState
      /\ Resting \in ReaperState /\ Resting.pc = "idle" /\ Resting.blob = NoBlob
  BY NoBlobApart DEF StoreInv, StoreTypes, Resting, Reap, ReaperState, ReaperPc, NoLetter
<1>1. PICK a \in ReaperState : a = reaper[r]
  BY <1>0
<1>2. ASSUME NEW pc \in ReaperPc \ {"blob"}, reaper' = [reaper EXCEPT ![r].pc = pc],
             UNCHANGED <<storeVars, region, upload, mover>>
      PROVE  StoreInv'
  <2> DEFINE v == [a EXCEPT !.pc = pc]
  <2>1. v \in ReaperState /\ v.pc # "blob" /\ v.blob = reaper[r].blob
    BY <1>1 DEF ReaperState
  <2>2. reaper' = [reaper EXCEPT ![r] = v]
    BY <1>1, <1>2
  <2> HIDE DEF v
  <2> QED
    BY <1>2, <2>1, <2>2, ReaperOnly
<1>3. ASSUME NEW v \in ReaperState, v.pc # "blob", v.blob \in {NoBlob, reaper[r].blob},
             reaper' = [reaper EXCEPT ![r] = v], UNCHANGED <<storeVars, region, upload, mover>>
      PROVE  StoreInv'
  BY <1>3, ReaperOnly
<1>4. CASE SweepExpire(r) \/ SweepDrop(r) \/ PurgeDone(r)
  BY <1>2, <1>4 DEF SweepExpire, SweepDrop, PurgeDone, ReaperPc
<1>5. CASE SweepAnonymise(r) \/ ReaperStops(r)
  BY <1>0, <1>3, <1>5 DEF SweepAnonymise, ReaperStops
<1>6. CASE SweepBegin(r)
  <2> DEFINE due == subscription = "CANCELED" /\ retainedUntil # Never /\ retainedUntil <= day
             v == Reap(IF due THEN "expire" ELSE "accounts", "retention")
  <2>1. v \in ReaperState /\ v.pc # "blob" /\ v.blob = NoBlob
    BY NoBlobApart DEF Reap, ReaperState, ReaperPc, NoLetter
  <2>2. reaper' = [reaper EXCEPT ![r] = v]
    BY <1>6 DEF SweepBegin
  <2>3. UNCHANGED <<storeVars, region, upload, mover>>
    BY <1>6 DEF SweepBegin
  <2> HIDE DEF v
  <2> QED
    BY <1>3, <2>1, <2>2, <2>3
<1>7. CASE SweepAccounts(r)
  <2> DEFINE due == deletionAt # Never /\ deletionAt <= day
             v == IF due THEN Reap("list", "deletion") ELSE Resting
  <2>1. v \in ReaperState /\ v.pc # "blob" /\ v.blob = NoBlob
    BY <1>0, NoBlobApart DEF Reap, ReaperState, ReaperPc, NoLetter
  <2>2. reaper' = [reaper EXCEPT ![r] = v]
    BY <1>7 DEF SweepAccounts
  <2>3. UNCHANGED <<storeVars, region, upload, mover>>
    BY <1>7 DEF SweepAccounts
  <2> HIDE DEF v
  <2> QED
    BY <1>3, <2>1, <2>2, <2>3
<1>8. CASE PurgeList(r)
  <2> DEFINE v == [a EXCEPT !.pc = "letters", !.letters = {l \in Letter : RowExists(l)}]
  <2>1. v \in ReaperState /\ v.pc # "blob" /\ v.blob = reaper[r].blob
    BY <1>1 DEF ReaperState, ReaperPc
  <2>2. reaper' = [reaper EXCEPT ![r] = v]
    BY <1>0, <1>1, <1>8 DEF PurgeList
  <2>3. UNCHANGED <<storeVars, region, upload, mover>>
    BY <1>8 DEF PurgeList
  <2> HIDE DEF v
  <2> QED
    BY <1>3, <2>1, <2>2, <2>3
<1>9. ASSUME NEW l \in Letter, PurgeLetter(r, l) PROVE StoreInv'
  <2> DEFINE v == [a EXCEPT !.pc = "files", !.letters = @ \ {l}, !.letter = l,
                                    !.files = Attached(l)]
  <2>1. v \in ReaperState /\ v.pc # "blob" /\ v.blob = reaper[r].blob
    BY <1>1 DEF ReaperState, ReaperPc, Attached, FilesOf
  <2>2. reaper' = [reaper EXCEPT ![r] = v]
    BY <1>0, <1>1, <1>9 DEF PurgeLetter
  <2>3. UNCHANGED <<storeVars, region, upload, mover>>
    BY <1>9 DEF PurgeLetter
  <2> HIDE DEF v
  <2> QED
    BY <1>3, <2>1, <2>2, <2>3
<1>10. ASSUME NEW l \in Letter, DeleteLetter(r, l) PROVE StoreInv'
  <2> DEFINE v == [a EXCEPT !.pc = "files", !.letter = l, !.files = Attached(l)]
  <2>1. v \in ReaperState /\ v.pc # "blob" /\ v.blob = reaper[r].blob
    BY <1>1 DEF ReaperState, ReaperPc, Attached, FilesOf
  <2>2. reaper' = [reaper EXCEPT ![r] = v]
    BY <1>0, <1>1, <1>10 DEF DeleteLetter
  <2>3. UNCHANGED <<storeVars, region, upload, mover>>
    BY <1>10 DEF DeleteLetter
  <2> HIDE DEF v
  <2> QED
    BY <1>3, <2>1, <2>2, <2>3
<1>11. CASE EraseLetter(r)
  <2> DEFINE v == [a EXCEPT !.pc = "letters", !.letter = NoLetter]
  <2>1. v \in ReaperState /\ v.pc # "blob" /\ v.blob = reaper[r].blob
    BY <1>1 DEF ReaperState, ReaperPc
  <2>2. reaper' = [reaper EXCEPT ![r] = v]
    BY <1>0, <1>1, <1>11 DEF EraseLetter
  <2>3. UNCHANGED <<storeVars, region, upload, mover>>
    BY <1>11 DEF EraseLetter
  <2> HIDE DEF v
  <2> QED
    BY <1>3, <2>1, <2>2, <2>3
<1>12. CASE PurgeBlobFails(r)
  <2> DEFINE v == [a EXCEPT !.pc = "files", !.blob = NoBlob]
  <2>1. v \in ReaperState /\ v.pc # "blob" /\ v.blob = NoBlob
    BY NoBlobApart DEF ReaperState, ReaperPc
  <2>2. reaper' = [reaper EXCEPT ![r] = v]
    BY <1>0, <1>1, <1>12 DEF PurgeBlobFails
  <2>3. UNCHANGED <<storeVars, region, upload, mover>>
    BY <1>12 DEF PurgeBlobFails
  <2> HIDE DEF v
  <2> QED
    BY <1>3, <2>1, <2>2, <2>3
<1> QED
  BY <1>4, <1>5, <1>6, <1>7, <1>8, <1>9, <1>10, <1>11, <1>12

-----------------------------------------------------------------------------
(* The steps that write: fresh bytes are nobody's, and only bytes that no  *)
(* row points at are deleted.                                              *)

LEMMA Fresh ==
  ASSUME StoreInv, NEW r \in Region, NEW f \in File
  PROVE  LET n == FreshKey(r, f)
         IN /\ n \in Blob /\ n.holds = f /\ n.id = puts + 1
            /\ n \notin stored
            /\ \A x \in File : key[x] # n
            /\ \A m \in Mover : n \notin mover[m].todo /\ mover[m].old # n
            /\ \A x \in Reaper : reaper[x].blob # n
            /\ \A l \in Letter : upload[l].pc = "row" => upload[l].blob # n
            /\ \A m \in Mover : mover[m].pc = "repoint" => mover[m].new # n
<1> DEFINE n == FreshKey(r, f)
<1>1. n \in Blob /\ n.holds = f /\ n.id = puts + 1
  BY DEF FreshKey, Blob, StoreInv, StoreTypes
<1> HIDE DEF n
<1>2. puts \in Nat
  BY DEF StoreInv, StoreTypes
<1>3. n \notin stored /\ n # NoBlob
  BY <1>1, <1>2, NoBlobApart DEF StoreInv, Numbered
<1>4. \A x \in File : key[x] # n
  BY <1>3 DEF StoreInv, RowsResolve
<1>5. \A m \in Mover : n \notin mover[m].todo /\ mover[m].old # n
  BY <1>1, <1>2 DEF StoreInv, Numbered
<1>6. \A x \in Reaper : reaper[x].blob # n
  BY <1>1, <1>2 DEF StoreInv, Numbered
<1>7. /\ \A l \in Letter : upload[l].pc = "row" => upload[l].blob # n
      /\ \A m \in Mover : mover[m].pc = "repoint" => mover[m].new # n
  BY <1>3 DEF StoreInv, Uploads, Moves, Secret
<1> QED
  BY <1>1, <1>3, <1>4, <1>5, <1>6, <1>7 DEF n

LEMMA NumberedStill ==
  ASSUME StoreInv, NEW n \in Blob, n.id = puts + 1,
         stored' \subseteq stored \cup {n}, puts' = puts + 1,
         \A m \in Mover : mover'[m].old = mover[m].old /\ mover'[m].todo = mover[m].todo,
         UNCHANGED reaper
  PROVE  Numbered'
<1>1. \A b \in Blob \cup {NoBlob} : b.id \in Nat
  BY NoBlobApart DEF Blob
<1>2. \A b \in Key : b.id <= puts => b.id <= puts'
  BY <1>1 DEF Key, StoreInv, StoreTypes
<1>3. stored' \subseteq Key /\ \A b \in stored' : b.id <= puts'
  BY <1>1, <1>2 DEF StoreInv, StoreTypes, Numbered, Key
<1>4. \A m \in Mover : mover[m].old \in Key /\ mover[m].todo \subseteq Key
  BY DEF StoreInv, StoreTypes, MoverState, Key
<1>5. \A x \in Reaper : reaper[x].blob \in Key
  BY DEF StoreInv, StoreTypes, ReaperState
<1>6. \A m \in Mover : mover[m].old.id <= puts' /\ \A b \in mover[m].todo : b.id <= puts'
  BY <1>2, <1>4 DEF StoreInv, Numbered
<1>7. \A x \in Reaper : reaper[x].blob.id <= puts'
  BY <1>2, <1>5 DEF StoreInv, Numbered
<1> QED
  BY <1>3, <1>6, <1>7 DEF Numbered

LEMMA UploadPutStep ==
  ASSUME StoreInv, NEW l \in Letter, NEW f \in File, UploadPut(l, f), UNCHANGED reaper
  PROVE  StoreInv'
<1>0. PICK n : n = FreshKey(upload[l].region, f)
  OBVIOUS
<1>1. upload \in [Letter -> UploadState] /\ upload[l] \in UploadState /\ upload[l].region \in Region
  BY DEF StoreInv, StoreTypes, UploadState
<1>2. /\ stored' = stored \cup {n} /\ puts' = puts + 1 /\ puts \in Nat
      /\ upload' = [upload EXCEPT ![l].pc = "row", ![l].blob = n]
      /\ UNCHANGED <<key, mover, reaper, region>>
  BY <1>0 DEF UploadPut, Put, sealFrame, StoreInv, StoreTypes
<1>3. /\ n \in Blob /\ n.holds = f /\ n.id = puts + 1
      /\ n \notin stored
      /\ \A x \in File : key[x] # n
      /\ \A m \in Mover : n \notin mover[m].todo /\ mover[m].old # n
      /\ \A x \in Reaper : reaper[x].blob # n
      /\ \A x \in Letter : upload[x].pc = "row" => upload[x].blob # n
      /\ \A m \in Mover : mover[m].pc = "repoint" => mover[m].new # n
  BY <1>0, <1>1, Fresh
<1>4. /\ upload'[l].pc = "row" /\ upload'[l].blob = n /\ upload' \in [Letter -> UploadState]
      /\ \A x \in Letter : x # l => upload'[x] = upload[x]
  <2>1. PICK a \in UploadState : a = upload[l]
    BY <1>1
  <2>2. PICK u : u = [a EXCEPT !.pc = "row", !.blob = n]
    OBVIOUS
  <2>3. u \in UploadState /\ u.pc = "row" /\ u.blob = n
    BY <1>3, <2>2 DEF UploadState, Key
  <2>4. upload' = [upload EXCEPT ![l] = u]
    BY <1>2, <2>1, <2>2
  <2> QED
    BY <1>1, <2>3, <2>4
<1>5. StoreTypes' /\ RowsResolve' /\ Numbered'
  BY <1>2, <1>3, <1>4, NumberedStill DEF StoreInv, StoreTypes, RowsResolve
<1>6. MakersApart'
  BY <1>2, <1>3, <1>4 DEF StoreInv, MakersApart
<1>7. (\A b : Secret(b) => Secret(b)') /\ Secret(n)'
  BY <1>2, <1>3 DEF Secret
<1>8. Uploads'
  BY <1>4, <1>7 DEF StoreInv, Uploads
<1>9. Moves' /\ Purges'
  BY <1>2, <1>7 DEF StoreInv, Moves, Purges, Spent
<1> QED
  BY <1>5, <1>6, <1>8, <1>9 DEF StoreInv

LEMMA MovePutStep ==
  ASSUME StoreInv, NEW m \in Mover, MovePut(m), UNCHANGED reaper
  PROVE  StoreInv'
<1>0. PICK n : n = FreshKey(mover[m].target, mover[m].old.holds)
  OBVIOUS
<1>1. /\ mover \in [Mover -> MoverState] /\ mover[m] \in MoverState
      /\ mover[m].target \in Region /\ mover[m].old \in Blob /\ mover[m].old.holds \in File
  BY DEF StoreInv, StoreTypes, MoverState, MovePut, Moves, Blob
<1>2. /\ stored' = stored \cup {n} /\ puts' = puts + 1 /\ puts \in Nat
      /\ mover' = [mover EXCEPT ![m].pc = "repoint", ![m].new = n]
      /\ UNCHANGED <<key, upload, reaper, region>>
  BY <1>0 DEF MovePut, Put, moveFrame, StoreInv, StoreTypes
<1>3. /\ n \in Blob /\ n.holds = mover[m].old.holds /\ n.id = puts + 1
      /\ n \notin stored
      /\ \A x \in File : key[x] # n
      /\ \A x \in Mover : n \notin mover[x].todo /\ mover[x].old # n
      /\ \A x \in Reaper : reaper[x].blob # n
      /\ \A x \in Letter : upload[x].pc = "row" => upload[x].blob # n
      /\ \A x \in Mover : mover[x].pc = "repoint" => mover[x].new # n
  BY <1>0, <1>1, Fresh
<1>4. /\ mover'[m].pc = "repoint" /\ mover'[m].new = n /\ mover' \in [Mover -> MoverState]
      /\ mover'[m].old = mover[m].old /\ mover'[m].todo = mover[m].todo
      /\ \A x \in Mover : x # m => mover'[x] = mover[x]
  BY <1>1, <1>2, <1>3 DEF MoverState, Key
<1>5. \A x \in Mover : mover'[x].old = mover[x].old /\ mover'[x].todo = mover[x].todo
  BY <1>4
<1>6. StoreTypes' /\ RowsResolve'
  BY <1>2, <1>3, <1>4 DEF StoreInv, StoreTypes, RowsResolve
<1>7. Numbered'
  BY <1>2, <1>3, <1>5, NumberedStill
<1>8. MakersApart'
  BY <1>2, <1>3, <1>4 DEF StoreInv, MakersApart
<1>9. (\A b : Secret(b) => Secret(b)') /\ Secret(n)'
  BY <1>2, <1>3, <1>5 DEF Secret
<1>10. Uploads' /\ Purges'
  BY <1>2, <1>9 DEF StoreInv, Uploads, Purges, Spent
<1>11. Moves'
  BY <1>1, <1>2, <1>3, <1>4, <1>9 DEF StoreInv, Moves, Spent
<1> QED
  BY <1>6, <1>7, <1>8, <1>10, <1>11 DEF StoreInv

\* A secret blob becomes the blob of a row, and is secret no more.
LEMMA UploadRowStep ==
  ASSUME StoreInv, NEW l \in Letter, UploadRow(l), UNCHANGED reaper
  PROVE  StoreInv'
<1> DEFINE b == upload[l].blob
           u == IF upload[l].todo \ {b.holds} = {} THEN NotUploading
                ELSE Upload("put", upload[l].region, upload[l].todo \ {b.holds}, NoBlob)
<1>1. upload \in [Letter -> UploadState] /\ key \in [File -> Key]
  BY DEF StoreInv, StoreTypes
<1>2. Secret(b) /\ b \in stored /\ b \in Blob /\ b.holds \in File
  BY DEF StoreInv, StoreTypes, Uploads, UploadRow, Secret, Blob
<1>3. u \in UploadState /\ u.pc # "row"
  BY <1>1, NoBlobApart DEF UploadState, Upload, NotUploading
<1>4. /\ upload' = [upload EXCEPT ![l] = u] /\ key' = [key EXCEPT ![b.holds] = b]
      /\ UNCHANGED <<stored, puts, region, mover, reaper>>
  BY DEF UploadRow, UploadNext, sealFrame, blobVars
<1>5. \A x \in Letter : upload[x].pc = "row" /\ x # l => upload[x].blob # b
  BY DEF StoreInv, MakersApart, UploadRow
<1>6. \A x \in Mover : mover[x].pc = "repoint" => mover[x].new # b
  BY DEF StoreInv, MakersApart, UploadRow
<1> HIDE DEF b, u
<1>7. \A x \in Letter : upload'[x].pc = "row" => upload'[x] = upload[x] /\ upload[x].pc = "row" /\ x # l
  BY <1>1, <1>3, <1>4
<1>8. StoreTypes' /\ RowsResolve' /\ Numbered' /\ MakersApart'
  BY <1>1, <1>2, <1>3, <1>4, <1>7 DEF StoreInv, StoreTypes, RowsResolve, Numbered, MakersApart, Key
<1>9. \A c : Secret(c) /\ c # b => Secret(c)'
  BY <1>1, <1>2, <1>4 DEF Secret
<1>10. Uploads'
  BY <1>5, <1>7, <1>9 DEF StoreInv, Uploads
<1>11. \A c : Spent(c) /\ c # b => Spent(c)'
  BY <1>1, <1>2, <1>4 DEF Spent
<1>12. Moves' /\ Purges'
  BY <1>2, <1>4, <1>6, <1>9, <1>11 DEF StoreInv, Moves, Purges, Secret
<1> QED
  BY <1>8, <1>10, <1>12 DEF StoreInv

LEMMA MoveRepointStep ==
  ASSUME StoreInv, NEW m \in Mover, MoveRepoint(m), UNCHANGED reaper
  PROVE  StoreInv'
<1>0. PICK n : n = mover[m].new
  OBVIOUS
<1>1. /\ mover \in [Mover -> MoverState] /\ mover[m] \in MoverState /\ key \in [File -> Key]
      /\ mover[m].pc = "repoint" /\ Secret(n) /\ n.holds = mover[m].old.holds
      /\ n \in stored /\ n \in Blob /\ n.holds \in File /\ mover[m].old \in Blob
      /\ mover[m].old # n
  BY <1>0 DEF MoveRepoint, StoreInv, StoreTypes, Moves, Secret, Blob
<1>2. /\ key' = [key EXCEPT ![n.holds] = IF key[n.holds] = NoBlob THEN NoBlob ELSE n]
      /\ mover' = [mover EXCEPT ![m].pc = "delete"]
      /\ UNCHANGED <<stored, puts, region, upload, reaper>>
  BY <1>0 DEF MoveRepoint, Repoint, moveFrame, blobVars
<1>3. /\ mover'[m].pc = "delete" /\ mover' \in [Mover -> MoverState]
      /\ mover'[m].old = mover[m].old /\ mover'[m].todo = mover[m].todo
      /\ \A x \in Mover : x # m => mover'[x] = mover[x]
  BY <1>1, <1>2 DEF MoverState
<1>4. \A f \in File : key'[f] \in {key[f], n, NoBlob}
  BY <1>1, <1>2
<1>5. \A x \in Mover : mover'[x].old = mover[x].old /\ mover'[x].todo = mover[x].todo
  BY <1>3
<1>6. StoreTypes'
  BY <1>1, <1>2, <1>3, NoBlobApart DEF StoreInv, StoreTypes, Key
<1>7. RowsResolve' /\ Numbered'
  BY <1>1, <1>2, <1>5 DEF StoreInv, RowsResolve, Numbered
<1>8. MakersApart'
  BY <1>2, <1>3 DEF StoreInv, MakersApart
<1>9. \A c : Secret(c) /\ c # n => Secret(c)'
  BY <1>2, <1>4, <1>5, NoBlobApart DEF Secret, StoreInv, StoreTypes
<1>10. \A c \in Blob : Spent(c) /\ c # n => Spent(c)'
  BY <1>4, NoBlobApart DEF Spent
<1>11. Spent(mover[m].old)'
  <2>1. ASSUME NEW f \in File PROVE key'[f] # mover[m].old
    <3>1. CASE f = n.holds
      BY <1>1, <1>2, <3>1, NoBlobApart
    <3>2. CASE f # n.holds
      <4>1. key'[f] = key[f]
        BY <1>1, <1>2, <3>2
      <4> QED
        BY <1>1, <3>2, <4>1, NoBlobApart DEF StoreInv, RowsResolve
    <3> QED
      BY <3>1, <3>2
  <2> QED
    BY <1>3, <2>1 DEF Spent
<1>12. Uploads'
  BY <1>0, <1>1, <1>2, <1>9 DEF StoreInv, Uploads, MakersApart
<1>13. Moves'
  <2> SUFFICES ASSUME NEW x \in Mover
               PROVE  /\ mover'[x].pc \in {"put", "repoint", "delete"} => mover'[x].old \in Blob
                      /\ mover'[x].pc = "repoint" =>
                           Secret(mover[x].new)' /\ mover'[x].new.holds = mover'[x].old.holds
                      /\ mover'[x].pc = "delete" => Spent(mover[x].old)'
    BY DEF Moves
  <2>1. CASE x = m
    BY <1>1, <1>3, <1>11, <2>1
  <2>2. CASE x # m
    <3>1. mover'[x] = mover[x]
      BY <1>3, <2>2
    <3>2. mover[x].pc = "repoint" => Secret(mover[x].new)'
      BY <1>0, <1>1, <1>9, <2>2, <3>1 DEF StoreInv, Moves, MakersApart
    <3>3. mover[x].pc = "delete" => mover[x].old \in Blob /\ mover[x].old # n
      BY <1>1 DEF StoreInv, Moves, Secret
    <3>4. mover[x].pc = "delete" => Spent(mover[x].old)'
      BY <1>10, <3>1, <3>3 DEF StoreInv, Moves
    <3> QED
      BY <3>1, <3>2, <3>4 DEF StoreInv, Moves
  <2> QED
    BY <2>1, <2>2
<1>14. Purges'
  BY <1>1, <1>2, <1>10 DEF StoreInv, Purges, Secret
<1> QED
  BY <1>6, <1>7, <1>8, <1>12, <1>13, <1>14 DEF StoreInv

\* Deleting what no row points at, and no handler keeps secret.
LEMMA Deleted ==
  ASSUME StoreInv, NEW b, Spent(b), ~Secret(b), stored' = stored \ {b}, UNCHANGED key,
         \A m \in Mover : mover'[m].old \in {NoBlob, mover[m].old}
                          /\ mover'[m].todo \subseteq mover[m].todo,
         \A r \in Reaper : reaper'[r].blob \in {NoBlob, reaper[r].blob}
  PROVE  /\ RowsResolve'
         /\ \A c : Secret(c) => Secret(c)'
         /\ \A c : Spent(c) => Spent(c)'
<1>1. RowsResolve'
  BY DEF StoreInv, RowsResolve, Spent
<1>2. ASSUME NEW c, Secret(c) PROVE Secret(c)'
  BY <1>2, NoBlobApart DEF Secret, StoreInv, StoreTypes
<1> QED
  BY <1>1, <1>2 DEF Spent

LEMMA MoveDeleteStep ==
  ASSUME StoreInv, NEW m \in Mover, MoveDelete(m), UNCHANGED reaper
  PROVE  StoreInv'
<1>0. PICK b : b = mover[m].old
  OBVIOUS
<1>1. /\ mover \in [Mover -> MoverState] /\ mover[m] \in MoverState
      /\ Spent(b) /\ ~Secret(b)
      /\ stored' = stored \ {b} /\ UNCHANGED <<puts, key, region, upload, reaper>>
  BY <1>0 DEF MoveDelete, Delete, moveFrame, StoreInv, StoreTypes, Moves, Secret
<1>2. PICK v : v = Move("get", mover[m].target, mover[m].todo \ {b})
  OBVIOUS
<1>3. v \in MoverState /\ v.pc = "get" /\ v.old = NoBlob /\ v.todo \subseteq mover[m].todo
  BY <1>1, <1>2, NoBlobApart DEF Move, MoverState
<1>4. mover' = [mover EXCEPT ![m] = v]
  BY <1>0, <1>2 DEF MoveDelete, MoveOn
<1>5. mover'[m] = v /\ \A x \in Mover : x # m => mover'[x] = mover[x]
  BY <1>1, <1>4
<1>6. StoreTypes'
  BY <1>1, <1>3, <1>4 DEF StoreInv, StoreTypes
<1>7. /\ RowsResolve'
      /\ \A c : Secret(c) => Secret(c)'
      /\ \A c : Spent(c) => Spent(c)'
  BY <1>1, <1>3, <1>5, Deleted
<1>8. Numbered'
  BY <1>1, <1>3, <1>5, NoBlobApart DEF StoreInv, StoreTypes, Numbered
<1>9. MakersApart' /\ Uploads' /\ Purges'
  BY <1>1, <1>3, <1>5, <1>7 DEF StoreInv, MakersApart, Uploads, Purges
<1>10. Moves'
  BY <1>3, <1>5, <1>7 DEF StoreInv, Moves
<1> QED
  BY <1>6, <1>7, <1>8, <1>9, <1>10 DEF StoreInv

LEMMA PurgeRowStep ==
  ASSUME StoreInv, NEW r \in Reaper, NEW f \in File, PurgeRow(r, f)
  PROVE  StoreInv'
<1>0. PICK b : b = key[f]
  OBVIOUS
<1>1. /\ reaper \in [Reaper -> ReaperState] /\ reaper[r] \in ReaperState
      /\ key \in [File -> Key] /\ b \in Key
      /\ key' = [key EXCEPT ![f] = NoBlob]
      /\ UNCHANGED <<stored, puts, region, upload, mover>>
  BY <1>0 DEF StoreInv, StoreTypes, PurgeRow, reapFrame
<1>2. PICK v : v = [reaper[r] EXCEPT !.files = @ \ {f}, !.blob = b,
                                     !.pc = IF b = NoBlob THEN "files" ELSE "blob"]
  OBVIOUS
<1>3. v \in ReaperState /\ v.blob = b /\ (v.pc = "blob" => b \in Blob)
  BY <1>1, <1>2 DEF ReaperState, ReaperPc, Key
<1>4. reaper' = [reaper EXCEPT ![r] = v]
  BY <1>0, <1>1, <1>2 DEF PurgeRow, ReaperState
<1>5. reaper'[r] = v /\ \A x \in Reaper : x # r => reaper'[x] = reaper[x]
  BY <1>1, <1>4
<1>6. key'[f] = NoBlob /\ \A g \in File : g # f => key'[g] = key[g]
  BY <1>1
<1>7. StoreTypes' /\ RowsResolve' /\ MakersApart'
  BY <1>1, <1>3, <1>4, <1>6, NoBlobApart DEF StoreInv, StoreTypes, RowsResolve, MakersApart
<1>8. Numbered'
  <2>1. b.id <= puts
    BY <1>0, NoBlobApart DEF StoreInv, StoreTypes, RowsResolve, Numbered
  <2> QED
    BY <1>1, <1>3, <1>5, <2>1 DEF StoreInv, Numbered
<1>9. \A c : Secret(c) => Secret(c)'
  <2> SUFFICES ASSUME NEW c, Secret(c) PROVE Secret(c)'
    OBVIOUS
  <2>1. c # NoBlob /\ c # b
    BY <1>0, NoBlobApart DEF Secret, StoreInv, StoreTypes
  <2> QED
    BY <1>1, <1>3, <1>5, <1>6, <2>1 DEF Secret
<1>10. \A c \in Blob : Spent(c) => Spent(c)'
  BY <1>6, NoBlobApart DEF Spent
<1>11. b \in Blob => Spent(b)'
  BY <1>0, <1>6, NoBlobApart DEF StoreInv, RowsResolve, Spent
<1>12. Uploads' /\ Moves'
  BY <1>1, <1>9, <1>10 DEF StoreInv, Uploads, Moves
<1>13. Purges'
  BY <1>3, <1>5, <1>10, <1>11 DEF StoreInv, Purges
<1> QED
  BY <1>7, <1>8, <1>12, <1>13 DEF StoreInv

LEMMA PurgeBlobStep ==
  ASSUME StoreInv, NEW r \in Reaper, PurgeBlob(r)
  PROVE  StoreInv'
<1>0. PICK b : b = reaper[r].blob
  OBVIOUS
<1>1. /\ reaper \in [Reaper -> ReaperState] /\ reaper[r] \in ReaperState
      /\ Spent(b) /\ ~Secret(b)
      /\ stored' = stored \ {b} /\ UNCHANGED <<puts, key, region, upload, mover>>
  BY <1>0 DEF PurgeBlob, Delete, StoreInv, StoreTypes, Purges, Secret
<1>2. PICK v : v = [reaper[r] EXCEPT !.pc = "files", !.blob = NoBlob]
  OBVIOUS
<1>3. v \in ReaperState /\ v.pc = "files" /\ v.blob = NoBlob
  BY <1>1, <1>2, NoBlobApart DEF ReaperState, ReaperPc
<1>4. reaper' = [reaper EXCEPT ![r] = v]
  BY <1>1, <1>2 DEF PurgeBlob, ReaperState
<1>5. reaper'[r] = v /\ \A x \in Reaper : x # r => reaper'[x] = reaper[x]
  BY <1>1, <1>4
<1>6. StoreTypes'
  BY <1>1, <1>3, <1>4 DEF StoreInv, StoreTypes
<1>7. /\ RowsResolve'
      /\ \A c : Secret(c) => Secret(c)'
      /\ \A c : Spent(c) => Spent(c)'
  BY <1>1, <1>3, <1>5, Deleted
<1>8. Numbered' /\ MakersApart'
  BY <1>1, <1>3, <1>5, NoBlobApart DEF StoreInv, StoreTypes, Numbered, MakersApart
<1>9. Uploads' /\ Moves'
  BY <1>1, <1>7 DEF StoreInv, Uploads, Moves
<1>10. Purges'
  BY <1>3, <1>5, <1>7 DEF StoreInv, Purges
<1> QED
  BY <1>6, <1>7, <1>8, <1>9, <1>10 DEF StoreInv

LEMMA DropLetterStep ==
  ASSUME StoreInv, NEW d \in Deleter, DropLetter(d)
  PROVE  StoreInv'
<1>1. /\ d \in Reaper /\ reaper \in [Reaper -> ReaperState] /\ key \in [File -> Key]
      /\ Resting \in ReaperState /\ Resting.blob = NoBlob /\ Resting.pc = "idle"
      /\ reaper' = [reaper EXCEPT ![d] = Resting]
      /\ UNCHANGED <<stored, puts, region, upload, mover>>
  BY NoBlobApart DEF StoreInv, StoreTypes, DropLetter, reapFrame, Reaper, Resting, Reap,
       ReaperState, ReaperPc, NoLetter
<1>2. reaper'[d] = Resting /\ \A x \in Reaper : x # d => reaper'[x] = reaper[x]
  BY <1>1
<1>3. key' \in [File -> Key] /\ \A f \in File : key'[f] \in {key[f], NoBlob}
  BY <1>1, NoBlobApart DEF DropLetter
<1>4. StoreTypes' /\ RowsResolve' /\ MakersApart'
  BY <1>1, <1>3 DEF StoreInv, StoreTypes, RowsResolve, MakersApart
<1>5. Numbered'
  BY <1>1, <1>2, NoBlobApart DEF StoreInv, StoreTypes, Numbered
<1>6. \A c : Secret(c) => Secret(c)'
  <2> SUFFICES ASSUME NEW c, Secret(c) PROVE Secret(c)'
    OBVIOUS
  <2>1. c # NoBlob
    BY NoBlobApart DEF Secret, StoreInv, StoreTypes
  <2> QED
    BY <1>1, <1>2, <1>3, <2>1 DEF Secret
<1>7. \A c \in Blob : Spent(c) => Spent(c)'
  BY <1>3, NoBlobApart DEF Spent
<1>8. Uploads' /\ Moves'
  BY <1>1, <1>6, <1>7 DEF StoreInv, Uploads, Moves
<1>9. Purges'
  BY <1>1, <1>2, <1>7 DEF StoreInv, Purges
<1> QED
  BY <1>4, <1>5, <1>8, <1>9 DEF StoreInv

-----------------------------------------------------------------------------
LEMMA StepInv == StoreInv /\ [EstateNext]_estateVars => StoreInv'
<1> SUFFICES ASSUME StoreInv, [EstateNext]_estateVars PROVE StoreInv'
  OBVIOUS
<1>1. CASE UNCHANGED estateVars
  BY <1>1, Frame DEF estateVars, blobVars, contentVars, storeVars
<1>2. CASE ContentsNext
  <2> USE DEF ContentsNext, accountVars
  <2>1. ASSUME NEW l \in Letter,
               \/ SealLetter(l) \/ \E fs \in SUBSET FilesOf(l) : SealMultipart(l, fs)
               \/ SealInsert(l) \/ UploadRefused(l) \/ UploadStops(l)
        PROVE  StoreInv'
    BY <1>2, <2>1, UploadSteps
  <2>2. ASSUME NEW l \in Letter, NEW f \in FilesOf(l), UploadPut(l, f) PROVE StoreInv'
    BY <1>2, <2>2, UploadPutStep DEF FilesOf
  <2>3. ASSUME NEW l \in Letter, UploadRow(l) PROVE StoreInv'
    BY <1>2, <2>3, UploadRowStep
  <2>4. ASSUME NEW m \in Mover,
               \/ \E r \in Region : MoveBegin(m, r)
               \/ \E b \in mover[m].todo : MoveGet(m, b) \/ MoveMissing(m, b)
               \/ MoveList(m) \/ MoveDone(m) \/ MoveStops(m) \/ MoveDeleteFails(m)
        PROVE  StoreInv'
    BY <1>2, <2>4, MoverSteps
  <2>5. ASSUME NEW m \in Mover, MovePut(m) \/ MoveRepoint(m) \/ MoveDelete(m) PROVE StoreInv'
    BY <1>2, <2>5, MovePutStep, MoveRepointStep, MoveDeleteStep
  <2>6. CASE ReleaseVault \/ SendList \/ SendNotify \/ SendDone \/ SendFails
    BY <1>2, <2>6, Frame
       DEF ReleaseVault, SendList, SendNotify, SendDone, SendFails, sendFrame, storeVars
  <2>7. ASSUME NEW l \in Letter, SendLetter(l) \/ OpenLetter(l) PROVE StoreInv'
    BY <1>2, <2>7, Frame DEF SendLetter, OpenLetter, sendFrame, claimFrame, storeVars
  <2>8. ASSUME NEW f \in File, SendFile(f) \/ FetchAttachment(f) \/ OpenAttachment(f)
        PROVE  StoreInv'
    BY <1>2, <2>8, Frame
       DEF SendFile, FetchAttachment, OpenAttachment, sendFrame, claimFrame, storeVars
  <2>9. ASSUME NEW t \in Ticket, ConsumeClaim(t) \/ ClaimStops(t) PROVE StoreInv'
    BY <1>2, <2>9, Frame DEF ConsumeClaim, ClaimStops, claimFrame, storeVars, blobVars
  <2> QED
    BY <1>2, <2>1, <2>2, <2>3, <2>4, <2>5, <2>6, <2>7, <2>8, <2>9 DEF ContentsStep
<1>3. CASE AccountStep
  BY <1>3, Frame
     DEF AccountStep, DayPasses, CancelSubscription, ReactivateSubscription, RequestDeletion,
         CancelDeletion, accountFrame, blobVars, contentVars, storeVars
<1>4. ASSUME NEW s \in Sweeper, SweepStep(s) PROVE StoreInv'
  BY <1>4, ReaperSteps DEF SweepStep, Reaper
<1>5. ASSUME NEW d \in Deleter, DropLetter(d) \/ \E l \in Letter : DeleteLetter(d, l)
      PROVE  StoreInv'
  BY <1>5, ReaperSteps, DropLetterStep DEF Reaper
<1>6. ASSUME NEW r \in Reaper, ReapStep(r) PROVE StoreInv'
  BY <1>6, PurgeRowStep, PurgeBlobStep DEF ReapStep
<1>7. ASSUME NEW r \in Reaper, ReapFault(r) PROVE StoreInv'
  BY <1>7, ReaperSteps DEF ReapFault
<1> QED
  BY <1>1, <1>2, <1>3, <1>4, <1>5, <1>6, <1>7 DEF EstateNext

\* In every state the handlers can reach, each attachment's row, each handler half-way
\* through an upload, a move or a purge, and the store agree on which bytes are whose
\* (create_attachment, update_attachment_storage_key, purge_attachment and their callers).
THEOREM StoreInductive == EstateSpec => []StoreInv
  BY InitInv, StepInv, PTL DEF EstateSpec

\* A row never points at bytes that are gone or are another attachment's, for any number
\* of uploads, moves, sweeps and deletions at once, wherever each of them stops
\* (move_vault_region, routes.rs, lines 490-491).
THEOREM RowsNeverDangle == EstateSpec => []RowsResolve
<1>1. StoreInv => RowsResolve
  BY DEF StoreInv
<1> QED
  BY <1>1, StoreInductive, PTL

-----------------------------------------------------------------------------
(* Types.                                                                  *)

SendingState == [pc: {"idle", "claim", "list", "files"}, letters: SUBSET Letter,
                 files: SUBSET File]

RowTypes ==
  /\ vaultState \in {"ACTIVE", "RELEASED"} /\ sending \in SendingState
  /\ letter \in [Letter -> LetterState] /\ token \in [Ticket -> TokenState]
  /\ heir \in [File -> Key]
  /\ moves \in 0..MaxMoves /\ stops \in 0..MaxStops

AccountTypes ==
  /\ ops \in Plots /\ day \in Nat
  /\ subscription \in SubscriptionState
  /\ retainedUntil \in Nat /\ deletionAt \in Nat
  /\ reprieved \in BOOLEAN /\ clashed \in BOOLEAN

LEMMA TypeParts == EstateTypeOK <=> StoreTypes /\ RowTypes /\ AccountTypes
  BY DEF EstateTypeOK, StoreTypes, RowTypes, AccountTypes, ContentsTypeOK, BlobTypeOK, SendingState

LEMMA InitTypes == EstateInit => EstateTypeOK
<1> SUFFICES ASSUME EstateInit PROVE EstateTypeOK
  OBVIOUS
<1>1. StoreTypes
  BY InitInv DEF StoreInv
<1>2. sending \in SendingState
  BY DEF EstateInit, ContentsInit, SendingState, Sending
<1>3. RowTypes
  BY <1>2, NoBlobApart DEF EstateInit, ContentsInit, RowTypes, LetterState, TokenState
<1>4. AccountTypes
  BY DEF EstateInit, AccountTypes, SubscriptionState, Never
<1> QED
  BY <1>1, <1>3, <1>4, TypeParts

\* What a handler may write into the rows.
LEMMA LetterWrite ==
  ASSUME letter \in [Letter -> LetterState], NEW l, NEW x \in LetterState,
         letter' = [letter EXCEPT ![l] = x]
  PROVE  letter' \in [Letter -> LetterState]
OBVIOUS

LEMMA TokenWrite ==
  ASSUME token \in [Ticket -> TokenState], NEW t, NEW x \in TokenState,
         token' = [token EXCEPT ![t] = x]
  PROVE  token' \in [Ticket -> TokenState]
OBVIOUS

LEMMA CascadeWrite ==
  ASSUME token \in [Ticket -> TokenState], NEW gone, Cascade(gone)
  PROVE  token' \in [Ticket -> TokenState]
BY DEF Cascade, TokenState

LEMMA ContentsTypes ==
  ASSUME RowTypes, AccountTypes, StoreTypes, ContentsNext
  PROVE  RowTypes' /\ ops' \in Plots
<1> USE DEF RowTypes, ContentsNext, accountVars
<1>0. ops' \in Plots /\ stops + 1 \in Nat /\ moves + 1 \in Nat
  BY DEF AccountTypes
<1>1. ASSUME NEW l \in Letter, NEW fs \in SUBSET FilesOf(l), SealBegin(l, fs) PROVE RowTypes'
  BY <1>1 DEF SealBegin, sealFrame
<1>2. ASSUME NEW l \in Letter,
             SealInsert(l) \/ UploadRow(l) \/ UploadRefused(l) \/ UploadStops(l)
                \/ \E f \in FilesOf(l) : UploadPut(l, f)
      PROVE  RowTypes'
  <2>1. CASE SealInsert(l)
    BY <2>1, LetterWrite, "sealed" \in LetterState DEF SealInsert, sealFrame, LetterState
  <2>2. CASE UploadRow(l) \/ UploadRefused(l) \/ \E f \in FilesOf(l) : UploadPut(l, f)
    BY <2>2 DEF UploadRow, UploadRefused, UploadPut, sealFrame
  <2>3. CASE UploadStops(l)
    BY <1>0, <2>3 DEF UploadStops, blobVars
  <2> QED
    BY <1>2, <2>1, <2>2, <2>3
<1>3. ASSUME NEW m \in Mover, NEW r \in Region, MoveBegin(m, r) PROVE RowTypes'
  BY <1>0, <1>3 DEF MoveBegin, moveFrame
<1>4. ASSUME NEW m \in Mover,
             \/ \E b \in mover[m].todo : MoveGet(m, b) \/ MoveMissing(m, b)
             \/ MoveList(m) \/ MovePut(m) \/ MoveRepoint(m) \/ MoveDelete(m) \/ MoveDone(m)
      PROVE  RowTypes'
  BY <1>4 DEF MoveGet, MoveMissing, MoveList, MovePut, MoveRepoint, MoveDelete, MoveDone, moveFrame
<1>5. ASSUME NEW m \in Mover, MoveStops(m) \/ MoveDeleteFails(m) PROVE RowTypes'
  BY <1>0, <1>5 DEF MoveStops, MoveDeleteFails, blobVars
<1>6. CASE ReleaseVault
  <2>1. sending' \in SendingState
    BY <1>6 DEF ReleaseVault, SendingState, Sending
  <2>2. vaultState' = "RELEASED" /\ UNCHANGED <<letter, token, heir, moves, stops>>
    BY <1>6 DEF ReleaseVault, sendFrame
  <2> QED
    BY <1>0, <2>1, <2>2
<1>7. CASE SendList \/ SendNotify \/ SendDone \/ SendFails
  <2>1. CASE SendList
    <3>1. sending' \in SendingState
      BY <2>1 DEF SendList, SendingState
    <3>2. UNCHANGED <<vaultState, letter, token, heir, moves, stops>>
      BY <2>1 DEF SendList, sendFrame
    <3> QED
      BY <1>0, <3>1, <3>2
  <2>2. CASE SendNotify \/ SendDone \/ SendFails
    <3>1. sending' \in SendingState
      BY <2>2 DEF SendNotify, SendDone, SendFails, Sending, SendingState
    <3>2. UNCHANGED <<vaultState, letter, token, heir, moves, stops>>
      BY <2>2 DEF SendNotify, SendDone, SendFails, sendFrame
    <3> QED
      BY <1>0, <3>1, <3>2
  <2> QED
    BY <1>7, <2>1, <2>2
<1>8. ASSUME NEW l \in Letter, SendLetter(l) PROVE RowTypes'
  <2>1. sending' \in SendingState
    BY <1>8 DEF SendLetter, SendingState, FilesOf
  <2> QED
    BY <1>8, <2>1, TokenWrite DEF SendLetter, sendFrame, TokenState
<1>9. ASSUME NEW f \in File, SendFile(f) PROVE RowTypes'
  <2>1. sending' \in SendingState
    BY <1>9 DEF SendFile, SendingState
  <2> QED
    BY <1>9, <2>1, TokenWrite DEF SendFile, sendFrame, TokenState
<1>10. ASSUME NEW l \in Letter, OpenLetter(l) PROVE RowTypes'
  BY <1>10, TokenWrite DEF OpenLetter, Answer, claimFrame, TokenState
<1>11. ASSUME NEW f \in File, FetchAttachment(f) PROVE RowTypes'
  <2>1. token' \in [Ticket -> TokenState]
    BY <1>11, TokenWrite DEF FetchAttachment, Answer, TokenState
  <2>2. heir' \in [File -> Key]
    BY <1>11 DEF FetchAttachment, StoreTypes
  <2> QED
    BY <1>11, <2>1, <2>2 DEF FetchAttachment, claimFrame
<1>12. ASSUME NEW f \in File, OpenAttachment(f) PROVE RowTypes'
  <2>1. token' \in [Ticket -> TokenState]
    BY <1>12, TokenWrite DEF OpenAttachment, Answer, TokenState
  <2> QED
    BY <1>12, <2>1, NoBlobApart DEF OpenAttachment, claimFrame
<1>13. ASSUME NEW t \in Ticket, ConsumeClaim(t) \/ ClaimStops(t) PROVE RowTypes'
  <2>1. CASE ConsumeClaim(t)
    BY <2>1, TokenWrite DEF ConsumeClaim, claimFrame, TokenState
  <2>2. CASE ClaimStops(t)
    <3>1. token' \in [Ticket -> TokenState]
      BY <2>2, TokenWrite DEF ClaimStops, Answer, TokenState
    <3> QED
      BY <1>0, <2>2, <3>1, NoBlobApart DEF ClaimStops
  <2> QED
    BY <1>13, <2>1, <2>2
<1> QED
  BY <1>0, <1>1, <1>2, <1>3, <1>4, <1>5, <1>6, <1>7, <1>8, <1>9, <1>10, <1>11, <1>12, <1>13
     DEF ContentsStep, SealLetter, SealMultipart

LEMMA AccountStepTypes ==
  ASSUME RowTypes, AccountTypes, AccountStep, clashed' \in BOOLEAN
  PROVE  RowTypes' /\ AccountTypes'
<1>1. RowTypes'
  BY DEF RowTypes, AccountStep, DayPasses, CancelSubscription, ReactivateSubscription,
     RequestDeletion, CancelDeletion, accountFrame, contentVars
<1>2. CASE DayPasses
  BY <1>1, <1>2 DEF AccountTypes, DayPasses
<1>3. CASE CancelSubscription
  BY <1>1, <1>3 DEF AccountTypes, CancelSubscription, SubscriptionState
<1>4. CASE ReactivateSubscription
  BY <1>1, <1>4 DEF AccountTypes, ReactivateSubscription, SubscriptionState, Never
<1>5. CASE RequestDeletion \/ CancelDeletion
  <2>1. deletionAt' \in Nat
    BY <1>5 DEF AccountTypes, RequestDeletion, CancelDeletion, Never
  <2>2. reprieved' \in BOOLEAN /\ UNCHANGED <<ops, day, subscription, retainedUntil>>
    BY <1>5, Zenon DEF RequestDeletion, CancelDeletion
  <2> QED
    BY <1>1, <2>1, <2>2 DEF AccountTypes
<1> QED
  BY <1>2, <1>3, <1>4, <1>5 DEF AccountStep

LEMMA ReapTypes ==
  ASSUME RowTypes, AccountTypes, StoreTypes, NEW r \in Reaper, clashed' \in BOOLEAN,
         \/ r \in Sweeper /\ SweepStep(r)
         \/ r \in Deleter /\ (DropLetter(r) \/ \E l \in Letter : DeleteLetter(r, l))
         \/ ReapStep(r) \/ ReapFault(r)
  PROVE  RowTypes' /\ AccountTypes'
<1> USE DEF reapFrame, sweepFrame, contentVars, accountVars
<1>1. CASE SweepBegin(r) \/ SweepAccounts(r) \/ PurgeList(r) \/ PurgeDone(r)
           \/ \E l \in Letter : PurgeLetter(r, l) \/ DeleteLetter(r, l)
  BY <1>1 DEF RowTypes, AccountTypes, SweepBegin, SweepAccounts, PurgeList, PurgeDone, PurgeLetter,
     DeleteLetter
<1>2. CASE SweepExpire(r) \/ SweepDrop(r) \/ SweepAnonymise(r)
  BY <1>2 DEF RowTypes, AccountTypes, SweepExpire, SweepDrop, SweepAnonymise, SubscriptionState, Never
<1>3. CASE EraseLetter(r)
  <2>1. letter' \in [Letter -> LetterState]
    BY <1>3 DEF EraseLetter, RowTypes, LetterState
  <2> QED
    BY <1>3, <2>1 DEF RowTypes, AccountTypes, EraseLetter
<1>4. CASE DropLetter(r)
  <2>1. letter' \in [Letter -> LetterState] /\ token' \in [Ticket -> TokenState]
    BY <1>4, CascadeWrite DEF DropLetter, RowTypes, LetterState
  <2> QED
    BY <1>4, <2>1 DEF RowTypes, AccountTypes, DropLetter
<1>5. ASSUME NEW f \in File, PurgeRow(r, f) PROVE RowTypes' /\ AccountTypes'
  <2>1. token' \in [Ticket -> TokenState]
    BY <1>5, CascadeWrite DEF PurgeRow, RowTypes
  <2> QED
    BY <1>5, <2>1 DEF RowTypes, AccountTypes, PurgeRow
<1>6. CASE PurgeBlob(r)
  BY <1>6 DEF RowTypes, AccountTypes, PurgeBlob
<1>7. CASE ReaperStops(r) \/ PurgeBlobFails(r)
  BY <1>7 DEF RowTypes, AccountTypes, ReaperStops, PurgeBlobFails
<1> QED
  BY <1>1, <1>2, <1>3, <1>4, <1>5, <1>6, <1>7 DEF SweepStep, ReapStep, ReapFault

LEMMA StepTypes == EstateTypeOK /\ StoreInv' /\ [EstateNext]_estateVars => EstateTypeOK'
<1> SUFFICES ASSUME EstateTypeOK, StoreInv', [EstateNext]_estateVars PROVE EstateTypeOK'
  OBVIOUS
<1>0. StoreTypes' /\ RowTypes' /\ AccountTypes' => EstateTypeOK'
  BY DEF EstateTypeOK, StoreTypes, RowTypes, AccountTypes, ContentsTypeOK, BlobTypeOK, SendingState
<1>1. RowTypes /\ AccountTypes /\ StoreTypes /\ StoreTypes'
  BY TypeParts DEF StoreInv
<1>2. ASSUME EstateNext PROVE clashed' \in BOOLEAN
  BY <1>1, <1>2 DEF EstateNext, AccountTypes
<1>3. CASE UNCHANGED estateVars
  <2>1. RowTypes'
    BY <1>1, <1>3 DEF RowTypes, estateVars, contentVars
  <2>2. AccountTypes'
    BY <1>1, <1>3 DEF AccountTypes, estateVars, accountVars
  <2> QED
    BY <1>1, <2>1, <2>2, <1>0
<1>4. CASE EstateNext /\ ContentsNext
  <2>1. RowTypes' /\ ops' \in Plots
    BY <1>1, <1>4, ContentsTypes
  <2>2. UNCHANGED accountVars /\ clashed' \in BOOLEAN
    BY <1>2, <1>4 DEF ContentsNext
  <2>3. AccountTypes'
    BY <1>1, <2>1, <2>2 DEF AccountTypes, accountVars
  <2> QED
    BY <1>1, <2>1, <2>3, <1>0
<1>5. CASE EstateNext /\ AccountStep
  BY <1>1, <1>2, <1>5, AccountStepTypes, <1>0
<1>6. ASSUME EstateNext, NEW s \in Sweeper, SweepStep(s) PROVE EstateTypeOK'
  BY <1>1, <1>2, <1>6, ReapTypes, <1>0 DEF Reaper
<1>7. ASSUME EstateNext, NEW d \in Deleter, DropLetter(d) \/ \E l \in Letter : DeleteLetter(d, l)
      PROVE  EstateTypeOK'
  BY <1>1, <1>2, <1>7, ReapTypes, <1>0 DEF Reaper
<1>8. ASSUME EstateNext, NEW r \in Reaper, ReapStep(r) \/ ReapFault(r) PROVE EstateTypeOK'
  BY <1>1, <1>2, <1>8, ReapTypes, <1>0
<1> QED
  BY <1>3, <1>4, <1>5, <1>6, <1>7, <1>8 DEF EstateNext
-----------------------------------------------------------------------------
(* The request for the account's deletion, and one handler at a time.      *)

LEMMA SoloStep ==
  ASSUME Solo, [EstateNext]_estateVars
  PROVE  Solo'
<1>1. CASE UNCHANGED estateVars
  BY <1>1 DEF Solo, Working, estateVars, contentVars
<1>2. CASE EstateNext
  BY <1>2 DEF EstateNext, Solo
<1> QED
  BY <1>1, <1>2

\* A sweep that goes on, or begins to erase the account on a request that is due.
LEMMA SweepGoesOn ==
  ASSUME EstateTypeOK, AccountInv, clashed => clashed', NEW r \in Reaper, NEW v \in ReaperState,
         reaper' = [reaper EXCEPT ![r] = v],
         v.pc = "idle" => v.why = "delete",
         v.why = "deletion" =>
           reaper[r].why = "deletion" \/ (deletionAt # Never /\ deletionAt <= day),
         UNCHANGED <<day, deletionAt, reprieved>>
  PROVE  AccountInv'
<1>1. reaper'[r] = v /\ \A x \in Reaper : x # r => reaper'[x] = reaper[x]
  BY DEF EstateTypeOK
<1> QED
  BY <1>1 DEF AccountInv, Reaper

LEMMA AccountSweep ==
  ASSUME EstateTypeOK, Solo, AccountInv, clashed => clashed', NEW r \in Reaper,
         \/ r \in Sweeper /\ SweepStep(r)
         \/ DropLetter(r) \/ \E l \in Letter : DeleteLetter(r, l)
         \/ ReapStep(r) \/ ReapFault(r)
  PROVE  AccountInv'
<1> USE DEF sweepFrame, accountVars, ReapGoto
<1>0. /\ reaper \in [Reaper -> ReaperState] /\ reaper[r] \in ReaperState
      /\ Resting \in ReaperState /\ Resting.pc = "idle" /\ Resting.why = "delete"
      /\ key \in [File -> Key] /\ NoBlob \in Key
  BY NoBlobApart DEF EstateTypeOK, ContentsTypeOK, Resting, Reap, ReaperState, ReaperPc, NoLetter
<1>1. ASSUME NEW v \in ReaperState, reaper' = [reaper EXCEPT ![r] = v],
             v.why = reaper[r].why, v.pc # "idle", UNCHANGED <<day, deletionAt, reprieved>>
      PROVE  AccountInv'
  BY <1>1, SweepGoesOn
<1>2. ASSUME reaper' = [reaper EXCEPT ![r] = Resting], UNCHANGED <<day, deletionAt, reprieved>>
      PROVE  AccountInv'
  BY <1>0, <1>2, SweepGoesOn
<1>3. CASE SweepBegin(r)
  <2> DEFINE due == subscription = "CANCELED" /\ retainedUntil # Never /\ retainedUntil <= day
             v == Reap(IF due THEN "expire" ELSE "accounts", "retention")
  <2>1. v \in ReaperState /\ v.pc # "idle" /\ v.why = "retention"
    BY <1>0 DEF Reap, ReaperState, ReaperPc, NoLetter
  <2>2. reaper' = [reaper EXCEPT ![r] = v] /\ UNCHANGED <<day, deletionAt, reprieved>>
    BY <1>3 DEF SweepBegin
  <2> HIDE DEF v
  <2> QED
    BY <2>1, <2>2, SweepGoesOn
<1>4. CASE SweepAccounts(r)
  <2> DEFINE due == deletionAt # Never /\ deletionAt <= day
             v == IF due THEN Reap("list", "deletion") ELSE Resting
  <2>1. v \in ReaperState /\ (v.pc = "idle" => v.why = "delete") /\ (v.why = "deletion" => due)
    BY <1>0 DEF Reap, ReaperState, ReaperPc, NoLetter
  <2>2. reaper' = [reaper EXCEPT ![r] = v] /\ UNCHANGED <<day, deletionAt, reprieved>>
    BY <1>4 DEF SweepAccounts
  <2> HIDE DEF v
  <2> QED
    BY <2>1, <2>2, SweepGoesOn
<1>5. CASE SweepExpire(r) \/ SweepDrop(r) \/ PurgeDone(r)
  <2>1. PICK pc \in ReaperPc \ {"idle"} : reaper' = [reaper EXCEPT ![r].pc = pc]
    BY <1>5 DEF SweepExpire, SweepDrop, PurgeDone, ReaperPc
  <2>2. PICK v : v = [reaper[r] EXCEPT !.pc = pc]
    OBVIOUS
  <2>3. v \in ReaperState /\ v.why = reaper[r].why /\ v.pc # "idle"
    BY <1>0, <2>2 DEF ReaperState
  <2>4. reaper' = [reaper EXCEPT ![r] = v]
    BY <1>0, <2>1, <2>2
  <2>5. UNCHANGED <<day, deletionAt, reprieved>>
    BY <1>5 DEF SweepExpire, SweepDrop, PurgeDone
  <2> QED
    BY <1>1, <2>3, <2>4, <2>5
<1>6. CASE PurgeList(r)
  <2>1. PICK v : v = [reaper[r] EXCEPT !.pc = "letters", !.letters = {l \in Letter : RowExists(l)}]
    OBVIOUS
  <2>2. v \in ReaperState /\ v.why = reaper[r].why /\ v.pc # "idle"
    BY <1>0, <2>1 DEF ReaperState, ReaperPc
  <2>3. reaper' = [reaper EXCEPT ![r] = v] /\ UNCHANGED <<day, deletionAt, reprieved>>
    BY <1>0, <1>6, <2>1 DEF PurgeList
  <2> QED
    BY <1>1, <2>2, <2>3
<1>7. ASSUME NEW l \in Letter, PurgeLetter(r, l) PROVE AccountInv'
  <2>1. PICK v : v = [reaper[r] EXCEPT !.pc = "files", !.letters = @ \ {l}, !.letter = l,
                                       !.files = Attached(l)]
    OBVIOUS
  <2>2. v \in ReaperState /\ v.why = reaper[r].why /\ v.pc # "idle"
    BY <1>0, <2>1 DEF ReaperState, ReaperPc, Attached, FilesOf
  <2>3. reaper' = [reaper EXCEPT ![r] = v] /\ UNCHANGED <<day, deletionAt, reprieved>>
    BY <1>0, <1>7, <2>1 DEF PurgeLetter
  <2> QED
    BY <1>1, <2>2, <2>3
<1>8. ASSUME NEW l \in Letter, DeleteLetter(r, l) PROVE AccountInv'
  <2>1. PICK v : v = [reaper[r] EXCEPT !.pc = "files", !.letter = l, !.files = Attached(l)]
    OBVIOUS
  <2>2. v \in ReaperState /\ v.why = reaper[r].why /\ v.pc # "idle"
    BY <1>0, <2>1 DEF ReaperState, ReaperPc, Attached, FilesOf
  <2>3. reaper' = [reaper EXCEPT ![r] = v] /\ UNCHANGED <<day, deletionAt, reprieved>>
    BY <1>0, <1>8, <2>1 DEF DeleteLetter
  <2> QED
    BY <1>1, <2>2, <2>3
<1>9. CASE EraseLetter(r)
  <2>1. PICK v : v = [reaper[r] EXCEPT !.pc = "letters", !.letter = NoLetter]
    OBVIOUS
  <2>2. v \in ReaperState /\ v.why = reaper[r].why /\ v.pc # "idle"
    BY <1>0, <2>1 DEF ReaperState, ReaperPc
  <2>3. reaper' = [reaper EXCEPT ![r] = v] /\ UNCHANGED <<day, deletionAt, reprieved>>
    BY <1>0, <1>9, <2>1 DEF EraseLetter
  <2> QED
    BY <1>1, <2>2, <2>3
<1>10. ASSUME NEW f \in File, PurgeRow(r, f) PROVE AccountInv'
  <2>1. PICK v : v = [reaper[r] EXCEPT !.files = @ \ {f}, !.blob = key[f],
                                       !.pc = IF key[f] = NoBlob THEN "files" ELSE "blob"]
    OBVIOUS
  <2>2. v \in ReaperState /\ v.why = reaper[r].why /\ v.pc # "idle"
    BY <1>0, <2>1 DEF ReaperState, ReaperPc
  <2>3. reaper' = [reaper EXCEPT ![r] = v] /\ UNCHANGED <<day, deletionAt, reprieved>>
    BY <1>0, <1>10, <2>1 DEF PurgeRow
  <2> QED
    BY <1>1, <2>2, <2>3
<1>11. CASE PurgeBlob(r) \/ PurgeBlobFails(r)
  <2>1. PICK v : v = [reaper[r] EXCEPT !.pc = "files", !.blob = NoBlob]
    OBVIOUS
  <2>2. v \in ReaperState /\ v.why = reaper[r].why /\ v.pc # "idle"
    BY <1>0, <2>1 DEF ReaperState, ReaperPc
  <2>3. reaper' = [reaper EXCEPT ![r] = v] /\ UNCHANGED <<day, deletionAt, reprieved>>
    BY <1>0, <1>11, <2>1 DEF PurgeBlob, PurgeBlobFails
  <2> QED
    BY <1>1, <2>2, <2>3
<1>12. CASE DropLetter(r) \/ ReaperStops(r)
  BY <1>2, <1>12 DEF DropLetter, ReaperStops
<1>13. CASE SweepAnonymise(r)
  <2>1. /\ reaper[r].pc = "anonymise" /\ reaper' = [reaper EXCEPT ![r] = Resting]
        /\ deletionAt' = Never /\ UNCHANGED <<day, reprieved>>
    BY <1>13 DEF SweepAnonymise
  <2>2. ASSUME ~clashed, NEW x \in Reaper, x # r PROVE reaper[x].pc = "idle"
    <3>1. SUFFICES ASSUME reaper[x].pc # "idle" PROVE FALSE
      OBVIOUS
    <3>2. <<"reap", x>> \in Working /\ <<"reap", r>> \in Working
      BY <2>1, <3>1 DEF Working
    <3> QED
      BY <2>2, <3>2 DEF Solo
  <2>3. ~clashed => \A x \in Reaper : reaper'[x].why = "delete"
    BY <1>0, <2>1, <2>2 DEF AccountInv
  <2>4. \A x \in Reaper : reaper'[x].pc = "idle" => reaper'[x].why = "delete"
    BY <1>0, <2>1 DEF AccountInv
  <2> QED
    BY <2>1, <2>3, <2>4 DEF AccountInv, Reaper
<1> QED
  BY <1>3, <1>4, <1>5, <1>6, <1>7, <1>8, <1>9, <1>10, <1>11, <1>12, <1>13
     DEF SweepStep, ReapStep, ReapFault

LEMMA AccountKept ==
  ASSUME EstateTypeOK, Solo, AccountInv, [EstateNext]_estateVars
  PROVE  AccountInv'
<1>0. day \in Nat /\ deletionAt \in Nat
  BY DEF EstateTypeOK
<1>1. clashed => clashed'
  BY DEF EstateNext, estateVars
<1>2. CASE UNCHANGED estateVars \/ ContentsNext
  <2>1. UNCHANGED <<day, deletionAt, reprieved, reaper>>
    BY <1>2 DEF ContentsNext, estateVars, accountVars
  <2> QED
    BY <1>1, <2>1 DEF AccountInv
<1>3. CASE AccountStep
  <2>0. UNCHANGED reaper
    BY <1>3 DEF AccountStep, DayPasses, CancelSubscription, ReactivateSubscription, RequestDeletion,
       CancelDeletion, accountFrame
  <2>1. CASE DayPasses
    BY <1>0, <1>1, <2>0, <2>1 DEF DayPasses, AccountInv
  <2>2. CASE CancelSubscription \/ ReactivateSubscription
    BY <1>1, <2>0, <2>2 DEF CancelSubscription, ReactivateSubscription, AccountInv
  <2>3. CASE RequestDeletion
    BY <1>0, <1>1, <2>0, <2>3 DEF RequestDeletion, AccountInv
  <2>4. CASE CancelDeletion
    BY <1>0, <1>1, <2>0, <2>4 DEF CancelDeletion, AccountInv
  <2> QED
    BY <1>3, <2>1, <2>2, <2>3, <2>4 DEF AccountStep
<1> QED
  BY <1>1, <1>2, <1>3, AccountSweep DEF EstateNext, Reaper

-----------------------------------------------------------------------------
(* What rows, tokens and handlers owe each other, however many are at work. *)

LEMMA RowFacts ==
  ASSUME EstateTypeOK
  PROVE  /\ letter \in [Letter -> LetterState] /\ token \in [Ticket -> TokenState]
         /\ key \in [File -> Key] /\ heir \in [File -> Key] /\ NoBlob \in Key
         /\ upload \in [Letter -> UploadState] /\ mover \in [Mover -> MoverState]
         /\ reaper \in [Reaper -> ReaperState] /\ sending \in SendingState
         /\ \A f \in File : LetterOf[f] \in Letter /\ f \in Ticket /\ f \notin Letter
         /\ \A l \in Letter : l \in Ticket /\ FilesOf(l) \subseteq File
         /\ \A l \in Letter : \A f \in FilesOf(l) : LetterOf[f] = l
BY NoBlobApart DEF EstateTypeOK, ContentsTypeOK, SendingState, Ticket, FilesOf

\* A step that seals nothing and purges nothing.
LEMMA UploadRowsFrame ==
  ASSUME UploadRows, EstateTypeOK, UNCHANGED <<upload, letter, reaper>>,
         \A f \in File : key'[f] # NoBlob => key[f] # NoBlob,
         \A f \in File : key[f] = NoBlob /\ token[f] = "none" => token'[f] = "none"
  PROVE  UploadRows'
BY RowFacts DEF UploadRows, RowExists, FilesOf

LEMMA TokenRowsFrame ==
  ASSUME TokenRows, UNCHANGED <<vaultState, sending, token, heir>>,
         \A l \in Letter : letter'[l] = "absent" => letter[l] = "absent"
  PROVE  TokenRows'
BY DEF TokenRows, Unsent

\* One request that seals a letter moves on.
LEMMA UploadRowsOne ==
  ASSUME UploadRows, EstateTypeOK, NEW l \in Letter,
         \A x \in Letter : x # l => upload'[x] = upload[x] /\ letter'[x] = letter[x],
         letter'[l] = letter[l] \/ (letter[l] = "absent" /\ letter'[l] = "sealed"),
         upload'[l].pc = "seal" => letter'[l] = "absent",
         upload'[l].todo \subseteq FilesOf(l),
         \A f \in upload'[l].todo : key'[f] = NoBlob /\ token[f] = "none",
         upload'[l].pc = "row" => upload'[l].blob.holds \in upload'[l].todo,
         \A f \in File : f \notin FilesOf(l) => key'[f] = key[f],
         \A f \in FilesOf(l) : key'[f] # NoBlob => key[f] # NoBlob \/ RowExists(l),
         UNCHANGED <<token, reaper>>
  PROVE  UploadRows'
<1>1. \A x \in Letter : /\ letter'[x] = "absent" => letter[x] = "absent"
                        /\ RowExists(x) => RowExists(x)'
  BY DEF RowExists
<1>2. \A f \in File : key'[f] # NoBlob => RowExists(LetterOf[f])'
  BY <1>1, RowFacts DEF UploadRows, FilesOf
<1>3. ASSUME NEW x \in Letter
      PROVE  /\ upload'[x].pc = "seal" => letter'[x] = "absent"
             /\ upload'[x].todo \subseteq FilesOf(x)
             /\ \A f \in upload'[x].todo : key'[f] = NoBlob /\ token'[f] = "none"
             /\ upload'[x].pc = "row" => upload'[x].blob.holds \in upload'[x].todo
  <2>1. CASE x = l
    BY <2>1
  <2>2. CASE x # l
    BY <2>2, RowFacts DEF UploadRows, FilesOf
  <2> QED
    BY <2>1, <2>2
<1>4. \A r \in Reaper :
        /\ \A x \in reaper'[r].letters : letter'[x] # "absent"
        /\ reaper'[r].pc \in {"files", "blob"} =>
             reaper'[r].letter \in Letter /\ letter'[reaper'[r].letter] # "absent"
  BY <1>1, RowFacts DEF UploadRows, ReaperState
<1> QED
  BY <1>2, <1>3, <1>4 DEF UploadRows, FilesOf

LEMMA UploadRowSteps ==
  ASSUME UploadRows, TokenRows, EstateTypeOK, NEW l \in Letter, UNCHANGED reaper,
         \/ \E fs \in SUBSET FilesOf(l) : SealBegin(l, fs)
         \/ SealInsert(l) \/ UploadRow(l) \/ UploadRefused(l) \/ UploadStops(l)
         \/ \E f \in FilesOf(l) : UploadPut(l, f)
  PROVE  UploadRows' /\ TokenRows'
<1> USE RowFacts
<1>0. upload[l] \in UploadState
  OBVIOUS
<1>1. ASSUME NEW fs \in SUBSET FilesOf(l), SealBegin(l, fs) PROVE UploadRows' /\ TokenRows'
  <2>1. PICK u : u = Upload("seal", region, fs, NoBlob)
    OBVIOUS
  <2>2. u.pc = "seal" /\ u.todo = fs
    BY <2>1 DEF Upload
  <2>3. upload' = [upload EXCEPT ![l] = u] /\ UNCHANGED <<letter, key, token, sending, heir, vaultState>>
    BY <1>1, <2>1 DEF SealBegin, sealFrame
  <2>4. upload'[l] = u /\ \A x \in Letter : x # l => upload'[x] = upload[x]
    BY <2>3
  <2>5. letter[l] = "absent" /\ \A f \in FilesOf(l) : key[f] = NoBlob /\ token[f] = "none"
    BY <1>1 DEF SealBegin, UploadRows, TokenRows, RowExists
  <2>6. UploadRows'
    BY <2>2, <2>3, <2>4, <2>5, UploadRowsOne
  <2> QED
    BY <2>3, <2>6, TokenRowsFrame
<1>2. CASE SealInsert(l)
  <2>1. PICK u : u = IF upload[l].todo = {} THEN NotUploading
                     ELSE Upload("put", upload[l].region, upload[l].todo, NoBlob)
    OBVIOUS
  <2>2. u.pc \in {"idle", "put"} /\ u.todo = upload[l].todo
    BY <2>1 DEF Upload, NotUploading
  <2>3. /\ upload' = [upload EXCEPT ![l] = u] /\ letter' = [letter EXCEPT ![l] = "sealed"]
        /\ UNCHANGED <<key, token, sending, heir, vaultState>>
    BY <1>2, <2>1 DEF SealInsert, UploadNext, sealFrame
  <2>4. upload'[l] = u /\ \A x \in Letter : x # l => upload'[x] = upload[x] /\ letter'[x] = letter[x]
    BY <2>3
  <2>5. letter[l] = "absent" /\ letter'[l] = "sealed"
    BY <1>2, <2>3 DEF SealInsert, UploadRows
  <2>6. UploadRows'
    BY <2>2, <2>3, <2>4, <2>5, UploadRowsOne DEF UploadRows
  <2> QED
    BY <2>3, <2>4, <2>5, <2>6, TokenRowsFrame
<1>3. ASSUME NEW f \in FilesOf(l), UploadPut(l, f) PROVE UploadRows' /\ TokenRows'
  <2>1. PICK b : b = FreshKey(upload[l].region, f)
    OBVIOUS
  <2>2. b.holds = f
    BY <2>1 DEF FreshKey
  <2>3. /\ upload' = [upload EXCEPT ![l].pc = "row", ![l].blob = b] /\ f \in upload[l].todo
        /\ UNCHANGED <<letter, key, token, sending, heir, vaultState>>
    BY <1>3, <2>1 DEF UploadPut, sealFrame
  <2>4. /\ upload'[l].pc = "row" /\ upload'[l].todo = upload[l].todo /\ upload'[l].blob = b
        /\ \A x \in Letter : x # l => upload'[x] = upload[x]
    BY <1>0, <2>3 DEF UploadState
  <2>5. /\ upload'[l].todo \subseteq FilesOf(l) /\ upload'[l].blob.holds \in upload'[l].todo
        /\ \A g \in upload'[l].todo : key'[g] = NoBlob /\ token[g] = "none"
    BY <2>2, <2>3, <2>4 DEF UploadRows
  <2>6. UploadRows'
    BY <2>3, <2>4, <2>5, UploadRowsOne
  <2> QED
    BY <2>3, <2>6, TokenRowsFrame
<1>4. CASE UploadRow(l)
  <2>1. PICK b : b = upload[l].blob
    OBVIOUS
  <2>2. PICK u : u = IF upload[l].todo \ {b.holds} = {} THEN NotUploading
                     ELSE Upload("put", upload[l].region, upload[l].todo \ {b.holds}, NoBlob)
    OBVIOUS
  <2>3. u.pc \in {"idle", "put"} /\ u.todo = upload[l].todo \ {b.holds}
    BY <2>2 DEF Upload, NotUploading
  <2>4. /\ upload' = [upload EXCEPT ![l] = u] /\ key' = [key EXCEPT ![b.holds] = b]
        /\ RowExists(l) /\ upload[l].pc = "row"
        /\ UNCHANGED <<letter, token, sending, heir, vaultState>>
    BY <1>4, <2>1, <2>2 DEF UploadRow, UploadNext, sealFrame
  <2>5. upload'[l] = u /\ \A x \in Letter : x # l => upload'[x] = upload[x]
    BY <2>4
  <2>6. b.holds \in FilesOf(l) /\ \A f \in File : f # b.holds => key'[f] = key[f]
    BY <2>1, <2>4 DEF UploadRows
  <2>7. /\ u.todo \subseteq FilesOf(l) /\ b.holds \notin u.todo
        /\ \A f \in u.todo : key[f] = NoBlob /\ token[f] = "none"
    BY <2>3 DEF UploadRows
  <2>8. \A f \in u.todo : key'[f] = NoBlob /\ token[f] = "none"
    BY <2>6, <2>7
  <2>9. /\ letter' = letter /\ UNCHANGED <<token, reaper>> /\ RowExists(l)
        /\ \A f \in File : f \notin FilesOf(l) => key'[f] = key[f]
    BY <2>4, <2>6
  <2>10. UploadRows'
    BY <2>3, <2>5, <2>7, <2>8, <2>9, UploadRowsOne
  <2> QED
    BY <2>4, <2>10, TokenRowsFrame
<1>5. CASE UploadRefused(l) \/ UploadStops(l)
  <2>1. NotUploading.pc = "idle" /\ NotUploading.todo = {}
    BY DEF NotUploading, Upload
  <2>2. /\ upload' = [upload EXCEPT ![l] = NotUploading]
        /\ UNCHANGED <<letter, key, token, sending, heir, vaultState>>
    BY <1>5 DEF UploadRefused, UploadStops, sealFrame
  <2>3. upload'[l] = NotUploading /\ \A x \in Letter : x # l => upload'[x] = upload[x]
    BY <2>2
  <2>4. UploadRows'
    BY <2>1, <2>2, <2>3, UploadRowsOne
  <2> QED
    BY <2>2, <2>4, TokenRowsFrame
<1> QED
  BY <1>1, <1>2, <1>3, <1>4, <1>5

LEMMA MoverRowSteps ==
  ASSUME UploadRows, TokenRows, EstateTypeOK, NEW m \in Mover, UNCHANGED reaper,
         \/ \E r \in Region : MoveBegin(m, r)
         \/ \E b \in mover[m].todo : MoveGet(m, b) \/ MoveMissing(m, b)
         \/ MoveList(m) \/ MovePut(m) \/ MoveRepoint(m) \/ MoveDelete(m) \/ MoveDone(m)
         \/ MoveStops(m) \/ MoveDeleteFails(m)
  PROVE  UploadRows' /\ TokenRows'
<1>1. UNCHANGED <<upload, letter, token, sending, heir, vaultState>>
  BY DEF MoveBegin, MoveGet, MoveMissing, MoveList, MovePut, MoveRepoint, MoveDelete, MoveDone,
     MoveStops, MoveDeleteFails, moveFrame
<1>2. \A f \in File : key'[f] # NoBlob => key[f] # NoBlob
  <2>1. CASE MoveRepoint(m)
    BY <2>1, RowFacts DEF MoveRepoint, Repoint
  <2>2. CASE ~MoveRepoint(m)
    BY <2>2 DEF MoveBegin, MoveGet, MoveMissing, MoveList, MovePut, MoveDelete, MoveDone,
       MoveStops, MoveDeleteFails
  <2> QED
    BY <2>1, <2>2
<1> QED
  BY <1>1, <1>2, UploadRowsFrame, TokenRowsFrame

LEMMA SendRowSteps ==
  ASSUME UploadRows, TokenRows, EstateTypeOK, UNCHANGED reaper,
         \/ ReleaseVault \/ SendList \/ SendNotify \/ SendDone \/ SendFails
         \/ (\E l \in Letter : SendLetter(l)) \/ \E f \in File : SendFile(f)
  PROVE  UploadRows' /\ TokenRows'
<1> USE RowFacts DEF sendFrame
<1>1. CASE ReleaseVault
  <2>1. /\ sending' = Sending("claim", {l \in Letter : RowExists(l)}, {})
        /\ vaultState' = "RELEASED" /\ UNCHANGED <<token, upload, letter, key, heir>>
    BY <1>1 DEF ReleaseVault
  <2>2. sending'.pc = "claim" /\ sending'.files = {} /\ sending'.letters \subseteq Letter
    BY <2>1 DEF Sending
  <2>3. \A t \in Ticket : token[t] = "none"
    BY <1>1 DEF ReleaseVault, TokenRows
  <2>4. TokenRows'
    BY <2>1, <2>2, <2>3 DEF TokenRows, Unsent
  <2> QED
    BY <2>1, <2>4, UploadRowsFrame
<1>2. CASE SendList
  <2>1. /\ sending' = [sending EXCEPT !.pc = "files", !.files = {f \in @ : key[f] # NoBlob}]
        /\ sending.pc = "list" /\ UNCHANGED <<vaultState, token, upload, letter, key, heir>>
    BY <1>2 DEF SendList
  <2>2. /\ sending'.pc = "files" /\ sending'.files \subseteq sending.files
        /\ sending'.letters = sending.letters
    BY <2>1 DEF SendingState
  <2>3. TokenRows'
    BY <2>1, <2>2 DEF TokenRows, Unsent
  <2> QED
    BY <2>1, <2>3, UploadRowsFrame
<1>3. CASE SendNotify \/ SendDone \/ SendFails
  <2>1. /\ sending.pc \in {"claim", "files"}
        /\ UNCHANGED <<vaultState, token, upload, letter, key, heir>>
    BY <1>3 DEF SendNotify, SendDone, SendFails
  <2>2. /\ sending'.pc \in {"idle", "claim"} /\ sending'.files = {}
        /\ sending'.letters \subseteq sending.letters
        /\ sending'.pc = "idle" => sending'.letters = {}
    BY <1>3 DEF SendNotify, SendDone, SendFails, Sending
  <2>3. TokenRows'
    BY <2>1, <2>2 DEF TokenRows, Unsent
  <2> QED
    BY <2>1, <2>3, UploadRowsFrame
<1>4. ASSUME NEW l \in Letter, SendLetter(l) PROVE UploadRows' /\ TokenRows'
  <2>1. /\ sending' = [sending EXCEPT !.pc = "list", !.letters = @ \ {l}, !.files = FilesOf(l)]
        /\ token' = [token EXCEPT ![l] = "issued"]
        /\ sending.pc = "claim" /\ l \in sending.letters /\ RowExists(l)
        /\ UNCHANGED <<vaultState, upload, letter, key, heir>>
    BY <1>4 DEF SendLetter
  <2>2. /\ sending'.pc = "list" /\ sending'.files = FilesOf(l)
        /\ sending'.letters = sending.letters \ {l}
    BY <2>1 DEF SendingState
  <2>3. \A t \in Ticket : t # l => token'[t] = token[t]
    BY <2>1
  <2>4. Unsent(l) /\ vaultState # "ACTIVE" /\ letter[l] # "absent"
    BY <2>1 DEF TokenRows, RowExists
  <2>5. \A f \in File : token'[f] = token[f]
    BY <2>3
  <2>6. ASSUME NEW x \in Letter, letter'[x] = "absent" \/ x \in sending'.letters PROVE Unsent(x)'
    <3>1. x # l /\ Unsent(x)
      BY <2>1, <2>2, <2>4, <2>6 DEF TokenRows
    <3> QED
      BY <2>3, <2>5, <3>1 DEF Unsent
  <2>7. \A f \in sending'.files : token'[f] = "none" /\ LetterOf[f] \notin sending'.letters
    BY <2>2, <2>4, <2>5 DEF Unsent
  <2>8. TokenRows'
    BY <2>1, <2>2, <2>4, <2>5, <2>6, <2>7 DEF TokenRows
  <2> QED
    BY <2>1, <2>5, <2>8, UploadRowsFrame
<1>5. ASSUME NEW f \in File, SendFile(f) PROVE UploadRows' /\ TokenRows'
  <2>1. /\ sending' = [sending EXCEPT !.files = @ \ {f}]
        /\ token' = [token EXCEPT ![f] = "issued"] /\ key[f] # NoBlob
        /\ sending.pc = "files" /\ f \in sending.files
        /\ UNCHANGED <<vaultState, upload, letter, key, heir>>
    BY <1>5 DEF SendFile
  <2>2. /\ sending'.pc = "files" /\ sending'.files = sending.files \ {f}
        /\ sending'.letters = sending.letters
    BY <2>1 DEF SendingState
  <2>3. \A t \in Ticket : t # f => token'[t] = token[t]
    BY <2>1
  <2>4. /\ RowExists(LetterOf[f]) /\ token[f] = "none" /\ LetterOf[f] \notin sending.letters
        /\ vaultState # "ACTIVE" /\ heir[f] = NoBlob
    BY <2>1 DEF UploadRows, TokenRows
  <2>5. ASSUME NEW x \in Letter, letter'[x] = "absent" \/ x \in sending'.letters PROVE Unsent(x)'
    <3>1. LetterOf[f] # x /\ Unsent(x)
      BY <2>1, <2>2, <2>4, <2>5 DEF TokenRows, RowExists
    <3> QED
      BY <2>3, <3>1 DEF Unsent
  <2>6. \A g \in sending'.files : token'[g] = "none" /\ LetterOf[g] \notin sending'.letters
    BY <2>2, <2>3 DEF TokenRows, SendingState
  <2>7. \A g \in File : heir'[g] # NoBlob => token'[g] = "opening"
    BY <2>1, <2>3, <2>4 DEF TokenRows
  <2>8. TokenRows'
    BY <2>1, <2>2, <2>4, <2>5, <2>6, <2>7 DEF TokenRows
  <2> QED
    BY <2>1, <2>3, <2>8, UploadRowsFrame
<1> QED
  BY <1>1, <1>2, <1>3, <1>4, <1>5

LEMMA ClaimRowSteps ==
  ASSUME UploadRows, TokenRows, EstateTypeOK, UNCHANGED reaper,
         \/ \E l \in Letter : OpenLetter(l)
         \/ \E f \in File : FetchAttachment(f) \/ OpenAttachment(f)
         \/ \E t \in Ticket : ConsumeClaim(t) \/ ClaimStops(t)
  PROVE  UploadRows' /\ TokenRows'
<1> USE RowFacts DEF claimFrame
<1>1. UNCHANGED <<vaultState, sending, upload, letter, key>>
  BY DEF OpenLetter, FetchAttachment, OpenAttachment, ConsumeClaim, ClaimStops
<1> DEFINE Of(t) == /\ token[t] # "none" /\ token'[t] # "none"
                    /\ \A x \in Ticket : x # t => token'[x] = token[x]
                    /\ \A f \in File : heir'[f] # NoBlob => token'[f] = "opening"
<1>2. ASSUME NEW l \in Letter, OpenLetter(l) PROVE Of(l)
  BY <1>2 DEF OpenLetter, Answer, TokenRows
<1>3. ASSUME NEW f \in File, FetchAttachment(f) \/ OpenAttachment(f) PROVE Of(f)
  BY <1>3 DEF FetchAttachment, OpenAttachment, Answer, TokenRows
<1>4. ASSUME NEW t \in Ticket, ConsumeClaim(t) PROVE Of(t)
  BY <1>4 DEF ConsumeClaim, TokenRows
<1>5. ASSUME NEW t \in Ticket, ClaimStops(t) PROVE Of(t)
  BY <1>5 DEF ClaimStops, Answer, TokenRows
<1>6. PICK t \in Ticket : Of(t)
  BY <1>2, <1>3, <1>4, <1>5 DEF Ticket
<1>7. \A x \in Ticket : token[x] = "none" => token'[x] = "none"
  BY <1>6
<1>8. vaultState # "ACTIVE"
  BY <1>6 DEF TokenRows
<1>9. \A l \in Letter : Unsent(l) => Unsent(l)'
  BY <1>7 DEF Unsent
<1>10. \A f \in sending'.files : token'[f] = "none" /\ LetterOf[f] \notin sending'.letters
  BY <1>1, <1>7 DEF TokenRows, SendingState
<1>11. \A f \in File : heir'[f] # NoBlob => token'[f] = "opening"
  BY <1>6
<1> HIDE DEF Of
<1>12. TokenRows'
  BY <1>1, <1>8, <1>9, <1>10, <1>11 DEF TokenRows
<1> QED
  BY <1>1, <1>7, <1>12, UploadRowsFrame

\* One sweep, or one request that deletes a letter, moves on.
LEMMA ReapRowsOne ==
  ASSUME UploadRows, TokenRows, EstateTypeOK, NEW r \in Reaper,
         \A x \in Reaper : x # r => reaper'[x] = reaper[x],
         \A l \in reaper'[r].letters : l \in Letter /\ letter[l] # "absent",
         reaper'[r].pc \in {"files", "blob"} =>
           reaper'[r].letter \in Letter /\ letter[reaper'[r].letter] # "absent",
         \A l \in Letter : letter'[l] = "absent" <=> letter[l] = "absent",
         \A f \in File : key'[f] # NoBlob => key[f] # NoBlob /\ RowExists(LetterOf[f])',
         \A t \in Ticket : token'[t] \in {token[t], "none"}
                          /\ (token[t] = "opening" => token'[t] = "opening"),
         UNCHANGED <<vaultState, sending, heir, upload>>
  PROVE  UploadRows' /\ TokenRows'
<1> USE RowFacts
<1>1. \A l \in Letter : Unsent(l) => Unsent(l)'
  BY DEF Unsent
<1>2. TokenRows'
  BY <1>1 DEF TokenRows, SendingState
<1>3. \A l \in Letter :
        /\ upload'[l].pc = "seal" => letter'[l] = "absent"
        /\ upload'[l].todo \subseteq FilesOf(l)
        /\ \A f \in upload'[l].todo : key'[f] = NoBlob /\ token'[f] = "none"
        /\ upload'[l].pc = "row" => upload'[l].blob.holds \in upload'[l].todo
  BY DEF UploadRows
<1>4. \A x \in Reaper :
        /\ \A l \in reaper'[x].letters : letter'[l] # "absent"
        /\ reaper'[x].pc \in {"files", "blob"} =>
             reaper'[x].letter \in Letter /\ letter'[reaper'[x].letter] # "absent"
  BY DEF UploadRows, ReaperState
<1> QED
  BY <1>2, <1>3, <1>4 DEF UploadRows, FilesOf

LEMMA ReapRowSteps ==
  ASSUME UploadRows, TokenRows, EstateTypeOK, NEW r \in Reaper,
         \/ SweepStep(r) \/ DropLetter(r) \/ (\E l \in Letter : DeleteLetter(r, l))
         \/ ReapStep(r) \/ ReapFault(r)
  PROVE  UploadRows' /\ TokenRows'
<1> USE RowFacts DEF sweepFrame, reapFrame, accountVars, contentVars, ReapGoto
<1>0. reaper[r] \in ReaperState
  OBVIOUS
\* Steps that write no row.
<1>1. ASSUME \A x \in Reaper : x # r => reaper'[x] = reaper[x],
             \A l \in reaper'[r].letters : l \in Letter /\ letter[l] # "absent",
             reaper'[r].pc \in {"files", "blob"} =>
               reaper'[r].letter \in Letter /\ letter[reaper'[r].letter] # "absent",
             UNCHANGED <<letter, key, token, vaultState, sending, heir, upload>>
      PROVE  UploadRows' /\ TokenRows'
  <2>1. \A f \in File : key'[f] # NoBlob => key[f] # NoBlob /\ RowExists(LetterOf[f])'
    BY <1>1 DEF UploadRows, RowExists
  <2> QED
    BY <1>1, <2>1, ReapRowsOne
<1>2. CASE SweepBegin(r) \/ SweepAccounts(r) \/ SweepAnonymise(r) \/ ReaperStops(r)
  <2>1. /\ \A x \in Reaper : x # r => reaper'[x] = reaper[x]
        /\ reaper'[r].pc \notin {"files", "blob"} /\ reaper'[r].letters = {}
    BY <1>2 DEF SweepBegin, SweepAccounts, SweepAnonymise, ReaperStops, Reap, Resting
  <2>2. UNCHANGED <<letter, key, token, vaultState, sending, heir, upload>>
    BY <1>2 DEF SweepBegin, SweepAccounts, SweepAnonymise, ReaperStops
  <2> QED
    BY <1>1, <2>1, <2>2
<1>3. CASE SweepExpire(r) \/ SweepDrop(r) \/ PurgeList(r) \/ PurgeDone(r)
  <2>1. /\ \A x \in Reaper : x # r => reaper'[x] = reaper[x]
        /\ reaper'[r].pc \notin {"files", "blob"}
        /\ \A l \in reaper'[r].letters : l \in reaper[r].letters \/ RowExists(l)
        /\ reaper'[r].letters \subseteq Letter
    BY <1>0, <1>3 DEF SweepExpire, SweepDrop, PurgeList, PurgeDone, ReaperState
  <2>2. UNCHANGED <<letter, key, token, vaultState, sending, heir, upload>>
    BY <1>3 DEF SweepExpire, SweepDrop, PurgeList, PurgeDone
  <2> QED
    BY <1>1, <2>1, <2>2 DEF UploadRows, RowExists
<1>4. ASSUME NEW l \in Letter, PurgeLetter(r, l) \/ DeleteLetter(r, l)
      PROVE  UploadRows' /\ TokenRows'
  <2>1. /\ \A x \in Reaper : x # r => reaper'[x] = reaper[x]
        /\ reaper'[r].letter = l /\ reaper'[r].letters \subseteq reaper[r].letters
    <3>1. CASE PurgeLetter(r, l)
      BY <1>0, <3>1 DEF PurgeLetter, ReaperState
    <3>2. CASE DeleteLetter(r, l)
      <4>1. reaper' = [reaper EXCEPT ![r].pc = "files", ![r].letter = l, ![r].files = Attached(l)]
        BY <3>2 DEF DeleteLetter
      <4> QED
        BY <1>0, <4>1 DEF ReaperState
    <3> QED
      BY <1>4, <3>1, <3>2
  <2>2. UNCHANGED <<letter, key, token, vaultState, sending, heir, upload>>
    BY <1>4 DEF PurgeLetter, DeleteLetter
  <2>3. letter[l] # "absent"
    BY <1>4 DEF PurgeLetter, DeleteLetter, UploadRows, RowExists
  <2> QED
    BY <1>0, <1>1, <2>1, <2>2, <2>3 DEF UploadRows, ReaperState
<1>5. CASE PurgeBlob(r) \/ PurgeBlobFails(r)
  <2>1. /\ \A x \in Reaper : x # r => reaper'[x] = reaper[x]
        /\ reaper'[r].letter = reaper[r].letter /\ reaper'[r].letters = reaper[r].letters
        /\ reaper[r].pc = "blob"
    BY <1>0, <1>5 DEF PurgeBlob, PurgeBlobFails, ReaperState
  <2>2. UNCHANGED <<letter, key, token, vaultState, sending, heir, upload>>
    BY <1>5 DEF PurgeBlob, PurgeBlobFails
  <2> QED
    BY <1>0, <1>1, <2>1, <2>2 DEF UploadRows, ReaperState
<1>6. ASSUME NEW f \in File, PurgeRow(r, f) PROVE UploadRows' /\ TokenRows'
  <2>1. /\ \A x \in Reaper : x # r => reaper'[x] = reaper[x]
        /\ reaper'[r].letter = reaper[r].letter /\ reaper'[r].letters = reaper[r].letters
        /\ reaper[r].pc = "files"
    BY <1>0, <1>6 DEF PurgeRow, ReaperState
  <2>2. UNCHANGED <<letter, vaultState, sending, heir, upload>>
    BY <1>6 DEF PurgeRow
  <2>3. \A g \in File : key'[g] # NoBlob => key[g] # NoBlob /\ RowExists(LetterOf[g])'
    BY <1>6, <2>2 DEF PurgeRow, UploadRows, RowExists
  <2>4. \A t \in Ticket : /\ token'[t] \in {token[t], "none"}
                         /\ (token[t] = "opening" => token'[t] = "opening")
    <3>1. PICK gone : Cascade(gone)
      BY <1>6 DEF PurgeRow
    <3> QED
      BY <3>1 DEF Cascade
  <2>5. \A l \in reaper'[r].letters : l \in Letter /\ letter[l] # "absent"
    BY <1>0, <2>1 DEF UploadRows, ReaperState
  <2>6. reaper[r].letter \in Letter /\ letter[reaper[r].letter] # "absent"
    BY <2>1 DEF UploadRows
  <2> QED
    BY <2>1, <2>2, <2>3, <2>4, <2>5, <2>6, ReapRowsOne
<1>7. CASE EraseLetter(r)
  <2>1. /\ \A x \in Reaper : x # r => reaper'[x] = reaper[x]
        /\ reaper'[r].pc = "letters" /\ reaper'[r].letters = reaper[r].letters
    BY <1>0, <1>7 DEF EraseLetter, ReaperState
  <2>2. UNCHANGED <<key, token, vaultState, sending, heir, upload>>
    BY <1>7 DEF EraseLetter
  <2>3. PICK gone : letter' = [letter EXCEPT ![gone] = IF RowExists(gone) THEN "erased" ELSE @]
    BY <1>7 DEF EraseLetter
  <2>7. \A x \in Letter : letter'[x] = "absent" <=> letter[x] = "absent"
    BY <2>3 DEF RowExists
  <2>8. \A x \in Letter : RowExists(x) => RowExists(x)'
    BY <2>3 DEF RowExists
  <2>4. \A f \in File : key'[f] # NoBlob => key[f] # NoBlob /\ RowExists(LetterOf[f])'
    BY <2>2, <2>8 DEF UploadRows
  <2>5. \A l \in reaper'[r].letters : l \in Letter /\ letter[l] # "absent"
    BY <1>0, <2>1 DEF UploadRows, ReaperState
  <2>6. \A t \in Ticket : token'[t] = token[t]
    BY <2>2
  <2> QED
    BY <2>1, <2>2, <2>4, <2>5, <2>6, <2>7, ReapRowsOne
<1>8. CASE DropLetter(r)
  <2>1. PICK l : l = reaper[r].letter
    OBVIOUS
  <2>2. /\ \A x \in Reaper : x # r => reaper'[x] = reaper[x]
        /\ reaper'[r].pc = "idle" /\ reaper'[r].letters = {}
    BY <1>8 DEF DropLetter, Resting, Reap
  <2>3. UNCHANGED <<vaultState, sending, heir, upload>>
    BY <1>8 DEF DropLetter
  <2>4. l \in Letter /\ letter[l] # "absent" /\ letter' = [letter EXCEPT ![l] = "deleted"]
    BY <1>8, <2>1 DEF DropLetter, UploadRows
  <2>5. \A f \in File : key'[f] = IF LetterOf[f] = l THEN NoBlob ELSE key[f]
    BY <1>8, <2>1 DEF DropLetter
  <2>6. \A f \in File : key'[f] # NoBlob => key[f] # NoBlob /\ RowExists(LetterOf[f])'
    BY <2>4, <2>5 DEF UploadRows, RowExists
  <2>7. \A x \in Letter : letter'[x] = "absent" <=> letter[x] = "absent"
    BY <2>4
  <2>8. \A t \in Ticket : /\ token'[t] \in {token[t], "none"}
                         /\ (token[t] = "opening" => token'[t] = "opening")
    <3>1. PICK gone : Cascade(gone)
      BY <1>8 DEF DropLetter
    <3> QED
      BY <3>1 DEF Cascade
  <2> QED
    BY <2>2, <2>3, <2>6, <2>7, <2>8, ReapRowsOne
<1> QED
  BY <1>2, <1>3, <1>4, <1>5, <1>6, <1>7, <1>8 DEF SweepStep, ReapStep, ReapFault

LEMMA RowsKept ==
  ASSUME UploadRows, TokenRows, EstateTypeOK, [EstateNext]_estateVars
  PROVE  UploadRows' /\ TokenRows'
<1>1. CASE UNCHANGED estateVars \/ AccountStep
  <2>1. UNCHANGED <<vaultState, sending, token, heir, letter, key, upload, reaper>>
    BY <1>1 DEF estateVars, contentVars, AccountStep, DayPasses, CancelSubscription,
       ReactivateSubscription, RequestDeletion, CancelDeletion, accountFrame
  <2> QED
    BY <2>1, UploadRowsFrame, TokenRowsFrame
<1>2. CASE ContentsNext
  <2>0. UNCHANGED reaper
    BY <1>2 DEF ContentsNext
  <2>1. ASSUME NEW l \in Letter,
               \/ \E fs \in SUBSET FilesOf(l) : SealBegin(l, fs)
               \/ SealInsert(l) \/ UploadRow(l) \/ UploadRefused(l) \/ UploadStops(l)
               \/ \E f \in FilesOf(l) : UploadPut(l, f)
        PROVE  UploadRows' /\ TokenRows'
    BY <2>0, <2>1, UploadRowSteps
  <2>2. ASSUME NEW m \in Mover,
               \/ \E r \in Region : MoveBegin(m, r)
               \/ \E b \in mover[m].todo : MoveGet(m, b) \/ MoveMissing(m, b)
               \/ MoveList(m) \/ MovePut(m) \/ MoveRepoint(m) \/ MoveDelete(m) \/ MoveDone(m)
               \/ MoveStops(m) \/ MoveDeleteFails(m)
        PROVE  UploadRows' /\ TokenRows'
    BY <2>0, <2>2, MoverRowSteps
  <2> QED
    BY <1>2, <2>0, <2>1, <2>2, SendRowSteps, ClaimRowSteps
       DEF ContentsNext, ContentsStep, SealLetter, SealMultipart
<1>3. ASSUME NEW r \in Reaper,
             \/ SweepStep(r) \/ DropLetter(r) \/ (\E l \in Letter : DeleteLetter(r, l))
             \/ ReapStep(r) \/ ReapFault(r)
      PROVE  UploadRows' /\ TokenRows'
  BY <1>3, ReapRowSteps
<1> QED
  BY <1>1, <1>2, <1>3 DEF EstateNext, Reaper

-----------------------------------------------------------------------------
(* Handlers that meet nobody and are not stopped.                          *)

NoUpload == \A l \in Letter : upload[l].pc = "idle"
NoMove == \A m \in Mover : mover[m].pc = "idle"
NoReap == \A r \in Reaper : reaper[r].pc = "idle"
NoOpening == \A t \in Ticket : token[t] # "opening"
NoSend == sending.pc = "idle"

OneBusy ==
  /\ \A l \in Letter : upload[l].pc # "idle" =>
       (\A x \in Letter \ {l} : upload[x].pc = "idle") /\ NoMove /\ NoReap /\ NoOpening /\ NoSend
  /\ \A m \in Mover : mover[m].pc # "idle" =>
       (\A x \in Mover \ {m} : mover[x].pc = "idle") /\ NoUpload /\ NoReap /\ NoOpening /\ NoSend
  /\ \A r \in Reaper : reaper[r].pc # "idle" =>
       (\A x \in Reaper \ {r} : reaper[x].pc = "idle") /\ NoUpload /\ NoMove /\ NoOpening /\ NoSend
  /\ \A t \in Ticket : token[t] = "opening" =>
       (\A x \in Ticket \ {t} : token[x] # "opening") /\ NoUpload /\ NoMove /\ NoReap /\ NoSend
  /\ sending.pc # "idle" => NoUpload /\ NoMove /\ NoReap /\ NoOpening

LEMMA AtWork == Solo /\ ~clashed => OneBusy
<1> SUFFICES ASSUME Solo, ~clashed PROVE OneBusy
  OBVIOUS
<1>0. /\ \A l \in Letter : upload[l].pc # "idle" => <<"seal", l>> \in Working
      /\ \A m \in Mover : mover[m].pc # "idle" => <<"move", m>> \in Working
      /\ \A r \in Reaper : reaper[r].pc # "idle" => <<"reap", r>> \in Working
      /\ \A t \in Ticket : token[t] = "opening" => <<"claim", t>> \in Working
      /\ sending.pc # "idle" => <<"send", NoLetter>> \in Working
  BY DEF Working
<1>1. \A h1, h2 \in Working : h1 = h2
  BY DEF Solo
<1>2. \A x, y : <<"seal", x>> \in Working =>
        /\ <<"seal", y>> \in Working => x = y
        /\ <<"move", y>> \notin Working /\ <<"reap", y>> \notin Working
        /\ <<"claim", y>> \notin Working /\ <<"send", NoLetter>> \notin Working
  BY <1>1
<1>3. \A x, y : <<"move", x>> \in Working =>
        /\ <<"move", y>> \in Working => x = y
        /\ <<"reap", y>> \notin Working
        /\ <<"claim", y>> \notin Working /\ <<"send", NoLetter>> \notin Working
  BY <1>1
<1>4. \A x, y : <<"reap", x>> \in Working =>
        /\ <<"reap", y>> \in Working => x = y
        /\ <<"claim", y>> \notin Working /\ <<"send", NoLetter>> \notin Working
  BY <1>1
<1>5. \A x, y : <<"claim", x>> \in Working =>
        /\ <<"claim", y>> \in Working => x = y
        /\ <<"send", NoLetter>> \notin Working
  BY <1>1
<1> USE DEF NoUpload, NoMove, NoReap, NoOpening, NoSend
<1>6. \A l \in Letter : upload[l].pc # "idle" =>
        (\A x \in Letter \ {l} : upload[x].pc = "idle") /\ NoMove /\ NoReap /\ NoOpening /\ NoSend
  BY <1>0, <1>2, Zenon
<1>7. \A m \in Mover : mover[m].pc # "idle" =>
        (\A x \in Mover \ {m} : mover[x].pc = "idle") /\ NoUpload /\ NoReap /\ NoOpening /\ NoSend
  BY <1>0, <1>2, <1>3, Zenon
<1>8. \A r \in Reaper : reaper[r].pc # "idle" =>
        (\A x \in Reaper \ {r} : reaper[x].pc = "idle") /\ NoUpload /\ NoMove /\ NoOpening /\ NoSend
  BY <1>0, <1>2, <1>3, <1>4, Zenon
<1>9. \A t \in Ticket : token[t] = "opening" =>
        (\A x \in Ticket \ {t} : token[x] # "opening") /\ NoUpload /\ NoMove /\ NoReap /\ NoSend
  BY <1>0, <1>2, <1>3, <1>4, <1>5, Zenon
<1>10. sending.pc # "idle" => NoUpload /\ NoMove /\ NoReap /\ NoOpening
  BY <1>0, <1>2, <1>3, <1>4, <1>5, Zenon
<1> QED
  BY <1>6, <1>7, <1>8, <1>9, <1>10, Zenon DEF OneBusy

CourseInv ==
  Accounted /\ UploadCourse /\ MoveCourse /\ ReapCourse /\ ClaimCourse /\ SendCourse

\* Nobody but the request that seals letter l is at work.
LEMMA UploadAlone ==
  ASSUME EstateTypeOK, TokenRows, CourseInv, NEW l \in Letter,
         \A x \in Letter : x # l => upload[x].pc = "idle" /\ upload'[x] = upload[x],
         NoMove, NoReap, NoOpening, NoSend,
         vaultState = "ACTIVE",
         upload'[l].pc \in {"put", "row"} => RowExists(l)',
         \A b \in stored' : \/ upload'[l].pc = "row" /\ upload'[l].blob = b
                            \/ \E f \in File : key'[f] = b,
         \A x \in Letter : letter'[x] = "sealed" => letter[x] = "sealed" \/ token[x] = "none",
         \A f \in File : token[f] = "burnt" => key'[f] = key[f],
         UNCHANGED <<vaultState, mover, reaper, sending, token, heir>>
  PROVE  CourseInv'
<1>1. Accounted'
  BY DEF Accounted, InHand
<1>2. UploadCourse'
  BY DEF UploadCourse
<1>3. MoveCourse' /\ ReapCourse'
  BY DEF MoveCourse, ReapCourse, NoMove, NoReap, Reaper
<1>4. ClaimCourse'
  BY RowFacts DEF CourseInv, ClaimCourse, TokenRows, NoOpening
<1>5. SendCourse'
  BY DEF SendCourse, NoSend, TokenRows
<1> QED
  BY <1>1, <1>2, <1>3, <1>4, <1>5 DEF CourseInv

LEMMA MoveAlone ==
  ASSUME EstateTypeOK, TokenRows, CourseInv, NEW m \in Mover,
         \A x \in Mover : x # m => mover[x].pc = "idle" /\ mover'[x] = mover[x],
         NoUpload, NoReap, NoOpening, NoSend,
         mover'[m].pc \in {"get", "put", "repoint", "delete"} =>
           \A b \in mover'[m].todo :
             (mover'[m].pc = "delete" /\ b = mover'[m].old) \/ key'[b.holds] = b,
         mover'[m].pc \in {"put", "repoint"} => key'[mover'[m].old.holds] = mover'[m].old,
         \A b \in stored' : \/ mover'[m].pc = "repoint" /\ mover'[m].new = b
                            \/ mover'[m].pc = "delete" /\ mover'[m].old = b
                            \/ \E f \in File : key'[f] = b,
         \A f \in File : key'[f] = NoBlob <=> key[f] = NoBlob,
         UNCHANGED <<vaultState, upload, letter, reaper, sending, token, heir>>
  PROVE  CourseInv'
<1>1. Accounted'
  BY DEF Accounted, InHand
<1>2. MoveCourse'
  BY DEF MoveCourse
<1>3. UploadCourse' /\ ReapCourse'
  BY DEF UploadCourse, ReapCourse, NoUpload, NoReap, Reaper
<1>4. ClaimCourse'
  BY RowFacts DEF CourseInv, ClaimCourse, TokenRows, NoOpening
<1>5. \A l \in Letter : Attached(l)' = Attached(l)
  BY DEF Attached, FilesOf
<1>6. SendCourse'
  BY <1>5 DEF CourseInv, SendCourse, NoSend, RowExists
<1> QED
  BY <1>1, <1>2, <1>3, <1>4, <1>6 DEF CourseInv

LEMMA ReapAlone ==
  ASSUME EstateTypeOK, TokenRows, CourseInv, NEW r \in Reaper,
         \A x \in Reaper : x # r => reaper[x].pc = "idle" /\ reaper'[x] = reaper[x],
         NoUpload, NoMove, NoOpening, NoSend,
         reaper'[r].pc \in {"files", "blob"} =>
           Attached(reaper[r].letter)' \subseteq reaper'[r].files,
         r \in Sweeper /\ reaper'[r].pc \in {"letters", "files", "blob"} =>
           \A l \in Letter : letter'[l] = "sealed" \/ Attached(l)' # {} => l \in Ahead(r)',
         reaper'[r].pc = "anonymise" =>
           stored' = {} /\ \A l \in Letter : letter'[l] # "sealed",
         \A b \in stored' : \/ reaper'[r].pc = "blob" /\ reaper'[r].blob = b
                            \/ \E f \in File : key'[f] = b,
         \A l \in Letter : /\ RowExists(l)' => RowExists(l) /\ token'[l] = token[l]
                           /\ letter'[l] = "sealed" => letter[l] = "sealed",
         \A f \in File : key'[f] # NoBlob => key'[f] = key[f] /\ token'[f] = token[f],
         \A t \in Ticket : token'[t] = "burnt" => token[t] = "burnt",
         UNCHANGED <<vaultState, upload, mover, sending, heir>>
  PROVE  CourseInv'
<1>1. Accounted'
  BY DEF Accounted, InHand
<1>2. ReapCourse'
  <2>1. \A x \in Reaper : x # r => reaper'[x].pc = "idle"
    OBVIOUS
  <2> QED
    BY <2>1 DEF ReapCourse, Reaper
<1>3. UploadCourse' /\ MoveCourse'
  BY DEF UploadCourse, MoveCourse, NoUpload, NoMove
<1>4. ClaimCourse'
  BY RowFacts DEF CourseInv, ClaimCourse, TokenRows, NoOpening
<1>5. SendCourse'
  <2>1. \A l \in Letter : \A f \in Attached(l)' : f \in Attached(l) /\ token'[f] = token[f]
    BY DEF Attached, FilesOf
  <2>2. sending.letters = {} /\ sending'.letters = {} /\ sending'.pc # "files"
    BY DEF NoSend, TokenRows
  <2>3. ASSUME vaultState' = "RELEASED", NEW l \in Letter, RowExists(l)'
        PROVE  token'[l] # "none" /\ \A f \in Attached(l)' \ sending'.files : token'[f] # "none"
    <3>1. token[l] # "none" /\ \A f \in Attached(l) \ sending.files : token[f] # "none"
      BY <2>2, <2>3 DEF CourseInv, SendCourse
    <3> QED
      BY <2>1, <2>3, <3>1
  <2> QED
    BY <2>2, <2>3 DEF SendCourse
<1> QED
  BY <1>1, <1>2, <1>3, <1>4, <1>5 DEF CourseInv

\* Deliveries and claims: what the store holds and whose it is stays as it was.
LEMMA ReadAlone ==
  ASSUME CourseInv, NoUpload, NoMove, NoReap, ClaimCourse', SendCourse',
         UNCHANGED <<stored, key, upload, mover, reaper>>
  PROVE  CourseInv'
<1>1. Accounted'
  BY DEF CourseInv, Accounted, InHand
<1>2. UploadCourse' /\ MoveCourse' /\ ReapCourse'
  BY DEF UploadCourse, MoveCourse, ReapCourse, NoUpload, NoMove, NoReap, Reaper
<1> QED
  BY <1>1, <1>2 DEF CourseInv

LEMMA UploadCourses ==
  ASSUME EstateTypeOK, UploadRows, TokenRows, OneBusy, OneBusy', CourseInv, stops' = 0,
         NEW l \in Letter, UNCHANGED reaper,
         \/ \E fs \in SUBSET FilesOf(l) : SealBegin(l, fs)
         \/ SealInsert(l) \/ UploadRow(l) \/ UploadRefused(l) \/ UploadStops(l)
         \/ \E f \in FilesOf(l) : UploadPut(l, f)
  PROVE  CourseInv'
<1> USE RowFacts DEF blobVars
<1>0. upload[l] \in UploadState /\ stops \in Nat
  BY DEF EstateTypeOK, ContentsTypeOK
<1>1. /\ UNCHANGED <<vaultState, mover, reaper, sending, token, heir>>
      /\ \A x \in Letter : x # l => upload'[x] = upload[x]
      /\ upload[l].pc # "idle" \/ upload'[l].pc # "idle"
  BY DEF SealBegin, SealInsert, UploadRow, UploadRefused, UploadStops, UploadPut, UploadNext, sealFrame,
     Upload
<1>2. /\ \A x \in Letter : x # l => upload[x].pc = "idle"
      /\ NoMove /\ NoReap /\ NoOpening /\ NoSend
  <2>1. CASE upload[l].pc # "idle"
    BY <2>1 DEF OneBusy
  <2>2. CASE upload'[l].pc # "idle"
    BY <1>1, <2>2 DEF OneBusy, NoMove, NoReap, NoOpening, NoSend
  <2> QED
    BY <1>1, <2>1, <2>2
<1>3. vaultState = "ACTIVE"
  BY <1>1 DEF CourseInv, UploadCourse, SealBegin, SealInsert, UploadRow, UploadRefused, UploadStops,
     UploadPut
<1>4. \A b \in stored : \/ upload[l].pc = "row" /\ upload[l].blob = b
                        \/ \E f \in File : key[f] = b
  BY <1>2 DEF CourseInv, Accounted, InHand, NoMove, NoReap
<1>5. ASSUME NEW fs \in SUBSET FilesOf(l), SealBegin(l, fs) PROVE CourseInv'
  <2>1. upload[l].pc = "idle" /\ upload'[l].pc = "seal" /\ UNCHANGED <<stored, key, letter>>
    BY <1>5 DEF SealBegin, Upload
  <2> QED
    BY <1>1, <1>2, <1>3, <1>4, <2>1, UploadAlone
<1>6. CASE SealInsert(l)
  <2>1. /\ upload[l].pc = "seal" /\ upload'[l].pc \in {"idle", "put"}
        /\ letter' = [letter EXCEPT ![l] = "sealed"] /\ UNCHANGED <<stored, key>>
    BY <1>6 DEF SealInsert, UploadNext, Upload, NotUploading
  <2>2. RowExists(l)' /\ token[l] = "none"
    BY <2>1 DEF RowExists, UploadRows, TokenRows, Unsent
  <2>3. \A x \in Letter : letter'[x] = "sealed" => letter[x] = "sealed" \/ token[x] = "none"
    BY <2>1, <2>2
  <2> QED
    BY <1>1, <1>2, <1>3, <1>4, <2>1, <2>2, <2>3, UploadAlone
<1>7. ASSUME NEW f \in FilesOf(l), UploadPut(l, f) PROVE CourseInv'
  <2>1. PICK b : b = FreshKey(upload[l].region, f)
    OBVIOUS
  <2>2. /\ upload' = [upload EXCEPT ![l].pc = "row", ![l].blob = b] /\ upload[l].pc = "put"
        /\ stored' = stored \cup {b} /\ UNCHANGED <<key, letter>>
    BY <1>7, <2>1 DEF UploadPut, Put
  <2>3. upload'[l].pc = "row" /\ upload'[l].blob = b
    BY <1>0, <2>2 DEF UploadState
  <2>4. RowExists(l)'
    BY <2>2 DEF CourseInv, UploadCourse, RowExists
  <2>5. \A c \in stored' : \/ upload'[l].pc = "row" /\ upload'[l].blob = c
                           \/ \E g \in File : key'[g] = c
    BY <1>4, <2>2, <2>3
  <2> QED
    BY <1>1, <1>2, <1>3, <2>2, <2>4, <2>5, UploadAlone
<1>8. CASE UploadRow(l)
  <2>1. PICK b : b = upload[l].blob
    OBVIOUS
  <2>2. /\ upload[l].pc = "row" /\ upload'[l].pc \in {"idle", "put"} /\ RowExists(l)
        /\ key' = [key EXCEPT ![b.holds] = b] /\ UNCHANGED <<stored, letter>>
    BY <1>8, <2>1 DEF UploadRow, UploadNext, Upload, NotUploading
  <2>3. b.holds \in File /\ key[b.holds] = NoBlob /\ token[b.holds] = "none"
    BY <2>1, <2>2 DEF UploadRows
  <2>4. RowExists(l)'
    BY <2>2 DEF RowExists
  <2>5. \A f \in File : f # b.holds => key'[f] = key[f]
    BY <2>2
  <2>6. key'[b.holds] = b
    BY <2>2, <2>3
  <2>7. \A c \in stored : c # NoBlob
    BY NoBlobApart DEF EstateTypeOK, ContentsTypeOK, BlobTypeOK
  <2>8. \A c \in stored' : \E g \in File : key'[g] = c
    BY <1>4, <2>1, <2>2, <2>3, <2>5, <2>6, <2>7
  <2>9. \A f \in File : token[f] = "burnt" => key'[f] = key[f]
    BY <2>3, <2>5
  <2> QED
    BY <1>1, <1>2, <1>3, <2>2, <2>4, <2>8, <2>9, UploadAlone
\* The letter is there, so nothing but a file that is not put yet can be refused.
<1>9. CASE UploadRefused(l)
  <2>1. /\ upload[l].pc = "put" /\ upload'[l].pc = "idle" /\ UNCHANGED <<stored, key, letter>>
    BY <1>9 DEF UploadRefused, CourseInv, UploadCourse, NotUploading, Upload
  <2> QED
    BY <1>1, <1>2, <1>3, <1>4, <2>1, UploadAlone
<1>10. ~UploadStops(l)
  BY <1>0 DEF UploadStops
<1> QED
  BY <1>5, <1>6, <1>7, <1>8, <1>9, <1>10

\* The facts about a mover that its types give.
LEMMA MoverFacts ==
  ASSUME StoreInv, NEW m \in Mover
  PROVE  /\ mover[m] \in MoverState /\ mover[m].todo \subseteq Blob
         /\ \A b \in Blob : b.holds \in File /\ b # NoBlob
         /\ mover[m].pc \in {"put", "repoint", "delete"} => mover[m].old \in Blob
         /\ mover[m].pc = "repoint" => mover[m].new \in stored
              /\ mover[m].new \in Blob /\ mover[m].new.holds = mover[m].old.holds
         /\ \A f \in File : key[f] # NoBlob => key[f] \in Blob /\ key[f].holds = f
BY NoBlobApart DEF StoreInv, StoreTypes, MoverState, Blob, Moves, Secret, RowsResolve, Key

LEMMA MoveCourses ==
  ASSUME EstateTypeOK, StoreInv, UploadRows, TokenRows, OneBusy, OneBusy', CourseInv, stops' = 0,
         NEW m \in Mover, UNCHANGED reaper,
         \/ \E r \in Region : MoveBegin(m, r)
         \/ \E b \in mover[m].todo : MoveGet(m, b) \/ MoveMissing(m, b)
         \/ MoveList(m) \/ MovePut(m) \/ MoveRepoint(m) \/ MoveDelete(m) \/ MoveDone(m)
         \/ MoveStops(m) \/ MoveDeleteFails(m)
  PROVE  CourseInv'
<1> USE RowFacts, MoverFacts DEF blobVars
<1>0. mover[m] \in MoverState /\ stops \in Nat
  BY DEF EstateTypeOK, ContentsTypeOK
<1>1. ~MoveStops(m) /\ ~MoveDeleteFails(m)
  BY <1>0 DEF MoveStops, MoveDeleteFails
<1>2. UNCHANGED <<vaultState, upload, letter, reaper, sending, token, heir>>
  BY <1>1 DEF MoveBegin, MoveGet, MoveMissing, MoveList, MovePut, MoveRepoint, MoveDelete, MoveDone,
     moveFrame
<1>3. /\ \A x \in Mover : x # m => mover'[x] = mover[x]
      /\ mover[m].pc # "idle" \/ mover'[m].pc # "idle"
  BY <1>1 DEF MoveBegin, MoveGet, MoveMissing, MoveList, MovePut, MoveRepoint, MoveDelete, MoveDone,
     MoveOn, Move
<1>4. /\ \A x \in Mover : x # m => mover[x].pc = "idle"
      /\ NoUpload /\ NoReap /\ NoOpening /\ NoSend
  <2>1. CASE mover[m].pc # "idle"
    BY <2>1 DEF OneBusy
  <2>2. CASE mover'[m].pc # "idle"
    BY <1>2, <1>3, <2>2 DEF OneBusy, NoUpload, NoReap, NoOpening, NoSend
  <2> QED
    BY <1>3, <2>1, <2>2
<1>5. \A b \in stored : \/ mover[m].pc = "repoint" /\ mover[m].new = b
                        \/ mover[m].pc = "delete" /\ mover[m].old = b
                        \/ \E f \in File : key[f] = b
  BY <1>4 DEF CourseInv, Accounted, InHand, NoUpload, NoReap
\* Steps that write neither rows nor bytes.
<1>6. ASSUME UNCHANGED <<stored, key>>, mover[m].pc \notin {"repoint", "delete"},
             mover'[m].pc \notin {"repoint", "delete"},
             mover'[m].pc \in {"get", "put"} => \A b \in mover'[m].todo : key[b.holds] = b,
             mover'[m].pc = "put" => key[mover'[m].old.holds] = mover'[m].old
      PROVE  CourseInv'
  BY <1>2, <1>3, <1>4, <1>5, <1>6, MoveAlone
<1>7. ASSUME NEW r \in Region, MoveBegin(m, r) PROVE CourseInv'
  BY <1>6, <1>7 DEF MoveBegin, Move
<1>8. CASE MoveList(m)
  <2>1. /\ UNCHANGED <<stored, key>> /\ mover[m].pc = "list" /\ mover'[m].pc = "get"
        /\ \A b \in mover'[m].todo : b # NoBlob /\ \E f \in File : key[f] = b
    BY <1>0, <1>8 DEF MoveList, MoverState
  <2>2. \A b \in mover'[m].todo : key[b.holds] = b
    BY <2>1
  <2> QED
    BY <1>6, <2>1, <2>2
<1>9. ASSUME NEW b \in mover[m].todo, MoveGet(m, b) PROVE CourseInv'
  <2>0. /\ UNCHANGED <<stored, key>> /\ mover[m].pc = "get"
        /\ mover' = [mover EXCEPT ![m].pc = "put", ![m].old = b]
    BY <1>9 DEF MoveGet
  <2>1. /\ UNCHANGED <<stored, key>> /\ mover[m].pc = "get" /\ mover'[m].pc = "put"
        /\ mover'[m].todo = mover[m].todo /\ mover'[m].old = b
    BY <1>0, <2>0 DEF MoverState
  <2>2. \A c \in mover[m].todo : key[c.holds] = c
    BY <2>1 DEF CourseInv, MoveCourse
  <2> QED
    BY <1>6, <2>1, <2>2
<1>10. CASE MoveDone(m) \/ \E b \in mover[m].todo : MoveMissing(m, b)
  <2>1. UNCHANGED <<stored, key>> /\ mover[m].pc = "get" /\ mover'[m].pc = "idle"
    BY <1>10 DEF MoveDone, MoveMissing, NotMoving, Move
  <2> QED
    BY <1>6, <2>1
<1>11. CASE MovePut(m)
  <2>1. PICK n : n = FreshKey(mover[m].target, mover[m].old.holds)
    OBVIOUS
  <2>2. /\ mover[m].pc = "put" /\ mover' = [mover EXCEPT ![m].pc = "repoint", ![m].new = n]
        /\ stored' = stored \cup {n} /\ UNCHANGED key
    BY <1>11, <2>1 DEF MovePut, Put
  <2>3. /\ mover'[m].pc = "repoint" /\ mover'[m].new = n /\ mover'[m].old = mover[m].old
        /\ mover'[m].todo = mover[m].todo
    BY <1>0, <2>2 DEF MoverState
  <2>4. /\ \A b \in mover[m].todo : key[b.holds] = b
        /\ key[mover[m].old.holds] = mover[m].old
    BY <2>2 DEF CourseInv, MoveCourse
  <2>5. \A b \in stored' : \/ mover'[m].pc = "repoint" /\ mover'[m].new = b
                           \/ \E f \in File : key'[f] = b
    BY <1>5, <2>2, <2>3
  <2>6. /\ \A b \in mover'[m].todo : key'[b.holds] = b
        /\ key'[mover'[m].old.holds] = mover'[m].old
        /\ \A f \in File : key'[f] = NoBlob <=> key[f] = NoBlob
    BY <2>2, <2>3, <2>4
  <2> QED
    BY <1>2, <1>3, <1>4, <2>5, <2>6, MoveAlone
<1>12. CASE MoveRepoint(m)
  <2>1. PICK n, f, o : n = mover[m].new /\ f = n.holds /\ o = mover[m].old
    OBVIOUS
  <2>2. /\ mover[m].pc = "repoint" /\ mover' = [mover EXCEPT ![m].pc = "delete"]
        /\ key' = [key EXCEPT ![f] = IF key[f] = NoBlob THEN NoBlob ELSE n]
        /\ UNCHANGED stored
    BY <1>12, <2>1 DEF MoveRepoint, Repoint
  <2>3. /\ mover'[m].pc = "delete" /\ mover'[m].old = o /\ mover'[m].todo = mover[m].todo
    BY <1>0, <2>1, <2>2 DEF MoverState
  <2>4. /\ n \in Blob /\ f \in File /\ f = o.holds /\ o \in Blob /\ n # NoBlob /\ o # NoBlob
    BY <2>1, <2>2
  <2>5. /\ \A b \in mover[m].todo : key[b.holds] = b
        /\ key[f] = o
    BY <2>1, <2>2, <2>4 DEF CourseInv, MoveCourse
  <2>6. key'[f] = n /\ \A g \in File : g # f => key'[g] = key[g]
    BY <2>2, <2>4, <2>5
  <2>7. \A b \in mover[m].todo : b = o \/ key'[b.holds] = b
    <3> TAKE b \in mover[m].todo
    <3>1. CASE b.holds = f
      BY <2>5, <3>1
    <3>2. CASE b.holds # f
      BY <2>5, <2>6, <3>2
    <3> QED
      BY <3>1, <3>2
  <2>8. ASSUME NEW b \in stored PROVE b = o \/ \E g \in File : key'[g] = b
    <3>1. CASE b = n
      BY <2>4, <2>6, <3>1
    <3>2. CASE \E g \in File : key[g] = b
      BY <2>5, <2>6, <3>2
    <3> QED
      BY <1>5, <2>1, <2>2, <3>1, <3>2
  <2>9. \A g \in File : key'[g] = NoBlob <=> key[g] = NoBlob
    BY <2>4, <2>5, <2>6
  <2> QED
    BY <1>2, <1>3, <1>4, <2>2, <2>3, <2>7, <2>8, <2>9, MoveAlone
<1>13. CASE MoveDelete(m)
  <2>1. PICK o : o = mover[m].old
    OBVIOUS
  <2>2. /\ mover[m].pc = "delete" /\ stored' = stored \ {o} /\ UNCHANGED key
        /\ mover'[m].pc = "get" /\ mover'[m].todo = mover[m].todo \ {o}
    BY <1>13, <2>1 DEF MoveDelete, Delete, MoveOn, Move
  <2>3. \A b \in mover'[m].todo : key'[b.holds] = b
    BY <2>1, <2>2 DEF CourseInv, MoveCourse
  <2>4. \A b \in stored' : \E f \in File : key'[f] = b
    BY <1>5, <2>1, <2>2
  <2> QED
    BY <1>2, <1>3, <1>4, <2>2, <2>3, <2>4, MoveAlone
<1> QED
  BY <1>1, <1>7, <1>8, <1>9, <1>10, <1>11, <1>12, <1>13

LEMMA ReapCourses ==
  ASSUME EstateTypeOK, StoreInv, UploadRows, TokenRows, OneBusy, OneBusy', CourseInv, stops' = 0,
         NEW r \in Reaper,
         \/ r \in Sweeper /\ SweepStep(r)
         \/ r \in Deleter /\ (DropLetter(r) \/ \E l \in Letter : DeleteLetter(r, l))
         \/ ReapStep(r) \/ ReapFault(r)
  PROVE  CourseInv'
<1> USE RowFacts DEF sweepFrame, reapFrame, contentVars, accountVars, blobVars, ReapGoto
<1>0. reaper[r] \in ReaperState /\ stops \in Nat
  BY DEF EstateTypeOK, ContentsTypeOK
<1>1. ~ReapFault(r)
  BY <1>0 DEF ReapFault, ReaperStops, PurgeBlobFails
<1>2. UNCHANGED <<vaultState, upload, mover, sending, heir>>
  BY <1>1 DEF SweepStep, SweepBegin, SweepExpire, SweepDrop, SweepAccounts, SweepAnonymise, PurgeList,
     PurgeDone, EraseLetter, PurgeLetter, DropLetter, DeleteLetter, ReapStep, PurgeBlob, PurgeRow
<1>3. \A x \in Reaper : x # r => reaper'[x] = reaper[x]
  <2>1. CASE SweepBegin(r) \/ SweepExpire(r) \/ SweepDrop(r) \/ SweepAccounts(r) \/ SweepAnonymise(r)
    BY <2>1 DEF SweepBegin, SweepExpire, SweepDrop, SweepAccounts, SweepAnonymise
  <2>2. CASE PurgeList(r) \/ PurgeDone(r) \/ EraseLetter(r)
    BY <2>2 DEF PurgeList, PurgeDone, EraseLetter
  <2>3. ASSUME NEW l \in Letter, PurgeLetter(r, l) \/ DeleteLetter(r, l)
        PROVE  \A x \in Reaper : x # r => reaper'[x] = reaper[x]
    BY <2>3 DEF PurgeLetter, DeleteLetter
  <2>4. CASE DropLetter(r) \/ PurgeBlob(r)
    BY <2>4 DEF DropLetter, PurgeBlob
  <2>5. ASSUME NEW f \in File, PurgeRow(r, f)
        PROVE  \A x \in Reaper : x # r => reaper'[x] = reaper[x]
    BY <2>5 DEF PurgeRow
  <2> QED
    BY <1>1, <2>1, <2>2, <2>3, <2>4, <2>5, Zenon DEF SweepStep, ReapStep
<1>4. reaper[r].pc # "idle" \/ (reaper'[r].pc # "idle" /\ UNCHANGED token)
  <2>1. CASE SweepBegin(r)
    BY <2>1 DEF SweepBegin, Reap
  <2>2. ASSUME NEW l \in Letter, DeleteLetter(r, l) PROVE reaper'[r].pc # "idle" /\ UNCHANGED token
    <3>1. reaper' = [reaper EXCEPT ![r].pc = "files", ![r].letter = l, ![r].files = Attached(l)]
      BY <2>2 DEF DeleteLetter
    <3>2. reaper'[r].pc = "files"
      BY <1>0, <3>1 DEF ReaperState
    <3>3. UNCHANGED token
      BY <2>2 DEF DeleteLetter
    <3> QED
      BY <3>2, <3>3
  <2> QED
    BY <1>1, <2>1, <2>2 DEF SweepStep, SweepExpire, SweepDrop, SweepAccounts, SweepAnonymise, PurgeList,
       PurgeDone, EraseLetter, PurgeLetter, DropLetter, ReapStep, PurgeBlob, PurgeRow
<1>5. /\ \A x \in Reaper : x # r => reaper[x].pc = "idle"
      /\ NoUpload /\ NoMove /\ NoOpening /\ NoSend
  <2>1. CASE reaper[r].pc # "idle"
    BY <2>1 DEF OneBusy
  <2>2. CASE reaper'[r].pc # "idle" /\ UNCHANGED token
    BY <1>2, <1>3, <2>2 DEF OneBusy, NoUpload, NoMove, NoOpening, NoSend
  <2> QED
    BY <1>4, <2>1, <2>2
<1>6. \A b \in stored : \/ reaper[r].pc = "blob" /\ reaper[r].blob = b
                        \/ \E f \in File : key[f] = b
  BY <1>5 DEF CourseInv, Accounted, InHand, NoUpload, NoMove
\* Steps that write neither rows nor bytes.
<1>7. ASSUME UNCHANGED <<stored, letter, key, token>>, reaper[r].pc # "blob",
             reaper'[r].pc \in {"files", "blob"} =>
               Attached(reaper'[r].letter) \subseteq reaper'[r].files,
             r \in Sweeper /\ reaper'[r].pc \in {"letters", "files", "blob"} =>
               \A l \in Letter : letter[l] = "sealed" \/ Attached(l) # {} =>
                 l \in reaper'[r].letters
                   \/ (reaper'[r].pc # "letters" /\ l = reaper'[r].letter),
             reaper'[r].pc = "anonymise" =>
               stored = {} /\ \A l \in Letter : letter[l] # "sealed"
      PROVE  CourseInv'
  <2>1. reaper'[r].pc \in {"files", "blob"} => Attached(reaper[r].letter)' \subseteq reaper'[r].files
    BY <1>7 DEF Attached
  <2>2. \A l \in Letter : Attached(l)' = Attached(l)
    BY <1>7 DEF Attached
  <2>3. r \in Sweeper /\ reaper'[r].pc \in {"letters", "files", "blob"} =>
          \A l \in Letter : letter'[l] = "sealed" \/ Attached(l)' # {} => l \in Ahead(r)'
    BY <1>7, <2>2 DEF Ahead
  <2>4. \A l \in Letter : /\ RowExists(l)' => RowExists(l) /\ token'[l] = token[l]
                          /\ letter'[l] = "sealed" => letter[l] = "sealed"
    BY <1>7 DEF RowExists
  <2> QED
    BY <1>2, <1>3, <1>5, <1>6, <1>7, <2>1, <2>3, <2>4, ReapAlone
<1>8. CASE SweepBegin(r) \/ SweepAccounts(r) \/ SweepAnonymise(r)
  <2>1. /\ reaper'[r].pc \notin {"letters", "files", "blob", "anonymise"} /\ reaper[r].pc # "blob"
        /\ UNCHANGED <<stored, letter, key, token>>
    BY <1>8 DEF SweepBegin, SweepAccounts, SweepAnonymise, Reap, Resting
  <2> QED
    BY <1>7, <2>1
<1>9. CASE SweepExpire(r) \/ SweepDrop(r)
  <2>1. /\ reaper'[r].pc \in {"list", "accounts"} /\ reaper[r].pc # "blob"
        /\ UNCHANGED <<stored, letter, key, token>>
    BY <1>0, <1>9 DEF SweepExpire, SweepDrop, ReaperState
  <2> QED
    BY <1>7, <2>1
<1>10. CASE PurgeList(r)
  <2>1. /\ reaper[r].pc = "list" /\ UNCHANGED <<stored, letter, key, token>>
        /\ reaper' = [reaper EXCEPT ![r].pc = "letters",
                                    ![r].letters = {l \in Letter : RowExists(l)}]
    BY <1>10 DEF PurgeList
  <2>2. reaper'[r].pc = "letters" /\ reaper'[r].letters = {l \in Letter : RowExists(l)}
    BY <1>0, <2>1 DEF ReaperState
  <2>3. \A l \in Letter : letter[l] = "sealed" \/ Attached(l) # {} => RowExists(l)
    BY DEF UploadRows, RowExists, Attached
  <2> QED
    BY <1>7, <2>1, <2>2, <2>3
<1>11. ASSUME NEW l \in Letter, r \in Sweeper, PurgeLetter(r, l) PROVE CourseInv'
  <2>1. /\ reaper[r].pc = "letters" /\ UNCHANGED <<stored, letter, key, token>>
        /\ reaper' = [reaper EXCEPT ![r].pc = "files", ![r].letters = @ \ {l},
                                    ![r].letter = l, ![r].files = Attached(l)]
    BY <1>11 DEF PurgeLetter
  <2>2. /\ reaper'[r].pc = "files" /\ reaper'[r].letters = reaper[r].letters \ {l}
        /\ reaper'[r].letter = l /\ reaper'[r].files = Attached(l)
    BY <1>0, <2>1 DEF ReaperState
  <2>3. \A x \in Letter : letter[x] = "sealed" \/ Attached(x) # {} => x \in reaper[r].letters
    BY <1>11, <2>1 DEF CourseInv, ReapCourse, Ahead
  <2> QED
    BY <1>7, <2>1, <2>2, <2>3
<1>12. ASSUME NEW l \in Letter, r \in Deleter, DeleteLetter(r, l) PROVE CourseInv'
  <2>1. /\ reaper[r].pc = "idle" /\ UNCHANGED <<stored, letter, key, token>>
        /\ reaper' = [reaper EXCEPT ![r].pc = "files", ![r].letter = l, ![r].files = Attached(l)]
    BY <1>12 DEF DeleteLetter
  <2>2. reaper'[r].pc = "files" /\ reaper'[r].letter = l /\ reaper'[r].files = Attached(l)
    BY <1>0, <2>1 DEF ReaperState
  <2>3. r \notin Sweeper
    BY <1>12, EstateAssumption
  <2> QED
    BY <1>7, <2>1, <2>2, <2>3
\* Nothing ahead: no letter is sealed, no row has a key, and so the store is empty.
<1>13. CASE r \in Sweeper /\ PurgeDone(r)
  <2>1. /\ reaper[r].pc = "letters" /\ reaper[r].letters = {} /\ UNCHANGED <<stored, letter, key, token>>
        /\ reaper'[r].pc \in {"drop", "anonymise"}
    BY <1>0, <1>13 DEF PurgeDone, ReaperState
  <2>2. \A x \in Letter : letter[x] # "sealed" /\ Attached(x) = {}
    BY <1>13, <2>1 DEF CourseInv, ReapCourse, Ahead
  <2>3. \A f \in File : key[f] = NoBlob
    BY <2>2 DEF Attached, FilesOf
  <2>4. \A b \in stored : b # NoBlob
    BY NoBlobApart DEF StoreInv, StoreTypes
  <2>5. stored = {}
    BY <1>6, <2>1, <2>3, <2>4
  <2> QED
    BY <1>7, <2>1, <2>2, <2>5
<1>14. CASE r \in Sweeper /\ EraseLetter(r)
  <2>1. PICK l : l = reaper[r].letter
    OBVIOUS
  <2>2. /\ reaper[r].pc = "files" /\ reaper[r].files = {} /\ UNCHANGED <<stored, key, token>>
        /\ letter' = [letter EXCEPT ![l] = IF RowExists(l) THEN "erased" ELSE @]
        /\ reaper' = [reaper EXCEPT ![r].pc = "letters", ![r].letter = NoLetter]
    BY <1>14, <2>1 DEF EraseLetter
  <2>3. reaper'[r].pc = "letters" /\ reaper'[r].letters = reaper[r].letters
    BY <1>0, <2>2 DEF ReaperState
  <2>4. /\ l \in Letter /\ Attached(l) = {}
        /\ \A x \in Letter : letter[x] = "sealed" \/ Attached(x) # {} => x \in reaper[r].letters \/ x = l
    <3>1. l \in Letter
      BY <2>1, <2>2 DEF UploadRows
    <3>2. Attached(l) = {}
      BY <2>1, <2>2 DEF CourseInv, ReapCourse
    <3>3. \A x \in Letter : letter[x] = "sealed" \/ Attached(x) # {} => x \in reaper[r].letters \/ x = l
      BY <1>14, <2>1, <2>2 DEF CourseInv, ReapCourse, Ahead
    <3> QED
      BY <3>1, <3>2, <3>3
  <2>5. \A x \in Letter : Attached(x)' = Attached(x)
    BY <2>2 DEF Attached
  <2>6. letter'[l] # "sealed" /\ \A x \in Letter : x # l => letter'[x] = letter[x]
    BY <2>2, <2>4 DEF RowExists
  <2>7. \A x \in Letter : letter'[x] = "sealed" \/ Attached(x)' # {} => x \in Ahead(r)'
    BY <2>3, <2>4, <2>5, <2>6 DEF Ahead
  <2>8. \A x \in Letter : /\ RowExists(x)' => RowExists(x) /\ token'[x] = token[x]
                          /\ letter'[x] = "sealed" => letter[x] = "sealed"
    BY <2>2, <2>4, <2>6 DEF RowExists
  <2> QED
    BY <1>2, <1>3, <1>5, <1>6, <2>2, <2>3, <2>7, <2>8, ReapAlone
<1>15. CASE r \in Deleter /\ DropLetter(r)
  <2>1. PICK l : l = reaper[r].letter
    OBVIOUS
  <2>2. /\ reaper[r].pc = "files" /\ reaper[r].files = {} /\ UNCHANGED stored
        /\ letter' = [letter EXCEPT ![l] = "deleted"]
        /\ key' = [f \in File |-> IF LetterOf[f] = l THEN NoBlob ELSE key[f]]
        /\ Cascade({l} \cup FilesOf(l))
        /\ reaper' = [reaper EXCEPT ![r] = Resting]
    BY <1>15, <2>1 DEF DropLetter
  <2>3. reaper'[r].pc = "idle"
    BY <2>2 DEF Resting, Reap
  <2>4. l \in Letter /\ Attached(l) = {}
    BY <2>1, <2>2 DEF CourseInv, ReapCourse, UploadRows
  <2>5. \A f \in File : key'[f] = key[f]
    BY <2>2, <2>4 DEF Attached, FilesOf
  <2>6. \A t \in Ticket : token'[t] \in {token[t], "none"}
                          /\ (t \notin {l} \cup FilesOf(l) => token'[t] = token[t])
    BY <2>2 DEF Cascade
  <2>7. \A x \in Letter : x # l => letter'[x] = letter[x] /\ token'[x] = token[x]
    BY <2>2, <2>4, <2>6
  <2>8. \A x \in Letter : /\ RowExists(x)' => RowExists(x) /\ token'[x] = token[x]
                          /\ letter'[x] = "sealed" => letter[x] = "sealed"
    BY <2>2, <2>4, <2>7 DEF RowExists
  <2>9. \A f \in File : key'[f] # NoBlob => token'[f] = token[f]
    BY <2>4, <2>5, <2>6 DEF Attached, FilesOf
  <2>10. \A t \in Ticket : token'[t] = "burnt" => token[t] = "burnt"
    BY <2>6
  <2> QED
    BY <1>2, <1>3, <1>5, <1>6, <2>2, <2>3, <2>5, <2>8, <2>9, <2>10, ReapAlone
<1>16. ASSUME NEW f \in File, PurgeRow(r, f) PROVE CourseInv'
  <2>1. PICK b : b = key[f]
    OBVIOUS
  <2>2. /\ reaper[r].pc = "files" /\ key' = [key EXCEPT ![f] = NoBlob] /\ Cascade({f})
        /\ UNCHANGED <<stored, letter>>
        /\ reaper' = [reaper EXCEPT ![r].files = @ \ {f}, ![r].blob = b,
                                    ![r].pc = IF b = NoBlob THEN "files" ELSE "blob"]
    BY <1>16, <2>1 DEF PurgeRow
  <2>3. /\ reaper'[r].files = reaper[r].files \ {f} /\ reaper'[r].blob = b
        /\ reaper'[r].pc = IF b = NoBlob THEN "files" ELSE "blob"
        /\ reaper'[r].letter = reaper[r].letter /\ reaper'[r].letters = reaper[r].letters
    BY <1>0, <2>2 DEF ReaperState
  <2>4. key'[f] = NoBlob /\ \A g \in File : g # f => key'[g] = key[g]
    BY <2>2
  <2>5. \A t \in Ticket : token'[t] \in {token[t], "none"} /\ (t # f => token'[t] = token[t])
    BY <2>2 DEF Cascade
  <2>6. \A l \in Letter : Attached(l)' \subseteq Attached(l) \ {f}
    BY <2>4 DEF Attached, FilesOf
  <2>7. PICK l : l = reaper[r].letter
    OBVIOUS
  <2>8. l \in Letter /\ Attached(l) \subseteq reaper[r].files
    BY <2>2, <2>7 DEF CourseInv, ReapCourse, UploadRows
  <2>9. Attached(reaper[r].letter)' \subseteq reaper'[r].files
    <3>1. Attached(reaper[r].letter)' = Attached(l)'
      BY <2>3, <2>7 DEF Attached
    <3> QED
      BY <2>3, <2>6, <2>8, <3>1
  <2>10. r \in Sweeper => \A x \in Letter : letter'[x] = "sealed" \/ Attached(x)' # {} => x \in Ahead(r)'
    BY <2>2, <2>3, <2>6 DEF CourseInv, ReapCourse, Ahead
  <2>11. \A c \in stored' : \/ reaper'[r].pc = "blob" /\ reaper'[r].blob = c
                            \/ \E g \in File : key'[g] = c
    <3>1. \A c \in stored : c # NoBlob
      BY NoBlobApart DEF StoreInv, StoreTypes
    <3> QED
      BY <1>6, <2>1, <2>2, <2>3, <2>4, <3>1
  <2>12. \A x \in Letter : /\ RowExists(x)' => RowExists(x) /\ token'[x] = token[x]
                           /\ letter'[x] = "sealed" => letter[x] = "sealed"
    BY <2>2, <2>5 DEF RowExists
  <2>13. \A g \in File : key'[g] # NoBlob => key'[g] = key[g] /\ token'[g] = token[g]
    BY <2>4, <2>5
  <2>14. \A t \in Ticket : token'[t] = "burnt" => token[t] = "burnt"
    BY <2>5
  <2>15. reaper'[r].pc # "anonymise"
    BY <2>3
  <2> QED
    BY <1>2, <1>3, <1>5, <2>9, <2>10, <2>11, <2>12, <2>13, <2>14, <2>15, ReapAlone
<1>17. CASE PurgeBlob(r)
  <2>1. PICK b : b = reaper[r].blob
    OBVIOUS
  <2>2. /\ reaper[r].pc = "blob" /\ stored' = stored \ {b} /\ UNCHANGED <<letter, key, token>>
        /\ reaper' = [reaper EXCEPT ![r].pc = "files", ![r].blob = NoBlob]
    BY <1>17, <2>1 DEF PurgeBlob, Delete
  <2>3. /\ reaper'[r].files = reaper[r].files /\ reaper'[r].pc = "files"
        /\ reaper'[r].letter = reaper[r].letter /\ reaper'[r].letters = reaper[r].letters
    BY <1>0, <2>2 DEF ReaperState
  <2>4. PICK l : l = reaper[r].letter
    OBVIOUS
  <2>5. l \in Letter /\ Attached(l) \subseteq reaper[r].files
    BY <2>2, <2>4 DEF CourseInv, ReapCourse, UploadRows
  <2>6. \A x \in Letter : Attached(x)' = Attached(x)
    BY <2>2 DEF Attached
  <2>7. Attached(reaper[r].letter)' \subseteq reaper'[r].files
    <3>1. Attached(reaper[r].letter)' = Attached(l)'
      BY <2>3, <2>4 DEF Attached
    <3> QED
      BY <2>3, <2>5, <2>6, <3>1
  <2>8. r \in Sweeper => \A x \in Letter : letter'[x] = "sealed" \/ Attached(x)' # {} => x \in Ahead(r)'
    BY <2>2, <2>3, <2>6 DEF CourseInv, ReapCourse, Ahead
  <2>9. \A c \in stored' : \E g \in File : key'[g] = c
    BY <1>6, <2>1, <2>2
  <2>10. \A x \in Letter : /\ RowExists(x)' => RowExists(x) /\ token'[x] = token[x]
                           /\ letter'[x] = "sealed" => letter[x] = "sealed"
    BY <2>2 DEF RowExists
  <2> QED
    BY <1>2, <1>3, <1>5, <2>2, <2>3, <2>7, <2>8, <2>9, <2>10, ReapAlone
<1> QED
  BY <1>1, <1>8, <1>9, <1>10, <1>11, <1>12, <1>13, <1>14, <1>15, <1>16, <1>17 DEF SweepStep, ReapStep

LEMMA SendCourses ==
  ASSUME EstateTypeOK, UploadRows, TokenRows, OneBusy, OneBusy', CourseInv, UNCHANGED reaper,
         \/ ReleaseVault \/ SendList \/ SendNotify \/ SendDone \/ SendFails
         \/ (\E l \in Letter : SendLetter(l)) \/ \E f \in File : SendFile(f)
  PROVE  CourseInv'
<1> USE RowFacts DEF sendFrame
<1>1. UNCHANGED <<stored, key, upload, letter, mover, reaper, heir>>
  BY DEF ReleaseVault, SendList, SendNotify, SendDone, SendFails, SendLetter, SendFile
<1>2. NoUpload /\ NoMove /\ NoReap /\ NoOpening
  <2>1. CASE ReleaseVault
    <3>1. sending'.pc # "idle" /\ UNCHANGED token
      BY <2>1 DEF ReleaseVault, Sending
    <3> QED
      BY <1>1, <3>1 DEF OneBusy, NoUpload, NoMove, NoReap, NoOpening
  <2>2. CASE ~ReleaseVault
    BY <2>2 DEF SendList, SendNotify, SendDone, SendFails, SendLetter, SendFile, OneBusy
  <2> QED
    BY <2>1, <2>2
<1>3. \A t \in Ticket : token'[t] = token[t] \/ token'[t] = "issued"
  BY DEF ReleaseVault, SendList, SendNotify, SendDone, SendFails, SendLetter, SendFile
<1>4. ClaimCourse'
  BY <1>1, <1>2, <1>3 DEF CourseInv, ClaimCourse, TokenRows, NoOpening
<1>5. \A l \in Letter : Attached(l)' = Attached(l) /\ Attached(l) \subseteq FilesOf(l)
  BY <1>1 DEF Attached
<1>6. \A l \in Letter : RowExists(l)' <=> RowExists(l)
  BY <1>1 DEF RowExists
\* What is left of the delivery, once it has begun.
<1>7. SUFFICES SendCourse'
  BY <1>1, <1>2, <1>4, ReadAlone
<1> DEFINE Sent(l) == token'[l] # "none" /\ \A f \in Attached(l) \ sending'.files : token'[f] # "none"
<1>8. ASSUME \A l \in Letter : RowExists(l) /\ l \notin sending'.letters => Sent(l),
             \A l \in sending'.letters : l \in Letter /\ RowExists(l),
             sending'.pc = "files" => \A f \in sending'.files : key[f] # NoBlob
      PROVE  SendCourse'
  BY <1>1, <1>5, <1>6, <1>8 DEF SendCourse
<1>9. CASE ReleaseVault
  <2>1. sending'.letters = {l \in Letter : RowExists(l)} /\ sending'.pc = "claim"
    BY <1>9 DEF ReleaseVault, Sending
  <2> QED
    BY <1>8, <2>1
<1>10. vaultState = "RELEASED" \/ ReleaseVault
  BY DEF SendList, SendNotify, SendDone, SendFails, SendLetter, SendFile, TokenRows, EstateTypeOK,
     ContentsTypeOK
<1>11. ASSUME vaultState = "RELEASED"
       PROVE  /\ \A l \in Letter : RowExists(l) /\ l \notin sending.letters =>
                   token[l] # "none" /\ \A f \in Attached(l) \ sending.files : token[f] # "none"
              /\ \A l \in sending.letters : l \in Letter /\ RowExists(l)
              /\ sending.pc = "files" => \A f \in sending.files : key[f] # NoBlob
  BY <1>11 DEF CourseInv, SendCourse, SendingState
<1>12. CASE vaultState = "RELEASED" /\ SendList
  <2>1. /\ sending.pc = "list" /\ UNCHANGED token
        /\ sending' = [sending EXCEPT !.pc = "files", !.files = {f \in @ : key[f] # NoBlob}]
    BY <1>12 DEF SendList
  <2>2. /\ sending'.pc = "files" /\ sending'.letters = sending.letters
        /\ sending'.files = {f \in sending.files : key[f] # NoBlob}
    BY <2>1 DEF SendingState
  <2>3. \A l \in Letter : Attached(l) \ sending'.files = Attached(l) \ sending.files
    BY <2>2 DEF Attached
  <2> QED
    BY <1>8, <1>11, <1>12, <2>1, <2>2, <2>3
<1>13. CASE vaultState = "RELEASED" /\ (SendNotify \/ SendDone)
  <2>1. /\ sending.files = {} /\ sending'.files = {} /\ sending'.letters = sending.letters
        /\ sending'.pc # "files" /\ UNCHANGED token
    <3>1. CASE SendNotify
      BY <3>1 DEF SendNotify, Sending
    <3>2. CASE SendDone
      BY <3>2 DEF SendDone, Sending, TokenRows
    <3> QED
      BY <1>13, <3>1, <3>2
  <2> QED
    BY <1>8, <1>11, <1>13, <2>1
<1>14. ~(vaultState = "RELEASED" /\ SendFails)
  BY <1>11 DEF SendFails
<1>15. ASSUME vaultState = "RELEASED", NEW l \in Letter, SendLetter(l) PROVE SendCourse'
  <2>1. /\ sending.pc = "claim" /\ token' = [token EXCEPT ![l] = "issued"]
        /\ sending' = [sending EXCEPT !.pc = "list", !.letters = @ \ {l}, !.files = FilesOf(l)]
    BY <1>15 DEF SendLetter
  <2>2. /\ sending'.pc = "list" /\ sending'.letters = sending.letters \ {l}
        /\ sending'.files = FilesOf(l) /\ sending.files = {}
    BY <2>1 DEF SendingState, TokenRows
  <2>3. token'[l] = "issued" /\ \A t \in Ticket : t # l => token'[t] = token[t]
    BY <2>1
  <2>4. ASSUME NEW x \in Letter, RowExists(x), x \notin sending'.letters PROVE Sent(x)
    <3>1. CASE x = l
      BY <1>5, <2>2, <2>3, <3>1
    <3>2. CASE x # l
      <4>1. token[x] # "none" /\ \A f \in Attached(x) : token[f] # "none"
        BY <1>11, <1>15, <2>2, <2>4, <3>2
      <4>2. \A f \in Attached(x) : token'[f] = token[f]
        BY <1>5, <2>3
      <4> QED
        BY <2>3, <3>2, <4>1, <4>2
    <3> QED
      BY <3>1, <3>2
  <2> HIDE DEF Sent
  <2> QED
    BY <1>8, <1>11, <1>15, <2>2, <2>4
<1>16. ASSUME vaultState = "RELEASED", NEW f \in File, SendFile(f) PROVE SendCourse'
  <2>1. /\ sending.pc = "files" /\ token' = [token EXCEPT ![f] = "issued"]
        /\ sending' = [sending EXCEPT !.files = @ \ {f}]
    BY <1>16 DEF SendFile
  <2>2. /\ sending'.pc = "files" /\ sending'.letters = sending.letters
        /\ sending'.files = sending.files \ {f}
    BY <2>1 DEF SendingState
  <2>3. token'[f] = "issued" /\ \A t \in Ticket : t # f => token'[t] = token[t]
    BY <2>1
  <2>4. ASSUME NEW x \in Letter, RowExists(x), x \notin sending'.letters PROVE Sent(x)
    <3>1. token[x] # "none" /\ \A g \in Attached(x) \ sending.files : token[g] # "none"
      BY <1>11, <1>16, <2>2, <2>4
    <3>2. \A g \in Attached(x) : g \in Ticket
      BY <1>5
    <3> QED
      BY <2>2, <2>3, <3>1, <3>2
  <2>5. \A l \in sending'.letters : l \in Letter /\ RowExists(l)
    BY <1>11, <1>16, <2>2
  <2>6. \A g \in sending'.files : key[g] # NoBlob
    BY <1>11, <1>16, <2>1, <2>2
  <2> HIDE DEF Sent
  <2> QED
    BY <1>8, <2>4, <2>5, <2>6
<1> QED
  BY <1>9, <1>10, <1>12, <1>13, <1>14, <1>15, <1>16

LEMMA ClaimCourses ==
  ASSUME EstateTypeOK, StoreInv, TokenRows, OneBusy, OneBusy', CourseInv, stops' = 0,
         UNCHANGED reaper,
         \/ \E l \in Letter : OpenLetter(l)
         \/ \E f \in File : FetchAttachment(f) \/ OpenAttachment(f)
         \/ \E t \in Ticket : ConsumeClaim(t) \/ ClaimStops(t)
  PROVE  CourseInv'
<1> USE RowFacts DEF claimFrame
<1>0. stops \in Nat
  BY DEF EstateTypeOK, ContentsTypeOK
<1>1. \A t \in Ticket : ~ClaimStops(t)
  BY <1>0 DEF ClaimStops
<1>2. UNCHANGED <<stored, vaultState, sending, key, upload, letter, mover, reaper>>
  BY <1>1 DEF OpenLetter, FetchAttachment, OpenAttachment, ConsumeClaim
<1>3. \A f \in File : heir[f] # NoBlob => heir[f] = key[f] /\ heir[f] \in stored
  BY DEF CourseInv, ClaimCourse, StoreInv, RowsResolve
<1> DEFINE Kept == /\ NoUpload /\ NoMove /\ NoReap
                 /\ ClaimCourse'
                 /\ \A t \in Ticket : token[t] # "none" => token'[t] # "none"
<1>4. Kept
  <2>1. ASSUME NEW l \in Letter, OpenLetter(l) PROVE Kept
    <3>1. NoUpload /\ NoMove /\ NoReap
      BY <2>1 DEF OpenLetter, OneBusy
    <3>2. ClaimCourse'
      BY <1>2, <2>1 DEF OpenLetter, Answer, CourseInv, ClaimCourse
    <3> QED
      BY <2>1, <3>1, <3>2 DEF OpenLetter, Answer
  <2>2. ASSUME NEW f \in File, FetchAttachment(f) PROVE Kept
    <3>1. NoUpload /\ NoMove /\ NoReap
      BY <2>2 DEF FetchAttachment, OneBusy
    <3>2. ClaimCourse'
      BY <1>2, <2>2 DEF FetchAttachment, Answer, CourseInv, ClaimCourse
    <3> QED
      BY <2>2, <3>1, <3>2 DEF FetchAttachment, Answer
  <2>3. ASSUME NEW f \in File, OpenAttachment(f) PROVE Kept
    <3>1. NoUpload /\ NoMove /\ NoReap
      BY <2>3 DEF OpenAttachment, OneBusy
    <3>2. token'[f] = "served" /\ \A t \in Ticket : t # f => token'[t] = token[t]
      BY <1>3, <2>3 DEF OpenAttachment, Answer
    <3>3. \A g \in File : heir'[g] # NoBlob => heir'[g] = heir[g]
      BY <2>3 DEF OpenAttachment
    <3>4. ClaimCourse'
      BY <1>2, <3>2, <3>3 DEF CourseInv, ClaimCourse
    <3> QED
      BY <3>1, <3>2, <3>4
  <2>4. ASSUME NEW t \in Ticket, ConsumeClaim(t) PROVE Kept
    <3>1. token' = [token EXCEPT ![t] = "opening"] /\ UNCHANGED heir
      BY <2>4 DEF ConsumeClaim
    <3>2. NoUpload /\ NoMove /\ NoReap
      BY <1>2, <3>1 DEF OneBusy, NoUpload, NoMove, NoReap
    <3>3. ClaimCourse'
      BY <1>2, <3>1 DEF CourseInv, ClaimCourse
    <3> QED
      BY <3>1, <3>2, <3>3
  <2> QED
    BY <1>1, <2>1, <2>2, <2>3, <2>4
<1>5. \A l \in Letter : Attached(l)' = Attached(l) /\ Attached(l) \subseteq File
  BY <1>2 DEF Attached
<1>6. SendCourse'
  <2>1. ASSUME vaultState' = "RELEASED", NEW l \in Letter, RowExists(l)', l \notin sending'.letters
        PROVE  token'[l] # "none" /\ \A f \in Attached(l)' \ sending'.files : token'[f] # "none"
    <3>1. token[l] # "none" /\ \A f \in Attached(l) \ sending.files : token[f] # "none"
      BY <1>2, <2>1 DEF CourseInv, SendCourse, RowExists
    <3> QED
      BY <1>2, <1>4, <1>5, <3>1
  <2> QED
    BY <1>2, <2>1 DEF CourseInv, SendCourse, RowExists
<1> QED
  BY <1>2, <1>4, <1>6, ReadAlone

-----------------------------------------------------------------------------
(* Together.                                                               *)

LEMMA AloneBefore ==
  ASSUME EstateTypeOK, EstateTypeOK', [EstateNext]_estateVars, Alone'
  PROVE  Alone
<1>0. stops \in Nat /\ stops' = 0 /\ ~clashed'
  BY DEF EstateTypeOK, ContentsTypeOK, Alone
<1>1. ~clashed
  BY <1>0 DEF EstateNext, estateVars
<1>2. CASE UNCHANGED estateVars
  BY <1>0, <1>1, <1>2 DEF estateVars, contentVars, Alone
<1>3. CASE ContentsNext
  <2>1. stops' = stops \/ stops' = stops + 1
    BY <1>3 DEF ContentsNext, ContentsStep, SealLetter, SealMultipart, SealBegin, SealInsert, UploadRow,
       UploadRefused, UploadStops, UploadPut, MoveBegin, MoveGet, MoveMissing, MoveList, MovePut,
       MoveRepoint, MoveDelete, MoveDone, MoveStops, MoveDeleteFails, ReleaseVault, SendList, SendNotify,
       SendDone, SendFails, SendLetter, OpenLetter, SendFile, FetchAttachment, OpenAttachment,
       ConsumeClaim, ClaimStops, sealFrame, moveFrame, sendFrame, claimFrame
  <2> QED
    BY <1>0, <1>1, <2>1 DEF Alone
<1>4. CASE AccountStep
  BY <1>0, <1>1, <1>4 DEF AccountStep, DayPasses, CancelSubscription, ReactivateSubscription,
     RequestDeletion, CancelDeletion, accountFrame, contentVars, Alone
<1>5. ASSUME NEW r \in Reaper,
             \/ SweepStep(r) \/ DropLetter(r) \/ (\E l \in Letter : DeleteLetter(r, l))
             \/ ReapStep(r) \/ ReapFault(r)
      PROVE  Alone
  <2>1. stops' = stops \/ stops' = stops + 1
    BY <1>5 DEF SweepStep, SweepBegin, SweepExpire, SweepDrop, SweepAccounts, SweepAnonymise, PurgeList,
       PurgeDone, EraseLetter, PurgeLetter, DropLetter, DeleteLetter, ReapStep, PurgeBlob, PurgeRow,
       ReapFault, ReaperStops, PurgeBlobFails, sweepFrame, contentVars
  <2> QED
    BY <1>0, <1>1, <2>1 DEF Alone
<1> QED
  BY <1>2, <1>3, <1>4, <1>5 DEF EstateNext, Reaper

LEMMA CoursesKept ==
  ASSUME EstateTypeOK, EstateTypeOK', StoreInv, UploadRows, TokenRows, OneBusy, OneBusy', CourseInv,
         [EstateNext]_estateVars, stops' = 0
  PROVE  CourseInv'
<1>1. CASE UNCHANGED estateVars \/ AccountStep
  <2>1. UNCHANGED <<stored, vaultState, sending, token, heir, letter, key, upload, mover, reaper>>
    BY <1>1 DEF estateVars, blobVars, contentVars, AccountStep, DayPasses, CancelSubscription,
       ReactivateSubscription, RequestDeletion, CancelDeletion, accountFrame
  <2> QED
    BY <2>1 DEF CourseInv, Accounted, InHand, UploadCourse, MoveCourse, ReapCourse, Ahead, ClaimCourse,
       SendCourse, Attached, RowExists
<1>2. CASE ContentsNext
  <2>0. UNCHANGED reaper
    BY <1>2 DEF ContentsNext
  <2>1. ASSUME NEW l \in Letter,
               \/ \E fs \in SUBSET FilesOf(l) : SealBegin(l, fs)
               \/ SealInsert(l) \/ UploadRow(l) \/ UploadRefused(l) \/ UploadStops(l)
               \/ \E f \in FilesOf(l) : UploadPut(l, f)
        PROVE  CourseInv'
    BY <2>0, <2>1, UploadCourses
  <2>2. ASSUME NEW m \in Mover,
               \/ \E r \in Region : MoveBegin(m, r)
               \/ \E b \in mover[m].todo : MoveGet(m, b) \/ MoveMissing(m, b)
               \/ MoveList(m) \/ MovePut(m) \/ MoveRepoint(m) \/ MoveDelete(m) \/ MoveDone(m)
               \/ MoveStops(m) \/ MoveDeleteFails(m)
        PROVE  CourseInv'
    BY <2>0, <2>2, MoveCourses
  <2> QED
    BY <1>2, <2>0, <2>1, <2>2, SendCourses, ClaimCourses
       DEF ContentsNext, ContentsStep, SealLetter, SealMultipart
<1>3. ASSUME NEW r \in Reaper,
             \/ r \in Sweeper /\ SweepStep(r)
             \/ r \in Deleter /\ (DropLetter(r) \/ \E l \in Letter : DeleteLetter(r, l))
             \/ ReapStep(r) \/ ReapFault(r)
      PROVE  CourseInv'
  BY <1>3, ReapCourses
<1> QED
  BY <1>1, <1>2, <1>3 DEF EstateNext, Reaper

LEMMA EstateInitInv == EstateInit => EstateInv
<1> SUFFICES ASSUME EstateInit PROVE EstateInv
  OBVIOUS
<1> USE DEF EstateInit, ContentsInit, BlobInit, NotUploading, Upload, NotMoving, Move, Resting, Reap, Sending
<1>1. EstateTypeOK /\ StoreInv
  BY InitTypes, InitInv
<1>2. Working = {}
  BY DEF Working
<1>3. Solo /\ AccountInv
  BY <1>2 DEF Solo, AccountInv, Reaper
<1>4. UploadRows
  BY DEF UploadRows
<1>5. TokenRows
  BY RowFacts, <1>1 DEF TokenRows, Unsent
<1>6. Courses
  BY RowFacts, <1>1 DEF Courses, Accounted, UploadCourse, MoveCourse, ReapCourse, Ahead, ClaimCourse,
     SendCourse, RowExists, Reaper
<1> QED
  BY <1>1, <1>3, <1>4, <1>5, <1>6 DEF EstateInv

LEMMA EstateStep == EstateInv /\ [EstateNext]_estateVars => EstateInv'
<1> SUFFICES ASSUME EstateInv, [EstateNext]_estateVars PROVE EstateInv'
  OBVIOUS
<1>1. StoreInv' /\ EstateTypeOK'
  BY StepInv, StepTypes DEF EstateInv
<1>2. Solo' /\ AccountInv'
  BY SoloStep, AccountKept DEF EstateInv
<1>3. UploadRows' /\ TokenRows'
  BY RowsKept DEF EstateInv
<1>4. Courses'
  <2> SUFFICES ASSUME Alone' PROVE CourseInv'
    BY DEF Courses, CourseInv
  <2>1. Alone
    BY <1>1, AloneBefore DEF EstateInv
  <2>2. CourseInv
    BY <2>1 DEF EstateInv, Courses, CourseInv
  <2>3. OneBusy
    BY <2>1, AtWork DEF EstateInv, Alone
  <2>4. Solo' /\ ~clashed' => OneBusy'
    BY AtWork, PTL
  <2> QED
    BY <1>1, <1>2, <2>1, <2>2, <2>3, <2>4, CoursesKept DEF EstateInv, Alone
<1> QED
  BY <1>1, <1>2, <1>3, <1>4 DEF EstateInv

\* What handlers may count on while they meet nobody: every byte is a row's or in the
\* hands of one of them, a sweep has all that is left ahead of it, a delivery leaves no
\* letter of its list out (the handlers of routes.rs and retention_tick of scheduler.rs).
THEOREM EstateInductive == EstateSpec => []EstateInv
  BY EstateInitInv, EstateStep, PTL DEF EstateSpec

\* Rows, handlers and clocks keep to their types.
THEOREM EstateTypes == EstateSpec => []EstateTypeOK
<1>1. EstateInv => EstateTypeOK
  BY DEF EstateInv
<1> QED
  BY <1>1, EstateInductive, PTL

\* When no handler is at work, and none ever met another or was stopped, the store holds
\* nothing that no row knows of: uploads, moves, purges and deletions clean up after
\* themselves (purge_attachment, move_vault_region, delete_letter_handler).
THEOREM NothingLeftOver == EstateSpec => []NoLeftovers
<1>1. EstateInv => NoLeftovers
  <2> SUFFICES ASSUME EstateInv, Quiet, Alone PROVE stored \subseteq {key[f] : f \in File}
    BY DEF NoLeftovers
  <2>1. Accounted
    BY DEF EstateInv, Courses
  <2>2. /\ \A l \in Letter : upload[l].pc # "idle" => <<"seal", l>> \in Working
        /\ \A m \in Mover : mover[m].pc # "idle" => <<"move", m>> \in Working
        /\ \A r \in Reaper : reaper[r].pc # "idle" => <<"reap", r>> \in Working
    BY DEF Working
  <2>3. \A b : ~InHand(b)
    BY <2>2 DEF InHand, Quiet
  <2> QED
    BY <2>1, <2>3 DEF Accounted
<1> QED
  BY <1>1, EstateInductive, PTL

\* No claim is wasted on what is still there, and a vault that is released has a token
\* out for every letter and attachment that still is, where handlers did not meet and
\* none was stopped (deliver_letter of scheduler.rs, claim_release and claim_attachment).
THEOREM EveryHeirServed == EstateSpec => []HeirsAreServed
<1>1. EstateInv => HeirsAreServed
  <2> SUFFICES ASSUME EstateInv, Alone PROVE HeirsAreServed
    BY DEF HeirsAreServed
  <2>1. ClaimCourse /\ SendCourse /\ TokenRows
    BY DEF EstateInv, Courses
  <2>2. Quiet => sending.pc = "idle"
    BY DEF Quiet, Working
  <2>3. Quiet => sending.letters = {} /\ sending.files = {}
    BY <2>1, <2>2 DEF TokenRows
  <2> QED
    BY <2>1, <2>3 DEF HeirsAreServed, ClaimCourse, SendCourse
<1> QED
  BY <1>1, EstateInductive, PTL

\* When anonymise_principal runs, at the end of a sweep that met nobody and was not
\* stopped, nothing of the account is left: no bytes and no sealed letter (retention_tick).
THEOREM ErasedEntirely == EstateSpec => []ErasureComplete
<1>1. EstateInv => ErasureComplete
  BY DEF EstateInv, Courses, ReapCourse, ErasureComplete
<1> QED
  BY <1>1, EstateInductive, PTL

\* Whoever was told that the deletion is off loses nothing to it, however many sweeps run
\* on and wherever they stop, as long as handlers do not overlap (cancel_account_deletion,
\* list_due_account_deletions).
THEOREM CancelledIsKept == EstateSpec => []CancelledMeansKept
<1>1. EstateInv => CancelledMeansKept
  BY DEF EstateInv, AccountInv, CancelledMeansKept, Never
<1> QED
  BY <1>1, EstateInductive, PTL

=============================================================================
