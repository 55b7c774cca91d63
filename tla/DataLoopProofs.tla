--------------------------- MODULE DataLoopProofs ---------------------------
(***************************************************************************)
(* Theorems about DataLoop, for every set of operators, requests, drives   *)
(* and selections and every bound, with their proofs.                      *)
(***************************************************************************)
EXTENDS DataLoop, TableProofs, FiniteSetTheorems, TLAPS

-----------------------------------------------------------------------------
(* Types *)

(* A request in flight was acceptable when it was taken: BeginUpload checks what
   CommitUpload relies on. *)
PendingAreAcceptable ==
  \A u \in Uploads : uploads[u].phase = "pending" => Acceptable(uploads[u].asked)

(* The foreign keys: a frame is of a batch that exists, a ticket of a batch and of
   the drive of that batch. *)
ReferencesHold ==
  /\ \A f \in DOMAIN frames : f[1] \in DOMAIN batches
  /\ \A t \in DOMAIN tickets :
       /\ tickets[t].batch \in DOMAIN batches
       /\ tickets[t].drive = batches[tickets[t].batch].drive

(* The status that a batch has only inside the transaction of its validation. *)
NeverValidating == \A b \in DOMAIN batches : batches[b].status # "validating"

LoopTyped == LoopTypeOK /\ PendingAreAcceptable /\ ReferencesHold /\ NeverValidating

(* The pairs of a batch and a place are as many as the places. *)
LEMMA PlacesAreCounted ==
  ASSUME NEW b, NEW n \in Nat
  PROVE  IsFiniteSet({b} \X (1..n)) /\ Cardinality({b} \X (1..n)) = n
<1>1. IsFiniteSet({b}) /\ Cardinality({b}) = 1
  BY FS_Singleton
<1>2. IsFiniteSet(1..n) /\ Cardinality(1..n) = n
  BY FS_Interval
<1>3. PICK one, places : one = {b} /\ places = 1..n
  OBVIOUS
<1>4. /\ IsFiniteSet(one) /\ Cardinality(one) = 1
      /\ IsFiniteSet(places) /\ Cardinality(places) = n
  BY <1>1, <1>2, <1>3
<1>5. /\ IsFiniteSet(one \X places)
      /\ Cardinality(one \X places) = Cardinality(one) * Cardinality(places)
  BY <1>4, FS_Product
<1>6. Cardinality(one) * Cardinality(places) = n
  BY <1>4
<1> QED BY <1>3, <1>5, <1>6

(* The place of a frame in its batch is at most the length of the longest batch:
   the frames of a batch are finitely many. *)
LEMMA FramesFinite ==
  ASSUME LoopTypeOK, NEW b
  PROVE  /\ IsFiniteSet(FramesByBatch(b))
         /\ Cardinality(FramesByBatch(b)) \in 0..MaxFrames
         /\ \A some \in SUBSET FramesByBatch(b) :
              IsFiniteSet(some) /\ Cardinality(some) \in 0..MaxFrames
<1>1. MaxFrames \in Nat
  BY LoopBounds
<1>2. /\ IsFiniteSet({b} \X (1..MaxFrames))
      /\ Cardinality({b} \X (1..MaxFrames)) = MaxFrames
  BY <1>1, PlacesAreCounted
<1>3. FramesByBatch(b) \subseteq {b} \X (1..MaxFrames)
  BY DEF FramesByBatch, LoopTypeOK, IsTable, FrameIds
<1>4. ASSUME NEW some \in SUBSET FramesByBatch(b)
      PROVE  IsFiniteSet(some) /\ Cardinality(some) \in 0..MaxFrames
  <2>1. some \in SUBSET ({b} \X (1..MaxFrames))
    BY <1>3
  <2>2. IsFiniteSet(some) /\ Cardinality(some) <= MaxFrames
    BY <1>2, <2>1, FS_Subset
  <2> QED BY <1>1, <2>2, FS_CardinalityType
<1> QED BY <1>4

(* All frames that there may be are finitely many. *)
LEMMA FrameIdsFinite == IsFiniteSet(FrameIds)
<1>1. MaxFrames \in Nat /\ MaxBatches \in Nat
  BY LoopBounds
<1>2. IsFiniteSet(1..MaxFrames) /\ IsFiniteSet(1..MaxBatches)
  BY <1>1, FS_Interval
<1> QED BY <1>2, FS_Product DEF FrameIds, BatchIds

(* The severity of a ticket is one of the five, whatever frames it is opened for. *)
LEMMA SeverityTyped ==
  ASSUME NEW severities \in SUBSET (1..5)
  PROVE  Max(severities \cup {1}) \in 1..5
<1> DEFINE S == severities \cup {1}
<1>1. S \subseteq 1..5 /\ 1 \in S
  OBVIOUS
<1>2. \E x \in S : \A y \in S : x >= y
  <2> HIDE DEF S
  <2>1. CASE 5 \in S
    BY <1>1, <2>1
  <2>2. CASE 5 \notin S /\ 4 \in S
    BY <1>1, <2>2
  <2>3. CASE 5 \notin S /\ 4 \notin S /\ 3 \in S
    BY <1>1, <2>3
  <2>4. CASE 5 \notin S /\ 4 \notin S /\ 3 \notin S /\ 2 \in S
    BY <1>1, <2>4
  <2>5. CASE 5 \notin S /\ 4 \notin S /\ 3 \notin S /\ 2 \notin S
    BY <1>1, <2>5
  <2> QED BY <2>1, <2>2, <2>3, <2>4, <2>5
<1>3. Max(S) \in S
  <2> HIDE DEF S
  <2> QED BY <1>2 DEF Max
<1> QED BY <1>1, <1>3

-----------------------------------------------------------------------------
(* What the transactions do to the tables *)

(* Only the status of frames changes, and only of those with a verdict. *)
LEMMA FramesUpdated ==
  ASSUME IsTable(frames, FrameIds, Frame), NEW verdict, UpdateFrameStatus(verdict),
         \A f \in DOMAIN verdict : verdict[f] \in FrameStatus
  PROVE  /\ IsTable(frames', FrameIds, Frame)
         /\ DOMAIN frames' = DOMAIN frames
         /\ \A f \in DOMAIN frames :
              /\ frames'[f].quality = frames[f].quality
              /\ f \in DOMAIN verdict => frames'[f].status = verdict[f]
              /\ f \notin DOMAIN verdict => frames'[f] = frames[f]
<1>1. DOMAIN frames' = DOMAIN frames
  BY DEF UpdateFrameStatus
<1>2. ASSUME NEW f \in DOMAIN frames
      PROVE  /\ frames'[f] \in Frame
             /\ frames'[f].quality = frames[f].quality
             /\ f \in DOMAIN verdict => frames'[f].status = verdict[f]
             /\ f \notin DOMAIN verdict => frames'[f] = frames[f]
  <2>1. frames[f] \in Frame
    BY DEF IsTable
  <2>2. CASE f \notin DOMAIN verdict
    BY <2>1, <2>2 DEF UpdateFrameStatus
  <2>3. CASE f \in DOMAIN verdict
    <3>1. PICK status \in FrameStatus : status = verdict[f]
      BY <2>3
    <3>2. frames'[f] = [frames[f] EXCEPT !.status = status]
      BY <2>3, <3>1 DEF UpdateFrameStatus
    <3> QED BY <2>1, <2>3, <3>1, <3>2 DEF Frame
  <2> QED BY <2>2, <2>3
<1>3. frames' = [f \in DOMAIN frames' |-> frames'[f]]
  BY DEF UpdateFrameStatus
<1>4. DOMAIN frames \subseteq FrameIds
  BY DEF IsTable
<1> QED BY <1>1, <1>2, <1>3, <1>4 DEF IsTable

(* The frames of a batch that validation will find bad, and the good ones. *)
Low(b)  == {f \in FramesByBatch(b) : frames[f].quality < MinimumAcceptedQuality}
Good(b) == FramesByBatch(b) \ Low(b)

(* An upload adds one batch and its frames, all of them pending, under a key that
   no batch has. *)
Uploaded(u, b) ==
  LET asked == uploads[u].asked
      added == {b} \X (1..Len(asked.quality))
  IN  /\ asked \in Requests
      /\ Acceptable(asked)
      /\ CanUpload(asked)
      /\ b \in BatchIds \ DOMAIN batches
      /\ DOMAIN batches' = DOMAIN batches \cup {b}
      /\ \A x \in DOMAIN batches : x # b /\ batches'[x] = batches[x]
      /\ batches'[b] = [drive |-> asked.drive, key |-> asked.key, status |-> "uploaded",
                        frameCount |-> Len(asked.quality), acceptedCount |-> 0]
      /\ batches'[b] \in Batch
      /\ batches' = [x \in DOMAIN batches' |-> batches'[x]]
      /\ DOMAIN frames' = DOMAIN frames \cup added
      /\ \A f \in DOMAIN frames : f[1] # b /\ f \notin added /\ frames'[f] = frames[f]
      /\ \A f \in added : frames'[f] \in Frame /\ frames'[f].status = "pending"
      /\ frames' = [f \in DOMAIN frames' |-> frames'[f]]

LEMMA CommitAdds ==
  ASSUME LoopTyped, NEW u \in Uploads, CommitUpload(u)
  PROVE  \E b \in FreshId(batches, BatchIds) :
           /\ Uploaded(u, b)
           /\ uploads' = [uploads EXCEPT ![u] = [phase |-> "answered",
                                                 asked |-> uploads[u].asked, id |-> b]]
           /\ Record("capture.upload", b)
           /\ UNCHANGED <<tickets, datasets, outside>>
<1>1. PICK asked : asked = uploads[u].asked
  OBVIOUS
<1>2. PICK b \in FreshId(batches, BatchIds) :
        /\ batches' = Insert(batches, b,
             [drive |-> asked.drive, key |-> asked.key, status |-> "uploaded",
              frameCount |-> Len(asked.quality), acceptedCount |-> 0])
        /\ frames' = [f \in DOMAIN frames \cup ({b} \X DOMAIN asked.quality) |->
             IF f \in {b} \X DOMAIN asked.quality
             THEN [quality |-> asked.quality[f[2]], status |-> "pending"]
             ELSE frames[f]]
        /\ uploads' = [uploads EXCEPT ![u] = [phase |-> "answered", asked |-> asked, id |-> b]]
        /\ Record("capture.upload", b)
  BY <1>1 DEF CommitUpload
<1>3. b \in BatchIds \ DOMAIN batches
  BY FreshIdIsFree
<1>4. asked \in Requests /\ Acceptable(asked) /\ CanUpload(asked)
  <2>1. uploads[u] \in Upload /\ uploads[u].phase = "pending"
    BY DEF LoopTyped, LoopTypeOK, CommitUpload
  <2>2. asked \in Requests
    BY <1>1, <2>1 DEF Upload, Idle
  <2> QED BY <1>1, <2>1, <2>2 DEF CommitUpload, LoopTyped, PendingAreAcceptable
<1>5. /\ asked.quality \in Seq(Percent)
      /\ Len(asked.quality) \in 1..MaxFrames
      /\ DOMAIN asked.quality = 1..Len(asked.quality)
      /\ asked.key \in UploadKeys
  BY <1>4, RequestsTyped DEF Acceptable
<1>6. asked.drive \in DOMAIN driveOperator /\ asked.drive \in DriveIds
  BY <1>4 DEF CanUpload, LoopTyped, LoopTypeOK, IsTable
<1> DEFINE row == [drive |-> asked.drive, key |-> asked.key, status |-> "uploaded",
                   frameCount |-> Len(asked.quality), acceptedCount |-> 0]
           added == {b} \X (1..Len(asked.quality))
<1>7. row \in Batch
  BY <1>5, <1>6, LoopBounds DEF Batch, BatchStatus
<1>8. /\ DOMAIN batches' = DOMAIN batches \cup {b}
      /\ \A x \in DOMAIN batches : x # b /\ batches'[x] = batches[x]
      /\ batches'[b] = row
      /\ batches' = [x \in DOMAIN batches' |-> batches'[x]]
  <2> HIDE DEF row
  <2>1. batches' = Insert(batches, b, row)
    BY <1>2 DEF row
  <2> QED BY <1>3, <2>1 DEF Insert
<1>9. frames' = [f \in DOMAIN frames \cup added |->
        IF f \in added THEN [quality |-> asked.quality[f[2]], status |-> "pending"]
                       ELSE frames[f]]
  BY <1>2, <1>5
<1>10. \A f \in DOMAIN frames : f[1] # b
  BY <1>3 DEF LoopTyped, ReferencesHold
<1>11. \A f \in DOMAIN frames : f \notin added /\ frames'[f] = frames[f]
  BY <1>9, <1>10
<1>12. ASSUME NEW f \in added PROVE frames'[f] \in Frame /\ frames'[f].status = "pending"
  <2>1. asked.quality[f[2]] \in Percent
    BY <1>5
  <2>2. frames'[f] = [quality |-> asked.quality[f[2]], status |-> "pending"]
    BY <1>9
  <2> QED BY <2>1, <2>2 DEF Frame, FrameStatus
<1>13. /\ DOMAIN frames' = DOMAIN frames \cup added
       /\ frames' = [f \in DOMAIN frames' |-> frames'[f]]
  BY <1>9
<1>14. Uploaded(u, b)
  <2> HIDE DEF row, added
  <2>1. /\ batches'[b] = row /\ batches'[b] \in Batch
    BY <1>7, <1>8
  <2> QED BY <1>1, <1>3, <1>4, <1>8, <1>10, <1>11, <1>12, <1>13, <2>1 DEF Uploaded, row, added
<1>15. UNCHANGED <<tickets, datasets, outside>>
  BY DEF CommitUpload
<1> QED BY <1>1, <1>2, <1>14, <1>15

(* Validation accepts the good frames of an uploaded batch and quarantines the low
   ones, and opens one ticket for these if there are any. *)
Validated(b) ==
  /\ b \in DOMAIN batches
  /\ batches[b].status = "uploaded"
  /\ DOMAIN batches' = DOMAIN batches
  /\ \A x \in DOMAIN batches \ {b} : batches'[x] = batches[x]
  /\ batches'[b] = [batches[b] EXCEPT !.status = "validated",
                                     !.acceptedCount = Cardinality(Good(b))]
  /\ IsTable(batches', BatchIds, Batch)
  /\ IsTable(frames', FrameIds, Frame)
  /\ DOMAIN frames' = DOMAIN frames
  /\ \A f \in DOMAIN frames : frames'[f].quality = frames[f].quality
  /\ \A f \in DOMAIN frames \ FramesByBatch(b) : frames'[f] = frames[f]
  /\ \A f \in Good(b) : frames'[f].status = "accepted"
  /\ \A f \in Low(b) : frames'[f].status = "quarantined"

TicketOpened(b, t) ==
  /\ t \in TicketIds \ DOMAIN tickets
  /\ DOMAIN tickets' = DOMAIN tickets \cup {t}
  /\ \A other \in DOMAIN tickets : other # t /\ tickets'[other] = tickets[other]
  /\ tickets'[t] \in Ticket
  /\ tickets' = [x \in DOMAIN tickets' |-> tickets'[x]]
  /\ tickets'[t].batch = b
  /\ tickets'[t].drive = batches[b].drive
  /\ tickets'[t].status = "open"
  /\ tickets'[t].disposition = ""
  /\ tickets'[t].assigned = FALSE

LEMMA ValidateDecides ==
  ASSUME LoopTyped, NEW actor, NEW b, ValidateBatch(actor, b)
  PROVE  /\ Validated(b)
         /\ \/ Low(b) = {} /\ UNCHANGED tickets
            \/ Low(b) # {} /\ \E t : TicketOpened(b, t)
         /\ Record("capture.validate", b)
         /\ UNCHANGED <<datasets, uploads, outside>>
<1>1. b \in DOMAIN batches /\ batches[b].status = "uploaded" /\ batches[b] \in Batch
  BY DEF ValidateBatch, BatchTransitions, LoopTyped, LoopTypeOK, IsTable
<1>2. PICK verdict : verdict = [f \in FramesByBatch(b) |->
                                  IF f \in Good(b) THEN "accepted" ELSE "quarantined"]
  OBVIOUS
<1>3. UpdateFrameStatus(verdict)
  BY <1>2 DEF ValidateBatch, Low, Good
<1>4. /\ DOMAIN verdict = FramesByBatch(b)
      /\ \A f \in DOMAIN verdict : verdict[f] \in FrameStatus
      /\ \A f \in Good(b) : verdict[f] = "accepted" /\ f \in DOMAIN verdict
      /\ \A f \in Low(b) : verdict[f] = "quarantined" /\ f \in DOMAIN verdict
  BY <1>2 DEF FrameStatus, Good, Low
<1>5. IsTable(frames, FrameIds, Frame)
  BY DEF LoopTyped, LoopTypeOK
<1>6. /\ IsTable(frames', FrameIds, Frame)
      /\ DOMAIN frames' = DOMAIN frames
      /\ \A f \in DOMAIN frames :
           /\ frames'[f].quality = frames[f].quality
           /\ f \in DOMAIN verdict => frames'[f].status = verdict[f]
           /\ f \notin DOMAIN verdict => frames'[f] = frames[f]
  BY <1>3, <1>4, <1>5, FramesUpdated
<1>7. PICK count : count = Cardinality(Good(b))
  OBVIOUS
<1>8. count \in 0..MaxFrames
  BY <1>7, FramesFinite DEF Good, LoopTyped
<1>9. /\ DOMAIN batches' = DOMAIN batches
      /\ \A x \in DOMAIN batches \ {b} : batches'[x] = batches[x]
      /\ batches'[b] = [batches[b] EXCEPT !.status = "validated", !.acceptedCount = count]
      /\ IsTable(batches', BatchIds, Batch)
  <2>1. PICK row : row = [batches[b] EXCEPT !.status = "validated", !.acceptedCount = count]
    OBVIOUS
  <2>2. row \in Batch
    BY <1>1, <1>8, <2>1 DEF Batch, BatchStatus
  <2>3. batches' = [batches EXCEPT ![b] = row]
    BY <1>7, <2>1 DEF ValidateBatch, Good, Low
  <2>4. IsTable(batches, BatchIds, Batch)
    BY DEF LoopTyped, LoopTypeOK
  <2> QED BY <1>1, <2>1, <2>2, <2>3, <2>4, UpdateTyped, UpdateKeepsRows
<1>10. Validated(b)
  <2>1. FramesByBatch(b) \subseteq DOMAIN frames
    BY DEF FramesByBatch
  <2>2. \A f \in DOMAIN frames \ FramesByBatch(b) : frames'[f] = frames[f]
    BY <1>4, <1>6
  <2>3. \A f \in Good(b) : frames'[f].status = "accepted"
    BY <1>4, <1>6, <2>1
  <2>4. \A f \in Low(b) : frames'[f].status = "quarantined"
    BY <1>4, <1>6, <2>1
  <2> QED BY <1>1, <1>6, <1>7, <1>9, <2>2, <2>3, <2>4 DEF Validated
<1>11. OpenTicket(b, Low(b))
  BY DEF ValidateBatch, Low
<1>12. CASE Low(b) = {}
  BY <1>10, <1>11, <1>12 DEF OpenTicket, ValidateBatch
<1>13. CASE Low(b) # {}
  <2>1. PICK severity :
          severity = Max({SeverityForQuality(frames[f].quality) : f \in Low(b)} \cup {1})
    OBVIOUS
  <2>2. severity \in 1..5
    <3>1. {SeverityForQuality(frames[f].quality) : f \in Low(b)} \in SUBSET (1..5)
      BY DEF SeverityForQuality
    <3> QED BY <2>1, <3>1, SeverityTyped
  <2>3. PICK t \in FreshId(tickets, TicketIds) :
          tickets' = Insert(tickets, t,
            [batch |-> b, drive |-> batches[b].drive, status |-> "open", disposition |-> "",
             severity |-> severity, assigned |-> FALSE,
             deadline |-> TriageDeadline(now, severity)])
    BY <1>11, <1>13, <2>1 DEF OpenTicket
  <2>4. PICK no \in BOOLEAN : no = FALSE
    OBVIOUS
  <2>5. PICK row : row = [batch |-> b, drive |-> batches[b].drive, status |-> "open",
                          disposition |-> "", severity |-> severity, assigned |-> no,
                          deadline |-> TriageDeadline(now, severity)]
    OBVIOUS
  <2>6. tickets' = Insert(tickets, t, row)
    BY <2>3, <2>4, <2>5
  <2>7. t \in TicketIds \ DOMAIN tickets
    BY <2>3, FreshIdIsFree
  <2>8. row \in Ticket
    <3>1. TriageDeadline(now, severity) \in Nat
      BY <2>2, MomentsTyped DEF TriageDeadline, LoopTyped, LoopTypeOK
    <3>2. b \in BatchIds /\ batches[b].drive \in DriveIds
      BY <1>1 DEF LoopTyped, LoopTypeOK, IsTable, Batch
    <3> QED BY <2>2, <2>5, <3>1, <3>2 DEF Ticket, TicketStatus
  <2>9. TicketOpened(b, t)
    BY <2>4, <2>5, <2>6, <2>7, <2>8 DEF TicketOpened, Insert
  <2> QED BY <1>10, <1>13, <2>9 DEF ValidateBatch
<1> QED BY <1>12, <1>13

(* Rejection drops the frames of an uploaded batch. *)
Rejected(b) ==
  /\ b \in DOMAIN batches
  /\ batches[b].status = "uploaded"
  /\ DOMAIN batches' = DOMAIN batches
  /\ \A x \in DOMAIN batches \ {b} : batches'[x] = batches[x]
  /\ batches'[b] = [batches[b] EXCEPT !.status = "rejected", !.acceptedCount = 0]
  /\ IsTable(batches', BatchIds, Batch)
  /\ IsTable(frames', FrameIds, Frame)
  /\ DOMAIN frames' = DOMAIN frames
  /\ \A f \in DOMAIN frames : frames'[f].quality = frames[f].quality
  /\ \A f \in DOMAIN frames \ FramesByBatch(b) : frames'[f] = frames[f]
  /\ \A f \in FramesByBatch(b) : frames'[f].status = "dropped"

LEMMA RejectDrops ==
  ASSUME LoopTyped, NEW actor, NEW b, RejectBatch(actor, b)
  PROVE  /\ Rejected(b)
         /\ Record("capture.reject", b)
         /\ UNCHANGED <<tickets, datasets, uploads, outside>>
<1>1. b \in DOMAIN batches /\ batches[b].status = "uploaded" /\ batches[b] \in Batch
  BY DEF RejectBatch, BatchTransitions, LoopTyped, NeverValidating, LoopTypeOK, IsTable
<1>2. PICK verdict : verdict = [f \in FramesByBatch(b) |-> "dropped"]
  OBVIOUS
<1>3. UpdateFrameStatus(verdict)
  BY <1>2 DEF RejectBatch
<1>4. /\ DOMAIN verdict = FramesByBatch(b)
      /\ \A f \in DOMAIN verdict : verdict[f] = "dropped" /\ verdict[f] \in FrameStatus
  BY <1>2 DEF FrameStatus
<1>5. IsTable(frames, FrameIds, Frame)
  BY DEF LoopTyped, LoopTypeOK
<1>6. /\ IsTable(frames', FrameIds, Frame)
      /\ DOMAIN frames' = DOMAIN frames
      /\ \A f \in DOMAIN frames :
           /\ frames'[f].quality = frames[f].quality
           /\ f \in DOMAIN verdict => frames'[f].status = verdict[f]
           /\ f \notin DOMAIN verdict => frames'[f] = frames[f]
  BY <1>3, <1>4, <1>5, FramesUpdated
<1>7. /\ DOMAIN batches' = DOMAIN batches
      /\ \A x \in DOMAIN batches \ {b} : batches'[x] = batches[x]
      /\ batches'[b] = [batches[b] EXCEPT !.status = "rejected", !.acceptedCount = 0]
      /\ IsTable(batches', BatchIds, Batch)
  <2>0. PICK none \in 0..MaxFrames : none = 0
    BY LoopBounds
  <2>1. PICK row : row = [batches[b] EXCEPT !.status = "rejected", !.acceptedCount = none]
    OBVIOUS
  <2>2. row \in Batch
    BY <1>1, <2>1 DEF Batch, BatchStatus
  <2>3. batches' = [batches EXCEPT ![b] = row]
    BY <2>0, <2>1 DEF RejectBatch
  <2>4. IsTable(batches, BatchIds, Batch)
    BY DEF LoopTyped, LoopTypeOK
  <2> QED BY <1>1, <2>0, <2>1, <2>2, <2>3, <2>4, UpdateTyped, UpdateKeepsRows
<1>8. Rejected(b)
  <2>1. FramesByBatch(b) \subseteq DOMAIN frames
    BY DEF FramesByBatch
  <2> QED BY <1>1, <1>4, <1>6, <1>7, <2>1 DEF Rejected
<1> QED BY <1>8 DEF RejectBatch

(* Archiving changes the status of a decided batch whose drive has no question
   left open. *)
Archived(b) ==
  /\ b \in DOMAIN batches
  /\ batches[b].status \in {"validated", "rejected"}
  /\ PendingByDrive(batches[b].drive) = {}
  /\ DOMAIN batches' = DOMAIN batches
  /\ \A x \in DOMAIN batches \ {b} : batches'[x] = batches[x]
  /\ batches'[b] = [batches[b] EXCEPT !.status = "archived"]
  /\ IsTable(batches', BatchIds, Batch)

LEMMA ArchiveEnds ==
  ASSUME LoopTyped, NEW b, ArchiveBatch(b)
  PROVE  /\ Archived(b)
         /\ Record("capture.archive", b)
         /\ UNCHANGED <<frames, tickets, datasets, uploads, outside>>
<1>1. /\ b \in DOMAIN batches
      /\ batches[b].status \in {"validated", "rejected"}
      /\ batches[b] \in Batch
  BY DEF ArchiveBatch, BatchTransitions, LoopTyped, LoopTypeOK, IsTable
<1>2. PICK row : row = [batches[b] EXCEPT !.status = "archived"]
  OBVIOUS
<1>3. row \in Batch
  BY <1>1, <1>2 DEF Batch, BatchStatus
<1>4. batches' = [batches EXCEPT ![b] = row]
  BY <1>2 DEF ArchiveBatch
<1>5. IsTable(batches, BatchIds, Batch)
  BY DEF LoopTyped, LoopTypeOK
<1>6. /\ DOMAIN batches' = DOMAIN batches
      /\ \A x \in DOMAIN batches \ {b} : batches'[x] = batches[x]
      /\ batches'[b] = row
      /\ IsTable(batches', BatchIds, Batch)
  BY <1>1, <1>3, <1>4, <1>5, UpdateTyped, UpdateKeepsRows
<1> QED BY <1>1, <1>2, <1>6 DEF ArchiveBatch, Archived

(* Triage rewrites one ticket that is pending: never what it is about. *)
Triaged(t) ==
  /\ t \in DOMAIN tickets
  /\ Pending(t)
  /\ DOMAIN tickets' = DOMAIN tickets
  /\ \A other \in DOMAIN tickets \ {t} : tickets'[other] = tickets[other]
  /\ tickets'[t] \in Ticket
  /\ tickets'[t].batch = tickets[t].batch
  /\ tickets'[t].drive = tickets[t].drive
  /\ tickets'[t].deadline = tickets[t].deadline
  /\ IsTable(tickets', TicketIds, Ticket)

LEMMA TriageRewrites ==
  ASSUME LoopTyped, NEW actor, NEW t
  PROVE  /\ AssignTicket(actor, t) =>
              /\ Triaged(t)
              /\ tickets'[t].status = tickets[t].status
              /\ tickets'[t].disposition = tickets[t].disposition
              /\ tickets'[t].assigned = TRUE
         /\ StartInvestigation(actor, t) =>
              /\ Triaged(t)
              /\ tickets'[t].status = "investigating"
              /\ tickets'[t].disposition = tickets[t].disposition
              /\ tickets'[t].assigned = tickets[t].assigned
         /\ \A disposition \in Conclusions : DisposeTicket(actor, t, disposition) =>
              /\ Triaged(t)
              /\ tickets'[t].status = "disposed"
              /\ tickets'[t].disposition = disposition
              /\ tickets'[t].assigned = tickets[t].assigned
<1>1. IsTable(tickets, TicketIds, Ticket)
  BY DEF LoopTyped, LoopTypeOK
<1>2. ASSUME t \in DOMAIN tickets, Pending(t), NEW row \in Ticket,
             row.batch = tickets[t].batch, row.drive = tickets[t].drive,
             row.deadline = tickets[t].deadline,
             tickets' = [tickets EXCEPT ![t] = row]
      PROVE  Triaged(t) /\ tickets'[t] = row
  BY <1>1, <1>2, UpdateTyped, UpdateKeepsRows DEF Triaged
<1>3. ASSUME AssignTicket(actor, t)
      PROVE  /\ Triaged(t)
             /\ tickets'[t].status = tickets[t].status
             /\ tickets'[t].disposition = tickets[t].disposition
             /\ tickets'[t].assigned = TRUE
  <2>1. t \in DOMAIN tickets /\ Pending(t) /\ tickets[t] \in Ticket
    BY <1>1, <1>3 DEF AssignTicket, IsTable
  <2>2. PICK yes \in BOOLEAN : yes = TRUE
    OBVIOUS
  <2>3. PICK row : row = [tickets[t] EXCEPT !.assigned = yes]
    OBVIOUS
  <2>4. /\ row \in Ticket
        /\ row.batch = tickets[t].batch
        /\ row.drive = tickets[t].drive
        /\ row.deadline = tickets[t].deadline
        /\ row.status = tickets[t].status
        /\ row.disposition = tickets[t].disposition
        /\ row.assigned = yes
    BY <2>1, <2>3 DEF Ticket
  <2>5. tickets' = [tickets EXCEPT ![t] = row]
    BY <1>3, <2>2, <2>3 DEF AssignTicket
  <2> QED BY <1>2, <2>1, <2>2, <2>4, <2>5
<1>4. ASSUME StartInvestigation(actor, t)
      PROVE  /\ Triaged(t)
             /\ tickets'[t].status = "investigating"
             /\ tickets'[t].disposition = tickets[t].disposition
             /\ tickets'[t].assigned = tickets[t].assigned
  <2>1. t \in DOMAIN tickets /\ Pending(t) /\ tickets[t] \in Ticket
    BY <1>1, <1>4 DEF StartInvestigation, TicketTransitions, Pending, IsTable
  <2>2. PICK row : row = [tickets[t] EXCEPT !.status = "investigating"]
    OBVIOUS
  <2>3. /\ row \in Ticket
        /\ row.batch = tickets[t].batch
        /\ row.drive = tickets[t].drive
        /\ row.deadline = tickets[t].deadline
        /\ row.status = "investigating"
        /\ row.disposition = tickets[t].disposition
        /\ row.assigned = tickets[t].assigned
    BY <2>1, <2>2 DEF Ticket, TicketStatus
  <2>4. tickets' = [tickets EXCEPT ![t] = row]
    BY <1>4, <2>2 DEF StartInvestigation
  <2> QED BY <1>2, <2>1, <2>3, <2>4
<1>5. ASSUME NEW disposition \in Conclusions, DisposeTicket(actor, t, disposition)
      PROVE  /\ Triaged(t)
             /\ tickets'[t].status = "disposed"
             /\ tickets'[t].disposition = disposition
             /\ tickets'[t].assigned = tickets[t].assigned
  <2>1. t \in DOMAIN tickets /\ Pending(t) /\ tickets[t] \in Ticket
    BY <1>1, <1>5 DEF DisposeTicket, TicketTransitions, Pending, IsTable
  <2>2. PICK row : row = [tickets[t] EXCEPT !.status = "disposed", !.disposition = disposition]
    OBVIOUS
  <2>3. /\ row \in Ticket
        /\ row.batch = tickets[t].batch
        /\ row.drive = tickets[t].drive
        /\ row.deadline = tickets[t].deadline
        /\ row.status = "disposed"
        /\ row.disposition = disposition
        /\ row.assigned = tickets[t].assigned
    BY <2>1, <2>2, ConclusionsTyped DEF Ticket, TicketStatus
  <2>4. tickets' = [tickets EXCEPT ![t] = row]
    BY <1>5, <2>2 DEF DisposeTicket
  <2> QED BY <1>2, <2>1, <2>3, <2>4
<1> QED BY <1>3, <1>4, <1>5

(* A conclusion that asks for a hold drops the frames in quarantine of the batch. *)
HoldApplied(b) ==
  /\ IsTable(frames', FrameIds, Frame)
  /\ DOMAIN frames' = DOMAIN frames
  /\ \A f \in DOMAIN frames :
       /\ frames'[f].quality = frames[f].quality
       /\ IF f[1] = b /\ frames[f].status = "quarantined"
          THEN frames'[f].status = "dropped"
          ELSE frames'[f] = frames[f]

LEMMA HoldDrops ==
  ASSUME LoopTyped, NEW b, DropQuarantinedFrames(b)
  PROVE  HoldApplied(b)
<1>1. PICK verdict :
        verdict = [f \in {f \in FramesByBatch(b) : frames[f].status = "quarantined"} |-> "dropped"]
  OBVIOUS
<1>2. UpdateFrameStatus(verdict)
  BY <1>1 DEF DropQuarantinedFrames
<1>3. /\ DOMAIN verdict = {f \in FramesByBatch(b) : frames[f].status = "quarantined"}
      /\ \A f \in DOMAIN verdict : verdict[f] = "dropped" /\ verdict[f] \in FrameStatus
  BY <1>1 DEF FrameStatus
<1>4. IsTable(frames, FrameIds, Frame)
  BY DEF LoopTyped, LoopTypeOK
<1>5. /\ IsTable(frames', FrameIds, Frame)
      /\ DOMAIN frames' = DOMAIN frames
      /\ \A f \in DOMAIN frames :
           /\ frames'[f].quality = frames[f].quality
           /\ f \in DOMAIN verdict => frames'[f].status = verdict[f]
           /\ f \notin DOMAIN verdict => frames'[f] = frames[f]
  BY <1>2, <1>3, <1>4, FramesUpdated
<1>6. \A f \in DOMAIN frames :
        f \in DOMAIN verdict <=> f[1] = b /\ frames[f].status = "quarantined"
  BY <1>3 DEF FramesByBatch
<1> QED BY <1>3, <1>5, <1>6 DEF HoldApplied

(* Curation rewrites the members of a data set that is being built. *)
Curated(d) ==
  /\ d \in DOMAIN datasets
  /\ datasets[d].status = "building"
  /\ DOMAIN datasets' = DOMAIN datasets
  /\ \A other \in DOMAIN datasets \ {d} : datasets'[other] = datasets[other]
  /\ datasets'[d].status = "building"
  /\ datasets'[d].frameCount = Cardinality(datasets'[d].members)
  /\ IsTable(datasets', DatasetIds, Dataset)

LEMMA CurationRewrites ==
  ASSUME LoopTyped, NEW actor, NEW d
  PROVE  /\ \A asked : AddFrames(actor, d, asked) => Curated(d)
         /\ \A f : RemoveFrame(actor, d, f) => Curated(d)
<1>1. IsTable(datasets, DatasetIds, Dataset) /\ IsTable(frames, FrameIds, Frame)
  BY DEF LoopTyped, LoopTypeOK
<1>2. ASSUME Mutable(d), NEW members \in SUBSET FrameIds, SetMembers(d, members)
      PROVE  Curated(d)
  <2>1. d \in DOMAIN datasets /\ datasets[d].status = "building" /\ datasets[d] \in Dataset
    BY <1>1, <1>2 DEF Mutable, IsTable
  <2>2. PICK count : count = Cardinality(members)
    OBVIOUS
  <2>3. count \in Nat
    BY <2>2, FrameIdsFinite, FS_Subset, FS_CardinalityType
  <2>4. PICK row : row = [datasets[d] EXCEPT !.members = members, !.frameCount = count]
    OBVIOUS
  <2>5. /\ row \in Dataset
        /\ row.status = "building"
        /\ row.members = members
        /\ row.frameCount = count
    BY <2>1, <2>3, <2>4 DEF Dataset
  <2>6. datasets' = [datasets EXCEPT ![d] = row]
    BY <1>2, <2>2, <2>4 DEF SetMembers
  <2> QED BY <1>1, <2>1, <2>2, <2>5, <2>6, UpdateTyped, UpdateKeepsRows DEF Curated
<1>3. ASSUME NEW asked, AddFrames(actor, d, asked) PROVE Curated(d)
  <2>1. PICK members : members = datasets[d].members \cup {f \in asked : Eligible(f)}
    OBVIOUS
  <2>2. Mutable(d) /\ SetMembers(d, members)
    BY <1>3, <2>1 DEF AddFrames
  <2>3. datasets[d].members \subseteq FrameIds
    BY <1>1, <2>2 DEF Mutable, IsTable, Dataset
  <2>4. {f \in asked : Eligible(f)} \subseteq FrameIds
    BY <1>1 DEF Eligible, IsTable
  <2> QED BY <1>2, <2>1, <2>2, <2>3, <2>4
<1>4. ASSUME NEW f, RemoveFrame(actor, d, f) PROVE Curated(d)
  <2>1. PICK members : members = datasets[d].members \ {f}
    OBVIOUS
  <2>2. Mutable(d) /\ SetMembers(d, members)
    BY <1>4, <2>1 DEF RemoveFrame
  <2>3. datasets[d].members \subseteq FrameIds
    BY <1>1, <2>2 DEF Mutable, IsTable, Dataset
  <2> QED BY <1>2, <2>1, <2>2, <2>3
<1> QED BY <1>3, <1>4

(* Creating, sealing and releasing a data set. *)
DatasetCreated(d) ==
  /\ d \in DatasetIds \ DOMAIN datasets
  /\ DOMAIN datasets' = DOMAIN datasets \cup {d}
  /\ \A other \in DOMAIN datasets : other # d /\ datasets'[other] = datasets[other]
  /\ datasets'[d].status = "building"
  /\ datasets'[d].members = {}
  /\ datasets'[d].frameCount = Cardinality(datasets'[d].members)
  /\ IsTable(datasets', DatasetIds, Dataset)

DatasetSealed(d) ==
  /\ d \in DOMAIN datasets
  /\ datasets[d].status = "building"
  /\ CanSeal(d)
  /\ DOMAIN datasets' = DOMAIN datasets
  /\ \A other \in DOMAIN datasets \ {d} : datasets'[other] = datasets[other]
  /\ datasets'[d].status = "sealed"
  /\ datasets'[d].members = datasets[d].members
  /\ datasets'[d].digest = datasets[d].members
  /\ datasets'[d].frameCount = Cardinality(datasets[d].members)
  /\ IsTable(datasets', DatasetIds, Dataset)

DatasetReleased(d) ==
  /\ d \in DOMAIN datasets
  /\ datasets[d].status = "sealed"
  /\ DOMAIN datasets' = DOMAIN datasets
  /\ \A other \in DOMAIN datasets \ {d} : datasets'[other] = datasets[other]
  /\ datasets'[d].status = "released"
  /\ datasets'[d].members = datasets[d].members
  /\ datasets'[d].digest = datasets[d].digest
  /\ datasets'[d].frameCount = datasets[d].frameCount
  /\ IsTable(datasets', DatasetIds, Dataset)

LEMMA CreateAddsDataset ==
  ASSUME LoopTyped, NEW actor, CreateDataset(actor)
  PROVE  \E d \in DatasetIds : DatasetCreated(d) /\ Record("dataset.create", d)
<1>1. PICK row : row = [status |-> "building", members |-> {}, frameCount |-> 0, digest |-> {}]
  OBVIOUS
<1>2. /\ row \in Dataset
      /\ row.status = "building"
      /\ row.members = {}
      /\ row.frameCount = Cardinality(row.members)
  BY <1>1, FS_EmptySet DEF Dataset, DatasetStatus
<1>3. PICK d \in FreshId(datasets, DatasetIds) :
        datasets' = Insert(datasets, d, row) /\ Record("dataset.create", d)
  BY <1>1 DEF CreateDataset
<1>4. d \in DatasetIds \ DOMAIN datasets
  BY <1>3, FreshIdIsFree
<1>5. IsTable(datasets', DatasetIds, Dataset)
  BY <1>2, <1>3, <1>4, InsertTyped DEF LoopTyped, LoopTypeOK
<1> QED BY <1>2, <1>3, <1>4, <1>5 DEF DatasetCreated, Insert

LEMMA SealAndRelease ==
  ASSUME LoopTyped, NEW actor, NEW d
  PROVE  /\ SealDataset(actor, d) => DatasetSealed(d)
         /\ ReleaseDataset(actor, d) => DatasetReleased(d)
<1>1. IsTable(datasets, DatasetIds, Dataset)
  BY DEF LoopTyped, LoopTypeOK
<1>2. ASSUME SealDataset(actor, d) PROVE DatasetSealed(d)
  <2>1. PICK members, count :
          members = datasets[d].members /\ count = Cardinality(datasets[d].members)
    OBVIOUS
  <2>2. d \in DOMAIN datasets /\ datasets[d].status = "building" /\ datasets[d] \in Dataset
    BY <1>1, <1>2 DEF SealDataset, CanSeal, DatasetTransitions, IsTable
  <2>3. members \in SUBSET FrameIds
    BY <2>1, <2>2 DEF Dataset
  <2>4. count \in Nat
    BY <2>1, <2>3, FrameIdsFinite, FS_Subset, FS_CardinalityType
  <2>5. PICK row : row = [datasets[d] EXCEPT !.status = "sealed", !.digest = members,
                                            !.frameCount = count]
    OBVIOUS
  <2>6. /\ row \in Dataset
        /\ row.status = "sealed"
        /\ row.members = members
        /\ row.digest = members
        /\ row.frameCount = count
    BY <2>1, <2>2, <2>3, <2>4, <2>5 DEF Dataset, DatasetStatus
  <2>7. datasets' = [datasets EXCEPT ![d] = row] /\ CanSeal(d)
    BY <1>2, <2>1, <2>5 DEF SealDataset
  <2> QED BY <1>1, <2>1, <2>2, <2>6, <2>7, UpdateTyped, UpdateKeepsRows DEF DatasetSealed
<1>3. ASSUME ReleaseDataset(actor, d) PROVE DatasetReleased(d)
  <2>1. d \in DOMAIN datasets /\ datasets[d].status = "sealed" /\ datasets[d] \in Dataset
    BY <1>1, <1>3 DEF ReleaseDataset, DatasetTransitions, IsTable
  <2>2. PICK row : row = [datasets[d] EXCEPT !.status = "released"]
    OBVIOUS
  <2>3. /\ row \in Dataset
        /\ row.status = "released"
        /\ row.members = datasets[d].members
        /\ row.digest = datasets[d].digest
        /\ row.frameCount = datasets[d].frameCount
    BY <2>1, <2>2 DEF Dataset, DatasetStatus
  <2>4. datasets' = [datasets EXCEPT ![d] = row]
    BY <1>3, <2>2 DEF ReleaseDataset
  <2> QED BY <1>1, <2>1, <2>3, <2>4, UpdateTyped, UpdateKeepsRows DEF DatasetReleased
<1> QED BY <1>2, <1>3

-----------------------------------------------------------------------------
(* What a step may be, by what it does: the cases that the proofs below go through *)

OnlyUploadsChange == UNCHANGED <<tables, outside>>

BatchIsUploaded ==
  \E u \in Uploads, b \in BatchIds :
    /\ Uploaded(u, b)
    /\ uploads' = [uploads EXCEPT ![u] = [phase |-> "answered",
                                         asked |-> uploads[u].asked, id |-> b]]
    /\ Record("capture.upload", b)
    /\ UNCHANGED <<tickets, datasets, outside>>

BatchIsValidated ==
  \E b \in BatchIds :
    /\ Validated(b)
    /\ \/ Low(b) = {} /\ UNCHANGED tickets
       \/ Low(b) # {} /\ \E t : TicketOpened(b, t)
    /\ Record("capture.validate", b)
    /\ UNCHANGED <<datasets, uploads, outside>>

BatchIsRejected ==
  \E b \in BatchIds :
    /\ Rejected(b)
    /\ Record("capture.reject", b)
    /\ UNCHANGED <<tickets, datasets, uploads, outside>>

BatchIsArchived ==
  \E b \in BatchIds :
    /\ Archived(b)
    /\ Record("capture.archive", b)
    /\ UNCHANGED <<frames, tickets, datasets, uploads, outside>>

TicketIsAssigned ==
  \E t \in TicketIds :
    /\ Triaged(t)
    /\ tickets'[t].status = tickets[t].status
    /\ tickets'[t].disposition = tickets[t].disposition
    /\ tickets'[t].assigned = TRUE
    /\ Record("triage.assign", t)
    /\ UNCHANGED <<batches, frames, datasets, uploads, outside>>

TicketIsInvestigated ==
  \E t \in TicketIds :
    /\ Triaged(t)
    /\ tickets[t].assigned
    /\ tickets'[t].status = "investigating"
    /\ tickets'[t].disposition = tickets[t].disposition
    /\ tickets'[t].assigned = tickets[t].assigned
    /\ Record("triage.investigate", t)
    /\ UNCHANGED <<batches, frames, datasets, uploads, outside>>

TicketIsDisposed ==
  \E t \in TicketIds, disposition \in Conclusions :
    /\ Triaged(t)
    /\ tickets'[t].status = "disposed"
    /\ tickets'[t].disposition = disposition
    /\ tickets'[t].assigned = tickets[t].assigned
    /\ \/ RequiresDatasetHold(disposition) /\ HoldApplied(tickets[t].batch)
       \/ ~RequiresDatasetHold(disposition) /\ UNCHANGED frames
    /\ Record("triage.dispose", t)
    /\ UNCHANGED <<batches, datasets, uploads, outside>>

DatasetIsCreated ==
  /\ \E d \in DatasetIds : DatasetCreated(d) /\ Record("dataset.create", d)
  /\ UNCHANGED <<batches, frames, tickets, uploads, outside>>

DatasetIsCurated ==
  /\ \E d \in DatasetIds :
       /\ Curated(d)
       /\ \/ Record("dataset.add_frames", d)
          \/ Record("dataset.remove_frame", d) /\ datasets[d].members # {}
  /\ UNCHANGED <<batches, frames, tickets, uploads, outside>>

DatasetIsSealed ==
  /\ \E d \in DatasetIds : DatasetSealed(d) /\ Record("dataset.seal", d)
  /\ UNCHANGED <<batches, frames, tickets, uploads, outside>>

DatasetIsReleased ==
  /\ \E d \in DatasetIds : DatasetReleased(d) /\ Record("dataset.release", d)
  /\ UNCHANGED <<batches, frames, tickets, uploads, outside>>

OutsideMoves ==
  /\ UNCHANGED <<tables, uploads>>
  /\ now' \in Moments /\ now' >= now
  /\ IsTable(driveOperator', DriveIds, Operators)
  /\ DOMAIN driveOperator \subseteq DOMAIN driveOperator'

(* Every step is one of these. *)
LEMMA WhatStepsDo ==
  ASSUME LoopTyped, [Next]_vars
  PROVE  \/ OnlyUploadsChange
         \/ BatchIsUploaded \/ BatchIsValidated \/ BatchIsRejected \/ BatchIsArchived
         \/ TicketIsAssigned \/ TicketIsInvestigated \/ TicketIsDisposed
         \/ DatasetIsCreated \/ DatasetIsCurated \/ DatasetIsSealed \/ DatasetIsReleased
         \/ EscalateOverdueTriage
         \/ OutsideMoves
<1>1. ASSUME \/ UNCHANGED vars \/ Restart
             \/ \E u \in Uploads : \/ \E asked \in Requests : BeginUpload(u, asked)
                                 \/ FailUpload(u) \/ ReplyToUpload(u)
      PROVE  OnlyUploadsChange
  BY <1>1 DEF OnlyUploadsChange, vars, tables, outside, Restart, BeginUpload, FailUpload,
              ReplyToUpload
<1>2. ASSUME NEW u \in Uploads, CommitUpload(u) PROVE BatchIsUploaded
  <2>1. FreshId(batches, BatchIds) \subseteq BatchIds
    BY DEF FreshId
  <2> QED BY <1>2, <2>1, CommitAdds DEF BatchIsUploaded
<1>3. ASSUME NEW actor, NEW b \in BatchIds, ValidateBatch(actor, b) PROVE BatchIsValidated
  BY <1>3, ValidateDecides DEF BatchIsValidated
<1>4. ASSUME NEW actor, NEW b \in BatchIds, RejectBatch(actor, b) PROVE BatchIsRejected
  BY <1>4, RejectDrops DEF BatchIsRejected
<1>5. ASSUME NEW b \in BatchIds, ArchiveBatch(b) PROVE BatchIsArchived
  BY <1>5, ArchiveEnds DEF BatchIsArchived
<1>6. ASSUME NEW actor, NEW t \in TicketIds, AssignTicket(actor, t) PROVE TicketIsAssigned
  <2>1. /\ Record("triage.assign", t)
        /\ UNCHANGED <<batches, frames, datasets, uploads, outside>>
    BY <1>6 DEF AssignTicket
  <2> QED BY <1>6, <2>1, TriageRewrites DEF TicketIsAssigned
<1>7. ASSUME NEW actor, NEW t \in TicketIds, StartInvestigation(actor, t)
      PROVE  TicketIsInvestigated
  <2>1. /\ Record("triage.investigate", t)
        /\ tickets[t].assigned
        /\ UNCHANGED <<batches, frames, datasets, uploads, outside>>
    BY <1>7 DEF StartInvestigation
  <2> QED BY <1>7, <2>1, TriageRewrites DEF TicketIsInvestigated
<1>8. ASSUME NEW actor, NEW t \in TicketIds, NEW disposition \in Conclusions,
             DisposeTicket(actor, t, disposition)
      PROVE  TicketIsDisposed
  <2>1. PICK b : b = tickets[t].batch
    OBVIOUS
  <2>2. /\ \/ RequiresDatasetHold(disposition) /\ DropQuarantinedFrames(b)
           \/ ~RequiresDatasetHold(disposition) /\ UNCHANGED frames
        /\ Record("triage.dispose", t)
        /\ UNCHANGED <<batches, datasets, uploads, outside>>
    BY <1>8, <2>1 DEF DisposeTicket
  <2>3. DropQuarantinedFrames(b) => HoldApplied(b)
    BY HoldDrops
  <2>4. /\ Triaged(t)
        /\ tickets'[t].status = "disposed"
        /\ tickets'[t].disposition = disposition
        /\ tickets'[t].assigned = tickets[t].assigned
    BY <1>8, TriageRewrites
  <2> QED BY <2>1, <2>2, <2>3, <2>4 DEF TicketIsDisposed
<1>9. ASSUME NEW actor, CreateDataset(actor) PROVE DatasetIsCreated
  <2>1. UNCHANGED <<batches, frames, tickets, uploads, outside>>
    BY <1>9 DEF CreateDataset
  <2> QED BY <1>9, <2>1, CreateAddsDataset DEF DatasetIsCreated
<1>10. ASSUME NEW actor, NEW d \in DatasetIds,
              \/ \E asked \in Selections : AddFrames(actor, d, asked)
              \/ \E f \in FrameIds : RemoveFrame(actor, d, f)
       PROVE  DatasetIsCurated
  <2>1. Curated(d)
    BY <1>10, CurationRewrites
  <2>2. /\ \/ Record("dataset.add_frames", d)
           \/ Record("dataset.remove_frame", d) /\ datasets[d].members # {}
        /\ UNCHANGED <<batches, frames, tickets, uploads, outside>>
    BY <1>10 DEF AddFrames, RemoveFrame
  <2> QED BY <2>1, <2>2 DEF DatasetIsCurated
<1>11. ASSUME NEW actor, NEW d \in DatasetIds, SealDataset(actor, d) PROVE DatasetIsSealed
  <2>1. Record("dataset.seal", d) /\ UNCHANGED <<batches, frames, tickets, uploads, outside>>
    BY <1>11 DEF SealDataset
  <2> QED BY <1>11, <2>1, SealAndRelease DEF DatasetIsSealed
<1>12. ASSUME NEW actor, NEW d \in DatasetIds, ReleaseDataset(actor, d)
       PROVE  DatasetIsReleased
  <2>1. Record("dataset.release", d) /\ UNCHANGED <<batches, frames, tickets, uploads, outside>>
    BY <1>12 DEF ReleaseDataset
  <2> QED BY <1>12, <2>1, SealAndRelease DEF DatasetIsReleased
<1>13. ASSUME NEW operator \in SafetyOperators, DriveStarts(operator) PROVE OutsideMoves
  <2>1. PICK d \in FreshId(driveOperator, DriveIds) :
          driveOperator' = Insert(driveOperator, d, operator)
    BY <1>13 DEF DriveStarts
  <2>2. d \in DriveIds /\ operator \in Operators
    BY <2>1, FreshIdIsFree DEF Operators
  <2>3. IsTable(driveOperator', DriveIds, Operators)
    BY <2>1, <2>2, InsertTyped DEF LoopTyped, LoopTypeOK
  <2>4. DOMAIN driveOperator \subseteq DOMAIN driveOperator'
    BY <2>1 DEF Insert
  <2>5. now' = now /\ now \in Nat /\ now \in Moments
    BY <1>13, MomentsTyped DEF DriveStarts, LoopTyped, LoopTypeOK
  <2> QED BY <1>13, <2>3, <2>4, <2>5 DEF OutsideMoves, DriveStarts
<1>14. ASSUME Tick PROVE OutsideMoves
  BY <1>14, MomentsTyped DEF OutsideMoves, Tick, LoopTyped, LoopTypeOK
<1>15. \A actor :
         /\ BatchStep(actor) => BatchIsValidated \/ BatchIsRejected
         /\ TriageStep(actor) =>
              TicketIsAssigned \/ TicketIsInvestigated \/ TicketIsDisposed
         /\ DatasetStep(actor) =>
              DatasetIsCreated \/ DatasetIsCurated \/ DatasetIsSealed \/ DatasetIsReleased
  BY <1>3, <1>4, <1>6, <1>7, <1>8, <1>9, <1>10, <1>11, <1>12
     DEF BatchStep, TriageStep, DatasetStep
<1> QED BY <1>1, <1>2, <1>5, <1>13, <1>14, <1>15 DEF Next, UploadStep, JobStep

LEMMA LoopTypedInit == Init => LoopTyped
BY EmptyTableTyped, MomentsTyped
   DEF Init, LoopTyped, LoopTypeOK, PendingAreAcceptable, ReferencesHold, NeverValidating,
       EmptyTable, Upload, Idle

(* Only upload requests and a restart touch what is in flight. *)
LEMMA UploadsChange ==
  ASSUME [Next]_vars
  PROVE  \/ UNCHANGED uploads
         \/ Restart
         \/ \E u \in Uploads : UploadStep(u)
<1>1. ASSUME NEW actor, BatchStep(actor) \/ JobStep PROVE UNCHANGED uploads
  BY <1>1 DEF BatchStep, ValidateBatch, RejectBatch, JobStep, ArchiveBatch, EscalateOverdueTriage
<1>2. ASSUME NEW actor, TriageStep(actor) PROVE UNCHANGED uploads
  BY <1>2 DEF TriageStep, AssignTicket, StartInvestigation, DisposeTicket
<1>3. ASSUME NEW actor, DatasetStep(actor) PROVE UNCHANGED uploads
  BY <1>3 DEF DatasetStep, CreateDataset, AddFrames, RemoveFrame, SealDataset, ReleaseDataset
<1>4. ASSUME UNCHANGED vars \/ Tick \/ \E operator \in SafetyOperators : DriveStarts(operator)
      PROVE  UNCHANGED uploads
  BY <1>4 DEF vars, Tick, DriveStarts
<1> QED BY <1>1, <1>2, <1>3, <1>4 DEF Next

LEMMA UploadsNext ==
  ASSUME LoopTyped, [Next]_vars
  PROVE  uploads' \in [Uploads -> Upload] /\ PendingAreAcceptable'
<1>1. /\ uploads \in [Uploads -> Upload]
      /\ \A u \in Uploads : uploads[u].phase = "pending" => Acceptable(uploads[u].asked)
  BY DEF LoopTyped, LoopTypeOK, PendingAreAcceptable
<1>2. ASSUME NEW u \in Uploads, NEW upload \in Upload,
             upload.phase = "pending" => Acceptable(upload.asked),
             uploads' = [uploads EXCEPT ![u] = upload]
      PROVE  uploads' \in [Uploads -> Upload] /\ PendingAreAcceptable'
  <2>1. uploads' \in [Uploads -> Upload]
    BY <1>1, <1>2
  <2>2. ASSUME NEW x \in Uploads, uploads'[x].phase = "pending"
        PROVE  Acceptable(uploads'[x].asked)
    BY <1>1, <1>2, <2>2
  <2> QED BY <2>1, <2>2 DEF PendingAreAcceptable, Acceptable
<1>3. Idle \in Upload /\ Idle.phase # "pending"
  BY DEF Upload, Idle
<1>4. CASE UNCHANGED uploads
  BY <1>1, <1>4 DEF PendingAreAcceptable, Acceptable
<1>5. CASE Restart
  BY <1>3, <1>5 DEF Restart, PendingAreAcceptable
<1>6. ASSUME NEW u \in Uploads, NEW asked \in Requests, BeginUpload(u, asked)
      PROVE  uploads' \in [Uploads -> Upload] /\ PendingAreAcceptable'
  <2>1. CASE uploads' = [uploads EXCEPT ![u] = [phase |-> "pending", asked |-> asked]]
    <3>1. PICK upload : upload = [phase |-> "pending", asked |-> asked]
      OBVIOUS
    <3>2. upload \in Upload /\ Acceptable(upload.asked)
      BY <1>6, <3>1 DEF Upload, BeginUpload
    <3> QED BY <1>2, <2>1, <3>1, <3>2
  <2>2. ASSUME NEW b \in BatchByUploadKey(asked.key),
               uploads' = [uploads EXCEPT ![u] = [phase |-> "answered", asked |-> asked, id |-> b]]
        PROVE  uploads' \in [Uploads -> Upload] /\ PendingAreAcceptable'
    <3>1. PICK upload : upload = [phase |-> "answered", asked |-> asked, id |-> b]
      OBVIOUS
    <3>2. b \in BatchIds
      BY DEF BatchByUploadKey, LoopTyped, LoopTypeOK, IsTable
    <3>3. upload \in Upload /\ upload.phase # "pending"
      BY <3>1, <3>2 DEF Upload
    <3> QED BY <1>2, <2>2, <3>1, <3>3
  <2> QED BY <1>6, <2>1, <2>2 DEF BeginUpload
<1>7. ASSUME NEW u \in Uploads, CommitUpload(u)
      PROVE  uploads' \in [Uploads -> Upload] /\ PendingAreAcceptable'
  <2>1. PICK b \in FreshId(batches, BatchIds) :
          /\ Uploaded(u, b)
          /\ uploads' = [uploads EXCEPT ![u] = [phase |-> "answered",
                                               asked |-> uploads[u].asked, id |-> b]]
    BY <1>7, CommitAdds
  <2>2. PICK upload : upload = [phase |-> "answered", asked |-> uploads[u].asked, id |-> b]
    OBVIOUS
  <2>3. upload \in Upload /\ upload.phase # "pending"
    BY <2>1, <2>2 DEF Uploaded, Upload
  <2> QED BY <1>2, <2>1, <2>2, <2>3
<1>8. ASSUME NEW u \in Uploads, FailUpload(u) \/ ReplyToUpload(u)
      PROVE  uploads' \in [Uploads -> Upload] /\ PendingAreAcceptable'
  BY <1>2, <1>3, <1>8 DEF FailUpload, ReplyToUpload
<1> QED BY <1>4, <1>5, <1>6, <1>7, <1>8, UploadsChange DEF UploadStep

LEMMA LoopTypedNext == LoopTyped /\ [Next]_vars => LoopTyped'
<1> SUFFICES ASSUME LoopTyped, [Next]_vars PROVE LoopTyped'
  OBVIOUS
<1> DEFINE TablesTyped ==
             /\ IsTable(batches, BatchIds, Batch)
             /\ IsTable(frames, FrameIds, Frame)
             /\ IsTable(tickets, TicketIds, Ticket)
             /\ IsTable(datasets, DatasetIds, Dataset)
           AuditTyped == \A event \in audit : event.object \in BatchIds \cup DatasetIds
           OutsideTyped == IsTable(driveOperator, DriveIds, Operators) /\ now \in Moments
           DrivesKnown == \A b \in DOMAIN batches : batches[b].drive \in DOMAIN driveOperator
           Kept == TablesTyped' /\ AuditTyped' /\ OutsideTyped' /\ DrivesKnown'
                   /\ ReferencesHold' /\ NeverValidating'
<1> SUFFICES Kept
  BY UploadsNext DEF LoopTyped, LoopTypeOK
<1>1. TablesTyped /\ AuditTyped /\ OutsideTyped /\ DrivesKnown /\ ReferencesHold
      /\ NeverValidating
  BY DEF LoopTyped, LoopTypeOK
<1>2. ASSUME NEW action, NEW object \in BatchIds \cup DatasetIds, Record(action, object)
      PROVE  AuditTyped'
  BY <1>1, <1>2 DEF Record
<1>3. ASSUME UNCHANGED outside PROVE OutsideTyped' /\ driveOperator' = driveOperator
  BY <1>1, <1>3 DEF outside
<1>4. CASE OnlyUploadsChange
  BY <1>1, <1>4 DEF OnlyUploadsChange, tables, outside, ReferencesHold, NeverValidating
<1>5. CASE BatchIsUploaded
  <2>1. PICK u \in Uploads, b \in BatchIds :
          Uploaded(u, b) /\ Record("capture.upload", b) /\ UNCHANGED <<tickets, datasets, outside>>
    BY <1>5 DEF BatchIsUploaded
  <2>2. TablesTyped'
    <3>1. IsTable(batches', BatchIds, Batch)
      BY <1>1, <2>1 DEF Uploaded, IsTable
    <3>2. IsTable(frames', FrameIds, Frame)
      <4>1. {b} \X (1..Len(uploads[u].asked.quality)) \subseteq FrameIds
        BY <2>1, LoopBounds DEF Uploaded, Acceptable, FrameIds
      <4> QED BY <1>1, <2>1, <4>1 DEF Uploaded, IsTable
    <3> QED BY <1>1, <2>1, <3>1, <3>2
  <2>3. DrivesKnown'
    <3>1. uploads[u].asked.drive \in DOMAIN driveOperator
      BY <2>1 DEF Uploaded, CanUpload
    <3>2. batches'[b].drive = uploads[u].asked.drive
      BY <2>1 DEF Uploaded
    <3> QED BY <1>1, <1>3, <2>1, <3>1, <3>2 DEF Uploaded
  <2>4. ReferencesHold'
    <3>1. \A f \in DOMAIN frames' : f[1] \in DOMAIN batches'
      BY <1>1, <2>1 DEF Uploaded, ReferencesHold
    <3> QED BY <1>1, <2>1, <3>1 DEF Uploaded, ReferencesHold
  <2>5. NeverValidating'
    BY <1>1, <2>1 DEF Uploaded, NeverValidating
  <2> QED BY <1>2, <1>3, <2>1, <2>2, <2>3, <2>4, <2>5
<1>6. ASSUME NEW b \in BatchIds, Validated(b) \/ Rejected(b) \/ (Archived(b) /\ UNCHANGED frames)
      PROVE  /\ IsTable(batches', BatchIds, Batch)
             /\ IsTable(frames', FrameIds, Frame)
             /\ DOMAIN batches' = DOMAIN batches
             /\ DOMAIN frames' = DOMAIN frames
             /\ \A x \in DOMAIN batches : batches'[x].drive = batches[x].drive
             /\ NeverValidating'
  <2>1. IsTable(batches', BatchIds, Batch) /\ IsTable(frames', FrameIds, Frame)
    BY <1>1, <1>6 DEF Validated, Rejected, Archived
  <2>2. DOMAIN batches' = DOMAIN batches /\ DOMAIN frames' = DOMAIN frames
    BY <1>6 DEF Validated, Rejected, Archived
  <2>3. b \in DOMAIN batches /\ batches[b] \in Batch
    BY <1>1, <1>6 DEF Validated, Rejected, Archived, IsTable
  <2>4. \A x \in DOMAIN batches \ {b} : batches'[x] = batches[x]
    BY <1>6 DEF Validated, Rejected, Archived
  <2>5. batches'[b].drive = batches[b].drive /\ batches'[b].status # "validating"
    BY <1>6, <2>3 DEF Validated, Rejected, Archived, Batch
  <2> QED BY <1>1, <2>1, <2>2, <2>4, <2>5 DEF NeverValidating
<1>7. CASE BatchIsValidated
  <2>1. PICK b \in BatchIds :
          /\ Validated(b)
          /\ UNCHANGED tickets \/ \E t : TicketOpened(b, t)
          /\ Record("capture.validate", b)
          /\ UNCHANGED <<datasets, outside>>
    BY <1>7 DEF BatchIsValidated
  <2>2. /\ IsTable(tickets', TicketIds, Ticket)
        /\ \A t \in DOMAIN tickets' :
              /\ tickets'[t].batch \in DOMAIN batches
              /\ tickets'[t].drive = batches[tickets'[t].batch].drive
    <3>1. CASE UNCHANGED tickets
      BY <1>1, <3>1 DEF ReferencesHold
    <3>2. ASSUME NEW t, TicketOpened(b, t)
          PROVE  /\ IsTable(tickets', TicketIds, Ticket)
                 /\ \A x \in DOMAIN tickets' :
                       /\ tickets'[x].batch \in DOMAIN batches
                       /\ tickets'[x].drive = batches[tickets'[x].batch].drive
      <4>1. IsTable(tickets', TicketIds, Ticket)
        BY <1>1, <3>2 DEF TicketOpened, IsTable
      <4>2. b \in DOMAIN batches
        BY <2>1 DEF Validated
      <4> QED BY <1>1, <3>2, <4>1, <4>2 DEF TicketOpened, ReferencesHold
    <3> QED BY <2>1, <3>1, <3>2
  <2> QED BY <1>1, <1>2, <1>3, <1>6, <2>1, <2>2 DEF ReferencesHold
<1>8. CASE BatchIsRejected \/ BatchIsArchived
  <2>1. PICK b \in BatchIds :
          /\ Rejected(b) \/ (Archived(b) /\ UNCHANGED frames)
          /\ Record("capture.reject", b) \/ Record("capture.archive", b)
          /\ UNCHANGED <<tickets, datasets, outside>>
    BY <1>8 DEF BatchIsRejected, BatchIsArchived
  <2> QED BY <1>1, <1>2, <1>3, <1>6, <2>1 DEF ReferencesHold
<1>9. CASE TicketIsAssigned \/ TicketIsInvestigated \/ TicketIsDisposed
  <2>1. PICK t \in TicketIds :
          /\ Triaged(t)
          /\ \E action : Record(action, t)
          /\ UNCHANGED frames \/ HoldApplied(tickets[t].batch)
          /\ UNCHANGED <<batches, datasets, outside>>
    BY <1>9 DEF TicketIsAssigned, TicketIsInvestigated, TicketIsDisposed
  <2>2. IsTable(frames', FrameIds, Frame) /\ DOMAIN frames' = DOMAIN frames
    BY <1>1, <2>1 DEF HoldApplied
  <2>3. IsTable(tickets', TicketIds, Ticket) /\ DOMAIN tickets' = DOMAIN tickets
    BY <2>1 DEF Triaged
  <2>4. \A x \in DOMAIN tickets : tickets'[x].batch = tickets[x].batch
                                  /\ tickets'[x].drive = tickets[x].drive
    BY <2>1 DEF Triaged
  <2>5. t \in BatchIds
    BY DEF TicketIds, BatchIds
  <2> QED BY <1>1, <1>2, <1>3, <2>1, <2>2, <2>3, <2>4, <2>5 DEF ReferencesHold, NeverValidating
<1>10. CASE DatasetIsCreated \/ DatasetIsCurated \/ DatasetIsSealed \/ DatasetIsReleased
  <2>1. /\ IsTable(datasets', DatasetIds, Dataset)
        /\ \E d \in DatasetIds : \E action : Record(action, d)
        /\ UNCHANGED <<batches, frames, tickets, outside>>
    BY <1>10 DEF DatasetIsCreated, DatasetIsCurated, DatasetIsSealed, DatasetIsReleased,
                 DatasetCreated, Curated, DatasetSealed, DatasetReleased
  <2> QED BY <1>1, <1>2, <1>3, <2>1 DEF ReferencesHold, NeverValidating
<1>11. CASE EscalateOverdueTriage
  <2>1. PICK page \in FirstPage :
          audit' = audit \cup {[action |-> "triage.escalated", object |-> t] : t \in page}
    BY <1>11 DEF EscalateOverdueTriage
  <2>2. page \subseteq BatchIds
    BY <1>1, <2>1 DEF FirstPage, Overdue, IsTable, TicketIds, BatchIds
  <2>3. AuditTyped'
    BY <1>1, <2>1, <2>2
  <2> QED BY <1>1, <1>3, <1>11, <2>3 DEF EscalateOverdueTriage, ReferencesHold, NeverValidating
<1>12. CASE OutsideMoves
  BY <1>1, <1>12 DEF OutsideMoves, tables, ReferencesHold, NeverValidating
<1> QED BY <1>4, <1>5, <1>7, <1>8, <1>9, <1>10, <1>11, <1>12, WhatStepsDo

(* The tables of the data loop stay well formed, the counters of a batch within the
   length of an upload, and no batch is ever seen while it is validated, whatever
   is asked, uploaded at the same time or restarted. *)
THEOREM LoopTypeCorrect == Spec => []LoopTypeOK
<1>1. Spec => []LoopTyped
  BY LoopTypedInit, LoopTypedNext, PTL DEF Spec
<1>2. LoopTyped => LoopTypeOK
  BY DEF LoopTyped
<1> QED BY <1>1, <1>2, PTL

LEMMA AlwaysTyped == Spec => []LoopTyped
BY LoopTypedInit, LoopTypedNext, PTL DEF Spec

-----------------------------------------------------------------------------
(* Batches: what a step may do to one, and one batch per key *)

LEMMA BatchesMoveForward ==
  ASSUME LoopTyped, [Next]_vars, NEW b \in DOMAIN batches
  PROVE  /\ b \in DOMAIN batches'
         /\ batches'[b].key = batches[b].key
         /\ batches'[b].drive = batches[b].drive
         /\ batches'[b].frameCount = batches[b].frameCount
         /\ \/ batches'[b] = batches[b]
            \/ /\ batches[b].status = "uploaded"
               /\ batches'[b].status \in {"validated", "rejected"}
            \/ /\ batches[b].status \in {"validated", "rejected"}
               /\ batches'[b].status = "archived"
<1>1. batches[b] \in Batch
  BY DEF LoopTyped, LoopTypeOK, IsTable
<1>2. ASSUME NEW x \in BatchIds, Validated(x) \/ Rejected(x) \/ Archived(x)
      PROVE  /\ b \in DOMAIN batches'
             /\ batches'[b].key = batches[b].key
             /\ batches'[b].drive = batches[b].drive
             /\ batches'[b].frameCount = batches[b].frameCount
             /\ \/ batches'[b] = batches[b]
                \/ /\ batches[b].status = "uploaded"
                   /\ batches'[b].status \in {"validated", "rejected"}
                \/ /\ batches[b].status \in {"validated", "rejected"}
                   /\ batches'[b].status = "archived"
  <2>1. DOMAIN batches' = DOMAIN batches
    BY <1>2 DEF Validated, Rejected, Archived
  <2>2. CASE b # x
    BY <1>2, <2>1, <2>2 DEF Validated, Rejected, Archived
  <2>3. CASE b = x
    BY <1>1, <1>2, <2>1, <2>3 DEF Validated, Rejected, Archived, Batch
  <2> QED BY <2>2, <2>3
<1>3. CASE BatchIsUploaded
  BY <1>3 DEF BatchIsUploaded, Uploaded
<1>4. CASE BatchIsValidated \/ BatchIsRejected \/ BatchIsArchived
  BY <1>2, <1>4 DEF BatchIsValidated, BatchIsRejected, BatchIsArchived
<1>5. ASSUME \/ OnlyUploadsChange \/ OutsideMoves \/ EscalateOverdueTriage
             \/ TicketIsAssigned \/ TicketIsInvestigated \/ TicketIsDisposed
             \/ DatasetIsCreated \/ DatasetIsCurated \/ DatasetIsSealed \/ DatasetIsReleased
      PROVE  UNCHANGED batches
  BY <1>5 DEF OnlyUploadsChange, tables, OutsideMoves, EscalateOverdueTriage, TicketIsAssigned,
              TicketIsInvestigated, TicketIsDisposed, DatasetIsCreated, DatasetIsCurated,
              DatasetIsSealed, DatasetIsReleased
<1> QED BY <1>3, <1>4, <1>5, WhatStepsDo

(* Only an upload makes a batch. *)
LEMMA NewBatchIsUploaded ==
  ASSUME LoopTyped, [Next]_vars, NEW b \in DOMAIN batches', b \notin DOMAIN batches
  PROVE  \E u \in Uploads :
           /\ Uploaded(u, b)
           /\ uploads' = [uploads EXCEPT ![u] = [phase |-> "answered",
                                                asked |-> uploads[u].asked, id |-> b]]
           /\ Record("capture.upload", b)
           /\ UNCHANGED <<tickets, datasets, outside>>
<1>1. CASE BatchIsUploaded
  <2>1. PICK u \in Uploads, x \in BatchIds :
          /\ Uploaded(u, x)
          /\ uploads' = [uploads EXCEPT ![u] = [phase |-> "answered",
                                               asked |-> uploads[u].asked, id |-> x]]
          /\ Record("capture.upload", x)
          /\ UNCHANGED <<tickets, datasets, outside>>
    BY <1>1 DEF BatchIsUploaded
  <2>2. x = b
    BY <2>1 DEF Uploaded
  <2> QED BY <2>1, <2>2
<1>2. ASSUME BatchIsValidated \/ BatchIsRejected \/ BatchIsArchived
      PROVE  DOMAIN batches' = DOMAIN batches
  BY <1>2 DEF BatchIsValidated, BatchIsRejected, BatchIsArchived, Validated, Rejected, Archived
<1>3. ASSUME \/ OnlyUploadsChange \/ OutsideMoves \/ EscalateOverdueTriage
             \/ TicketIsAssigned \/ TicketIsInvestigated \/ TicketIsDisposed
             \/ DatasetIsCreated \/ DatasetIsCurated \/ DatasetIsSealed \/ DatasetIsReleased
      PROVE  UNCHANGED batches
  BY <1>3 DEF OnlyUploadsChange, tables, OutsideMoves, EscalateOverdueTriage, TicketIsAssigned,
              TicketIsInvestigated, TicketIsDisposed, DatasetIsCreated, DatasetIsCurated,
              DatasetIsSealed, DatasetIsReleased
<1> QED BY <1>1, <1>2, <1>3, WhatStepsDo

(* No two batches have a key in common, and an answer names a batch that has the key
   that was asked for.  The first is the unique index; the second is what
   OneBatchPerUploadKey adds for whoever looked the key up earlier. *)
KeysInv ==
  /\ \A b, other \in DOMAIN batches : batches[b].key = batches[other].key => b = other
  /\ \A u \in Uploads : uploads[u].phase = "answered" =>
       /\ uploads[u].id \in DOMAIN batches
       /\ batches[uploads[u].id].key = uploads[u].asked.key

LEMMA KeysNext == LoopTyped /\ KeysInv /\ [Next]_vars => KeysInv'
<1> SUFFICES ASSUME LoopTyped, KeysInv, [Next]_vars PROVE KeysInv'
  OBVIOUS
<1>1. \A b \in DOMAIN batches : b \in DOMAIN batches' /\ batches'[b].key = batches[b].key
  BY BatchesMoveForward
<1>2. ASSUME NEW b \in DOMAIN batches', b \notin DOMAIN batches
      PROVE  /\ \A other \in DOMAIN batches : batches[other].key # batches'[b].key
             /\ DOMAIN batches' = DOMAIN batches \cup {b}
  <2>1. PICK u \in Uploads : Uploaded(u, b)
    BY <1>2, NewBatchIsUploaded
  <2>2. BatchByUploadKey(uploads[u].asked.key) = {}
    BY <2>1 DEF Uploaded, CanUpload
  <2>3. batches'[b].key = uploads[u].asked.key /\ DOMAIN batches' = DOMAIN batches \cup {b}
    BY <2>1 DEF Uploaded
  <2> QED BY <2>2, <2>3 DEF BatchByUploadKey
<1>3. ASSUME NEW b \in DOMAIN batches', NEW other \in DOMAIN batches',
             batches'[b].key = batches'[other].key
      PROVE  b = other
  <2>1. CASE b \in DOMAIN batches /\ other \in DOMAIN batches
    BY <1>1, <1>3, <2>1 DEF KeysInv
  <2>2. ASSUME NEW new \in DOMAIN batches', new \notin DOMAIN batches,
               NEW old \in DOMAIN batches', old # new
        PROVE  batches'[old].key # batches'[new].key
    <3>1. old \in DOMAIN batches
      BY <1>2, <2>2
    <3>2. batches[old].key # batches'[new].key
      BY <1>2, <2>2, <3>1
    <3> QED BY <1>1, <3>1, <3>2
  <2>3. CASE b \notin DOMAIN batches \/ other \notin DOMAIN batches
    BY <1>3, <2>2, <2>3
  <2> QED BY <2>1, <2>2, <2>3
<1>4. ASSUME NEW u \in Uploads, uploads'[u].phase = "answered"
      PROVE  /\ uploads'[u].id \in DOMAIN batches'
             /\ batches'[uploads'[u].id].key = uploads'[u].asked.key
  <2>1. CASE uploads'[u] = uploads[u]
    BY <1>1, <1>4, <2>1 DEF KeysInv
  <2>2. ASSUME NEW x \in Uploads, NEW asked \in Requests, BeginUpload(x, asked), x = u
        PROVE  /\ uploads'[u].id \in DOMAIN batches'
               /\ batches'[uploads'[u].id].key = uploads'[u].asked.key
    <3>1. uploads \in [Uploads -> Upload]
      BY DEF LoopTyped, LoopTypeOK
    <3>2. CASE uploads' = [uploads EXCEPT ![u] = [phase |-> "pending", asked |-> asked]]
      BY <1>4, <3>1, <3>2
    <3>3. ASSUME NEW b \in BatchByUploadKey(asked.key),
                 uploads' = [uploads EXCEPT ![u] = [phase |-> "answered", asked |-> asked, id |-> b]]
          PROVE  /\ uploads'[u].id \in DOMAIN batches'
                 /\ batches'[uploads'[u].id].key = uploads'[u].asked.key
      BY <1>1, <3>1, <3>3 DEF BatchByUploadKey
    <3> QED BY <2>2, <3>2, <3>3 DEF BeginUpload
  <2>3. ASSUME NEW x \in Uploads, CommitUpload(x), x = u
        PROVE  /\ uploads'[u].id \in DOMAIN batches'
               /\ batches'[uploads'[u].id].key = uploads'[u].asked.key
    <3>1. uploads \in [Uploads -> Upload]
      BY DEF LoopTyped, LoopTypeOK
    <3>2. PICK b \in FreshId(batches, BatchIds) :
            /\ Uploaded(u, b)
            /\ uploads' = [uploads EXCEPT ![u] = [phase |-> "answered",
                                                 asked |-> uploads[u].asked, id |-> b]]
      BY <2>3, CommitAdds
    <3> QED BY <3>1, <3>2 DEF Uploaded
  <2>4. ASSUME NEW x \in Uploads, FailUpload(x) \/ ReplyToUpload(x), x = u PROVE FALSE
    <3>1. uploads \in [Uploads -> Upload]
      BY DEF LoopTyped, LoopTypeOK
    <3>2. uploads'[u] = Idle
      BY <2>4, <3>1 DEF FailUpload, ReplyToUpload
    <3> QED BY <1>4, <3>2 DEF Idle
  <2>5. ASSUME NEW x \in Uploads, UploadStep(x), x # u PROVE uploads'[u] = uploads[u]
    <3>1. uploads \in [Uploads -> Upload]
      BY DEF LoopTyped, LoopTypeOK
    <3> QED BY <2>5, <3>1 DEF UploadStep, BeginUpload, CommitUpload, FailUpload, ReplyToUpload
  <2>6. ASSUME Restart PROVE FALSE
    BY <1>4, <2>6 DEF Restart, Idle
  <2> QED BY <2>1, <2>2, <2>3, <2>4, <2>5, <2>6, UploadsChange DEF UploadStep
<1> QED BY <1>3, <1>4 DEF KeysInv

(* Two uploads with one key may both look it up before either is written; whatever
   the order, and across restarts, both callers get the one batch of the key. *)
THEOREM KeysNameOneBatch == Spec => []OneBatchPerUploadKey
<1>1. Init => KeysInv
  BY DEF Init, KeysInv, EmptyTable, Idle
<1>2. Spec => []KeysInv
  BY <1>1, KeysNext, AlwaysTyped, PTL DEF Spec
<1>3. KeysInv => OneBatchPerUploadKey
  BY DEF KeysInv, OneBatchPerUploadKey, BatchByUploadKey
<1> QED BY <1>2, <1>3, PTL

-----------------------------------------------------------------------------
(* Counters *)

AcceptedOf(b) == {f \in FramesByBatch(b) : Accepted(f)}

(* A decided batch is not the row it was. *)
LEMMA ValidatedIsValidated ==
  ASSUME LoopTyped, NEW b, Validated(b)
  PROVE  batches'[b].status = "validated" /\ batches'[b] # batches[b]
<1>1. PICK count : count = Cardinality(Good(b))
  OBVIOUS
<1>2. batches[b] \in Batch
  BY DEF Validated, LoopTyped, LoopTypeOK, IsTable
<1>3. batches'[b] = [batches[b] EXCEPT !.status = "validated", !.acceptedCount = count]
  BY <1>1 DEF Validated
<1>4. batches'[b].status = "validated" /\ batches[b].status = "uploaded"
  BY <1>2, <1>3 DEF Batch, Validated
<1> QED BY <1>4

LEMMA RejectedIsRejected ==
  ASSUME LoopTyped, NEW b, Rejected(b)
  PROVE  batches'[b].status = "rejected" /\ batches'[b] # batches[b]
<1>1. batches[b] \in Batch
  BY DEF Rejected, LoopTyped, LoopTypeOK, IsTable
<1>2. batches'[b] = [batches[b] EXCEPT !.status = "rejected", !.acceptedCount = 0]
  BY DEF Rejected
<1>3. batches'[b].status = "rejected" /\ batches[b].status = "uploaded"
  BY <1>1, <1>2 DEF Batch, Rejected
<1> QED BY <1>3

(* The frames of a batch and those accepted stay, unless the batch is uploaded,
   validated or rejected. *)
LEMMA FramesStay ==
  ASSUME LoopTyped, [Next]_vars, NEW b \in DOMAIN batches,
         batches'[b] = batches[b] \/ batches'[b].status = "archived"
  PROVE  /\ FramesByBatch(b)' = FramesByBatch(b)
         /\ AcceptedOf(b)' = AcceptedOf(b)
         /\ \A f \in FramesByBatch(b) :
              \/ frames'[f] = frames[f]
              \/ /\ frames'[f].quality = frames[f].quality
                 /\ frames[f].status = "quarantined"
                 /\ frames'[f].status = "dropped"
                 /\ \E t \in TicketsOfBatch(b) :
                      /\ Pending(t)
                      /\ t \in DOMAIN tickets'
                      /\ tickets'[t].batch = b
                      /\ RequiresDatasetHold(tickets'[t].disposition)
<1>1. batches[b] \in Batch
  BY DEF LoopTyped, LoopTypeOK, IsTable
<1>2. SUFFICES /\ \A f : f[1] = b => (f \in DOMAIN frames' <=> f \in DOMAIN frames)
               /\ \A f \in FramesByBatch(b) :
                    \/ frames'[f] = frames[f]
                    \/ /\ frames'[f].quality = frames[f].quality
                       /\ frames[f].status = "quarantined"
                       /\ frames'[f].status = "dropped"
                       /\ \E t \in TicketsOfBatch(b) :
                            /\ Pending(t)
                            /\ t \in DOMAIN tickets'
                            /\ tickets'[t].batch = b
                            /\ RequiresDatasetHold(tickets'[t].disposition)
  BY DEF FramesByBatch, AcceptedOf, Accepted
<1>3. CASE BatchIsUploaded
  BY <1>3 DEF BatchIsUploaded, Uploaded, FramesByBatch
<1>4. ASSUME NEW x \in BatchIds, Validated(x) \/ Rejected(x)
      PROVE  /\ DOMAIN frames' = DOMAIN frames
             /\ \A f \in FramesByBatch(b) : frames'[f] = frames[f]
  <2>1. DOMAIN frames' = DOMAIN frames /\ \A f \in DOMAIN frames \ FramesByBatch(x) : frames'[f] = frames[f]
    BY <1>4 DEF Validated, Rejected
  <2>2. x # b
    BY <1>4, ValidatedIsValidated, RejectedIsRejected
  <2> QED BY <2>1, <2>2 DEF FramesByBatch
<1>5. CASE BatchIsValidated \/ BatchIsRejected
  BY <1>4, <1>5 DEF BatchIsValidated, BatchIsRejected
<1>6. CASE TicketIsDisposed
  <2>1. PICK t \in TicketIds, disposition \in Conclusions :
          /\ Triaged(t)
          /\ tickets'[t].disposition = disposition
          /\ \/ RequiresDatasetHold(disposition) /\ HoldApplied(tickets[t].batch)
             \/ UNCHANGED frames
    BY <1>6 DEF TicketIsDisposed
  <2>2. CASE UNCHANGED frames
    BY <2>2
  <2>3. CASE RequiresDatasetHold(disposition) /\ HoldApplied(tickets[t].batch)
    <3>1. DOMAIN frames' = DOMAIN frames
      BY <2>3 DEF HoldApplied
    <3>2. CASE tickets[t].batch = b
      <4>1. t \in TicketsOfBatch(b) /\ Pending(t) /\ t \in DOMAIN tickets'
            /\ tickets'[t].batch = b
        BY <2>1, <3>2 DEF Triaged, TicketsOfBatch
      <4> QED BY <2>1, <2>3, <3>1, <3>2, <4>1 DEF HoldApplied, FramesByBatch
    <3>3. CASE tickets[t].batch # b
      BY <2>3, <3>1, <3>3 DEF HoldApplied, FramesByBatch
    <3> QED BY <3>2, <3>3
  <2> QED BY <2>1, <2>2, <2>3
<1>7. ASSUME \/ OnlyUploadsChange \/ OutsideMoves \/ EscalateOverdueTriage
             \/ BatchIsArchived \/ TicketIsAssigned \/ TicketIsInvestigated
             \/ DatasetIsCreated \/ DatasetIsCurated \/ DatasetIsSealed \/ DatasetIsReleased
      PROVE  UNCHANGED frames
  BY <1>7 DEF OnlyUploadsChange, tables, OutsideMoves, EscalateOverdueTriage, BatchIsArchived,
              TicketIsAssigned, TicketIsInvestigated, DatasetIsCreated, DatasetIsCurated,
              DatasetIsSealed, DatasetIsReleased
<1> QED BY <1>3, <1>5, <1>6, <1>7, WhatStepsDo

(* The row of a batch changes by its validation, its rejection and its archiving. *)
LEMMA OneBatchChanges ==
  ASSUME LoopTyped, [Next]_vars, NEW b \in DOMAIN batches
  PROVE  \/ batches'[b] = batches[b]
         \/ /\ Validated(b)
            /\ \/ Low(b) = {} /\ UNCHANGED tickets
               \/ Low(b) # {} /\ \E t : TicketOpened(b, t)
            /\ Record("capture.validate", b)
         \/ Rejected(b) /\ Record("capture.reject", b) /\ UNCHANGED tickets
         \/ Archived(b) /\ Record("capture.archive", b) /\ UNCHANGED <<frames, tickets>>
<1>1. CASE BatchIsUploaded
  BY <1>1 DEF BatchIsUploaded, Uploaded
<1>2. CASE BatchIsValidated
  <2>1. PICK x \in BatchIds :
          /\ Validated(x)
          /\ \/ Low(x) = {} /\ UNCHANGED tickets
             \/ Low(x) # {} /\ \E t : TicketOpened(x, t)
          /\ Record("capture.validate", x)
    BY <1>2 DEF BatchIsValidated
  <2>2. x # b => batches'[b] = batches[b]
    BY <2>1 DEF Validated
  <2> QED BY <2>1, <2>2
<1>3. CASE BatchIsRejected
  <2>1. PICK x \in BatchIds :
          Rejected(x) /\ Record("capture.reject", x) /\ UNCHANGED tickets
    BY <1>3 DEF BatchIsRejected
  <2>2. x # b => batches'[b] = batches[b]
    BY <2>1 DEF Rejected
  <2> QED BY <2>1, <2>2
<1>4. CASE BatchIsArchived
  <2>1. PICK x \in BatchIds :
          Archived(x) /\ Record("capture.archive", x) /\ UNCHANGED <<frames, tickets>>
    BY <1>4 DEF BatchIsArchived
  <2>2. x # b => batches'[b] = batches[b]
    BY <2>1 DEF Archived
  <2> QED BY <2>1, <2>2
<1>5. ASSUME \/ OnlyUploadsChange \/ OutsideMoves \/ EscalateOverdueTriage
             \/ TicketIsAssigned \/ TicketIsInvestigated \/ TicketIsDisposed
             \/ DatasetIsCreated \/ DatasetIsCurated \/ DatasetIsSealed \/ DatasetIsReleased
      PROVE  UNCHANGED batches
  BY <1>5 DEF OnlyUploadsChange, tables, OutsideMoves, EscalateOverdueTriage, TicketIsAssigned,
              TicketIsInvestigated, TicketIsDisposed, DatasetIsCreated, DatasetIsCurated,
              DatasetIsSealed, DatasetIsReleased
<1> QED BY <1>1, <1>2, <1>3, <1>4, <1>5, WhatStepsDo

(* The frames of an uploaded batch are all of them pending, and as many as it says. *)
LEMMA UploadedFrames ==
  ASSUME LoopTyped, NEW u, NEW b, Uploaded(u, b)
  PROVE  /\ \A f \in FramesByBatch(b)' : frames'[f].status = "pending"
         /\ batches'[b].status = "uploaded"
         /\ batches'[b].frameCount = Cardinality(FramesByBatch(b)')
         /\ batches'[b].acceptedCount = 0
<1> DEFINE n == Len(uploads[u].asked.quality)
<1>1. n \in Nat
  BY LoopBounds DEF Uploaded, Acceptable
<1>2. FramesByBatch(b)' = {b} \X (1..n)
  <2>1. DOMAIN frames' = DOMAIN frames \cup ({b} \X (1..n)) /\ \A f \in DOMAIN frames : f[1] # b
    BY DEF Uploaded
  <2>2. \A f \in {b} \X (1..n) : f[1] = b
    OBVIOUS
  <2> HIDE DEF n
  <2> QED BY <2>1, <2>2 DEF FramesByBatch
<1>3. Cardinality({b} \X (1..n)) = n
  BY <1>1, PlacesAreCounted
<1>4. /\ batches'[b].status = "uploaded"
      /\ batches'[b].frameCount = n
      /\ batches'[b].acceptedCount = 0
  BY DEF Uploaded
<1>5. \A f \in {b} \X (1..n) : frames'[f].status = "pending"
  BY DEF Uploaded
<1> HIDE DEF n
<1> QED BY <1>2, <1>3, <1>4, <1>5

LEMMA CountersNext == LoopTyped /\ CountersMatchRows /\ [Next]_vars => CountersMatchRows'
<1> SUFFICES ASSUME LoopTyped, CountersMatchRows, [Next]_vars PROVE CountersMatchRows'
  OBVIOUS
<1>1. ASSUME NEW b \in DOMAIN batches'
      PROVE  /\ batches'[b].frameCount = Cardinality(FramesByBatch(b)')
             /\ batches'[b].acceptedCount = Cardinality(AcceptedOf(b)')
  <2>1. CASE b \notin DOMAIN batches
    <3>1. PICK u \in Uploads : Uploaded(u, b)
      BY <2>1, NewBatchIsUploaded
    <3>2. AcceptedOf(b)' = {}
      BY <3>1, UploadedFrames DEF AcceptedOf, Accepted
    <3> QED BY <3>1, <3>2, UploadedFrames, FS_EmptySet
  <2>2. ASSUME b \in DOMAIN batches
        PROVE  /\ batches[b].frameCount = Cardinality(FramesByBatch(b))
               /\ batches[b].acceptedCount = Cardinality(AcceptedOf(b))
               /\ batches'[b].frameCount = batches[b].frameCount
               /\ batches[b] \in Batch
    BY <2>2, BatchesMoveForward DEF CountersMatchRows, AcceptedOf, LoopTyped, LoopTypeOK, IsTable
  <2>3. CASE b \in DOMAIN batches /\ batches'[b] = batches[b]
    BY <2>2, <2>3, FramesStay
  <2>4. CASE b \in DOMAIN batches /\ Archived(b)
    BY <2>2, <2>4, FramesStay DEF Archived, Batch
  <2>5. CASE b \in DOMAIN batches /\ Validated(b)
    <3>1. FramesByBatch(b)' = FramesByBatch(b)
      BY <2>5 DEF FramesByBatch, Validated
    <3>2. AcceptedOf(b)' = Good(b)
      BY <2>5, <3>1 DEF AcceptedOf, Accepted, Validated, Good, Low, FramesByBatch
    <3>3. batches'[b].acceptedCount = Cardinality(Good(b))
      BY <2>2, <2>5 DEF Validated, Batch
    <3> QED BY <2>2, <2>5, <3>1, <3>2, <3>3
  <2>6. CASE b \in DOMAIN batches /\ Rejected(b)
    <3>1. FramesByBatch(b)' = FramesByBatch(b)
      BY <2>6 DEF FramesByBatch, Rejected
    <3>2. AcceptedOf(b)' = {}
      BY <2>6, <3>1 DEF AcceptedOf, Accepted, Rejected
    <3>3. batches'[b].acceptedCount = 0
      BY <2>2, <2>6 DEF Rejected, Batch
    <3> QED BY <2>2, <2>6, <3>1, <3>2, <3>3, FS_EmptySet
  <2> QED BY <2>1, <2>3, <2>4, <2>5, <2>6, OneBatchChanges
<1>2. ASSUME NEW d \in DOMAIN datasets'
      PROVE  datasets'[d].frameCount = Cardinality(datasets'[d].members)
  <2>1. ASSUME d \in DOMAIN datasets
        PROVE  datasets[d].frameCount = Cardinality(datasets[d].members)
    BY <2>1 DEF CountersMatchRows
  <2>2. CASE UNCHANGED datasets
    BY <2>1, <2>2
  <2>3. ASSUME NEW x, DatasetCreated(x) \/ Curated(x) \/ DatasetSealed(x) \/ DatasetReleased(x)
        PROVE  datasets'[d].frameCount = Cardinality(datasets'[d].members)
    <3>1. CASE d # x
      BY <2>1, <2>3, <3>1 DEF DatasetCreated, Curated, DatasetSealed, DatasetReleased
    <3>2. CASE d = x
      BY <2>1, <2>3, <3>2 DEF DatasetCreated, Curated, DatasetSealed, DatasetReleased
    <3> QED BY <3>1, <3>2
  <2>4. CASE DatasetIsCreated \/ DatasetIsCurated \/ DatasetIsSealed \/ DatasetIsReleased
    BY <2>3, <2>4 DEF DatasetIsCreated, DatasetIsCurated, DatasetIsSealed, DatasetIsReleased
  <2>5. ASSUME \/ OnlyUploadsChange \/ OutsideMoves \/ EscalateOverdueTriage
               \/ BatchIsUploaded \/ BatchIsValidated \/ BatchIsRejected \/ BatchIsArchived
               \/ TicketIsAssigned \/ TicketIsInvestigated \/ TicketIsDisposed
        PROVE  UNCHANGED datasets
    BY <2>5 DEF OnlyUploadsChange, tables, OutsideMoves, EscalateOverdueTriage, BatchIsUploaded,
                BatchIsValidated, BatchIsRejected, BatchIsArchived, TicketIsAssigned,
                TicketIsInvestigated, TicketIsDisposed
  <2> QED BY <2>2, <2>4, <2>5, WhatStepsDo
<1> QED BY <1>1, <1>2 DEF CountersMatchRows, AcceptedOf

(* What the rows of batches and data sets say of the number of their frames is that
   number, after every upload, validation, rejection, disposition and curation. *)
THEOREM CountersAreTrue == Spec => []CountersMatchRows
<1>1. Init => CountersMatchRows
  BY DEF Init, CountersMatchRows, EmptyTable
<1> QED BY <1>1, CountersNext, AlwaysTyped, PTL DEF Spec

-----------------------------------------------------------------------------
(* The audit trail of batches, tickets and data sets *)

(* The step records at most events of one kind. *)
OnlyRecords(kind) == \A event : event.action # kind => (event \in audit' <=> event \in audit)

(* A handler records one event, and no other. *)
LEMMA RecordAdds ==
  ASSUME NEW action, NEW object, Record(action, object)
  PROVE  /\ OnlyRecords(action)
         /\ \A x : Audited(action, x)' <=> Audited(action, x) \/ x = object
BY DEF Record, OnlyRecords, Audited

(* A kind of event that the step does not record keeps its events. *)
LEMMA OthersKept ==
  ASSUME NEW kind, OnlyRecords(kind), NEW other, other # kind
  PROVE  \A x : Audited(other, x)' <=> Audited(other, x)
BY DEF OnlyRecords, Audited

(* What the escalation records, and nothing is recorded by what leaves the trail. *)
LEMMA EscalationAdds ==
  ASSUME NEW page, audit' = audit \cup {[action |-> "triage.escalated", object |-> t] : t \in page}
  PROVE  /\ OnlyRecords("triage.escalated")
         /\ \A x : Audited("triage.escalated", x)' <=> Audited("triage.escalated", x) \/ x \in page
<1> DEFINE added == {[action |-> "triage.escalated", object |-> t] : t \in page}
<1>1. \A event \in added : event.action = "triage.escalated"
  OBVIOUS
<1>2. ASSUME NEW x PROVE [action |-> "triage.escalated", object |-> x] \in added <=> x \in page
  <2>1. ASSUME NEW t \in page,
               [action |-> "triage.escalated", object |-> t]
                 = [action |-> "triage.escalated", object |-> x]
        PROVE  t = x
    BY <2>1
  <2> QED BY <2>1
<1>3. audit' = audit \cup added
  OBVIOUS
<1> HIDE DEF added
<1>4. OnlyRecords("triage.escalated")
  BY <1>1, <1>3 DEF OnlyRecords
<1> QED BY <1>2, <1>3, <1>4 DEF Audited

LEMMA NothingRecorded == ASSUME UNCHANGED audit PROVE OnlyRecords("none")
BY DEF OnlyRecords

(* What the events say of a batch, whether it exists or not. *)
BatchAudited(b) ==
  LET known == b \in DOMAIN batches
      validated == Audited("capture.validate", b)
      rejected  == Audited("capture.reject", b)
  IN  /\ Audited("capture.upload", b) <=> known
      /\ Audited("capture.archive", b) <=> known /\ batches[b].status = "archived"
      /\ known /\ batches[b].status = "uploaded" => ~validated /\ ~rejected
      /\ known /\ batches[b].status = "validated" => validated /\ ~rejected
      /\ known /\ batches[b].status = "rejected" => rejected /\ ~validated
      /\ known /\ batches[b].status = "archived" => (validated <=> ~rejected)
      /\ ~known => ~validated /\ ~rejected

BatchesAudited == \A b : BatchAudited(b)

(* What leaves the batches records none of their events. *)
LEMMA BatchesAuditedStay ==
  ASSUME \/ OnlyUploadsChange \/ OutsideMoves \/ EscalateOverdueTriage
         \/ TicketIsAssigned \/ TicketIsInvestigated \/ TicketIsDisposed
         \/ DatasetIsCreated \/ DatasetIsCurated \/ DatasetIsSealed \/ DatasetIsReleased
  PROVE  /\ UNCHANGED batches
         /\ \E kind : /\ OnlyRecords(kind)
                      /\ kind \notin {"capture.upload", "capture.validate", "capture.reject",
                                      "capture.archive"}
<1>1. UNCHANGED batches
  BY DEF OnlyUploadsChange, tables, OutsideMoves, EscalateOverdueTriage, TicketIsAssigned,
         TicketIsInvestigated, TicketIsDisposed, DatasetIsCreated, DatasetIsCurated,
         DatasetIsSealed, DatasetIsReleased
<1>2. CASE OnlyUploadsChange \/ OutsideMoves
  <2>1. OnlyRecords("none")
    BY <1>2, NothingRecorded DEF OnlyUploadsChange, tables, OutsideMoves
  <2> QED BY <1>1, <2>1
<1>3. CASE EscalateOverdueTriage
  <2>1. OnlyRecords("triage.escalated")
    BY <1>3, EscalationAdds DEF EscalateOverdueTriage
  <2> QED BY <1>1, <2>1
<1>4. CASE TicketIsAssigned
  <2>1. OnlyRecords("triage.assign")
    BY <1>4, RecordAdds DEF TicketIsAssigned
  <2> QED BY <1>1, <2>1
<1>5. CASE TicketIsInvestigated
  <2>1. OnlyRecords("triage.investigate")
    BY <1>5, RecordAdds DEF TicketIsInvestigated
  <2> QED BY <1>1, <2>1
<1>6. CASE TicketIsDisposed
  <2>1. OnlyRecords("triage.dispose")
    BY <1>6, RecordAdds DEF TicketIsDisposed
  <2> QED BY <1>1, <2>1
<1>7. CASE DatasetIsCreated
  <2>1. OnlyRecords("dataset.create")
    BY <1>7, RecordAdds DEF DatasetIsCreated
  <2> QED BY <1>1, <2>1
<1>8. CASE DatasetIsCurated
  <2>1. OnlyRecords("dataset.add_frames") \/ OnlyRecords("dataset.remove_frame")
    BY <1>8, RecordAdds DEF DatasetIsCurated
  <2> QED BY <1>1, <2>1
<1>9. CASE DatasetIsSealed
  <2>1. OnlyRecords("dataset.seal")
    BY <1>9, RecordAdds DEF DatasetIsSealed
  <2> QED BY <1>1, <2>1
<1>10. CASE DatasetIsReleased
  <2>1. OnlyRecords("dataset.release")
    BY <1>10, RecordAdds DEF DatasetIsReleased
  <2> QED BY <1>1, <2>1
<1> QED BY <1>2, <1>3, <1>4, <1>5, <1>6, <1>7, <1>8, <1>9, <1>10

LEMMA BatchesAuditedNext == LoopTyped /\ BatchesAudited /\ [Next]_vars => BatchesAudited'
<1> SUFFICES ASSUME LoopTyped, BatchesAudited, [Next]_vars, NEW b PROVE BatchAudited(b)'
  BY DEF BatchesAudited
<1>1. BatchAudited(b)
  BY DEF BatchesAudited
<1>2. \A x \in DOMAIN batches : batches[x] \in Batch
  BY DEF LoopTyped, LoopTypeOK, IsTable
<1>3. ASSUME NEW kind, OnlyRecords(kind)
      PROVE  /\ kind # "capture.upload" =>
                   (Audited("capture.upload", b)' <=> Audited("capture.upload", b))
             /\ kind # "capture.validate" =>
                   (Audited("capture.validate", b)' <=> Audited("capture.validate", b))
             /\ kind # "capture.reject" =>
                   (Audited("capture.reject", b)' <=> Audited("capture.reject", b))
             /\ kind # "capture.archive" =>
                   (Audited("capture.archive", b)' <=> Audited("capture.archive", b))
  BY <1>3, OthersKept
<1>4. ASSUME UNCHANGED batches, NEW kind, OnlyRecords(kind),
             kind \notin {"capture.upload", "capture.validate", "capture.reject",
                          "capture.archive"}
      PROVE  BatchAudited(b)'
  BY <1>1, <1>3, <1>4 DEF BatchAudited
<1>5. CASE BatchIsUploaded
  <2>1. PICK u \in Uploads, x \in BatchIds : Uploaded(u, x) /\ Record("capture.upload", x)
    BY <1>5 DEF BatchIsUploaded
  <2>2. /\ x \notin DOMAIN batches
        /\ DOMAIN batches' = DOMAIN batches \cup {x}
        /\ \A y \in DOMAIN batches : batches'[y] = batches[y]
        /\ batches'[x].status = "uploaded"
    BY <2>1 DEF Uploaded
  <2>3. /\ OnlyRecords("capture.upload")
        /\ Audited("capture.upload", b)' <=> Audited("capture.upload", b) \/ b = x
    BY <2>1, RecordAdds
  <2>4. /\ Audited("capture.validate", b)' <=> Audited("capture.validate", b)
        /\ Audited("capture.reject", b)' <=> Audited("capture.reject", b)
        /\ Audited("capture.archive", b)' <=> Audited("capture.archive", b)
    BY <1>3, <2>3
  <2>5. CASE b = x
    BY <1>1, <2>2, <2>3, <2>4, <2>5 DEF BatchAudited
  <2>6. CASE b # x
    BY <1>1, <2>2, <2>3, <2>4, <2>6 DEF BatchAudited
  <2> QED BY <2>5, <2>6
<1>6. CASE BatchIsValidated
  <2>1. PICK x \in BatchIds : Validated(x) /\ Record("capture.validate", x)
    BY <1>6 DEF BatchIsValidated
  <2>2. /\ x \in DOMAIN batches
        /\ batches[x].status = "uploaded"
        /\ DOMAIN batches' = DOMAIN batches
        /\ \A y \in DOMAIN batches \ {x} : batches'[y] = batches[y]
        /\ batches'[x].status = "validated"
    BY <1>2, <2>1 DEF Validated, Batch
  <2>3. /\ OnlyRecords("capture.validate")
        /\ Audited("capture.validate", b)' <=> Audited("capture.validate", b) \/ b = x
    BY <2>1, RecordAdds
  <2>4. /\ Audited("capture.upload", b)' <=> Audited("capture.upload", b)
        /\ Audited("capture.reject", b)' <=> Audited("capture.reject", b)
        /\ Audited("capture.archive", b)' <=> Audited("capture.archive", b)
    BY <1>3, <2>3
  <2>5. CASE b = x
    BY <1>1, <2>2, <2>3, <2>4, <2>5 DEF BatchAudited
  <2>6. CASE b # x
    BY <1>1, <2>2, <2>3, <2>4, <2>6 DEF BatchAudited
  <2> QED BY <2>5, <2>6
<1>7. CASE BatchIsRejected
  <2>1. PICK x \in BatchIds : Rejected(x) /\ Record("capture.reject", x)
    BY <1>7 DEF BatchIsRejected
  <2>2. /\ x \in DOMAIN batches
        /\ batches[x].status = "uploaded"
        /\ DOMAIN batches' = DOMAIN batches
        /\ \A y \in DOMAIN batches \ {x} : batches'[y] = batches[y]
        /\ batches'[x].status = "rejected"
    BY <1>2, <2>1 DEF Rejected, Batch
  <2>3. /\ OnlyRecords("capture.reject")
        /\ Audited("capture.reject", b)' <=> Audited("capture.reject", b) \/ b = x
    BY <2>1, RecordAdds
  <2>4. /\ Audited("capture.upload", b)' <=> Audited("capture.upload", b)
        /\ Audited("capture.validate", b)' <=> Audited("capture.validate", b)
        /\ Audited("capture.archive", b)' <=> Audited("capture.archive", b)
    BY <1>3, <2>3
  <2>5. CASE b = x
    BY <1>1, <2>2, <2>3, <2>4, <2>5 DEF BatchAudited
  <2>6. CASE b # x
    BY <1>1, <2>2, <2>3, <2>4, <2>6 DEF BatchAudited
  <2> QED BY <2>5, <2>6
<1>8. CASE BatchIsArchived
  <2>1. PICK x \in BatchIds : Archived(x) /\ Record("capture.archive", x)
    BY <1>8 DEF BatchIsArchived
  <2>2. /\ x \in DOMAIN batches
        /\ batches[x].status \in {"validated", "rejected"}
        /\ DOMAIN batches' = DOMAIN batches
        /\ \A y \in DOMAIN batches \ {x} : batches'[y] = batches[y]
        /\ batches'[x].status = "archived"
    BY <1>2, <2>1 DEF Archived, Batch
  <2>3. /\ OnlyRecords("capture.archive")
        /\ Audited("capture.archive", b)' <=> Audited("capture.archive", b) \/ b = x
    BY <2>1, RecordAdds
  <2>4. /\ Audited("capture.upload", b)' <=> Audited("capture.upload", b)
        /\ Audited("capture.validate", b)' <=> Audited("capture.validate", b)
        /\ Audited("capture.reject", b)' <=> Audited("capture.reject", b)
    BY <1>3, <2>3
  <2>5. CASE b = x
    BY <1>1, <2>2, <2>3, <2>4, <2>5 DEF BatchAudited
  <2>6. CASE b # x
    BY <1>1, <2>2, <2>3, <2>4, <2>6 DEF BatchAudited
  <2> QED BY <2>5, <2>6
<1>9. ASSUME \/ OnlyUploadsChange \/ OutsideMoves \/ EscalateOverdueTriage
             \/ TicketIsAssigned \/ TicketIsInvestigated \/ TicketIsDisposed
             \/ DatasetIsCreated \/ DatasetIsCurated \/ DatasetIsSealed \/ DatasetIsReleased
      PROVE  BatchAudited(b)'
  BY <1>4, <1>9, BatchesAuditedStay
<1> QED BY <1>5, <1>6, <1>7, <1>8, <1>9, WhatStepsDo

(* What the events say of a ticket.  One that is escalated was overdue then, and so
   it is ever after: nobody moves a deadline, and the clock does not go back. *)
TicketAudited(t) ==
  LET known == t \in DOMAIN tickets
  IN  /\ Audited("triage.dispose", t) <=> known /\ tickets[t].status = "disposed"
      /\ Audited("triage.assign", t) <=> known /\ tickets[t].assigned
      /\ Audited("triage.investigate", t) =>
           known /\ tickets[t].status \in {"investigating", "disposed"} /\ tickets[t].assigned
      /\ known /\ tickets[t].status = "investigating" => Audited("triage.investigate", t)
      /\ Audited("triage.escalated", t) => known /\ tickets[t].deadline < now

TicketsAudited == \A t : TicketAudited(t)

LEMMA TicketsAuditedStay ==
  ASSUME \/ OnlyUploadsChange \/ OutsideMoves
         \/ BatchIsUploaded \/ BatchIsRejected \/ BatchIsArchived
         \/ DatasetIsCreated \/ DatasetIsCurated \/ DatasetIsSealed \/ DatasetIsReleased
  PROVE  /\ UNCHANGED tickets
         /\ UNCHANGED now \/ now' >= now
         /\ \E kind : /\ OnlyRecords(kind)
                      /\ kind \notin {"triage.dispose", "triage.assign",
                                      "triage.investigate", "triage.escalated"}
<1>1. UNCHANGED tickets
  BY DEF OnlyUploadsChange, tables, OutsideMoves, BatchIsUploaded, BatchIsRejected,
         BatchIsArchived, DatasetIsCreated, DatasetIsCurated, DatasetIsSealed, DatasetIsReleased
<1>2. UNCHANGED now \/ now' >= now
  BY DEF OnlyUploadsChange, outside, OutsideMoves, BatchIsUploaded, BatchIsRejected,
         BatchIsArchived, DatasetIsCreated, DatasetIsCurated, DatasetIsSealed, DatasetIsReleased
<1>3. CASE OnlyUploadsChange \/ OutsideMoves
  <2>1. OnlyRecords("none")
    BY <1>3, NothingRecorded DEF OnlyUploadsChange, tables, OutsideMoves
  <2> QED BY <1>1, <1>2, <2>1
<1>4. CASE BatchIsUploaded
  <2>1. OnlyRecords("capture.upload")
    BY <1>4, RecordAdds DEF BatchIsUploaded
  <2> QED BY <1>1, <1>2, <2>1
<1>5. CASE BatchIsRejected
  <2>1. OnlyRecords("capture.reject")
    BY <1>5, RecordAdds DEF BatchIsRejected
  <2> QED BY <1>1, <1>2, <2>1
<1>6. CASE BatchIsArchived
  <2>1. OnlyRecords("capture.archive")
    BY <1>6, RecordAdds DEF BatchIsArchived
  <2> QED BY <1>1, <1>2, <2>1
<1>7. CASE DatasetIsCreated
  <2>1. OnlyRecords("dataset.create")
    BY <1>7, RecordAdds DEF DatasetIsCreated
  <2> QED BY <1>1, <1>2, <2>1
<1>8. CASE DatasetIsCurated
  <2>1. OnlyRecords("dataset.add_frames") \/ OnlyRecords("dataset.remove_frame")
    BY <1>8, RecordAdds DEF DatasetIsCurated
  <2> QED BY <1>1, <1>2, <2>1
<1>9. CASE DatasetIsSealed
  <2>1. OnlyRecords("dataset.seal")
    BY <1>9, RecordAdds DEF DatasetIsSealed
  <2> QED BY <1>1, <1>2, <2>1
<1>10. CASE DatasetIsReleased
  <2>1. OnlyRecords("dataset.release")
    BY <1>10, RecordAdds DEF DatasetIsReleased
  <2> QED BY <1>1, <1>2, <2>1
<1> QED BY <1>3, <1>4, <1>5, <1>6, <1>7, <1>8, <1>9, <1>10

LEMMA TicketsAuditedNext == LoopTyped /\ TicketsAudited /\ [Next]_vars => TicketsAudited'
<1> SUFFICES ASSUME LoopTyped, TicketsAudited, [Next]_vars, NEW t PROVE TicketAudited(t)'
  BY DEF TicketsAudited
<1>1. TicketAudited(t)
  BY DEF TicketsAudited
<1>2. /\ \A x \in DOMAIN tickets : tickets[x] \in Ticket
      /\ now \in Nat
  BY MomentsTyped DEF LoopTyped, LoopTypeOK, IsTable
<1>3. ASSUME NEW kind, OnlyRecords(kind)
      PROVE  /\ kind # "triage.dispose" =>
                   (Audited("triage.dispose", t)' <=> Audited("triage.dispose", t))
             /\ kind # "triage.assign" =>
                   (Audited("triage.assign", t)' <=> Audited("triage.assign", t))
             /\ kind # "triage.investigate" =>
                   (Audited("triage.investigate", t)' <=> Audited("triage.investigate", t))
             /\ kind # "triage.escalated" =>
                   (Audited("triage.escalated", t)' <=> Audited("triage.escalated", t))
  BY <1>3, OthersKept
<1>4. ASSUME \/ OnlyUploadsChange \/ OutsideMoves
             \/ BatchIsUploaded \/ BatchIsRejected \/ BatchIsArchived
             \/ DatasetIsCreated \/ DatasetIsCurated \/ DatasetIsSealed \/ DatasetIsReleased
      PROVE  TicketAudited(t)'
  <2>1. PICK kind : /\ OnlyRecords(kind)
                    /\ kind \notin {"triage.dispose", "triage.assign",
                                    "triage.investigate", "triage.escalated"}
    BY <1>4, TicketsAuditedStay
  <2>2. UNCHANGED tickets
    BY <1>4, TicketsAuditedStay
  <2>3. now' \in Nat /\ now' >= now
    <3>1. now' \in Moments
      BY LoopTypedNext DEF LoopTyped, LoopTypeOK
    <3> QED BY <1>2, <1>4, <3>1, MomentsTyped, TicketsAuditedStay
  <2>4. /\ Audited("triage.dispose", t)' <=> Audited("triage.dispose", t)
        /\ Audited("triage.assign", t)' <=> Audited("triage.assign", t)
        /\ Audited("triage.investigate", t)' <=> Audited("triage.investigate", t)
        /\ Audited("triage.escalated", t)' <=> Audited("triage.escalated", t)
    BY <1>3, <2>1
  <2>5. t \in DOMAIN tickets => tickets[t].deadline \in Nat
    BY <1>2 DEF Ticket
  <2>6. t \in DOMAIN tickets /\ tickets[t].deadline < now => tickets[t].deadline < now'
    BY <1>2, <2>3, <2>5
  <2> QED BY <1>1, <2>2, <2>4, <2>6 DEF TicketAudited
<1>5. CASE BatchIsValidated
  <2>1. PICK b \in BatchIds :
          /\ UNCHANGED tickets \/ \E x : TicketOpened(b, x)
          /\ Record("capture.validate", b)
          /\ now' = now
    BY <1>5 DEF BatchIsValidated, outside
  <2>2. OnlyRecords("capture.validate")
    BY <2>1, RecordAdds
  <2>3. /\ Audited("triage.dispose", t)' <=> Audited("triage.dispose", t)
        /\ Audited("triage.assign", t)' <=> Audited("triage.assign", t)
        /\ Audited("triage.investigate", t)' <=> Audited("triage.investigate", t)
        /\ Audited("triage.escalated", t)' <=> Audited("triage.escalated", t)
    BY <1>3, <2>2
  <2>4. CASE UNCHANGED tickets
    BY <1>1, <2>1, <2>3, <2>4 DEF TicketAudited
  <2>5. ASSUME NEW x, TicketOpened(b, x) PROVE TicketAudited(t)'
    <3>1. /\ x \notin DOMAIN tickets
          /\ DOMAIN tickets' = DOMAIN tickets \cup {x}
          /\ \A y \in DOMAIN tickets : tickets'[y] = tickets[y]
          /\ tickets'[x].status = "open"
          /\ tickets'[x].assigned = FALSE
      BY <2>5 DEF TicketOpened
    <3>2. CASE t = x
      BY <1>1, <2>3, <3>1, <3>2 DEF TicketAudited
    <3>3. CASE t # x
      BY <1>1, <2>1, <2>3, <3>1, <3>3 DEF TicketAudited
    <3> QED BY <3>2, <3>3
  <2> QED BY <2>1, <2>4, <2>5
<1>6. ASSUME NEW x, Triaged(x), now' = now,
             tickets'[x].status = tickets[x].status, tickets'[x].assigned = TRUE,
             Record("triage.assign", x)
      PROVE  TicketAudited(t)'
  <2>1. /\ OnlyRecords("triage.assign")
        /\ Audited("triage.assign", t)' <=> Audited("triage.assign", t) \/ t = x
    BY <1>6, RecordAdds
  <2>2. /\ Audited("triage.dispose", t)' <=> Audited("triage.dispose", t)
        /\ Audited("triage.investigate", t)' <=> Audited("triage.investigate", t)
        /\ Audited("triage.escalated", t)' <=> Audited("triage.escalated", t)
    BY <1>3, <2>1
  <2>3. CASE t = x
    BY <1>1, <1>6, <2>1, <2>2, <2>3 DEF TicketAudited, Triaged
  <2>4. CASE t # x
    BY <1>1, <1>6, <2>1, <2>2, <2>4 DEF TicketAudited, Triaged
  <2> QED BY <2>3, <2>4
<1>7. ASSUME NEW x, Triaged(x), now' = now, tickets[x].assigned,
             tickets'[x].status = "investigating", tickets'[x].assigned = tickets[x].assigned,
             Record("triage.investigate", x)
      PROVE  TicketAudited(t)'
  <2>1. /\ OnlyRecords("triage.investigate")
        /\ Audited("triage.investigate", t)' <=> Audited("triage.investigate", t) \/ t = x
    BY <1>7, RecordAdds
  <2>2. /\ Audited("triage.dispose", t)' <=> Audited("triage.dispose", t)
        /\ Audited("triage.assign", t)' <=> Audited("triage.assign", t)
        /\ Audited("triage.escalated", t)' <=> Audited("triage.escalated", t)
    BY <1>3, <2>1
  <2>3. CASE t = x
    BY <1>1, <1>7, <2>1, <2>2, <2>3 DEF TicketAudited, Triaged, Pending
  <2>4. CASE t # x
    BY <1>1, <1>7, <2>1, <2>2, <2>4 DEF TicketAudited, Triaged
  <2> QED BY <2>3, <2>4
<1>8. ASSUME NEW x, Triaged(x), now' = now,
             tickets'[x].status = "disposed", tickets'[x].assigned = tickets[x].assigned,
             Record("triage.dispose", x)
      PROVE  TicketAudited(t)'
  <2>1. /\ OnlyRecords("triage.dispose")
        /\ Audited("triage.dispose", t)' <=> Audited("triage.dispose", t) \/ t = x
    BY <1>8, RecordAdds
  <2>2. /\ Audited("triage.assign", t)' <=> Audited("triage.assign", t)
        /\ Audited("triage.investigate", t)' <=> Audited("triage.investigate", t)
        /\ Audited("triage.escalated", t)' <=> Audited("triage.escalated", t)
    BY <1>3, <2>1
  <2>3. CASE t = x
    BY <1>1, <1>8, <2>1, <2>2, <2>3 DEF TicketAudited, Triaged
  <2>4. CASE t # x
    BY <1>1, <1>8, <2>1, <2>2, <2>4 DEF TicketAudited, Triaged
  <2> QED BY <2>3, <2>4
<1>9. CASE TicketIsAssigned \/ TicketIsInvestigated \/ TicketIsDisposed
  BY <1>6, <1>7, <1>8, <1>9 DEF TicketIsAssigned, TicketIsInvestigated, TicketIsDisposed, outside
<1>10. CASE EscalateOverdueTriage
  <2>1. PICK page \in FirstPage :
          audit' = audit \cup {[action |-> "triage.escalated", object |-> x] : x \in page}
    BY <1>10 DEF EscalateOverdueTriage
  <2>2. \A x \in page : x \in DOMAIN tickets /\ tickets[x].deadline < now
    BY <2>1 DEF FirstPage, Overdue
  <2>3. /\ OnlyRecords("triage.escalated")
        /\ Audited("triage.escalated", t)' <=> Audited("triage.escalated", t) \/ t \in page
    BY <2>1, EscalationAdds
  <2>4. /\ Audited("triage.dispose", t)' <=> Audited("triage.dispose", t)
        /\ Audited("triage.assign", t)' <=> Audited("triage.assign", t)
        /\ Audited("triage.investigate", t)' <=> Audited("triage.investigate", t)
    BY <1>3, <2>3
  <2>5. tickets' = tickets /\ now' = now
    BY <1>10 DEF EscalateOverdueTriage, outside
  <2> QED BY <1>1, <2>2, <2>3, <2>4, <2>5 DEF TicketAudited
<1> QED BY <1>4, <1>5, <1>9, <1>10, WhatStepsDo

(* What the events say of a data set. *)
DatasetAudited(d) ==
  /\ Audited("dataset.create", d) <=> d \in DOMAIN datasets
  /\ Audited("dataset.add_frames", d) => d \in DOMAIN datasets
  /\ Audited("dataset.remove_frame", d) => Audited("dataset.add_frames", d)
  /\ d \in DOMAIN datasets /\ datasets[d].members # {} => Audited("dataset.add_frames", d)
  /\ Audited("dataset.seal", d) <=> Sealed(d)
  /\ Audited("dataset.release", d) <=> d \in DOMAIN datasets /\ datasets[d].status = "released"

DatasetsAudited == \A d : DatasetAudited(d)

LEMMA DatasetsAuditedStay ==
  ASSUME \/ OnlyUploadsChange \/ OutsideMoves \/ EscalateOverdueTriage
         \/ BatchIsUploaded \/ BatchIsValidated \/ BatchIsRejected \/ BatchIsArchived
         \/ TicketIsAssigned \/ TicketIsInvestigated \/ TicketIsDisposed
  PROVE  /\ UNCHANGED datasets
         /\ \E kind : /\ OnlyRecords(kind)
                      /\ kind \notin {"dataset.create", "dataset.add_frames",
                                      "dataset.remove_frame", "dataset.seal", "dataset.release"}
<1>1. UNCHANGED datasets
  BY DEF OnlyUploadsChange, tables, OutsideMoves, EscalateOverdueTriage, BatchIsUploaded,
         BatchIsValidated, BatchIsRejected, BatchIsArchived, TicketIsAssigned,
         TicketIsInvestigated, TicketIsDisposed
<1>2. CASE OnlyUploadsChange \/ OutsideMoves
  <2>1. OnlyRecords("none")
    BY <1>2, NothingRecorded DEF OnlyUploadsChange, tables, OutsideMoves
  <2> QED BY <1>1, <2>1
<1>3. CASE EscalateOverdueTriage
  <2>1. OnlyRecords("triage.escalated")
    BY <1>3, EscalationAdds DEF EscalateOverdueTriage
  <2> QED BY <1>1, <2>1
<1>4. CASE BatchIsUploaded
  <2>1. OnlyRecords("capture.upload")
    BY <1>4, RecordAdds DEF BatchIsUploaded
  <2> QED BY <1>1, <2>1
<1>5. CASE BatchIsValidated
  <2>1. OnlyRecords("capture.validate")
    BY <1>5, RecordAdds DEF BatchIsValidated
  <2> QED BY <1>1, <2>1
<1>6. CASE BatchIsRejected
  <2>1. OnlyRecords("capture.reject")
    BY <1>6, RecordAdds DEF BatchIsRejected
  <2> QED BY <1>1, <2>1
<1>7. CASE BatchIsArchived
  <2>1. OnlyRecords("capture.archive")
    BY <1>7, RecordAdds DEF BatchIsArchived
  <2> QED BY <1>1, <2>1
<1>8. CASE TicketIsAssigned
  <2>1. OnlyRecords("triage.assign")
    BY <1>8, RecordAdds DEF TicketIsAssigned
  <2> QED BY <1>1, <2>1
<1>9. CASE TicketIsInvestigated
  <2>1. OnlyRecords("triage.investigate")
    BY <1>9, RecordAdds DEF TicketIsInvestigated
  <2> QED BY <1>1, <2>1
<1>10. CASE TicketIsDisposed
  <2>1. OnlyRecords("triage.dispose")
    BY <1>10, RecordAdds DEF TicketIsDisposed
  <2> QED BY <1>1, <2>1
<1> QED BY <1>2, <1>3, <1>4, <1>5, <1>6, <1>7, <1>8, <1>9, <1>10

LEMMA DatasetsAuditedNext == LoopTyped /\ DatasetsAudited /\ [Next]_vars => DatasetsAudited'
<1> SUFFICES ASSUME LoopTyped, DatasetsAudited, [Next]_vars, NEW d PROVE DatasetAudited(d)'
  BY DEF DatasetsAudited
<1>1. DatasetAudited(d)
  BY DEF DatasetsAudited
<1>2. ASSUME NEW kind, OnlyRecords(kind)
      PROVE  /\ kind # "dataset.create" =>
                   (Audited("dataset.create", d)' <=> Audited("dataset.create", d))
             /\ kind # "dataset.add_frames" =>
                   (Audited("dataset.add_frames", d)' <=> Audited("dataset.add_frames", d))
             /\ kind # "dataset.remove_frame" =>
                   (Audited("dataset.remove_frame", d)' <=> Audited("dataset.remove_frame", d))
             /\ kind # "dataset.seal" =>
                   (Audited("dataset.seal", d)' <=> Audited("dataset.seal", d))
             /\ kind # "dataset.release" =>
                   (Audited("dataset.release", d)' <=> Audited("dataset.release", d))
  BY <1>2, OthersKept
<1>3. ASSUME UNCHANGED datasets, NEW kind, OnlyRecords(kind),
             kind \notin {"dataset.create", "dataset.add_frames", "dataset.remove_frame",
                          "dataset.seal", "dataset.release"}
      PROVE  DatasetAudited(d)'
  BY <1>1, <1>2, <1>3 DEF DatasetAudited, Sealed
<1>4. ASSUME \/ OnlyUploadsChange \/ OutsideMoves \/ EscalateOverdueTriage
             \/ BatchIsUploaded \/ BatchIsValidated \/ BatchIsRejected \/ BatchIsArchived
             \/ TicketIsAssigned \/ TicketIsInvestigated \/ TicketIsDisposed
      PROVE  DatasetAudited(d)'
  BY <1>3, <1>4, DatasetsAuditedStay
<1>5. CASE DatasetIsCreated
  <2>1. PICK x \in DatasetIds : DatasetCreated(x) /\ Record("dataset.create", x)
    BY <1>5 DEF DatasetIsCreated
  <2>2. /\ OnlyRecords("dataset.create")
        /\ Audited("dataset.create", d)' <=> Audited("dataset.create", d) \/ d = x
    BY <2>1, RecordAdds
  <2>3. /\ Audited("dataset.add_frames", d)' <=> Audited("dataset.add_frames", d)
        /\ Audited("dataset.remove_frame", d)' <=> Audited("dataset.remove_frame", d)
        /\ Audited("dataset.seal", d)' <=> Audited("dataset.seal", d)
        /\ Audited("dataset.release", d)' <=> Audited("dataset.release", d)
    BY <1>2, <2>2
  <2>4. CASE d = x
    BY <1>1, <2>1, <2>2, <2>3, <2>4 DEF DatasetAudited, Sealed, DatasetCreated
  <2>5. CASE d # x
    BY <1>1, <2>1, <2>2, <2>3, <2>5 DEF DatasetAudited, Sealed, DatasetCreated
  <2> QED BY <2>4, <2>5
<1>6. ASSUME NEW x, Curated(x), Record("dataset.add_frames", x) PROVE DatasetAudited(d)'
  <2>1. /\ OnlyRecords("dataset.add_frames")
        /\ Audited("dataset.add_frames", d)' <=> Audited("dataset.add_frames", d) \/ d = x
    BY <1>6, RecordAdds
  <2>2. /\ Audited("dataset.create", d)' <=> Audited("dataset.create", d)
        /\ Audited("dataset.remove_frame", d)' <=> Audited("dataset.remove_frame", d)
        /\ Audited("dataset.seal", d)' <=> Audited("dataset.seal", d)
        /\ Audited("dataset.release", d)' <=> Audited("dataset.release", d)
    BY <1>2, <2>1
  <2>3. CASE d = x
    BY <1>1, <1>6, <2>1, <2>2, <2>3 DEF DatasetAudited, Sealed, Curated
  <2>4. CASE d # x
    BY <1>1, <1>6, <2>1, <2>2, <2>4 DEF DatasetAudited, Sealed, Curated
  <2> QED BY <2>3, <2>4
<1>7. ASSUME NEW x, Curated(x), datasets[x].members # {}, Record("dataset.remove_frame", x)
      PROVE  DatasetAudited(d)'
  <2>1. /\ OnlyRecords("dataset.remove_frame")
        /\ Audited("dataset.remove_frame", d)' <=> Audited("dataset.remove_frame", d) \/ d = x
    BY <1>7, RecordAdds
  <2>2. /\ Audited("dataset.create", d)' <=> Audited("dataset.create", d)
        /\ Audited("dataset.add_frames", d)' <=> Audited("dataset.add_frames", d)
        /\ Audited("dataset.seal", d)' <=> Audited("dataset.seal", d)
        /\ Audited("dataset.release", d)' <=> Audited("dataset.release", d)
    BY <1>2, <2>1
  <2>3. CASE d = x
    BY <1>1, <1>7, <2>1, <2>2, <2>3 DEF DatasetAudited, Sealed, Curated
  <2>4. CASE d # x
    BY <1>1, <1>7, <2>1, <2>2, <2>4 DEF DatasetAudited, Sealed, Curated
  <2> QED BY <2>3, <2>4
<1>8. CASE DatasetIsCurated
  BY <1>6, <1>7, <1>8 DEF DatasetIsCurated
<1>9. CASE DatasetIsSealed
  <2>1. PICK x \in DatasetIds : DatasetSealed(x) /\ Record("dataset.seal", x)
    BY <1>9 DEF DatasetIsSealed
  <2>2. /\ OnlyRecords("dataset.seal")
        /\ Audited("dataset.seal", d)' <=> Audited("dataset.seal", d) \/ d = x
    BY <2>1, RecordAdds
  <2>3. /\ Audited("dataset.create", d)' <=> Audited("dataset.create", d)
        /\ Audited("dataset.add_frames", d)' <=> Audited("dataset.add_frames", d)
        /\ Audited("dataset.remove_frame", d)' <=> Audited("dataset.remove_frame", d)
        /\ Audited("dataset.release", d)' <=> Audited("dataset.release", d)
    BY <1>2, <2>2
  <2>4. CASE d = x
    BY <1>1, <2>1, <2>2, <2>3, <2>4 DEF DatasetAudited, Sealed, DatasetSealed
  <2>5. CASE d # x
    BY <1>1, <2>1, <2>2, <2>3, <2>5 DEF DatasetAudited, Sealed, DatasetSealed
  <2> QED BY <2>4, <2>5
<1>10. CASE DatasetIsReleased
  <2>1. PICK x \in DatasetIds : DatasetReleased(x) /\ Record("dataset.release", x)
    BY <1>10 DEF DatasetIsReleased
  <2>2. /\ OnlyRecords("dataset.release")
        /\ Audited("dataset.release", d)' <=> Audited("dataset.release", d) \/ d = x
    BY <2>1, RecordAdds
  <2>3. /\ Audited("dataset.create", d)' <=> Audited("dataset.create", d)
        /\ Audited("dataset.add_frames", d)' <=> Audited("dataset.add_frames", d)
        /\ Audited("dataset.remove_frame", d)' <=> Audited("dataset.remove_frame", d)
        /\ Audited("dataset.seal", d)' <=> Audited("dataset.seal", d)
    BY <1>2, <2>2
  <2>4. CASE d = x
    BY <1>1, <2>1, <2>2, <2>3, <2>4 DEF DatasetAudited, Sealed, DatasetReleased
  <2>5. CASE d # x
    BY <1>1, <2>1, <2>2, <2>3, <2>5 DEF DatasetAudited, Sealed, DatasetReleased
  <2> QED BY <2>4, <2>5
<1> QED BY <1>4, <1>5, <1>8, <1>9, <1>10, WhatStepsDo

(* The audit trail tells the existence and the status of every batch, ticket and data
   set and the assignment of every ticket, and no event contradicts a row; only tickets
   that missed their deadline are said to be escalated.  Every handler writes the row
   and the event in one transaction; this is what that comes to over any sequence of
   handlers, jobs and restarts. *)
THEOREM LoopTrailIsTrue == Spec => []LoopAuditTrail
<1>1. Init => BatchesAudited /\ TicketsAudited /\ DatasetsAudited
  BY DEF Init, EmptyTable, BatchesAudited, BatchAudited, TicketsAudited, TicketAudited,
         DatasetsAudited, DatasetAudited, Sealed, Audited
<1>2. Spec => [](LoopTyped /\ BatchesAudited /\ TicketsAudited /\ DatasetsAudited)
  BY <1>1, AlwaysTyped, BatchesAuditedNext, TicketsAuditedNext, DatasetsAuditedNext, PTL DEF Spec
<1>3. LoopTyped /\ BatchesAudited /\ TicketsAudited /\ DatasetsAudited => LoopAuditTrail
  <2> SUFFICES ASSUME LoopTyped, BatchesAudited, TicketsAudited, DatasetsAudited
               PROVE  LoopAuditTrail
    OBVIOUS
  <2>1. ASSUME NEW b \in BatchIds
        PROVE  /\ Audited("capture.upload", b) <=> b \in DOMAIN batches
               /\ Audited("capture.validate", b) <=>
                    /\ b \in DOMAIN batches
                    /\ batches[b].status \in {"validated", "archived"}
                    /\ ~Audited("capture.reject", b)
               /\ Audited("capture.reject", b) <=>
                    /\ b \in DOMAIN batches
                    /\ batches[b].status \in {"rejected", "archived"}
                    /\ ~Audited("capture.validate", b)
               /\ Audited("capture.archive", b) <=>
                    b \in DOMAIN batches /\ batches[b].status = "archived"
    <3>1. BatchAudited(b)
      BY DEF BatchesAudited
    <3>2. b \in DOMAIN batches =>
            batches[b].status \in {"uploaded", "validated", "rejected", "archived"}
      BY DEF LoopTyped, LoopTypeOK, NeverValidating, IsTable, Batch, BatchStatus
    <3> QED BY <3>1, <3>2 DEF BatchAudited
  <2>2. \A t \in TicketIds :
          /\ Audited("triage.dispose", t) <=> t \in DOMAIN tickets /\ tickets[t].status = "disposed"
          /\ Audited("triage.assign", t) <=> t \in DOMAIN tickets /\ tickets[t].assigned
          /\ Audited("triage.investigate", t) =>
               /\ t \in DOMAIN tickets
               /\ tickets[t].status \in {"investigating", "disposed"}
               /\ tickets[t].assigned
          /\ t \in DOMAIN tickets /\ tickets[t].status = "investigating" =>
               Audited("triage.investigate", t)
          /\ Audited("triage.escalated", t) => t \in DOMAIN tickets /\ tickets[t].deadline < now
    BY DEF TicketsAudited, TicketAudited
  <2>3. \A d \in DatasetIds :
          /\ Audited("dataset.create", d) <=> d \in DOMAIN datasets
          /\ Audited("dataset.add_frames", d) => d \in DOMAIN datasets
          /\ Audited("dataset.remove_frame", d) => Audited("dataset.add_frames", d)
          /\ d \in DOMAIN datasets /\ datasets[d].members # {} =>
               Audited("dataset.add_frames", d)
          /\ Audited("dataset.seal", d) <=> Sealed(d)
          /\ Audited("dataset.release", d) <=>
               d \in DOMAIN datasets /\ datasets[d].status = "released"
    BY DEF DatasetsAudited, DatasetAudited
  <2> QED BY <2>1, <2>2, <2>3 DEF LoopAuditTrail
<1> QED BY <1>2, <1>3, PTL

-----------------------------------------------------------------------------
(* The fate of frames: batch, ticket and quarantine *)

(* That a batch was validated is recorded by its validation and by nothing else. *)
LEMMA ValidationStays ==
  ASSUME LoopTyped, [Next]_vars, NEW b \in DOMAIN batches,
         batches'[b] = batches[b] \/ batches'[b].status = "archived"
  PROVE  Audited("capture.validate", b)' <=> Audited("capture.validate", b)
<1>1. batches[b] \in Batch
  BY DEF LoopTyped, LoopTypeOK, IsTable
<1>2. ASSUME NEW kind, OnlyRecords(kind), kind # "capture.validate"
      PROVE  Audited("capture.validate", b)' <=> Audited("capture.validate", b)
  BY <1>2, OthersKept
<1>3. CASE BatchIsValidated
  <2>1. PICK x \in BatchIds : Validated(x) /\ Record("capture.validate", x)
    BY <1>3 DEF BatchIsValidated
  <2>2. x # b
    BY <2>1, ValidatedIsValidated
  <2> QED BY <2>1, <2>2, RecordAdds
<1>4. CASE BatchIsUploaded
  <2>1. OnlyRecords("capture.upload")
    BY <1>4, RecordAdds DEF BatchIsUploaded
  <2> QED BY <1>2, <2>1
<1>5. CASE BatchIsRejected
  <2>1. OnlyRecords("capture.reject")
    BY <1>5, RecordAdds DEF BatchIsRejected
  <2> QED BY <1>2, <2>1
<1>6. CASE BatchIsArchived
  <2>1. OnlyRecords("capture.archive")
    BY <1>6, RecordAdds DEF BatchIsArchived
  <2> QED BY <1>2, <2>1
<1>7. ASSUME \/ OnlyUploadsChange \/ OutsideMoves \/ EscalateOverdueTriage
             \/ TicketIsAssigned \/ TicketIsInvestigated \/ TicketIsDisposed
             \/ DatasetIsCreated \/ DatasetIsCurated \/ DatasetIsSealed \/ DatasetIsReleased
      PROVE  Audited("capture.validate", b)' <=> Audited("capture.validate", b)
  <2>1. PICK kind : OnlyRecords(kind) /\ kind # "capture.validate"
    BY <1>7, BatchesAuditedStay
  <2> QED BY <1>2, <2>1
<1> QED BY <1>3, <1>4, <1>5, <1>6, <1>7, WhatStepsDo

(* Once a batch is decided, its frames and tickets change by the disposition of a
   ticket of it that is pending, and by nothing else that concerns its frames. *)
FateStays(b) ==
  /\ \A f \in FramesByBatch(b) : frames'[f] = frames[f]
  /\ \A t \in TicketsOfBatch(b) : tickets'[t].disposition = tickets[t].disposition

FateIsDecided(b) ==
  \E t \in TicketsOfBatch(b) :
    /\ Pending(t)
    /\ \A other \in TicketsOfBatch(b) \ {t} : tickets'[other] = tickets[other]
    /\ \/ RequiresDatasetHold(tickets'[t].disposition) /\ HoldApplied(b)
       \/ ~RequiresDatasetHold(tickets'[t].disposition) /\ UNCHANGED frames

LEMMA FateMoves ==
  ASSUME LoopTyped, [Next]_vars, NEW b \in DOMAIN batches,
         batches'[b] = batches[b] \/ batches'[b].status = "archived"
  PROVE  /\ TicketsOfBatch(b)' = TicketsOfBatch(b)
         /\ \A t \in TicketsOfBatch(b) : ~Pending(t) => tickets'[t] = tickets[t]
         /\ FateStays(b) \/ FateIsDecided(b)
<1>1. batches[b] \in Batch
  BY DEF LoopTyped, LoopTypeOK, IsTable
<1>2. ASSUME UNCHANGED tickets
      PROVE  /\ TicketsOfBatch(b)' = TicketsOfBatch(b)
             /\ \A t \in TicketsOfBatch(b) : tickets'[t] = tickets[t]
  BY <1>2 DEF TicketsOfBatch
<1>3. CASE BatchIsUploaded
  <2>1. UNCHANGED tickets /\ \A f \in FramesByBatch(b) : frames'[f] = frames[f]
    BY <1>3 DEF BatchIsUploaded, Uploaded, FramesByBatch
  <2> QED BY <1>2, <2>1 DEF FateStays
<1>4. CASE BatchIsValidated
  <2>1. PICK x \in BatchIds : Validated(x) /\ (UNCHANGED tickets \/ \E t : TicketOpened(x, t))
    BY <1>4 DEF BatchIsValidated
  <2>2. x # b
    BY <2>1, ValidatedIsValidated
  <2>3. \A f \in FramesByBatch(b) : frames'[f] = frames[f]
    <3>1. \A f \in DOMAIN frames \ FramesByBatch(x) : frames'[f] = frames[f]
      BY <2>1 DEF Validated
    <3> QED BY <2>2, <3>1 DEF FramesByBatch
  <2>4. ASSUME NEW t, TicketOpened(x, t)
        PROVE  /\ TicketsOfBatch(b)' = TicketsOfBatch(b)
               /\ \A other \in TicketsOfBatch(b) : tickets'[other] = tickets[other]
    <3>1. /\ DOMAIN tickets' = DOMAIN tickets \cup {t}
          /\ \A other \in DOMAIN tickets : tickets'[other] = tickets[other]
          /\ tickets'[t].batch = x
      BY <2>4 DEF TicketOpened
    <3> QED BY <2>2, <3>1 DEF TicketsOfBatch
  <2>5. /\ TicketsOfBatch(b)' = TicketsOfBatch(b)
        /\ \A other \in TicketsOfBatch(b) : tickets'[other] = tickets[other]
    BY <1>2, <2>1, <2>4
  <2> QED BY <2>3, <2>5 DEF FateStays
<1>5. CASE BatchIsRejected
  <2>1. PICK x \in BatchIds : Rejected(x) /\ UNCHANGED tickets
    BY <1>5 DEF BatchIsRejected
  <2>2. x # b
    BY <2>1, RejectedIsRejected
  <2>3. \A f \in FramesByBatch(b) : frames'[f] = frames[f]
    <3>1. \A f \in DOMAIN frames \ FramesByBatch(x) : frames'[f] = frames[f]
      BY <2>1 DEF Rejected
    <3> QED BY <2>2, <3>1 DEF FramesByBatch
  <2> QED BY <1>2, <2>1, <2>3 DEF FateStays
<1>6. ASSUME NEW t, Triaged(t)
      PROVE  /\ TicketsOfBatch(b)' = TicketsOfBatch(b)
             /\ \A x \in TicketsOfBatch(b) \ {t} : tickets'[x] = tickets[x]
             /\ \A x \in TicketsOfBatch(b) : ~Pending(x) => tickets'[x] = tickets[x]
  <2>1. \A x \in DOMAIN tickets : tickets'[x].batch = tickets[x].batch
    BY <1>6 DEF Triaged
  <2>2. DOMAIN tickets' = DOMAIN tickets /\ \A x \in DOMAIN tickets \ {t} : tickets'[x] = tickets[x]
    BY <1>6 DEF Triaged
  <2> QED BY <1>6, <2>1, <2>2 DEF TicketsOfBatch, Triaged
<1>7. CASE TicketIsAssigned \/ TicketIsInvestigated
  <2>1. PICK t \in TicketIds :
          /\ Triaged(t)
          /\ tickets'[t].disposition = tickets[t].disposition
          /\ UNCHANGED frames
    BY <1>7 DEF TicketIsAssigned, TicketIsInvestigated
  <2>2. \A x \in TicketsOfBatch(b) : tickets'[x].disposition = tickets[x].disposition
    BY <1>6, <2>1
  <2> QED BY <1>6, <2>1, <2>2 DEF FateStays
<1>8. CASE TicketIsDisposed
  <2>1. PICK t \in TicketIds, disposition \in Conclusions :
          /\ Triaged(t)
          /\ tickets'[t].disposition = disposition
          /\ \/ RequiresDatasetHold(disposition) /\ HoldApplied(tickets[t].batch)
             \/ ~RequiresDatasetHold(disposition) /\ UNCHANGED frames
    BY <1>8 DEF TicketIsDisposed
  <2>2. CASE tickets[t].batch = b
    <3>1. t \in TicketsOfBatch(b) /\ Pending(t)
      BY <2>1, <2>2 DEF Triaged, TicketsOfBatch
    <3>2. FateIsDecided(b)
      BY <1>6, <2>1, <2>2, <3>1 DEF FateIsDecided
    <3> QED BY <1>6, <2>1, <3>2
  <2>3. CASE tickets[t].batch # b
    <3>1. \A f \in FramesByBatch(b) : frames'[f] = frames[f]
      BY <2>1, <2>3 DEF HoldApplied, FramesByBatch
    <3>2. t \notin TicketsOfBatch(b)
      BY <2>3 DEF TicketsOfBatch
    <3>3. FateStays(b)
      BY <1>6, <2>1, <3>1, <3>2 DEF FateStays
    <3> QED BY <1>6, <2>1, <3>3
  <2> QED BY <2>2, <2>3
<1>9. ASSUME \/ OnlyUploadsChange \/ OutsideMoves \/ EscalateOverdueTriage \/ BatchIsArchived
             \/ DatasetIsCreated \/ DatasetIsCurated \/ DatasetIsSealed \/ DatasetIsReleased
      PROVE  UNCHANGED <<frames, tickets>>
  BY <1>9 DEF OnlyUploadsChange, tables, OutsideMoves, EscalateOverdueTriage, BatchIsArchived,
              DatasetIsCreated, DatasetIsCurated, DatasetIsSealed, DatasetIsReleased
<1> QED BY <1>2, <1>3, <1>4, <1>5, <1>7, <1>8, <1>9, WhatStepsDo DEF FateStays

(* A ticket that is pending has no conclusion yet, and an archived batch has no
   ticket that is. *)
PendingInv ==
  /\ \A t \in DOMAIN tickets : Pending(t) => tickets[t].disposition = ""
  /\ \A b \in DOMAIN batches : batches[b].status = "archived" =>
       \A t \in TicketsOfBatch(b) : ~Pending(t)

LEMMA PendingNext == LoopTyped /\ PendingInv /\ [Next]_vars => PendingInv'
<1> SUFFICES ASSUME LoopTyped, PendingInv, [Next]_vars PROVE PendingInv'
  OBVIOUS
<1>1. ASSUME NEW t \in DOMAIN tickets', Pending(t)' PROVE tickets'[t].disposition = ""
  <2>1. t \in DOMAIN tickets /\ Pending(t) => tickets[t].disposition = ""
    BY DEF PendingInv
  <2>2. ASSUME UNCHANGED tickets PROVE tickets'[t].disposition = ""
    BY <1>1, <2>1, <2>2 DEF Pending
  <2>3. CASE BatchIsValidated
    <3>1. UNCHANGED tickets \/ \E b, x : TicketOpened(b, x)
      BY <2>3 DEF BatchIsValidated
    <3>2. ASSUME NEW b, NEW x, TicketOpened(b, x) PROVE tickets'[t].disposition = ""
      <4>1. CASE t = x
        BY <3>2, <4>1 DEF TicketOpened
      <4>2. CASE t # x
        BY <1>1, <2>1, <3>2, <4>2 DEF TicketOpened, Pending
      <4> QED BY <4>1, <4>2
    <3> QED BY <2>2, <3>1, <3>2
  <2>4. CASE TicketIsAssigned \/ TicketIsInvestigated \/ TicketIsDisposed
    <3>1. PICK x \in TicketIds :
            /\ Triaged(x)
            /\ tickets'[x].disposition = tickets[x].disposition \/ tickets'[x].status = "disposed"
      BY <2>4 DEF TicketIsAssigned, TicketIsInvestigated, TicketIsDisposed
    <3>2. CASE t = x
      BY <1>1, <2>1, <3>1, <3>2 DEF Triaged, Pending
    <3>3. CASE t # x
      BY <1>1, <2>1, <3>1, <3>3 DEF Triaged, Pending
    <3> QED BY <3>2, <3>3
  <2>5. ASSUME \/ OnlyUploadsChange \/ OutsideMoves \/ EscalateOverdueTriage
               \/ BatchIsUploaded \/ BatchIsRejected \/ BatchIsArchived
               \/ DatasetIsCreated \/ DatasetIsCurated \/ DatasetIsSealed \/ DatasetIsReleased
        PROVE  UNCHANGED tickets
    BY <2>5 DEF OnlyUploadsChange, tables, OutsideMoves, EscalateOverdueTriage, BatchIsUploaded,
                BatchIsRejected, BatchIsArchived, DatasetIsCreated, DatasetIsCurated,
                DatasetIsSealed, DatasetIsReleased
  <2> QED BY <2>2, <2>3, <2>4, <2>5, WhatStepsDo
<1>2. ASSUME NEW b \in DOMAIN batches', batches'[b].status = "archived"
      PROVE  \A t \in TicketsOfBatch(b)' : ~Pending(t)'
  <2>1. b \in DOMAIN batches
    <3>1. SUFFICES ASSUME b \notin DOMAIN batches PROVE FALSE
      OBVIOUS
    <3>2. PICK u \in Uploads : Uploaded(u, b)
      BY <3>1, NewBatchIsUploaded
    <3> QED BY <1>2, <3>2 DEF Uploaded
  <2>2. \A t \in TicketsOfBatch(b) : ~Pending(t)
    <3>1. CASE batches'[b] = batches[b]
      BY <1>2, <2>1, <3>1 DEF PendingInv
    <3>2. CASE Archived(b)
      <4>1. PendingByDrive(batches[b].drive) = {}
        BY <3>2 DEF Archived
      <4> QED BY <4>1 DEF PendingByDrive, TicketsOfBatch, LoopTyped, ReferencesHold
    <3>3. Validated(b) \/ Rejected(b) => FALSE
      BY <1>2, <2>1 DEF Validated, Rejected, LoopTyped, LoopTypeOK, IsTable, Batch
    <3> QED BY <2>1, <3>1, <3>2, <3>3, OneBatchChanges
  <2>3. /\ TicketsOfBatch(b)' = TicketsOfBatch(b)
        /\ \A t \in TicketsOfBatch(b) : tickets'[t] = tickets[t]
    BY <1>2, <2>1, <2>2, FateMoves
  <2> QED BY <2>2, <2>3 DEF Pending
<1> QED BY <1>1, <1>2 DEF PendingInv

Held(b) == \E t \in TicketsOfBatch(b) : RequiresDatasetHold(tickets[t].disposition)

(* The state of the frames of a batch and of its ticket, by what is recorded of its
   validation.  This is QuarantineIsDecided with the one ticket named. *)
Fate(b) ==
  /\ ~Audited("capture.validate", b) =>
       /\ TicketsOfBatch(b) = {}
       /\ \A f \in FramesByBatch(b) : frames[f].status \in {"pending", "dropped"}
  /\ Audited("capture.validate", b) =>
       /\ Low(b) = {} => TicketsOfBatch(b) = {}
       /\ Low(b) # {} => \E t \in TicketsOfBatch(b) : TicketsOfBatch(b) = {t}
       /\ \A f \in Good(b) : frames[f].status = "accepted"
       /\ \A f \in Low(b) : frames[f].status = IF Held(b) THEN "dropped" ELSE "quarantined"

FatesInv == \A b \in DOMAIN batches : Fate(b)

(* The good and the bad frames of a batch stay what they are. *)
LEMMA QualityStays ==
  ASSUME NEW b, FramesByBatch(b)' = FramesByBatch(b),
         \A f \in FramesByBatch(b) : frames'[f].quality = frames[f].quality
  PROVE  Low(b)' = Low(b) /\ Good(b)' = Good(b)
<1>1. Low(b)' = Low(b)
  BY DEF Low
<1> QED BY <1>1 DEF Good

LEMMA FatesNext ==
  LoopTyped /\ BatchesAudited /\ PendingInv /\ FatesInv /\ [Next]_vars => FatesInv'
<1> SUFFICES ASSUME LoopTyped, BatchesAudited, PendingInv, FatesInv, [Next]_vars,
                    NEW b \in DOMAIN batches'
             PROVE  Fate(b)'
  BY DEF FatesInv
<1>1. BatchAudited(b) /\ BatchAudited(b)'
  BY BatchesAuditedNext DEF BatchesAudited
<1>2. CASE b \notin DOMAIN batches
  <2>1. PICK u \in Uploads : Uploaded(u, b) /\ tickets' = tickets
    BY <1>2, NewBatchIsUploaded
  <2>2. /\ \A f \in FramesByBatch(b)' : frames'[f].status = "pending"
        /\ batches'[b].status = "uploaded"
    BY <2>1, UploadedFrames
  <2>3. ~Audited("capture.validate", b)'
    BY <1>1, <2>2 DEF BatchAudited
  <2>4. TicketsOfBatch(b)' = {}
    BY <1>2, <2>1 DEF TicketsOfBatch, LoopTyped, ReferencesHold
  <2> QED BY <2>2, <2>3, <2>4 DEF Fate
<1>3. ASSUME b \in DOMAIN batches PROVE Fate(b)
  BY <1>3 DEF FatesInv
<1>4. CASE b \in DOMAIN batches /\ Rejected(b) /\ UNCHANGED tickets
  <2>1. ~Audited("capture.validate", b)
    BY <1>1, <1>4 DEF BatchAudited, Rejected
  <2>2. TicketsOfBatch(b)' = {}
    BY <1>3, <1>4, <2>1 DEF Fate, TicketsOfBatch
  <2>3. batches'[b].status = "rejected"
    <3>1. batches[b] \in Batch
      BY <1>4 DEF LoopTyped, LoopTypeOK, IsTable
    <3> QED BY <1>4, <3>1 DEF Rejected, Batch
  <2>4. ~Audited("capture.validate", b)'
    BY <1>1, <2>3 DEF BatchAudited
  <2>5. \A f \in FramesByBatch(b)' : frames'[f].status = "dropped"
    BY <1>4 DEF Rejected, FramesByBatch
  <2> QED BY <2>2, <2>4, <2>5 DEF Fate
<1>5. CASE /\ b \in DOMAIN batches /\ Validated(b)
           /\ \/ Low(b) = {} /\ UNCHANGED tickets
              \/ Low(b) # {} /\ \E t : TicketOpened(b, t)
  <2>1. ~Audited("capture.validate", b)
    BY <1>1, <1>5 DEF BatchAudited, Validated
  <2>2. TicketsOfBatch(b) = {}
    BY <1>3, <1>5, <2>1 DEF Fate
  <2>3. Audited("capture.validate", b)'
    BY <1>1, <1>5, ValidatedIsValidated DEF BatchAudited
  <2>4. FramesByBatch(b)' = FramesByBatch(b) /\ Low(b)' = Low(b) /\ Good(b)' = Good(b)
    <3>1. FramesByBatch(b)' = FramesByBatch(b)
      BY <1>5 DEF Validated, FramesByBatch
    <3>2. \A f \in FramesByBatch(b) : frames'[f].quality = frames[f].quality
      BY <1>5 DEF Validated, FramesByBatch
    <3> QED BY <3>1, <3>2, QualityStays
  <2>5. /\ \A f \in Good(b) : frames'[f].status = "accepted"
        /\ \A f \in Low(b) : frames'[f].status = "quarantined"
    BY <1>5 DEF Validated
  <2>6. CASE Low(b) = {} /\ UNCHANGED tickets
    <3>1. TicketsOfBatch(b)' = {} /\ Low(b)' = {}
      BY <2>2, <2>4, <2>6 DEF TicketsOfBatch
    <3>2. \A f \in Good(b)' : frames'[f].status = "accepted"
      BY <2>4, <2>5
    <3> QED BY <2>3, <3>1, <3>2 DEF Fate
  <2>7. ASSUME Low(b) # {}, NEW t, TicketOpened(b, t) PROVE Fate(b)'
    <3>1. TicketsOfBatch(b)' = {t}
      <4>1. /\ DOMAIN tickets' = DOMAIN tickets \cup {t}
            /\ \A other \in DOMAIN tickets : tickets'[other] = tickets[other]
            /\ tickets'[t].batch = b
        BY <2>7 DEF TicketOpened
      <4> QED BY <2>2, <4>1 DEF TicketsOfBatch
    <3>2. ~RequiresDatasetHold(tickets'[t].disposition)
      BY <2>7 DEF TicketOpened, RequiresDatasetHold
    <3>3. ~Held(b)'
      BY <3>1, <3>2 DEF Held, RequiresDatasetHold
    <3> QED BY <2>3, <2>4, <2>5, <2>7, <3>1, <3>3 DEF Fate
  <2> QED BY <1>5, <2>6, <2>7
<1>6. CASE /\ b \in DOMAIN batches
           /\ batches'[b] = batches[b] \/ batches'[b].status = "archived"
  <2>1. /\ TicketsOfBatch(b)' = TicketsOfBatch(b)
        /\ FateStays(b) \/ FateIsDecided(b)
        /\ FramesByBatch(b)' = FramesByBatch(b)
        /\ Audited("capture.validate", b)' <=> Audited("capture.validate", b)
    BY <1>6, FateMoves, FramesStay, ValidationStays
  <2>2. Low(b)' = Low(b) /\ Good(b)' = Good(b)
    <3>1. \A f \in FramesByBatch(b) : frames'[f].quality = frames[f].quality
      BY <1>6, FramesStay
    <3> QED BY <2>1, <3>1, QualityStays
  <2>3. Low(b) \subseteq FramesByBatch(b) /\ Good(b) \subseteq FramesByBatch(b)
    BY DEF Low, Good
  <2>4. CASE FateStays(b)
    <3>1. Held(b)' <=> Held(b)
      BY <2>1, <2>4 DEF Held, FateStays, RequiresDatasetHold
    <3>2. \A f \in FramesByBatch(b) : frames'[f].status = frames[f].status
      BY <2>4 DEF FateStays
    <3> QED BY <1>3, <1>6, <2>1, <2>2, <2>3, <3>1, <3>2 DEF Fate
  <2>5. CASE FateIsDecided(b)
    <3>1. PICK t \in TicketsOfBatch(b) :
            /\ Pending(t)
            /\ \/ RequiresDatasetHold(tickets'[t].disposition) /\ HoldApplied(b)
               \/ ~RequiresDatasetHold(tickets'[t].disposition) /\ UNCHANGED frames
      BY <2>5 DEF FateIsDecided
    <3>2. Audited("capture.validate", b) /\ TicketsOfBatch(b) = {t} /\ Low(b) # {}
      BY <1>3, <1>6, <3>1 DEF Fate
    <3>3. ~Held(b)
      <4>1. tickets[t].disposition = ""
        BY <3>1 DEF PendingInv, TicketsOfBatch
      <4> QED BY <3>2, <4>1 DEF Held, RequiresDatasetHold
    <3>4. /\ \A f \in Good(b) : frames[f].status = "accepted"
          /\ \A f \in Low(b) : frames[f].status = "quarantined"
      BY <1>3, <1>6, <3>2, <3>3 DEF Fate
    <3>5. Held(b)' <=> RequiresDatasetHold(tickets'[t].disposition)
      BY <2>1, <3>2 DEF Held, RequiresDatasetHold
    <3>6. CASE RequiresDatasetHold(tickets'[t].disposition) /\ HoldApplied(b)
      <4>1. \A f \in Good(b) : frames'[f].status = "accepted"
        BY <2>3, <3>4, <3>6 DEF HoldApplied, FramesByBatch
      <4>2. \A f \in Low(b) : frames'[f].status = "dropped"
        BY <2>3, <3>4, <3>6 DEF HoldApplied, FramesByBatch
      <4> QED BY <2>1, <2>2, <3>2, <3>5, <3>6, <4>1, <4>2 DEF Fate
    <3>7. CASE ~RequiresDatasetHold(tickets'[t].disposition) /\ UNCHANGED frames
      BY <2>1, <2>2, <3>2, <3>4, <3>5, <3>7 DEF Fate
    <3> QED BY <3>1, <3>6, <3>7
  <2> QED BY <2>1, <2>4, <2>5
<1>7. CASE b \in DOMAIN batches /\ Archived(b)
  <2>1. batches[b] \in Batch
    BY <1>7 DEF LoopTyped, LoopTypeOK, IsTable
  <2>2. batches'[b].status = "archived"
    BY <1>7, <2>1 DEF Archived, Batch
  <2> QED BY <1>6, <1>7, <2>2
<1> QED BY <1>2, <1>4, <1>5, <1>6, <1>7, OneBatchChanges

LEMMA AlwaysFated == Spec => [](LoopTyped /\ BatchesAudited /\ PendingInv /\ FatesInv)
<1>1. Init => BatchesAudited /\ PendingInv /\ FatesInv
  BY DEF Init, EmptyTable, BatchesAudited, BatchAudited, PendingInv, FatesInv, Audited
<1> QED BY <1>1, AlwaysTyped, BatchesAuditedNext, PendingNext, FatesNext, PTL DEF Spec

(* The fate of every frame is decided by the validation of its batch and by the one
   ticket of the batch, whatever is uploaded, decided or archived in between: a
   disposition of another batch, a second validation or a rejection never reaches
   it. *)
THEOREM QuarantineIsKept == Spec => []QuarantineIsDecided
<1>1. LoopTyped /\ FatesInv => QuarantineIsDecided
  <2> SUFFICES ASSUME LoopTyped, FatesInv, NEW b \in DOMAIN batches
               PROVE  LET low == Low(b)
                          validated == Audited("capture.validate", b)
                      IN  /\ Cardinality(TicketsOfBatch(b)) = IF validated /\ low # {} THEN 1 ELSE 0
                          /\ validated =>
                               /\ \A f \in FramesByBatch(b) \ low : Accepted(f)
                               /\ \A f \in low :
                                    frames[f].status = IF Held(b) THEN "dropped" ELSE "quarantined"
                          /\ ~validated =>
                               \A f \in FramesByBatch(b) : frames[f].status \in {"pending", "dropped"}
    BY DEF QuarantineIsDecided, Low, Held
  <2>1. Fate(b)
    BY DEF FatesInv
  <2>2. /\ Audited("capture.validate", b) /\ Low(b) # {} => Cardinality(TicketsOfBatch(b)) = 1
        /\ ~(Audited("capture.validate", b) /\ Low(b) # {}) => Cardinality(TicketsOfBatch(b)) = 0
    BY <2>1, FS_EmptySet, FS_Singleton DEF Fate
  <2>3. Audited("capture.validate", b) => \A f \in FramesByBatch(b) \ Low(b) : Accepted(f)
    BY <2>1 DEF Fate, Good, Accepted, FramesByBatch
  <2> QED BY <2>1, <2>2, <2>3 DEF Fate
<1> QED BY <1>1, AlwaysFated, PTL

-----------------------------------------------------------------------------
(* Sealed data and archived batches *)

(* What SealedDataIsTriaged says of one data set. *)
SealedIsTriaged(d) ==
  /\ datasets[d].members # {}
  /\ datasets[d].members = datasets[d].digest
  /\ \A f \in datasets[d].members :
       /\ f \in DOMAIN frames
       /\ frames[f].status = "accepted"
       /\ frames[f].quality >= MinimumAcceptedQuality
       /\ batches[f[1]].status \in {"validated", "archived"}
       /\ \A t \in TicketsOfBatch(f[1]) : ~Pending(t)

SealedInv == \A d \in DatasetIds : Sealed(d) => SealedIsTriaged(d)

(* A batch whose questions are all answered keeps its frames and its tickets. *)
LEMMA AnsweredStays ==
  ASSUME LoopTyped, [Next]_vars, NEW b \in DOMAIN batches,
         batches[b].status \in {"validated", "archived"},
         \A t \in TicketsOfBatch(b) : ~Pending(t)
  PROVE  /\ b \in DOMAIN batches'
         /\ batches'[b] = batches[b] \/ batches'[b].status = "archived"
         /\ FramesByBatch(b)' = FramesByBatch(b)
         /\ \A f \in FramesByBatch(b) : frames'[f] = frames[f]
         /\ TicketsOfBatch(b)' = TicketsOfBatch(b)
         /\ \A t \in TicketsOfBatch(b) : tickets'[t] = tickets[t] /\ ~Pending(t)'
<1>1. /\ b \in DOMAIN batches'
      /\ batches'[b] = batches[b] \/ batches'[b].status = "archived"
  BY BatchesMoveForward
<1>2. /\ TicketsOfBatch(b)' = TicketsOfBatch(b)
      /\ \A t \in TicketsOfBatch(b) : tickets'[t] = tickets[t]
      /\ FateStays(b) \/ FateIsDecided(b)
  BY <1>1, FateMoves
<1>3. FateStays(b)
  BY <1>2 DEF FateIsDecided
<1>4. FramesByBatch(b)' = FramesByBatch(b)
  BY <1>1, FramesStay
<1> QED BY <1>1, <1>2, <1>3, <1>4 DEF FateStays, Pending

(* A sealed data set is released, or stays. *)
LEMMA SealedStays ==
  ASSUME LoopTyped, [Next]_vars, NEW d, Sealed(d)
  PROVE  /\ Sealed(d)'
         /\ datasets[d].status = "released" => datasets'[d].status = "released"
         /\ datasets'[d].members = datasets[d].members
         /\ datasets'[d].digest = datasets[d].digest
<1>1. d \in DOMAIN datasets /\ datasets[d].status \in {"sealed", "released"}
  BY DEF Sealed
<1>2. ASSUME UNCHANGED datasets
      PROVE  /\ Sealed(d)'
             /\ datasets[d].status = "released" => datasets'[d].status = "released"
             /\ datasets'[d].members = datasets[d].members
             /\ datasets'[d].digest = datasets[d].digest
  BY <1>1, <1>2 DEF Sealed
<1>3. ASSUME NEW x, DatasetCreated(x) \/ Curated(x) \/ DatasetSealed(x) \/ DatasetReleased(x)
      PROVE  /\ Sealed(d)'
             /\ datasets[d].status = "released" => datasets'[d].status = "released"
             /\ datasets'[d].members = datasets[d].members
             /\ datasets'[d].digest = datasets[d].digest
  <2>1. CASE d # x
    BY <1>1, <1>3, <2>1 DEF Sealed, DatasetCreated, Curated, DatasetSealed, DatasetReleased
  <2>2. CASE d = x
    BY <1>1, <1>3, <2>2 DEF Sealed, DatasetCreated, Curated, DatasetSealed, DatasetReleased
  <2> QED BY <2>1, <2>2
<1>4. CASE DatasetIsCreated \/ DatasetIsCurated \/ DatasetIsSealed \/ DatasetIsReleased
  BY <1>3, <1>4 DEF DatasetIsCreated, DatasetIsCurated, DatasetIsSealed, DatasetIsReleased
<1>5. ASSUME \/ OnlyUploadsChange \/ OutsideMoves \/ EscalateOverdueTriage
             \/ BatchIsUploaded \/ BatchIsValidated \/ BatchIsRejected \/ BatchIsArchived
             \/ TicketIsAssigned \/ TicketIsInvestigated \/ TicketIsDisposed
      PROVE  UNCHANGED datasets
  BY <1>5 DEF OnlyUploadsChange, tables, OutsideMoves, EscalateOverdueTriage, BatchIsUploaded,
              BatchIsValidated, BatchIsRejected, BatchIsArchived, TicketIsAssigned,
              TicketIsInvestigated, TicketIsDisposed
<1> QED BY <1>2, <1>4, <1>5, WhatStepsDo

(* A data set becomes sealed by its sealing, which changes nothing else. *)
LEMMA BecomesSealed ==
  ASSUME LoopTyped, [Next]_vars, NEW d, ~Sealed(d), Sealed(d)'
  PROVE  DatasetSealed(d) /\ UNCHANGED <<batches, frames, tickets>>
<1>1. ASSUME UNCHANGED datasets PROVE FALSE
  BY <1>1 DEF Sealed
<1>2. ASSUME NEW x, DatasetCreated(x) \/ Curated(x) \/ DatasetReleased(x) PROVE FALSE
  <2>1. CASE d # x
    BY <1>2, <2>1 DEF Sealed, DatasetCreated, Curated, DatasetReleased
  <2>2. CASE d = x
    BY <1>2, <2>2 DEF Sealed, DatasetCreated, Curated, DatasetReleased
  <2> QED BY <2>1, <2>2
<1>3. CASE DatasetIsSealed
  <2>1. PICK x \in DatasetIds : DatasetSealed(x)
    BY <1>3 DEF DatasetIsSealed
  <2>2. d = x
    BY <2>1 DEF Sealed, DatasetSealed
  <2> QED BY <1>3, <2>1, <2>2 DEF DatasetIsSealed
<1>4. ~(DatasetIsCreated \/ DatasetIsCurated \/ DatasetIsReleased)
  BY <1>2 DEF DatasetIsCreated, DatasetIsCurated, DatasetIsReleased
<1>5. ASSUME \/ OnlyUploadsChange \/ OutsideMoves \/ EscalateOverdueTriage
             \/ BatchIsUploaded \/ BatchIsValidated \/ BatchIsRejected \/ BatchIsArchived
             \/ TicketIsAssigned \/ TicketIsInvestigated \/ TicketIsDisposed
      PROVE  UNCHANGED datasets
  BY <1>5 DEF OnlyUploadsChange, tables, OutsideMoves, EscalateOverdueTriage, BatchIsUploaded,
              BatchIsValidated, BatchIsRejected, BatchIsArchived, TicketIsAssigned,
              TicketIsInvestigated, TicketIsDisposed
<1> QED BY <1>1, <1>3, <1>4, <1>5, WhatStepsDo

LEMMA SealedNext == LoopTyped /\ SealedInv /\ [Next]_vars => SealedInv'
<1> SUFFICES ASSUME LoopTyped, SealedInv, [Next]_vars, NEW d \in DatasetIds, Sealed(d)'
             PROVE  SealedIsTriaged(d)'
  BY DEF SealedInv
<1>1. CASE Sealed(d)
  <2>1. SealedIsTriaged(d)
    BY <1>1 DEF SealedInv
  <2>2. datasets'[d].members = datasets[d].members /\ datasets'[d].digest = datasets[d].digest
    BY <1>1, SealedStays
  <2>3. ASSUME NEW f \in datasets[d].members
        PROVE  /\ f \in DOMAIN frames'
               /\ frames'[f] = frames[f]
               /\ batches'[f[1]].status \in {"validated", "archived"}
               /\ \A t \in TicketsOfBatch(f[1])' : ~Pending(t)'
    <3>1. PICK b : b = f[1]
      OBVIOUS
    <3>2. f \in FramesByBatch(b) /\ b \in DOMAIN batches
      BY <2>1, <3>1 DEF SealedIsTriaged, FramesByBatch, LoopTyped, ReferencesHold
    <3>3. /\ batches[b].status \in {"validated", "archived"}
          /\ \A t \in TicketsOfBatch(b) : ~Pending(t)
      BY <2>1, <3>1 DEF SealedIsTriaged
    <3>4. /\ batches'[b] = batches[b] \/ batches'[b].status = "archived"
          /\ FramesByBatch(b)' = FramesByBatch(b)
          /\ \A x \in FramesByBatch(b) : frames'[x] = frames[x]
          /\ TicketsOfBatch(b)' = TicketsOfBatch(b)
          /\ \A t \in TicketsOfBatch(b) : ~Pending(t)'
      BY <3>2, <3>3, AnsweredStays
    <3>5. f \in DOMAIN frames'
      BY <3>2, <3>4 DEF FramesByBatch
    <3> QED BY <3>1, <3>2, <3>3, <3>4, <3>5
  <2> QED BY <2>1, <2>2, <2>3 DEF SealedIsTriaged
<1>2. CASE ~Sealed(d)
  <2>1. DatasetSealed(d) /\ UNCHANGED <<batches, frames, tickets>>
    BY <1>2, BecomesSealed
  <2>2. /\ datasets'[d].members = datasets[d].members
        /\ datasets'[d].digest = datasets[d].members
        /\ datasets[d].members # {}
        /\ \A f \in datasets[d].members :
             Eligible(f) /\ PendingByDrive(batches[f[1]].drive) = {}
    BY <2>1 DEF DatasetSealed, CanSeal
  <2>3. ASSUME NEW f \in datasets[d].members
        PROVE  /\ f \in DOMAIN frames
               /\ frames[f].status = "accepted"
               /\ frames[f].quality >= MinimumAcceptedQuality
               /\ batches[f[1]].status = "validated"
               /\ \A t \in TicketsOfBatch(f[1]) : ~Pending(t)
    <3>1. Eligible(f) /\ PendingByDrive(batches[f[1]].drive) = {}
      BY <2>2
    <3>2. \A t \in TicketsOfBatch(f[1]) : ~Pending(t)
      BY <3>1 DEF TicketsOfBatch, PendingByDrive, LoopTyped, ReferencesHold
    <3> QED BY <3>1, <3>2 DEF Eligible
  <2>4. /\ TicketsOfBatch(d)' = TicketsOfBatch(d)
        /\ \A b : TicketsOfBatch(b)' = TicketsOfBatch(b)
        /\ \A t : Pending(t)' <=> Pending(t)
    BY <2>1 DEF TicketsOfBatch, Pending
  <2> QED BY <2>1, <2>2, <2>3, <2>4 DEF SealedIsTriaged
<1> QED BY <1>1, <1>2

LEMMA AlwaysSealed == Spec => [](LoopTyped /\ PendingInv /\ SealedInv)
<1>1. Init => PendingInv /\ SealedInv
  BY DEF Init, EmptyTable, PendingInv, SealedInv, Sealed
<1> QED BY <1>1, AlwaysTyped, PendingNext, SealedNext, PTL DEF Spec

(* Sealed and released data sets hold only frames that validation accepted, of batches
   whose every ticket has a conclusion, and are the data their digest was taken of:
   at the moment of the seal and for ever after, though release does not look again. *)
THEOREM SealedDataStaysTriaged == Spec => []SealedDataIsTriaged
<1>1. SealedInv => SealedDataIsTriaged
  BY DEF SealedInv, SealedIsTriaged, SealedDataIsTriaged, Accepted
<1> QED BY <1>1, AlwaysSealed, PTL

(* No step of triage, curation or a job reaches into a data set once it is sealed:
   neither its row, nor its members, nor one of their frames changes. *)
THEOREM SealsAreFinal == Spec => SealIsFinal
<1> DEFINE SealedStay ==
             \A d \in DatasetIds : Sealed(d) =>
               /\ Sealed(d)'
               /\ datasets[d].status = "released" => datasets'[d].status = "released"
               /\ datasets'[d].members = datasets[d].members
               /\ datasets'[d].digest = datasets[d].digest
               /\ \A f \in datasets[d].members : frames'[f] = frames[f]
<1>1. LoopTyped /\ SealedInv /\ [Next]_vars => [SealedStay]_vars
  <2> SUFFICES ASSUME LoopTyped, SealedInv, [Next]_vars, NEW d \in DatasetIds, Sealed(d),
                      NEW f \in datasets[d].members
               PROVE  frames'[f] = frames[f]
    <3>1. \A d \in DatasetIds : Sealed(d) /\ LoopTyped /\ [Next]_vars =>
            /\ Sealed(d)'
            /\ datasets[d].status = "released" => datasets'[d].status = "released"
            /\ datasets'[d].members = datasets[d].members
            /\ datasets'[d].digest = datasets[d].digest
      BY SealedStays
    <3> QED BY <3>1
  <2>1. PICK b : b = f[1]
    OBVIOUS
  <2>2. /\ f \in DOMAIN frames
        /\ batches[b].status \in {"validated", "archived"}
        /\ \A t \in TicketsOfBatch(b) : ~Pending(t)
    BY <2>1 DEF SealedInv, SealedIsTriaged
  <2>3. f \in FramesByBatch(b) /\ b \in DOMAIN batches
    BY <2>1, <2>2 DEF FramesByBatch, LoopTyped, ReferencesHold
  <2> QED BY <2>2, <2>3, AnsweredStays
<1>2. Spec => [][SealedStay]_vars
  <2> HIDE DEF SealedStay
  <2> QED BY <1>1, AlwaysSealed, PTL DEF Spec
<1> QED BY <1>2 DEF SealIsFinal

(* Nothing reaches an archived batch any more: its row, its frames and its tickets
   stay, since it was archived with no question of its drive open. *)
THEOREM ArchivesAreFinal == Spec => ArchivedIsFinal
<1> DEFINE ArchivedStay ==
             \A b \in DOMAIN batches : batches[b].status = "archived" =>
               /\ batches'[b] = batches[b]
               /\ \A f \in FramesByBatch(b) : frames'[f] = frames[f]
               /\ TicketsOfBatch(b)' = TicketsOfBatch(b)
               /\ \A t \in TicketsOfBatch(b) : tickets'[t] = tickets[t]
<1>1. LoopTyped /\ PendingInv /\ [Next]_vars => [ArchivedStay]_vars
  <2> SUFFICES ASSUME LoopTyped, PendingInv, [Next]_vars, NEW b \in DOMAIN batches,
                      batches[b].status = "archived"
               PROVE  /\ batches'[b] = batches[b]
                      /\ \A f \in FramesByBatch(b) : frames'[f] = frames[f]
                      /\ TicketsOfBatch(b)' = TicketsOfBatch(b)
                      /\ \A t \in TicketsOfBatch(b) : tickets'[t] = tickets[t]
    OBVIOUS
  <2>1. batches'[b] = batches[b]
    BY BatchesMoveForward
  <2>2. \A t \in TicketsOfBatch(b) : ~Pending(t)
    BY DEF PendingInv
  <2> QED BY <2>1, <2>2, AnsweredStays
<1>2. Spec => [][ArchivedStay]_vars
  <2> HIDE DEF ArchivedStay
  <2> QED BY <1>1, AlwaysSealed, PTL DEF Spec
<1> QED BY <1>2 DEF ArchivedIsFinal
=============================================================================
