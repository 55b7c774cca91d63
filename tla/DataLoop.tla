------------------------------ MODULE DataLoop ------------------------------
(***************************************************************************)
(* The data loop: internal/service/dataloop over its tables, the entities  *)
(* of internal/domain it works on, and the two jobs of internal/worker     *)
(* that change its tables.                                                 *)
(*                                                                         *)
(* A drive uploads batches of frames; validation accepts the good frames   *)
(* of a batch, quarantines the bad ones and opens a ticket for them; the   *)
(* ticket is decided; accepted frames are curated into data sets, which    *)
(* are sealed and released.  Each action is the transaction of a handler   *)
(* (a refused one writes nothing), except that UploadBatch looks its key   *)
(* up before its transaction and so takes several steps.                   *)
(*                                                                         *)
(* Quality is in percent and moments are in hours.  Names, reasons,        *)
(* conclusions and the moments nothing depends on are left out.            *)
(***************************************************************************)
EXTENDS Tables, FiniteSets, FiniteSetsExt, Sequences

CONSTANTS
  FleetAdmins, SafetyOperators,
  DriveIds,          \* the ids drives may get
  UploadKeys,
  Requests,          \* what uploads may ask for
  Selections,        \* the sets of frames that may be asked into a data set
  Conclusions,       \* the dispositions that tickets may be given
  Uploads,           \* UploadBatch requests in flight at a time
  MaxFrames,         \* frames per upload: 500
  EscalationPage,    \* tickets per escalation: domain.DefaultPageSize, 20
  \* bounds of the model
  Moments, MaxBatches, MaxDatasets

Operators  == FleetAdmins \cup SafetyOperators
BatchIds   == 1..MaxBatches
TicketIds  == 1..MaxBatches
DatasetIds == 1..MaxDatasets
FrameIds   == BatchIds \X (1..MaxFrames)    \* the batch, the place in it

Percent == 0..100

Dispositions == {"software_bug", "sensor_fault", "environment", "false_trigger"}

ASSUME LoopRolesDisjoint == FleetAdmins \cap SafetyOperators = {}
ASSUME LoopBounds == {MaxFrames, EscalationPage, MaxBatches, MaxDatasets} \subseteq Nat
ASSUME MomentsTyped == 0 \in Moments /\ Moments \subseteq Nat

(* intact: the manifest matches the frames, no sequence occurs twice, and every
   frame passes CaptureFrame.Validate. *)
ASSUME RequestsTyped ==
  \A asked \in Requests :
    /\ DOMAIN asked = {"actor", "drive", "key", "quality", "intact"}
    /\ asked.actor \in Operators
    /\ asked.key \in UploadKeys
    /\ asked.quality \in Seq(Percent)
    /\ asked.intact \in BOOLEAN

ASSUME SelectionsTyped == \A asked \in Selections : asked \subseteq FrameIds
ASSUME ConclusionsTyped == Conclusions \subseteq Dispositions

VARIABLES
  batches,   \* capture_batches
  frames,    \* capture_frames
  tickets,   \* triage_tickets
  datasets,  \* datasets, each with its rows of dataset_members
  audit,     \* the audit events written so far
  uploads,   \* the UploadBatch requests in flight
  driveOperator,  \* of drive_sessions, which the fleet writes: drive -> operator
  now        \* clock.Now()

tables  == <<batches, frames, tickets, datasets, audit>>
outside == <<driveOperator, now>>    \* what the data loop reads and others change
vars    == <<tables, uploads, outside>>

-----------------------------------------------------------------------------
(* Entities *)

BatchStatus == {"uploaded", "validating", "validated", "rejected", "archived"}

BatchTransitions ==
  { <<"uploaded", "validating">>,   <<"uploaded", "rejected">>,
    <<"validating", "validated">>,  <<"validating", "rejected">>,
    <<"validated", "archived">>,    <<"rejected", "archived">> }

TicketStatus == {"open", "investigating", "disposed", "archived"}

TicketTransitions ==
  { <<"open", "investigating">>,      <<"open", "disposed">>,
    <<"investigating", "disposed">>,  <<"disposed", "archived">> }

DatasetStatus == {"building", "sealed", "released", "retired"}

DatasetTransitions ==
  { <<"building", "sealed">>,  <<"building", "retired">>,
    <<"sealed", "released">>,  <<"sealed", "retired">>,
    <<"released", "retired">> }

FrameStatus == {"pending", "accepted", "quarantined", "dropped"}

RequiresDatasetHold(disposition) == disposition \in {"sensor_fault", "false_trigger"}

MinimumAcceptedQuality == 55

(* The lowest severity a quality stands for; ValidateBatch starts from 1. *)
SeverityForQuality(quality) ==
  CASE quality < 15 -> 5
    [] quality \in 15..29 -> 4
    [] quality \in 30..44 -> 3
    [] OTHER -> 2

TriageDeadline(opened, severity) ==
  opened + CASE severity = 5 -> 4 [] severity = 4 -> 12 [] severity = 3 -> 24 [] OTHER -> 72

(* acceptedCount and frameCount are what the row says, members what
   dataset_members says; digest, the hash over the members, is the set it was
   taken of. *)
Batch   == [drive : DriveIds, key : UploadKeys, status : BatchStatus,
            frameCount : 1..MaxFrames, acceptedCount : 0..MaxFrames]
Frame   == [quality : Percent, status : FrameStatus]
Ticket  == [batch : BatchIds, drive : DriveIds, status : TicketStatus,
            disposition : Dispositions \cup {""}, severity : 1..5, assigned : BOOLEAN,
            deadline : Nat]
Dataset == [status : DatasetStatus, members : SUBSET FrameIds, frameCount : Nat,
            digest : SUBSET FrameIds]

Idle   == [phase |-> "idle"]
Upload == {Idle}
            \cup [phase : {"pending"}, asked : Requests]
            \cup [phase : {"answered"}, asked : Requests, id : BatchIds]

Record(action, object) == audit' = audit \cup {[action |-> action, object |-> object]}

-----------------------------------------------------------------------------
(* Queries of the repositories *)

BatchByUploadKey(key) == {b \in DOMAIN batches : batches[b].key = key}

FramesByBatch(b) == {f \in DOMAIN frames : f[1] = b}

Pending(t) == tickets[t].status \in {"open", "investigating"}

PendingByDrive(drive) == {t \in DOMAIN tickets : tickets[t].drive = drive /\ Pending(t)}

(* verdict maps some frames to the status that each of them gets. *)
UpdateFrameStatus(verdict) ==
  frames' = [f \in DOMAIN frames |->
               IF f \in DOMAIN verdict THEN [frames[f] EXCEPT !.status = verdict[f]] ELSE frames[f]]

-----------------------------------------------------------------------------
(* UploadBatch *)

Acceptable(asked) == asked.actor \in SafetyOperators /\ Len(asked.quality) \in 1..MaxFrames

(* Up to the lookup of the key, on a connection of its own. *)
BeginUpload(u, asked) ==
  /\ uploads[u] = Idle
  /\ Acceptable(asked)
  /\ \/ \E b \in BatchByUploadKey(asked.key) :
          uploads' = [uploads EXCEPT ![u] = [phase |-> "answered", asked |-> asked, id |-> b]]
     \/ /\ BatchByUploadKey(asked.key) = {}
        /\ uploads' = [uploads EXCEPT ![u] = [phase |-> "pending", asked |-> asked]]
  /\ UNCHANGED <<tables, outside>>

(* Mutant: no unique index on upload_key. *)
CanUpload_NoIndex(asked) ==
  /\ asked.drive \in DOMAIN driveOperator
  /\ driveOperator[asked.drive] = asked.actor
  /\ asked.intact

(* The transaction goes through.  That the key is unused is up to the index. *)
CanUpload(asked) ==
  /\ asked.drive \in DOMAIN driveOperator
  /\ driveOperator[asked.drive] = asked.actor
  /\ asked.intact
  /\ BatchByUploadKey(asked.key) = {}

CommitUpload(u) ==
  /\ uploads[u].phase = "pending"
  /\ CanUpload(uploads[u].asked)
  /\ \E b \in FreshId(batches, BatchIds) :
       LET asked == uploads[u].asked
           added == {b} \X DOMAIN asked.quality
       IN  /\ batches' = Insert(batches, b,
                [drive |-> asked.drive, key |-> asked.key, status |-> "uploaded",
                 frameCount |-> Len(asked.quality), acceptedCount |-> 0])
           /\ frames' = [f \in DOMAIN frames \cup added |->
                IF f \in added THEN [quality |-> asked.quality[f[2]], status |-> "pending"]
                               ELSE frames[f]]
           /\ uploads' = [uploads EXCEPT ![u] = [phase |-> "answered", asked |-> asked, id |-> b]]
           /\ Record("capture.upload", b)
  /\ UNCHANGED <<tickets, datasets, outside>>

(* The transaction is refused or its context ends: the caller gets an error. *)
FailUpload(u) ==
  /\ uploads[u].phase = "pending"
  /\ uploads' = [uploads EXCEPT ![u] = Idle]
  /\ UNCHANGED <<tables, outside>>

ReplyToUpload(u) ==
  /\ uploads[u].phase = "answered"
  /\ uploads' = [uploads EXCEPT ![u] = Idle]
  /\ UNCHANGED <<tables, outside>>

-----------------------------------------------------------------------------
(* ValidateBatch, RejectBatch *)

(* The ticket of the low frames of batch b, if there are any. *)
OpenTicket(b, low) ==
  LET severity == Max({SeverityForQuality(frames[f].quality) : f \in low} \cup {1})
  IN  \/ low = {} /\ UNCHANGED tickets
      \/ /\ low # {}
         /\ \E t \in FreshId(tickets, TicketIds) :
              tickets' = Insert(tickets, t,
                [batch |-> b, drive |-> batches[b].drive, status |-> "open", disposition |-> "",
                 severity |-> severity, assigned |-> FALSE,
                 deadline |-> TriageDeadline(now, severity)])

(* The row passes through validating on its way to validated. *)
ValidateBatch(actor, b) ==
  /\ actor \in Operators
  /\ b \in DOMAIN batches
  /\ <<batches[b].status, "validating">> \in BatchTransitions
  /\ <<"validating", "validated">> \in BatchTransitions
  /\ LET low == {f \in FramesByBatch(b) : frames[f].quality < MinimumAcceptedQuality}
         good == FramesByBatch(b) \ low
     IN  /\ UpdateFrameStatus([f \in FramesByBatch(b) |->
              IF f \in good THEN "accepted" ELSE "quarantined"])
         /\ batches' = [batches EXCEPT ![b].status = "validated",
                                       ![b].acceptedCount = Cardinality(good)]
         /\ OpenTicket(b, low)
  /\ Record("capture.validate", b)
  /\ UNCHANGED <<datasets, uploads, outside>>

RejectBatch(actor, b) ==
  /\ actor \in Operators
  /\ b \in DOMAIN batches
  /\ <<batches[b].status, "rejected">> \in BatchTransitions
  /\ UpdateFrameStatus([f \in FramesByBatch(b) |-> "dropped"])
  /\ batches' = [batches EXCEPT ![b].status = "rejected", ![b].acceptedCount = 0]
  /\ Record("capture.reject", b)
  /\ UNCHANGED <<tickets, datasets, uploads, outside>>

-----------------------------------------------------------------------------
(* Triage *)

(* The assignee may be any operator; no production code disables one. *)
AssignTicket(actor, t) ==
  /\ actor \in Operators
  /\ t \in DOMAIN tickets
  /\ Pending(t)
  /\ tickets' = [tickets EXCEPT ![t].assigned = TRUE]
  /\ Record("triage.assign", t)
  /\ UNCHANGED <<batches, frames, datasets, uploads, outside>>

StartInvestigation(actor, t) ==
  /\ actor \in Operators
  /\ t \in DOMAIN tickets
  /\ <<tickets[t].status, "investigating">> \in TicketTransitions
  /\ tickets[t].assigned
  /\ tickets' = [tickets EXCEPT ![t].status = "investigating"]
  /\ Record("triage.investigate", t)
  /\ UNCHANGED <<batches, frames, datasets, uploads, outside>>

(* Mutant: the accepted frames of the batch are dropped as well. *)
DropQuarantinedFrames_AllFrames(b) ==
  UpdateFrameStatus([f \in FramesByBatch(b) |-> "dropped"])

DropQuarantinedFrames(b) ==
  UpdateFrameStatus(
    [f \in {f \in FramesByBatch(b) : frames[f].status = "quarantined"} |-> "dropped"])

DisposeTicket(actor, t, disposition) ==
  /\ actor \in Operators
  /\ t \in DOMAIN tickets
  /\ <<tickets[t].status, "disposed">> \in TicketTransitions
  /\ tickets' = [tickets EXCEPT ![t].status = "disposed", ![t].disposition = disposition]
  /\ \/ RequiresDatasetHold(disposition) /\ DropQuarantinedFrames(tickets[t].batch)
     \/ ~RequiresDatasetHold(disposition) /\ UNCHANGED frames
  /\ Record("triage.dispose", t)
  /\ UNCHANGED <<batches, datasets, uploads, outside>>

-----------------------------------------------------------------------------
(* Data sets *)

(* EnsureFrameEligible *)
Eligible(f) ==
  /\ f \in DOMAIN frames
  /\ batches[f[1]].status = "validated"
  /\ frames[f].status = "accepted"
  /\ frames[f].quality >= MinimumAcceptedQuality

(* Mutant: EnsureMutable also lets a sealed data set through. *)
Mutable_Sealed(d) == d \in DOMAIN datasets /\ datasets[d].status \in {"building", "sealed"}

(* EnsureMutable *)
Mutable(d) == d \in DOMAIN datasets /\ datasets[d].status = "building"

CreateDataset(actor) ==
  /\ actor \in FleetAdmins
  /\ \E d \in FreshId(datasets, DatasetIds) :
       /\ datasets' = Insert(datasets, d,
            [status |-> "building", members |-> {}, frameCount |-> 0, digest |-> {}])
       /\ Record("dataset.create", d)
  /\ UNCHANGED <<batches, frames, tickets, uploads, outside>>

(* What AddMember and RemoveMember leave, and SyncFrameCount. *)
SetMembers(d, members) ==
  datasets' = [datasets EXCEPT ![d].members = members, ![d].frameCount = Cardinality(members)]

MaxMembersAdded == 200

(* Frames that are not eligible, or members already, are skipped. *)
AddFrames(actor, d, asked) ==
  /\ actor \in FleetAdmins
  /\ Cardinality(asked) \in 1..MaxMembersAdded
  /\ Mutable(d)
  /\ SetMembers(d, datasets[d].members \cup {f \in asked : Eligible(f)})
  /\ Record("dataset.add_frames", d)
  /\ UNCHANGED <<batches, frames, tickets, uploads, outside>>

(* Mutant: the count is not synchronised. *)
RemoveFrame_KeepsCount(actor, d, f) ==
  /\ actor \in FleetAdmins
  /\ Mutable(d)
  /\ f \in datasets[d].members
  /\ datasets' = [datasets EXCEPT ![d].members = @ \ {f}]
  /\ Record("dataset.remove_frame", d)
  /\ UNCHANGED <<batches, frames, tickets, uploads, outside>>

RemoveFrame(actor, d, f) ==
  /\ actor \in FleetAdmins
  /\ Mutable(d)
  /\ f \in datasets[d].members
  /\ SetMembers(d, datasets[d].members \ {f})
  /\ Record("dataset.remove_frame", d)
  /\ UNCHANGED <<batches, frames, tickets, uploads, outside>>

(* Mutant: the tickets are not looked at. *)
CanSeal_PendingTickets(d) ==
  /\ <<datasets[d].status, "sealed">> \in DatasetTransitions
  /\ datasets[d].members # {}
  /\ \A f \in datasets[d].members : Eligible(f)

CanSeal(d) ==
  /\ <<datasets[d].status, "sealed">> \in DatasetTransitions
  /\ datasets[d].members # {}
  /\ \A f \in datasets[d].members : Eligible(f) /\ PendingByDrive(batches[f[1]].drive) = {}

SealDataset(actor, d) ==
  /\ actor \in FleetAdmins
  /\ d \in DOMAIN datasets
  /\ CanSeal(d)
  /\ LET members == datasets[d].members
     IN  datasets' = [datasets EXCEPT ![d].status = "sealed", ![d].digest = members,
                                      ![d].frameCount = Cardinality(members)]
  /\ Record("dataset.seal", d)
  /\ UNCHANGED <<batches, frames, tickets, uploads, outside>>

ReleaseDataset(actor, d) ==
  /\ actor \in FleetAdmins
  /\ d \in DOMAIN datasets
  /\ <<datasets[d].status, "released">> \in DatasetTransitions
  /\ datasets[d].digest # {}
  /\ datasets' = [datasets EXCEPT ![d].status = "released"]
  /\ Record("dataset.release", d)
  /\ UNCHANGED <<batches, frames, tickets, uploads, outside>>

-----------------------------------------------------------------------------
(* Jobs: internal/worker/handlers.go *)

(* Mutant: the tickets are not looked at. *)
ArchiveBatch_PendingTickets(b) ==
  /\ b \in DOMAIN batches
  /\ <<batches[b].status, "archived">> \in BatchTransitions
  /\ batches' = [batches EXCEPT ![b].status = "archived"]
  /\ Record("capture.archive", b)
  /\ UNCHANGED <<frames, tickets, datasets, uploads, outside>>

(* For a batch that is archived already the job does nothing. *)
ArchiveBatch(b) ==
  /\ b \in DOMAIN batches
  /\ <<batches[b].status, "archived">> \in BatchTransitions
  /\ PendingByDrive(batches[b].drive) = {}
  /\ batches' = [batches EXCEPT ![b].status = "archived"]
  /\ Record("capture.archive", b)
  /\ UNCHANGED <<frames, tickets, datasets, uploads, outside>>

(* Mutant: no DueBefore in the filter. *)
Overdue_NotDue == {t \in DOMAIN tickets : Pending(t)}

Overdue == {t \in DOMAIN tickets : Pending(t) /\ tickets[t].deadline < now}


(* ORDER BY deadline_at, id *)
DueBefore(t, other) ==
  \/ tickets[t].deadline < tickets[other].deadline
  \/ tickets[t].deadline = tickets[other].deadline /\ t < other

(* LIMIT EscalationPage: as many as there are, at most a page, the first ones. *)
FirstPage ==
  {page \in SUBSET Overdue :
     /\ Cardinality(page) <= EscalationPage
     /\ Cardinality(page) < EscalationPage => page = Overdue
     /\ \A t \in page, other \in Overdue \ page : DueBefore(t, other)}

(* One audit event per ticket of the page; the tickets stay as they are. *)
EscalateOverdueTriage ==
  /\ \E page \in FirstPage :
       audit' = audit \cup {[action |-> "triage.escalated", object |-> t] : t \in page}
  /\ UNCHANGED <<batches, frames, tickets, datasets, uploads, outside>>

-----------------------------------------------------------------------------
(* The process stops and starts again on the same database. *)
Restart == uploads' = [u \in Uploads |-> Idle] /\ UNCHANGED <<tables, outside>>

(* The fleet starts a drive; it never changes its operator or removes it. *)
DriveStarts(operator) ==
  /\ \E d \in FreshId(driveOperator, DriveIds) :
       driveOperator' = Insert(driveOperator, d, operator)
  /\ UNCHANGED <<tables, uploads, now>>

Tick ==
  /\ \E moment \in Moments : moment > now /\ now' = moment
  /\ UNCHANGED <<tables, uploads, driveOperator>>

Init ==
  /\ batches = EmptyTable
  /\ frames = EmptyTable
  /\ tickets = EmptyTable
  /\ datasets = EmptyTable
  /\ audit = {}
  /\ uploads = [u \in Uploads |-> Idle]
  /\ driveOperator = EmptyTable
  /\ now = 0

UploadStep(u) ==
  \/ \E asked \in Requests : BeginUpload(u, asked)
  \/ CommitUpload(u)
  \/ FailUpload(u)
  \/ ReplyToUpload(u)

BatchStep(actor) ==
  \E b \in BatchIds : ValidateBatch(actor, b) \/ RejectBatch(actor, b)

TriageStep(actor) ==
  \E t \in TicketIds :
    \/ AssignTicket(actor, t)
    \/ StartInvestigation(actor, t)
    \/ \E disposition \in Conclusions : DisposeTicket(actor, t, disposition)

DatasetStep(actor) ==
  \/ CreateDataset(actor)
  \/ \E d \in DatasetIds :
       \/ \E asked \in Selections : AddFrames(actor, d, asked)
       \/ \E f \in FrameIds : RemoveFrame(actor, d, f)
       \/ SealDataset(actor, d)
       \/ ReleaseDataset(actor, d)

JobStep ==
  \/ \E b \in BatchIds : ArchiveBatch(b)
  \/ EscalateOverdueTriage

Next ==
  \/ \E u \in Uploads : UploadStep(u)
  \/ \E actor \in Operators : BatchStep(actor) \/ TriageStep(actor) \/ DatasetStep(actor)
  \/ JobStep
  \/ Restart
  \/ \E operator \in SafetyOperators : DriveStarts(operator)
  \/ Tick

Spec == Init /\ [][Next]_vars

-----------------------------------------------------------------------------
(* Properties *)

Accepted(f) == f \in DOMAIN frames /\ frames[f].status = "accepted"

TicketsOfBatch(b) == {t \in DOMAIN tickets : tickets[t].batch = b}

Sealed(d) == d \in DOMAIN datasets /\ datasets[d].status \in {"sealed", "released"}

Audited(action, object) == [action |-> action, object |-> object] \in audit

(* The tables and the uploads are well formed. *)
LoopTypeOK ==
  /\ IsTable(batches, BatchIds, Batch)
  /\ IsTable(frames, FrameIds, Frame)
  /\ IsTable(tickets, TicketIds, Ticket)
  /\ IsTable(datasets, DatasetIds, Dataset)
  /\ \A event \in audit : event.object \in BatchIds \cup DatasetIds
  /\ uploads \in [Uploads -> Upload]
  /\ IsTable(driveOperator, DriveIds, Operators)
  /\ \A b \in DOMAIN batches : batches[b].drive \in DOMAIN driveOperator
  /\ now \in Moments

(* What is sealed or released is the data the digest was taken of: frames that are
   accepted, of validated batches, archived since or not, about which every triage
   question has been answered (the comments of ValidateBatch, ingest.go:153-157,
   and of SealDataset, dataset.go:185-187).  Release does not look again, and in
   between batches of the same drives are uploaded, validated and archived. *)
SealedDataIsTriaged ==
  \A d \in DatasetIds : Sealed(d) =>
    /\ datasets[d].members # {}
    /\ datasets[d].members = datasets[d].digest
    /\ \A f \in datasets[d].members :
         /\ Accepted(f)
         /\ frames[f].quality >= MinimumAcceptedQuality
         /\ batches[f[1]].status \in {"validated", "archived"}
         /\ \A t \in TicketsOfBatch(f[1]) : ~Pending(t)

(* The fate of a frame is decided by its batch and the ticket of the batch: a good
   one is accepted by validation and by nothing else, a bad one waits in
   quarantine until a conclusion that asks for a hold drops it, and every batch
   with bad frames that was not rejected has one ticket. *)
QuarantineIsDecided ==
  \A b \in DOMAIN batches :
    LET low == {f \in FramesByBatch(b) : frames[f].quality < MinimumAcceptedQuality}
        held == \E t \in TicketsOfBatch(b) : RequiresDatasetHold(tickets[t].disposition)
        validated == Audited("capture.validate", b)
    IN  /\ Cardinality(TicketsOfBatch(b)) = IF validated /\ low # {} THEN 1 ELSE 0
        /\ validated =>
             /\ \A f \in FramesByBatch(b) \ low : Accepted(f)
             /\ \A f \in low : frames[f].status = IF held THEN "dropped" ELSE "quarantined"
        /\ ~validated => \A f \in FramesByBatch(b) : frames[f].status \in {"pending", "dropped"}

(* What a row says of the number of its frames is their number. *)
CountersMatchRows ==
  /\ \A b \in DOMAIN batches :
       /\ batches[b].frameCount = Cardinality(FramesByBatch(b))
       /\ batches[b].acceptedCount = Cardinality({f \in FramesByBatch(b) : Accepted(f)})
  /\ \A d \in DOMAIN datasets : datasets[d].frameCount = Cardinality(datasets[d].members)

(* A sealed data set stays what it was: no later step, of triage, of curation or of
   a job, changes its members, their frames or its digest, or opens it again. *)
SealIsFinal ==
  [][\A d \in DatasetIds : Sealed(d) =>
       /\ Sealed(d)'
       /\ datasets[d].status = "released" => datasets'[d].status = "released"
       /\ datasets'[d].members = datasets[d].members
       /\ datasets'[d].digest = datasets[d].digest
       /\ \A f \in datasets[d].members : frames'[f] = frames[f]]_vars

(* An archived batch is done with: no later step touches its row, its frames or its
   tickets. *)
ArchivedIsFinal ==
  [][\A b \in DOMAIN batches : batches[b].status = "archived" =>
       /\ batches'[b] = batches[b]
       /\ \A f \in FramesByBatch(b) : frames'[f] = frames[f]
       /\ TicketsOfBatch(b)' = TicketsOfBatch(b)
       /\ \A t \in TicketsOfBatch(b) : tickets'[t] = tickets[t]]_vars

(* Whoever got a batch for a key got the one batch of that key, whatever other
   uploads with the key were in flight, before or after a restart: the lookup of
   UploadBatch is outside its transaction. *)
OneBatchPerUploadKey ==
  \A u \in Uploads :
    uploads[u].phase = "answered" => BatchByUploadKey(uploads[u].asked.key) = {uploads[u].id}

(* The audit trail tells which batches, tickets and data sets exist, what status each
   of them has, and whether a ticket is assigned; and it tells nothing of a row that
   the row denies.  An archived batch was either validated or rejected before; only an
   assigned ticket was investigated, and only one left past its deadline was escalated;
   frames are told to be added before there are members or one is removed.  (Not told,
   or not checked here: to whom, with which conclusion, which frames.) *)
LoopAuditTrail ==
  /\ \A b \in BatchIds :
       /\ Audited("capture.upload", b) <=> b \in DOMAIN batches
       /\ Audited("capture.validate", b) <=>
            /\ b \in DOMAIN batches
            /\ batches[b].status \in {"validated", "archived"}
            /\ ~Audited("capture.reject", b)
       /\ Audited("capture.reject", b) <=>
            /\ b \in DOMAIN batches
            /\ batches[b].status \in {"rejected", "archived"}
            /\ ~Audited("capture.validate", b)
       /\ Audited("capture.archive", b) <=> b \in DOMAIN batches /\ batches[b].status = "archived"
  /\ \A t \in TicketIds :
       /\ Audited("triage.dispose", t) <=> t \in DOMAIN tickets /\ tickets[t].status = "disposed"
       /\ Audited("triage.assign", t) <=> t \in DOMAIN tickets /\ tickets[t].assigned
       /\ Audited("triage.investigate", t) =>
            /\ t \in DOMAIN tickets
            /\ tickets[t].status \in {"investigating", "disposed"}
            /\ tickets[t].assigned
       /\ t \in DOMAIN tickets /\ tickets[t].status = "investigating" =>
            Audited("triage.investigate", t)
       /\ Audited("triage.escalated", t) => t \in DOMAIN tickets /\ tickets[t].deadline < now
  /\ \A d \in DatasetIds :
       /\ Audited("dataset.create", d) <=> d \in DOMAIN datasets
       /\ Audited("dataset.add_frames", d) => d \in DOMAIN datasets
       /\ Audited("dataset.remove_frame", d) => Audited("dataset.add_frames", d)
       /\ d \in DOMAIN datasets /\ datasets[d].members # {} => Audited("dataset.add_frames", d)
       /\ Audited("dataset.seal", d) <=> Sealed(d)
       /\ Audited("dataset.release", d) <=>
            d \in DOMAIN datasets /\ datasets[d].status = "released"
=============================================================================
