------------------------------ MODULE Platform ------------------------------
(***************************************************************************)
(* The two chains of the service on their one database: the fleet          *)
(* (Fleet.tla) starts the drives whose data the data loop (DataLoop.tla)   *)
(* takes in, and the tickets of the data loop block the settlement of the  *)
(* fleet.  SettleAssignment reads the tickets of the data loop, UploadBatch *)
(* the sessions of the fleet, each in its own transaction.                 *)
(*                                                                         *)
(* Every step is a step of one of the two, with the tables of the other    *)
(* unchanged.  They share the clock and write disjoint kinds of audit      *)
(* events.                                                                 *)
(***************************************************************************)
EXTENDS Fleet, Sequences

CONSTANTS
  UploadKeys, Requests, Selections, Conclusions, Uploads, MaxFrames, EscalationPage,
  \* bounds of the model
  MaxBatches, MaxDatasets

(* audit of Fleet has the events of the fleet, loopAudit those of the data loop. *)
VARIABLES batches, frames, tickets, datasets, loopAudit, uploads

loopTables   == <<batches, frames, tickets, datasets, loopAudit, uploads>>
platformVars == <<tables, loopTables, now>>

Loop == INSTANCE DataLoop WITH
  DriveIds <- 1..MaxDrives,
  Moments <- 0..MaxTime,
  audit <- loopAudit,
  driveOperator <- [d \in DOMAIN drives |-> drives[d].operator]

ASSUME LoopInputsTyped ==
  /\ {MaxFrames, EscalationPage, MaxBatches, MaxDatasets} \subseteq Nat
  /\ \A asked \in Requests :
       /\ DOMAIN asked = {"actor", "drive", "key", "quality", "intact"}
       /\ asked.actor \in Operators
       /\ asked.key \in UploadKeys
       /\ asked.quality \in Seq(Loop!Percent)
       /\ asked.intact \in BOOLEAN
  /\ \A asked \in Selections : asked \subseteq Loop!FrameIds
  /\ Conclusions \subseteq Loop!Dispositions

-----------------------------------------------------------------------------
(* Mutant: a ticket that is being investigated does not count. *)
Undecided_OpenOnly ==
  {d \in DOMAIN drives :
     \E t \in DOMAIN tickets : tickets[t].drive = d /\ tickets[t].status = "open"}

(* CountPendingByDrive is not zero. *)
Undecided == {d \in DOMAIN drives : Loop!PendingByDrive(d) # {}}

FleetStep(actor) ==
  /\ \/ CampaignStep(actor)
     \/ \E key \in Keys, in \in Inputs : CreateAssignment(actor, key, in)
     \/ \E a \in AssignmentIds : AbortAssignment(actor, a)
     \/ DriveStep(actor)
     \/ \E a \in AssignmentIds : SettleAssignment(actor, a, Undecided)
     \/ \E s \in SettlementIds, hasNote \in BOOLEAN :
          ApproveSettlement(actor, s, hasNote)
  /\ UNCHANGED loopTables

LoopStep(actor) ==
  /\ UNCHANGED <<tables, now>>
  /\ Loop!BatchStep(actor) \/ Loop!TriageStep(actor) \/ Loop!DatasetStep(actor)

(* Uploads in flight, jobs, and a restart, which forgets the uploads. *)
ProcessStep ==
  /\ UNCHANGED <<tables, now>>
  /\ (\E u \in Uploads : Loop!UploadStep(u)) \/ Loop!JobStep \/ Loop!Restart

PlatformInit == Init /\ Loop!Init

PlatformNext ==
  \/ \E actor \in Operators : FleetStep(actor) \/ LoopStep(actor)
  \/ ProcessStep
  \/ Tick /\ UNCHANGED loopTables

PlatformSpec == PlatformInit /\ [][PlatformNext]_platformVars

-----------------------------------------------------------------------------
(* Properties *)

DriveOfFrame(f) == batches[f[1]].drive

(* README.md:8, "undecided tickets block the settlement of mileage and the sealing of
   data sets": whenever a shift is settled or a data set is sealed, no drive of it
   has a ticket that is open or under investigation, and so no frame that its
   validation found bad is without a conclusion. *)
TicketsBlock ==
  [][LET settled == {settlements'[s].assignment : s \in (DOMAIN settlements)' \ DOMAIN settlements}
         sealed  == {d \in DOMAIN datasets : ~Loop!Sealed(d) /\ Loop!Sealed(d)'}
         blocked == {d \in DOMAIN drives : drives[d].assignment \in settled}
                      \cup {DriveOfFrame(f) : f \in UNION {datasets[d].members : d \in sealed}}
     IN  \A t \in DOMAIN tickets :
           tickets[t].drive \in blocked => tickets[t].status \notin {"open", "investigating"}]_platformVars

(* Data is traced to a road test that took place: the drive of a batch is the session
   of a shift that was started and never aborted, driven by the operator of the shift,
   and a ticket is about the drive of its batch.  Aborting a shift does not look at
   batches, uploading does not look at shifts. *)
DataComesFromDrives ==
  /\ \A b \in DOMAIN batches :
       LET d == batches[b].drive
       IN  /\ d \in DOMAIN drives
           /\ assignments[drives[d].assignment].status \in {"active", "completed"}
           /\ assignments[drives[d].assignment].operator = drives[d].operator
  /\ \A t \in DOMAIN tickets : tickets[t].drive = batches[tickets[t].batch].drive
=============================================================================
