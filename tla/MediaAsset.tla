----------------------------- MODULE MediaAsset -----------------------------
(***************************************************************************)
(* The life of uploaded media: the upload saga (MediaService.upload), the  *)
(* registry row, the retained binary, and the maintenance of the replicas  *)
(* (MediaAssetRetentionService), which abandons stale uploads and purges   *)
(* expired ones.  One action per await.  An asset stands for its upload,   *)
(* its row and its storage key, since all three carry the same fresh id.   *)
(***************************************************************************)
EXTENDS Naturals

CONSTANTS Assets,       \* uploads, each with its own asset id
          Replicas,     \* processes (or overlapping timers) that run maintenance
          TotalSpace,   \* files the storage filesystem can hold
          ReserveSpace, \* files that must stay free after an upload is admitted
          MaxFaults     \* crashes, lost answers and refused statements

VARIABLES upload,       \* upload[a]: where MediaService.upload stands
          row,          \* row[a]: the MediaAsset row, or NoRow
          binary,       \* binary[a]: a file or an object exists under a's key
          job,          \* job[r]: where runMaintenance stands in replica r
          faults

mediaVars == <<upload, row, binary, job, faults>>

ASSUME MediaAssumption == /\ TotalSpace \in Nat
                          /\ ReserveSpace \in 0 .. TotalSpace
                          /\ MaxFaults \in Nat

Mode == {"DISABLED", "FILESYSTEM", "S3"}
NoRow == [state |-> "absent"]

InFlight == {"admitted", "stage", "staging", "staged", "send", "accepted", "failing"}
Over == {"done", "dead"}

Idle == [step |-> "idle", todo |-> {}]

MediaInit ==
  /\ upload \in [Assets -> [pc : {"new"}, mode : {"DISABLED"}, slow : BOOLEAN]]
  /\ row = [a \in Assets |-> NoRow]
  /\ binary = [a \in Assets |-> FALSE]
  /\ job = [r \in Replicas |-> Idle]
  /\ faults = 0

Exists(a) == row[a] # NoRow

GoTo(a, pc) == upload' = [upload EXCEPT ![a].pc = pc]

(***************************************************************************)
(* Writing a row sets updatedAt, so the row is no longer stale.            *)
(***************************************************************************)
Write(a, r) == row' = [row EXCEPT ![a] = [r EXCEPT !.stale = FALSE]]

Fault == /\ faults < MaxFaults
         /\ faults' = faults + 1

-----------------------------------------------------------------------------
(***************************************************************************)
(* MediaService.upload.                                                    *)
(***************************************************************************)
CapacityFor(mode, free, required) ==
  mode = "FILESYSTEM" =>
    /\ required <= free
    /\ free - required >= ReserveSpace

(***************************************************************************)
(* Policy, content signature, storage target, capacity, malware scan and   *)
(* sender, in this order: nothing is written until all have passed.  The   *)
(* free space is whatever the filesystem reports: it is shared.            *)
(***************************************************************************)
Admit(a) ==
  /\ upload[a].pc = "new"
  /\ \E mode \in Mode, free \in 0 .. TotalSpace :
       /\ CapacityFor(mode, free, 1)
       /\ upload' = [upload EXCEPT ![a].pc = "admitted", ![a].mode = mode]
  /\ UNCHANGED <<row, binary, job, faults>>

Reject(a) ==
  /\ upload[a].pc = "new"
  /\ GoTo(a, "done")
  /\ UNCHANGED <<row, binary, job, faults>>

NewRow(a) ==
  [state |-> "present", mode |-> upload[a].mode, key |-> upload[a].mode # "DISABLED",
   storedAt |-> FALSE, provider |-> FALSE, failure |-> "none",
   stale |-> FALSE, expired |-> FALSE]

CreateRow(a) ==
  /\ upload[a].pc = "admitted"
  /\ Write(a, NewRow(a))
  /\ \/ GoTo(a, "stage") /\ UNCHANGED faults
     \/ GoTo(a, "done") /\ Fault             \* committed, and the answer was lost
  /\ UNCHANGED <<binary, job>>

CreateFails(a) ==
  /\ upload[a].pc = "admitted"
  /\ Fault
  /\ GoTo(a, "done")
  /\ UNCHANGED <<row, binary, job>>

(***************************************************************************)
(* A file exists from the moment it is opened; an S3 object appears when   *)
(* the PUT is complete.                                                    *)
(***************************************************************************)
StageStarts(a) ==
  /\ upload[a].pc = "stage"
  /\ upload[a].mode # "DISABLED"
  /\ GoTo(a, "staging")
  /\ binary' = [binary EXCEPT ![a] = @ \/ upload[a].mode = "FILESYSTEM"]
  /\ UNCHANGED <<row, job, faults>>

StageSkipped(a) ==
  /\ upload[a].pc = "stage"
  /\ upload[a].mode = "DISABLED"
  /\ GoTo(a, "send")
  /\ UNCHANGED <<row, binary, job, faults>>

StageDone(a) ==
  /\ upload[a].pc = "staging"
  /\ GoTo(a, "staged")
  /\ binary' = [binary EXCEPT ![a] = @ \/ upload[a].mode = "S3"]
  /\ UNCHANGED <<row, job, faults>>

(***************************************************************************)
(* A failed file write removes the file, unless that fails as well; a      *)
(* failed PUT may have stored the object.                                  *)
(***************************************************************************)
StageFails(a) ==
  /\ upload[a].pc = "staging"
  /\ Fault
  /\ GoTo(a, "failing")
  /\ \E left \in BOOLEAN :
       /\ left /\ upload[a].mode = "FILESYSTEM" => binary[a]
       /\ binary' = [binary EXCEPT ![a] = left]
  /\ UNCHANGED <<row, job>>

(***************************************************************************)
(* The update of storedAt names the row by id alone; it throws when the    *)
(* row has been purged.                                                    *)
(***************************************************************************)
MarkStored(a) ==
  /\ upload[a].pc = "staged"
  /\ Exists(a)
  /\ Write(a, [row[a] EXCEPT !.storedAt = TRUE])
  /\ \/ GoTo(a, "send") /\ UNCHANGED faults
     \/ GoTo(a, "failing") /\ Fault
  /\ UNCHANGED <<binary, job>>

MarkStoredFails(a) ==
  /\ upload[a].pc = "staged"
  /\ \/ ~Exists(a) /\ UNCHANGED faults
     \/ Exists(a) /\ Fault
  /\ GoTo(a, "failing")
  /\ UNCHANGED <<row, binary, job>>

(***************************************************************************)
(* Filesystem mode sends Meta the retained file, so it must still exist.   *)
(***************************************************************************)
CanOpen(a) == upload[a].mode = "FILESYSTEM" => binary[a]

UploadMedia(a) ==
  /\ upload[a].pc = "send"
  /\ CanOpen(a)
  /\ GoTo(a, "accepted")
  /\ UNCHANGED <<row, binary, job, faults>>

UploadFails(a) ==
  /\ upload[a].pc = "send"
  /\ \/ ~CanOpen(a) /\ UNCHANGED faults
     \/ CanOpen(a) /\ Fault
  /\ GoTo(a, "failing")
  /\ UNCHANGED <<row, binary, job>>

(***************************************************************************)
(* The final update is conditional; when it finds no such row, or throws,  *)
(* the caller gets a 503 and the row is left as it is.                     *)
(***************************************************************************)
FinalizableById(a) == Exists(a)
Finalizable(a) == Exists(a) /\ ~row[a].provider /\ row[a].failure = "none"

Finalize(a) ==
  /\ upload[a].pc = "accepted"
  /\ GoTo(a, "done")
  /\ IF Finalizable(a)
       THEN Write(a, [row[a] EXCEPT !.provider = TRUE, !.failure = "none"])
       ELSE UNCHANGED row
  /\ UNCHANGED <<binary, job, faults>>

FinalizeFails(a) ==
  /\ upload[a].pc = "accepted"
  /\ Fault
  /\ GoTo(a, "done")
  /\ UNCHANGED <<row, binary, job>>

(***************************************************************************)
(* markAssetFailed overwrites whatever failure the row holds, and its own  *)
(* error is only logged.                                                   *)
(***************************************************************************)
MarkAssetFailed(a) ==
  /\ upload[a].pc = "failing"
  /\ GoTo(a, "done")
  /\ \/ /\ Exists(a)
        /\ Write(a, [row[a] EXCEPT !.failure = "other"])
        /\ UNCHANGED faults
     \/ /\ ~Exists(a)
        /\ UNCHANGED <<row, faults>>
     \/ /\ Exists(a)
        /\ Fault
        /\ UNCHANGED row
  /\ UNCHANGED <<binary, job>>

Crash(a) ==
  /\ upload[a].pc \in InFlight
  /\ Fault
  /\ GoTo(a, "dead")
  /\ UNCHANGED <<row, binary, job>>

-----------------------------------------------------------------------------
(***************************************************************************)
(* Time.  Every await of an upload is bounded by minutes and the stale     *)
(* threshold is at least half an hour, so only a slow upload (a suspended  *)
(* process, a skewed clock) is overtaken by it, or by the expiry.          *)
(***************************************************************************)
CanAge(a) == Exists(a) /\ (upload[a].slow \/ upload[a].pc \in Over)

BecomesStale(a) ==
  /\ CanAge(a)
  /\ ~row[a].stale
  /\ row' = [row EXCEPT ![a].stale = TRUE]
  /\ UNCHANGED <<upload, binary, job, faults>>

Expires(a) ==
  /\ CanAge(a)
  /\ ~row[a].expired
  /\ row' = [row EXCEPT ![a].expired = TRUE]
  /\ UNCHANGED <<upload, binary, job, faults>>

-----------------------------------------------------------------------------
(***************************************************************************)
(* runMaintenance: reconcileStaleUploads, then purgeExpired.  The rows of  *)
(* a query are handled in any order.                                       *)
(***************************************************************************)
StaleUpload(a) == Exists(a) /\ ~row[a].provider /\ row[a].failure = "none" /\ row[a].stale

LeftToClean(a) ==
  Exists(a) /\ ~row[a].provider /\ row[a].failure = "UPLOAD_ABANDONED" /\ row[a].key

Read(a) == [asset |-> a, abandoned |-> row[a].failure = "UPLOAD_ABANDONED", key |-> row[a].key]

SelectStale(r) ==
  /\ job[r].step = "idle"
  /\ job' = [job EXCEPT ![r] = [step |-> "reconcile",
               todo |-> {Read(a) : a \in {b \in Assets : StaleUpload(b) \/ LeftToClean(b)}}]]
  /\ UNCHANGED <<upload, row, binary, faults>>

Hold(r, step, i) ==
  job' = [job EXCEPT ![r] = [step |-> step, item |-> i, todo |-> @.todo \ {i}]]

Continue(r, step) == job' = [job EXCEPT ![r] = [step |-> step, todo |-> @.todo]]

(***************************************************************************)
(* An item not yet abandoned is claimed by a conditional update; one whose *)
(* claim fails, or that has no key, needs no clean-up.                     *)
(***************************************************************************)
ClaimStale(r) ==
  /\ job[r].step = "reconcile"
  /\ \E i \in job[r].todo :
       IF i.abandoned
         THEN Hold(r, "discard", i) /\ UNCHANGED row
         ELSE IF StaleUpload(i.asset)
           THEN /\ Write(i.asset, [row[i.asset] EXCEPT !.failure = "UPLOAD_ABANDONED"])
                /\ IF i.key
                     THEN Hold(r, "discard", i)
                     ELSE job' = [job EXCEPT ![r].todo = @ \ {i}]
           ELSE job' = [job EXCEPT ![r].todo = @ \ {i}] /\ UNCHANGED row
  /\ UNCHANGED <<upload, binary, faults>>

(***************************************************************************)
(* The other order of the two: the key is forgotten, then the binary is    *)
(* removed.                                                                *)
(***************************************************************************)
ClearThenDiscard(r) ==
  /\ job[r].step = "discard"
  /\ LET a == job[r].item.asset IN
       IF LeftToClean(a)
         THEN Write(a, [row[a] EXCEPT !.key = FALSE, !.storedAt = FALSE])
         ELSE UNCHANGED row
  /\ job' = [job EXCEPT ![r].step = "clear"]
  /\ UNCHANGED <<upload, binary, faults>>

DiscardAbandoned(r) ==
  /\ job[r].step = "discard"
  /\ binary' = [binary EXCEPT ![job[r].item.asset] = FALSE]
  /\ job' = [job EXCEPT ![r].step = "clear"]
  /\ UNCHANGED <<upload, row, faults>>

ClearKey(r) ==
  /\ job[r].step = "clear"
  /\ LET a == job[r].item.asset IN
       IF LeftToClean(a)
         THEN Write(a, [row[a] EXCEPT !.key = FALSE, !.storedAt = FALSE])
         ELSE UNCHANGED row
  /\ Continue(r, "reconcile")
  /\ UNCHANGED <<upload, binary, faults>>

ExpiredProvided(a) == Exists(a) /\ row[a].expired /\ row[a].provider
Expired(a) == Exists(a) /\ row[a].expired

SelectExpired(r) ==
  /\ job[r].step = "reconcile"
  /\ job[r].todo = {}
  /\ job' = [job EXCEPT ![r] = [step |-> "purge",
                                todo |-> {Read(a) : a \in {b \in Assets : Expired(b)}}]]
  /\ UNCHANGED <<upload, row, binary, faults>>

PurgeBinary(r) ==
  /\ job[r].step = "purge"
  /\ \E i \in job[r].todo :
       /\ Hold(r, "delete", i)
       /\ binary' = IF i.key THEN [binary EXCEPT ![i.asset] = FALSE] ELSE binary
  /\ UNCHANGED <<upload, row, faults>>

DeleteRow(r) ==
  /\ job[r].step = "delete"
  /\ LET a == job[r].item.asset IN
       row' = IF Expired(a) THEN [row EXCEPT ![a] = NoRow] ELSE row
  /\ Continue(r, "purge")
  /\ UNCHANGED <<upload, binary, faults>>

MaintenanceEnds(r) ==
  /\ job[r].step = "purge"
  /\ job[r].todo = {}
  /\ job' = [job EXCEPT ![r] = Idle]
  /\ UNCHANGED <<upload, row, binary, faults>>

(***************************************************************************)
(* A discard that throws, whether or not the binary went: the item is left *)
(* to a later cycle.                                                       *)
(***************************************************************************)
DiscardFails(r) ==
  /\ Fault
  /\ \/ /\ job[r].step = "discard"
        /\ Continue(r, "reconcile")
        /\ binary' \in {binary, [binary EXCEPT ![job[r].item.asset] = FALSE]}
     \/ /\ job[r].step = "purge"
        /\ \E i \in job[r].todo :
             /\ i.key
             /\ job' = [job EXCEPT ![r].todo = @ \ {i}]
             /\ binary' \in {binary, [binary EXCEPT ![i.asset] = FALSE]}
  /\ UNCHANGED <<upload, row>>

(***************************************************************************)
(* A statement fails: reconciliation gives way to the purge, the purge to  *)
(* the next cycle.  A replica that dies starts a cycle when it comes back. *)
(***************************************************************************)
MaintenanceAborts(r) ==
  /\ job[r].step # "idle"
  /\ Fault
  /\ \/ /\ job[r].step \in {"reconcile", "clear"}
        /\ job' = [job EXCEPT ![r] = [step |-> "reconcile", todo |-> {}]]
     \/ job' = [job EXCEPT ![r] = Idle]
  /\ UNCHANGED <<upload, row, binary>>

-----------------------------------------------------------------------------
UploadStep(a) ==
  \/ Admit(a) \/ Reject(a) \/ CreateRow(a) \/ CreateFails(a)
  \/ StageStarts(a) \/ StageSkipped(a) \/ StageDone(a) \/ StageFails(a)
  \/ MarkStored(a) \/ MarkStoredFails(a) \/ UploadMedia(a) \/ UploadFails(a)
  \/ Finalize(a) \/ FinalizeFails(a) \/ MarkAssetFailed(a)

Cycle(r) ==
  \/ SelectStale(r) \/ ClaimStale(r) \/ DiscardAbandoned(r) \/ ClearKey(r)
  \/ SelectExpired(r) \/ PurgeBinary(r) \/ DeleteRow(r) \/ MaintenanceEnds(r)

MediaNext ==
  \/ \E a \in Assets : UploadStep(a) \/ Crash(a) \/ BecomesStale(a) \/ Expires(a)
  \/ \E r \in Replicas : Cycle(r) \/ DiscardFails(r) \/ MaintenanceAborts(r)

MediaSpec == MediaInit /\ [][MediaNext]_mediaVars

(***************************************************************************)
(* Every await of an upload ends (each has a timeout), time passes, and    *)
(* the timer of every replica starts a cycle that runs to its end.         *)
(***************************************************************************)
MediaFairness ==
  /\ \A a \in Assets : WF_mediaVars(UploadStep(a)) /\ WF_mediaVars(Expires(a))
  /\ \A r \in Replicas : WF_mediaVars(Cycle(r))

-----------------------------------------------------------------------------
(***************************************************************************)
(* What GET /v1/media reports of a row.                                    *)
(***************************************************************************)
ResponseState(r) ==
  CASE r.failure # "none" -> "FAILED"
    [] r.failure = "none" /\ r.provider -> IF r.expired THEN "EXPIRED" ELSE "ACTIVE"
    [] OTHER -> "UPLOADING"

(***************************************************************************)
(* An asset reported ACTIVE in a retaining mode has its binary, and the    *)
(* row says so: a reconciliation that races the end of a slow upload       *)
(* never takes the file of one that completed.                             *)
(***************************************************************************)
ActiveIsRetained ==
  \A a \in Assets :
    Exists(a) /\ ResponseState(row[a]) = "ACTIVE" /\ row[a].mode # "DISABLED" =>
      row[a].key /\ row[a].storedAt /\ binary[a]

(***************************************************************************)
(* Unless an upload outlived the stale threshold, no binary is ever left   *)
(* without a row that names it: crashes, lost answers, failed deletions    *)
(* and concurrent replicas included.                                       *)
(***************************************************************************)
NoOrphanBinary ==
  \A a \in Assets : binary[a] /\ ~upload[a].slow => Exists(a) /\ row[a].key

(***************************************************************************)
(* Rows and binaries agree in both directions.                             *)
(***************************************************************************)
BinariesMatchRows == ActiveIsRetained /\ NoOrphanBinary

(***************************************************************************)
(* A failed asset never becomes usable and a usable one never fails,       *)
(* whoever writes last: uploads, late failures, two reconcilers.           *)
(***************************************************************************)
KeepsOutcome(a) ==
  Exists(a) /\ row'[a] # NoRow =>
    /\ row[a].failure # "none" => row'[a].failure # "none" /\ ~row'[a].provider
    /\ row[a].provider => row'[a].provider /\ row'[a].failure = "none"
OutcomeIsFinal == [][\A a \in Assets : KeepsOutcome(a)]_mediaVars

(***************************************************************************)
(* Every binary of an upload that kept within the threshold is removed in  *)
(* the end: by reconciliation or by the purge, which retry what failed.    *)
(***************************************************************************)
BinariesAreReclaimed ==
  \A a \in Assets : binary[a] /\ ~upload[a].slow ~> ~binary[a]
=============================================================================
