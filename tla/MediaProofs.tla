----------------------------- MODULE MediaProofs -----------------------------
(***************************************************************************)
(* Uploaded media, for any number of assets, replicas and faults: rows and *)
(* binaries agree, an outcome is final, and a file passes the scanner only *)
(* when all of it was scanned.                                             *)
(***************************************************************************)
EXTENDS MediaAsset, MalwareScan, SequenceTheorems, TLAPS

-----------------------------------------------------------------------------
(* Types.                                                                  *)
Steps == InFlight \cup Over \cup {"new"}
Started == (InFlight \ {"admitted"}) \cup Over
Uploads == [pc : Steps, mode : Mode, slow : BOOLEAN]
Rows == [state : {"present"}, mode : Mode, key : BOOLEAN, storedAt : BOOLEAN,
         provider : BOOLEAN, failure : {"none", "other", "UPLOAD_ABANDONED"},
         stale : BOOLEAN, expired : BOOLEAN]
Items == [asset : Assets, abandoned : BOOLEAN, key : BOOLEAN]
WaitingJobs == [step : {"idle", "reconcile", "purge"}, todo : SUBSET Items]
BusyJobs == [step : {"discard", "clear", "delete"}, item : Items, todo : SUBSET Items]

MediaTypes ==
  /\ upload \in [Assets -> Uploads]
  /\ row \in [Assets -> Rows \cup {NoRow}]
  /\ binary \in [Assets -> BOOLEAN]
  /\ job \in [Replicas -> WaitingJobs \cup BusyJobs]

-----------------------------------------------------------------------------
(* What an upload u has behind it: its row w, unless maintenance gave it   *)
(* up, says where its binary is, and b whether it is there.                *)
NotStarted(u, w, b) == u.pc \notin Started => w = NoRow /\ ~b
RowIsOfUpload(u, w) ==
  w # NoRow => /\ w.mode = u.mode
               /\ w.provider => w.failure = "none" /\ u.pc = "done"
Stages(u, w, b) ==
  w # NoRow /\ w.failure = "none" /\ ~w.expired /\ u.mode # "DISABLED" =>
    /\ u.pc \in {"stage", "staging", "staged", "send", "accepted"} => w.key
    /\ u.pc = "staging" /\ u.mode = "FILESYSTEM" => b
    /\ u.pc \in {"staged", "send", "accepted"} => b
    /\ u.pc \in {"send", "accepted"} => w.storedAt

(* An upload within the threshold is not overtaken by maintenance.         *)
Unhindered(u, w) ==
  ~u.slow /\ u.pc \in InFlight \ {"admitted"} =>
    /\ w # NoRow
    /\ ~w.stale /\ ~w.expired /\ w.failure = "none"
    /\ u.mode # "DISABLED" => w.key

Retained(w, b) ==
  w # NoRow /\ w.failure = "none" /\ w.provider /\ ~w.expired /\ w.mode # "DISABLED" =>
    w.key /\ w.storedAt /\ b
StagesNothing(u) == u.mode = "DISABLED" => u.pc # "staging"
Named(u, w, b) == b /\ ~u.slow => w # NoRow /\ w.key

Fits(u, w, b) ==
  /\ NotStarted(u, w, b) /\ RowIsOfUpload(u, w) /\ Stages(u, w, b)
  /\ Unhindered(u, w) /\ Retained(w, b) /\ Named(u, w, b) /\ StagesNothing(u)
AssetInv(a) == Fits(upload[a], row[a], binary[a])

(* What a replica read of a row and is still so when it acts on it.        *)
GivenUp(a) == upload[a].pc \in Started /\ (Exists(a) => row[a].failure # "none")
PastExpiry(a) == upload[a].pc \in Started /\ (Exists(a) => row[a].expired)
Removed(a) == ~upload[a].slow => ~binary[a]
ItemHolds(i) == upload[i.asset].pc \in Started /\ (Exists(i.asset) /\ ~i.key => ~row[i.asset].key)

JobInv(r) ==
  /\ \A i \in job[r].todo : ItemHolds(i)
  /\ job[r].step \in {"reconcile", "discard", "clear"} =>
       \A i \in job[r].todo : i.abandoned => GivenUp(i.asset)
  /\ job[r].step \in {"discard", "clear"} => GivenUp(job[r].item.asset)
  /\ job[r].step = "clear" => Removed(job[r].item.asset)
  /\ job[r].step \in {"purge", "delete"} => \A i \in job[r].todo : PastExpiry(i.asset)
  /\ job[r].step = "delete" => PastExpiry(job[r].item.asset) /\ Removed(job[r].item.asset)

MediaInv ==
  /\ MediaTypes
  /\ \A a \in Assets : AssetInv(a)
  /\ \A r \in Replicas : JobInv(r)

-----------------------------------------------------------------------------
(* What no step undoes, of an upload that has started.                     *)
Ages(u, w, b, v, x, c) ==
  /\ v.slow = u.slow
  /\ u.pc \in Started =>
       /\ v.pc \in Started
       /\ x # NoRow => /\ w # NoRow
                       /\ w.failure # "none" => x.failure # "none"
                       /\ w.expired => x.expired
                       /\ ~w.key => ~x.key
                       /\ w.provider => x.provider
  /\ u.pc \in Over /\ ~b => ~c
AssetAges(a) == Ages(upload[a], row[a], binary[a], upload'[a], row'[a], binary'[a])

(* Every step keeps the invariant and undoes nothing.                      *)
Kept == MediaInv' /\ \A a \in Assets : AssetAges(a)

LEMMA FactsStay ==
  ASSUME MediaInv, \A a \in Assets : AssetAges(a)
  PROVE  /\ \A a \in Assets : GivenUp(a) => GivenUp(a)'
         /\ \A a \in Assets : PastExpiry(a) => PastExpiry(a)'
         /\ \A a \in Assets : (GivenUp(a) \/ PastExpiry(a)) /\ Removed(a) => Removed(a)'
         /\ \A i \in Items : ItemHolds(i) => ItemHolds(i)'
<1>1. ASSUME NEW a \in Assets
      PROVE  /\ GivenUp(a) => GivenUp(a)'
             /\ PastExpiry(a) => PastExpiry(a)'
    BY <1>1 DEF AssetAges, Ages, GivenUp, PastExpiry, Exists
<1>2. ASSUME NEW a \in Assets, GivenUp(a) \/ PastExpiry(a), Removed(a) PROVE Removed(a)'
    <2>1. AssetInv(a) /\ AssetAges(a) BY <1>2 DEF MediaInv
    <2>2. CASE ~upload[a].slow
        <3>1. upload[a].pc \in Over
            BY <1>2, <2>1, <2>2 DEF AssetInv, Fits, Unhindered, GivenUp, PastExpiry, Exists, Started
        <3> QED BY <1>2, <2>1, <3>1 DEF AssetAges, Ages, Removed
    <2>3. CASE upload[a].slow BY <2>1, <2>3 DEF AssetAges, Ages, Removed
    <2> QED BY <2>2, <2>3
<1>3. ASSUME NEW i \in Items, ItemHolds(i) PROVE ItemHolds(i)'
    <2>1. AssetAges(i.asset) BY <1>3 DEF Items
    <2> QED BY <1>3, <2>1 DEF ItemHolds, AssetAges, Ages, Exists
<1> QED BY <1>1, <1>2, <1>3

LEMMA JobTypes ==
  ASSUME MediaInv, NEW r \in Replicas
  PROVE  /\ JobInv(r) /\ job \in [Replicas -> WaitingJobs \cup BusyJobs]
         /\ job[r] \in WaitingJobs \cup BusyJobs
         /\ job[r].todo \in SUBSET Items
         /\ job[r].step \in {"discard", "clear", "delete"} =>
              job[r].item \in Items /\ job[r].item.asset \in Assets
         /\ \A i \in job[r].todo : i \in Items /\ i.asset \in Assets
<1>1. JobInv(r) /\ job[r] \in WaitingJobs \cup BusyJobs BY DEF MediaInv, MediaTypes
<1>2. job[r].todo \in SUBSET Items BY <1>1 DEF WaitingJobs, BusyJobs
<1>3. job[r].step \in {"discard", "clear", "delete"} => job[r].item \in Items
    BY <1>1 DEF WaitingJobs, BusyJobs
<1> QED BY <1>1, <1>2, <1>3 DEF MediaInv, MediaTypes, Items

LEMMA JobStays ==
  ASSUME MediaInv, NEW r \in Replicas, job'[r] = job[r], \A a \in Assets : AssetAges(a)
  PROVE  JobInv(r)'
  BY JobTypes, FactsStay DEF JobInv

(* One asset moves, and the jobs stay.                                     *)
LEMMA AssetStep ==
  ASSUME MediaInv, NEW a \in Assets, NEW u \in Uploads, NEW w \in Rows \cup {NoRow},
         NEW b \in BOOLEAN, upload' = [upload EXCEPT ![a] = u], row' = [row EXCEPT ![a] = w],
         binary' = [binary EXCEPT ![a] = b], UNCHANGED job,
         Fits(u, w, b), Ages(upload[a], row[a], binary[a], u, w, b)
  PROVE  Kept
<1>1. MediaTypes' BY DEF MediaInv, MediaTypes
<1>2. /\ upload'[a] = u /\ row'[a] = w /\ binary'[a] = b
      /\ \A d \in Assets : d # a => upload'[d] = upload[d] /\ row'[d] = row[d] /\ binary'[d] = binary[d]
    BY DEF MediaInv, MediaTypes
<1>3. ASSUME NEW d \in Assets PROVE AssetInv(d)'
    <2>1. CASE d = a BY <1>2, <2>1 DEF AssetInv
    <2>2. CASE d # a BY <1>2, <2>2 DEF AssetInv, MediaInv
    <2> QED BY <2>1, <2>2
<1>4. ASSUME NEW d \in Assets PROVE AssetAges(d)
    <2>1. CASE d = a BY <1>2, <2>1 DEF AssetAges
    <2>2. CASE d # a BY <1>2, <2>2 DEF AssetAges, Ages
    <2> QED BY <2>1, <2>2
<1>5. \A r \in Replicas : JobInv(r)' BY <1>4, JobStays
<1> QED BY <1>1, <1>3, <1>4, <1>5 DEF MediaInv, Kept

(* The steps of an upload, by what they write.                             *)
LEMMA AssetTypes ==
  ASSUME MediaInv, NEW a \in Assets
  PROVE  /\ upload[a] \in Uploads /\ row[a] \in Rows \cup {NoRow} /\ binary[a] \in BOOLEAN
         /\ Fits(upload[a], row[a], binary[a])
         /\ upload \in [Assets -> Uploads] /\ row \in [Assets -> Rows \cup {NoRow}]
         /\ binary \in [Assets -> BOOLEAN]
  BY DEF MediaInv, MediaTypes, AssetInv

LEMMA RowIsNotAbsent == ASSUME NEW w \in Rows PROVE w # NoRow
  BY DEF Rows, NoRow

LEMMA PcOnly ==
  ASSUME MediaInv, NEW a \in Assets, NEW pc \in Steps, GoTo(a, pc), UNCHANGED <<row, binary, job>>,
         \A u \in Uploads :
           u.pc = pc /\ u.mode = upload[a].mode /\ u.slow = upload[a].slow =>
             Fits(u, row[a], binary[a]) /\ Ages(upload[a], row[a], binary[a], u, row[a], binary[a])
  PROVE  Kept
<1>1. PICK u \in Uploads : u = [upload[a] EXCEPT !.pc = pc]
    BY AssetTypes DEF Uploads
<1>2. u.pc = pc /\ u.mode = upload[a].mode /\ u.slow = upload[a].slow
    BY <1>1, AssetTypes DEF Uploads
<1>3. upload' = [upload EXCEPT ![a] = u] BY <1>1 DEF GoTo
<1>4. row' = [row EXCEPT ![a] = row[a]] /\ binary' = [binary EXCEPT ![a] = binary[a]]
    BY AssetTypes
<1>5. Fits(u, row[a], binary[a]) BY <1>2
<1>6. Ages(upload[a], row[a], binary[a], u, row[a], binary[a]) BY <1>2
<1>7. row[a] \in Rows \cup {NoRow} /\ binary[a] \in BOOLEAN BY AssetTypes
<1>8. job' = job OBVIOUS
<1> QED BY ONLY MediaInv, a \in Assets, u \in Uploads, <1>3, <1>4, <1>5, <1>6, <1>7, <1>8, AssetStep

LEMMA BinaryOnly ==
  ASSUME MediaInv, NEW a \in Assets, NEW pc \in Steps, GoTo(a, pc), UNCHANGED <<row, job>>,
         NEW b \in BOOLEAN, binary' = [binary EXCEPT ![a] = b],
         \A u \in Uploads :
           u.pc = pc /\ u.mode = upload[a].mode /\ u.slow = upload[a].slow =>
             Fits(u, row[a], b) /\ Ages(upload[a], row[a], binary[a], u, row[a], b)
  PROVE  Kept
<1>1. PICK u \in Uploads : u = [upload[a] EXCEPT !.pc = pc]
    BY AssetTypes DEF Uploads
<1>2. u.pc = pc /\ u.mode = upload[a].mode /\ u.slow = upload[a].slow
    BY <1>1, AssetTypes DEF Uploads
<1>3. upload' = [upload EXCEPT ![a] = u] BY <1>1 DEF GoTo
<1>4. row' = [row EXCEPT ![a] = row[a]] BY AssetTypes
<1>5. Fits(u, row[a], b) BY <1>2
<1>6. Ages(upload[a], row[a], binary[a], u, row[a], b) BY <1>2
<1>7. row[a] \in Rows \cup {NoRow} /\ binary[a] \in BOOLEAN BY AssetTypes
<1> QED BY <1>3, <1>4, <1>5, <1>6, <1>7, AssetStep

LEMMA RowAndPc ==
  ASSUME MediaInv, NEW a \in Assets, NEW pc \in Steps, GoTo(a, pc), UNCHANGED <<binary, job>>,
         NEW w \in Rows, row' = [row EXCEPT ![a] = w],
         \A u \in Uploads :
           u.pc = pc /\ u.mode = upload[a].mode /\ u.slow = upload[a].slow =>
             Fits(u, w, binary[a]) /\ Ages(upload[a], row[a], binary[a], u, w, binary[a])
  PROVE  Kept
<1>1. PICK u \in Uploads : u = [upload[a] EXCEPT !.pc = pc]
    BY AssetTypes DEF Uploads
<1>2. u.pc = pc /\ u.mode = upload[a].mode /\ u.slow = upload[a].slow
    BY <1>1, AssetTypes DEF Uploads
<1>3. upload' = [upload EXCEPT ![a] = u] BY <1>1 DEF GoTo
<1>4. binary' = [binary EXCEPT ![a] = binary[a]] BY AssetTypes
<1>5. Fits(u, w, binary[a]) BY <1>2
<1>6. Ages(upload[a], row[a], binary[a], u, w, binary[a]) BY <1>2
<1>7. row[a] \in Rows \cup {NoRow} /\ binary[a] \in BOOLEAN BY AssetTypes
<1> QED BY <1>3, <1>4, <1>5, <1>6, <1>7, AssetStep

(* A step that writes nothing: the upload gives up, waits or is answered.  *)
LEMMA GivesUp ==
  ASSUME MediaInv, NEW a \in Assets, NEW pc \in {"failing", "done", "dead"}, GoTo(a, pc),
         UNCHANGED <<row, binary, job>>, upload[a].pc \in InFlight \cup {"new"},
         pc = "failing" => upload[a].pc \in InFlight \ {"admitted"}
  PROVE  Kept
<1>1. pc \in Steps BY DEF Steps, InFlight, Over
<1>2. ASSUME NEW u \in Uploads, u.pc = pc, u.mode = upload[a].mode, u.slow = upload[a].slow
      PROVE  Fits(u, row[a], binary[a])
    BY <1>2, AssetTypes DEF Fits, NotStarted, RowIsOfUpload, Stages, Unhindered, Retained, Named, StagesNothing, Started, InFlight, Over
<1>3. ASSUME NEW u \in Uploads, u.pc = pc, u.mode = upload[a].mode, u.slow = upload[a].slow
      PROVE  Ages(upload[a], row[a], binary[a], u, row[a], binary[a])
    BY <1>3 DEF Ages, Started, InFlight, Over
<1> QED BY <1>1, <1>2, <1>3, PcOnly

LEMMA AdmitMedia == ASSUME MediaInv, NEW a \in Assets, Admit(a) PROVE Kept
<1>1. PICK m \in Mode : upload' = [upload EXCEPT ![a].pc = "admitted", ![a].mode = m]
    BY DEF Admit
<1>2. PICK u : u = [upload[a] EXCEPT !.pc = "admitted", !.mode = m] OBVIOUS
<1>3. u \in Uploads /\ u.pc = "admitted" /\ u.slow = upload[a].slow
    BY <1>2, AssetTypes DEF Uploads, Steps, InFlight
<1>4. upload' = [upload EXCEPT ![a] = u] BY <1>1, <1>2, AssetTypes
<1>5. row' = [row EXCEPT ![a] = row[a]] /\ binary' = [binary EXCEPT ![a] = binary[a]] /\ UNCHANGED job
    BY AssetTypes DEF Admit
<1>6. upload[a].pc = "new" BY DEF Admit
<1>7. row[a] = NoRow /\ ~binary[a]
    BY <1>6, AssetTypes DEF Fits, NotStarted, Started, InFlight, Over
<1>8. Fits(u, row[a], binary[a])
    BY <1>3, <1>7 DEF Fits, NotStarted, RowIsOfUpload, Stages, Unhindered, Retained, Named, StagesNothing, Started, InFlight, Over
<1>9. Ages(upload[a], row[a], binary[a], u, row[a], binary[a])
    BY <1>3, <1>6, <1>7 DEF Ages, Started, InFlight, Over
<1> QED BY <1>3, <1>4, <1>5, <1>8, <1>9, AssetStep, AssetTypes

LEMMA CreateRowMedia == ASSUME MediaInv, NEW a \in Assets, CreateRow(a) PROVE Kept
<1>1. PICK w : w = [NewRow(a) EXCEPT !.stale = FALSE] OBVIOUS
<1>2. /\ w \in Rows /\ w.mode = upload[a].mode /\ w.key = (upload[a].mode # "DISABLED")
      /\ ~w.provider /\ w.failure = "none" /\ ~w.stale /\ ~w.expired
    BY <1>1, AssetTypes DEF NewRow, Rows, Uploads
<1>3. row' = [row EXCEPT ![a] = w] /\ UNCHANGED <<binary, job>> /\ upload[a].pc = "admitted"
    BY <1>1 DEF CreateRow, Write
<1>4. PICK pc \in {"stage", "done"} : GoTo(a, pc) BY DEF CreateRow
<1>5. ~binary[a] BY <1>3, AssetTypes DEF Fits, NotStarted, Started, InFlight, Over
<1>6. w # NoRow BY <1>2, RowIsNotAbsent
<1>7. ASSUME NEW u \in Uploads, u.pc = pc, u.mode = upload[a].mode, u.slow = upload[a].slow
      PROVE  Fits(u, w, binary[a]) /\ Ages(upload[a], row[a], binary[a], u, w, binary[a])
    <2>1. Fits(u, w, binary[a])
        BY <1>2, <1>5, <1>6, <1>7 DEF Fits, NotStarted, RowIsOfUpload, Stages, Unhindered, Retained, Named, StagesNothing, Started, InFlight, Over
    <2>2. Ages(upload[a], row[a], binary[a], u, w, binary[a])
        BY <1>3, <1>7 DEF Ages, Started, InFlight, Over
    <2> QED BY <2>1, <2>2
<1>8. pc \in Steps BY DEF Steps, InFlight, Over
<1> QED BY <1>2, <1>3, <1>4, <1>7, <1>8, RowAndPc

LEMMA StageStartsMedia == ASSUME MediaInv, NEW a \in Assets, StageStarts(a) PROVE Kept
<1>1. /\ upload[a].pc = "stage" /\ GoTo(a, "staging") /\ UNCHANGED <<row, job>>
      /\ upload[a].mode # "DISABLED"
    BY DEF StageStarts
<1>2. PICK b \in BOOLEAN : b = (binary[a] \/ upload[a].mode = "FILESYSTEM")
    BY AssetTypes
<1>3. binary' = [binary EXCEPT ![a] = b] BY <1>2, AssetTypes DEF StageStarts
<1>4. "staging" \in Steps BY DEF Steps, InFlight
<1>5. ASSUME NEW u \in Uploads, u.pc = "staging", u.mode = upload[a].mode, u.slow = upload[a].slow
      PROVE  Fits(u, row[a], b)
    BY <1>1, <1>2, <1>5, AssetTypes DEF Fits, NotStarted, RowIsOfUpload, Stages, Unhindered, Retained, Named, StagesNothing, Started, InFlight, Over, Uploads, Mode
<1>6. ASSUME NEW u \in Uploads, u.pc = "staging", u.mode = upload[a].mode, u.slow = upload[a].slow
      PROVE  Ages(upload[a], row[a], binary[a], u, row[a], b)
    BY <1>1, <1>6 DEF Ages, Started, InFlight, Over
<1> QED BY <1>1, <1>3, <1>4, <1>5, <1>6, BinaryOnly

LEMMA StageDoneMedia == ASSUME MediaInv, NEW a \in Assets, StageDone(a) PROVE Kept
<1>1. /\ upload[a].pc = "staging" /\ GoTo(a, "staged") /\ UNCHANGED <<row, job>>
    BY DEF StageDone
<1>2. PICK b \in BOOLEAN : b = (binary[a] \/ upload[a].mode = "S3")
    BY AssetTypes
<1>3. binary' = [binary EXCEPT ![a] = b] BY <1>2, AssetTypes DEF StageDone
<1>4. "staged" \in Steps BY DEF Steps, InFlight
<1>5. ASSUME NEW u \in Uploads, u.pc = "staged", u.mode = upload[a].mode, u.slow = upload[a].slow
      PROVE  Fits(u, row[a], b)
    BY <1>1, <1>2, <1>5, AssetTypes DEF Fits, NotStarted, RowIsOfUpload, Stages, Unhindered, Retained, Named, StagesNothing, Started, InFlight, Over, Uploads, Mode
<1>6. ASSUME NEW u \in Uploads, u.pc = "staged", u.mode = upload[a].mode, u.slow = upload[a].slow
      PROVE  Ages(upload[a], row[a], binary[a], u, row[a], b)
    BY <1>1, <1>6 DEF Ages, Started, InFlight, Over
<1> QED BY <1>1, <1>3, <1>4, <1>5, <1>6, BinaryOnly

LEMMA StageFailsMedia == ASSUME MediaInv, NEW a \in Assets, StageFails(a) PROVE Kept
<1>1. PICK b \in BOOLEAN : /\ b /\ upload[a].mode = "FILESYSTEM" => binary[a]
                           /\ binary' = [binary EXCEPT ![a] = b]
    BY DEF StageFails
<1>2. upload[a].pc = "staging" /\ GoTo(a, "failing") /\ UNCHANGED <<row, job>>
    BY DEF StageFails
<1>4. "failing" \in Steps BY DEF Steps, InFlight
<1>5. ASSUME NEW u \in Uploads, u.pc = "failing", u.mode = upload[a].mode, u.slow = upload[a].slow
      PROVE  Fits(u, row[a], b)
    BY <1>1, <1>2, <1>5, AssetTypes DEF Fits, NotStarted, RowIsOfUpload, Stages, Unhindered, Retained, Named, StagesNothing, Started, InFlight, Over
<1>6. ASSUME NEW u \in Uploads, u.pc = "failing", u.mode = upload[a].mode, u.slow = upload[a].slow
      PROVE  Ages(upload[a], row[a], binary[a], u, row[a], b)
    BY <1>2, <1>6 DEF Ages, Started, InFlight, Over
<1> QED BY <1>1, <1>2, <1>4, <1>5, <1>6, BinaryOnly

LEMMA ForwardsMedia ==
  ASSUME MediaInv, NEW a \in Assets, StageSkipped(a) \/ UploadMedia(a) PROVE Kept
<1>1. PICK pc \in {"send", "accepted"} : GoTo(a, pc)
    BY DEF StageSkipped, UploadMedia
<1>2. /\ UNCHANGED <<row, binary, job>>
      /\ upload[a].pc = "send" \/ (upload[a].pc = "stage" /\ upload[a].mode = "DISABLED")
    BY DEF StageSkipped, UploadMedia
<1>3. pc \in Steps BY DEF Steps, InFlight
<1>4. ASSUME NEW u \in Uploads, u.pc = pc, u.mode = upload[a].mode, u.slow = upload[a].slow
      PROVE  Fits(u, row[a], binary[a])
    BY <1>2, <1>4, AssetTypes DEF Fits, NotStarted, RowIsOfUpload, Stages, Unhindered, Retained, Named, StagesNothing, Started, InFlight, Over
<1>5. ASSUME NEW u \in Uploads, u.pc = pc, u.mode = upload[a].mode, u.slow = upload[a].slow
      PROVE  Ages(upload[a], row[a], binary[a], u, row[a], binary[a])
    BY <1>2, <1>5 DEF Ages, Started, InFlight, Over
<1> QED BY <1>1, <1>2, <1>3, <1>4, <1>5, PcOnly

LEMMA MarkStoredMedia == ASSUME MediaInv, NEW a \in Assets, MarkStored(a) PROVE Kept
<1>1. /\ upload[a].pc = "staged" /\ row[a] \in Rows /\ row[a] # NoRow /\ UNCHANGED <<binary, job>>
    BY AssetTypes DEF MarkStored, Exists
<1>2. PICK w : w = [[row[a] EXCEPT !.storedAt = TRUE] EXCEPT !.stale = FALSE] OBVIOUS
<1>3. /\ w \in Rows /\ w.storedAt /\ ~w.stale /\ w.mode = row[a].mode /\ w.key = row[a].key
      /\ w.provider = row[a].provider /\ w.failure = row[a].failure /\ w.expired = row[a].expired
    BY <1>1, <1>2 DEF Rows
<1>4. row' = [row EXCEPT ![a] = w] BY <1>2 DEF MarkStored, Write
<1>5. PICK pc \in {"send", "failing"} : GoTo(a, pc) BY DEF MarkStored
<1>6. pc \in Steps /\ w # NoRow BY <1>3, RowIsNotAbsent DEF Steps, InFlight
<1>7. ASSUME NEW u \in Uploads, u.pc = pc, u.mode = upload[a].mode, u.slow = upload[a].slow
      PROVE  Fits(u, w, binary[a])
    BY <1>1, <1>3, <1>6, <1>7, AssetTypes DEF Fits, NotStarted, RowIsOfUpload, Stages, Unhindered, Retained, Named, StagesNothing, Started, InFlight, Over
<1>8. ASSUME NEW u \in Uploads, u.pc = pc, u.mode = upload[a].mode, u.slow = upload[a].slow
      PROVE  Ages(upload[a], row[a], binary[a], u, w, binary[a])
    BY <1>1, <1>3, <1>8 DEF Ages, Started, InFlight, Over
<1> QED BY <1>1, <1>3, <1>4, <1>5, <1>6, <1>7, <1>8, RowAndPc

(* The binary is there when the upload completes.                          *)
LEMMA FinalizeMedia == ASSUME MediaInv, NEW a \in Assets, Finalize(a) PROVE Kept
<1>1. /\ upload[a].pc = "accepted" /\ GoTo(a, "done") /\ UNCHANGED <<binary, job>>
    BY DEF Finalize
<1>2. CASE ~Finalizable(a)
    <2>1. UNCHANGED row BY <1>2 DEF Finalize
    <2> QED BY <1>1, <2>1, GivesUp DEF InFlight
<1>3. CASE Finalizable(a)
    <2>1. row[a] \in Rows /\ row[a] # NoRow /\ ~row[a].provider /\ row[a].failure = "none"
        BY <1>3, AssetTypes DEF Finalizable, Exists
    <2>2. PICK w : w = [[row[a] EXCEPT !.provider = TRUE, !.failure = "none"] EXCEPT !.stale = FALSE]
        OBVIOUS
    <2>3. /\ w \in Rows /\ w.provider /\ ~w.stale /\ w.mode = row[a].mode /\ w.key = row[a].key
          /\ w.storedAt = row[a].storedAt /\ w.failure = "none" /\ w.expired = row[a].expired
        BY <2>1, <2>2 DEF Rows
    <2>4. row' = [row EXCEPT ![a] = w] BY <1>3, <2>2 DEF Finalize, Write
    <2>5. "done" \in Steps /\ w # NoRow BY <2>3, RowIsNotAbsent DEF Steps, Over
    <2>6. ASSUME NEW u \in Uploads, u.pc = "done", u.mode = upload[a].mode, u.slow = upload[a].slow
          PROVE  Fits(u, w, binary[a])
        BY <1>1, <2>1, <2>3, <2>5, <2>6, AssetTypes DEF Fits, NotStarted, RowIsOfUpload, Stages, Unhindered, Retained, Named, StagesNothing, Started, InFlight, Over
    <2>7. ASSUME NEW u \in Uploads, u.pc = "done", u.mode = upload[a].mode, u.slow = upload[a].slow
          PROVE  Ages(upload[a], row[a], binary[a], u, w, binary[a])
        BY <1>1, <2>1, <2>3, <2>7 DEF Ages, Started, InFlight, Over
    <2> QED BY <1>1, <2>3, <2>4, <2>5, <2>6, <2>7, RowAndPc
<1> QED BY <1>2, <1>3

LEMMA MarkAssetFailedMedia ==
  ASSUME MediaInv, NEW a \in Assets, MarkAssetFailed(a) PROVE Kept
<1>1. /\ upload[a].pc = "failing" /\ GoTo(a, "done") /\ UNCHANGED <<binary, job>>
    BY DEF MarkAssetFailed
<1>2. CASE UNCHANGED row BY <1>1, <1>2, GivesUp DEF InFlight
<1>3. CASE Exists(a) /\ Write(a, [row[a] EXCEPT !.failure = "other"])
    <2>1. row[a] \in Rows /\ row[a] # NoRow BY <1>3, AssetTypes DEF Exists
    <2>2. PICK w : w = [[row[a] EXCEPT !.failure = "other"] EXCEPT !.stale = FALSE] OBVIOUS
    <2>3. /\ w \in Rows /\ w.provider = row[a].provider /\ w.mode = row[a].mode /\ w.key = row[a].key
          /\ w.failure = "other" /\ w.expired = row[a].expired
        BY <2>1, <2>2 DEF Rows
    <2>4. row' = [row EXCEPT ![a] = w] BY <1>3, <2>2 DEF Write
    <2>5. "done" \in Steps /\ w # NoRow BY <2>3, RowIsNotAbsent DEF Steps, Over
    <2>6. ASSUME NEW u \in Uploads, u.pc = "done", u.mode = upload[a].mode, u.slow = upload[a].slow
          PROVE  Fits(u, w, binary[a])
        BY <1>1, <2>1, <2>3, <2>5, <2>6, AssetTypes DEF Fits, NotStarted, RowIsOfUpload, Stages, Unhindered, Retained, Named, StagesNothing, Started, InFlight, Over
    <2>7. ASSUME NEW u \in Uploads, u.pc = "done", u.mode = upload[a].mode, u.slow = upload[a].slow
          PROVE  Ages(upload[a], row[a], binary[a], u, w, binary[a])
        BY <1>1, <2>1, <2>3, <2>7 DEF Ages, Started, InFlight, Over
    <2> QED BY <1>1, <2>3, <2>4, <2>5, <2>6, <2>7, RowAndPc
<1> QED BY <1>2, <1>3 DEF MarkAssetFailed

LEMMA GivingUpMedia ==
  ASSUME MediaInv, NEW a \in Assets,
         \/ Reject(a) \/ CreateFails(a) \/ MarkStoredFails(a) \/ UploadFails(a)
         \/ FinalizeFails(a) \/ Crash(a)
  PROVE  Kept
<1>1. UNCHANGED <<row, binary, job>> /\ upload[a].pc \in InFlight \cup {"new"}
    BY DEF Reject, CreateFails, MarkStoredFails, UploadFails, FinalizeFails, Crash, InFlight
<1>2. CASE Reject(a) \/ CreateFails(a) \/ FinalizeFails(a)
    BY <1>1, <1>2, GivesUp DEF Reject, CreateFails, FinalizeFails
<1>3. CASE MarkStoredFails(a) \/ UploadFails(a)
    <2>1. upload[a].pc \in {"staged", "send"} /\ GoTo(a, "failing")
        BY <1>3 DEF MarkStoredFails, UploadFails
    <2> QED BY <1>1, <2>1, GivesUp DEF InFlight
<1>4. CASE Crash(a) BY <1>1, <1>4, GivesUp DEF Crash
<1> QED BY <1>2, <1>3, <1>4

(* Time passes only over slow uploads and those that are over.             *)
LEMMA AgesMedia ==
  ASSUME MediaInv, NEW a \in Assets, BecomesStale(a) \/ Expires(a) PROVE Kept
<1>1. /\ row[a] \in Rows /\ row[a] # NoRow /\ UNCHANGED <<upload, binary, job>>
      /\ upload[a].slow \/ upload[a].pc \in Over
    BY AssetTypes DEF BecomesStale, Expires, CanAge, Exists
<1>2. PICK w \in Rows : /\ row' = [row EXCEPT ![a] = w]
                        /\ w.mode = row[a].mode /\ w.key = row[a].key /\ w.storedAt = row[a].storedAt
                        /\ w.provider = row[a].provider /\ w.failure = row[a].failure
                        /\ row[a].expired => w.expired
    <2>1. CASE BecomesStale(a)
        <3>1. PICK w : w = [row[a] EXCEPT !.stale = TRUE] OBVIOUS
        <3>2. row' = [row EXCEPT ![a] = w] BY <2>1, <3>1, AssetTypes DEF BecomesStale
        <3>3. /\ w \in Rows /\ w.mode = row[a].mode /\ w.key = row[a].key /\ w.storedAt = row[a].storedAt
              /\ w.provider = row[a].provider /\ w.failure = row[a].failure /\ w.expired = row[a].expired
            BY <1>1, <3>1 DEF Rows
        <3> QED BY <3>2, <3>3
    <2>2. CASE Expires(a)
        <3>1. PICK w : w = [row[a] EXCEPT !.expired = TRUE] OBVIOUS
        <3>2. row' = [row EXCEPT ![a] = w] BY <2>2, <3>1, AssetTypes DEF Expires
        <3> QED BY <1>1, <3>1, <3>2 DEF Rows
    <2> QED BY <2>1, <2>2
<1>3. w # NoRow BY RowIsNotAbsent
<1>4. Fits(upload[a], w, binary[a])
    BY <1>1, <1>2, <1>3, AssetTypes DEF Fits, NotStarted, RowIsOfUpload, Stages, Unhindered, Retained, Named, StagesNothing, Started, InFlight, Over
<1>5. Ages(upload[a], row[a], binary[a], upload[a], w, binary[a]) BY <1>1, <1>2 DEF Ages
<1>6. upload' = [upload EXCEPT ![a] = upload[a]] /\ binary' = [binary EXCEPT ![a] = binary[a]]
    BY <1>1, AssetTypes
<1>7. upload[a] \in Uploads /\ binary[a] \in BOOLEAN /\ job' = job BY <1>1, AssetTypes
<1>8. row' = [row EXCEPT ![a] = w] BY <1>2
<1> QED BY ONLY MediaInv, a \in Assets, w \in Rows, <1>4, <1>5, <1>6, <1>7, <1>8, AssetStep

-----------------------------------------------------------------------------
(* The steps of a replica.                                                 *)
LEMMA ReplicaStep ==
  ASSUME MediaInv, NEW r \in Replicas, MediaTypes', \A a \in Assets : AssetInv(a)',
         \A a \in Assets : AssetAges(a), \A q \in Replicas : q # r => job'[q] = job[q], JobInv(r)'
  PROVE  Kept
<1>1. \A q \in Replicas : JobInv(q)' BY JobStays
<1> QED BY <1>1 DEF MediaInv, Kept

LEMMA AssetsStay ==
  ASSUME MediaInv, UNCHANGED <<upload, row, binary>>
  PROVE  (\A a \in Assets : AssetInv(a)') /\ (\A a \in Assets : AssetAges(a))
<1>1. ASSUME NEW a \in Assets PROVE AssetInv(a)' BY DEF MediaInv, AssetInv
<1>2. ASSUME NEW a \in Assets PROVE AssetAges(a) BY DEF AssetAges, Ages
<1> QED BY <1>1, <1>2

LEMMA OneAssetMoves ==
  ASSUME MediaInv, NEW a \in Assets, NEW w \in Rows \cup {NoRow}, NEW b \in BOOLEAN,
         upload' = upload, row' = [row EXCEPT ![a] = w], binary' = [binary EXCEPT ![a] = b],
         Fits(upload[a], w, b), Ages(upload[a], row[a], binary[a], upload[a], w, b)
  PROVE  /\ (\A d \in Assets : AssetInv(d)') /\ (\A d \in Assets : AssetAges(d))
         /\ upload' \in [Assets -> Uploads] /\ row' \in [Assets -> Rows \cup {NoRow}]
         /\ binary' \in [Assets -> BOOLEAN] /\ row'[a] = w /\ binary'[a] = b
<1>1. /\ upload' \in [Assets -> Uploads] /\ row' \in [Assets -> Rows \cup {NoRow}]
      /\ binary' \in [Assets -> BOOLEAN] /\ row'[a] = w /\ binary'[a] = b
      /\ \A d \in Assets : d # a => row'[d] = row[d] /\ binary'[d] = binary[d]
    BY AssetTypes
<1>2. ASSUME NEW d \in Assets PROVE AssetInv(d)'
    <2>1. CASE d = a BY <1>1, <2>1 DEF AssetInv
    <2>2. CASE d # a BY <1>1, <2>2 DEF AssetInv, MediaInv
    <2> QED BY <2>1, <2>2
<1>3. ASSUME NEW d \in Assets PROVE AssetAges(d)
    <2>1. CASE d = a BY <1>1, <2>1 DEF AssetAges
    <2>2. CASE d # a BY <1>1, <2>2 DEF AssetAges, Ages
    <2> QED BY <2>1, <2>2
<1> QED BY <1>1, <1>2, <1>3

(* Taking the binary of an upload that was given up or has expired.        *)
LEMMA DiscardFits ==
  ASSUME MediaInv, NEW a \in Assets, GivenUp(a) \/ PastExpiry(a), UNCHANGED <<upload, row>>,
         binary' = [binary EXCEPT ![a] = FALSE]
  PROVE  /\ (\A d \in Assets : AssetInv(d)') /\ (\A d \in Assets : AssetAges(d))
         /\ binary' \in [Assets -> BOOLEAN] /\ Removed(a)'
<1>1. Fits(upload[a], row[a], FALSE)
    BY AssetTypes DEF Fits, NotStarted, RowIsOfUpload, Stages, Unhindered, Retained, Named, StagesNothing, GivenUp, PastExpiry, Exists
<1>2. Ages(upload[a], row[a], binary[a], upload[a], row[a], FALSE) BY DEF Ages
<1>3. row' = [row EXCEPT ![a] = row[a]] /\ row[a] \in Rows \cup {NoRow} /\ upload' = upload
    BY AssetTypes
<1>4. /\ (\A d \in Assets : AssetInv(d)') /\ (\A d \in Assets : AssetAges(d))
      /\ binary' \in [Assets -> BOOLEAN] /\ binary'[a] = FALSE
    BY ONLY MediaInv, a \in Assets, binary' = [binary EXCEPT ![a] = FALSE], <1>1, <1>2, <1>3,
       OneAssetMoves
<1> QED BY <1>4 DEF Removed

LEMMA SelectMedia ==
  ASSUME MediaInv, NEW r \in Replicas, SelectStale(r) \/ SelectExpired(r) PROVE Kept
<1>1. /\ UNCHANGED <<upload, row, binary>> /\ \A q \in Replicas : q # r => job'[q] = job[q]
    BY JobTypes DEF SelectStale, SelectExpired
<1>2. \A a \in Assets : Exists(a) => upload[a].pc \in Started /\ Read(a) \in Items
    BY AssetTypes DEF Fits, NotStarted, Exists, Read, Items, Rows
<1>3. \A a \in Assets : Read(a).asset = a /\ Read(a).key = row[a].key
                          /\ (Read(a).abandoned <=> row[a].failure = "UPLOAD_ABANDONED")
    BY DEF Read
<1>4. CASE SelectStale(r)
    <2>1. PICK T : T = {Read(a) : a \in {b \in Assets : StaleUpload(b) \/ LeftToClean(b)}} OBVIOUS
    <2>2. job' = [job EXCEPT ![r] = [step |-> "reconcile", todo |-> T]]
        BY <1>4, <2>1 DEF SelectStale
    <2>3. \A i \in T : i \in Items /\ \E a \in Assets : Exists(a) /\ i = Read(a)
        BY <1>2, <2>1 DEF StaleUpload, LeftToClean
    <2>4. job'[r] = [step |-> "reconcile", todo |-> T] /\ job'[r] \in WaitingJobs
        BY <2>2, <2>3, JobTypes DEF WaitingJobs
    <2>5. MediaTypes' BY <1>1, <2>2, <2>4, JobTypes DEF MediaInv, MediaTypes
    <2>6. JobInv(r)'
        BY <1>1, <1>2, <1>3, <2>3, <2>4 DEF JobInv, ItemHolds, GivenUp, Exists
    <2> QED BY <1>1, <2>5, <2>6, AssetsStay, ReplicaStep
<1>5. CASE SelectExpired(r)
    <2>1. PICK T : T = {Read(a) : a \in {b \in Assets : Expired(b)}} OBVIOUS
    <2>2. job' = [job EXCEPT ![r] = [step |-> "purge", todo |-> T]]
        BY <1>5, <2>1 DEF SelectExpired
    <2>3. \A i \in T : i \in Items /\ \E a \in Assets : Exists(a) /\ row[a].expired /\ i = Read(a)
        BY <1>2, <2>1 DEF Expired
    <2>4. job'[r] = [step |-> "purge", todo |-> T] /\ job'[r] \in WaitingJobs
        BY <2>2, <2>3, JobTypes DEF WaitingJobs
    <2>5. MediaTypes' BY <1>1, <2>2, <2>4, JobTypes DEF MediaInv, MediaTypes
    <2>6. JobInv(r)'
        BY <1>1, <1>2, <1>3, <2>3, <2>4 DEF JobInv, ItemHolds, PastExpiry, Exists
    <2> QED BY <1>1, <2>5, <2>6, AssetsStay, ReplicaStep
<1> QED BY <1>4, <1>5

(* The job after a step, whatever its form.                                *)
LEMMA JobMoves ==
  ASSUME MediaInv, NEW r \in Replicas, NEW x \in WaitingJobs \cup BusyJobs,
         job' = [job EXCEPT ![r] = x]
  PROVE  /\ job'[r] = x /\ job' \in [Replicas -> WaitingJobs \cup BusyJobs]
         /\ \A q \in Replicas : q # r => job'[q] = job[q]
  BY JobTypes

LEMMA HoldMoves ==
  ASSUME MediaInv, NEW r \in Replicas, NEW i \in job[r].todo, NEW step \in {"discard", "delete"},
         Hold(r, step, i)
  PROVE  /\ job'[r].step = step /\ job'[r].item = i /\ job'[r].todo = job[r].todo \ {i}
         /\ job' \in [Replicas -> WaitingJobs \cup BusyJobs]
         /\ \A q \in Replicas : q # r => job'[q] = job[q]
<1>1. PICK x : x = [step |-> step, item |-> i, todo |-> job[r].todo \ {i}] OBVIOUS
<1>2. x \in BusyJobs /\ x.step = step /\ x.item = i /\ x.todo = job[r].todo \ {i}
    BY <1>1, JobTypes DEF BusyJobs
<1>3. job' = [job EXCEPT ![r] = x] BY <1>1, JobTypes DEF Hold
<1> QED BY <1>2, <1>3, JobMoves

LEMMA DropMoves ==
  ASSUME MediaInv, NEW r \in Replicas, NEW i \in job[r].todo, job[r].step \in {"reconcile", "purge"},
         job' = [job EXCEPT ![r].todo = @ \ {i}]
  PROVE  /\ job'[r].step = job[r].step /\ job'[r].todo = job[r].todo \ {i}
         /\ job' \in [Replicas -> WaitingJobs \cup BusyJobs]
         /\ \A q \in Replicas : q # r => job'[q] = job[q]
<1>1. PICK x : x = [job[r] EXCEPT !.todo = @ \ {i}] OBVIOUS
<1>2. job[r] \in WaitingJobs BY JobTypes DEF BusyJobs
<1>3. x \in WaitingJobs /\ x.step = job[r].step /\ x.todo = job[r].todo \ {i}
    BY <1>1, <1>2, JobTypes DEF WaitingJobs
<1>4. job' = [job EXCEPT ![r] = x] BY <1>1, JobTypes
<1> QED BY <1>3, <1>4, JobMoves

LEMMA ContinueMoves ==
  ASSUME MediaInv, NEW r \in Replicas, NEW step \in {"reconcile", "purge"}, Continue(r, step)
  PROVE  /\ job'[r].step = step /\ job'[r].todo = job[r].todo
         /\ job' \in [Replicas -> WaitingJobs \cup BusyJobs]
         /\ \A q \in Replicas : q # r => job'[q] = job[q]
<1>1. PICK x : x = [step |-> step, todo |-> job[r].todo] OBVIOUS
<1>2. x \in WaitingJobs /\ x.step = step /\ x.todo = job[r].todo
    BY <1>1, JobTypes DEF WaitingJobs
<1>3. job' = [job EXCEPT ![r] = x] BY <1>1, JobTypes DEF Continue
<1> QED BY <1>2, <1>3, JobMoves

LEMMA ClaimStaleMedia ==
  ASSUME MediaInv, NEW r \in Replicas, ClaimStale(r) PROVE Kept
<1>1. job[r].step = "reconcile" /\ UNCHANGED <<upload, binary>> BY DEF ClaimStale
<1>2. PICK i \in job[r].todo :
        IF i.abandoned
         THEN Hold(r, "discard", i) /\ UNCHANGED row
         ELSE IF StaleUpload(i.asset)
           THEN /\ Write(i.asset, [row[i.asset] EXCEPT !.failure = "UPLOAD_ABANDONED"])
                /\ IF i.key
                     THEN Hold(r, "discard", i)
                     ELSE job' = [job EXCEPT ![r].todo = @ \ {i}]
           ELSE job' = [job EXCEPT ![r].todo = @ \ {i}] /\ UNCHANGED row
    BY DEF ClaimStale
<1>3. /\ JobInv(r) /\ i \in Items /\ i.asset \in Assets
      /\ \A j \in job[r].todo : j \in Items /\ j.asset \in Assets
    BY JobTypes
<1>4. ASSUME \A a \in Assets : AssetAges(a), \A a \in Assets : AssetInv(a)',
             upload' \in [Assets -> Uploads], row' \in [Assets -> Rows \cup {NoRow}],
             binary' \in [Assets -> BOOLEAN],
             \/ Hold(r, "discard", i) /\ GivenUp(i.asset)'
             \/ job' = [job EXCEPT ![r].todo = @ \ {i}]
      PROVE  Kept
    <2>1. /\ job'[r].todo = job[r].todo \ {i}
          /\ job'[r].step = "reconcile"
             \/ (job'[r].step = "discard" /\ job'[r].item = i /\ GivenUp(i.asset)')
          /\ job' \in [Replicas -> WaitingJobs \cup BusyJobs]
          /\ \A q \in Replicas : q # r => job'[q] = job[q]
        BY <1>1, <1>4, HoldMoves, DropMoves
    <2>2. MediaTypes' BY <1>4, <2>1 DEF MediaTypes
    <2>3. \A j \in job[r].todo : ItemHolds(j)' /\ (j.abandoned => GivenUp(j.asset)')
        BY <1>1, <1>3, <1>4, FactsStay DEF JobInv
    <2>4. JobInv(r)' BY <2>1, <2>3 DEF JobInv
    <2> QED BY <1>4, <2>1, <2>2, <2>4, ReplicaStep
<1>5. CASE UNCHANGED row
    <2>1. (\A a \in Assets : AssetInv(a)') /\ (\A a \in Assets : AssetAges(a))
        BY <1>1, <1>5, AssetsStay
    <2>2. GivenUp(i.asset) => GivenUp(i.asset)' BY <1>3, <2>1, FactsStay
    <2>3. i.abandoned => GivenUp(i.asset) BY <1>1, <1>3 DEF JobInv
    <2>5. ~i.abandoned /\ StaleUpload(i.asset) =>
             Write(i.asset, [row[i.asset] EXCEPT !.failure = "UPLOAD_ABANDONED"])
        BY <1>2
    <2>6. ~(~i.abandoned /\ StaleUpload(i.asset))
        <3> SUFFICES ASSUME ~i.abandoned, StaleUpload(i.asset) PROVE FALSE OBVIOUS
        <3>1. row[i.asset] \in Rows /\ row[i.asset].failure = "none" /\ row[i.asset].stale
            BY <1>3, AssetTypes DEF StaleUpload, Exists
        <3>2. row'[i.asset].stale = FALSE
            BY <1>3, <2>5, <3>1, AssetTypes DEF Write, Rows
        <3> QED BY <1>5, <3>1, <3>2
    <2> QED BY <1>1, <1>2, <1>4, <1>5, <2>1, <2>2, <2>3, <2>6, AssetTypes DEF MediaInv, MediaTypes
<1>6. CASE ~i.abandoned /\ StaleUpload(i.asset)
    <2> DEFINE a == i.asset
    <2>1. /\ row[a] \in Rows /\ row[a] # NoRow /\ ~row[a].provider /\ row[a].failure = "none" /\ row[a].stale
        BY <1>3, <1>6, AssetTypes DEF StaleUpload, Exists
    <2>2. PICK w : w = [[row[a] EXCEPT !.failure = "UPLOAD_ABANDONED"] EXCEPT !.stale = FALSE] OBVIOUS
    <2>3. /\ w \in Rows /\ w.failure = "UPLOAD_ABANDONED" /\ w.mode = row[a].mode /\ w.key = row[a].key
          /\ w.provider = row[a].provider /\ w.expired = row[a].expired
        BY <2>1, <2>2 DEF Rows
    <2>4. row' = [row EXCEPT ![a] = w] BY <1>2, <1>6, <2>2 DEF Write
    <2>5. w # NoRow BY <2>3, RowIsNotAbsent
    <2>6. upload[a] \in Uploads /\ binary[a] \in BOOLEAN /\ Fits(upload[a], row[a], binary[a])
        BY <1>3, AssetTypes
    <2>7. Fits(upload[a], w, binary[a])
        BY <2>1, <2>3, <2>5, <2>6 DEF Fits, NotStarted, RowIsOfUpload, Stages, Unhindered, Retained, Named, StagesNothing
    <2>8. Ages(upload[a], row[a], binary[a], upload[a], w, binary[a]) BY <2>1, <2>3 DEF Ages
    <2>9. binary' = [binary EXCEPT ![a] = binary[a]] /\ upload' = upload BY <1>1, <1>3, AssetTypes
    <2>10. /\ (\A d \in Assets : AssetInv(d)') /\ (\A d \in Assets : AssetAges(d))
           /\ upload' \in [Assets -> Uploads] /\ row' \in [Assets -> Rows \cup {NoRow}]
           /\ binary' \in [Assets -> BOOLEAN] /\ row'[a] = w
        BY ONLY MediaInv, <1>3, <2>3, <2>4, <2>6, <2>7, <2>8, <2>9, OneAssetMoves
    <2>11. GivenUp(a)'
        BY <1>1, <2>1, <2>3, <2>6, <2>10 DEF GivenUp, Fits, NotStarted
    <2> QED BY <1>2, <1>4, <1>6, <2>10, <2>11
<1> QED BY <1>2, <1>5, <1>6

LEMMA DiscardMedia ==
  ASSUME MediaInv, NEW r \in Replicas, DiscardAbandoned(r) PROVE Kept
<1>1. /\ job[r].step = "discard" /\ UNCHANGED <<upload, row>>
      /\ binary' = [binary EXCEPT ![job[r].item.asset] = FALSE]
      /\ job' = [job EXCEPT ![r].step = "clear"]
    BY DEF DiscardAbandoned
<1>2. PICK a \in Assets : a = job[r].item.asset BY <1>1, JobTypes
<1>3. job[r] \in BusyJobs /\ GivenUp(a) /\ JobInv(r)
    BY <1>1, <1>2, JobTypes DEF WaitingJobs, JobInv
<1>4. PICK x : x = [job[r] EXCEPT !.step = "clear"] OBVIOUS
<1>5. x \in BusyJobs /\ x.step = "clear" /\ x.item = job[r].item /\ x.todo = job[r].todo
    BY <1>3, <1>4 DEF BusyJobs
<1>6. job' = [job EXCEPT ![r] = x] BY <1>1, <1>4, JobTypes
<1>7. job'[r] = x /\ job' \in [Replicas -> WaitingJobs \cup BusyJobs]
      /\ \A q \in Replicas : q # r => job'[q] = job[q]
    BY <1>5, <1>6, JobMoves
<1>8. /\ (\A d \in Assets : AssetInv(d)') /\ (\A d \in Assets : AssetAges(d))
      /\ binary' \in [Assets -> BOOLEAN] /\ Removed(a)'
    BY <1>1, <1>2, <1>3, DiscardFits
<1>9. MediaTypes' BY <1>1, <1>7, <1>8 DEF MediaInv, MediaTypes
<1>10. JobInv(r)'
    <2>1. \A j \in job[r].todo : ItemHolds(j)' /\ (j.abandoned => GivenUp(j.asset)')
        BY <1>1, <1>3, <1>8, FactsStay, JobTypes DEF JobInv
    <2>2. GivenUp(a)' BY <1>3, <1>8, FactsStay
    <2> QED BY <1>2, <1>5, <1>7, <1>8, <2>1, <2>2 DEF JobInv
<1> QED BY <1>7, <1>8, <1>9, <1>10, ReplicaStep

(* Only a key whose binary is gone is forgotten.                           *)
LEMMA ClearKeyMedia == ASSUME MediaInv, NEW r \in Replicas, ClearKey(r) PROVE Kept
<1>1. job[r].step = "clear" /\ Continue(r, "reconcile") /\ UNCHANGED <<upload, binary>>
    BY DEF ClearKey
<1>2. PICK a \in Assets : a = job[r].item.asset BY <1>1, JobTypes
<1>3. JobInv(r) /\ GivenUp(a) /\ Removed(a) BY <1>1, <1>2, JobTypes DEF JobInv
<1>4. /\ job'[r].step = "reconcile" /\ job'[r].todo = job[r].todo
      /\ job' \in [Replicas -> WaitingJobs \cup BusyJobs]
      /\ \A q \in Replicas : q # r => job'[q] = job[q]
    BY <1>1, ContinueMoves
<1>5. /\ (\A d \in Assets : AssetInv(d)') /\ (\A d \in Assets : AssetAges(d))
      /\ row' \in [Assets -> Rows \cup {NoRow}]
    <2>1. CASE ~LeftToClean(a)
        <3>1. UNCHANGED <<upload, row, binary>> BY <1>1, <1>2, <2>1 DEF ClearKey
        <3> QED BY <3>1, AssetsStay, AssetTypes, <1>2
    <2>2. CASE LeftToClean(a)
        <3>1. row[a] \in Rows /\ row[a] # NoRow /\ ~row[a].provider /\ row[a].failure = "UPLOAD_ABANDONED"
            BY <2>2, AssetTypes DEF LeftToClean, Exists
        <3>2. PICK w : w = [[row[a] EXCEPT !.key = FALSE, !.storedAt = FALSE] EXCEPT !.stale = FALSE]
            OBVIOUS
        <3>3. /\ w \in Rows /\ w.failure = "UPLOAD_ABANDONED" /\ w.mode = row[a].mode
              /\ ~w.provider /\ w.expired = row[a].expired /\ ~w.key
            BY <3>1, <3>2 DEF Rows
        <3>4. row' = [row EXCEPT ![a] = w] BY <1>2, <2>2, <3>2 DEF ClearKey, Write
        <3>5. w # NoRow BY <3>3, RowIsNotAbsent
        <3>6. upload[a] \in Uploads /\ binary[a] \in BOOLEAN /\ Fits(upload[a], row[a], binary[a])
            BY AssetTypes
        <3>7. Fits(upload[a], w, binary[a])
            BY <1>3, <3>1, <3>3, <3>5, <3>6 DEF Fits, NotStarted, RowIsOfUpload, Stages, Unhindered, Retained, Named, StagesNothing, Removed
        <3>8. Ages(upload[a], row[a], binary[a], upload[a], w, binary[a]) BY <3>1, <3>3 DEF Ages
        <3>9. binary' = [binary EXCEPT ![a] = binary[a]] /\ upload' = upload BY <1>1, AssetTypes
        <3> QED BY ONLY MediaInv, a \in Assets, <3>3, <3>4, <3>6, <3>7, <3>8, <3>9, OneAssetMoves
    <2> QED BY <2>1, <2>2
<1>6. MediaTypes' BY <1>1, <1>4, <1>5 DEF MediaInv, MediaTypes
<1>7. JobInv(r)'
    <2>1. \A j \in job[r].todo : ItemHolds(j)' /\ (j.abandoned => GivenUp(j.asset)')
        BY <1>1, <1>3, <1>5, FactsStay, JobTypes DEF JobInv
    <2> QED BY <1>4, <2>1 DEF JobInv
<1> QED BY <1>4, <1>5, <1>6, <1>7, ReplicaStep

LEMMA PurgeBinaryMedia == ASSUME MediaInv, NEW r \in Replicas, PurgeBinary(r) PROVE Kept
<1>1. job[r].step = "purge" /\ UNCHANGED <<upload, row>> BY DEF PurgeBinary
<1>2. PICK i \in job[r].todo :
        /\ Hold(r, "delete", i)
        /\ binary' = IF i.key THEN [binary EXCEPT ![i.asset] = FALSE] ELSE binary
    BY DEF PurgeBinary
<1>3. i \in Items /\ i.asset \in Assets /\ PastExpiry(i.asset) /\ ItemHolds(i) /\ JobInv(r)
    BY <1>1, JobTypes DEF JobInv
<1>4. /\ job'[r].step = "delete" /\ job'[r].item = i /\ job'[r].todo = job[r].todo \ {i}
      /\ job' \in [Replicas -> WaitingJobs \cup BusyJobs]
      /\ \A q \in Replicas : q # r => job'[q] = job[q]
    BY <1>2, HoldMoves
<1>5. /\ (\A d \in Assets : AssetInv(d)') /\ (\A d \in Assets : AssetAges(d))
      /\ binary' \in [Assets -> BOOLEAN] /\ Removed(i.asset)'
    <2>1. CASE i.key BY <1>1, <1>2, <1>3, <2>1, DiscardFits
    <2>2. CASE ~i.key
        <3>1. UNCHANGED <<upload, row, binary>> BY <1>1, <1>2, <2>2
        <3>2. Removed(i.asset)
            BY <1>3, <2>2, AssetTypes DEF Fits, Named, ItemHolds, Exists, Removed
        <3> QED BY <1>3, <3>1, <3>2, AssetsStay, AssetTypes DEF Removed
    <2> QED BY <2>1, <2>2
<1>6. MediaTypes' BY <1>1, <1>4, <1>5 DEF MediaInv, MediaTypes
<1>7. JobInv(r)'
    <2>1. \A j \in job[r].todo : ItemHolds(j)' /\ PastExpiry(j.asset)'
        BY <1>1, <1>3, <1>5, FactsStay, JobTypes DEF JobInv
    <2> QED BY <1>4, <1>5, <2>1 DEF JobInv
<1> QED BY <1>4, <1>5, <1>6, <1>7, ReplicaStep

(* Only a row whose binary is gone is deleted.                             *)
LEMMA DeleteRowMedia == ASSUME MediaInv, NEW r \in Replicas, DeleteRow(r) PROVE Kept
<1>1. job[r].step = "delete" /\ Continue(r, "purge") /\ UNCHANGED <<upload, binary>>
    BY DEF DeleteRow
<1>2. PICK a \in Assets : a = job[r].item.asset BY <1>1, JobTypes
<1>3. JobInv(r) /\ PastExpiry(a) /\ Removed(a) BY <1>1, <1>2, JobTypes DEF JobInv
<1>4. /\ job'[r].step = "purge" /\ job'[r].todo = job[r].todo
      /\ job' \in [Replicas -> WaitingJobs \cup BusyJobs]
      /\ \A q \in Replicas : q # r => job'[q] = job[q]
    BY <1>1, ContinueMoves
<1>5. /\ (\A d \in Assets : AssetInv(d)') /\ (\A d \in Assets : AssetAges(d))
      /\ row' \in [Assets -> Rows \cup {NoRow}]
    <2>1. CASE ~Expired(a)
        <3>1. UNCHANGED <<upload, row, binary>> BY <1>1, <1>2, <2>1 DEF DeleteRow
        <3> QED BY <3>1, AssetsStay, AssetTypes, <1>2
    <2>2. CASE Expired(a)
        <3>1. row' = [row EXCEPT ![a] = NoRow] BY <1>2, <2>2 DEF DeleteRow
        <3>2. binary[a] \in BOOLEAN /\ Fits(upload[a], row[a], binary[a]) BY AssetTypes
        <3>3. upload[a].pc \in Started BY <1>3 DEF PastExpiry
        <3>4. Fits(upload[a], NoRow, binary[a])
            BY <1>3, <2>2, <3>2, <3>3 DEF Fits, NotStarted, RowIsOfUpload, Stages, Unhindered, Retained, Named, StagesNothing, Removed, Expired, Exists
        <3>5. Ages(upload[a], row[a], binary[a], upload[a], NoRow, binary[a]) BY DEF Ages
        <3>6. binary' = [binary EXCEPT ![a] = binary[a]] /\ upload' = upload BY <1>1, AssetTypes
        <3>7. NoRow \in Rows \cup {NoRow} OBVIOUS
        <3> QED BY ONLY MediaInv, a \in Assets, <3>1, <3>2, <3>4, <3>5, <3>6, <3>7, OneAssetMoves
    <2> QED BY <2>1, <2>2
<1>6. MediaTypes' BY <1>1, <1>4, <1>5 DEF MediaInv, MediaTypes
<1>7. JobInv(r)'
    <2>1. \A j \in job[r].todo : ItemHolds(j)' /\ PastExpiry(j.asset)'
        BY <1>1, <1>3, <1>5, FactsStay, JobTypes DEF JobInv
    <2> QED BY <1>4, <2>1 DEF JobInv
<1> QED BY <1>4, <1>5, <1>6, <1>7, ReplicaStep

LEMMA DiscardFailsMedia == ASSUME MediaInv, NEW r \in Replicas, DiscardFails(r) PROVE Kept
<1>1. UNCHANGED <<upload, row>> BY DEF DiscardFails
<1>2. ASSUME NEW a \in Assets, GivenUp(a) \/ PastExpiry(a),
             binary' \in {binary, [binary EXCEPT ![a] = FALSE]}
      PROVE  /\ (\A d \in Assets : AssetInv(d)') /\ (\A d \in Assets : AssetAges(d))
             /\ binary' \in [Assets -> BOOLEAN]
    <2>1. CASE binary' = binary BY <1>1, <1>2, <2>1, AssetsStay, AssetTypes
    <2>2. CASE binary' = [binary EXCEPT ![a] = FALSE] BY <1>1, <1>2, <2>2, DiscardFits
    <2> QED BY <1>2, <2>1, <2>2
<1>3. CASE job[r].step = "discard"
    <2>1. /\ Continue(r, "reconcile")
          /\ binary' \in {binary, [binary EXCEPT ![job[r].item.asset] = FALSE]}
        BY <1>3 DEF DiscardFails
    <2>2. JobInv(r) /\ job[r].item.asset \in Assets /\ GivenUp(job[r].item.asset)
        BY <1>3, JobTypes DEF JobInv
    <2>3. /\ (\A d \in Assets : AssetInv(d)') /\ (\A d \in Assets : AssetAges(d))
          /\ binary' \in [Assets -> BOOLEAN]
        BY <1>2, <2>1, <2>2
    <2>4. /\ job'[r].step = "reconcile" /\ job'[r].todo = job[r].todo
          /\ job' \in [Replicas -> WaitingJobs \cup BusyJobs]
          /\ \A q \in Replicas : q # r => job'[q] = job[q]
        BY <2>1, ContinueMoves
    <2>5. MediaTypes' BY <1>1, <2>3, <2>4 DEF MediaInv, MediaTypes
    <2>6. \A j \in job[r].todo : ItemHolds(j)' /\ (j.abandoned => GivenUp(j.asset)')
        BY <1>3, <2>2, <2>3, FactsStay, JobTypes DEF JobInv
    <2>7. JobInv(r)' BY <2>4, <2>6 DEF JobInv
    <2> QED BY <2>3, <2>4, <2>5, <2>7, ReplicaStep
<1>4. CASE job[r].step = "purge"
    <2>1. PICK i \in job[r].todo : /\ job' = [job EXCEPT ![r].todo = @ \ {i}]
                                   /\ binary' \in {binary, [binary EXCEPT ![i.asset] = FALSE]}
        BY <1>4 DEF DiscardFails
    <2>2. JobInv(r) /\ i.asset \in Assets /\ PastExpiry(i.asset)
        BY <1>4, JobTypes DEF JobInv
    <2>3. /\ (\A d \in Assets : AssetInv(d)') /\ (\A d \in Assets : AssetAges(d))
          /\ binary' \in [Assets -> BOOLEAN]
        BY <1>2, <2>1, <2>2
    <2>4. /\ job'[r].step = "purge" /\ job'[r].todo = job[r].todo \ {i}
          /\ job' \in [Replicas -> WaitingJobs \cup BusyJobs]
          /\ \A q \in Replicas : q # r => job'[q] = job[q]
        BY <1>4, <2>1, DropMoves
    <2>5. MediaTypes' BY <1>1, <2>3, <2>4 DEF MediaInv, MediaTypes
    <2>6. \A j \in job[r].todo : ItemHolds(j)' /\ PastExpiry(j.asset)'
        BY <1>4, <2>2, <2>3, FactsStay, JobTypes DEF JobInv
    <2>7. JobInv(r)' BY <2>4, <2>6 DEF JobInv
    <2> QED BY <2>3, <2>4, <2>5, <2>7, ReplicaStep
<1> QED BY <1>3, <1>4 DEF DiscardFails

LEMMA EndMedia ==
  ASSUME MediaInv, NEW r \in Replicas, MaintenanceEnds(r) \/ MaintenanceAborts(r) PROVE Kept
<1>1. UNCHANGED <<upload, row, binary>> BY DEF MaintenanceEnds, MaintenanceAborts
<1>2. PICK step \in {"idle", "reconcile"} : job' = [job EXCEPT ![r] = [step |-> step, todo |-> {}]]
    BY DEF MaintenanceEnds, MaintenanceAborts, Idle
<1>3. PICK x : x = [step |-> step, todo |-> {}] OBVIOUS
<1>4. x \in WaitingJobs /\ x.step = step /\ x.todo = {} BY <1>3 DEF WaitingJobs
<1>5. /\ job'[r] = x /\ job' \in [Replicas -> WaitingJobs \cup BusyJobs]
      /\ \A q \in Replicas : q # r => job'[q] = job[q]
    BY <1>2, <1>3, <1>4, JobMoves
<1>6. MediaTypes' BY <1>1, <1>5 DEF MediaInv, MediaTypes
<1>7. JobInv(r)' BY <1>4, <1>5 DEF JobInv
<1> QED BY <1>1, <1>5, <1>6, <1>7, AssetsStay, ReplicaStep

-----------------------------------------------------------------------------
LEMMA InitMedia == MediaInit => MediaInv
<1> SUFFICES ASSUME MediaInit PROVE MediaInv OBVIOUS
<1>1. MediaTypes
    BY DEF MediaInit, MediaTypes, Uploads, Steps, Mode, WaitingJobs, Idle
<1>2. ASSUME NEW a \in Assets PROVE AssetInv(a)
    <2>1. upload[a].pc = "new" /\ row[a] = NoRow /\ ~binary[a] BY DEF MediaInit
    <2> QED BY <2>1 DEF AssetInv, Fits, NotStarted, RowIsOfUpload, Stages, Unhindered, Retained, Named, StagesNothing, Started, InFlight, Over
<1>3. ASSUME NEW r \in Replicas PROVE JobInv(r)
    BY DEF MediaInit, Idle, JobInv
<1> QED BY <1>1, <1>2, <1>3 DEF MediaInv

LEMMA NextMedia == ASSUME MediaInv, [MediaNext]_mediaVars PROVE Kept
<1>1. CASE UNCHANGED mediaVars
    <2>1. UNCHANGED <<upload, row, binary, job>> BY <1>1 DEF mediaVars
    <2>2. MediaTypes' BY <2>1 DEF MediaInv, MediaTypes
    <2>3. (\A a \in Assets : AssetInv(a)') /\ (\A a \in Assets : AssetAges(a))
        BY <2>1, AssetsStay
    <2>4. \A r \in Replicas : JobInv(r)' BY <2>1, <2>3, JobStays
    <2> QED BY <2>2, <2>3, <2>4 DEF MediaInv, Kept
<1>2. ASSUME NEW a \in Assets, UploadStep(a) \/ Crash(a) \/ BecomesStale(a) \/ Expires(a)
      PROVE  Kept
    BY <1>2, AdmitMedia, CreateRowMedia, StageStartsMedia, StageDoneMedia, StageFailsMedia,
       ForwardsMedia, MarkStoredMedia, FinalizeMedia, MarkAssetFailedMedia, GivingUpMedia, AgesMedia
       DEF UploadStep
<1>3. ASSUME NEW r \in Replicas, Cycle(r) \/ DiscardFails(r) \/ MaintenanceAborts(r)
      PROVE  Kept
    BY <1>3, SelectMedia, ClaimStaleMedia, DiscardMedia, ClearKeyMedia, PurgeBinaryMedia,
       DeleteRowMedia, DiscardFailsMedia, EndMedia DEF Cycle
<1> QED BY <1>1, <1>2, <1>3 DEF MediaNext

LEMMA MediaInvariant == MediaSpec => []MediaInv
<1>1. MediaInv /\ [MediaNext]_mediaVars => MediaInv' BY NextMedia DEF Kept
<1> QED BY <1>1, InitMedia, PTL DEF MediaSpec

(* An asset reported ACTIVE has its binary, and a binary of an upload      *)
(* within the threshold has a row that names it, for any number of         *)
(* uploads, replicas, crashes, lost answers and failed deletions.          *)
THEOREM BinariesAlwaysMatchRows == MediaSpec => []BinariesMatchRows
<1>1. MediaInv => BinariesMatchRows
    <2> SUFFICES ASSUME MediaInv PROVE BinariesMatchRows OBVIOUS
    <2>1. ASSUME NEW a \in Assets, Exists(a), ResponseState(row[a]) = "ACTIVE", row[a].mode # "DISABLED"
          PROVE  row[a].key /\ row[a].storedAt /\ binary[a]
        <3>1. row[a].failure = "none" /\ row[a].provider /\ ~row[a].expired
            BY <2>1 DEF ResponseState
        <3> QED BY <2>1, <3>1 DEF MediaInv, AssetInv, Fits, Retained, Exists
    <2>2. ASSUME NEW a \in Assets, binary[a], ~upload[a].slow PROVE Exists(a) /\ row[a].key
        BY <2>2 DEF MediaInv, AssetInv, Fits, Named, Exists
    <2> QED BY <2>1, <2>2 DEF BinariesMatchRows, ActiveIsRetained, NoOrphanBinary
<1> QED BY <1>1, MediaInvariant, PTL

(* Of all who write a row, late and concurrent, nobody turns a failed      *)
(* asset into a usable one or a usable one into a failed one.              *)
THEOREM OutcomesAreFinal == MediaSpec => OutcomeIsFinal
<1>1. ASSUME MediaInv, [MediaNext]_mediaVars, NEW a \in Assets PROVE KeepsOutcome(a)
    <2>1. AssetInv(a) /\ AssetInv(a)' /\ AssetAges(a) BY <1>1, NextMedia DEF Kept, MediaInv
    <2>2. Exists(a) => upload[a].pc \in Started BY <2>1 DEF AssetInv, Fits, NotStarted, Exists
    <2>3. row[a] # NoRow /\ row'[a] # NoRow =>
            /\ row[a].failure # "none" => row'[a].failure # "none"
            /\ row[a].provider => row'[a].provider
        BY <2>1, <2>2 DEF AssetAges, Ages, Exists
    <2>4. row'[a] # NoRow /\ row'[a].provider => row'[a].failure = "none"
        BY <2>1 DEF AssetInv, Fits, RowIsOfUpload
    <2> QED BY <2>3, <2>4 DEF KeepsOutcome, Exists
<1>2. MediaInv /\ [MediaNext]_mediaVars => [\A a \in Assets : KeepsOutcome(a)]_mediaVars
    BY <1>1
<1> QED BY <1>2, MediaInvariant, PTL DEF MediaSpec, OutcomeIsFinal

-----------------------------------------------------------------------------
(* The malware scan.  A reply that ends in OK is clamd's verdict on a file  *)
(* it has got in full, and nothing is written after that; the terminator   *)
(* is the last token of a reply.                                           *)
Tokens == Words \cup {Nul, NewLine}
NoWordAfter(r, i) == \A j \in DOMAIN r : j > i => r[j] \notin Words
EndsInOk(r) == \E i \in DOMAIN r : r[i] = "OK" /\ NoWordAfter(r, i)
TerminatorIsLast(r) == \A i \in DOMAIN r : r[i] \notin Words => i = Len(r)

ScanInv ==
  /\ written \in Nat /\ reply \in Seq(Tokens) /\ got \in 0 .. Len(reply) /\ partial \in BOOLEAN
  /\ partial => got < Len(reply)
  /\ conn \in {"new", "connecting"} => written = 0 /\ ~streaming
  /\ streaming => written < Whole
  /\ TerminatorIsLast(reply)
  /\ EndsInOk(reply) => Scanned
  /\ CleanMeansScanned

LEMMA InitScan == ScanInit => ScanInv
<1>1. <<>> \in Seq(Tokens) /\ ~EndsInOk(<<>>) /\ TerminatorIsLast(<<>>) /\ Len(<<>>) = 0
    BY DEF EndsInOk, TerminatorIsLast
<1>2. ASSUME ScanInit PROVE ScanInv
    <2>1. /\ written = 0 /\ reply = <<>> /\ got = 0 /\ partial = FALSE
          /\ streaming = FALSE /\ outcome = "pending"
        BY <1>2 DEF ScanInit, Silent
    <2>2. got \in 0 .. Len(reply) BY <1>1, <2>1
    <2>3. reply \in Seq(Tokens) /\ TerminatorIsLast(reply) /\ ~EndsInOk(reply) BY <1>1, <2>1
    <2> QED BY <2>1, <2>2, <2>3 DEF ScanInv, CleanMeansScanned
<1> QED BY <1>2

(* Settling with anything but a verdict of clamd's, or with a true one, or  *)
(* with what a cut reply says.                                             *)
LEMMA SettleScan ==
  ASSUME ScanInv, outcome = "pending", NEW o, Settle(o),
         o = "clean" => mode = "disabled" \/ Scanned \/ Cut',
         UNCHANGED <<mode, infected, written, reply>>, streaming' => streaming,
         got' \in 0 .. Len(reply), partial' \in BOOLEAN, partial' => got' < Len(reply)
  PROVE  ScanInv'
<1>1. Scanned' = Scanned /\ Whole' = Whole BY DEF Scanned, Whole
<1>2. conn' = "closed" /\ outcome' = o BY DEF Settle
<1>3. CleanMeansScanned' BY <1>1, <1>2 DEF CleanMeansScanned
<1>4. EndsInOk(reply)' = EndsInOk(reply) /\ TerminatorIsLast(reply)' = TerminatorIsLast(reply)
    BY DEF EndsInOk, TerminatorIsLast, NoWordAfter
<1> QED BY <1>1, <1>2, <1>3, <1>4 DEF ScanInv

(* A text with or without a terminator.                                    *)
LEMMA TerminatedText ==
  ASSUME NEW text \in Seq(Words), Len(text) > 0, NEW end \in {<<Nul>>, <<NewLine>>, <<>>}
  PROVE  /\ text \o end \in Seq(Tokens)
         /\ TerminatorIsLast(text \o end)
         /\ EndsInOk(text \o end) => text[Len(text)] = "OK"
<1>1. PICK n \in Nat : n = Len(text) /\ n > 0 OBVIOUS
<1>2. text \in Seq(Tokens) /\ end \in Seq(Tokens) /\ Len(end) \in 0 .. 1
    <2>1. text \in Seq(Tokens)
        <3>1. text \in [1 .. n -> Words] BY <1>1
        <3>2. text \in [1 .. n -> Tokens] BY <3>1 DEF Tokens
        <3> QED BY <1>1, <3>2
    <2>2. Nul \in Tokens /\ NewLine \in Tokens BY DEF Tokens
    <2>3. <<Nul>> \in Seq(Tokens) /\ <<NewLine>> \in Seq(Tokens) /\ <<>> \in Seq(Tokens) BY <2>2
    <2>4. Len(end) \in 0 .. 1 OBVIOUS
    <2> QED BY <2>1, <2>3, <2>4
<1>3. PICK r : r = text \o end OBVIOUS
<1>4. r \in Seq(Tokens) /\ Len(r) \in {n, n + 1} BY <1>1, <1>2, <1>3
<1>5. \A i \in 1 .. n : r[i] = text[i] /\ r[i] \in Words BY <1>1, <1>2, <1>3
<1>6. TerminatorIsLast(r) BY <1>1, <1>4, <1>5 DEF TerminatorIsLast
<1>7. ASSUME NEW i \in DOMAIN r, r[i] = "OK", NoWordAfter(r, i) PROVE text[n] = "OK"
    <2>1. Len(r) = n + 1 => r[n + 1] \in {Nul, NewLine}
        BY <1>1, <1>2, <1>3
    <2>2. i # n + 1 BY <1>4, <1>7, <2>1 DEF Nul, NewLine
    <2>3. i \in 1 .. n BY <1>1, <1>4, <2>2
    <2>4. ~(i < n) BY <1>1, <1>4, <1>5, <1>7, <2>3 DEF NoWordAfter
    <2> QED BY <1>1, <1>5, <1>7, <2>3, <2>4
<1> QED BY <1>1, <1>3, <1>4, <1>6, <1>7 DEF EndsInOk

LEMMA AnswerScan == ASSUME ScanInv, Answer PROVE ScanInv'
<1>1. UNCHANGED <<mode, infected, conn, written, streaming, got, partial, ended, outcome>>
    BY DEF Answer
<1>2. Len(reply) = 0 /\ got = 0 /\ ~partial /\ ~Cut BY DEF Answer, Silent, ScanInv, Cut
<1>3. reply' \in Seq(Tokens) /\ TerminatorIsLast(reply') /\ (EndsInOk(reply') => Scanned)
    <2>1. PICK end \in {<<Nul>>, <<NewLine>>, <<>>} :
            \/ /\ written = Whole /\ ~infected
               /\ reply' = <<"stream:", "OK">> \o end
            \/ \E name \in SignatureNames : reply' = <<"stream:">> \o name \o <<"FOUND">> \o end
            \/ \E text \in ErrorTexts : reply' = text \o <<"text">> \o end
        BY DEF Answer
    <2>2. CASE written = Whole /\ ~infected /\ reply' = <<"stream:", "OK">> \o end
        <3>1. <<"stream:", "OK">> \in Seq(Words) /\ Len(<<"stream:", "OK">>) > 0 BY DEF Words
        <3> QED BY <2>2, <3>1, TerminatedText DEF Scanned
    <2>3. ASSUME NEW name \in SignatureNames, reply' = <<"stream:">> \o name \o <<"FOUND">> \o end
          PROVE  reply' \in Seq(Tokens) /\ TerminatorIsLast(reply') /\ ~EndsInOk(reply')
        <3>1. name \in Seq(Words) BY ScanAssumption
        <3>2. PICK text : text = <<"stream:">> \o name \o <<"FOUND">> OBVIOUS
        <3>3. text \in Seq(Words) /\ Len(text) > 0 /\ text[Len(text)] = "FOUND"
            BY <3>1, <3>2 DEF Words
        <3> QED BY <2>3, <3>2, <3>3, TerminatedText
    <2>4. ASSUME NEW error \in ErrorTexts, reply' = error \o <<"text">> \o end
          PROVE  reply' \in Seq(Tokens) /\ TerminatorIsLast(reply') /\ ~EndsInOk(reply')
        <3>1. error \in Seq(Words) BY ScanAssumption
        <3>2. PICK text : text = error \o <<"text">> OBVIOUS
        <3>3. text \in Seq(Words) /\ Len(text) > 0 /\ text[Len(text)] = "text"
            BY <3>1, <3>2 DEF Words
        <3> QED BY <2>4, <3>2, <3>3, TerminatedText
    <2> QED BY <2>1, <2>2, <2>3, <2>4
<1>4. CleanMeansScanned' BY <1>1, <1>2 DEF ScanInv, CleanMeansScanned, Scanned, Whole
<1>5. got' \in 0 .. Len(reply') BY <1>1, <1>2, <1>3
<1> QED BY <1>1, <1>2, <1>3, <1>4, <1>5 DEF ScanInv, Scanned, Whole, EndsInOk, NoWordAfter, TerminatorIsLast

(* What has been received of a reply.                                      *)
LEMMA ReceivedPart ==
  ASSUME NEW r \in Seq(Tokens), NEW n \in 0 .. Len(r), NEW p \in BOOLEAN, NEW s,
         s = SubSeq(r, 1, n) \o (IF p THEN <<"text">> ELSE <<>>)
  PROVE  /\ s \in Seq(Tokens)
         /\ Len(s) = (IF p THEN n + 1 ELSE n)
         /\ \A i \in 1 .. n : s[i] = r[i]
         /\ p => s[n + 1] = "text"
<1>1. PICK f : f = SubSeq(r, 1, n) OBVIOUS
<1>2. f \in Seq(Tokens) /\ Len(f) = n /\ \A i \in 1 .. n : f[i] = r[i] BY <1>1
<1>3. CASE p
    <2>1. s = f \o <<"text">> /\ <<"text">> \in Seq(Tokens) BY <1>1, <1>3 DEF Tokens, Words
    <2> QED BY <1>2, <1>3, <2>1
<1>4. CASE ~p
    <2>1. s = f \o <<>> /\ <<>> \in Seq(Tokens) BY <1>1, <1>4
    <2> QED BY <1>2, <1>4, <2>1
<1> QED BY <1>3, <1>4

(* A response that ends in OK after nothing but words: that OK is in the   *)
(* reply, and the response does not break off in a word.                   *)
LEMMA OkIsReceived ==
  ASSUME NEW r \in Seq(Tokens), NEW n \in 0 .. Len(r), NEW p \in BOOLEAN, NEW s,
         s = SubSeq(r, 1, n) \o (IF p THEN <<"text">> ELSE <<>>),
         NEW i \in DOMAIN s, s[i] = "OK", NoWordAfter(s, i)
  PROVE  ~p /\ i \in 1 .. n /\ r[i] = "OK" /\ \A j \in 1 .. n : j > i => r[j] \notin Words
<1>1. /\ s \in Seq(Tokens)
      /\ Len(s) = (IF p THEN n + 1 ELSE n)
      /\ \A j \in 1 .. n : s[j] = r[j]
      /\ p => s[n + 1] = "text"
    BY ReceivedPart
<1>2. PICK m \in Nat : m = n OBVIOUS
<1>3. ~p
    <2>1. SUFFICES ASSUME p PROVE FALSE OBVIOUS
    <2>2. n + 1 \in DOMAIN s /\ s[n + 1] = "text" BY <1>1, <1>2, <2>1
    <2>3. i # n + 1 BY <2>2
    <2>4. n + 1 > i BY <1>1, <1>2, <2>1, <2>3
    <2> QED BY <2>2, <2>4 DEF NoWordAfter, Words
<1>4. DOMAIN s = 1 .. n BY <1>1, <1>2, <1>3
<1> QED BY <1>1, <1>3, <1>4 DEF NoWordAfter

(* A reply that is evaluated because of its terminator has come in full.   *)
LEMMA TerminatedIsWhole ==
  ASSUME NEW r \in Seq(Tokens), TerminatorIsLast(r), NEW n \in 0 .. Len(r), NEW p \in BOOLEAN,
         p => n < Len(r), NEW s, s = SubSeq(r, 1, n) \o (IF p THEN <<"text">> ELSE <<>>),
         Terminated(s), SaysOk(s, BeforeNul(s))
  PROVE  EndsInOk(r)
<1>1. /\ s \in Seq(Tokens)
      /\ Len(s) = (IF p THEN n + 1 ELSE n)
      /\ \A i \in 1 .. n : s[i] = r[i]
      /\ p => s[n + 1] = "text"
    BY ReceivedPart
<1>2. PICK m \in Nat, l \in Nat : m = n /\ l = Len(r) /\ m <= l OBVIOUS
<1>3. PICK e \in DOMAIN s : s[e] \in {Nul, NewLine} BY DEF Terminated
<1>4. e \in 1 .. n
    <2>1. ~(p /\ e = n + 1) BY <1>1, <1>3 DEF Nul, NewLine
    <2> QED BY <1>1, <1>2, <2>1
<1>5. r[e] \notin Words /\ e \in DOMAIN r BY <1>1, <1>2, <1>3, <1>4 DEF Words, Nul, NewLine
<1>6. n = Len(r) /\ ~p BY <1>2, <1>4, <1>5 DEF TerminatorIsLast
<1>7. PICK i \in BeforeNul(s) : s[i] = "OK" /\ EndsAt(s, BeforeNul(s), i) BY DEF SaysOk
<1>8. i \in DOMAIN s /\ DOMAIN s = DOMAIN r /\ \A j \in DOMAIN r : s[j] = r[j]
    BY <1>1, <1>2, <1>6, <1>7 DEF BeforeNul
<1>9. ASSUME NEW j \in DOMAIN r, j > i, r[j] \in Words PROVE FALSE
    <2>1. \A k \in 1 .. j : s[k] # Nul
        <3>1. SUFFICES ASSUME NEW k \in 1 .. j, s[k] = Nul PROVE FALSE OBVIOUS
        <3>2. k \in DOMAIN r /\ r[k] \notin Words
            BY <1>2, <1>8, <1>9, <3>1 DEF Words, Nul
        <3>3. k = Len(r) BY <3>2 DEF TerminatorIsLast
        <3> QED BY <1>2, <1>9, <3>2, <3>3
    <2>2. s[j] = NewLine BY <1>7, <1>8, <1>9, <2>1 DEF EndsAt, BeforeNul
    <2> QED BY <1>8, <1>9, <2>2 DEF Words, NewLine
<1> QED BY <1>7, <1>8, <1>9 DEF EndsInOk, NoWordAfter

LEMMA OnDataScan == ASSUME ScanInv, OnData PROVE ScanInv'
<1>1. PICK n \in got .. Len(reply), p \in BOOLEAN :
        (p => n < Len(reply)) /\ got' = n /\ partial' = p
    BY DEF OnData
<1>2. UNCHANGED <<mode, infected, written, streaming, reply, ended>> /\ outcome = "pending"
    BY DEF OnData, Listening
<1>3. n \in 0 .. Len(reply) BY <1>1 DEF ScanInv
<1>4. Response' = SubSeq(reply, 1, n) \o (IF p THEN <<"text">> ELSE <<>>)
    BY <1>1, <1>2 DEF Response
<1>5. Terminated(Response') /\ FinishFromResponse(Response', BeforeNul(Response')) = "clean" => Scanned
    <2>1. FinishFromResponse(Response', BeforeNul(Response')) = "clean"
            => SaysOk(Response', BeforeNul(Response'))
        BY DEF FinishFromResponse
    <2> QED BY <1>1, <1>3, <1>4, <2>1, TerminatedIsWhole DEF ScanInv
<1>6. CASE UNCHANGED <<outcome, conn>>
    BY <1>1, <1>2, <1>3, <1>6 DEF ScanInv, CleanMeansScanned, Scanned, EndsInOk, NoWordAfter,
                                  TerminatorIsLast, Whole
<1>7. ASSUME NEW o, Settle(o), o = "clean" => Scanned PROVE ScanInv'
    BY <1>1, <1>2, <1>3, <1>7, SettleScan
<1> QED BY <1>5, <1>6, <1>7 DEF OnData

(* At the end of the connection: the OK was the last word, or words are    *)
(* missing.                                                                *)
LEMMA OnEndScan == ASSUME ScanInv, OnEnd PROVE ScanInv'
<1>1. PICK o : /\ Settle(o)
               /\ \/ o = FinishFromResponse(Response, WithoutNuls(Response))
                  \/ o = "SCANNER_UNAVAILABLE"
    BY DEF OnEnd
<1>2. /\ UNCHANGED <<mode, infected, written, streaming, reply, got, partial>>
      /\ ended' /\ outcome = "pending"
    BY DEF OnEnd, Listening
<1>3. o = "clean" => Scanned \/ Cut'
    <2>1. SUFFICES ASSUME SaysOk(Response, WithoutNuls(Response)), ~Cut' PROVE Scanned
        BY <1>1 DEF FinishFromResponse
    <2>2. PICK i \in WithoutNuls(Response) :
            Response[i] = "OK" /\ EndsAt(Response, WithoutNuls(Response), i)
        BY <2>1 DEF SaysOk
    <2>3. i \in DOMAIN Response /\ NoWordAfter(Response, i)
        BY <2>2 DEF WithoutNuls, EndsAt, NoWordAfter, Words, Nul, NewLine
    <2>4. i \in 1 .. got /\ reply[i] = "OK" /\ \A j \in 1 .. got : j > i => reply[j] \notin Words
        <3>1. Response = SubSeq(reply, 1, got) \o (IF partial THEN <<"text">> ELSE <<>>)
            BY DEF Response
        <3> QED BY <2>2, <2>3, <3>1, OkIsReceived DEF ScanInv
    <2>5. \A j \in got + 1 .. Len(reply) : reply[j] \notin Words BY <1>2, <2>1 DEF Cut
    <2>6. NoWordAfter(reply, i) /\ i \in DOMAIN reply
        BY <2>4, <2>5 DEF NoWordAfter, ScanInv
    <2> QED BY <2>4, <2>6 DEF EndsInOk, ScanInv
<1> QED BY <1>1, <1>2, <1>3, SettleScan DEF ScanInv

LEMMA NextScan == ASSUME ScanInv, [ScanNext]_scanVars PROVE ScanInv'
<1> USE DEF ScanInv, CleanMeansScanned, Scanned, Cut, EndsInOk, NoWordAfter, TerminatorIsLast, replyVars
<1>1. CASE UNCHANGED scanVars BY <1>1 DEF scanVars, Whole
<1>2. CASE Scan BY <1>2 DEF Scan, Settle, Whole
<1>3. CASE OnConnect BY <1>3, ScanAssumption DEF OnConnect, Whole
<1>4. CASE WriteChunk
    <2>1. /\ streaming /\ conn = "open" /\ written' = written + 1 /\ (streaming' <=> written' < Whole)
          /\ UNCHANGED <<mode, infected, conn, reply, got, partial, ended, outcome>>
        BY <1>4 DEF WriteChunk
    <2>2. written < Whole /\ Whole \in Nat BY <2>1, ScanAssumption DEF Whole
    <2>3. ~EndsInOk(reply) /\ (outcome = "clean" /\ mode # "disabled" => Cut)
        BY <2>2
    <2> QED BY <2>1, <2>2, <2>3 DEF Whole
<1>5. CASE StreamFails BY <1>5 DEF StreamFails, Settle, Whole
<1>6. CASE OnError \/ OnTimeout BY <1>6 DEF OnError, OnTimeout, Settle, Listening, Whole
<1> QED BY <1>1, <1>2, <1>3, <1>4, <1>5, <1>6, AnswerScan, OnDataScan, OnEndScan DEF ScanNext

(* With the scanner on, no order of socket events, failures and timeouts   *)
(* and no cut of the reply into pieces lets a file of any size through     *)
(* that was not streamed in full and found clean, for any signature names  *)
(* and error texts, unless clamd ends the connection within its reply.     *)
THEOREM ScanFailsClosed == ScanSpec => []CleanMeansScanned
<1>1. ScanInv => CleanMeansScanned BY DEF ScanInv
<1> QED BY <1>1, InitScan, NextScan, PTL DEF ScanSpec
=============================================================================
