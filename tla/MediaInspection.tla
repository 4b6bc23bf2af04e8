--------------------------- MODULE MediaInspection ---------------------------
(***************************************************************************)
(* assertMediaContentSignature: an uploaded file is read unit by unit by   *)
(* the inspection of its declared type.  The file is chosen as it is read: *)
(* lead is what holds of it as a whole, file the units read so far.  A     *)
(* file that is refused is refused whatever follows.                       *)
(***************************************************************************)
EXTENDS ImageInspection, AudioInspection, FrameInspection, DocumentInspection

CONSTANTS Leads,      \* Leads[k]: the facts about whole files of kind k to try
          Units,      \* Units[k]: the units a file of kind k may consist of
          MaxUnits    \* MaxUnits[k]: units to read of a file of kind k

(***************************************************************************)
(* What a unit of each kind holds.                                         *)
(***************************************************************************)
PngChunks == [type : STRING, length : Nat, letters : BOOLEAN, fits : BOOLEAN, crc : BOOLEAN,
           colour : Nat, depth : Nat, sane : BOOLEAN]

JpegMarkers == [marker : STRING, length : Nat, components : Nat, sane : BOOLEAN,
            synced : BOOLEAN, fits : BOOLEAN]

OggPages == [serial : Nat, sequence : Nat, bos : BOOLEAN, eos : BOOLEAN, continued : BOOLEAN,
             lacing : Seq(Nat), granule : Int, content : STRING, header : BOOLEAN, crc : BOOLEAN]

PacketInputs == [code : 0 .. 3, config : 0 .. 31, vbr : BOOLEAN, padding : Nat \cup {None},
                 delta : Int, sizes : Seq(Nat)]

EndRecords == [fits : BOOLEAN, single : BOOLEAN, contiguous : BOOLEAN, total : Nat, bytes : Nat]
DirectoryEntries == [name : STRING, plain : BOOLEAN, length : Nat,
                     local : [inside : BOOLEAN, plain : BOOLEAN, name : STRING]]

AdtsFrames == [sync : BOOLEAN, protected : BOOLEAN, rate : 0 .. 15, length : Nat]
AmrFrames == [clean : BOOLEAN, type : 0 .. 15, padding : Nat]
MpegFrames == [sync : BOOLEAN, version : 0 .. 3, layer : 0 .. 3, bitrate : 0 .. 15,
               rate : 0 .. 3, padding : 0 .. 1, emphasis : 0 .. 3]
Id3Tags == [present : BOOLEAN, version : Nat, revision : BOOLEAN, synchsafe : BOOLEAN,
            payload : Nat, footer : BOOLEAN]

AdifPrograms == [rate : 0 .. 15, elements : 0 .. 45, lfe : 0 .. 3, assoc : 0 .. 7, cc : 0 .. 15,
                 mono : 0 .. 1, stereo : 0 .. 1, matrix : 0 .. 1, comment : 0 .. 255]

Boxes == [type : STRING, size32 : Nat, size64 : Nat, printable : BOOLEAN,
          brands : SUBSET STRING]

ASSUME UnitTypes ==
  /\ Units["png"] \subseteq PngChunks
  /\ Units["jpeg"] \subseteq JpegMarkers
  /\ Units["ogg"] \subseteq OggPages /\ Units["opus"] \subseteq OggPages
  /\ Units["package"] \subseteq DirectoryEntries
  /\ Units["adts"] \subseteq AdtsFrames
  /\ Units["amr"] \subseteq AmrFrames
  /\ Units["mpeg"] \subseteq MpegFrames
  /\ Units["adif"] \subseteq AdifPrograms
  /\ Units["bmff"] \subseteq Boxes
  /\ \A u \in Units["pdf"] : u.token = "section" => u.xref \in Nat

ASSUME LeadTypes ==
  /\ \A l \in Leads["package"] : l.ends \in Seq(EndRecords) /\ l.family \in Family
  /\ Leads["adts"] \subseteq [size : Nat]
  /\ Leads["amr"] \subseteq [size : Nat, wideband : BOOLEAN]
  /\ Leads["mpeg"] \subseteq [size : Nat, id3v1 : BOOLEAN, id3v2 : Id3Tags]
  /\ Leads["frame"] \subseteq MpegFrames
  /\ \A l \in Leads["packet"] : l \in PacketInputs /\ Encodable(l.code, l.vbr, l.sizes, l.padding)
  /\ Leads["adif"] \subseteq [size : Nat, copyright : BOOLEAN, constantRate : BOOLEAN,
                              programs : 1 .. 16]
  /\ Leads["bmff"] \subseteq [size : Nat, mime : STRING]

ASSUME LimitTypes ==
  {PNG_MAX_CHUNKS, JPEG_MAX_HEADER_MARKERS, OGG_MAX_PAGES, MAX_TAG_BYTES, MAX_AUDIO_PACKET_BYTES,
   MAX_AUDIO_PACKETS, MAX_FRAMES, MAX_TOP_LEVEL_BOXES, MAX_FILE_TYPE_BOX_BYTES,
   MAX_LEADING_BOXES, INSPECTION_BYTES, PDF_HEADER_SEARCH, PDF_TAIL_SEARCH} \subseteq Nat

VARIABLES kind, lead, file, scan

inspectionVars == <<kind, lead, file, scan>>

Kinds == {"png", "jpeg", "ogg", "opus", "packet", "adts", "amr", "mpeg", "frame",
          "adif", "bmff", "pdf", "package"}

Start(k, l) ==
  CASE k = "png" -> PngStart
    [] k = "jpeg" -> JpegStart
    [] k = "ogg" -> OggStart
    [] k = "opus" -> OggOpusStart
    [] k = "adts" -> WalkStart(l.size >= 5, 0)
    [] k = "amr" -> WalkStart(l.size > 6 /\ AmrMagicBytes(l.wideband) <= l.size,
                              AmrMagicBytes(l.wideband))
    [] k = "mpeg" -> MpegStart(l)
    [] k = "adif" -> AdifStart(l)
    [] k = "bmff" -> BoxStart(l)
    [] k = "package" -> ZipStart(l)
    [] k \in {"pdf", "packet", "frame"} -> [ok |-> TRUE]

(***************************************************************************)
(* The conditions of the loops.                                            *)
(***************************************************************************)
Reads ==
  /\ scan.ok
  /\ CASE kind \in {"adts", "amr"} -> WalkReads(scan, lead.size)
       [] kind = "mpeg" -> WalkReads(scan, MpegEnd(lead))
       [] kind = "adif" -> scan.programs < lead.programs
       [] kind = "bmff" -> BoxReads(lead, scan)
       [] kind \in {"packet", "frame"} -> FALSE
       [] OTHER -> TRUE

Step(u) ==
  CASE kind = "png" -> PngStep(scan, u)
    [] kind = "jpeg" -> JpegStep(scan, u)
    [] kind = "ogg" -> OggStep(scan, u)
    [] kind = "opus" -> OggOpusStep(scan, u)
    [] kind = "adts" -> WalkStep(scan, lead.size, lead.size, 7, AdtsFrameLength(u))
    [] kind = "amr" -> WalkStep(scan, lead.size, lead.size, 1, AmrFrameLength(lead.wideband, u))
    [] kind = "mpeg" -> WalkStep(scan, lead.size, MpegEnd(lead), 4, MpegAudioFrameLength(u))
    [] kind = "adif" -> ParseProgramConfigElement(lead, scan, u)
    [] kind = "bmff" -> BoxStep(lead, scan, u)
    [] kind = "package" -> ZipStep(scan, u)
    [] kind = "pdf" -> scan

InspectionInit ==
  /\ kind \in Kinds
  /\ lead \in Leads[kind]
  /\ file = <<>>
  /\ scan = Start(kind, lead)

ReadUnit(u) ==
  /\ Reads
  /\ Len(file) < MaxUnits[kind]
  /\ file' = Append(file, u)
  /\ scan' = Step(u)
  /\ UNCHANGED <<kind, lead>>

InspectionNext == \E u \in Units[kind] : ReadUnit(u)

InspectionSpec == InspectionInit /\ [][InspectionNext]_inspectionVars

-----------------------------------------------------------------------------
(***************************************************************************)
(* The verdict of a scan never contradicts the reference: the loop goes on *)
(* exactly while the units are a prefix of a well-formed file, and accepts *)
(* a file that ends here exactly when it is one.                           *)
(***************************************************************************)
Agrees(ok, prefix, accepts, whole) == (ok <=> prefix) /\ (accepts <=> whole)

(***************************************************************************)
(* matchesPngStructure decides the chunk grammar of PNG: one header, at    *)
(* most one palette of a legal size before the data, contiguous data, end. *)
(***************************************************************************)
PngIsGrammar ==
  kind = "png" => Agrees(scan.ok, PngPrefix(file), PngAccepts(scan), IsPng(file))

(***************************************************************************)
(* matchesJpegStructure accepts exactly the files with a frame before the  *)
(* first scan, legal headers up to it, scan data after it, and an end.     *)
(***************************************************************************)
JpegIsGrammar ==
  kind = "jpeg" => Agrees(scan.ok, JpegPrefix(file), JpegAccepts(scan), IsJpeg(file))

(***************************************************************************)
(* However pages of several logical streams interleave, matchesOggStructure*)
(* accepts a file exactly when every stream by itself is whole.            *)
(***************************************************************************)
OggStreamsAreWhole ==
  kind = "ogg" => Agrees(scan.ok, OggPrefix(file), OggAccepts(scan), IsOgg(file))

(***************************************************************************)
(* With the Opus profile a file is one stream: head, tags, audio packets   *)
(* across any pages, within their limits.                                  *)
(***************************************************************************)
OpusIsOneStream ==
  kind = "opus" => Agrees(scan.ok, OpusPrefix(file), OggOpusAccepts(scan), IsOpus(file))

(***************************************************************************)
(* matchesOpusPacketFraming accepts a packet exactly when it is the        *)
(* encoding of frames of legal size and total duration: lead is the        *)
(* encoder's input, and delta bytes appended to or cut from its output.    *)
(***************************************************************************)
OpusFramesTile ==
  kind = "packet" =>
    LET packet == Encode(lead.code, lead.config, lead.vbr, lead.sizes, lead.padding)
        n == Len(lead.sizes)
        body == Total(lead.sizes) + lead.delta
        implied == IF lead.code = 2 \/ lead.vbr
                     THEN [lead.sizes EXCEPT ![n] = @ + lead.delta]
                     ELSE [i \in 1 .. n |-> IF body % n = 0 THEN body \div n ELSE MAX_FRAME_BYTES + 1]
    IN MatchesOpusPacketFraming([packet EXCEPT !.size = @ + lead.delta])
       <=> n > 0 /\ body >= 0 /\ (\A i \in 1 .. n : implied[i] >= 0) /\ Legal(lead.config, implied)

(***************************************************************************)
(* ADTS, AMR and MPEG files are accepted exactly when frames with legal    *)
(* headers, at most so many, fill the space between the tags, to the byte. *)
(***************************************************************************)
FramesTile(most) ==
  kind \in {"adts", "amr", "mpeg"} =>
    LET length(u) == CASE kind = "adts" -> AdtsFrameLength(u)
                       [] kind = "amr" -> AmrFrameLength(lead.wideband, u)
                       [] kind = "mpeg" -> MpegAudioFrameLength(u)
        begin == CASE kind = "adts" -> 0
                   [] kind = "amr" -> AmrMagicBytes(lead.wideband)
                   [] kind = "mpeg" -> MpegOffset(lead)
        end == IF kind = "mpeg" THEN MpegEnd(lead) ELSE lead.size
        lengths == [i \in DOMAIN file |-> length(file[i])]
        legal == \A i \in DOMAIN file : lengths[i] > 0
    IN /\ scan.ok => legal /\ begin + Total(lengths) <= end
       /\ WalkAccepts(scan, end) <=>
            /\ Start(kind, lead).ok /\ legal /\ begin + Total(lengths) = end
            /\ Len(file) \in 1 .. most

(***************************************************************************)
(* The walks stop at MAX_FRAMES frames and then refuse the file, so that   *)
(* the most they accept is one less.                                       *)
(***************************************************************************)
FramesTileTheFile == FramesTile(MAX_FRAMES - 1)

(***************************************************************************)
(* docs/media-audio-structure-validation.md requires of AAC and AMR "at    *)
(* most 100,000 frames" and of MPEG audio "a maximum of 100,000 frames".   *)
(***************************************************************************)
DocumentedFrameLimit == FramesTile(MAX_FRAMES)

(***************************************************************************)
(* Every length mpegAudioFrameLength computes is that of the samples the   *)
(* header announces, at its bit rate; so the walk always moves on.         *)
(***************************************************************************)
FrameLengthMatchesBitrate ==
  kind = "frame" => (MpegHeaderValid(lead) => CarriesItsSamples(lead))

(***************************************************************************)
(* The ADIF reader, field by field, ends where the header's closed form    *)
(* says, and never beyond the file.                                        *)
(***************************************************************************)
AdifHeaderFits ==
  kind = "adif" =>
    /\ scan.ok <=> AdifPrefix(lead, file)
    /\ scan.ok => scan.pos = HeaderEnd(lead, file)
    /\ AdifAccepts(lead, scan) <=>
         /\ AdifPrefix(lead, file) /\ Len(file) = lead.programs
         /\ HeaderEnd(lead, file) < 8 * lead.size

(***************************************************************************)
(* Signature and structure of ISO BMFF together accept exactly the files   *)
(* whose boxes tile them, with one leading ftyp of the declared family.    *)
(***************************************************************************)
BoxesTileTheFile ==
  kind = "bmff" =>
    Agrees(scan.ok, BoxPrefix(lead, file), BoxAccepts(lead, scan), IsBmff(lead, file))

(***************************************************************************)
(* A PDF is accepted exactly when its last section, with nothing after it, *)
(* points into the file at a cross-reference.                              *)
(***************************************************************************)
PdfIsAnchored == kind = "pdf" => (MatchesPdfStructure(file) <=> IsPdf(file))

(***************************************************************************)
(* An Office package is accepted only as the family it is: no name twice,  *)
(* no second family, and local headers that agree with the directory, for  *)
(* the directory that the last complete end record names.                  *)
(***************************************************************************)
PackageIsOneFamily ==
  kind = "package" =>
    Agrees(scan.ok, ZipPrefix(lead, file), ZipAccepts(lead, scan), IsPackage(lead, file))

(***************************************************************************)
(* The containers: whatever file is offered, the verdict of the inspection *)
(* is that of the format's grammar.                                        *)
(***************************************************************************)
VerdictIsGrammar ==
  /\ PngIsGrammar /\ JpegIsGrammar
  /\ OggStreamsAreWhole /\ OpusIsOneStream
  /\ PdfIsAnchored /\ PackageIsOneFamily

(***************************************************************************)
(* The walks by declared lengths: what they accept fills the file to the   *)
(* last byte, and the lengths they compute are those of the format.        *)
(***************************************************************************)
LengthsTileTheFile ==
  /\ OpusFramesTile /\ FramesTileTheFile /\ FrameLengthMatchesBitrate
  /\ AdifHeaderFits /\ BoxesTileTheFile
=============================================================================
