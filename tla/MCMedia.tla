------------------------------ MODULE MCMedia ------------------------------
(* Three questions: the life of an asset, the verdict on its content, and   *)
(* the malware scan of one upload.  MCServices asks them beside its own.    *)
EXTENDS MediaAsset, MediaInspection, MalwareScan

VARIABLE question

-----------------------------------------------------------------------------
(* Image units: each legal variant, and each single defect.                 *)
Chunk(type, length) ==
  [type |-> type, length |-> length, letters |-> TRUE, fits |-> TRUE, crc |-> TRUE,
   colour |-> 255, depth |-> 0, sane |-> TRUE]
Ihdr(colour, depth) == [Chunk("IHDR", 13) EXCEPT !.colour = colour, !.depth = depth]
PngUnits ==
  {Ihdr(0, 16), Ihdr(2, 8), Ihdr(3, 1), Ihdr(3, 8), Ihdr(3, 16), Ihdr(1, 8),
   [Ihdr(2, 8) EXCEPT !.length = 12], [Ihdr(2, 8) EXCEPT !.sane = FALSE]}
  \cup {Chunk("PLTE", n) : n \in {0, 6, 7, 9, 768, 771}}
  \cup {Chunk("IDAT", 5), Chunk("IEND", 0), Chunk("IEND", 1), Chunk("tEXt", 1),
        Chunk("critical", 1), [Chunk("IDAT", 5) EXCEPT !.crc = FALSE],
        [Chunk("tEXt", 1) EXCEPT !.fits = FALSE], [Chunk("tEXt", 1) EXCEPT !.letters = FALSE]}

Segment(marker, length, components) ==
  [marker |-> marker, length |-> length, components |-> components, sane |-> TRUE,
   synced |-> TRUE, fits |-> TRUE]
JpegUnits ==
  {Segment("SOI", 0, 0), Segment("SOF", 11, 1), Segment("SOF", 12, 1), Segment("SOF", 8, 0),
   [Segment("SOF", 11, 1) EXCEPT !.sane = FALSE], Segment("SOS", 8, 1), Segment("SOS", 6, 0),
   Segment("SOS", 9, 1), Segment("RST", 0, 0), Segment("APP", 2, 0), Segment("APP", 1, 0),
   [Segment("APP", 2, 0) EXCEPT !.fits = FALSE], [Segment("APP", 2, 0) EXCEPT !.synced = FALSE],
   Segment("stuffed", 0, 0), Segment("EOI", 0, 0)}

-----------------------------------------------------------------------------
(* Ogg pages: any flags, numbers and lacing; Opus pages in one or two       *)
(* streams with right and wrong contents and positions.                     *)
Page == [serial |-> 1, sequence |-> 0, bos |-> FALSE, eos |-> FALSE, continued |-> FALSE,
         lacing |-> <<1>>, granule |-> 0, content |-> "audio", header |-> TRUE, crc |-> TRUE]
OggUnits ==
  {[Page EXCEPT !.serial = x, !.sequence = n, !.bos = b, !.eos = e, !.continued = c, !.lacing = l] :
     x \in 1 .. 2, n \in 0 .. 2, b, e, c \in BOOLEAN, l \in {<<>>, <<1>>, <<255>>}}
  \cup {[Page EXCEPT !.bos = TRUE, !.crc = FALSE], [Page EXCEPT !.bos = TRUE, !.header = FALSE]}
OpusUnits ==
  {[Page EXCEPT !.sequence = n, !.bos = n = 0, !.eos = e, !.continued = c, !.lacing = l,
                !.granule = g, !.content = k] :
     n \in 0 .. 3, e, c \in BOOLEAN, g \in {-1, 0, 7}, k \in {"head", "tags", "audio"},
     l \in {<<>>, <<19>>, <<255>>, <<255, 1>>, <<255, 255>>, <<1, 1>>}}
  \cup {[Page EXCEPT !.serial = 2, !.bos = TRUE, !.lacing = <<19>>, !.content = "head"]}
  \cup {[Page EXCEPT !.sequence = 2, !.lacing = l, !.granule = -2] : l \in {<<19>>, <<255>>}}

Packets ==
  {l \in [code : 0 .. 3, config : {0, 3, 13, 16, 19}, vbr : BOOLEAN,
          padding : {None, 0, 1, 254, 255}, delta : {-1, 0, 1},
          sizes : {<<>>, Copies(48, 1), Copies(49, 1)} \cup {<<a>> : a \in {0, 1, 1275, 1276}}
                  \cup {<<a, b>> : a, b \in {0, 1, 251, 252, 255, 256, 1275, 1276}}
                  \cup {<<a, b, c>> : a, b, c \in {1, 252, 1275, 1276}}] :
     Encodable(l.code, l.vbr, l.sizes, l.padding)}

-----------------------------------------------------------------------------
(* Frames, and sizes around the sums of their lengths.                      *)
AdtsUnits == [sync : BOOLEAN, protected : BOOLEAN, rate : {12, 13}, length : {0, 7, 8, 9, 10}]
AmrUnits == [clean : BOOLEAN, type : {7, 8, 9, 10, 14, 15}, padding : {0, 1}]

Header(version, layer, bitrate, rate, padding) ==
  [sync |-> TRUE, version |-> version, layer |-> layer, bitrate |-> bitrate, rate |-> rate,
   padding |-> padding, emphasis |-> 0]
MpegHeaders == [sync : BOOLEAN, version : 0 .. 3, layer : 0 .. 3, bitrate : 0 .. 15,
                rate : 0 .. 3, padding : 0 .. 1, emphasis : {0, 2}]
(* Frames of 32, 48, 96 and 97 bytes, and one that is not a frame.           *)
MpegUnits == {Header(3, 3, 1, 1, 0), Header(2, 1, 1, 1, 0), Header(0, 1, 1, 1, 0),
              Header(3, 1, 1, 1, 0), Header(3, 1, 1, 1, 1), Header(3, 1, 0, 1, 0)}
NoTag == [present |-> FALSE, version |-> 4, revision |-> TRUE, synchsafe |-> TRUE,
          payload |-> 0, footer |-> FALSE]
MpegLeads ==
  [size : {3, 4, 48, 95, 96, 97, 106, 116, 128, 176, 192, 224, 234, 244}, id3v1 : BOOLEAN,
   id3v2 : {NoTag, [NoTag EXCEPT !.present = TRUE],
            [NoTag EXCEPT !.present = TRUE, !.footer = TRUE],
            [NoTag EXCEPT !.present = TRUE, !.footer = TRUE, !.version = 3],
            [NoTag EXCEPT !.present = TRUE, !.version = 5],
            [NoTag EXCEPT !.present = TRUE, !.payload = 300]}]

Programs ==
  [rate : {12, 13}, elements : 0 .. 2, lfe : 0 .. 1, assoc : 0 .. 1, cc : 0 .. 1, mono : 0 .. 1,
   stereo : {0}, matrix : {1}, comment : 0 .. 1]
AdifLeads == [size : {4, 5, 14, 15, 16, 17, 18, 19, 20, 24, 30}, copyright : BOOLEAN,
              constantRate : BOOLEAN, programs : 1 .. 2]

Box(type, size32) == [type |-> type, size32 |-> size32, size64 |-> 16, printable |-> TRUE,
                      brands |-> {"mp4"}]
BoxUnits ==
  {Box(t, n) : t \in {"ftyp", "free", "moov", "mdat"}, n \in {0, 1, 7, 8, 16, 18, 20}}
  \cup {[Box("ftyp", 1) EXCEPT !.size64 = n] : n \in {15, 20, 24}}
  \cup {[Box("ftyp", 16) EXCEPT !.brands = b] : b \in {{"3gpp"}, {"mp4", "3gpp"}, {}}}
  \cup {[Box("free", 8) EXCEPT !.printable = FALSE], Box("uuid", 8)}
BoxLeads == [size : {23, 24, 32, 40, 44, 48, 56}, mime : {"video/mp4", "video/3gpp"}]

-----------------------------------------------------------------------------
Token(t) == [token |-> t]
PdfUnits == {[token |-> "%PDF-", versioned |-> b] : b \in BOOLEAN}
            \cup {[token |-> "section", xref |-> n] : n \in 0 .. 5}
            \cup {Token(t) : t \in {"white", "xref", "object", "text"}}

Entry(name) == [name |-> name, plain |-> TRUE, length |-> 50,
                local |-> [inside |-> TRUE, plain |-> TRUE, name |-> name]]
PackageUnits ==
  {Entry(n) : n \in {ContentTypes, "word/document.xml", "xl/workbook.xml", "other"}}
  \cup {[Entry(n) EXCEPT !.local.name = "other"] : n \in {ContentTypes, "word/document.xml"}}
  \cup {[Entry("word/document.xml") EXCEPT !.local.inside = FALSE],
        [Entry("word/document.xml") EXCEPT !.local.plain = FALSE],
        [Entry("other") EXCEPT !.plain = FALSE], [Entry("other") EXCEPT !.length = 51]}
(* Directories of two or three entries, defects of each kind, and lengths   *)
(* at their limits and one byte off.                                        *)
EndRecord(good, totals, bytes) ==
  [fits : BOOLEAN, single : BOOLEAN, contiguous : good, total : totals, bytes : bytes]
OneEnd == EndRecord(BOOLEAN, {0, 2, 5}, {100}) \cup EndRecord(BOOLEAN, {3}, {150})
          \cup EndRecord({TRUE}, {2, 3}, {0, 99, 101, 151})
TwoEnds == EndRecord({TRUE}, {2}, {100}) \cup EndRecord({TRUE}, {3}, {150})
PackageLeads == [ends : {<<>>} \cup {<<e>> : e \in OneEnd} \cup {<<e, d>> : e, d \in TwoEnds},
                 family : {"word/document.xml", "xl/workbook.xml"}]

-----------------------------------------------------------------------------
(* Signatures with and without a part that reads OK, and errors: short,     *)
(* with such a part, and longer than a response may be.                     *)
MCSignatureNames == {<<"text">>, <<"text", "OK">>, <<"OK", "text">>}
MCErrorTexts == {<<>>, <<"text", "OK">>, <<"text", "text", "text", "text", "text">>}

(* Errors that never read OK.                                               *)
MCPlainErrors == {<<>>}

NoLead == [whole |-> TRUE]
MCLeads == [k \in Kinds |->
  CASE k \in {"png", "jpeg", "ogg", "opus", "pdf"} -> {NoLead}
    [] k = "packet" -> Packets
    [] k = "adts" -> [size : 4 .. 27]
    [] k = "amr" -> [size : 6 .. 22, wideband : BOOLEAN]
    [] k = "mpeg" -> MpegLeads
    [] k = "frame" -> MpegHeaders
    [] k = "adif" -> AdifLeads
    [] k = "bmff" -> BoxLeads
    [] k = "package" -> PackageLeads]
MCUnits == [k \in Kinds |->
  CASE k = "png" -> PngUnits
    [] k = "jpeg" -> JpegUnits
    [] k = "ogg" -> OggUnits
    [] k = "opus" -> OpusUnits
    [] k = "adts" -> AdtsUnits
    [] k = "amr" -> AmrUnits
    [] k = "mpeg" -> MpegUnits
    [] k = "adif" -> Programs
    [] k = "bmff" -> BoxUnits
    [] k = "pdf" -> PdfUnits
    [] k = "package" -> PackageUnits
    [] k \in {"packet", "frame"} -> {}]
MCMaxUnits == [k \in Kinds |->
  CASE k = "png" -> 6 [] k = "jpeg" -> 6 [] k = "ogg" -> 4 [] k = "opus" -> 4
    [] k = "adif" -> 2 [] k = "bmff" -> 5 [] k = "pdf" -> 5 [] OTHER -> 4]

-----------------------------------------------------------------------------
(* The questions share nothing: each leaves the state of the others alone.   *)
MediaStates ==
  /\ MediaInit
  /\ question # "asset" => \A a \in Assets : ~upload[a].slow
  /\ IF question = "content" THEN InspectionInit
     ELSE kind = "png" /\ lead = NoLead /\ file = <<>> /\ scan = PngStart
  /\ IF question = "scan" THEN ScanInit
     ELSE /\ mode = "disabled" /\ infected = FALSE /\ conn = "closed" /\ written = 0
          /\ streaming = FALSE /\ reply = Silent /\ got = 0 /\ partial = FALSE /\ ended = FALSE
          /\ outcome = "clean"

MediaSteps ==
  \/ question = "asset" /\ MediaNext /\ UNCHANGED <<inspectionVars, scanVars>>
  \/ question = "content" /\ InspectionNext /\ UNCHANGED <<mediaVars, scanVars>>
  \/ question = "scan" /\ ScanNext /\ UNCHANGED <<mediaVars, inspectionVars>>

(* MediaFairness, of a question in which the actions can be taken.           *)
AssetFairness ==
  LET Asked(A) == question = "asset" /\ A IN
  /\ \A a \in Assets : WF_mediaVars(Asked(UploadStep(a))) /\ WF_mediaVars(Asked(Expires(a)))
  /\ \A r \in Replicas : WF_mediaVars(Asked(Cycle(r)))

allMediaVars == <<mediaVars, inspectionVars, scanVars>>

(* One question by itself.                                                   *)
ContentSpec == /\ question = "content" /\ MediaStates
               /\ [][MediaSteps /\ UNCHANGED question]_<<allMediaVars, question>>
MalwareSpec == /\ question = "scan" /\ MediaStates
               /\ [][MediaSteps /\ UNCHANGED question]_<<allMediaVars, question>>
=============================================================================
