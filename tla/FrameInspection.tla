--------------------------- MODULE FrameInspection ---------------------------
(***************************************************************************)
(* The inspections that walk a file by the lengths its frames declare:     *)
(* ADTS, MPEG and AMR audio, the ADIF header (media-audio-structure.ts)    *)
(* and ISO BMFF boxes (media-isobmff-structure.ts).  A unit is the header  *)
(* read at the current offset; lead holds what is known of the file as a   *)
(* whole, its size first.                                                  *)
(***************************************************************************)
EXTENDS Integers, Sequences, FiniteSets, SequencesExt

CONSTANTS MAX_FRAMES,             \* frames at which a walk stops, and refuses
          MAX_TOP_LEVEL_BOXES,    \* boxes a file may have
          MAX_FILE_TYPE_BOX_BYTES,
          MAX_LEADING_BOXES,      \* boxes the signature skips before ftyp
          INSPECTION_BYTES        \* prefix the signature sees

Unknown == -1

Least(a, b) == IF a < b THEN a ELSE b
Total(s) == FoldLeft(LAMBDA a, b : a + b, 0, s)

-----------------------------------------------------------------------------
(***************************************************************************)
(* The walk: need bytes of header must be readable, and the frame must end *)
(* within the audio.                                                       *)
(***************************************************************************)
WalkStart(ok, offset) == [ok |-> ok, offset |-> offset, count |-> 0]

WalkReads(s, end) == s.ok /\ s.offset < end /\ s.count < MAX_FRAMES

FitsStrictly(s, end, length) == s.offset + length < end
Fits(s, end, length) == s.offset + length <= end

WalkStep(s, size, end, need, length) ==
  IF s.offset + need <= size /\ length # Unknown /\ Fits(s, end, length)
    THEN [s EXCEPT !.offset = @ + length, !.count = @ + 1]
    ELSE [s EXCEPT !.ok = FALSE]

WalkAccepts(s, end) == s.ok /\ s.offset = end /\ s.count \in 1 .. MAX_FRAMES - 1

(***************************************************************************)
(* ADTS.                                                                   *)
(***************************************************************************)
AdtsHeaderBytes(u) == IF u.protected THEN 9 ELSE 7

AdtsFrameLength(u) ==
  IF u.sync /\ u.rate < 13 /\ u.length > AdtsHeaderBytes(u) THEN u.length ELSE Unknown

(***************************************************************************)
(* AMR: a frame is one header byte and the speech bits in whole bytes,     *)
(* whose padding bits must be zero (padding).                              *)
(***************************************************************************)
AMR_NB_FRAME_BITS == <<95, 103, 118, 134, 148, 159, 204, 244, 39>>
AMR_WB_FRAME_BITS == <<132, 177, 253, 285, 317, 365, 397, 461, 477, 40>>

AmrMagicBytes(wideband) == IF wideband THEN 9 ELSE 6

AmrFrameBits(wideband, type) ==
  LET table == IF wideband THEN AMR_WB_FRAME_BITS ELSE AMR_NB_FRAME_BITS IN
    CASE type < Len(table) -> table[type + 1]
      [] type = 15 \/ (type = 14 /\ wideband) -> 0
      [] OTHER -> Unknown

AmrFrameLength(wideband, u) ==
  LET bits == AmrFrameBits(wideband, u.type)
      payload == (bits + 7) \div 8
  IN IF u.clean /\ bits # Unknown /\ (payload * 8 > bits => u.padding = 0)
       THEN 1 + payload ELSE Unknown

-----------------------------------------------------------------------------
(***************************************************************************)
(* MPEG audio.                                                             *)
(***************************************************************************)
MPEG1_LAYER1_BITRATES == <<32, 64, 96, 128, 160, 192, 224, 256, 288, 320, 352, 384, 416, 448>>
MPEG1_LAYER2_BITRATES == <<32, 48, 56, 64, 80, 96, 112, 128, 160, 192, 224, 256, 320, 384>>
MPEG1_LAYER3_BITRATES == <<32, 40, 48, 56, 64, 80, 96, 112, 128, 160, 192, 224, 256, 320>>
MPEG2_LAYER1_BITRATES == <<32, 48, 56, 64, 80, 96, 112, 128, 144, 160, 176, 192, 224, 256>>
MPEG2_LAYER23_BITRATES == <<8, 16, 24, 32, 40, 48, 56, 64, 80, 96, 112, 128, 144, 160>>
MPEG1_SAMPLE_RATES == <<44100, 48000, 32000>>

MpegBitrateKbps(mpeg1, layer, index) ==
  LET table == CASE mpeg1 /\ layer = 1 -> MPEG1_LAYER1_BITRATES
                 [] mpeg1 /\ layer = 2 -> MPEG1_LAYER2_BITRATES
                 [] mpeg1 /\ layer = 3 -> MPEG1_LAYER3_BITRATES
                 [] ~mpeg1 /\ layer = 1 -> MPEG2_LAYER1_BITRATES
                 [] ~mpeg1 /\ layer # 1 -> MPEG2_LAYER23_BITRATES
  IN table[index]

MpegHeaderValid(h) ==
  /\ h.sync /\ h.version # 1 /\ h.layer # 0
  /\ h.bitrate \in 1 .. 14 /\ h.rate # 3 /\ h.emphasis # 2

MpegLayer(h) == 4 - h.layer
MpegSampleRate(h) ==
  MPEG1_SAMPLE_RATES[h.rate + 1] \div (CASE h.version = 3 -> 1 [] h.version = 2 -> 2
                                         [] h.version = 0 -> 4)
MpegBitrate(h) == 1000 * MpegBitrateKbps(h.version = 3, MpegLayer(h), h.bitrate)

SlotFactor(h) == IF MpegLayer(h) = 3 /\ h.version # 3 THEN 72 ELSE 144

MpegAudioFrameLength(h) ==
  IF ~MpegHeaderValid(h) THEN Unknown
  ELSE IF MpegLayer(h) = 1
    THEN ((12 * MpegBitrate(h)) \div MpegSampleRate(h) + h.padding) * 4
    ELSE (SlotFactor(h) * MpegBitrate(h)) \div MpegSampleRate(h) + h.padding

(***************************************************************************)
(* The reference: a frame holds the samples of its layer and version, so   *)
(* it carries their duration at the bit rate, rounded down to whole slots. *)
(***************************************************************************)
SamplesOf(h) == CASE MpegLayer(h) = 1 -> 384
                  [] MpegLayer(h) = 2 \/ (MpegLayer(h) = 3 /\ h.version = 3) -> 1152
                  [] OTHER -> 576
CarriesItsSamples(h) ==
  LET slot == IF MpegLayer(h) = 1 THEN 4 ELSE 1
      unpadded == MpegAudioFrameLength(h) - h.padding * slot
      rest == SamplesOf(h) * MpegBitrate(h) - 8 * unpadded * MpegSampleRate(h)
  IN unpadded > 4 /\ 0 <= rest /\ rest < 8 * slot * MpegSampleRate(h)

(***************************************************************************)
(* The tags around the frames.                                             *)
(***************************************************************************)
Id3v2Valid(t) == t.version \in 2 .. 4 /\ t.revision /\ t.synchsafe
Id3v2Bytes(t) == 10 + t.payload + (IF t.version = 4 /\ t.footer THEN 10 ELSE 0)

MpegOffset(lead) == IF lead.id3v2.present THEN Id3v2Bytes(lead.id3v2) ELSE 0
MpegEnd(lead) ==
  IF lead.size - MpegOffset(lead) >= 128 /\ lead.id3v1 THEN lead.size - 128 ELSE lead.size
MpegStart(lead) ==
  WalkStart(/\ lead.size >= 4
            /\ lead.id3v2.present => Id3v2Valid(lead.id3v2) /\ MpegOffset(lead) <= lead.size - 4,
            MpegOffset(lead))

-----------------------------------------------------------------------------
(***************************************************************************)
(* ADIF: the bit reader over the fields of the header.  A program holds    *)
(* the counts that decide which fields follow.                             *)
(***************************************************************************)
ReadBits(s, width, bits) ==
  IF s.ok /\ s.pos + width <= bits THEN [s EXCEPT !.pos = @ + width] ELSE [s EXCEPT !.ok = FALSE]
ReadFields(s, widths, bits) == FoldLeft(LAMBDA r, w : ReadBits(r, w, bits), s, widths)
AlignToByte(s) == [s EXCEPT !.pos = 8 * ((@ + 7) \div 8)]

Copies(n, w) == [i \in 1 .. n |-> w]

AdifBits(lead) == 8 * Least(lead.size, 65536)

AdifStart(lead) ==
  ReadFields([ok |-> lead.size >= 5, pos |-> 32, programs |-> 0],
             <<1>> \o (IF lead.copyright THEN <<72>> ELSE <<>>) \o <<1, 1, 1, 23, 4>>,
             AdifBits(lead))

ProgramFields(p) ==
  <<4, 2, 4, 4, 4, 4, 2, 3, 4>>
  \o <<1>> \o Copies(p.mono, 4) \o <<1>> \o Copies(p.stereo, 4) \o <<1>> \o Copies(p.matrix, 3)
  \o Copies(p.elements, 1) \o Copies(p.elements, 4)
  \o Copies(p.lfe, 4) \o Copies(p.assoc, 4) \o Copies(p.cc, 1) \o Copies(p.cc, 4)

ParseProgramConfigElement(lead, s, p) ==
  LET bits == AdifBits(lead)
      fill == ReadFields(s, Copies(IF lead.constantRate THEN 1 ELSE 0, 20), bits)
      body == AlignToByte(ReadFields(fill, ProgramFields(p), bits))
      comment == ReadFields(body, <<8, 8 * p.comment>>, bits)
  IN [comment EXCEPT !.ok = @ /\ p.rate < 13 /\ p.elements + p.lfe > 0, !.programs = @ + 1]

AdifAccepts(lead, s) == s.ok /\ s.programs = lead.programs /\ (s.pos + 7) \div 8 < lead.size

(***************************************************************************)
(* The reference: the length of the header in closed form.                 *)
(***************************************************************************)
ProgramEnd(lead, pos, p) ==
  LET fields == 31 + 3 + 4 * p.mono + 4 * p.stereo + 3 * p.matrix + 5 * p.elements
                + 4 * p.lfe + 4 * p.assoc + 5 * p.cc + (IF lead.constantRate THEN 20 ELSE 0)
  IN 8 * ((pos + fields + 7) \div 8) + 8 + 8 * p.comment

HeaderEnd(lead, f) ==
  FoldLeft(LAMBDA pos, p : ProgramEnd(lead, pos, p),
           32 + 31 + (IF lead.copyright THEN 72 ELSE 0), f)

AdifPrefix(lead, f) ==
  /\ lead.size >= 5 /\ HeaderEnd(lead, f) <= 8 * lead.size
  /\ \A i \in DOMAIN f : f[i].rate < 13 /\ f[i].elements + f[i].lfe > 0

-----------------------------------------------------------------------------
(***************************************************************************)
(* ISO BMFF.  A box declares its size in 32 bits, 0 meaning to the end of  *)
(* the file and 1 that a 64-bit size follows.                              *)
(***************************************************************************)
NoBox == [size |-> 0, header |-> 0]
LEADING_BOX_TYPES == {"free", "skip", "wide"}

ParseBoxHeader(u, bytes, available, allowZeroToEnd) ==
  CASE bytes < 8 \/ ~u.printable -> NoBox
    [] bytes >= 8 /\ u.printable /\ u.size32 = 0 ->
         IF allowZeroToEnd THEN [size |-> available, header |-> 8] ELSE NoBox
    [] bytes >= 8 /\ u.printable /\ u.size32 = 1 ->
         IF bytes >= 16 /\ u.size64 \in 16 .. available
           THEN [size |-> u.size64, header |-> 16] ELSE NoBox
    [] OTHER -> IF u.size32 \in 8 .. available THEN [size |-> u.size32, header |-> 8] ELSE NoBox

MatchesMimeFamily(u, mime) ==
  IF mime = "video/3gpp" THEN "3gpp" \in u.brands ELSE "mp4" \in u.brands

FileTypeMatches(u, box, mime) ==
  LET payload == box.size - box.header IN
    /\ box.size <= MAX_FILE_TYPE_BOX_BYTES
    /\ payload >= 8 /\ (payload - 8) % 4 = 0
    /\ MatchesMimeFamily(u, mime)

BoxStart(lead) ==
  [ok |-> lead.size >= 24, offset |-> 0, count |-> 0, types |-> {}, signature |-> "open"]

BoxReads(lead, s) == s.ok /\ s.offset < lead.size /\ s.count < MAX_TOP_LEVEL_BOXES

(***************************************************************************)
(* matchesIsoBmffFileTypeSignature, which runs first, over the prefix.     *)
(***************************************************************************)
SignatureStep(lead, s, u) ==
  LET left == Least(lead.size, INSPECTION_BYTES) - s.offset
      box == ParseBoxHeader(u, left, left, FALSE)
  IN CASE s.signature # "open" -> s.signature
       [] s.signature = "open" /\ (left < 8 \/ s.count > MAX_LEADING_BOXES \/ box = NoBox) -> "no"
       [] OTHER -> IF u.type = "ftyp"
                     THEN IF FileTypeMatches(u, box, lead.mime) THEN "yes" ELSE "no"
                     ELSE IF u.type \in LEADING_BOX_TYPES THEN "open" ELSE "no"

RefusesBox(lead, s, u, box) ==
  \/ box = NoBox
  \/ /\ "ftyp" \notin s.types
     /\ u.type \notin LEADING_BOX_TYPES
     /\ ~(u.type = "ftyp" /\ FileTypeMatches(u, box, lead.mime))
  \/ "ftyp" \in s.types /\ u.type = "ftyp"

BoxStep(lead, s, u) ==
  LET left == lead.size - s.offset
      box == ParseBoxHeader(u, Least(16, left), left, TRUE)
      signature == SignatureStep(lead, s, u)
  IN IF signature = "no" \/ RefusesBox(lead, s, u, box)
       THEN [s EXCEPT !.ok = FALSE]
       ELSE [ok |-> TRUE, offset |-> s.offset + box.size, count |-> s.count + 1,
             types |-> s.types \cup {u.type}, signature |-> signature]

BoxAccepts(lead, s) ==
  /\ s.ok /\ s.signature = "yes" /\ s.offset = lead.size /\ s.count > 0
  /\ {"ftyp", "moov", "mdat"} \subseteq s.types

(***************************************************************************)
(* The reference: boxes tile the file; nothing but a few fillers precedes  *)
(* the one ftyp, which lies in the prefix; movie and data are there.       *)
(***************************************************************************)
BoxSize(lead, u, offset) ==
  CASE u.size32 = 0 -> lead.size - offset [] u.size32 = 1 -> u.size64 [] OTHER -> u.size32
BoxOffset(lead, f) ==
  LET at[i \in 1 .. Len(f) + 1] ==
        IF i = 1 THEN 0 ELSE at[i - 1] + BoxSize(lead, f[i - 1], at[i - 1])
  IN at

BoxPrefix(lead, f) ==
  LET at == BoxOffset(lead, f)
      size(i) == at[i + 1] - at[i]
      header(i) == IF f[i].size32 = 1 THEN 16 ELSE 8
      types == {i \in DOMAIN f : f[i].type = "ftyp"}
  IN /\ lead.size >= 24 /\ at[Len(f) + 1] <= lead.size /\ Len(f) <= MAX_TOP_LEVEL_BOXES
     /\ \A i \in DOMAIN f : f[i].printable /\ size(i) >= header(i)
     /\ Cardinality(types) <= 1
     /\ \A i \in DOMAIN f : (\A k \in types : i <= k) =>
          /\ i <= MAX_LEADING_BOXES + 1
          /\ f[i].type \in LEADING_BOX_TYPES \cup {"ftyp"}
          /\ f[i].size32 # 0
          /\ at[i + 1] <= INSPECTION_BYTES
     /\ \A k \in types :
          /\ size(k) <= MAX_FILE_TYPE_BOX_BYTES
          /\ size(k) - header(k) >= 8 /\ size(k) % 4 = 0
          /\ MatchesMimeFamily(f[k], lead.mime)

IsBmff(lead, f) ==
  /\ BoxPrefix(lead, f)
  /\ BoxOffset(lead, f)[Len(f) + 1] = lead.size
  /\ {"ftyp", "moov", "mdat"} \subseteq {f[i].type : i \in DOMAIN f}
=============================================================================
