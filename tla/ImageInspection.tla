--------------------------- MODULE ImageInspection ---------------------------
(***************************************************************************)
(* media-image-structure.ts: the two loops that walk an image, one unit (a *)
(* PNG chunk, a JPEG marker segment) per step, and what they are meant to  *)
(* decide.  A unit holds what the loop reads of it: a checksum is right or *)
(* wrong, a length fits in the file or does not.                           *)
(***************************************************************************)
EXTENDS Naturals, Sequences, FiniteSets, TLC

CONSTANTS PNG_MAX_CHUNKS, JPEG_MAX_HEADER_MARKERS

Positions(f, key, value) == {i \in DOMAIN f : f[i][key] = value}

-----------------------------------------------------------------------------
(***************************************************************************)
(* PNG.                                                                    *)
(***************************************************************************)
Grayscale == 0
Indexed == 3
GrayscaleAlpha == 4

BitDepths == 0 :> {1, 2, 4, 8, 16} @@ 2 :> {8, 16} @@ 3 :> {1, 2, 4, 8}
             @@ 4 :> {8, 16} @@ 6 :> {8, 16}

(***************************************************************************)
(* sane: width, height, compression, filter and interlace are legal.       *)
(***************************************************************************)
ValidatePngIhdr(c) ==
  /\ c.sane
  /\ c.colour \in DOMAIN BitDepths
  /\ c.depth \in BitDepths[c.colour]

ValidPalette(length, colour, depth) ==
  /\ length # 0 /\ length <= 768 /\ length % 3 = 0
  /\ colour \notin {Grayscale, GrayscaleAlpha}
  /\ colour = Indexed => length \div 3 <= 2 ^ depth

PngStart == [ok |-> TRUE, count |-> 0, ihdr |-> FALSE, plte |-> FALSE, idat |-> FALSE,
             idatClosed |-> FALSE, colour |-> 255, depth |-> 0, ended |-> FALSE]

(***************************************************************************)
(* The early returns of the loop.  IEND returns at once, so a chunk after  *)
(* it makes the file one that did not end there.                           *)
(***************************************************************************)
RefusesChunk(s, c) ==
  \/ s.ended \/ s.count >= PNG_MAX_CHUNKS
  \/ ~c.letters \/ ~c.fits \/ ~c.crc
  \/ s.count = 0 /\ c.type # "IHDR"
  \/ c.type = "critical"
  \/ c.type = "IHDR" /\ (s.ihdr \/ c.length # 13 \/ ~ValidatePngIhdr(c))
  \/ c.type # "IHDR" /\ ~s.ihdr
  \/ c.type = "PLTE" /\ (s.plte \/ s.idat \/ ~ValidPalette(c.length, s.colour, s.depth))
  \/ c.type = "IDAT" /\ (s.idatClosed \/ (s.colour = Indexed /\ ~s.plte))
  \/ c.type = "IEND" /\ ~(c.length = 0 /\ s.idat)

ClosesIdat(s, c) == s.idat /\ c.type \notin {"IDAT", "IEND"}

PngStep(s, c) ==
  IF RefusesChunk(s, c) THEN [s EXCEPT !.ok = FALSE]
  ELSE [s EXCEPT !.count = @ + 1,
                 !.ihdr = TRUE,
                 !.colour = IF c.type = "IHDR" THEN c.colour ELSE @,
                 !.depth = IF c.type = "IHDR" THEN c.depth ELSE @,
                 !.plte = @ \/ c.type = "PLTE",
                 !.idat = @ \/ c.type = "IDAT",
                 !.idatClosed = @ \/ ClosesIdat(s, c),
                 !.ended = c.type = "IEND"]

PngAccepts(s) == s.ok /\ s.ended

(***************************************************************************)
(* The reference: which sequences of chunks can still become a PNG, and    *)
(* which are one.                                                          *)
(***************************************************************************)
PngPrefix(f) ==
  LET At(type) == Positions(f, "type", type) IN
    /\ Len(f) <= PNG_MAX_CHUNKS
    /\ \A i \in DOMAIN f : f[i].letters /\ f[i].fits /\ f[i].crc /\ f[i].type # "critical"
    /\ f # <<>> => At("IHDR") = {1} /\ f[1].length = 13 /\ ValidatePngIhdr(f[1])
    /\ \A p \in At("PLTE") :
         /\ At("PLTE") = {p}
         /\ \A d \in At("IDAT") : p < d
         /\ ValidPalette(f[p].length, f[1].colour, f[1].depth)
    /\ \A d, e \in At("IDAT") : d .. e \subseteq At("IDAT")
    /\ At("IDAT") # {} /\ f[1].colour = Indexed => At("PLTE") # {}
    /\ \A i \in At("IEND") : i = Len(f) /\ f[i].length = 0 /\ At("IDAT") # {}

IsPng(f) == PngPrefix(f) /\ Positions(f, "type", "IEND") # {}

-----------------------------------------------------------------------------
(***************************************************************************)
(* JPEG.  The first unit is the file's first marker.  After the start of   *)
(* scan nothing is read but the last marker of the file.                   *)
(***************************************************************************)
Standalone == {"TEM", "RST"}

ValidStartOfFrame(g) == g.sane /\ g.components > 0 /\ g.length = 8 + 3 * g.components
ValidStartOfScan(g) == g.length >= 8 /\ g.components > 0 /\ g.length = 6 + 2 * g.components

JpegStart == [ok |-> TRUE, units |-> 0, count |-> 0, frame |-> FALSE, scan |-> FALSE,
              rest |-> 0, last |-> "none"]

RefusesSegment(s, g) ==
  \/ s.count >= JPEG_MAX_HEADER_MARKERS
  \/ ~g.synced \/ g.marker \in {"stuffed", "EOI"}
  \/ g.marker \notin Standalone /\ (g.length < 2 \/ ~g.fits)
  \/ g.marker = "SOF" /\ ~ValidStartOfFrame(g)
  \/ g.marker = "SOS" /\ ~(s.frame /\ ValidStartOfScan(g))

JpegStep(s, g) ==
  LET t == [s EXCEPT !.units = @ + 1, !.last = g.marker] IN
    CASE s.units = 0 -> [t EXCEPT !.ok = g.marker = "SOI"]
      [] s.units > 0 /\ s.scan -> [t EXCEPT !.rest = @ + 1]
      [] OTHER -> [t EXCEPT !.ok = ~RefusesSegment(s, g),
                            !.count = @ + 1,
                            !.frame = @ \/ g.marker = "SOF",
                            !.scan = g.marker = "SOS"]

JpegAccepts(s) == s.ok /\ s.scan /\ s.rest > 1 /\ s.last = "EOI"

(***************************************************************************)
(* The reference: the units before the first start of scan are headers, a  *)
(* frame among them, and scan data lies between it and the end of image.   *)
(***************************************************************************)
JpegPrefix(f) ==
  LET Scans == Positions(f, "marker", "SOS") \ {1}
      Frames == Positions(f, "marker", "SOF") \ {1}
      Header(i) == i > 1 /\ \A s \in Scans : i <= s
  IN /\ f # <<>> => f[1].marker = "SOI"
     /\ \A i \in DOMAIN f : Header(i) =>
          /\ i - 1 <= JPEG_MAX_HEADER_MARKERS
          /\ f[i].synced /\ f[i].marker \notin {"stuffed", "EOI"}
          /\ f[i].marker \in Standalone \/ (f[i].length >= 2 /\ f[i].fits)
          /\ i \in Frames => ValidStartOfFrame(f[i])
          /\ i \in Scans => ValidStartOfScan(f[i]) /\ \E j \in Frames : j < i

IsJpeg(f) ==
  /\ JpegPrefix(f)
  /\ \E s \in Positions(f, "marker", "SOS") \ {1} : s + 1 < Len(f)
  /\ f[Len(f)].marker = "EOI"
=============================================================================
