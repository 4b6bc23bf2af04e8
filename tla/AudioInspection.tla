--------------------------- MODULE AudioInspection ---------------------------
(***************************************************************************)
(* media-audio-structure.ts and media-ogg-opus-profile.ts: Ogg pages, the  *)
(* Opus profile over them, and Opus packet framing.  Lengths are numbers   *)
(* of bytes, as in the code; a checksum is right or wrong.                 *)
(***************************************************************************)
EXTENDS Integers, Sequences, FiniteSets, SequencesExt, FiniteSetsExt

CONSTANTS OGG_MAX_PAGES,           \* pages a file may not reach
          MAX_TAG_BYTES,           \* longest OpusTags packet
          MAX_AUDIO_PACKET_BYTES,  \* longest audio packet
          MAX_AUDIO_PACKETS        \* audio packets of a file

None == -1

-----------------------------------------------------------------------------
(***************************************************************************)
(* Ogg: every logical stream starts with a BOS page numbered 0, is         *)
(* numbered without gaps, continues a packet exactly when the previous     *)
(* page left one open, and ends.                                           *)
(***************************************************************************)
Segments(p) == Len(p.lacing)
LeavesPacketOpen(p) == Segments(p) > 0 /\ p.lacing[Segments(p)] = 255
BodyBytes(p) == FoldLeft(LAMBDA a, b : a + b, 0, p.lacing)

OggStart == [ok |-> TRUE, pages |-> 0, payload |-> FALSE, streams |-> <<>>]

ContinuesUnchecked(prior, p) ==
  ~prior.ended /\ ~p.bos /\ p.sequence = prior.next

Continues(prior, p) ==
  /\ ~prior.ended /\ ~p.bos
  /\ p.sequence = prior.next
  /\ p.continued = prior.open

RefusesPage(s, p) ==
  \/ s.pages >= OGG_MAX_PAGES
  \/ ~p.header \/ ~p.crc
  \/ p.continued /\ Segments(p) = 0
  \/ /\ p.serial \notin DOMAIN s.streams
     /\ ~p.bos \/ p.continued \/ p.sequence # 0
  \/ /\ p.serial \in DOMAIN s.streams
     /\ ~Continues(s.streams[p.serial], p)
  \/ p.eos /\ LeavesPacketOpen(p)

OggStep(s, p) ==
  IF RefusesPage(s, p) THEN [s EXCEPT !.ok = FALSE]
  ELSE LET stream == [next |-> p.sequence + 1, open |-> LeavesPacketOpen(p), ended |-> p.eos]
       IN [s EXCEPT !.pages = @ + 1,
                    !.payload = @ \/ BodyBytes(p) > 0,
                    !.streams = [x \in DOMAIN @ \cup {p.serial} |->
                                   IF x = p.serial THEN stream ELSE @[x]]]

OggAccepts(s) ==
  /\ s.ok /\ s.pages > 0 /\ s.pages < OGG_MAX_PAGES /\ s.payload
  /\ \A x \in DOMAIN s.streams : s.streams[x].ended /\ ~s.streams[x].open

(***************************************************************************)
(* The reference looks at each stream by itself.                           *)
(***************************************************************************)
StreamOf(f, x) == FoldLeft(LAMBDA g, p : IF p.serial = x THEN Append(g, p) ELSE g, <<>>, f)
Serials(f) == {f[i].serial : i \in DOMAIN f}

StreamPrefix(g) ==
  \A k \in DOMAIN g :
    /\ g[k].header /\ g[k].crc
    /\ g[k].sequence = k - 1
    /\ g[k].bos <=> k = 1
    /\ g[k].continued <=> k > 1 /\ LeavesPacketOpen(g[k - 1])
    /\ g[k].continued => Segments(g[k]) > 0
    /\ g[k].eos => k = Len(g) /\ ~LeavesPacketOpen(g[k])

OggPrefix(f) == Len(f) <= OGG_MAX_PAGES /\ \A x \in Serials(f) : StreamPrefix(StreamOf(f, x))

IsOgg(f) ==
  /\ OggPrefix(f) /\ Len(f) < OGG_MAX_PAGES
  /\ \A x \in Serials(f) : Last(StreamOf(f, x)).eos
  /\ \E i \in DOMAIN f : BodyBytes(f[i]) > 0

-----------------------------------------------------------------------------
(***************************************************************************)
(* The Opus profile, fed the pages that passed.  content is what the       *)
(* packets that end on the page are.                                       *)
(***************************************************************************)
Terminators(lacing) == {i \in DOMAIN lacing : lacing[i] # 255}
Ends(p) == Terminators(p.lacing)

OpusStart == [ok |-> TRUE, serial |-> None, phase |-> "head", packetBytes |-> 0,
              audioPackets |-> 0, ended |-> FALSE]

(***************************************************************************)
(* Bytes of the packet in hand after i segments of the page.               *)
(***************************************************************************)
PacketBytes(s, p) ==
  LET carry[i \in 0 .. Segments(p)] ==
        IF i = 0 THEN s.packetBytes
        ELSE (IF i - 1 \in Ends(p) THEN 0 ELSE carry[i - 1]) + p.lacing[i]
  IN carry

AcceptsHead(p) ==
  /\ p.bos /\ ~p.eos /\ ~p.continued
  /\ p.granule = 0 /\ p.lacing = <<19>> /\ p.content = "head"

AcceptsPackets(s, p) ==
  LET limit == IF s.phase = "tags" THEN MAX_TAG_BYTES ELSE MAX_AUDIO_PACKET_BYTES IN
    /\ Segments(p) > 0
    /\ \A i \in DOMAIN p.lacing : PacketBytes(s, p)[i] <= limit
    /\ s.phase = "tags" => Ends(p) \subseteq {Segments(p)}
    /\ s.phase = "audio" => s.audioPackets + Cardinality(Ends(p)) <= MAX_AUDIO_PACKETS
    /\ Ends(p) # {} /\ s.phase = "tags" => p.granule = 0
    /\ Ends(p) # {} => p.content = s.phase /\ p.granule >= 0
    /\ Ends(p) = {} => p.granule = -1

IsComplete(s) == s.ended /\ s.phase = "audio" /\ s.audioPackets > 0 /\ s.packetBytes = 0

AcceptPage(s, p) ==
  LET n == Segments(p)
      t == IF s.phase = "head" THEN [s EXCEPT !.serial = p.serial, !.phase = "tags"]
           ELSE [s EXCEPT !.phase = IF Ends(p) # {} THEN "audio" ELSE @,
                          !.audioPackets = IF s.phase = "audio" THEN @ + Cardinality(Ends(p))
                                           ELSE @,
                          !.packetBytes = IF n \in Ends(p) THEN 0 ELSE PacketBytes(s, p)[n],
                          !.ended = p.eos]
  IN IF /\ ~s.ended
        /\ s.serial \in {None, p.serial}
        /\ IF s.phase = "head" THEN AcceptsHead(p) ELSE AcceptsPackets(s, p)
        /\ p.eos => IsComplete(t)
       THEN t
       ELSE [s EXCEPT !.ok = FALSE]

OggOpusStart == [ogg |-> OggStart, opus |-> OpusStart, ok |-> TRUE]

OggOpusStep(s, p) ==
  LET ogg == OggStep(s.ogg, p)
      opus == IF ogg.ok THEN AcceptPage(s.opus, p) ELSE s.opus
  IN [ogg |-> ogg, opus |-> opus, ok |-> ogg.ok /\ opus.ok]

OggOpusAccepts(s) == s.ok /\ OggAccepts(s.ogg) /\ IsComplete(s.opus)

(***************************************************************************)
(* The reference: one stream whose first page is the head, whose next      *)
(* packet is the tags and ends its page, and whose other packets are audio.*)
(***************************************************************************)
Closing(f) == {k \in DOMAIN f : Ends(f[k]) # {}}

(***************************************************************************)
(* The pages of the headers, up to the one that ends the tags; what the    *)
(* tags and what the audio packets are laced with.                         *)
(***************************************************************************)
TagsEnd(f) == {k \in Closing(f) \ {1} : Closing(f) \cap 2 .. k = {k}}
Headers(f) == IF TagsEnd(f) = {} THEN Len(f) ELSE CHOOSE k \in TagsEnd(f) : TRUE

Lacing(f) == FlattenSeq([k \in DOMAIN f |-> f[k].lacing])
TagLacing(f) == Lacing(SubSeq(f, 2, Headers(f)))
AudioLacing(f) == Lacing(SubSeq(f, Headers(f) + 1, Len(f)))
AudioPackets(f) == Cardinality(Terminators(AudioLacing(f)))

(***************************************************************************)
(* A packet is full segments and one that is not: no part of one, from     *)
(* segment i to segment j, is longer than the limit.                       *)
(***************************************************************************)
PacketsWithin(lacing, limit) ==
  \A j \in DOMAIN lacing : \A i \in 1 .. j :
    (\A k \in i .. j - 1 : lacing[k] = 255) => 255 * (j - i) + lacing[j] <= limit

OpusPrefix(f) ==
  /\ OggPrefix(f) /\ \A k \in DOMAIN f : f[k].serial = f[1].serial
  /\ f # <<>> => AcceptsHead(f[1])
  /\ \A k \in 2 .. Len(f) :
       /\ Segments(f[k]) > 0
       /\ IF k \in Closing(f) THEN f[k].granule >= 0 ELSE f[k].granule = -1
  /\ \A k \in TagsEnd(f) : f[k].content = "tags" /\ f[k].granule = 0 /\ Ends(f[k]) = {Segments(f[k])}
  /\ \A k \in Closing(f) : k > Headers(f) => f[k].content = "audio"
  /\ AudioPackets(f) <= MAX_AUDIO_PACKETS
  /\ PacketsWithin(TagLacing(f), MAX_TAG_BYTES)
  /\ PacketsWithin(AudioLacing(f), MAX_AUDIO_PACKET_BYTES)
  /\ \A k \in DOMAIN f : f[k].eos => AudioPackets(f) > 0

IsOpus(f) == OpusPrefix(f) /\ IsOgg(f)

-----------------------------------------------------------------------------
(***************************************************************************)
(* Opus packet framing.  A packet is its size, the two fields of its first *)
(* byte, the control byte, and the bytes that follow (0 where unread).     *)
(* The profile has already bounded its size.                               *)
(***************************************************************************)
MAX_FRAME_BYTES == 1275

SamplesPerFrame(config) ==
  CASE config >= 16 -> 120 * 2 ^ (config % 4)
    [] config \in 12 .. 15 -> 480 * 2 ^ (config % 2)
    [] OTHER -> IF config % 4 = 3 THEN 2880 ELSE 480 * 2 ^ (config % 4)

ByteAt(k, offset) == IF offset + 1 \in DOMAIN k.bytes THEN k.bytes[offset + 1] ELSE 0

(***************************************************************************)
(* The padding loop: where the frames start and end after i length bytes.  *)
(* It ends at the first byte that is not 255, so within the bytes given.   *)
(***************************************************************************)
NoPadding == [ok |-> TRUE, offset |-> 2, end |-> 0, more |-> FALSE]

SkipPaddingByte(k, w) ==
  LET b == ByteAt(k, w.offset)
      end == w.end - (IF b = 255 THEN 254 ELSE b)
  IN IF w.ok /\ w.more
       THEN [ok |-> w.offset < w.end /\ w.offset + 1 <= end,
             offset |-> w.offset + 1, end |-> end, more |-> b = 255]
       ELSE w

AfterPadding(k) ==
  FoldLeft(LAMBDA w, i : SkipPaddingByte(k, w),
           [NoPadding EXCEPT !.end = k.size, !.more = k.padded],
           [i \in 1 .. Len(k.bytes) |-> i])

(***************************************************************************)
(* The loop over the coded lengths of all frames but the last.             *)
(***************************************************************************)
ReadLength(k, w) ==
  LET b == ByteAt(k, w.offset)
      wide == b >= 252
      length == IF wide THEN b + 4 * ByteAt(k, w.offset + 1) ELSE b
      next == IF wide THEN w.offset + 2 ELSE w.offset + 1
  IN IF ~w.ok THEN w
     ELSE [w EXCEPT !.ok = /\ w.offset < w.end
                           /\ wide => w.offset + 1 < w.end
                           /\ w.declared + length <= w.end - next,
                    !.offset = next,
                    !.declared = @ + length]

MatchesLengths(k, w, frames) ==
  LET read == FoldLeft(LAMBDA x, i : ReadLength(k, x),
                       [ok |-> w.ok, offset |-> w.offset, end |-> w.end, declared |-> 0],
                       [i \in 1 .. frames - 1 |-> i])
      last == read.end - read.offset - read.declared
  IN read.ok /\ last \in 0 .. MAX_FRAME_BYTES

MatchesOpusPacketFraming(k) ==
  LET w == AfterPadding(k) IN
    /\ k.size > 0
    /\ CASE k.code = 0 -> k.size - 1 <= MAX_FRAME_BYTES
         [] k.code = 1 -> (k.size - 1) % 2 = 0 /\ (k.size - 1) \div 2 <= MAX_FRAME_BYTES
         [] k.code = 2 -> MatchesLengths(k, [ok |-> TRUE, offset |-> 1, end |-> k.size], 2)
         [] k.code = 3 ->
              /\ k.size > 1
              /\ k.frames # 0 /\ SamplesPerFrame(k.config) * k.frames <= 5760
              /\ w.ok
              /\ IF k.vbr THEN MatchesLengths(k, w, k.frames)
                 ELSE /\ (w.end - w.offset) % k.frames = 0
                      /\ (w.end - w.offset) \div k.frames <= MAX_FRAME_BYTES

(***************************************************************************)
(* The reference is RFC 6716's encoder: the packet for given frame sizes.  *)
(***************************************************************************)
CodedLength(n) == IF n < 252 THEN <<n>>
                  ELSE LET b == 252 + (n % 4) IN <<b, (n - b) \div 4>>
CodedPadding(n) ==
  CASE n = None -> <<>>
    [] n = 0 -> <<0>>
    [] n > 0 -> [i \in 1 .. (n - 1) \div 254 |-> 255] \o <<n - 254 * ((n - 1) \div 254)>>

Encode(code, config, vbr, sizes, padding) ==
  LET lengths == FlattenSeq([i \in 1 .. Len(sizes) - 1 |-> CodedLength(sizes[i])])
      prefix == CASE code \in {0, 1} -> <<0>>
                  [] code = 2 -> <<0>> \o lengths
                  [] code = 3 -> <<0, 0>> \o CodedPadding(padding)
                                 \o (IF vbr THEN lengths ELSE <<>>)
  IN [code |-> code, config |-> config, vbr |-> vbr, frames |-> Len(sizes),
      padded |-> padding # None, bytes |-> prefix,
      size |-> Len(prefix) + FoldLeft(LAMBDA a, b : a + b, 0, sizes)
               + (IF padding = None THEN 0 ELSE padding)]

Encodable(code, vbr, sizes, padding) ==
  /\ Len(sizes) < 64
  /\ padding # None => code = 3
  /\ code = 0 => Len(sizes) = 1
  /\ code \in {1, 2} => Len(sizes) = 2
  /\ code \in {0, 1} \/ (code = 3 /\ ~vbr) => \A i, j \in DOMAIN sizes : sizes[i] = sizes[j]
  /\ vbr => code = 3
  /\ code = 2 \/ vbr => \A i \in DOMAIN sizes : i < Len(sizes) => sizes[i] <= MAX_FRAME_BYTES

Legal(config, sizes) ==
  /\ \A i \in DOMAIN sizes : sizes[i] <= MAX_FRAME_BYTES
  /\ Len(sizes) * SamplesPerFrame(config) <= 5760
=============================================================================
