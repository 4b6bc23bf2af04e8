-------------------------- MODULE DocumentInspection --------------------------
(***************************************************************************)
(* Documents: media-pdf-structure.ts over a file of tokens, and the ZIP    *)
(* directory of an Office package (media-content-signature.ts), which is   *)
(* walked by lengths as frames are.                                        *)
(***************************************************************************)
EXTENDS FrameInspection

CONSTANTS PDF_HEADER_SEARCH,   \* tokens in which the header is searched
          PDF_TAIL_SEARCH,     \* tokens in which the last section is searched
          OOXML_MAX_ENTRIES,
          OOXML_MAX_CENTRAL_DIRECTORY_BYTES

(***************************************************************************)
(* PDF.  A section token is startxref, an offset and %%EOF; offsets count  *)
(* tokens from 0.                                                          *)
(***************************************************************************)
HasVersionedHeader(f) ==
  LET found == {i \in 1 .. Least(Len(f), PDF_HEADER_SEARCH) : f[i].token = "%PDF-"} IN
    found # {} /\ f[CHOOSE i \in found : \A j \in found : i <= j].versioned

IsPdfWhitespace(s) == \A i \in DOMAIN s : s[i].token = "white"

NoSection == [found |-> FALSE]

AcceptSection(tail, accepted, i) ==
  IF tail[i].token = "section" /\ IsPdfWhitespace(SubSeq(tail, i + 1, Len(tail)))
    THEN [found |-> TRUE, xref |-> tail[i].xref]
    ELSE accepted

FindFinalSection(f) ==
  LET tail == SubSeq(f, Len(f) - Least(Len(f), PDF_TAIL_SEARCH) + 1, Len(f)) IN
    FoldLeft(LAMBDA accepted, i : AcceptSection(tail, accepted, i), NoSection,
             [i \in 1 .. Len(tail) |-> i])

MatchesPdfStructure(f) ==
  /\ HasVersionedHeader(f)
  /\ LET section == FindFinalSection(f) IN
       /\ section.found
       /\ section.xref < Len(f)
       /\ f[section.xref + 1].token \in {"xref", "object"}

(***************************************************************************)
(* The reference: some versioned header near the start with no other       *)
(* before it, and a last section near the end that names a cross-reference *)
(* and has nothing but white space after it.                               *)
(***************************************************************************)
IsPdf(f) ==
  /\ \E i \in DOMAIN f :
       /\ i <= PDF_HEADER_SEARCH
       /\ f[i].token = "%PDF-" /\ f[i].versioned
       /\ \A j \in 1 .. i - 1 : f[j].token # "%PDF-"
  /\ \E i \in DOMAIN f :
       /\ i > Len(f) - PDF_TAIL_SEARCH
       /\ f[i].token = "section"
       /\ \A j \in i + 1 .. Len(f) : f[j].token = "white"
       /\ \E x \in DOMAIN f : x = f[i].xref + 1 /\ f[x].token \in {"xref", "object"}

-----------------------------------------------------------------------------
(***************************************************************************)
(* Office packages.  lead.ends are the end-of-directory signatures of the  *)
(* tail, last first: whether the comment of each reaches the end of the    *)
(* file, it describes one disk without ZIP64, the directory ends where it  *)
(* starts, and how many entries in how many bytes it announces.  An entry  *)
(* of the directory holds the length of its record, and what the local     *)
(* header it points to says.                                               *)
(***************************************************************************)
Family == {"word/document.xml", "xl/workbook.xml", "ppt/presentation.xml"}
ContentTypes == "[Content_Types].xml"

ParseEndOfCentralDirectory(ends) ==
  LET fitting == {i \in DOMAIN ends : ends[i].fits} IN
    IF fitting = {} THEN [single |-> FALSE]
    ELSE ends[CHOOSE i \in fitting : \A j \in fitting : i <= j]

ZipStart(lead) ==
  LET end == ParseEndOfCentralDirectory(lead.ends) IN
    IF end.single
      THEN [ok |-> /\ end.contiguous
                   /\ end.total \in 1 .. OOXML_MAX_ENTRIES
                   /\ end.bytes \in 1 .. OOXML_MAX_CENTRAL_DIRECTORY_BYTES,
            total |-> end.total, bytes |-> end.bytes, count |-> 0, offset |-> 0, entries |-> {}]
      ELSE [ok |-> FALSE, total |-> 0, bytes |-> 0, count |-> 0, offset |-> 0, entries |-> {}]

RefusesEntry(s, e) ==
  \/ s.count >= s.total
  \/ ~e.plain \/ s.offset + e.length > s.bytes
  \/ \E x \in s.entries : x.name = e.name

ZipStep(s, e) ==
  IF RefusesEntry(s, e) THEN [s EXCEPT !.ok = FALSE]
  ELSE [s EXCEPT !.count = @ + 1, !.offset = @ + e.length, !.entries = @ \cup {e}]

MatchesLocalHeader(e) == e.local.inside /\ e.local.plain /\ e.local.name = e.name

ZipAccepts(lead, s) ==
  LET Get(name) == {e \in s.entries : e.name = name} IN
    /\ s.ok /\ s.count = s.total /\ s.offset = s.bytes
    /\ Get(ContentTypes) # {} /\ Get(lead.family) # {}
    /\ \A other \in Family \ {lead.family} : Get(other) = {}
    /\ \A e \in Get(ContentTypes) \cup Get(lead.family) : MatchesLocalHeader(e)

(***************************************************************************)
(* The reference: the directory that the last complete end record names    *)
(* is filled by its entries, lists each name once, and it is a package of  *)
(* the declared family only.                                               *)
(***************************************************************************)
RecordLengths(f) == [i \in DOMAIN f |-> f[i].length]

ZipPrefix(lead, f) ==
  /\ \E i \in DOMAIN lead.ends :
       /\ lead.ends[i].fits /\ \A j \in 1 .. i - 1 : ~lead.ends[j].fits
       /\ lead.ends[i].single /\ lead.ends[i].contiguous
       /\ lead.ends[i].total \in 1 .. OOXML_MAX_ENTRIES
       /\ lead.ends[i].bytes \in 1 .. OOXML_MAX_CENTRAL_DIRECTORY_BYTES
       /\ Len(f) <= lead.ends[i].total /\ Total(RecordLengths(f)) <= lead.ends[i].bytes
  /\ \A i, j \in DOMAIN f : i # j => f[i].name # f[j].name
  /\ \A i \in DOMAIN f : f[i].plain

IsPackage(lead, f) ==
  /\ ZipPrefix(lead, f)
  /\ Len(f) = ParseEndOfCentralDirectory(lead.ends).total
  /\ Total(RecordLengths(f)) = ParseEndOfCentralDirectory(lead.ends).bytes
  /\ {f[i].name : i \in DOMAIN f} \cap (Family \cup {ContentTypes}) = {lead.family, ContentTypes}
  /\ \A i \in DOMAIN f : f[i].name \in {lead.family, ContentTypes} =>
       f[i].local = [inside |-> TRUE, plain |-> TRUE, name |-> f[i].name]
===============================================================================
