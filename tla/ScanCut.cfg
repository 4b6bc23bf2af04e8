\* A file of two chunks before a clamd that may go away within its reply, and
\* whose error texts never read OK.
SPECIFICATION MalwareSpec
CONSTANTS Assets = {a1}
          Replicas = {r1, r2}
          TotalSpace = 2
          ReserveSpace = 1
          MaxFaults = 2
          PNG_MAX_CHUNKS = 5
          JPEG_MAX_HEADER_MARKERS = 4
          OGG_MAX_PAGES = 4
          MAX_TAG_BYTES = 511
          MAX_AUDIO_PACKET_BYTES = 256
          MAX_AUDIO_PACKETS = 3
          MAX_FRAMES = 4
          MAX_TOP_LEVEL_BOXES = 4
          MAX_FILE_TYPE_BOX_BYTES = 20
          MAX_LEADING_BOXES = 1
          INSPECTION_BYTES = 32
          PDF_HEADER_SEARCH = 2
          PDF_TAIL_SEARCH = 3
          OOXML_MAX_ENTRIES = 4
          OOXML_MAX_CENTRAL_DIRECTORY_BYTES = 150
          Chunks = 2
          MaxResponse = 5
          SignatureNames <- MCSignatureNames
          ErrorTexts <- MCPlainErrors
          Leads <- MCLeads
          Units <- MCUnits
          MaxUnits <- MCMaxUnits
CHECK_DEADLOCK FALSE
INVARIANT CutRepliesAreRefused
