\* Two calls that share a key and one without, and consent decisions of two
\* instants in any order; two workers and one second of a sender's slots;
\* pairs of requests on small sender tables; three streams for two slots;
\* a queue of three spans.  One asset with two replicas that maintain it and
\* two faults; every file of a few units of each inspected type; a file of two
\* chunks before clamd.
SPECIFICATION Spec
CONSTANTS r1 = r1
          r2 = r2
          r3 = r3
          k1 = k1
          Requests = {r1, r2, r3}
          KeyOf <- MCKeyOf
          NoKey = NoKey
          Unanswered = Unanswered
          Refused = Refused
          TypeOf <- MCTypeOf
          Decisions <- MCDecisions
          MaxDecisions = 2
          MaxChanges = 1
          ada = ada
          bob = bob
          biz = biz
          Senders <- MCSenders
          RateWorkers = {w1, w2}
          Second = 2
          Reservation = 1
          FallbackLimit = 3
          MaxLag = 1
          PhoneNumbers = {1, 2, 3}
          Tenants = {ada, bob}
          Wabas = {biz}
          Registries <- MCRegistries
          PhoneCalls <- MCPhoneCalls
          Callers = {u1, u2}
          Nil = Nil
          Streams = {1, 2, 3}
          TenantOf <- MCTenantOf
          MaxConnections = 2
          MaxQueueSize = 3
          MaxBatchSize = 2
          MaxSpans = 6
          Assets = {a1}
          Replicas = {r1, r2}
          TotalSpace = 2
          ReserveSpace = 1
          MaxFaults = 2
          PNG_MAX_CHUNKS = 5
          JPEG_MAX_HEADER_MARKERS = 4
          OGG_MAX_PAGES = 4
          MAX_TAG_BYTES = 511
          MAX_AUDIO_PACKET_BYTES = 256
          MAX_AUDIO_PACKETS = 3
          MAX_FRAMES = 4
          MAX_TOP_LEVEL_BOXES = 4
          MAX_FILE_TYPE_BOX_BYTES = 20
          MAX_LEADING_BOXES = 1
          INSPECTION_BYTES = 32
          PDF_HEADER_SEARCH = 2
          PDF_TAIL_SEARCH = 3
          OOXML_MAX_ENTRIES = 4
          OOXML_MAX_CENTRAL_DIRECTORY_BYTES = 150
          Chunks = 2
          MaxResponse = 5
          SignatureNames <- MCSignatureNames
          ErrorTexts <- MCErrorTexts
          Leads <- MCLeads
          Units <- MCUnits
          MaxUnits <- MCMaxUnits
CHECK_DEADLOCK FALSE
INVARIANTS AcceptedWasAllowed SecondWithinLimit OtpHeadroom SendersResolve
           StreamsHoldTheirOwn SpansLeaveOnceInOrder
           BinariesMatchRows VerdictIsGrammar LengthsTileTheFile CleanMeansScanned
PROPERTIES KeepsPromise ShutdownDrains OutcomeIsFinal BinariesAreReclaimed
