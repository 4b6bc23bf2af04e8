----------------------------- MODULE MalwareScan -----------------------------
(***************************************************************************)
(* MediaMalwareScannerService.scan: one upload against a clamd that may    *)
(* answer late, in pieces, partly or not at all.  Each action is one       *)
(* socket event, one write or the timer; all may come in any order.        *)
(***************************************************************************)
EXTENDS Naturals, Sequences

CONSTANTS Chunks,          \* chunks of the file
          MaxResponse,     \* tokens of the longest response that is read
          SignatureNames,  \* what clamd may find
          ErrorTexts       \* what it may say before the word ERROR

(***************************************************************************)
(* A reply is a sequence of tokens: "OK" stands for these two letters      *)
(* wherever a word begins with them, in a signature name too, "stream:"    *)
(* for text with a colon, "FOUND" for that word after a blank, and "text"  *)
(* for any other bytes.                                                    *)
(***************************************************************************)
Words == {"stream:", "text", "OK", "FOUND"}
Nul == "NUL"
NewLine == "LF"

ASSUME ScanAssumption ==
  /\ Chunks \in Nat /\ MaxResponse \in Nat
  /\ SignatureNames \subseteq Seq(Words) /\ ErrorTexts \subseteq Seq(Words)

VARIABLES mode,          \* MEDIA_MALWARE_SCAN_MODE
          infected,      \* what clamd finds in the whole file
          conn,          \* the socket: new, connecting, open, closed
          written,       \* writes done: the command, the chunks, the end mark
          streaming,     \* streamFile is running
          reply,         \* what clamd sends, once it answers
          got,           \* tokens of it that have been received
          partial,       \* and a part of the next word
          ended,         \* clamd has ended the connection
          outcome        \* how the promise was settled, or "pending"

replyVars == <<reply, got, partial, ended>>
scanVars == <<mode, infected, conn, written, streaming, replyVars, outcome>>

Whole == Chunks + 2
Silent == <<>>

ScanInit ==
  /\ mode \in {"disabled", "clamav", "other"}
  /\ infected \in BOOLEAN
  /\ conn = "new"
  /\ written = 0
  /\ streaming = FALSE
  /\ reply = Silent /\ got = 0 /\ partial = FALSE
  /\ ended = FALSE
  /\ outcome = "pending"

(***************************************************************************)
(* succeed and fail: the first one settles the promise, clears the timer,  *)
(* removes the listeners and destroys the socket.                          *)
(***************************************************************************)
Settle(o) ==
  IF outcome = "pending" THEN outcome' = o /\ conn' = "closed" ELSE UNCHANGED <<outcome, conn>>

Scan ==
  /\ conn = "new"
  /\ outcome = "pending"
  /\ \/ /\ mode = "clamav"
        /\ conn' = "connecting"
        /\ UNCHANGED outcome
     \/ mode = "disabled" /\ Settle("clean")
     \/ mode # "disabled" /\ Settle("INVALID_CONFIGURATION")  \* mode, host, port or timeout
  /\ UNCHANGED <<mode, infected, written, streaming, replyVars>>

Listening == outcome = "pending" /\ conn # "new"

OnConnect ==
  /\ Listening
  /\ conn = "connecting"
  /\ conn' = "open"
  /\ streaming' = TRUE
  /\ UNCHANGED <<mode, infected, written, replyVars, outcome>>

(***************************************************************************)
(* streamFile: a write needs a writable socket; reading the file may fail. *)
(* It goes on after the promise is settled, until a write fails.           *)
(***************************************************************************)
WriteChunk ==
  /\ streaming
  /\ conn = "open"
  /\ written' = written + 1
  /\ streaming' = (written' < Whole)
  /\ UNCHANGED <<mode, infected, conn, replyVars, outcome>>

StreamFails ==
  /\ streaming
  /\ streaming' = FALSE
  /\ \/ conn = "closed" /\ Settle("SCANNER_UNAVAILABLE")
     \/ conn # "closed" /\ Settle("SCANNER_ERROR")
  /\ UNCHANGED <<mode, infected, written, replyVars>>

(***************************************************************************)
(* clamd decides after the end mark; before it, it can only report errors. *)
(* It ends its answer with NUL; a newline or nothing is understood too.    *)
(***************************************************************************)
Answer ==
  /\ conn = "open"
  /\ reply = Silent
  /\ \E terminator \in {<<Nul>>, <<NewLine>>, <<>>} :
       \/ /\ written = Whole /\ ~infected
          /\ reply' = <<"stream:", "OK">> \o terminator
       \/ /\ written = Whole /\ infected
          /\ \E name \in SignatureNames :
               reply' = <<"stream:">> \o name \o <<"FOUND">> \o terminator
       \/ /\ written > 0
          /\ \E text \in ErrorTexts : reply' = text \o <<"text">> \o terminator
  /\ UNCHANGED <<mode, infected, conn, written, streaming, got, partial, ended, outcome>>

(***************************************************************************)
(* What has been received: a prefix of the reply, whose last word may be   *)
(* cut, and is then the beginning of a word.                               *)
(***************************************************************************)
Response == SubSeq(reply, 1, got) \o (IF partial THEN <<"text">> ELSE <<>>)

(* finishFromResponse, on the tokens of r at some positions: what follows  *)
(* the last word is trimmed.                                               *)
EndsAt(r, text, i) == \A j \in text : j > i => r[j] = NewLine
SaysOk(r, text) == \E i \in text : r[i] = "OK" /\ EndsAt(r, text, i)
SaysFound(r, text) ==
  \E i, j \in text : i + 1 < j /\ r[i] = "stream:" /\ r[j] = "FOUND" /\ EndsAt(r, text, j)

FinishFromResponse(r, text) ==
  CASE SaysOk(r, text) -> "clean"
    [] ~SaysOk(r, text) /\ SaysFound(r, text) -> "MALWARE_DETECTED"
    [] OTHER -> "SCANNER_ERROR"

(* Mutant: a response is evaluated as soon as there is one.                 *)
TerminatedOrNot(r) == r # <<>>
Terminated(r) == \E i \in DOMAIN r : r[i] \in {Nul, NewLine}
BeforeNul(r) == {i \in DOMAIN r : \A j \in 1 .. i : r[j] # Nul}
WithoutNuls(r) == {i \in DOMAIN r : r[i] # Nul}

OnData ==
  /\ Listening
  /\ conn = "open"
  /\ \E n \in got .. Len(reply), p \in BOOLEAN :
       /\ n > got \/ (p /\ ~partial)
       /\ p => n < Len(reply) /\ reply[n + 1] \in Words
       /\ got' = n
       /\ partial' = p
  /\ UNCHANGED <<mode, infected, written, streaming, reply, ended>>
  /\ IF Len(Response') > MaxResponse THEN Settle("SCANNER_ERROR")
     ELSE IF Terminated(Response') THEN Settle(FinishFromResponse(Response', BeforeNul(Response')))
     ELSE UNCHANGED <<outcome, conn>>

(***************************************************************************)
(* The peer ends the connection, its reply sent, cut short or missing.     *)
(***************************************************************************)
OnEnd ==
  /\ Listening
  /\ conn = "open"
  /\ ended' = TRUE
  /\ LET text == WithoutNuls(Response) IN
       IF \E i \in text : Response[i] # NewLine
         THEN Settle(FinishFromResponse(Response, text))
         ELSE Settle("SCANNER_UNAVAILABLE")
  /\ UNCHANGED <<mode, infected, written, streaming, reply, got, partial>>

OnError ==
  /\ Listening
  /\ Settle("SCANNER_UNAVAILABLE")
  /\ UNCHANGED <<mode, infected, written, streaming, replyVars>>

OnTimeout ==
  /\ Listening
  /\ Settle("SCANNER_UNAVAILABLE")
  /\ UNCHANGED <<mode, infected, written, streaming, replyVars>>

ScanNext ==
  \/ Scan \/ OnConnect \/ WriteChunk \/ StreamFails \/ Answer
  \/ OnData \/ OnEnd \/ OnError \/ OnTimeout

ScanSpec == ScanInit /\ [][ScanNext]_scanVars

-----------------------------------------------------------------------------
(* The file was streamed in full, and clamd found nothing in it.           *)
Scanned == written = Whole /\ ~infected

(* clamd went away before it had sent the last word of its reply.          *)
Cut == ended /\ \E i \in got + 1 .. Len(reply) : reply[i] \in Words

(***************************************************************************)
(* With the scanner on, a file is let through only when all of it was      *)
(* streamed and clamd found nothing in it, however the reply was split     *)
(* into pieces, and whatever failed or timed out.  The one exception is a  *)
(* connection that clamd ended within its reply: the end handler takes     *)
(* what it has for the whole reply, and it may read OK.                    *)
(***************************************************************************)
CleanMeansScanned == outcome = "clean" /\ mode # "disabled" => Scanned \/ Cut

(***************************************************************************)
(* docs/media-upload.md: "a connection closing without a trustworthy       *)
(* result returns HTTP 503", that is, a scan that was cut short lets       *)
(* nothing through.                                                        *)
(***************************************************************************)
CutRepliesAreRefused == outcome = "clean" /\ mode # "disabled" => Scanned
=============================================================================
