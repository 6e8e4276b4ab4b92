------------------------------ MODULE Multipart ------------------------------
(***************************************************************************)
(* Multipart: how an upload's body, arriving in chunks cut anywhere, is    *)
(* parsed and answered (apps/api/src/assets.ts, parseMultipartUpload).     *)
(*                                                                         *)
(* A body is a sequence of tokens: "r" and "n" are CR and LF, "-" is "-",  *)
(* "b" the boundary; "file", "scope" and "other" each are the headers of a *)
(* part with a file, of the field scope, and of a part without a name;     *)
(* "img" and "txt" stand for a byte of a raster image and of anything      *)
(* else, "ws" for the word workspace.                                      *)
(***************************************************************************)
EXTENDS Integers, Sequences, FiniteSetsExt, SequencesExt

CONSTANTS
  Contents,  \* what a file may contain: sequences of tokens
  MaxBytes,  \* MAX_IMAGE_UPLOAD_BYTES
  MaxParts   \* bound: parts of a body

Tokens == {"r", "n", "-", "b", "file", "scope", "other", "img", "txt", "ws"}

ASSUME UploadAssumption ==
  Contents \subseteq Seq(Tokens) /\ MaxBytes \in Nat /\ MaxParts \in Nat

VARIABLES
  sent,      \* the body as its sender made it
  fed,       \* how many of its tokens have arrived
  buffer,    \* tokens that have arrived and are not consumed
  phase,     \* "feed", "parse", "last" (parsing at the end of the stream), "done"
  started, finished,
  part,      \* the active part, or NoPart
  fields,    \* the value of the field scope
  files,     \* finished parts with a filename
  answer

multipartVars == <<sent, fed, buffer, phase, started, finished, part, fields, files, answer>>

CRLF == <<"r", "n">>
Dashes == <<"-", "-">>
BoundaryBuffer == Dashes \o <<"b">>
NextBoundaryBuffer == CRLF \o BoundaryBuffer
HeaderDelimiter == CRLF \o CRLF
NoPart == [head |-> "none", data |-> <<>>]

Matches(s, t, i) == i + Len(t) - 1 <= Len(s) /\ SubSeq(s, i, i + Len(t) - 1) = t
Occurrences(s, t) == {i \in 1 .. Len(s) : Matches(s, t, i)}

(***************************************************************************)
(* What is sent: a preamble, parts, the closing boundary, an epilogue;     *)
(* some senders stop early or write something else after a boundary.       *)
(***************************************************************************)

\* Who sends a file takes a boundary that the file does not contain.
Parts ==
  {[head |-> "file", data |-> d] :
     d \in {c \in Contents : Occurrences(c, NextBoundaryBuffer) = {}}}
    \cup {[head |-> "scope", data |-> d] : d \in {<<>>, <<"ws">>, <<"txt">>}}
    \cup {[head |-> "other", data |-> <<"img", "img">>]}

Encode(p) == BoundaryBuffer \o CRLF \o <<p.head>> \o HeaderDelimiter \o p.data \o CRLF

WholeBody(s) ==
  s.preamble \o FlattenSeq([i \in DOMAIN s.parts |-> Encode(s.parts[i])])
    \o BoundaryBuffer \o s.closing

Body(s) == LET whole == WholeBody(s) IN SubSeq(whole, 1, Len(whole) - s.cut) \o s.epilogue

Bodies ==
  {s \in [preamble : {<<>>, <<"-">>, <<"txt", "txt", "r", "n">>},
          parts : UNION {[1 .. n -> Parts] : n \in 0 .. MaxParts},
          closing : {Dashes, <<"-", "r">>}, cut : 0 .. 9, epilogue : {<<>>, CRLF}] :
     \* The sender does one thing at a time.
     Cardinality({i \in 1 .. 4 : <<s.preamble # <<>>, s.closing # Dashes, s.cut # 0,
                                   s.epilogue # <<>>>>[i]}) <= 1
       /\ s.cut <= Len(WholeBody(s))}

IsWhole(s) == s.cut = 0 /\ s.closing = Dashes

MultipartInit ==
  /\ sent \in Bodies
  /\ fed = 0 /\ buffer = <<>> /\ phase = "feed"
  /\ started = FALSE /\ finished = FALSE
  /\ part = NoPart /\ fields = <<>> /\ files = <<>>
  /\ answer = "none"

(***************************************************************************)
(* The parser: one action per turn of the loop of parseBuffer.             *)
(***************************************************************************)

Drop(s, n) == SubSeq(s, n + 1, Len(s))
Keep(s, n) == IF Len(s) > n THEN Drop(s, Len(s) - n) ELSE s

Parsing == phase \in {"parse", "last"} /\ ~finished

\* A chunk arrives, of any length.
Feed ==
  /\ phase = "feed" /\ fed < Len(Body(sent))
  /\ \E n \in fed + 1 .. Len(Body(sent)) :
       /\ buffer' = buffer \o SubSeq(Body(sent), fed + 1, n)
       /\ fed' = n
  /\ phase' = "parse"
  /\ UNCHANGED <<sent, started, finished, part, fields, files, answer>>

EndOfStream ==
  /\ phase = "feed" /\ fed = Len(Body(sent))
  /\ phase' = "last"
  /\ UNCHANGED <<sent, fed, buffer, started, finished, part, fields, files, answer>>

Fail(why) == phase' = "done" /\ answer' = why

\* Nothing more to do until the next chunk; at the end of the stream there is none.
AwaitChunk ==
  IF phase = "last" THEN Fail("invalid_multipart") ELSE phase' = "feed" /\ UNCHANGED answer

GoesOn == UNCHANGED <<phase, answer>>

FindStart ==
  /\ Parsing /\ ~started
  /\ LET found == Occurrences(buffer, BoundaryBuffer)
         rest == Drop(buffer, Min(found) - 1 + Len(BoundaryBuffer)) IN
     IF found = {}
     THEN /\ buffer' = Keep(buffer, Len(BoundaryBuffer))
          /\ AwaitChunk
          /\ UNCHANGED <<started, finished>>
     ELSE IF Len(rest) < 2
     THEN AwaitChunk /\ UNCHANGED <<buffer, started, finished>>
     ELSE /\ buffer' = Drop(rest, 2)
          /\ finished' = IsPrefix(Dashes, rest)
          /\ started' = IsPrefix(CRLF, rest)
          /\ IF finished' \/ started' THEN GoesOn ELSE Fail("invalid_multipart")
  /\ UNCHANGED <<sent, fed, part, fields, files>>

ReadHeaders ==
  /\ Parsing /\ started /\ part = NoPart
  /\ LET ends == Occurrences(buffer, HeaderDelimiter) IN
     IF ends = {}
     THEN AwaitChunk /\ UNCHANGED <<buffer, part>>
     ELSE /\ part' = [head |-> Last(SubSeq(buffer, 1, Min(ends) - 1)), data |-> <<>>]
          /\ buffer' = Drop(buffer, Min(ends) - 1 + Len(HeaderDelimiter))
          /\ GoesOn
  /\ UNCHANGED <<sent, fed, started, finished, fields, files>>

\* appendMultipartPartChunk: only a file is limited.
TooLarge(p) == p.head = "file" /\ Len(p.data) > MaxBytes

\* Faulty variant: one byte of a boundary's start too few is kept.
TakeContentShort ==
  /\ Parsing /\ part # NoPart
  /\ Occurrences(buffer, NextBoundaryBuffer) = {}
  /\ buffer' = Keep(buffer, Len(NextBoundaryBuffer) - 2)
  /\ part' = [part EXCEPT !.data = @ \o SubSeq(buffer, 1, Len(buffer) - Len(buffer'))]
  /\ IF TooLarge(part') THEN Fail("payload_too_large") ELSE AwaitChunk
  /\ UNCHANGED <<sent, fed, started, finished, fields, files>>

\* No boundary: all but what may be the start of one is content.
TakeContent ==
  /\ Parsing /\ part # NoPart
  /\ Occurrences(buffer, NextBoundaryBuffer) = {}
  /\ buffer' = Keep(buffer, Len(NextBoundaryBuffer) - 1)
  /\ part' = [part EXCEPT !.data = @ \o SubSeq(buffer, 1, Len(buffer) - Len(buffer'))]
  /\ IF TooLarge(part') THEN Fail("payload_too_large") ELSE AwaitChunk
  /\ UNCHANGED <<sent, fed, started, finished, fields, files>>

\* finalizeMultipartPart: a part without a name is dropped, the last value
\* of a field counts.
Finalize(p) ==
  /\ fields' = IF p.head = "scope" THEN p.data ELSE fields
  /\ files' = IF p.head = "file" THEN Append(files, p.data) ELSE files

EndPart ==
  LET found == Occurrences(buffer, NextBoundaryBuffer)
      whole == [part EXCEPT !.data = @ \o SubSeq(buffer, 1, Min(found) - 1)]
      rest == Drop(buffer, Min(found) - 1 + Len(NextBoundaryBuffer)) IN
  /\ Parsing /\ part # NoPart /\ found # {}
  /\ IF TooLarge(whole)
     THEN Fail("payload_too_large") /\ UNCHANGED <<buffer, part, finished, fields, files>>
     ELSE IF Len(rest) < 2
     THEN /\ part' = whole
          /\ buffer' = Drop(buffer, Min(found) - 1)
          /\ AwaitChunk
          /\ UNCHANGED <<finished, fields, files>>
     ELSE /\ Finalize(whole)
          /\ part' = NoPart
          /\ buffer' = Drop(rest, 2)
          /\ finished' = IsPrefix(Dashes, rest)
          /\ IF finished' \/ IsPrefix(CRLF, rest) THEN GoesOn ELSE Fail("invalid_multipart")
  /\ UNCHANGED <<sent, fed, started>>

\* What follows the closing boundary is read and thrown away.
SkipEpilogue ==
  /\ phase = "parse" /\ finished
  /\ phase' = "feed"
  /\ UNCHANGED <<sent, fed, buffer, started, finished, part, fields, files, answer>>

(***************************************************************************)
(* The route: exactly one file, a known scope, an image by its content.    *)
(***************************************************************************)

\* detectRasterImageMimeType and readImageDimensions: its signature and its
\* header's two sizes.
IsRaster(d) == Len(d) >= 2 /\ d[1] = "img"

\* normalizeScope and normalizeCreateAssetInput.
Accepted(scope, uploads) ==
  /\ scope \in {<<>>, <<"ws">>}
  /\ Len(uploads) = 1
  /\ Len(uploads[1]) <= MaxBytes
  /\ IsRaster(uploads[1])

AnswerUpload ==
  /\ phase = "last" /\ finished
  /\ phase' = "done"
  /\ answer' = IF Accepted(fields, files) THEN "stored" ELSE "bad_request"
  /\ UNCHANGED <<sent, fed, buffer, started, finished, part, fields, files>>

MultipartNext ==
  \/ Feed \/ EndOfStream
  \/ FindStart \/ ReadHeaders \/ TakeContent \/ EndPart \/ SkipEpilogue
  \/ AnswerUpload

MultipartSpec == MultipartInit /\ [][MultipartNext]_multipartVars

(***************************************************************************)
(* Properties.                                                             *)
(***************************************************************************)

\* The data of the parts with such a head, in their order.
DataSent(s, head) ==
  FlattenSeq([i \in DOMAIN s.parts |->
    IF s.parts[i].head = head THEN <<s.parts[i].data>> ELSE <<>>])

FilesSent(s) == DataSent(s, "file")
ScopeSent(s) == IF DataSent(s, "scope") = <<>> THEN <<>> ELSE Last(DataSent(s, "scope"))

\* The answer to an upload is about what was sent and not about how it was
\* cut into chunks: a whole body's one file is stored as it was sent, however
\* like a boundary its content looks, one too large is refused as such, and
\* nothing of a body that broke off is ever stored.
AnswersFitWhatWasSent ==
  phase = "done" =>
    /\ ~IsWhole(sent) => answer # "stored"
    /\ IsWhole(sent) =>
         IF \E i \in DOMAIN FilesSent(sent) : Len(FilesSent(sent)[i]) > MaxBytes
         THEN answer = "payload_too_large"
         ELSE /\ files = FilesSent(sent) /\ fields = ScopeSent(sent)
              /\ answer = IF Accepted(fields, files) THEN "stored" ELSE "bad_request"

\* An oversized file is refused before its tail is buffered: between two
\* chunks no more is held of a file than its limit, and of what may still
\* become a boundary no more than one and the two bytes after it.
UploadsStaySmall ==
  phase = "feed" /\ part.head = "file" =>
    Len(part.data) <= MaxBytes /\ Len(buffer) <= Len(NextBoundaryBuffer) + 1

\* A file arrives as it was sent, and no more of one than its limit is held.
UploadsArriveAsSent == AnswersFitWhatWasSent /\ UploadsStaySmall
=============================================================================
