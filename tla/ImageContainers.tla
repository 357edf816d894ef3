-------------------------- MODULE ImageContainers --------------------------
(***************************************************************************)
(* packages/media-storage/src/image-sanitizer.ts: what the scanners of PNG *)
(* chunks and JPEG segments let through to the decoder.  A file is the     *)
(* sequence of its chunks (or, after SOI, of its markers and scan data),   *)
(* each named by its type; "bad" is one whose length, checksum or header   *)
(* is wrong.                                                               *)
(***************************************************************************)
EXTENDS Naturals, Sequences, SequencesExt

PngTypes == {"IHDR", "PLTE", "IDAT", "IEND", "ancillary", "critical", "bad"}

JpegTypes == {"APP", "TEM", "SOF0", "SOF2", "SOS", "RST", "data", "EOI", "bad"}

PngStart == [ihdr |-> FALSE, idat |-> FALSE, ended |-> FALSE, iend |-> FALSE, valid |-> TRUE]

\* A mutant: chunks may come between those of the image data.
AnyIdat(s, type) ==
  /\ ~s.iend
  /\ type \notin {"critical", "bad"}
  /\ (type = "IHDR") = ~s.ihdr
  /\ type = "IEND" => s.idat

\* What is wrong with a chunk whatever comes after it.
PngChunkIsValid(s, type) ==
  /\ ~s.iend
  /\ type \notin {"critical", "bad"}
  /\ (type = "IHDR") = ~s.ihdr
  /\ type = "IDAT" => ~s.ended
  /\ type = "IEND" => s.idat

PngChunk(s, type) ==
  [ihdr  |-> s.ihdr \/ type = "IHDR",
   idat  |-> s.idat \/ type = "IDAT",
   ended |-> s.ended \/ (s.idat /\ type \notin {"IDAT", "IEND"}),
   iend  |-> s.iend \/ type = "IEND",
   valid |-> s.valid /\ PngChunkIsValid(s, type)]

PngAccepted(chunks) ==
  LET s == FoldLeft(PngChunk, PngStart, chunks)
  IN  s.valid /\ s.ihdr /\ s.idat /\ s.iend

\* part: where the scanner is; frame: it saw the baseline frame.
JpegStart == [part |-> "segments", frame |-> FALSE]

JpegSegment(s, type) ==
  CASE type \in {"APP", "TEM"}        -> s
    [] type = "SOF0" /\ ~s.frame      -> [s EXCEPT !.frame = TRUE]
    [] type = "SOS" /\ s.frame        -> [s EXCEPT !.part = "scan"]
    [] type = "EOI" /\ s.frame        -> [s EXCEPT !.part = "end"]
    [] OTHER                          -> [s EXCEPT !.part = "invalid"]

\* findSingleScanEoi: one scan, without another marker than a restart, then EOI.
JpegScan(s, type) ==
  CASE type \in {"data", "RST"} -> s
    [] type = "EOI"             -> [s EXCEPT !.part = "end"]
    [] OTHER                    -> [s EXCEPT !.part = "invalid"]

JpegToken(s, type) ==
  CASE s.part = "segments" -> JpegSegment(s, type)
    [] s.part = "scan"     -> JpegScan(s, type)
    [] OTHER               -> [s EXCEPT !.part = "invalid"]

JpegAccepted(tokens) == FoldLeft(JpegToken, JpegStart, tokens).part = "end"

\* sanitize(): the scanner of the detected type, then the decoder.
Accepted(image) ==
  IF image.mime = "image/png" THEN PngAccepted(image.parts) ELSE JpegAccepted(image.parts)

-----------------------------------------------------------------------------
(* What the two formats ask of a file, said of the whole of it.            *)

Only(parts, type, i) == \A j \in DOMAIN parts : parts[j] = type <=> j = i

WellFormedPng(parts) ==
  /\ parts # <<>>
  /\ Only(parts, "IHDR", 1) /\ Only(parts, "IEND", Len(parts))
  /\ \E first, last \in DOMAIN parts :
       \A i \in DOMAIN parts : parts[i] = "IDAT" <=> i \in first..last
  /\ Contains(parts, "IDAT")
  /\ \A i \in DOMAIN parts : parts[i] \notin {"critical", "bad"}

WellFormedJpeg(parts) ==
  /\ parts # <<>>
  /\ Only(parts, "EOI", Len(parts))
  /\ \E frame \in DOMAIN parts, scan \in 1..Len(parts) :
       /\ Only(parts, "SOF0", frame)
       /\ frame < scan
       /\ parts[scan] = "SOS" \/ scan = Len(parts)
       /\ \A i \in 1..(scan - 1) : parts[i] \in {"APP", "TEM", "SOF0"}
       /\ \A i \in (scan + 1)..(Len(parts) - 1) : parts[i] \in {"data", "RST"}

WellFormed(image) ==
  IF image.mime = "image/png" THEN WellFormedPng(image.parts) ELSE WellFormedJpeg(image.parts)
=============================================================================
