---------------------------- MODULE MediaStorage ----------------------------
(***************************************************************************)
(* packages/media-storage: uploads, downloads and deletions of media       *)
(* (service.ts) over two files for each object, its bytes and its          *)
(* metadata (filesystem-provider.ts).  Calls run concurrently in one       *)
(* process; a file is written in steps that others can see, and the        *)
(* process may stop between any two.                                       *)
(*                                                                         *)
(* An object has one content, so a file is absent, torn (a prefix of what  *)
(* it should be) or whole.                                                 *)
(***************************************************************************)
EXTENDS ImageContainers

CONSTANTS Calls,
          Media,     \* the ids uploads draw: random, so each serves one upload
          Images,    \* what clients upload
          NoCall, NoMedia, NoImage,
          MaxFaults  \* bound on failing writes, removals and audits, and on crashes

ASSUME MediaAssumption ==
  /\ NoCall \notin Calls /\ NoMedia \notin Media /\ NoImage \notin Images
  /\ Images \subseteq [mime : {"image/png", "image/jpeg"}, parts : Seq(PngTypes \union JpegTypes)]
  /\ MaxFaults \in Nat

VARIABLES file, call,
          past,      \* what has happened to each object
          faults

vars == <<file, call, past, faults>>

Parts == {"bin", "json"}

\* writer: the call that created the file and has not finished it.
File == [data : {"absent", "torn", "whole"}, writer : Calls \union {NoCall}]

Absent == [data |-> "absent", writer |-> NoCall]

Phases == {"idle", "sanitizing", "creating", "writing", "discarding", "removing", "auditing",
           "reading", "serving"}

\* part: the file put() or its clean-up is at.  left: files still to read or to remove.
\* bytes: of the object in memory.
Call == [op : {"none", "upload", "download", "delete"}, phase : Phases,
         media : Media \union {NoMedia}, image : Images \union {NoImage},
         part : Parts, left : SUBSET Parts, bytes : {"absent", "torn", "whole"}]

Idle == [op |-> "none", phase |-> "idle", media |-> NoMedia, image |-> NoImage,
         part |-> "bin", left |-> {}, bytes |-> "absent"]

\* returned: upload() returned its id.  deleted: a deletion was recorded and returned.
\* overlapped: two deletions ran at the same time.  damaged: a crash, a failing removal or
\* a failing restoration left the files as they were.
Events == {"drawn", "returned", "deleted", "overlapped", "damaged"}

Init ==
  /\ file = [m \in Media |-> [p \in Parts |-> Absent]]
  /\ call = [c \in Calls |-> Idle]
  /\ past = [m \in Media |-> {}]
  /\ faults = 0

-----------------------------------------------------------------------------
In(c, op, phase) == call[c].op = op /\ call[c].phase = phase

Goto(c, l) == call' = [call EXCEPT ![c] = l]

End(c) == Goto(c, Idle)

Mine(c) == file[call[c].media]

SetFile(c, p, f) == file' = [file EXCEPT ![call[c].media][p] = f]

Happened(m, events) == past' = [past EXCEPT ![m] = @ \union events]

Fault == faults < MaxFaults /\ faults' = faults + 1

Deleting(m) == {c \in Calls : call[c].op = "delete" /\ call[c].media = m}

\* The clients of download and delete know the ids that uploads returned.
Known == {m \in Media : "returned" \in past[m]}

-----------------------------------------------------------------------------
(* put(): two files, each created exclusively and then written.            *)

\* A mutant: the metadata comes first.
JsonFirst == "json"

FirstPart == "bin"

Other(p) == CHOOSE q \in Parts : q # p

PutStart(l) == [l EXCEPT !.phase = "creating", !.part = FirstPart]

\* put() failed with nothing more to clean: upload throws; delete has lost the object.
PutFails(c) ==
  /\ End(c)
  /\ IF call[c].op = "delete" THEN Happened(call[c].media, {"damaged"}) ELSE UNCHANGED past

\* put() is done: upload goes on to its audit, delete throws the error of its own.
PutReturns(c) ==
  IF call[c].op = "upload" THEN Goto(c, [call[c] EXCEPT !.phase = "auditing"]) ELSE End(c)

Create(c) ==
  /\ call[c].phase = "creating"
  /\ Mine(c)[call[c].part].data = "absent"
  /\ SetFile(c, call[c].part, [data |-> "torn", writer |-> c])
  /\ Goto(c, [call[c] EXCEPT !.phase = "writing"])
  /\ UNCHANGED <<past, faults>>

\* The failure of a file: the one that was committed before it is removed.
AfterFailure(c) ==
  IF call[c].part = FirstPart THEN PutFails(c)
  ELSE /\ Goto(c, [call[c] EXCEPT !.phase = "discarding", !.part = FirstPart])
       /\ UNCHANGED past

\* The file exists, or the disk refuses another.
CreateFails(c) ==
  /\ call[c].phase = "creating"
  /\ IF Mine(c)[call[c].part].data = "absent" THEN Fault ELSE UNCHANGED faults
  /\ AfterFailure(c)
  /\ UNCHANGED file

\* What a file holds once it is written: the bytes in memory, or their metadata.
Content(c) == IF call[c].part = "bin" THEN call[c].bytes ELSE "whole"

\* writeFile, close and stat.  A file that was removed meanwhile takes the bytes with it,
\* and stat finds none, or finds the file of another call.
Write(c) ==
  /\ call[c].phase = "writing"
  /\ Mine(c)[call[c].part].data # "absent"
  /\ IF Mine(c)[call[c].part].writer = c
     THEN SetFile(c, call[c].part, [data |-> Content(c), writer |-> NoCall])
     ELSE UNCHANGED file
  /\ IF call[c].part = FirstPart
     THEN Goto(c, [call[c] EXCEPT !.phase = "creating", !.part = Other(FirstPart)])
     ELSE PutReturns(c)
  /\ UNCHANGED <<past, faults>>

WriteFails(c) ==
  /\ call[c].phase = "writing"
  /\ IF Mine(c)[call[c].part].data = "absent" THEN UNCHANGED faults ELSE Fault
  /\ Goto(c, [call[c] EXCEPT !.phase = "discarding"])
  /\ UNCHANGED <<file, past>>

\* rm of the file that failed, and of the one before it.
Discard(c) ==
  /\ call[c].phase = "discarding"
  /\ SetFile(c, call[c].part, Absent)
  /\ AfterFailure(c)
  /\ UNCHANGED faults

-----------------------------------------------------------------------------
(* get() and remove(): both files in parallel.                             *)

\* A file that is missing makes the object missing; torn metadata does not parse.
ReadFile(c, p) ==
  /\ call[c].phase = "reading"
  /\ p \in call[c].left
  /\ LET data == Mine(c)[p].data
         l == [call[c] EXCEPT !.left = @ \ {p}, !.bytes = IF p = "bin" THEN data ELSE @]
     IN  IF data = "absent" \/ (p = "json" /\ data = "torn") THEN End(c)
         ELSE IF l.left # {} THEN Goto(c, l)
         ELSE Goto(c, IF l.op = "download" THEN [l EXCEPT !.phase = "serving"]
                      ELSE [l EXCEPT !.phase = "removing", !.left = Parts])
  /\ UNCHANGED <<file, past, faults>>

\* The access policy may refuse what was read.
Refuse(c) ==
  /\ \/ In(c, "download", "serving")
     \/ In(c, "delete", "removing") /\ call[c].left = Parts
  /\ End(c)
  /\ UNCHANGED <<file, past, faults>>

\* rm of one file; remove() returns when both are gone.
RemoveFile(c, p) ==
  /\ call[c].phase = "removing"
  /\ p \in call[c].left
  /\ SetFile(c, p, Absent)
  /\ IF call[c].left # {p} THEN Goto(c, [call[c] EXCEPT !.left = @ \ {p}])
     ELSE IF call[c].op = "upload" THEN End(c)
     ELSE Goto(c, [call[c] EXCEPT !.phase = "auditing", !.left = {}])
  /\ UNCHANGED <<past, faults>>

\* remove() fails: upload ignores that, delete throws before its audit.
RemoveFails(c) ==
  /\ call[c].phase = "removing"
  /\ Fault
  /\ End(c)
  /\ Happened(call[c].media, {"damaged"})
  /\ UNCHANGED file

-----------------------------------------------------------------------------
(* The service.                                                            *)

\* Identifiers, names, sizes and access have been checked; the id is drawn later in the
\* code, which nobody can see.
BeginUpload(c, m) ==
  /\ call[c].phase = "idle"
  /\ "drawn" \notin past[m]
  /\ \E image \in Images :
       Goto(c, [Idle EXCEPT !.op = "upload", !.phase = "sanitizing", !.media = m, !.image = image])
  /\ Happened(m, {"drawn"})
  /\ UNCHANGED <<file, faults>>

\* sanitize(): what the scanner accepts the decoder may still refuse.
Sanitize(c) ==
  /\ call[c].phase = "sanitizing"
  /\ \/ Accepted(call[c].image) /\ Goto(c, PutStart([call[c] EXCEPT !.image = NoImage, !.bytes = "whole"]))
     \/ End(c)
  /\ UNCHANGED <<file, past, faults>>

BeginDownload(c, m) ==
  /\ call[c].phase = "idle" /\ m \in Known
  /\ Goto(c, [Idle EXCEPT !.op = "download", !.phase = "reading", !.media = m, !.left = Parts])
  /\ UNCHANGED <<file, past, faults>>

BeginDelete(c, m) ==
  /\ call[c].phase = "idle" /\ m \in Known
  /\ Goto(c, [Idle EXCEPT !.op = "delete", !.phase = "reading", !.media = m, !.left = Parts])
  /\ Happened(m, IF Deleting(m) # {} THEN {"overlapped"} ELSE {})
  /\ UNCHANGED <<file, faults>>

\* A mutant: any bytes will do.
AnyBytes(c) == TRUE

\* The size and the digest of the metadata, against the bytes.
Intact(c) == call[c].bytes = "whole"

\* download() checks what it read; then it records the access and returns the object.
Serve(c) ==
  /\ In(c, "download", "serving")
  /\ IF Intact(c) THEN Goto(c, [call[c] EXCEPT !.phase = "auditing"]) ELSE End(c)
  /\ UNCHANGED <<file, past, faults>>

\* The record is written, and the call returns.
Audit(c) ==
  /\ call[c].phase = "auditing"
  /\ End(c)
  /\ Happened(call[c].media, CASE call[c].op = "upload"   -> {"returned"}
                               [] call[c].op = "delete"   -> {"deleted"}
                               [] call[c].op = "download" -> {})
  /\ UNCHANGED <<file, faults>>

\* A mutant: the deleted object is not put back.
NoWayBack(c) == End(c)

\* The record cannot be written: an upload is removed and a deleted object put back.
Undo(c) ==
  CASE call[c].op = "upload"   -> Goto(c, [call[c] EXCEPT !.phase = "removing", !.left = Parts])
    [] call[c].op = "delete"   -> Goto(c, PutStart(call[c]))
    [] call[c].op = "download" -> End(c)

AuditFails(c) ==
  /\ call[c].phase = "auditing"
  /\ Fault
  /\ Undo(c)
  /\ UNCHANGED <<file, past>>

\* The process stops; the files stay as they are.
Crash ==
  /\ Fault
  /\ \E c \in Calls : call[c].op # "none"
  /\ past' = [m \in Media |-> past[m] \union
                (IF \E c \in Calls : call[c].media = m THEN {"damaged"} ELSE {})]
  /\ file' = [m \in Media |-> [p \in Parts |-> [file[m][p] EXCEPT !.writer = NoCall]]]
  /\ call' = [c \in Calls |-> Idle]

Next ==
  \/ \E c \in Calls :
       \/ Create(c) \/ CreateFails(c) \/ Write(c) \/ WriteFails(c) \/ Discard(c)
       \/ \E p \in Parts : ReadFile(c, p) \/ RemoveFile(c, p)
       \/ Refuse(c) \/ RemoveFails(c) \/ Sanitize(c) \/ Serve(c) \/ Audit(c) \/ AuditFails(c)
  \/ \E c \in Calls, m \in Media :
       BeginUpload(c, m) \/ BeginDownload(c, m) \/ BeginDelete(c, m)
  \/ Crash

Spec == Init /\ [][Next]_vars

-----------------------------------------------------------------------------
(* Properties.                                                             *)

\* Types.
MediaTypeOK ==
  /\ file \in [Media -> [Parts -> File]]
  /\ call \in [Calls -> Call]
  /\ past \in [Media -> SUBSET Events]
  /\ faults \in 0..MaxFaults

\* The scanners let exactly the files through that have the form of their format as a
\* whole, whatever is repeated, missing, out of order or appended.
AcceptedIsWellFormed ==
  \A c \in Calls :
    call[c].phase = "sanitizing" => (Accepted(call[c].image) <=> WellFormed(call[c].image))

\* put() writes the metadata last: where the metadata of an object is whole its bytes are
\* never torn, not even after a crash, unless two deletions of it overlapped.
MetadataMarksWholeBytes ==
  \A m \in Media :
    file[m]["json"].data = "whole" /\ "overlapped" \notin past[m] => file[m]["bin"].data # "torn"

\* download() never returns torn bytes: not while a restoration writes them, not after two
\* deletions put back what one of them read half-written.
NothingTornIsServed ==
  \A c \in Calls : In(c, "download", "auditing") => call[c].bytes = "whole"

\* Once no call works on an object both of its files are whole if its upload returned and
\* no deletion did, and neither is there otherwise: a failed audit is undone completely.
\* The exceptions are those that `past` names.
AuditedOrUndone ==
  \A m \in Media :
    /\ past[m] \intersect {"overlapped", "damaged"} = {}
    /\ \A c \in Calls : call[c].media # m
    => \A p \in Parts : file[m][p].data =
         IF "returned" \in past[m] /\ "deleted" \notin past[m] THEN "whole" ELSE "absent"
=============================================================================
