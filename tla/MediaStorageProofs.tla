------------------------- MODULE MediaStorageProofs -------------------------
(***************************************************************************)
(* Theorems about MediaStorage, for any number of calls, objects and       *)
(* images and of faults.                                                   *)
(***************************************************************************)
EXTENDS MediaStorage, NaturalsInduction, WellFoundedInduction, TLAPS

Changing == {"upload", "delete"}

\* Which operation gets to which phase.
CallOK(l) ==
  /\ l.op = "none" => l = Idle
  /\ l.op # "none" => l.phase # "idle" /\ l.media \in Media
  /\ l.phase = "sanitizing" => l.op = "upload" /\ l.image \in Images
  /\ l.phase = "reading" => l.op \in {"download", "delete"}
  /\ l.phase = "serving" => l.op = "download"
  /\ l.phase \in {"creating", "writing", "discarding", "removing"} => l.op \in Changing
  /\ l.op = "download" /\ l.phase = "auditing" => l.bytes = "whole"

\* What a call knows of the past e of its object.
PastOK(l, e) ==
  /\ "drawn" \in e
  /\ IF l.op = "upload" THEN "returned" \notin e ELSE "returned" \in e

EventsOK(e) ==
  /\ e # {} => "drawn" \in e
  /\ e \intersect {"deleted", "overlapped"} # {} => "returned" \in e

\* The files f of an object that no call is changing.
Settled(f, e) ==
  /\ f["json"].data = "whole" => f["bin"].data # "torn"
  /\ "damaged" \notin e =>
       \A p \in Parts : f[p].data =
         IF "returned" \in e /\ "deleted" \notin e THEN "whole" ELSE "absent"

\* The files f of an object that call c, at l, is alone in changing.
Stage(c, l, f, e) ==
  /\ l.phase \notin {"sanitizing", "reading"} => l.bytes = "whole"
  /\ l.op = "delete" /\ l.phase # "reading" /\ "damaged" \notin e => "deleted" \notin e
  /\ l.phase = "sanitizing" => \A p \in Parts : f[p].data = "absent"
  /\ l.phase = "reading" =>
       /\ "bin" \notin l.left => l.bytes = f["bin"].data /\ l.bytes # "absent"
       /\ "json" \notin l.left => f["json"].data = "whole"
  /\ l.phase = "creating" =>
       /\ f["bin"].data = IF l.part = "bin" THEN "absent" ELSE "whole"
       /\ f["json"].data = "absent"
  /\ l.phase = "writing" =>
       /\ f[l.part] = [data |-> "torn", writer |-> c]
       /\ IF l.part = "bin" THEN f["json"].data = "absent" ELSE f["bin"].data = "whole"
  /\ l.phase = "discarding" =>
       IF l.part = "bin" THEN f["json"].data = "absent" ELSE f["bin"].data = "whole"
  /\ l.phase = "removing" =>
       \A p \in Parts : f[p].data = IF p \in l.left THEN "whole" ELSE "absent"
  /\ l.phase = "auditing" =>
       \A p \in Parts : f[p].data = IF l.op = "upload" THEN "whole" ELSE "absent"

Changes(l, m) == l.op \in Changing /\ l.media = m

ObjectOK(m) ==
  /\ EventsOK(past[m])
  /\ \A c \in Calls : call[c].media = m => PastOK(call[c], past[m])
  /\ \A c, d \in Calls :
       c # d /\ Changes(call[c], m) /\ Changes(call[d], m) => "overlapped" \in past[m]
  /\ "overlapped" \notin past[m] =>
       /\ \A c \in Calls : Changes(call[c], m) => Stage(c, call[c], file[m], past[m])
       /\ (\A c \in Calls : Changes(call[c], m) => call[c].phase = "reading")
            => Settled(file[m], past[m])

IndInv ==
  /\ MediaTypeOK
  /\ \A c \in Calls : CallOK(call[c])
  /\ \A m \in Media : ObjectOK(m)

-----------------------------------------------------------------------------
(* Steps of one call.                                                      *)

LEMMA PartNames == Parts = {"bin", "json"} /\ FirstPart = "bin" /\ Other(FirstPart) = "json"
BY DEF Parts, FirstPart, Other

LEMMA IdleCall == Idle \in Call /\ CallOK(Idle) /\ Idle.op = "none" /\ Idle.media = NoMedia
BY PartNames DEF Idle, Call, Phases, CallOK

\* The invariant, as the facts most steps need.
LEMMA Facts ==
  ASSUME IndInv, NEW c \in Calls
  PROVE  /\ call[c] \in Call /\ CallOK(call[c]) /\ NoMedia \notin Media
         /\ call[c].op \in {"none", "upload", "download", "delete"} /\ call[c].phase \in Phases
         /\ call[c].left \subseteq Parts /\ call[c].part \in Parts
         /\ call[c].bytes \in {"absent", "torn", "whole"}
         /\ call[c].op # "none" =>
              /\ call[c].media \in Media /\ ObjectOK(call[c].media)
              /\ file[call[c].media] \in [Parts -> File]
              /\ past[call[c].media] \in SUBSET Events
              /\ PastOK(call[c], past[call[c].media])
<1>1. call[c] \in Call /\ CallOK(call[c]) /\ NoMedia \notin Media
  BY MediaAssumption DEF IndInv, MediaTypeOK
<1>2. call[c].op # "none" => call[c].media \in Media
  BY <1>1 DEF CallOK
<1> QED
  BY <1>1, <1>2 DEF Call, IndInv, MediaTypeOK, ObjectOK

\* A call that changes no file goes from l to another place, or is over: the others, and
\* the object, are as they were.
LEMMA QuietStep ==
  ASSUME IndInv, NEW c \in Calls, NEW l \in Call, Goto(c, l), CallOK(l),
         file' = file, past' = past, faults' \in 0..MaxFaults,
         call[c].op \notin Changing, l.op \notin Changing,
         l.op # "none" => PastOK(l, past[l.media])
  PROVE  IndInv'
<1>1. call' \in [Calls -> Call] /\ call'[c] = l /\ \A d \in Calls \ {c} : call'[d] = call[d]
  BY DEF Goto, IndInv, MediaTypeOK
<1>2. MediaTypeOK'
  BY <1>1 DEF IndInv, MediaTypeOK
<1>3. \A d \in Calls : CallOK(call'[d])
  BY <1>1 DEF IndInv
<1>4. l.op = "none" => l.media \notin Media
  BY IdleCall, MediaAssumption DEF CallOK
<1>5. \A d \in Calls, m \in Media : Changes(call'[d], m) => d # c /\ call'[d] = call[d]
  BY <1>1 DEF Changes
<1>6. \A d \in Calls, m \in Media : Changes(call[d], m) => d # c
  BY DEF Changes
<1>7. ASSUME NEW m \in Media PROVE ObjectOK(m)'
  <2>1. ObjectOK(m)
    BY DEF IndInv
  <2>2. EventsOK(past'[m])
    BY <2>1 DEF ObjectOK
  <2>3. \A d \in Calls : call'[d].media = m => PastOK(call'[d], past'[m])
    BY <1>1, <1>4, <2>1 DEF ObjectOK
  <2>4. \A d, e \in Calls :
          d # e /\ Changes(call'[d], m) /\ Changes(call'[e], m) => "overlapped" \in past'[m]
    BY <1>5, <2>1 DEF ObjectOK
  <2>5. ASSUME "overlapped" \notin past'[m]
        PROVE  /\ \A d \in Calls : Changes(call'[d], m) => Stage(d, call'[d], file'[m], past'[m])
               /\ (\A d \in Calls : Changes(call'[d], m) => call'[d].phase = "reading")
                    => Settled(file'[m], past'[m])
    <3>1. \A d \in Calls : Changes(call'[d], m) => Stage(d, call[d], file[m], past[m])
      BY <1>5, <2>1, <2>5 DEF ObjectOK
    <3>2. (\A d \in Calls : Changes(call'[d], m) => call'[d].phase = "reading")
            => (\A d \in Calls : Changes(call[d], m) => call[d].phase = "reading")
      BY <1>1, <1>6
    <3> QED
      BY <1>5, <2>1, <2>5, <3>1, <3>2 DEF ObjectOK
  <2> QED
    BY <2>2, <2>3, <2>4, <2>5 DEF ObjectOK, Changes, PastOK, Stage
<1> QED
  BY <1>2, <1>3, <1>7 DEF IndInv, CallOK

\* A call that uploads or deletes m: it leaves the files f and the events e, and it is the
\* only one that does unless deletions overlapped.
LEMMA ChangeStep ==
  ASSUME IndInv, NEW c \in Calls, NEW m \in Media, Changes(call[c], m),
         NEW l \in Call, NEW f \in [Parts -> File], NEW e \in SUBSET Events,
         call' = [call EXCEPT ![c] = l], file' = [file EXCEPT ![m] = f],
         past' = [past EXCEPT ![m] = e], faults' \in 0..MaxFaults,
         CallOK(l), l = Idle \/ (l.op = call[c].op /\ l.media = m),
         past[m] \subseteq e, EventsOK(e),
         "returned" \in e \ past[m] => l = Idle,
         "overlapped" \notin e =>
           /\ l # Idle => Stage(c, l, f, e)
           /\ l = Idle \/ l.phase = "reading" => Settled(f, e)
  PROVE  IndInv'
<1>1. /\ call' \in [Calls -> Call] /\ call'[c] = l /\ \A d \in Calls \ {c} : call'[d] = call[d]
      /\ file' \in [Media -> [Parts -> File]] /\ file'[m] = f
      /\ \A n \in Media \ {m} : file'[n] = file[n]
      /\ past' \in [Media -> SUBSET Events] /\ past'[m] = e
      /\ \A n \in Media \ {m} : past'[n] = past[n]
  BY DEF IndInv, MediaTypeOK
<1>2. MediaTypeOK'
  BY <1>1 DEF MediaTypeOK
<1>3. \A d \in Calls : CallOK(call'[d])
  BY <1>1 DEF IndInv
<1>4. /\ Idle.op \notin Changing /\ Idle.media \notin Media
      /\ call[c].op \in Changing /\ call[c].media = m
  BY IdleCall, MediaAssumption DEF Changing, Changes
<1>5. ObjectOK(m)'
  <2>1. ObjectOK(m)
    BY DEF IndInv
  <2>2. \A d \in Calls \ {c} : Changes(call[d], m) => "overlapped" \in past[m]
    BY <2>1 DEF ObjectOK
  <2>3. ASSUME NEW d \in Calls, call'[d].media = m PROVE PastOK(call'[d], e)
    <3>1. CASE d = c
      <4>1. l # Idle /\ l.op = call[c].op /\ PastOK(call[c], past[m])
        BY <1>1, <1>4, <2>1, <2>3, <3>1 DEF ObjectOK
      <4> QED
        BY <1>1, <3>1, <4>1 DEF PastOK
    <3>2. CASE d # c
      <4>1. call'[d] = call[d] /\ PastOK(call[d], past[m])
        BY <1>1, <2>1, <2>3, <3>2 DEF ObjectOK
      <4>2. call[d].op = "upload" => "returned" \in past[m] \/ Changes(call[d], m)
        BY <1>1, <2>3, <3>2 DEF Changes, Changing
      <4>3. call[d].op = "upload" => "returned" \in past[m] \/ "overlapped" \in past[m]
        BY <2>2, <3>2, <4>2
      <4>4. call[d].op = "upload" => FALSE \/ "returned" \notin e
        BY <2>1, <4>1, <4>3 DEF PastOK, ObjectOK, EventsOK
      <4> QED
        BY <4>1, <4>4 DEF PastOK
    <3> QED
      BY <3>1, <3>2
  <2>4. ASSUME NEW d \in Calls, NEW b \in Calls, d # b, Changes(call'[d], m), Changes(call'[b], m)
        PROVE  "overlapped" \in e
    <3>1. Changes(call[d], m) /\ Changes(call[b], m)
      BY <1>1, <1>4, <2>4 DEF Changes
    <3> QED
      BY <2>1, <2>4, <3>1 DEF ObjectOK
  <2>5. ASSUME "overlapped" \notin e
        PROVE  /\ \A d \in Calls : Changes(call'[d], m) => Stage(d, call'[d], f, e)
               /\ (\A d \in Calls : Changes(call'[d], m) => call'[d].phase = "reading")
                    => Settled(f, e)
    <3>1. \A d \in Calls \ {c} : ~Changes(call'[d], m)
      BY <1>1, <2>2, <2>5
    <3>2. Changes(l, m) <=> l # Idle
      BY <1>4 DEF Changes
    <3> QED
      BY <1>1, <2>5, <3>1, <3>2
  <2> QED
    BY <1>1, <2>3, <2>4, <2>5 DEF ObjectOK, Changes, PastOK, Stage
<1>6. ASSUME NEW n \in Media \ {m} PROVE ObjectOK(n)'
  <2>1. ObjectOK(n) /\ file'[n] = file[n] /\ past'[n] = past[n]
    BY <1>1 DEF IndInv
  <2>2. l.media # n /\ call[c].media # n
    BY <1>4
  <2>3. \A d \in Calls : call'[d].media = n => call'[d] = call[d]
    BY <1>1, <2>2
  <2>4. \A d \in Calls : Changes(call'[d], n) => call'[d] = call[d]
    BY <2>3 DEF Changes
  <2>5. \A d \in Calls : Changes(call[d], n) => call'[d] = call[d]
    BY <1>1, <2>2 DEF Changes
  <2>6. \A d \in Calls : call'[d].media = n => PastOK(call'[d], past'[n])
    BY <2>1, <2>3 DEF ObjectOK
  <2>7. \A d, b \in Calls :
          d # b /\ Changes(call'[d], n) /\ Changes(call'[b], n) => "overlapped" \in past'[n]
    BY <2>1, <2>4 DEF ObjectOK
  <2>8. ASSUME "overlapped" \notin past'[n]
        PROVE  /\ \A d \in Calls : Changes(call'[d], n) => Stage(d, call'[d], file'[n], past'[n])
               /\ (\A d \in Calls : Changes(call'[d], n) => call'[d].phase = "reading")
                    => Settled(file'[n], past'[n])
    <3>1. \A d \in Calls : Changes(call'[d], n) => Stage(d, call'[d], file'[n], past'[n])
      BY <2>1, <2>4, <2>8 DEF ObjectOK
    <3>2. (\A d \in Calls : Changes(call'[d], n) => call'[d].phase = "reading")
            => Settled(file'[n], past'[n])
      BY <2>1, <2>5, <2>8 DEF ObjectOK
    <3> QED
      BY <3>1, <3>2
  <2> QED
    BY <2>1, <2>6, <2>7, <2>8 DEF ObjectOK, Changes, PastOK, Stage
<1> QED
  BY <1>2, <1>3, <1>5, <1>6 DEF IndInv, CallOK

\* What such a call finds, if no deletions overlapped.
LEMMA Alone ==
  ASSUME IndInv, NEW c \in Calls, call[c].op \in Changing
  PROVE  LET m == call[c].media IN
         /\ m \in Media /\ Changes(call[c], m) /\ EventsOK(past[m])
         /\ "overlapped" \notin past[m] =>
              /\ Stage(c, call[c], file[m], past[m])
              /\ call[c].phase = "reading" => Settled(file[m], past[m])
<1> DEFINE m == call[c].media
<1>1. m \in Media /\ Changes(call[c], m) /\ ObjectOK(m)
  BY Facts DEF Changing, Changes
<1>2. ASSUME "overlapped" \notin past[m], call[c].phase = "reading"
      PROVE  Settled(file[m], past[m])
  <2>1. \A d \in Calls : Changes(call[d], m) => d = c
    BY <1>1, <1>2 DEF ObjectOK
  <2> QED
    BY <1>1, <1>2, <2>1 DEF ObjectOK
<1> QED
  BY <1>1, <1>2 DEF ObjectOK

\* The forms of the steps of a call that changes the object m.
LEMMA SameObject ==
  ASSUME IndInv, NEW m \in Media
  PROVE  /\ file' = file => file' = [file EXCEPT ![m] = file[m]]
         /\ past' = past => past' = [past EXCEPT ![m] = past[m]]
         /\ file[m] \in [Parts -> File] /\ past[m] \in SUBSET Events
BY DEF IndInv, MediaTypeOK

LEMMA OneFile ==
  ASSUME IndInv, NEW c \in Calls, NEW p \in Parts, NEW x \in File, call[c].media \in Media,
         SetFile(c, p, x)
  PROVE  LET f == [file[call[c].media] EXCEPT ![p] = x] IN
         /\ f \in [Parts -> File] /\ f[p] = x
         /\ \A q \in Parts \ {p} : f[q] = file[call[c].media][q]
         /\ file' = [file EXCEPT ![call[c].media] = f]
BY DEF SetFile, IndInv, MediaTypeOK

\* put() has failed, at a file that is gone.
LEMMA FailStep ==
  ASSUME IndInv, NEW c \in Calls, call[c].phase \in {"creating", "discarding"},
         NEW f \in [Parts -> File], file' = [file EXCEPT ![call[c].media] = f],
         AfterFailure(c), faults' \in 0..MaxFaults,
         "overlapped" \notin past[call[c].media] =>
           /\ f["json"].data = "absent"
           /\ call[c].part = "bin" => f["bin"].data = "absent"
  PROVE  IndInv'
<1> DEFINE m == call[c].media
           old == call[c]
<1>1. /\ old \in Call /\ old.op \in Changing /\ old.part \in Parts /\ CallOK(old)
      /\ m \in Media /\ Changes(old, m) /\ EventsOK(past[m]) /\ PastOK(old, past[m])
      /\ "overlapped" \notin past[m] => Stage(c, old, file[m], past[m])
      /\ past[m] \in SUBSET Events
  BY Facts, Alone DEF CallOK, Changing
<1>2. CASE old.part = "bin"
  <2> DEFINE e == IF old.op = "delete" THEN past[m] \union {"damaged"} ELSE past[m]
  <2>1. call' = [call EXCEPT ![c] = Idle] /\ past' = [past EXCEPT ![m] = e]
    BY <1>1, <1>2, SameObject
       DEF AfterFailure, PutFails, End, Goto, Happened, FirstPart, Changing
  <2>2. e \in SUBSET Events /\ past[m] \subseteq e /\ "returned" \notin e \ past[m]
    BY <1>1 DEF Events
  <2>3. EventsOK(e)
    BY <1>1 DEF EventsOK, PastOK
  <2>4. "overlapped" \notin e => Settled(f, e)
    BY <1>1, <1>2, PartNames DEF Settled, PastOK, Changing
  <2> HIDE DEF e
  <2> QED
    BY <1>1, <2>1, <2>2, <2>3, <2>4, IdleCall, ChangeStep
<1>3. CASE old.part # "bin"
  <2> DEFINE l == [old EXCEPT !.phase = "discarding", !.part = "bin"]
  <2>1. call' = [call EXCEPT ![c] = l] /\ past' = [past EXCEPT ![m] = past[m]]
    BY <1>1, <1>3, SameObject DEF AfterFailure, Goto, FirstPart
  <2>2. /\ l \in Call /\ l.op = old.op /\ l.media = m /\ l.phase = "discarding"
        /\ l.part = "bin" /\ l.bytes = old.bytes
    BY <1>1, PartNames DEF Call, Phases
  <2> HIDE DEF l
  <2>3. CallOK(l) /\ l # Idle
    BY <1>1, <2>2, IdleCall DEF CallOK, Changing
  <2>4. "overlapped" \notin past[m] => Stage(c, l, f, past[m])
    BY <1>1, <2>2 DEF Stage, Changing
  <2> QED
    BY <1>1, <2>1, <2>2, <2>3, <2>4, ChangeStep
<1> QED
  BY <1>2, <1>3

LEMMA CreateInv == ASSUME IndInv, NEW c \in Calls, Create(c) PROVE IndInv'
<1> DEFINE m == call[c].media
           old == call[c]
           l == [old EXCEPT !.phase = "writing"]
           x == [data |-> "torn", writer |-> c]
           f == [file[m] EXCEPT ![old.part] = x]
<1>1. /\ old \in Call /\ old.op \in Changing /\ old.part \in Parts /\ CallOK(old)
      /\ old.phase = "creating"
      /\ m \in Media /\ Changes(old, m) /\ EventsOK(past[m])
      /\ "overlapped" \notin past[m] => Stage(c, old, file[m], past[m])
  BY Facts, Alone DEF CallOK, Changing, Create
<1>2. x \in File
  BY DEF File
<1>3. /\ f \in [Parts -> File] /\ f[old.part] = x /\ file' = [file EXCEPT ![m] = f]
      /\ \A q \in Parts \ {old.part} : f[q] = file[m][q]
  BY <1>1, <1>2, OneFile DEF Create
<1>4. /\ call' = [call EXCEPT ![c] = l] /\ past' = [past EXCEPT ![m] = past[m]]
      /\ past[m] \in SUBSET Events /\ faults' \in 0..MaxFaults
  BY <1>1, SameObject DEF Create, Goto, IndInv, MediaTypeOK
<1>5. /\ l \in Call /\ l.op = old.op /\ l.media = m /\ l.phase = "writing"
      /\ l.part = old.part /\ l.bytes = old.bytes
  BY <1>1 DEF Call, Phases
<1> HIDE DEF l, f
<1>6. CallOK(l) /\ l # Idle
  BY <1>1, <1>5, IdleCall DEF CallOK, Changing
<1>7. "overlapped" \notin past[m] => Stage(c, l, f, past[m])
  BY <1>1, <1>3, <1>5, PartNames DEF Stage, Changing
<1> QED
  BY <1>1, <1>3, <1>4, <1>5, <1>6, <1>7, ChangeStep

LEMMA CreateFailsInv == ASSUME IndInv, NEW c \in Calls, CreateFails(c) PROVE IndInv'
<1> DEFINE m == call[c].media
<1>1. /\ call[c].phase = "creating" /\ call[c].op \in Changing /\ m \in Media
      /\ "overlapped" \notin past[m] => Stage(c, call[c], file[m], past[m])
  BY Facts, Alone DEF CallOK, Changing, CreateFails
<1>2. /\ file' = [file EXCEPT ![m] = file[m]] /\ file[m] \in [Parts -> File]
      /\ AfterFailure(c)
  BY <1>1, SameObject DEF CreateFails
<1>3. faults' \in 0..MaxFaults
  BY MediaAssumption DEF CreateFails, Fault, IndInv, MediaTypeOK
<1>4. "overlapped" \notin past[m] =>
        /\ file[m]["json"].data = "absent"
        /\ call[c].part = "bin" => file[m]["bin"].data = "absent"
  BY <1>1 DEF Stage
<1> QED
  BY <1>1, <1>2, <1>3, <1>4, FailStep

LEMMA DiscardInv == ASSUME IndInv, NEW c \in Calls, Discard(c) PROVE IndInv'
<1> DEFINE m == call[c].media
           f == [file[m] EXCEPT ![call[c].part] = Absent]
<1>1. /\ call[c].phase = "discarding" /\ call[c].op \in Changing /\ m \in Media
      /\ call[c].part \in Parts
      /\ "overlapped" \notin past[m] => Stage(c, call[c], file[m], past[m])
  BY Facts, Alone DEF CallOK, Changing, Discard
<1>2. Absent \in File /\ Absent.data = "absent"
  BY DEF Absent, File
<1>3. /\ f \in [Parts -> File] /\ f[call[c].part] = Absent /\ file' = [file EXCEPT ![m] = f]
      /\ \A q \in Parts \ {call[c].part} : f[q] = file[m][q]
  BY <1>1, <1>2, OneFile DEF Discard
<1>4. AfterFailure(c) /\ faults' \in 0..MaxFaults
  BY DEF Discard, IndInv, MediaTypeOK
<1> HIDE DEF f
<1>5. "overlapped" \notin past[m] =>
        f["json"].data = "absent" /\ (call[c].part = "bin" => f["bin"].data = "absent")
  BY <1>1, <1>2, <1>3, PartNames DEF Stage
<1> QED
  BY <1>1, <1>3, <1>4, <1>5, FailStep

\* The file written last is the metadata: the object is whole then.
LEMMA WriteInv == ASSUME IndInv, NEW c \in Calls, Write(c) PROVE IndInv'
<1> DEFINE m == call[c].media
           old == call[c]
           x == [data |-> Content(c), writer |-> NoCall]
           mine == file[m][old.part].writer = c
           f == IF mine THEN [file[m] EXCEPT ![old.part] = x] ELSE file[m]
           l == IF old.part = "bin" THEN [old EXCEPT !.phase = "creating", !.part = "json"]
                ELSE IF old.op = "upload" THEN [old EXCEPT !.phase = "auditing"]
                ELSE Idle
<1>1. /\ old \in Call /\ old.op \in Changing /\ old.part \in Parts /\ CallOK(old)
      /\ old.phase = "writing" /\ old.bytes \in {"absent", "torn", "whole"}
      /\ m \in Media /\ Changes(old, m) /\ EventsOK(past[m]) /\ PastOK(old, past[m])
      /\ "overlapped" \notin past[m] => Stage(c, old, file[m], past[m])
      /\ file[m] \in [Parts -> File]
  BY Facts, Alone DEF CallOK, Changing, Write
<1>2. x \in File
  BY <1>1 DEF File, Content
<1>3. /\ f \in [Parts -> File] /\ file' = [file EXCEPT ![m] = f]
      /\ mine => f[old.part] = x
      /\ \A q \in Parts \ {old.part} : f[q] = file[m][q]
  <2>1. CASE mine
    <3>1. SetFile(c, old.part, x)
      BY <1>1, <2>1 DEF Write, Mine
    <3> HIDE DEF x
    <3> QED
      BY <1>1, <1>2, <2>1, <3>1, OneFile
  <2>2. CASE ~mine
    BY <1>1, <2>2, SameObject DEF Write, Mine
  <2> QED
    BY <2>1, <2>2
<1>4. /\ call' = [call EXCEPT ![c] = l] /\ past' = [past EXCEPT ![m] = past[m]]
      /\ past[m] \in SUBSET Events /\ faults' \in 0..MaxFaults
  BY <1>1, SameObject, PartNames
     DEF Write, PutReturns, Goto, End, IndInv, MediaTypeOK, Changing
<1> HIDE DEF f, x
<1>5. "overlapped" \notin past[m] =>
        /\ f["bin"].data = "whole" /\ old.bytes = "whole"
        /\ f["json"].data = IF old.part = "bin" THEN "absent" ELSE "whole"
  <2> SUFFICES ASSUME "overlapped" \notin past[m]
               PROVE  /\ f["bin"].data = "whole" /\ old.bytes = "whole"
                      /\ f["json"].data = IF old.part = "bin" THEN "absent" ELSE "whole"
    OBVIOUS
  <2>1. /\ old.bytes = "whole" /\ mine
        /\ IF old.part = "bin" THEN file[m]["json"].data = "absent"
                               ELSE file[m]["bin"].data = "whole"
    BY <1>1 DEF Stage
  <2>2. x.data = "whole"
    BY <2>1 DEF x, Content
  <2> QED
    BY <1>1, <1>3, <2>1, <2>2, PartNames
<1>6. CASE old.part = "bin"
  <2>1. /\ l \in Call /\ l.op = old.op /\ l.media = m /\ l.phase = "creating"
        /\ l.part = "json" /\ l.bytes = old.bytes
    BY <1>1, <1>6, PartNames DEF Call, Phases
  <2> HIDE DEF l
  <2>2. CallOK(l) /\ l # Idle
    BY <1>1, <2>1, IdleCall DEF CallOK, Changing
  <2>3. "overlapped" \notin past[m] => Stage(c, l, f, past[m])
    BY <1>1, <1>5, <1>6, <2>1 DEF Stage, Changing
  <2> QED
    BY <1>1, <1>3, <1>4, <2>1, <2>2, <2>3, ChangeStep
<1>7. CASE old.part # "bin" /\ old.op = "upload"
  <2>1. /\ l \in Call /\ l.op = old.op /\ l.media = m /\ l.phase = "auditing"
        /\ l.bytes = old.bytes
    BY <1>1, <1>7 DEF Call, Phases
  <2> HIDE DEF l
  <2>2. CallOK(l) /\ l # Idle
    BY <1>1, <1>7, <2>1, IdleCall DEF CallOK, Changing
  <2>3. "overlapped" \notin past[m] => Stage(c, l, f, past[m])
    BY <1>1, <1>5, <1>7, <2>1, PartNames DEF Stage, Changing
  <2> QED
    BY <1>1, <1>3, <1>4, <2>1, <2>2, <2>3, ChangeStep
<1>8. CASE old.part # "bin" /\ old.op # "upload"
  <2>1. l = Idle
    BY <1>8
  <2> HIDE DEF l
  <2>2. "overlapped" \notin past[m] => Settled(f, past[m])
    BY <1>1, <1>5, <1>8, PartNames DEF Stage, Settled, Changing, PastOK
  <2> QED
    BY <1>1, <1>3, <1>4, <2>1, <2>2, IdleCall, ChangeStep
<1> QED
  BY <1>6, <1>7, <1>8

LEMMA WriteFailsInv == ASSUME IndInv, NEW c \in Calls, WriteFails(c) PROVE IndInv'
<1> DEFINE m == call[c].media
           old == call[c]
           l == [old EXCEPT !.phase = "discarding"]
<1>1. /\ old \in Call /\ old.op \in Changing /\ old.part \in Parts /\ CallOK(old)
      /\ old.phase = "writing"
      /\ m \in Media /\ Changes(old, m) /\ EventsOK(past[m])
      /\ "overlapped" \notin past[m] => Stage(c, old, file[m], past[m])
  BY Facts, Alone DEF CallOK, Changing, WriteFails
<1>2. /\ call' = [call EXCEPT ![c] = l] /\ past' = [past EXCEPT ![m] = past[m]]
      /\ file' = [file EXCEPT ![m] = file[m]] /\ file[m] \in [Parts -> File]
      /\ past[m] \in SUBSET Events
  BY <1>1, SameObject DEF WriteFails, Goto
<1>3. faults' \in 0..MaxFaults
  BY MediaAssumption DEF WriteFails, Fault, IndInv, MediaTypeOK
<1>4. /\ l \in Call /\ l.op = old.op /\ l.media = m /\ l.phase = "discarding"
      /\ l.part = old.part /\ l.bytes = old.bytes
  BY <1>1 DEF Call, Phases
<1> HIDE DEF l
<1>5. CallOK(l) /\ l # Idle
  BY <1>1, <1>4, IdleCall DEF CallOK, Changing
<1>6. "overlapped" \notin past[m] => Stage(c, l, file[m], past[m])
  BY <1>1, <1>4 DEF Stage, Changing
<1> QED
  BY <1>1, <1>2, <1>3, <1>4, <1>5, <1>6, ChangeStep

\* delete() goes on to remove() only when it has read both files.
LEMMA ReadFileInv ==
  ASSUME IndInv, NEW c \in Calls, NEW p \in Parts, ReadFile(c, p) PROVE IndInv'
<1> DEFINE m == call[c].media
           old == call[c]
           data == file[m][p].data
           b == IF p = "bin" THEN data ELSE old.bytes
           l == [old EXCEPT !.left = @ \ {p}, !.bytes = b]
           n == IF data = "absent" \/ (p = "json" /\ data = "torn") THEN Idle
                ELSE IF l.left # {} THEN l
                ELSE IF l.op = "download" THEN [l EXCEPT !.phase = "serving"]
                ELSE [l EXCEPT !.phase = "removing", !.left = Parts]
<1>1. /\ old \in Call /\ old.op \in {"download", "delete"} /\ CallOK(old)
      /\ old.phase = "reading" /\ old.left \subseteq Parts /\ p \in old.left
      /\ m \in Media /\ PastOK(old, past[m]) /\ file[m] \in [Parts -> File]
      /\ old.bytes \in {"absent", "torn", "whole"}
  BY Facts DEF CallOK, ReadFile
<1>2. data \in {"absent", "torn", "whole"}
  BY <1>1 DEF File
<1>3. /\ Goto(c, n) /\ file' = file /\ past' = past /\ faults' \in 0..MaxFaults
  <2>1. file' = file /\ past' = past /\ faults' \in 0..MaxFaults
    BY DEF ReadFile, IndInv, MediaTypeOK
  <2>2. Goto(c, n)
    BY DEF ReadFile, End, Mine
  <2> QED
    BY <2>1, <2>2
<1>4. /\ l \in Call /\ l.op = old.op /\ l.media = m /\ l.phase = "reading"
      /\ l.left = old.left \ {p} /\ l.bytes = b
  BY <1>1, <1>2 DEF Call, Phases
<1> HIDE DEF l, data
<1>5. \/ n = Idle
      \/ /\ data # "absent" /\ (p = "json" => data = "whole")
         /\ n \in Call /\ n.op = old.op /\ n.media = m /\ n.bytes = b
         /\ \/ n.phase = "reading" /\ n.left = old.left \ {p}
            \/ old.left = {p} /\ n.phase = "serving" /\ n.op = "download"
            \/ old.left = {p} /\ n.phase = "removing" /\ n.op = "delete" /\ n.left = Parts
  BY <1>1, <1>2, <1>4 DEF Call, Phases
<1> HIDE DEF n, b
<1>6. n \in Call /\ CallOK(n)
  BY <1>1, <1>5, IdleCall DEF CallOK, Changing
<1>7. CASE old.op = "download"
  BY <1>1, <1>3, <1>5, <1>6, <1>7, IdleCall, QuietStep DEF Changing, PastOK
<1>8. CASE old.op = "delete"
  <2>1. /\ Changes(old, m) /\ EventsOK(past[m])
        /\ "overlapped" \notin past[m] => Stage(c, old, file[m], past[m]) /\ Settled(file[m], past[m])
    BY <1>1, <1>8, Alone DEF Changing
  <2>2. /\ call' = [call EXCEPT ![c] = n] /\ past' = [past EXCEPT ![m] = past[m]]
        /\ file' = [file EXCEPT ![m] = file[m]] /\ past[m] \in SUBSET Events
    BY <1>1, <1>3, SameObject DEF Goto
  <2>3. ASSUME "overlapped" \notin past[m], n # Idle PROVE Stage(c, n, file[m], past[m])
    <3>1. /\ "bin" \in old.left \/ (old.bytes = file[m]["bin"].data /\ old.bytes # "absent")
          /\ "json" \in old.left \/ file[m]["json"].data = "whole"
      BY <1>1, <2>1, <2>3 DEF Stage
    <3>2. CASE n.phase = "reading"
      BY <1>1, <1>5, <2>3, <3>1, <3>2 DEF Stage, b, data
    <3>3. CASE n.phase # "reading"
      <4>1. n.phase = "removing" /\ n.left = Parts /\ old.left = {p}
        BY <1>5, <1>8, <2>3, <3>3
      <4>2. file[m]["json"].data = "whole" /\ n.bytes = file[m]["bin"].data /\ n.bytes # "absent"
        BY <1>1, <1>5, <2>3, <3>1, <4>1, PartNames DEF b, data
      <4>3. n.bytes = "whole"
        BY <1>1, <2>1, <2>3, <4>2, PartNames DEF Settled, File
      <4>4. "damaged" \notin past[m] => "deleted" \notin past[m]
        BY <2>1, <2>3, <4>2, PartNames DEF Settled
      <4> QED
        BY <4>1, <4>2, <4>3, <4>4, PartNames DEF Stage
    <3> QED
      BY <3>2, <3>3
  <2> QED
    BY <1>1, <1>3, <1>5, <1>6, <2>1, <2>2, <2>3, ChangeStep
<1> QED
  BY <1>1, <1>7, <1>8

LEMMA RemoveFileInv ==
  ASSUME IndInv, NEW c \in Calls, NEW p \in Parts, RemoveFile(c, p) PROVE IndInv'
<1> DEFINE m == call[c].media
           old == call[c]
           f == [file[m] EXCEPT ![p] = Absent]
           l == IF old.left # {p} THEN [old EXCEPT !.left = @ \ {p}]
                ELSE IF old.op = "upload" THEN Idle
                ELSE [old EXCEPT !.phase = "auditing", !.left = {}]
<1>1. /\ old \in Call /\ old.op \in Changing /\ old.left \subseteq Parts /\ CallOK(old)
      /\ old.phase = "removing" /\ p \in old.left
      /\ m \in Media /\ Changes(old, m) /\ EventsOK(past[m]) /\ PastOK(old, past[m])
      /\ "overlapped" \notin past[m] => Stage(c, old, file[m], past[m])
  BY Facts, Alone DEF CallOK, Changing, RemoveFile
<1>2. Absent \in File /\ Absent.data = "absent"
  BY DEF Absent, File
<1>3. /\ f \in [Parts -> File] /\ f[p] = Absent /\ file' = [file EXCEPT ![m] = f]
      /\ \A q \in Parts \ {p} : f[q] = file[m][q]
  BY <1>1, <1>2, OneFile DEF RemoveFile
<1>4. /\ call' = [call EXCEPT ![c] = l] /\ past' = [past EXCEPT ![m] = past[m]]
      /\ past[m] \in SUBSET Events /\ faults' \in 0..MaxFaults
  BY <1>1, SameObject DEF RemoveFile, Goto, End, IndInv, MediaTypeOK
<1> HIDE DEF f
<1>5. CASE l = Idle
  <2>1. old.left = {p} /\ old.op = "upload"
    BY <1>1, <1>5, IdleCall DEF Changing, Call
  <2>2. "overlapped" \notin past[m] => \A q \in Parts : f[q].data = "absent"
    BY <1>1, <1>2, <1>3, <2>1 DEF Stage
  <2>3. "overlapped" \notin past[m] => Settled(f, past[m])
    BY <1>1, <2>1, <2>2, PartNames DEF Settled, PastOK
  <2> HIDE DEF l
  <2> QED
    BY <1>1, <1>3, <1>4, <1>5, <2>3, IdleCall, ChangeStep
<1>6. CASE l # Idle
  <2>1. /\ l \in Call /\ l.op = old.op /\ l.media = m /\ l.bytes = old.bytes
        /\ l.left = old.left \ {p}
        /\ l.phase = "removing" \/ (l.phase = "auditing" /\ l.left = {} /\ l.op = "delete")
    BY <1>1, <1>6 DEF Call, Phases, Changing
  <2> HIDE DEF l
  <2>2. CallOK(l)
    BY <1>1, <2>1 DEF CallOK, Changing
  <2>3. "overlapped" \notin past[m] =>
          \A q \in Parts : f[q].data = IF q \in l.left THEN "whole" ELSE "absent"
    BY <1>1, <1>2, <1>3, <2>1 DEF Stage
  <2>4. "overlapped" \notin past[m] => Stage(c, l, f, past[m])
    BY <1>1, <2>1, <2>3 DEF Stage, Changing
  <2> QED
    BY <1>1, <1>3, <1>4, <1>6, <2>1, <2>2, <2>4, ChangeStep
<1> QED
  BY <1>5, <1>6

LEMMA RemoveFailsInv == ASSUME IndInv, NEW c \in Calls, RemoveFails(c) PROVE IndInv'
<1> DEFINE m == call[c].media
           e == past[m] \union {"damaged"}
<1>1. /\ call[c].op \in Changing /\ call[c].phase = "removing"
      /\ m \in Media /\ Changes(call[c], m) /\ EventsOK(past[m]) /\ PastOK(call[c], past[m])
      /\ "overlapped" \notin past[m] => Stage(c, call[c], file[m], past[m])
  BY Facts, Alone DEF CallOK, Changing, RemoveFails
<1>2. /\ call' = [call EXCEPT ![c] = Idle] /\ past' = [past EXCEPT ![m] = e]
      /\ file' = [file EXCEPT ![m] = file[m]] /\ file[m] \in [Parts -> File]
      /\ e \in SUBSET Events
  BY <1>1, SameObject DEF RemoveFails, Happened, Goto, End, Events
<1>3. faults' \in 0..MaxFaults
  BY MediaAssumption DEF RemoveFails, Fault, IndInv, MediaTypeOK
<1>4. EventsOK(e) /\ past[m] \subseteq e /\ "returned" \notin e \ past[m]
  BY <1>1 DEF EventsOK, PastOK
<1>5. "overlapped" \notin e => Settled(file[m], e)
  BY <1>1, PartNames DEF Settled, Stage
<1> HIDE DEF e
<1> QED
  BY <1>1, <1>2, <1>3, <1>4, <1>5, IdleCall, ChangeStep

LEMMA RefuseInv == ASSUME IndInv, NEW c \in Calls, Refuse(c) PROVE IndInv'
<1> DEFINE m == call[c].media
<1>1. /\ Goto(c, Idle) /\ file' = file /\ past' = past /\ faults' \in 0..MaxFaults
  BY DEF Refuse, End, IndInv, MediaTypeOK
<1>2. CASE call[c].op = "download"
  BY <1>1, <1>2, IdleCall, QuietStep DEF Changing
<1>3. CASE call[c].op = "delete"
  <2>1. /\ call[c].phase = "removing" /\ call[c].left = Parts
        /\ m \in Media /\ Changes(call[c], m) /\ EventsOK(past[m]) /\ PastOK(call[c], past[m])
        /\ "overlapped" \notin past[m] => Stage(c, call[c], file[m], past[m])
    BY <1>3, Facts, Alone DEF Refuse, In, Changing
  <2>2. "overlapped" \notin past[m] => Settled(file[m], past[m])
    BY <1>3, <2>1, PartNames DEF Stage, Settled, PastOK
  <2>3. /\ call' = [call EXCEPT ![c] = Idle] /\ past' = [past EXCEPT ![m] = past[m]]
        /\ file' = [file EXCEPT ![m] = file[m]] /\ file[m] \in [Parts -> File]
        /\ past[m] \in SUBSET Events
    BY <1>1, <2>1, SameObject DEF Goto
  <2> QED
    BY <1>1, <2>1, <2>2, <2>3, IdleCall, ChangeStep
<1> QED
  BY <1>2, <1>3 DEF Refuse, In

LEMMA SanitizeInv == ASSUME IndInv, NEW c \in Calls, Sanitize(c) PROVE IndInv'
<1> DEFINE m == call[c].media
           old == call[c]
           l == PutStart([old EXCEPT !.image = NoImage, !.bytes = "whole"])
<1>1. /\ old \in Call /\ old.op = "upload" /\ CallOK(old) /\ old.phase = "sanitizing"
      /\ m \in Media /\ Changes(old, m) /\ EventsOK(past[m]) /\ PastOK(old, past[m])
      /\ "overlapped" \notin past[m] => Stage(c, old, file[m], past[m])
  BY Facts, Alone DEF CallOK, Changing, Sanitize
<1>2. /\ past' = [past EXCEPT ![m] = past[m]] /\ file' = [file EXCEPT ![m] = file[m]]
      /\ file[m] \in [Parts -> File] /\ past[m] \in SUBSET Events /\ faults' \in 0..MaxFaults
  BY <1>1, SameObject DEF Sanitize, IndInv, MediaTypeOK
<1>3. CASE Goto(c, l)
  <2>1. /\ l \in Call /\ l.op = "upload" /\ l.media = m /\ l.phase = "creating"
        /\ l.part = "bin" /\ l.bytes = "whole"
    BY <1>1, PartNames DEF PutStart, Call, Phases
  <2>2. call' = [call EXCEPT ![c] = l]
    BY <1>3 DEF Goto
  <2> HIDE DEF l
  <2>3. CallOK(l) /\ l # Idle
    BY <1>1, <2>1, IdleCall DEF CallOK, Changing
  <2>4. "overlapped" \notin past[m] => Stage(c, l, file[m], past[m])
    BY <1>1, <2>1, PartNames DEF Stage
  <2> QED
    BY <1>1, <1>2, <2>1, <2>2, <2>3, <2>4, ChangeStep
<1>4. CASE End(c)
  <2>1. "overlapped" \notin past[m] => Settled(file[m], past[m])
    BY <1>1, PartNames DEF Stage, Settled, PastOK
  <2>2. call' = [call EXCEPT ![c] = Idle]
    BY <1>4 DEF End, Goto
  <2>3. m \in Media /\ Changes(call[c], m) /\ EventsOK(past[m])
    BY <1>1
  <2> HIDE DEF l, m
  <2> QED
    BY <1>2, <2>1, <2>2, <2>3, IdleCall, ChangeStep
<1> QED
  BY <1>3, <1>4 DEF Sanitize

LEMMA ServeInv == ASSUME IndInv, NEW c \in Calls, Serve(c) PROVE IndInv'
<1> DEFINE l == [call[c] EXCEPT !.phase = "auditing"]
<1>1. /\ call[c] \in Call /\ CallOK(call[c]) /\ call[c].op = "download"
      /\ PastOK(call[c], past[call[c].media])
      /\ file' = file /\ past' = past /\ faults' \in 0..MaxFaults
  BY Facts DEF Serve, In, IndInv, MediaTypeOK
<1>2. CASE Goto(c, Idle)
  BY <1>1, <1>2, IdleCall, QuietStep DEF Changing
<1>3. CASE Goto(c, l) /\ call[c].bytes = "whole"
  <2>1. /\ l \in Call /\ l.op = "download" /\ l.phase = "auditing" /\ l.bytes = "whole"
        /\ l.media = call[c].media
    BY <1>1, <1>3 DEF Call, Phases
  <2> HIDE DEF l
  <2>2. CallOK(l) /\ PastOK(l, past[l.media])
    BY <1>1, <2>1 DEF CallOK, PastOK
  <2> QED
    BY <1>1, <1>3, <2>1, <2>2, QuietStep DEF Changing
<1> QED
  BY <1>2, <1>3 DEF Serve, End, Intact

LEMMA AuditInv == ASSUME IndInv, NEW c \in Calls, Audit(c) PROVE IndInv'
<1> DEFINE m == call[c].media
           old == call[c]
<1>1. /\ old \in Call /\ old.op \in {"upload", "download", "delete"} /\ old.phase = "auditing"
      /\ m \in Media /\ PastOK(old, past[m]) /\ EventsOK(past[m])
      /\ file[m] \in [Parts -> File] /\ past[m] \in SUBSET Events
  BY Facts DEF CallOK, Audit, Idle, ObjectOK
<1>2. /\ call' = [call EXCEPT ![c] = Idle] /\ file' = file /\ faults' \in 0..MaxFaults
      /\ file' = [file EXCEPT ![m] = file[m]]
  BY <1>1, SameObject DEF Audit, End, Goto, IndInv, MediaTypeOK
<1>3. CASE old.op = "download"
  <2>1. past' = past
    BY <1>1, <1>3 DEF Audit, Happened, IndInv, MediaTypeOK
  <2> QED
    BY <1>1, <1>2, <1>3, <2>1, IdleCall, QuietStep DEF Goto, Changing
<1>4. CASE old.op \in Changing
  <2> DEFINE x == IF old.op = "upload" THEN "returned" ELSE "deleted"
             e == past[m] \union {x}
  <2>1. /\ Changes(old, m)
        /\ "overlapped" \notin past[m] => Stage(c, old, file[m], past[m])
    BY <1>4, Alone
  <2>2. past' = [past EXCEPT ![m] = e] /\ e \in SUBSET Events
    BY <1>1, <1>4 DEF Audit, Happened, Events, Changing
  <2>3. EventsOK(e)
    BY <1>1, <1>4 DEF EventsOK, PastOK, Changing
  <2>4. "overlapped" \notin e => Settled(file[m], e)
    <3> SUFFICES ASSUME "overlapped" \notin e PROVE Settled(file[m], e)
      OBVIOUS
    <3>1. CASE old.op = "upload"
      <4>1. "returned" \in e /\ "deleted" \notin e
        BY <1>1, <3>1 DEF PastOK, EventsOK
      <4>2. \A p \in Parts : file[m][p].data = "whole"
        BY <1>1, <2>1, <3>1 DEF Stage
      <4> QED
        BY <4>1, <4>2, PartNames DEF Settled
    <3>2. CASE old.op = "delete"
      <4>1. "deleted" \in e
        BY <3>2
      <4>2. \A p \in Parts : file[m][p].data = "absent"
        BY <1>1, <2>1, <3>2 DEF Stage
      <4> QED
        BY <4>1, <4>2, PartNames DEF Settled
    <3> QED
      BY <1>4, <3>1, <3>2 DEF Changing
  <2>5. past[m] \subseteq e
    OBVIOUS
  <2> HIDE DEF e
  <2> QED
    BY <1>1, <1>2, <2>1, <2>2, <2>3, <2>4, <2>5, IdleCall, ChangeStep
<1> QED
  BY <1>1, <1>3, <1>4 DEF Changing

LEMMA AuditFailsInv == ASSUME IndInv, NEW c \in Calls, AuditFails(c) PROVE IndInv'
<1> DEFINE m == call[c].media
           old == call[c]
           l == IF old.op = "upload" THEN [old EXCEPT !.phase = "removing", !.left = Parts]
                ELSE PutStart(old)
<1>1. /\ old \in Call /\ old.op \in {"upload", "download", "delete"} /\ old.phase = "auditing"
      /\ m \in Media /\ EventsOK(past[m]) /\ CallOK(old)
      /\ file[m] \in [Parts -> File] /\ past[m] \in SUBSET Events
  BY Facts DEF CallOK, AuditFails, Idle, ObjectOK
<1>2. /\ file' = file /\ past' = past /\ faults' \in 0..MaxFaults
      /\ file' = [file EXCEPT ![m] = file[m]] /\ past' = [past EXCEPT ![m] = past[m]]
  <2>1. faults' \in 0..MaxFaults
    BY MediaAssumption DEF AuditFails, Fault, IndInv, MediaTypeOK
  <2> QED
    BY <1>1, <2>1, SameObject DEF AuditFails
<1>3. CASE old.op = "download"
  <2>1. Goto(c, Idle)
    BY <1>3 DEF AuditFails, Undo, End
  <2> QED
    BY <1>2, <1>3, <2>1, IdleCall, QuietStep DEF Changing
<1>4. CASE old.op \in Changing
  <2>1. /\ Changes(old, m)
        /\ "overlapped" \notin past[m] => Stage(c, old, file[m], past[m])
    BY <1>4, Alone
  <2>2. call' = [call EXCEPT ![c] = l]
    BY <1>4 DEF AuditFails, Undo, Goto, Changing
  <2>3. /\ l \in Call /\ l.op = old.op /\ l.media = m /\ l.bytes = old.bytes
        /\ \/ l.phase = "removing" /\ l.left = Parts /\ l.op = "upload"
           \/ l.phase = "creating" /\ l.part = "bin" /\ l.op = "delete"
    BY <1>1, <1>4, PartNames DEF Call, Phases, PutStart, Changing
  <2> HIDE DEF l
  <2>4. CallOK(l) /\ l # Idle
    BY <1>1, <1>4, <2>3, IdleCall DEF CallOK, Changing
  <2>5. "overlapped" \notin past[m] => Stage(c, l, file[m], past[m])
    BY <1>1, <2>1, <2>3, PartNames DEF Stage, Changing
  <2> QED
    BY <1>1, <1>2, <2>1, <2>2, <2>3, <2>4, <2>5, ChangeStep
<1> QED
  BY <1>1, <1>3, <1>4 DEF Changing

-----------------------------------------------------------------------------
(* A call begins, or the process stops.                                    *)

\* An object nobody changes is settled; one more call works on it.
LEMMA BeginStep ==
  ASSUME IndInv, NEW c \in Calls, NEW m \in Media, call[c].phase = "idle",
         NEW l \in Call, CallOK(l), Changes(l, m), Goto(c, l), file' = file,
         NEW e \in SUBSET Events, past' = [past EXCEPT ![m] = e], faults' = faults,
         past[m] \subseteq e, EventsOK(e), PastOK(l, e), "returned" \notin e \ past[m],
         "overlapped" \notin e =>
           /\ \A d \in Calls : ~Changes(call[d], m)
           /\ Settled(file[m], past[m]) =>
                Stage(c, l, file[m], e) /\ (l.phase = "reading" => Settled(file[m], e))
  PROVE  IndInv'
<1>1. /\ call' \in [Calls -> Call] /\ call'[c] = l /\ \A d \in Calls \ {c} : call'[d] = call[d]
      /\ past' \in [Media -> SUBSET Events] /\ past'[m] = e
      /\ \A n \in Media \ {m} : past'[n] = past[n]
  BY DEF Goto, IndInv, MediaTypeOK
<1>2. MediaTypeOK'
  BY <1>1 DEF IndInv, MediaTypeOK
<1>3. \A d \in Calls : CallOK(call'[d])
  BY <1>1 DEF IndInv
<1>4. call[c].media \notin Media /\ l.media = m /\ l.op \in Changing
  BY Facts, IdleCall DEF CallOK, Changes
<1>5. ObjectOK(m)'
  <2>1. ObjectOK(m)
    BY DEF IndInv
  <2>2. ASSUME NEW d \in Calls, call'[d].media = m PROVE PastOK(call'[d], e)
    BY <1>1, <2>1, <2>2 DEF ObjectOK, PastOK
  <2>3. ASSUME NEW d \in Calls, NEW b \in Calls, d # b, Changes(call'[d], m), Changes(call'[b], m)
        PROVE  "overlapped" \in e
    <3>1. CASE d # c
      BY <1>1, <2>3, <3>1
    <3>2. CASE b # c
      BY <1>1, <2>3, <3>2
    <3> QED
      BY <2>3, <3>1, <3>2
  <2>4. ASSUME "overlapped" \notin e
        PROVE  /\ \A d \in Calls : Changes(call'[d], m) => Stage(d, call'[d], file'[m], e)
               /\ (\A d \in Calls : Changes(call'[d], m) => call'[d].phase = "reading")
                    => Settled(file'[m], e)
    <3>1. Settled(file[m], past[m])
      BY <2>1, <2>4 DEF ObjectOK
    <3>2. \A d \in Calls : Changes(call'[d], m) => d = c
      BY <1>1, <2>4
    <3> QED
      BY <1>1, <2>4, <3>1, <3>2
  <2> QED
    BY <1>1, <2>2, <2>3, <2>4 DEF ObjectOK, Changes, PastOK, Stage
<1>6. ASSUME NEW n \in Media \ {m} PROVE ObjectOK(n)'
  <2>1. ObjectOK(n) /\ file'[n] = file[n] /\ past'[n] = past[n]
    BY <1>1 DEF IndInv
  <2>2. \A d \in Calls : call'[d].media = n => call'[d] = call[d]
    BY <1>1, <1>4
  <2>3. \A d \in Calls : call[d].media = n => call'[d] = call[d]
    BY <1>1, <1>4
  <2>4. \A d \in Calls : Changes(call'[d], n) => call'[d] = call[d]
    BY <2>2 DEF Changes
  <2>5. \A d \in Calls : Changes(call[d], n) => call'[d] = call[d]
    BY <2>3 DEF Changes
  <2>6. \A d \in Calls : call'[d].media = n => PastOK(call'[d], past'[n])
    BY <2>1, <2>2 DEF ObjectOK
  <2>7. \A d, b \in Calls :
          d # b /\ Changes(call'[d], n) /\ Changes(call'[b], n) => "overlapped" \in past'[n]
    BY <2>1, <2>4 DEF ObjectOK
  <2>8. "overlapped" \notin past'[n] =>
          \A d \in Calls : Changes(call'[d], n) => Stage(d, call'[d], file'[n], past'[n])
    BY <2>1, <2>4 DEF ObjectOK
  <2>9. "overlapped" \notin past'[n]
          /\ (\A d \in Calls : Changes(call'[d], n) => call'[d].phase = "reading")
            => Settled(file'[n], past'[n])
    BY <2>1, <2>5 DEF ObjectOK
  <2> QED
    BY <2>1, <2>6, <2>7, <2>8, <2>9 DEF ObjectOK, Changes, PastOK, Stage
<1> QED
  BY <1>2, <1>3, <1>5, <1>6 DEF IndInv, CallOK

LEMMA BeginUploadInv ==
  ASSUME IndInv, NEW c \in Calls, NEW m \in Media, BeginUpload(c, m) PROVE IndInv'
<1>1. PICK image \in Images :
        Goto(c, [Idle EXCEPT !.op = "upload", !.phase = "sanitizing", !.media = m,
                             !.image = image])
  BY DEF BeginUpload
<1> DEFINE l == [Idle EXCEPT !.op = "upload", !.phase = "sanitizing", !.media = m,
                             !.image = image]
           e == {"drawn"}
<1>2. /\ l \in Call /\ l.op = "upload" /\ l.phase = "sanitizing" /\ l.media = m
        /\ l.image \in Images
  BY IdleCall DEF Call, Phases
<1>3. Goto(c, l)
  BY <1>1
<1> HIDE DEF l
<1>4. CallOK(l) /\ Changes(l, m) /\ PastOK(l, e)
  BY <1>2, IdleCall DEF CallOK, Changes, Changing, PastOK
<1>5. past[m] = {} /\ ObjectOK(m)
  BY DEF BeginUpload, ObjectOK, EventsOK, IndInv, MediaTypeOK
<1>6. /\ past' = [past EXCEPT ![m] = e] /\ e \in SUBSET Events /\ EventsOK(e)
      /\ file' = file /\ faults' = faults /\ call[c].phase = "idle"
  BY <1>5 DEF BeginUpload, Happened, Events, EventsOK
<1>7. \A d \in Calls : ~Changes(call[d], m)
  BY <1>5 DEF ObjectOK, PastOK, Changes
<1>8. Settled(file[m], past[m]) => Stage(c, l, file[m], e)
  BY <1>2, <1>5 DEF Settled, Stage
<1> HIDE DEF e
<1> QED
  BY <1>2, <1>3, <1>4, <1>5, <1>6, <1>7, <1>8, BeginStep DEF e

LEMMA BeginDownloadInv ==
  ASSUME IndInv, NEW c \in Calls, NEW m \in Media, BeginDownload(c, m) PROVE IndInv'
<1> DEFINE l == [Idle EXCEPT !.op = "download", !.phase = "reading", !.media = m, !.left = Parts]
<1>1. l \in Call /\ l.op = "download" /\ l.phase = "reading" /\ l.media = m
  BY IdleCall DEF Call, Phases
<1>2. /\ Goto(c, l) /\ file' = file /\ past' = past /\ faults' \in 0..MaxFaults
      /\ call[c].op \notin Changing
  BY Facts DEF BeginDownload, IndInv, MediaTypeOK, CallOK, Changing
<1> HIDE DEF l
<1>3. CallOK(l) /\ PastOK(l, past[m])
  <2>1. "returned" \in past[m] /\ "drawn" \in past[m]
    BY DEF BeginDownload, Known, IndInv, ObjectOK, EventsOK
  <2> QED
    BY <1>1, <2>1, IdleCall DEF CallOK, PastOK
<1> QED
  BY <1>1, <1>2, <1>3, QuietStep DEF Changing

LEMMA BeginDeleteInv ==
  ASSUME IndInv, NEW c \in Calls, NEW m \in Media, BeginDelete(c, m) PROVE IndInv'
<1> DEFINE l == [Idle EXCEPT !.op = "delete", !.phase = "reading", !.media = m, !.left = Parts]
           e == past[m] \union (IF Deleting(m) # {} THEN {"overlapped"} ELSE {})
<1>1. l \in Call /\ l.op = "delete" /\ l.phase = "reading" /\ l.media = m /\ l.left = Parts
  BY IdleCall DEF Call, Phases
<1>2. /\ Goto(c, l) /\ file' = file /\ faults' = faults /\ call[c].phase = "idle"
      /\ past' = [past EXCEPT ![m] = e] /\ e \in SUBSET Events
  BY DEF BeginDelete, Happened, IndInv, MediaTypeOK, Events
<1>3. /\ "returned" \in past[m] /\ "drawn" \in past[m] /\ ObjectOK(m)
  BY DEF BeginDelete, Known, IndInv, ObjectOK, EventsOK
<1>4. past[m] \subseteq e /\ "returned" \notin e \ past[m] /\ EventsOK(e)
  BY <1>3 DEF EventsOK
<1> HIDE DEF l
<1>5. CallOK(l) /\ PastOK(l, e) /\ Changes(l, m)
  BY <1>1, <1>3, IdleCall DEF CallOK, PastOK, Changes, Changing
<1>6. ASSUME "overlapped" \notin e
      PROVE  e = past[m] /\ \A d \in Calls : ~Changes(call[d], m)
  <2>1. Deleting(m) = {} /\ e = past[m]
    BY <1>6
  <2>2. \A d \in Calls : call[d].media = m => call[d].op # "upload"
    BY <1>3 DEF ObjectOK, PastOK
  <2> QED
    BY <2>1, <2>2 DEF Deleting, Changes, Changing
<1>7. Settled(file[m], past[m]) => Stage(c, l, file[m], past[m])
  BY <1>1, PartNames DEF Stage
<1> HIDE DEF e
<1> QED
  BY <1>1, <1>2, <1>3, <1>4, <1>5, <1>6, <1>7, BeginStep

\* However far a call has got, whole metadata goes with whole bytes.
LEMMA StageWhole ==
  ASSUME NEW c, NEW l \in Call, NEW f, NEW e, CallOK(l), l.op \in Changing,
         l.phase # "reading", Stage(c, l, f, e)
  PROVE  f["json"].data = "whole" => f["bin"].data # "torn"
<1>1. l.phase \in {"sanitizing", "creating", "writing", "discarding", "removing", "auditing"}
  BY IdleCall DEF CallOK, Call, Phases, Changing, Idle
<1>2. l.part \in Parts
  BY DEF Call
<1> QED
  BY <1>1, <1>2, PartNames DEF Stage

LEMMA CrashInv == ASSUME IndInv, Crash PROVE IndInv'
<1>1. /\ call' = [c \in Calls |-> Idle]
      /\ file' = [m \in Media |-> [p \in Parts |-> [file[m][p] EXCEPT !.writer = NoCall]]]
      /\ past' = [m \in Media |-> past[m] \union
                    (IF \E c \in Calls : call[c].media = m THEN {"damaged"} ELSE {})]
  BY DEF Crash
<1>2. ASSUME NEW m \in Media, NEW p \in Parts
      PROVE  file'[m][p] \in File /\ file'[m][p].data = file[m][p].data
  <2>1. file'[m][p] = [file[m][p] EXCEPT !.writer = NoCall]
    BY <1>1
  <2>2. file[m][p] \in File
    BY DEF IndInv, MediaTypeOK
  <2> QED
    BY <2>1, <2>2 DEF File
<1>3. MediaTypeOK'
  <2>1. file' \in [Media -> [Parts -> File]]
    <3>1. file' = [m \in Media |-> [p \in Parts |-> file'[m][p]]]
      BY <1>1
    <3> QED
      BY <1>2, <3>1
  <2>2. call' \in [Calls -> Call]
    BY <1>1, IdleCall
  <2>3. past' \in [Media -> SUBSET Events]
    BY <1>1 DEF IndInv, MediaTypeOK, Events
  <2>4. faults' \in 0..MaxFaults
    BY MediaAssumption DEF Crash, Fault, IndInv, MediaTypeOK
  <2> QED
    BY <2>1, <2>2, <2>3, <2>4 DEF MediaTypeOK
<1>4. \A c \in Calls : CallOK(call'[c]) /\ call'[c].op = "none" /\ call'[c].media \notin Media
  BY <1>1, IdleCall, MediaAssumption
<1>5. ASSUME NEW m \in Media PROVE ObjectOK(m)'
  <2>1. ObjectOK(m) /\ past[m] \subseteq past'[m]
    BY <1>1 DEF IndInv
  <2>2. EventsOK(past'[m])
    <3>1. CASE \E c \in Calls : call[c].media = m
      BY <1>1, <2>1, <3>1 DEF ObjectOK, PastOK, EventsOK
    <3>2. CASE ~\E c \in Calls : call[c].media = m
      BY <1>1, <2>1, <3>2 DEF ObjectOK
    <3> QED
      BY <3>1, <3>2
  <2>3. ASSUME "overlapped" \notin past'[m] PROVE Settled(file'[m], past'[m])
    <3>1. CASE \E c \in Calls : call[c].media = m
      <4>1. "damaged" \in past'[m]
        BY <1>1, <3>1
      <4>2. file[m]["json"].data = "whole" => file[m]["bin"].data # "torn"
        <5>1. CASE \A c \in Calls : Changes(call[c], m) => call[c].phase = "reading"
          BY <2>1, <2>3, <5>1 DEF ObjectOK, Settled
        <5>2. ASSUME NEW c \in Calls, Changes(call[c], m), call[c].phase # "reading"
              PROVE  file[m]["json"].data = "whole" => file[m]["bin"].data # "torn"
          <6>1. Stage(c, call[c], file[m], past[m])
            BY <2>1, <2>3, <5>2 DEF ObjectOK
          <6> QED
            BY <5>2, <6>1, Facts, StageWhole DEF Changes
        <5> QED
          BY <5>1, <5>2
      <4> QED
        BY <1>2, <4>1, <4>2, PartNames DEF Settled
    <3>2. CASE ~\E c \in Calls : call[c].media = m
      <4>1. Settled(file[m], past[m]) /\ past'[m] = past[m]
        BY <1>1, <2>1, <2>3, <3>2 DEF ObjectOK, Changes
      <4> QED
        BY <1>2, <4>1, PartNames DEF Settled
    <3> QED
      BY <3>1, <3>2
  <2> QED
    BY <1>4, <2>2, <2>3 DEF ObjectOK, Changes, Changing, PastOK, Stage
<1> QED
  BY <1>3, <1>4, <1>5 DEF IndInv, CallOK

-----------------------------------------------------------------------------
(* The theorems.                                                           *)

LEMMA InitInv == Init => IndInv
<1> SUFFICES ASSUME Init PROVE IndInv
  OBVIOUS
<1>1. Absent \in File /\ Absent.data = "absent"
  BY DEF Absent, File
<1>2. MediaTypeOK
  BY <1>1, IdleCall, MediaAssumption DEF Init, MediaTypeOK
<1>3. \A c \in Calls : CallOK(call[c]) /\ call[c].op = "none" /\ call[c].media \notin Media
  BY IdleCall, MediaAssumption DEF Init
<1>4. ASSUME NEW m \in Media PROVE ObjectOK(m)
  <2>1. past[m] = {} /\ \A p \in Parts : file[m][p].data = "absent"
    BY <1>1 DEF Init
  <2>2. EventsOK(past[m]) /\ Settled(file[m], past[m])
    BY <2>1, PartNames DEF EventsOK, Settled
  <2> QED
    BY <1>3, <2>2 DEF ObjectOK, Changes, Changing
<1> QED
  BY <1>2, <1>3, <1>4 DEF IndInv

LEMMA NextInv == IndInv /\ [Next]_vars => IndInv'
<1> SUFFICES ASSUME IndInv, [Next]_vars PROVE IndInv'
  OBVIOUS
<1>1. CASE UNCHANGED vars
  BY <1>1 DEF vars, IndInv, MediaTypeOK, CallOK, ObjectOK, Changes, PastOK, Stage
<1>2. ASSUME NEW c \in Calls,
             \/ Create(c) \/ CreateFails(c) \/ Write(c) \/ WriteFails(c) \/ Discard(c)
             \/ \E p \in Parts : ReadFile(c, p) \/ RemoveFile(c, p)
             \/ Refuse(c) \/ RemoveFails(c) \/ Sanitize(c) \/ Serve(c) \/ Audit(c)
             \/ AuditFails(c)
      PROVE  IndInv'
  BY <1>2, CreateInv, CreateFailsInv, WriteInv, WriteFailsInv, DiscardInv, ReadFileInv,
     RemoveFileInv, RefuseInv, RemoveFailsInv, SanitizeInv, ServeInv, AuditInv, AuditFailsInv
<1>3. ASSUME NEW c \in Calls, NEW m \in Media,
             BeginUpload(c, m) \/ BeginDownload(c, m) \/ BeginDelete(c, m)
      PROVE  IndInv'
  BY <1>3, BeginUploadInv, BeginDownloadInv, BeginDeleteInv
<1> QED
  BY <1>1, <1>2, <1>3, CrashInv DEF Next

\* The inductive invariant holds in every state.
THEOREM Invariance == Spec => []IndInv
BY InitInv, NextInv, PTL DEF Spec

\* Every variable keeps its type.
THEOREM TypeCorrect == Spec => []MediaTypeOK
<1>1. IndInv => MediaTypeOK
  BY DEF IndInv
<1> QED
  BY <1>1, Invariance, PTL

\* put() commits an object by its metadata: wherever the process stops, whole metadata
\* never stands beside torn bytes, unless two deletions of the object overlapped.
THEOREM MetadataCommits == Spec => []MetadataMarksWholeBytes
<1>1. ASSUME IndInv, NEW m \in Media, file[m]["json"].data = "whole", "overlapped" \notin past[m]
      PROVE  file[m]["bin"].data # "torn"
  <2>1. ObjectOK(m)
    BY <1>1 DEF IndInv
  <2>2. CASE \A c \in Calls : Changes(call[c], m) => call[c].phase = "reading"
    BY <1>1, <2>1, <2>2 DEF ObjectOK, Settled
  <2>3. ASSUME NEW c \in Calls, Changes(call[c], m), call[c].phase # "reading"
        PROVE  file[m]["bin"].data # "torn"
    <3>1. Stage(c, call[c], file[m], past[m])
      BY <1>1, <2>1, <2>3 DEF ObjectOK
    <3> QED
      BY <1>1, <2>3, <3>1, Facts, StageWhole DEF Changes
  <2> QED
    BY <2>2, <2>3
<1>2. IndInv => MetadataMarksWholeBytes
  BY <1>1 DEF MetadataMarksWholeBytes
<1> QED
  BY <1>2, Invariance, PTL

\* download() never returns an object whose bytes do not match their digest.
THEOREM DownloadsAreWhole == Spec => []NothingTornIsServed
<1>1. IndInv => NothingTornIsServed
  BY DEF IndInv, CallOK, NothingTornIsServed, In
<1> QED
  BY <1>1, Invariance, PTL

\* What is not recorded did not happen: an object that no call works on is whole in both
\* files if its upload was audited and no deletion was, and gone from both otherwise.
THEOREM FilesFollowAudit == Spec => []AuditedOrUndone
<1>1. ASSUME IndInv, NEW m \in Media, past[m] \intersect {"overlapped", "damaged"} = {},
             \A c \in Calls : call[c].media # m
      PROVE  \A p \in Parts : file[m][p].data =
               IF "returned" \in past[m] /\ "deleted" \notin past[m] THEN "whole" ELSE "absent"
  <2>1. ObjectOK(m) /\ \A c \in Calls : ~Changes(call[c], m)
    BY <1>1 DEF IndInv, Changes
  <2>2. Settled(file[m], past[m])
    BY <1>1, <2>1 DEF ObjectOK
  <2> QED
    BY <1>1, <2>2 DEF Settled
<1>2. IndInv => AuditedOrUndone
  BY <1>1 DEF AuditedOrUndone
<1> QED
  BY <1>2, Invariance, PTL

-----------------------------------------------------------------------------
(* The scanners.                                                           *)

Start(format) == IF format = "png" THEN PngStart ELSE JpegStart

Token(format, s, type) == IF format = "png" THEN PngChunk(s, type) ELSE JpegToken(s, type)

\* The fold, over the sets of positions, that the library's definition chooses.
Fold(format, x, n) ==
  LET iter[D \in SUBSET (1..n)] ==
        IF D = {} THEN Start(format) ELSE Token(format, iter[D \ {Max(D)}], x[Max(D)])
  IN  iter

LEMMA PngFold ==
  ASSUME NEW x, NEW n, DOMAIN x = 1..n
  PROVE  FoldLeft(PngChunk, PngStart, x) = Fold("png", x, n)[1..n]
BY DEF FoldLeft, MapThenFoldSet, Fold, Token, Start

LEMMA JpegFold ==
  ASSUME NEW x, NEW n, DOMAIN x = 1..n
  PROVE  FoldLeft(JpegToken, JpegStart, x) = Fold("jpeg", x, n)[1..n]
BY DEF FoldLeft, MapThenFoldSet, Fold, Token, Start

LEMMA LastOf ==
  ASSUME NEW m \in Nat, NEW D \in SUBSET (1..m), m \in D
  PROVE  Max(D) = m
<1>1. \A y \in D : y \in Nat /\ m >= y
  OBVIOUS
<1>2. \A z \in D : (\A y \in D : z >= y) => z = m
  BY <1>1
<1> QED
  BY <1>1, <1>2 DEF Max

IsFold(f, format, x, m) ==
  f = [D \in SUBSET (1..m) |->
         IF D = {} THEN Start(format) ELSE Token(format, f[D \ {Max(D)}], x[Max(D)])]

\* It is the fold of one position fewer, and the last position.
LEMMA FoldGrows ==
  ASSUME NEW format, NEW x, NEW m \in Nat \ {0}, NEW g, IsFold(g, format, x, m - 1)
  PROVE  \E f : IsFold(f, format, x, m)
<1> DEFINE f == [D \in SUBSET (1..m) |->
                   IF m \in D THEN Token(format, g[D \ {m}], x[m]) ELSE g[D]]
           h == [D \in SUBSET (1..m) |->
                   IF D = {} THEN Start(format) ELSE Token(format, f[D \ {Max(D)}], x[Max(D)])]
<1>1. ASSUME NEW D \in SUBSET (1..(m - 1))
      PROVE  g[D] = IF D = {} THEN Start(format) ELSE Token(format, g[D \ {Max(D)}], x[Max(D)])
  BY DEF IsFold
<1>2. ASSUME NEW D \in SUBSET (1..m) PROVE D \ {m} \in SUBSET (1..(m - 1))
  OBVIOUS
<1>3. ASSUME NEW D \in SUBSET (1..m) PROVE f[D] = h[D]
  <2>1. f[D] = IF m \in D THEN Token(format, g[D \ {m}], x[m]) ELSE g[D]
    OBVIOUS
  <2>2. h[D] = IF D = {} THEN Start(format) ELSE Token(format, f[D \ {Max(D)}], x[Max(D)])
    OBVIOUS
  <2>3. CASE m \in D
    <3>1. Max(D) = m
      BY <2>3, LastOf
    <3>2. f[D \ {m}] = g[D \ {m}]
      OBVIOUS
    <3> HIDE DEF f, h
    <3> QED
      BY <2>1, <2>2, <2>3, <3>1, <3>2
  <2>4. CASE m \notin D
    <3>1. D \in SUBSET (1..(m - 1))
      BY <1>2, <2>4
    <3>2. f[D \ {Max(D)}] = g[D \ {Max(D)}]
      BY <2>4
    <3> HIDE DEF f, h
    <3> QED
      BY <1>1, <2>1, <2>2, <2>4, <3>1, <3>2
  <2> QED
    BY <2>3, <2>4
<1>4. DOMAIN f = SUBSET (1..m) /\ DOMAIN h = SUBSET (1..m)
  OBVIOUS
<1>5. f = [D \in SUBSET (1..m) |-> f[D]] /\ h = [D \in SUBSET (1..m) |-> h[D]]
  OBVIOUS
<1>6. f = h
  <2> HIDE DEF f, h
  <2> QED
    BY <1>3, <1>5
<1>7. IsFold(f, format, x, m)
  <2>1. f = h
    BY <1>6
  <2> HIDE DEF f
  <2> QED
    BY <2>1 DEF IsFold
<1> QED
  BY <1>7

\* A set of natural numbers that is not empty has a least one.
LEMMA Least ==
  ASSUME NEW S \in SUBSET Nat, S # {}
  PROVE  \E n \in S : \A m \in S : n <= m
<1> DEFINE R == {p \in Nat \X Nat : p[1] < p[2]}
<1>1. OpToRel(<, Nat) = R
  BY DEF OpToRel
<1>2. IsWellFoundedOn(R, Nat)
  BY <1>1, NatLessThanWellFounded
<1>3. PICK n \in S : \A m \in S : ~(<<m, n>> \in R)
  <2> HIDE DEF R
  <2> QED
    BY <1>2, WFMin
<1>4. ASSUME NEW m \in S PROVE n <= m
  <2>1. m \in Nat /\ n \in Nat /\ <<m, n>> \in Nat \X Nat
    OBVIOUS
  <2>2. ~(m < n)
    BY <1>3, <2>1
  <2> QED
    BY <2>1, <2>2
<1> QED
  BY <1>4

\* Induction up to n.
LEMMA UpTo ==
  ASSUME NEW n \in Nat, NEW S, 0 \in S, \A i \in 1..n : i - 1 \in S => i \in S
  PROVE  0..n \subseteq S
<1> DEFINE N == {i \in 0..n : i \notin S}
<1> SUFFICES ASSUME N # {} PROVE FALSE
  OBVIOUS
<1>1. N \in SUBSET Nat
  OBVIOUS
<1>2. PICK i \in N : \A j \in N : i <= j
  BY <1>1, Least
<1>3. i \in 1..n /\ i - 1 \in 0..n /\ i - 1 \notin N
  BY <1>2
<1> QED
  BY <1>3

LEMMA FoldExists ==
  ASSUME NEW format, NEW x, NEW n \in Nat
  PROVE  \E f : IsFold(f, format, x, n)
<1> DEFINE S == {m \in 0..n : \E f : IsFold(f, format, x, m)}
<1>1. 0 \in S
  <2> DEFINE f == [D \in SUBSET (1..0) |-> Start(format)]
  <2>1. \A D \in SUBSET (1..0) : D = {}
    OBVIOUS
  <2>2. IsFold(f, format, x, 0)
    BY <2>1 DEF IsFold
  <2> QED
    BY <2>2
<1>2. ASSUME NEW m \in 1..n, m - 1 \in S PROVE m \in S
  <2>1. PICK g : IsFold(g, format, x, m - 1)
    BY <1>2
  <2> QED
    BY <2>1, FoldGrows
<1>3. 0..n \subseteq S
  <2> HIDE DEF S
  <2> QED
    BY <1>1, <1>2, UpTo
<1> QED
  BY <1>3

\* The states of a scanner after each prefix of a file.
States(format, x, n) == [i \in 0..n |-> Fold(format, x, n)[1..i]]

LEMMA StatesAre ==
  ASSUME NEW format, NEW x, NEW n \in Nat
  PROVE  /\ States(format, x, n)[0] = Start(format)
         /\ \A i \in 1..n : States(format, x, n)[i] = Token(format, States(format, x, n)[i - 1], x[i])
         /\ States(format, x, n)[n] = Fold(format, x, n)[1..n]
<1> DEFINE f == Fold(format, x, n)
<1>1. IsFold(f, format, x, n)
  <2>1. f = CHOOSE g : IsFold(g, format, x, n)
    BY DEF Fold, IsFold
  <2> HIDE DEF f
  <2> QED
    BY <2>1, FoldExists
<1>2. \A D \in SUBSET (1..n) :
        f[D] = IF D = {} THEN Start(format) ELSE Token(format, f[D \ {Max(D)}], x[Max(D)])
  <2> HIDE DEF f
  <2> QED
    BY <1>1 DEF IsFold
<1> HIDE DEF f
<1>3. f[1..0] = Start(format)
  <2>1. 1..0 = {} /\ 1..0 \in SUBSET (1..n)
    OBVIOUS
  <2> QED
    BY <1>2, <2>1
<1>4. ASSUME NEW i \in 1..n PROVE f[1..i] = Token(format, f[1..(i - 1)], x[i])
  <2>1. 1..i \in SUBSET (1..n) /\ 1..i # {} /\ (1..i) \ {i} = 1..(i - 1)
    OBVIOUS
  <2>2. Max(1..i) = i
    BY LastOf
  <2>3. f[1..i] = Token(format, f[(1..i) \ {Max(1..i)}], x[Max(1..i)])
    BY <1>2, <2>1
  <2> QED
    BY <2>1, <2>2, <2>3
<1> QED
  BY <1>3, <1>4 DEF States, f

(* PNG.                                                                    *)

LEMMA PngStep ==
  ASSUME NEW s, NEW type
  PROVE  LET u == PngChunk(s, type) IN
         /\ u.ihdr <=> s.ihdr \/ type = "IHDR"
         /\ u.idat <=> s.idat \/ type = "IDAT"
         /\ u.ended <=> s.ended \/ (s.idat /\ type \notin {"IDAT", "IEND"})
         /\ u.iend <=> s.iend \/ type = "IEND"
         /\ u.valid <=> s.valid /\ PngChunkIsValid(s, type)
BY DEF PngChunk

\* What a state says of the prefix before it.
PngSeen(s, x, i) ==
  /\ s.ihdr <=> \E j \in 1..i : x[j] = "IHDR"
  /\ s.idat <=> \E j \in 1..i : x[j] = "IDAT"
  /\ s.ended <=> \E j, k \in 1..i : j < k /\ x[j] = "IDAT" /\ x[k] \notin {"IDAT", "IEND"}
  /\ s.iend <=> \E j \in 1..i : x[j] = "IEND"

LEMMA PngPrefixes ==
  ASSUME NEW x, NEW n \in Nat, NEW p, p[0] = PngStart,
         \A i \in 1..n : p[i] = PngChunk(p[i - 1], x[i])
  PROVE  /\ \A i \in 0..n : PngSeen(p[i], x, i)
         /\ p[n].valid <=> \A j \in 1..n : PngChunkIsValid(p[j - 1], x[j])
<1> DEFINE S == {i \in 0..n : /\ PngSeen(p[i], x, i)
                              /\ p[i].valid <=> \A j \in 1..i : PngChunkIsValid(p[j - 1], x[j])}
<1>1. 0 \in S
  <2>1. ~p[0].ihdr /\ ~p[0].idat /\ ~p[0].ended /\ ~p[0].iend /\ p[0].valid
    BY DEF PngStart
  <2>2. 1..0 = {}
    OBVIOUS
  <2> QED
    BY <2>1, <2>2 DEF PngSeen
<1>2. ASSUME NEW i \in 1..n, i - 1 \in S PROVE i \in S
  <2>1. 1..i = 1..(i - 1) \union {i} /\ i \notin 1..(i - 1) /\ i \in 0..n
        /\ \A j \in 1..(i - 1) : j < i
    OBVIOUS
  <2>2. /\ PngSeen(p[i - 1], x, i - 1)
        /\ p[i - 1].valid <=> \A j \in 1..(i - 1) : PngChunkIsValid(p[j - 1], x[j])
    BY <1>2
  <2>3. /\ p[i].ihdr <=> p[i - 1].ihdr \/ x[i] = "IHDR"
        /\ p[i].idat <=> p[i - 1].idat \/ x[i] = "IDAT"
        /\ p[i].ended <=> p[i - 1].ended \/ (p[i - 1].idat /\ x[i] \notin {"IDAT", "IEND"})
        /\ p[i].iend <=> p[i - 1].iend \/ x[i] = "IEND"
        /\ p[i].valid <=> p[i - 1].valid /\ PngChunkIsValid(p[i - 1], x[i])
    BY PngStep
  <2>4. /\ p[i].ihdr <=> \E j \in 1..i : x[j] = "IHDR"
        /\ p[i].idat <=> \E j \in 1..i : x[j] = "IDAT"
        /\ p[i].iend <=> \E j \in 1..i : x[j] = "IEND"
    BY <2>1, <2>2, <2>3 DEF PngSeen
  <2>5. p[i].ended
          <=> \E j, k \in 1..i : j < k /\ x[j] = "IDAT" /\ x[k] \notin {"IDAT", "IEND"}
    <3>1. /\ p[i - 1].ended <=> \E j, k \in 1..(i - 1) :
                                  j < k /\ x[j] = "IDAT" /\ x[k] \notin {"IDAT", "IEND"}
          /\ p[i - 1].idat <=> \E j \in 1..(i - 1) : x[j] = "IDAT"
      BY <2>2 DEF PngSeen
    <3>2. \A j \in 1..(i - 1) : ~(i < j)
      OBVIOUS
    <3>3. ~(i < i)
      OBVIOUS
    <3> QED
      BY <2>1, <2>3, <3>1, <3>2, <3>3
  <2>6. p[i].valid <=> \A j \in 1..i : PngChunkIsValid(p[j - 1], x[j])
    BY <2>1, <2>2, <2>3
  <2> QED
    BY <2>1, <2>4, <2>5, <2>6 DEF PngSeen
<1>3. 0..n \subseteq S
  <2> HIDE DEF S
  <2> QED
    BY <1>1, <1>2, UpTo
<1> QED
  BY <1>3

\* What PngChunkIsValid asks of a chunk, said of the chunks before it.
PngFits(x, j) ==
  /\ ~\E k \in 1..(j - 1) : x[k] = "IEND"
  /\ x[j] \notin {"critical", "bad"}
  /\ x[j] = "IHDR" <=> ~\E k \in 1..(j - 1) : x[k] = "IHDR"
  /\ x[j] = "IDAT" => ~\E a, b \in 1..(j - 1) :
                          a < b /\ x[a] = "IDAT" /\ x[b] \notin {"IDAT", "IEND"}
  /\ x[j] = "IEND" => \E k \in 1..(j - 1) : x[k] = "IDAT"

LEMMA PngScan ==
  ASSUME NEW T, NEW x \in Seq(T)
  PROVE  PngAccepted(x) <=> /\ \A j \in 1..Len(x) : PngFits(x, j)
                            /\ \A type \in {"IHDR", "IDAT", "IEND"} :
                                 \E j \in 1..Len(x) : x[j] = type
<1> DEFINE n == Len(x)
           p == States("png", x, n)
<1>1. n \in Nat /\ DOMAIN x = 1..n
  OBVIOUS
<1>2. p[n] = FoldLeft(PngChunk, PngStart, x)
  <2>1. FoldLeft(PngChunk, PngStart, x) = Fold("png", x, n)[1..n]
    BY <1>1, PngFold
  <2>2. States("png", x, n)[n] = Fold("png", x, n)[1..n]
    <3> HIDE DEF n
    <3>1. n \in 0..n
      BY <1>1
    <3> QED
      BY <3>1 DEF States
  <2> QED
    BY <2>1, <2>2
<1>3. p[0] = PngStart /\ \A i \in 1..n : p[i] = PngChunk(p[i - 1], x[i])
  BY <1>1, StatesAre DEF Start, Token
<1> HIDE DEF n, p
<1>4. /\ \A i \in 0..n : PngSeen(p[i], x, i)
      /\ p[n].valid <=> \A j \in 1..n : PngChunkIsValid(p[j - 1], x[j])
  BY <1>1, <1>3, PngPrefixes
<1>5. ASSUME NEW j \in 1..n PROVE PngChunkIsValid(p[j - 1], x[j]) <=> PngFits(x, j)
  <2>1. j - 1 \in 0..n
    BY <1>1
  <2>2. PngSeen(p[j - 1], x, j - 1)
    BY <1>4, <2>1
  <2> QED
    BY <2>2 DEF PngSeen, PngChunkIsValid, PngFits
<1>6. PngSeen(p[n], x, n)
  BY <1>1, <1>4
<1>7. PngAccepted(x) <=> p[n].valid /\ p[n].ihdr /\ p[n].idat /\ p[n].iend
  BY <1>2 DEF PngAccepted
<1> QED
  BY <1>4, <1>5, <1>6, <1>7 DEF PngSeen, n

LEMMA PngAcceptedIsWellFormed ==
  ASSUME NEW T, NEW x \in Seq(T), PngAccepted(x)
  PROVE  WellFormedPng(x)
<1> DEFINE n == Len(x)
<1>1. n \in Nat /\ DOMAIN x = 1..n
  OBVIOUS
<1>2. \A j \in 1..n : PngFits(x, j)
  BY PngScan
<1>3. /\ \E j \in 1..n : x[j] = "IHDR"
      /\ \E j \in 1..n : x[j] = "IDAT"
      /\ \E j \in 1..n : x[j] = "IEND"
  BY PngScan
<1>4. x # <<>> /\ Contains(x, "IDAT")
  BY <1>3 DEF Contains
<1>5. \A i \in 1..n : x[i] \notin {"critical", "bad"}
  BY <1>2 DEF PngFits
<1> HIDE DEF n
<1>6. 1 \in 1..n /\ n \in 1..n
  BY <1>1, <1>3
<1>7. ASSUME NEW k \in 1..n, x[k] = "IEND" PROVE k = n
  <2>1. k # n => k \in 1..(n - 1)
    BY <1>1
  <2>2. ~\E j \in 1..(n - 1) : x[j] = "IEND"
    BY <1>2, <1>6 DEF PngFits
  <2> QED
    BY <1>7, <2>1, <2>2
<1>8. \A k \in 1..n : x[k] = "IEND" <=> k = n
  BY <1>3, <1>7
<1>9. ASSUME NEW k \in 1..n PROVE x[k] = "IHDR" <=> k = 1
  <2>1. x[1] = "IHDR"
    <3>1. 1..(1 - 1) = {}
      OBVIOUS
    <3> QED
      BY <1>2, <1>6, <3>1 DEF PngFits
  <2>2. k # 1 => 1 \in 1..(k - 1)
    BY <1>1
  <2>3. x[k] = "IHDR" <=> ~\E j \in 1..(k - 1) : x[j] = "IHDR"
    BY <1>2 DEF PngFits
  <2> QED
    BY <2>1, <2>2, <2>3
<1>10. \E first, last \in 1..n : \A i \in 1..n : x[i] = "IDAT" <=> i \in first..last
  <2> DEFINE I == {i \in 1..n : x[i] = "IDAT"}
  <2>1. I \in SUBSET Nat /\ I # {}
    BY <1>1, <1>3
  <2>2. PICK first \in I : \A i \in I : first <= i
    BY <2>1, Least
  <2>3. first \in 1..n /\ x[first] = "IDAT"
    OBVIOUS
  <2> DEFINE K == {k \in first..n : x[k] # "IDAT"}
  <2>4. n \in K /\ K \in SUBSET Nat
    BY <1>1, <1>6, <1>8, <2>3
  <2>5. PICK k \in K : \A i \in K : k <= i
    BY <2>4, Least
  <2>6. k \in first..n /\ x[k] # "IDAT" /\ k # first
    BY <2>3
  <2>7. k - 1 \in 1..n
    BY <1>1, <2>3, <2>6
  <2>8. ASSUME NEW i \in 1..n PROVE x[i] = "IDAT" <=> i \in first..(k - 1)
    <3>1. ASSUME i \in first..(k - 1) PROVE x[i] = "IDAT"
      <4>1. i \in first..n /\ ~(k <= i)
        BY <1>1, <2>3, <2>6, <3>1
      <4> QED
        BY <2>5, <4>1
    <3>2. ASSUME x[i] = "IDAT", i \notin first..(k - 1) PROVE FALSE
      <4>1. first <= i
        BY <2>2, <3>2
      <4>2. k < i /\ first < k
        <5>1. i # k
          BY <2>6, <3>2
        <5> QED
          BY <1>1, <2>3, <2>6, <3>2, <4>1, <5>1
      <4>3. first \in 1..(i - 1) /\ k \in 1..(i - 1) /\ k \in 1..n /\ k # n
        BY <1>1, <2>3, <2>6, <4>2
      <4>4. x[k] \notin {"IDAT", "IEND"}
        BY <1>8, <2>6, <4>3
      <4>5. ~\E a, b \in 1..(i - 1) : a < b /\ x[a] = "IDAT" /\ x[b] \notin {"IDAT", "IEND"}
        BY <1>2, <3>2 DEF PngFits
      <4> QED
        BY <2>3, <4>2, <4>3, <4>4, <4>5
    <3> QED
      BY <3>1, <3>2
  <2> HIDE DEF I, K
  <2> QED
    BY <2>3, <2>7, <2>8
<1> QED
  BY <1>1, <1>4, <1>5, <1>8, <1>9, <1>10 DEF WellFormedPng, Only, n

LEMMA WellFormedPngIsAccepted ==
  ASSUME NEW T, NEW x \in Seq(T), WellFormedPng(x)
  PROVE  PngAccepted(x)
<1> DEFINE n == Len(x)
<1>1. n \in Nat \ {0} /\ DOMAIN x = 1..n
  BY DEF WellFormedPng
<1>2. /\ \A i \in 1..n : x[i] = "IHDR" <=> i = 1
      /\ \A i \in 1..n : x[i] = "IEND" <=> i = n
      /\ \A i \in 1..n : x[i] \notin {"critical", "bad"}
      /\ \E i \in 1..n : x[i] = "IDAT"
  BY <1>1 DEF WellFormedPng, Only, Contains
<1>3. PICK first, last \in 1..n : \A i \in 1..n : x[i] = "IDAT" <=> i \in first..last
  BY <1>1 DEF WellFormedPng
<1> HIDE DEF n
<1>4. 1 \in 1..n /\ n \in 1..n
  BY <1>1
<1>5. ASSUME NEW j \in 1..n PROVE PngFits(x, j)
  <2>1. \A k \in 1..(j - 1) : k \in 1..n /\ k < j /\ k # n
    BY <1>1
  <2>2. ~\E k \in 1..(j - 1) : x[k] = "IEND"
    BY <1>2, <2>1
  <2>3. x[j] = "IHDR" <=> ~\E k \in 1..(j - 1) : x[k] = "IHDR"
    <3>1. j # 1 => 1 \in 1..(j - 1)
      BY <1>1
    <3>2. j = 1 => 1..(j - 1) = {}
      OBVIOUS
    <3> QED
      BY <1>2, <1>4, <3>1, <3>2
  <2>4. ASSUME x[j] = "IDAT", NEW a \in 1..(j - 1), NEW b \in 1..(j - 1), a < b, x[a] = "IDAT"
        PROVE  x[b] = "IDAT"
    <3>1. a \in first..last /\ j \in first..last
      BY <1>3, <2>1, <2>4
    <3>2. b \in first..last
      BY <1>1, <2>4, <3>1
    <3> QED
      BY <1>3, <2>1, <3>2
  <2>5. ASSUME x[j] = "IEND" PROVE \E k \in 1..(j - 1) : x[k] = "IDAT"
    <3>1. PICK k \in 1..n : x[k] = "IDAT"
      BY <1>2
    <3>2. j = n /\ k # n
      BY <1>2, <1>4, <2>5, <3>1
    <3>3. k \in 1..(j - 1)
      BY <1>1, <3>2
    <3> QED
      BY <3>1, <3>3
  <2> QED
    BY <1>2, <2>2, <2>3, <2>4, <2>5 DEF PngFits
<1>6. \A type \in {"IHDR", "IDAT", "IEND"} : \E j \in 1..n : x[j] = type
  BY <1>2, <1>4
<1> QED
  BY <1>5, <1>6, PngScan DEF n

(* JPEG.                                                                   *)

JpegState == [part : {"segments", "scan", "end", "invalid"}, frame : BOOLEAN]

LEMMA JpegBegins ==
  JpegStart \in JpegState /\ JpegStart.part = "segments" /\ ~JpegStart.frame
BY DEF JpegStart, JpegState

LEMMA JpegStep ==
  ASSUME NEW s \in JpegState, NEW type
  PROVE  LET u == JpegToken(s, type) IN
         /\ u \in JpegState
         /\ u.part = "segments" <=> /\ s.part = "segments"
                                    /\ type \in {"APP", "TEM"} \/ (type = "SOF0" /\ ~s.frame)
         /\ u.part = "segments" => (u.frame <=> s.frame \/ type = "SOF0")
         /\ u.part = "scan" <=> \/ s.part = "segments" /\ type = "SOS" /\ s.frame
                                \/ s.part = "scan" /\ type \in {"data", "RST"}
         /\ u.part = "end" <=> /\ type = "EOI"
                               /\ (s.part = "segments" /\ s.frame) \/ s.part = "scan"
<1>1. CASE s.part = "segments"
  <2>1. JpegToken(s, type) = JpegSegment(s, type)
    BY <1>1 DEF JpegToken
  <2>2. CASE type \in {"APP", "TEM"}
    BY <1>1, <2>1, <2>2 DEF JpegSegment, JpegState
  <2>3. CASE type = "SOF0" /\ ~s.frame
    BY <1>1, <2>1, <2>3 DEF JpegSegment, JpegState
  <2>4. CASE type = "SOS" /\ s.frame
    BY <1>1, <2>1, <2>4 DEF JpegSegment, JpegState
  <2>5. CASE type = "EOI" /\ s.frame
    BY <1>1, <2>1, <2>5 DEF JpegSegment, JpegState
  <2>6. CASE /\ type \notin {"APP", "TEM"} /\ ~(type = "SOF0" /\ ~s.frame)
             /\ ~(type = "SOS" /\ s.frame) /\ ~(type = "EOI" /\ s.frame)
    <3>1. JpegToken(s, type) = [s EXCEPT !.part = "invalid"]
      BY <2>1, <2>6 DEF JpegSegment
    <3> QED
      BY <1>1, <2>6, <3>1 DEF JpegState
  <2> QED
    BY <2>2, <2>3, <2>4, <2>5, <2>6
<1>2. CASE s.part = "scan"
  BY <1>2 DEF JpegToken, JpegScan, JpegState
<1>3. CASE s.part \notin {"segments", "scan"}
  BY <1>3 DEF JpegToken, JpegState
<1> QED
  BY <1>1, <1>2, <1>3

\* What comes before the scan c, or the end: segments, one of them the frame.
Segments(x, frame, c) ==
  \A j \in 1..(c - 1) : x[j] \in {"APP", "TEM", "SOF0"} /\ (x[j] = "SOF0" <=> j = frame)

\* What a state says of the prefix before it.
JpegSeen(s, x, i) ==
  /\ s \in JpegState
  /\ s.part = "segments" =>
       IF s.frame THEN \E frame \in 1..i : Segments(x, frame, i + 1) ELSE Segments(x, 0, i + 1)
  /\ s.part = "scan" =>
       \E c \in 1..i :
         /\ x[c] = "SOS"
         /\ \E frame \in 1..(c - 1) : Segments(x, frame, c)
         /\ \A j \in (c + 1)..i : x[j] \in {"data", "RST"}
  /\ s.part = "end" =>
       /\ x[i] = "EOI"
       /\ \E c \in 1..i :
            /\ x[c] = "SOS" \/ c = i
            /\ \E frame \in 1..(c - 1) : Segments(x, frame, c)
            /\ \A j \in (c + 1)..(i - 1) : x[j] \in {"data", "RST"}

LEMMA JpegPrefix ==
  ASSUME NEW x, NEW i \in Nat \ {0}, NEW s, JpegSeen(s, x, i - 1)
  PROVE  JpegSeen(JpegToken(s, x[i]), x, i)
<1> DEFINE u == JpegToken(s, x[i])
<1>1. s \in JpegState
  BY DEF JpegSeen
<1>2. /\ u \in JpegState
      /\ u.part = "segments" <=> /\ s.part = "segments"
                                 /\ x[i] \in {"APP", "TEM"} \/ (x[i] = "SOF0" /\ ~s.frame)
      /\ u.part = "segments" => (u.frame <=> s.frame \/ x[i] = "SOF0")
      /\ u.part = "scan" <=> \/ s.part = "segments" /\ x[i] = "SOS" /\ s.frame
                             \/ s.part = "scan" /\ x[i] \in {"data", "RST"}
      /\ u.part = "end" <=> /\ x[i] = "EOI"
                            /\ (s.part = "segments" /\ s.frame) \/ s.part = "scan"
  BY <1>1, JpegStep
<1> HIDE DEF u
<1>3. (i - 1) + 1 = i /\ i \in 1..i
  OBVIOUS
<1>4. ASSUME s.part = "segments", s.frame
      PROVE  \E frame \in 1..(i - 1) : Segments(x, frame, i)
  BY <1>3, <1>4 DEF JpegSeen
<1>5. ASSUME s.part = "scan"
      PROVE  \E c \in 1..(i - 1) :
               /\ x[c] = "SOS"
               /\ \E frame \in 1..(c - 1) : Segments(x, frame, c)
               /\ \A j \in (c + 1)..(i - 1) : x[j] \in {"data", "RST"}
  BY <1>5 DEF JpegSeen
<1>6. ASSUME u.part = "segments"
      PROVE  IF u.frame THEN \E frame \in 1..i : Segments(x, frame, i + 1)
             ELSE Segments(x, 0, i + 1)
  <2>1. \A j \in 1..((i + 1) - 1) : j = i \/ j \in 1..(i - 1)
    OBVIOUS
  <2>2. CASE s.frame
    <3>1. PICK frame \in 1..(i - 1) : Segments(x, frame, i)
      BY <1>2, <1>4, <1>6, <2>2
    <3>2. x[i] \in {"APP", "TEM"} /\ frame # i /\ frame \in 1..i
      BY <1>2, <1>6, <2>2
    <3>3. Segments(x, frame, i + 1)
      BY <2>1, <3>1, <3>2 DEF Segments
    <3> QED
      BY <1>2, <1>6, <2>2, <3>2, <3>3
  <2>3. CASE ~s.frame
    <3>1. Segments(x, 0, i)
      BY <1>2, <1>3, <1>6, <2>3 DEF JpegSeen
    <3>2. CASE x[i] = "SOF0"
      <4>1. \A j \in 1..(i - 1) : x[j] \in {"APP", "TEM", "SOF0"} /\ x[j] # "SOF0" /\ j # i
        BY <3>1 DEF Segments
      <4>2. Segments(x, i, i + 1)
        BY <2>1, <3>2, <4>1 DEF Segments
      <4> QED
        BY <1>2, <1>3, <1>6, <3>2, <4>2
    <3>3. CASE x[i] # "SOF0"
      <4>1. Segments(x, 0, i + 1)
        BY <1>2, <1>6, <2>1, <3>1, <3>3 DEF Segments
      <4> QED
        BY <1>2, <1>6, <2>3, <3>3, <4>1
    <3> QED
      BY <3>2, <3>3
  <2> QED
    BY <2>2, <2>3
<1>7. ASSUME u.part = "scan"
      PROVE  \E c \in 1..i :
               /\ x[c] = "SOS"
               /\ \E frame \in 1..(c - 1) : Segments(x, frame, c)
               /\ \A j \in (c + 1)..i : x[j] \in {"data", "RST"}
  <2>1. CASE s.part = "segments"
    <3>1. x[i] = "SOS" /\ s.frame
      BY <1>2, <1>7, <2>1
    <3>2. (i + 1)..i = {}
      OBVIOUS
    <3> QED
      BY <1>3, <1>4, <2>1, <3>1, <3>2
  <2>2. CASE s.part = "scan"
    <3>1. x[i] \in {"data", "RST"}
      BY <1>2, <1>7, <2>2
    <3>2. PICK c \in 1..(i - 1) :
            /\ x[c] = "SOS"
            /\ \E frame \in 1..(c - 1) : Segments(x, frame, c)
            /\ \A j \in (c + 1)..(i - 1) : x[j] \in {"data", "RST"}
      BY <1>5, <2>2
    <3>3. c \in 1..i /\ \A j \in (c + 1)..i : j = i \/ j \in (c + 1)..(i - 1)
      OBVIOUS
    <3> QED
      BY <3>1, <3>2, <3>3
  <2> QED
    BY <1>2, <1>7, <2>1, <2>2
<1>8. ASSUME u.part = "end"
      PROVE  /\ x[i] = "EOI"
             /\ \E c \in 1..i :
                  /\ x[c] = "SOS" \/ c = i
                  /\ \E frame \in 1..(c - 1) : Segments(x, frame, c)
                  /\ \A j \in (c + 1)..(i - 1) : x[j] \in {"data", "RST"}
  <2>1. x[i] = "EOI" /\ ((s.part = "segments" /\ s.frame) \/ s.part = "scan")
    BY <1>2, <1>8
  <2>2. CASE s.part = "segments" /\ s.frame
    <3>1. (i + 1)..(i - 1) = {}
      OBVIOUS
    <3> QED
      BY <1>3, <1>4, <2>1, <2>2, <3>1
  <2>3. CASE s.part = "scan"
    <3>1. 1..(i - 1) \subseteq 1..i
      OBVIOUS
    <3> QED
      BY <1>5, <2>1, <2>3, <3>1
  <2> QED
    BY <2>1, <2>2, <2>3
<1> QED
  BY <1>2, <1>6, <1>7, <1>8 DEF JpegSeen, u

LEMMA JpegStates ==
  ASSUME NEW T, NEW x \in Seq(T)
  PROVE  \E q : /\ q[0] = JpegStart
                /\ \A i \in 1..Len(x) : q[i] = JpegToken(q[i - 1], x[i])
                /\ JpegAccepted(x) <=> q[Len(x)].part = "end"
<1> DEFINE n == Len(x)
           q == States("jpeg", x, n)
<1>1. n \in Nat /\ DOMAIN x = 1..n
  OBVIOUS
<1>2. States("jpeg", x, n)[n] = FoldLeft(JpegToken, JpegStart, x)
  <2>1. FoldLeft(JpegToken, JpegStart, x) = Fold("jpeg", x, n)[1..n]
    BY <1>1, JpegFold
  <2>2. States("jpeg", x, n)[n] = Fold("jpeg", x, n)[1..n]
    <3> HIDE DEF n
    <3>1. n \in 0..n
      BY <1>1
    <3> QED
      BY <3>1 DEF States
  <2> QED
    BY <2>1, <2>2
<1>3. q[0] = JpegStart /\ \A i \in 1..n : q[i] = JpegToken(q[i - 1], x[i])
  <2>1. /\ q[0] = Start("jpeg")
        /\ \A i \in 1..n : q[i] = Token("jpeg", q[i - 1], x[i])
    BY <1>1, StatesAre
  <2> HIDE DEF q
  <2> QED
    BY <2>1 DEF Start, Token
<1> QED
  BY <1>2, <1>3 DEF JpegAccepted

LEMMA JpegAcceptedIsWellFormed ==
  ASSUME NEW T, NEW x \in Seq(T), JpegAccepted(x)
  PROVE  WellFormedJpeg(x)
<1> DEFINE n == Len(x)
<1>1. n \in Nat /\ DOMAIN x = 1..n
  OBVIOUS
<1>2. PICK q : /\ q[0] = JpegStart
               /\ \A i \in 1..n : q[i] = JpegToken(q[i - 1], x[i])
               /\ q[n].part = "end"
  BY JpegStates
<1> HIDE DEF n
<1> DEFINE S == {i \in 0..n : JpegSeen(q[i], x, i)}
<1>3. 0 \in S
  <2>1. Segments(x, 0, 0 + 1)
    BY DEF Segments
  <2>2. JpegSeen(q[0], x, 0)
    BY <1>2, <2>1, JpegBegins DEF JpegSeen
  <2> QED
    BY <1>1, <2>2
<1>4. ASSUME NEW i \in 1..n, i - 1 \in S PROVE i \in S
  <2>1. i \in Nat \ {0} /\ i \in 0..n /\ JpegSeen(q[i - 1], x, i - 1)
    BY <1>1, <1>4
  <2> QED
    BY <1>2, <2>1, JpegPrefix
<1>5. JpegSeen(q[n], x, n)
  <2> HIDE DEF S
  <2>1. 0..n \subseteq S
    BY <1>1, <1>3, <1>4, UpTo
  <2> QED
    BY <1>1, <2>1 DEF S
<1>6. x[n] = "EOI"
  BY <1>2, <1>5 DEF JpegSeen
<1>7. PICK c \in 1..n : /\ x[c] = "SOS" \/ c = n
                        /\ \E frame \in 1..(c - 1) : Segments(x, frame, c)
                        /\ \A j \in (c + 1)..(n - 1) : x[j] \in {"data", "RST"}
  BY <1>2, <1>5 DEF JpegSeen
<1>8. PICK frame \in 1..(c - 1) : Segments(x, frame, c)
  BY <1>7
<1>9. \A j \in 1..n : j \in 1..(c - 1) \/ j = c \/ j \in (c + 1)..(n - 1) \/ j = n
  BY <1>1
<1>10. n \in 1..n /\ frame \in 1..n /\ frame < c /\ x # <<>>
  BY <1>1 DEF n
<1>11. ASSUME NEW j \in 1..n PROVE (x[j] = "EOI" <=> j = n) /\ (x[j] = "SOF0" <=> j = frame)
  <2>1. CASE j \in 1..(c - 1)
    <3>1. j # n
      BY <1>1, <2>1
    <3> QED
      BY <1>8, <2>1, <3>1 DEF Segments
  <2>2. CASE j = c /\ j # n
    BY <1>7, <1>10, <2>2
  <2>3. CASE j \in (c + 1)..(n - 1)
    <3>1. j # n /\ j # frame
      BY <1>1, <2>3
    <3> QED
      BY <1>7, <2>3, <3>1
  <2>4. CASE j = n
    <3>1. n # frame
      BY <1>1, <1>10
    <3> QED
      BY <1>6, <2>4, <3>1
  <2> QED
    BY <1>9, <2>1, <2>2, <2>3, <2>4
<1>12. \A j \in 1..(c - 1) : x[j] \in {"APP", "TEM", "SOF0"}
  BY <1>8 DEF Segments
<1> QED
  BY <1>1, <1>7, <1>10, <1>11, <1>12 DEF WellFormedJpeg, Only, n

LEMMA WellFormedJpegIsAccepted ==
  ASSUME NEW T, NEW x \in Seq(T), WellFormedJpeg(x)
  PROVE  JpegAccepted(x)
<1> DEFINE n == Len(x)
<1>1. n \in Nat \ {0} /\ DOMAIN x = 1..n
  BY DEF WellFormedJpeg
<1>2. \A i \in 1..n : x[i] = "EOI" <=> i = n
  BY <1>1 DEF WellFormedJpeg, Only
<1>3. PICK frame \in 1..n, scan \in 1..n :
        /\ \A i \in 1..n : x[i] = "SOF0" <=> i = frame
        /\ frame < scan
        /\ x[scan] = "SOS" \/ scan = n
        /\ \A i \in 1..(scan - 1) : x[i] \in {"APP", "TEM", "SOF0"}
        /\ \A i \in (scan + 1)..(n - 1) : x[i] \in {"data", "RST"}
  BY <1>1 DEF WellFormedJpeg, Only
<1>4. PICK q : /\ q[0] = JpegStart
               /\ \A i \in 1..n : q[i] = JpegToken(q[i - 1], x[i])
               /\ JpegAccepted(x) <=> q[n].part = "end"
  BY JpegStates
<1> HIDE DEF n
<1> DEFINE S == {i \in 0..n :
                   /\ q[i] \in JpegState
                   /\ i < scan => q[i].part = "segments" /\ (q[i].frame <=> frame <= i)
                   /\ scan <= i /\ i < n => q[i].part = "scan"
                   /\ i = n => q[i].part = "end"}
<1>5. 0 \in S
  <2>1. /\ q[0] \in JpegState /\ q[0].part = "segments" /\ ~q[0].frame
        /\ ~(frame <= 0) /\ ~(scan <= 0) /\ 0 # n /\ 0 \in 0..n
    BY <1>1, <1>4, JpegBegins
  <2> QED
    BY <2>1
<1>6. ASSUME NEW i \in 1..n, i - 1 \in S PROVE i \in S
  <2> DEFINE s == q[i - 1]
  <2>1. /\ s \in JpegState
        /\ i <= scan => s.part = "segments" /\ (s.frame <=> frame < i)
        /\ scan < i => s.part = "scan"
    BY <1>1, <1>6
  <2>2. q[i] = JpegToken(s, x[i])
    BY <1>4
  <2> HIDE DEF s
  <2>3. /\ q[i] \in JpegState
        /\ q[i].part = "segments" <=> /\ s.part = "segments"
                                      /\ x[i] \in {"APP", "TEM"} \/ (x[i] = "SOF0" /\ ~s.frame)
        /\ q[i].part = "segments" => (q[i].frame <=> s.frame \/ x[i] = "SOF0")
        /\ q[i].part = "scan" <=> \/ s.part = "segments" /\ x[i] = "SOS" /\ s.frame
                                  \/ s.part = "scan" /\ x[i] \in {"data", "RST"}
        /\ q[i].part = "end" <=> /\ x[i] = "EOI"
                                 /\ (s.part = "segments" /\ s.frame) \/ s.part = "scan"
    BY <2>1, <2>2, JpegStep
  <2>4. CASE i < scan
    <3>1. i \in 1..(scan - 1) /\ i <= scan /\ i # n /\ ~(scan <= i) /\ i \in 0..n
      BY <1>1, <2>4
    <3>2. x[i] \in {"APP", "TEM", "SOF0"} /\ (x[i] = "SOF0" <=> i = frame)
      BY <1>3, <3>1
    <3>3. frame < i \/ i = frame <=> frame <= i
      OBVIOUS
    <3>4. i = frame => ~(frame < i)
      OBVIOUS
    <3>5. q[i].part = "segments" /\ (q[i].frame <=> frame <= i)
      BY <2>1, <2>3, <3>1, <3>2, <3>3, <3>4
    <3> QED
      BY <2>3, <3>1, <3>5
  <2>5. CASE i = scan
    <3>1. s.part = "segments" /\ s.frame
      BY <1>3, <2>1, <2>5
    <3>2. ~(i < scan) /\ i \in 0..n
      BY <1>1, <2>5
    <3>3. CASE i = n
      <4>1. x[i] = "EOI"
        BY <1>2, <3>3
      <4>2. q[i].part = "end" /\ ~(i < n)
        BY <1>1, <2>3, <3>1, <3>3, <4>1
      <4> QED
        BY <2>3, <3>2, <4>2
    <3>4. CASE i # n
      <4>1. q[i].part = "scan"
        BY <1>3, <2>3, <2>5, <3>1, <3>4
      <4> QED
        BY <2>3, <3>2, <3>4, <4>1
    <3> QED
      BY <3>3, <3>4
  <2>6. CASE scan < i
    <3>1. s.part = "scan" /\ ~(i < scan) /\ i \in 0..n
      BY <1>1, <2>1, <2>6
    <3>2. CASE i = n
      <4>1. x[i] = "EOI"
        BY <1>2, <3>2
      <4>2. q[i].part = "end" /\ ~(i < n)
        BY <1>1, <2>3, <3>1, <3>2, <4>1
      <4> QED
        BY <2>3, <3>1, <4>2
    <3>3. CASE i # n
      <4>1. i \in (scan + 1)..(n - 1)
        BY <1>1, <2>6, <3>3
      <4>2. q[i].part = "scan"
        BY <1>3, <2>3, <3>1, <4>1
      <4> QED
        BY <2>3, <3>1, <3>3, <4>2
    <3> QED
      BY <3>2, <3>3
  <2> QED
    BY <1>1, <2>4, <2>5, <2>6
<1>7. n \in S
  <2> HIDE DEF S
  <2>1. 0..n \subseteq S
    BY <1>1, <1>5, <1>6, UpTo
  <2> QED
    BY <1>1, <2>1
<1> QED
  BY <1>4, <1>7

(* Both.                                                                   *)

LEMMA ScannersAgree ==
  ASSUME NEW T, NEW image, image.parts \in Seq(T)
  PROVE  Accepted(image) <=> WellFormed(image)
BY PngAcceptedIsWellFormed, WellFormedPngIsAccepted,
   JpegAcceptedIsWellFormed, WellFormedJpegIsAccepted DEF Accepted, WellFormed

\* Each scanner lets exactly the files through that have the form of their format, whatever
\* their length: nothing that is repeated, missing, out of order or appended gets past it.
THEOREM ScannersAreExact == Spec => []AcceptedIsWellFormed
<1>1. ASSUME IndInv, NEW c \in Calls, call[c].phase = "sanitizing"
      PROVE  Accepted(call[c].image) <=> WellFormed(call[c].image)
  <2>1. call[c].image \in Images
    BY <1>1 DEF IndInv, CallOK
  <2>2. call[c].image.parts \in Seq(PngTypes \union JpegTypes)
    BY <2>1, MediaAssumption
  <2> QED
    BY <2>2, ScannersAgree
<1>2. IndInv => AcceptedIsWellFormed
  BY <1>1 DEF AcceptedIsWellFormed
<1> QED
  BY <1>2, Invariance, PTL
=============================================================================
