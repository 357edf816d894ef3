----------------------- MODULE SettingsRuntimeProofs -----------------------
(* Theorems about SettingsRuntime, for every value of its constants. *)
EXTENDS SettingsRuntime, TLAPS

\* The records a call starts from and ends in have their type.
LEMMA IdleType ==
  ASSUME NEW p \in Phases
  PROVE  /\ [Idle EXCEPT !.phase = p] \in Request /\ Idle \in Request
         /\ [Idle EXCEPT !.phase = p].op = "none" /\ Idle.op = "none"
         /\ [Idle EXCEPT !.phase = p].phase = p /\ Idle.phase = "idle"
         /\ [Idle EXCEPT !.phase = p].expected = 0 /\ Idle.expected = 0
         /\ [Idle EXCEPT !.phase = p].seen = 0 /\ Idle.seen = 0
         /\ [Idle EXCEPT !.phase = p].seenApplied = 0 /\ Idle.seenApplied = 0
BY DEF Idle, Request, Phases

\* Nothing is saved at first, and the invariant holds.
LEMMA InitInv == Init => IndInv
<1> SUFFICES ASSUME Init PROVE IndInv
  OBVIOUS
<1>1. /\ current \in Current /\ current.version = 0 /\ current.value = NoValue
      /\ history = {} /\ applied = 0 /\ audit = {} /\ everApplied = {}
      /\ 1..0 = {}
  BY DEF Init, NoRow, Current
<1>2. /\ "idle" \in Phases /\ Idle \in Request
      /\ request \in [Requests -> Request] /\ \A r \in Requests : request[r] = Idle
  BY IdleType DEF Init, Phases
<1>3. TypeOK
  BY <1>1, <1>2 DEF TypeOK
<1>4. HistoryIsComplete /\ RollbackRestores /\ AuditTellsHistory
  BY <1>1 DEF HistoryIsComplete, RollbackRestores, AuditTellsHistory
<1>5. AppliedOK
  BY <1>1 DEF AppliedOK
<1>6. OneHolder /\ \A r \in Requests : SavingOK(r) /\ HolderOK(r) /\ CallOK(r)
  <2>1. /\ Idle.phase = "idle" /\ Idle.op = "none" /\ Idle.expected = 0
        /\ Idle.seen = 0 /\ Idle.seenApplied = 0
    BY DEF Idle
  <2> QED
    BY <1>1, <1>2, <2>1 DEF OneHolder, SavingOK, Saving, HolderOK, CallOK, Operations
<1> QED
  BY <1>1, <1>3, <1>4, <1>5, <1>6 DEF IndInv

\* A step of one call that leaves the tables alone; it may become the holder of the row
\* only when nobody holds it.
LEMMA CallStep ==
  ASSUME IndInv, NEW r \in Requests, NEW q \in Request, Goto(r, q),
         q.phase = "committing" => ~RowLocked,
         SavingOK(r)', HolderOK(r)', CallOK(r)'
  PROVE  IndInv'
<1>1. /\ UNCHANGED <<current, history, applied, audit, everApplied>>
      /\ request' \in [Requests -> Request]
      /\ request'[r] = q
      /\ \A s \in Requests \ {r} : request'[s] = request[s]
  BY DEF Goto, stored, IndInv, TypeOK
<1>2. TypeOK'
  BY <1>1 DEF TypeOK, IndInv
<1>3. HistoryIsComplete' /\ RollbackRestores' /\ AppliedOK'
  BY <1>1 DEF IndInv, HistoryIsComplete, RollbackRestores, AppliedOK
<1>4. OneHolder'
  BY <1>1 DEF IndInv, OneHolder, RowLocked
<1>5. Foresight \/ AuditTellsHistory'
  BY <1>1 DEF IndInv, AuditTellsHistory
<1>6. ASSUME NEW s \in Requests PROVE SavingOK(s)' /\ HolderOK(s)' /\ CallOK(s)'
  <2>1. CASE s = r
    BY <2>1
  <2>2. CASE s # r
    BY <1>1, <2>2 DEF IndInv, SavingOK, HolderOK, CallOK
  <2> QED
    BY <2>1, <2>2
<1> QED
  BY <1>1, <1>2, <1>3, <1>4, <1>5, <1>6 DEF IndInv

\* A call that ends, answered or not, without having written.
LEMMA EndStep ==
  ASSUME IndInv, NEW r \in Requests, NEW q \in {Idle, [Idle EXCEPT !.phase = "refused"]},
         Goto(r, q)
  PROVE  IndInv'
<1>1. /\ q \in Request /\ q.op = "none" /\ q.phase \in {"idle", "refused"}
      /\ q.expected = 0 /\ q.seen = 0 /\ q.seenApplied = 0
  BY DEF Idle, Request, Phases, Answers
<1>2. request'[r] = q /\ current' = current /\ everApplied' = everApplied /\ current.version \in Nat
  BY DEF Goto, stored, IndInv, TypeOK, Current
<1>3. SavingOK(r)' /\ HolderOK(r)' /\ CallOK(r)'
  BY <1>1, <1>2 DEF SavingOK, Saving, HolderOK, CallOK, Operations
<1> QED
  BY <1>1, <1>3, CallStep

\* A call starts with a version its caller may name.
LEMMA CallInv == ASSUME IndInv, NEW r \in Requests, Call(r) PROVE IndInv'
<1>1. /\ current.version \in Nat /\ NoValue \in Values \union {NoValue}
      /\ request \in [Requests -> Request]
  BY DEF IndInv, TypeOK, Current
<1>2. ASSUME NEW v \in Values, NEW n \in 0..MaxVersion, Write(r, v, n) PROVE IndInv'
  <2> DEFINE q == [Idle EXCEPT !.op = "write", !.phase = "reading-before",
                               !.value = v, !.expected = n]
  <2>0. n \in Nat
    OBVIOUS
  <2>1. /\ q \in Request /\ q.op = "write" /\ q.phase = "reading-before" /\ q.value = v
        /\ q.expected = n /\ q.seen = 0 /\ q.seenApplied = 0
    BY <2>0 DEF Idle, Request, Phases, Reads, Operations
  <2>2. Goto(r, q) /\ (~Foresight => n <= current.version)
    BY <1>2 DEF Write, Begin, Known
  <2> HIDE DEF q
  <2>3. request'[r] = q /\ UNCHANGED <<current, history, everApplied>>
    BY <1>1, <2>2 DEF Goto, stored
  <2>4. SavingOK(r)' /\ HolderOK(r)' /\ CallOK(r)'
    BY <1>1, <2>1, <2>2, <2>3 DEF SavingOK, Saving, HolderOK, CallOK, Operations
  <2> QED
    BY <2>1, <2>2, <2>4, CallStep
<1>3. ASSUME NEW t \in 1..MaxVersion, NEW n \in 0..MaxVersion, Rollback(r, t, n) PROVE IndInv'
  <2> DEFINE q == [Idle EXCEPT !.op = "rollback", !.phase = "reading-target",
                               !.target = t, !.expected = n]
  <2>0. n \in Nat /\ t \in Nat
    OBVIOUS
  <2>1. /\ q \in Request /\ q.op = "rollback" /\ q.phase = "reading-target"
        /\ q.expected = n /\ q.seen = 0 /\ q.seenApplied = 0
    BY <2>0 DEF Idle, Request, Phases, Reads, Operations
  <2>2. Goto(r, q) /\ (~Foresight => n <= current.version)
    BY <1>3 DEF Rollback, Begin, Known
  <2> HIDE DEF q
  <2>3. request'[r] = q /\ UNCHANGED <<current, history, everApplied>>
    BY <1>1, <2>2 DEF Goto, stored
  <2>4. SavingOK(r)' /\ HolderOK(r)' /\ CallOK(r)'
    BY <1>1, <2>1, <2>2, <2>3 DEF SavingOK, Saving, HolderOK, CallOK, Operations
  <2> QED
    BY <2>1, <2>2, <2>4, CallStep
<1>4. ASSUME NEW n \in 0..MaxVersion, MarkApplied(r, n) PROVE IndInv'
  <2> DEFINE q == [Idle EXCEPT !.op = "mark-applied", !.phase = "marking", !.expected = n]
  <2>0. n \in Nat
    OBVIOUS
  <2>1. /\ q \in Request /\ q.op = "mark-applied" /\ q.phase = "marking"
        /\ q.expected = n /\ q.seen = 0 /\ q.seenApplied = 0
    BY <2>0 DEF Idle, Request, Phases
  <2>2. Goto(r, q) /\ (~Foresight => n <= current.version)
    BY <1>4 DEF MarkApplied, Begin, Known
  <2> HIDE DEF q
  <2>3. request'[r] = q /\ UNCHANGED <<current, history, everApplied>>
    BY <1>1, <2>2 DEF Goto, stored
  <2>4. SavingOK(r)' /\ HolderOK(r)' /\ CallOK(r)'
    BY <1>1, <2>1, <2>2, <2>3 DEF SavingOK, Saving, HolderOK, CallOK, Operations
  <2> QED
    BY <2>1, <2>2, <2>4, CallStep
<1>5. ASSUME Diagnose(r) PROVE IndInv'
  <2> DEFINE q == [Idle EXCEPT !.op = "diagnostic", !.phase = "reading-saved"]
  <2>1. /\ q \in Request /\ q.op = "diagnostic" /\ q.phase = "reading-saved"
        /\ q.expected = 0 /\ q.seen = 0 /\ q.seenApplied = 0
    BY DEF Idle, Request, Phases, Reads
  <2>2. Goto(r, q)
    BY <1>5 DEF Diagnose, Begin
  <2> HIDE DEF q
  <2>3. request'[r] = q /\ UNCHANGED <<current, history, everApplied>>
    BY <1>1, <2>2 DEF Goto, stored
  <2>4. SavingOK(r)' /\ HolderOK(r)' /\ CallOK(r)'
    BY <1>1, <2>1, <2>3 DEF SavingOK, Saving, HolderOK, CallOK, Operations
  <2> QED
    BY <2>1, <2>2, <2>4, CallStep
<1> QED
  BY <1>2, <1>3, <1>4, <1>5 DEF Call

\* A rollback has read the value of its target, or is refused.
LEMMA ReadTargetInv == ASSUME IndInv, NEW r \in Requests, ReadTarget(r) PROVE IndInv'
<1>1. /\ current.version \in Nat /\ request[r] \in Request /\ request[r].phase = "reading-target"
      /\ request \in [Requests -> Request] /\ history \subseteq Entry
      /\ CallOK(r)
  BY DEF IndInv, TypeOK, Current, ReadTarget
<1>2. ASSUME NEW e \in history, e.version = request[r].target,
             Goto(r, [request[r] EXCEPT !.phase = "reading-before", !.value = e.value])
      PROVE  IndInv'
  <2> DEFINE q == [request[r] EXCEPT !.phase = "reading-before", !.value = e.value]
  <2>1. e.value \in Values
    BY <1>1 DEF Entry
  <2>2. /\ q \in Request /\ q.op = request[r].op /\ q.phase = "reading-before"
        /\ q.value = e.value /\ q.target = e.version
        /\ q.expected = request[r].expected /\ q.seen = request[r].seen
        /\ q.seenApplied = request[r].seenApplied
    BY <1>1, <1>2, <2>1 DEF Request, Phases, Reads
  <2> HIDE DEF q
  <2>3. request'[r] = q /\ UNCHANGED <<current, history, everApplied>>
    BY <1>1, <1>2 DEF Goto, stored, q
  <2>4. SavingOK(r)' /\ HolderOK(r)' /\ CallOK(r)'
    BY <1>1, <2>1, <2>2, <2>3 DEF SavingOK, Saving, HolderOK, CallOK, Operations
  <2> QED
    BY <1>2, <2>2, <2>4, CallStep DEF q
<1>3. ASSUME Goto(r, [Idle EXCEPT !.phase = "refused"]) PROVE IndInv'
  BY <1>3, EndStep
<1> QED
  BY <1>2, <1>3 DEF ReadTarget

\* The value read is the current one if the expected version still is.
LEMMA ReadBeforeInv == ASSUME IndInv, NEW r \in Requests, ReadBefore(r) PROVE IndInv'
<1> DEFINE q == [request[r] EXCEPT !.phase = "writing", !.before = current.value]
<1>1. /\ current.version \in Nat /\ request[r] \in Request /\ request[r].phase = "reading-before"
      /\ request \in [Requests -> Request] /\ current.value \in Values \union {NoValue}
      /\ CallOK(r) /\ SavingOK(r) /\ Goto(r, q)
  BY DEF IndInv, TypeOK, Current, ReadBefore
<1>2. /\ q \in Request /\ q.op = request[r].op /\ q.phase = "writing"
      /\ q.value = request[r].value /\ q.target = request[r].target
      /\ q.before = current.value
      /\ q.expected = request[r].expected /\ q.seen = request[r].seen
      /\ q.seenApplied = request[r].seenApplied
  BY <1>1 DEF Request, Phases
<1> HIDE DEF q
<1>3. request'[r] = q /\ UNCHANGED <<current, history, everApplied>>
  BY <1>1 DEF Goto, stored
<1>4. SavingOK(r)' /\ HolderOK(r)' /\ CallOK(r)'
  BY <1>1, <1>2, <1>3 DEF SavingOK, Saving, HolderOK, CallOK, Operations
<1> QED
  BY <1>1, <1>2, <1>4, CallStep

\* A call that matches the version becomes the only holder of the row.
LEMMA HoldStep ==
  ASSUME IndInv, NEW r \in Requests, ~RowLocked,
         request[r].phase \in {"writing", "marking"},
         request[r].phase = "marking" => current.version > 0,
         VersionMatches(request[r]), Goto(r, [request[r] EXCEPT !.phase = "committing"])
  PROVE  IndInv'
<1> DEFINE q == [request[r] EXCEPT !.phase = "committing"]
<1>1. /\ current.version \in Nat /\ request[r] \in Request
      /\ request \in [Requests -> Request]
      /\ CallOK(r) /\ SavingOK(r) /\ Goto(r, q)
  BY DEF IndInv, TypeOK, Current
<1>2. /\ q \in Request /\ q.op = request[r].op /\ q.phase = "committing"
      /\ q.value = request[r].value /\ q.target = request[r].target
      /\ q.before = request[r].before
      /\ q.expected = request[r].expected /\ q.seen = request[r].seen
      /\ q.seenApplied = request[r].seenApplied
  BY <1>1 DEF Request, Phases
<1> HIDE DEF q
<1>3. request'[r] = q /\ UNCHANGED <<current, history, everApplied>>
  BY <1>1 DEF Goto, stored
<1>4. SavingOK(r)' /\ HolderOK(r)' /\ CallOK(r)'
  BY <1>1, <1>2, <1>3 DEF SavingOK, Saving, HolderOK, CallOK, Operations, VersionMatches
<1> QED
  BY <1>1, <1>2, <1>4, CallStep

\* A write that lost answers the version it lost to.
LEMMA LoseStep ==
  ASSUME IndInv, NEW r \in Requests, NEW q \in Request, Goto(r, q),
         q.phase \in {"reading-conflict", "conflict"},
         q.expected = 0, q.seen \in {0, current.version}, q.seenApplied = 0
  PROVE  IndInv'
<1>1. /\ current.version \in Nat /\ request \in [Requests -> Request]
  BY DEF IndInv, TypeOK, Current
<1>2. request'[r] = q /\ UNCHANGED <<current, history, everApplied>>
  BY <1>1 DEF Goto, stored
<1>3. SavingOK(r)' /\ HolderOK(r)' /\ CallOK(r)'
  BY <1>1, <1>2 DEF SavingOK, Saving, HolderOK, CallOK
<1> QED
  BY <1>3, CallStep

\* The statement that compares the version takes the row or loses.
LEMMA CompareAndWriteInv ==
  ASSUME IndInv, NEW r \in Requests, CompareAndWrite(r)
  PROVE  IndInv'
<1>1. /\ request[r].phase = "writing" /\ request[r].op \in Operations
      /\ VersionMatches(request[r]) => ~RowLocked
  BY DEF IndInv, CompareAndWrite, CallOK, Waits
<1>2. CASE VersionMatches(request[r])
  BY <1>1, <1>2, HoldStep DEF CompareAndWrite
<1>3. CASE ~VersionMatches(request[r])
  <2> DEFINE q == [Idle EXCEPT !.op = request[r].op, !.phase = "reading-conflict"]
  <2>1. /\ q \in Request /\ q.phase = "reading-conflict" /\ q.expected = 0 /\ q.seen = 0
        /\ q.seenApplied = 0
    BY <1>1 DEF Idle, Request, Phases, Reads, Operations
  <2>2. Goto(r, q)
    BY <1>3 DEF CompareAndWrite
  <2> HIDE DEF q
  <2> QED
    BY <2>1, <2>2, LoseStep
<1> QED
  BY <1>2, <1>3

\* The version read after a conflict is a version the setting had.
LEMMA ReadConflictInv == ASSUME IndInv, NEW r \in Requests, ReadConflict(r) PROVE IndInv'
<1> DEFINE q == [Idle EXCEPT !.phase = "conflict", !.seen = current.version]
<1>1. /\ q \in Request /\ q.phase = "conflict" /\ q.expected = 0 /\ q.seen = current.version
      /\ q.seenApplied = 0
  <2>1. current.version \in Nat
    BY DEF IndInv, TypeOK, Current
  <2> QED
    BY <2>1 DEF Idle, Request, Phases, Answers
<1>2. Goto(r, q)
  BY DEF ReadConflict
<1> HIDE DEF q
<1> QED
  BY <1>1, <1>2, LoseStep

\* markApplied takes the row it compared, or is refused.
LEMMA SelectForUpdateInv ==
  ASSUME IndInv, NEW r \in Requests, SelectForUpdate(r)
  PROVE  IndInv'
<1>1. CASE current.version > 0 /\ VersionMatches(request[r])
  BY <1>1, HoldStep DEF SelectForUpdate
<1>2. CASE ~(current.version > 0 /\ VersionMatches(request[r]))
  BY <1>2, EndStep DEF SelectForUpdate
<1> QED
  BY <1>1, <1>2

\* diagnostic has seen a version that was saved, then one that was applied.
LEMMA DiagnosticInv ==
  ASSUME IndInv, NEW r \in Requests, ReadSaved(r) \/ ReadApplied(r)
  PROVE  IndInv'
<1>1. /\ current.version \in Nat /\ request[r] \in Request /\ applied \in Nat
      /\ request \in [Requests -> Request] /\ CallOK(r) /\ AppliedOK
  BY DEF IndInv, TypeOK, Current
<1>2. PICK p \in {"reading-applied", "reported"}, n \in Nat, a \in Nat :
        /\ Goto(r, [request[r] EXCEPT !.phase = p, !.seen = n, !.seenApplied = a])
        /\ n <= current.version /\ a \in everApplied \union {0}
  <2>1. CASE ReadSaved(r)
    <3>1. [request[r] EXCEPT !.phase = "reading-applied", !.seen = current.version] =
            [request[r] EXCEPT !.phase = "reading-applied", !.seen = current.version,
                               !.seenApplied = request[r].seenApplied]
      BY <1>1 DEF Request
    <3>2. request[r].seenApplied \in Nat /\ request[r].seenApplied \in everApplied \union {0}
      BY <1>1 DEF Request, CallOK
    <3>3. Goto(r, [request[r] EXCEPT !.phase = "reading-applied", !.seen = current.version,
                                     !.seenApplied = request[r].seenApplied])
      BY <2>1, <3>1 DEF ReadSaved
    <3>4. current.version <= current.version
      BY <1>1
    <3> QED
      BY <1>1, <3>2, <3>3, <3>4
  <2>2. CASE ReadApplied(r)
    <3>1. [request[r] EXCEPT !.phase = "reported", !.seenApplied = applied] =
            [request[r] EXCEPT !.phase = "reported", !.seen = request[r].seen,
                               !.seenApplied = applied]
      BY <1>1 DEF Request
    <3>2. request[r].seen \in Nat /\ request[r].seen <= current.version
      BY <1>1 DEF Request, CallOK
    <3> QED
      BY <1>1, <2>2, <3>1, <3>2 DEF ReadApplied, AppliedOK
  <2> QED
    BY <2>1, <2>2
<1> DEFINE q == [request[r] EXCEPT !.phase = p, !.seen = n, !.seenApplied = a]
<1>3. /\ q \in Request /\ q.phase = p /\ q.seen = n /\ q.seenApplied = a
      /\ q.expected = request[r].expected
  BY <1>1, <1>2 DEF Request, Phases, Reads, Answers
<1> HIDE DEF q
<1>4. request'[r] = q /\ UNCHANGED <<current, history, everApplied>>
  BY <1>1, <1>2 DEF Goto, stored, q
<1>5. SavingOK(r)' /\ HolderOK(r)' /\ CallOK(r)'
  BY <1>1, <1>2, <1>3, <1>4 DEF SavingOK, Saving, HolderOK, CallOK
<1> QED
  BY <1>2, <1>3, <1>5, CallStep DEF q

\* A transaction that commits: every other call keeps what it knows.
LEMMA OthersKeep ==
  ASSUME IndInv, NEW r \in Requests, NEW heard \in BOOLEAN,
         CommitWrite(r, heard) \/ CommitApplied(r, heard)
  PROVE  /\ request' \in [Requests -> Request]
         /\ OneHolder'
         /\ \A s \in Requests : SavingOK(s)' /\ HolderOK(s)' /\ CallOK(s)'
<1> DEFINE q == request'[r]
<1>1. /\ current.version \in Nat /\ request \in [Requests -> Request]
      /\ request[r].phase = "committing" /\ OneHolder
      /\ \A s \in Requests : SavingOK(s) /\ HolderOK(s) /\ CallOK(s) /\ request[s] \in Request
  BY DEF IndInv, TypeOK, Current, CommitWrite, CommitApplied
<1>2. /\ history \subseteq history' /\ everApplied \subseteq everApplied'
      /\ \/ current' = current
         \/ current'.version = current.version + 1
  BY DEF CommitWrite, CommitApplied
<1>3. /\ q \in Request /\ q.phase \in {"written", "applied", "idle"} /\ q.op = "none"
      /\ q.expected = 0 /\ q.seen = 0 /\ q.seenApplied = 0
      /\ request' = [request EXCEPT ![r] = q]
  <2>1. PICK p \in {"written", "applied"} :
          request' = [request EXCEPT ![r] = IF heard THEN [Idle EXCEPT !.phase = p] ELSE Idle]
    BY DEF CommitWrite, CommitApplied, Answer
  <2>2. q \in {[Idle EXCEPT !.phase = p], Idle} /\ request' = [request EXCEPT ![r] = q]
    BY <1>1, <2>1
  <2> HIDE DEF q
  <2> QED
    BY <2>2 DEF Idle, Request, Phases, Answers
<1> HIDE DEF q
<1>4. request'[r] = q /\ \A s \in Requests \ {r} : request'[s] = request[s]
  BY <1>1, <1>3
<1>5. OneHolder'
  BY <1>1, <1>3, <1>4 DEF OneHolder
<1>6. ASSUME NEW s \in Requests PROVE SavingOK(s)' /\ HolderOK(s)' /\ CallOK(s)'
  <2>1. CASE s = r
    BY <1>1, <1>2, <1>3, <1>4, <2>1 DEF SavingOK, Saving, HolderOK, CallOK, Operations
  <2>2. CASE s # r
    <3>1. request'[s] = request[s] /\ request[s].phase # "committing"
      BY <1>1, <1>4, <2>2 DEF OneHolder
    <3>2. /\ request[s].expected \in Nat /\ request[s].seen \in Nat
          /\ SavingOK(s) /\ CallOK(s)
      BY <1>1 DEF Request
    <3>3. HolderOK(s)'
      BY <3>1 DEF HolderOK
    <3>4. CallOK(s)'
      BY <1>1, <1>2, <3>1, <3>2 DEF CallOK
    <3>5. SavingOK(s)'
      <4>1. ~Foresight /\ request[s].expected = current'.version => current' = current
        BY <1>1, <1>2, <3>2 DEF CallOK
      <4> QED
        BY <1>2, <3>1, <3>2, <4>1 DEF SavingOK, Saving
    <3> QED
      BY <3>3, <3>4, <3>5
  <2> QED
    BY <2>1, <2>2
<1> QED
  BY <1>1, <1>3, <1>5, <1>6

\* A version applied is the version the row held for it still has.
LEMMA CommitAppliedInv ==
  ASSUME IndInv, NEW r \in Requests, NEW heard \in BOOLEAN, CommitApplied(r, heard)
  PROVE  IndInv'
<1>1. /\ current.version \in Nat /\ current.version > 0 /\ TypeOK
      /\ applied' = current.version /\ everApplied' = everApplied \union {current.version}
      /\ current' = current /\ history' = history
      /\ audit' = audit \union {[action |-> "applied", version |-> current.version,
                                 before |-> NoValue, after |-> NoValue]}
  <2>1. /\ request[r].expected = current.version
        /\ request[r].op = "mark-applied" /\ request[r].op \notin Operations
    BY DEF IndInv, HolderOK, CommitApplied, Operations
  <2> QED
    BY <2>1 DEF IndInv, TypeOK, Current, CommitApplied, HolderOK
<1>2. TypeOK'
  <2>1. audit' \subseteq Record
    BY <1>1 DEF TypeOK, Record
  <2> QED
    BY <1>1, <2>1, OthersKeep DEF TypeOK
<1>3. HistoryIsComplete' /\ RollbackRestores' /\ AppliedOK'
  BY <1>1 DEF IndInv, HistoryIsComplete, RollbackRestores, AppliedOK
<1>4. Foresight \/ AuditTellsHistory'
  <2>1. {a \in audit' : a.action \in Operations} = {a \in audit : a.action \in Operations}
    BY <1>1 DEF Operations
  <2> QED
    BY <1>1, <2>1 DEF IndInv, AuditTellsHistory
<1> QED
  BY <1>1, <1>2, <1>3, <1>4, OthersKeep DEF IndInv

\* A commit adds the next version to the row, the history and the audit trail at once.
LEMMA CommitWriteInv ==
  ASSUME IndInv, NEW r \in Requests, NEW heard \in BOOLEAN, CommitWrite(r, heard)
  PROVE  IndInv'
<1> DEFINE q == request[r]
           n == current.version
<1>1. /\ TypeOK /\ n \in Nat /\ q \in Request /\ q.value \in Values /\ q.op \in Operations
      /\ q.expected = n /\ HistoryIsComplete /\ RollbackRestores /\ AppliedOK
      /\ current.value = NoValue <=> n = 0
      /\ ~Foresight => q.before = current.value
      /\ q.op = "rollback" => \E e \in history : e.version = q.target /\ e.value = q.value
      /\ q.target \in Nat /\ q.before \in Values \union {NoValue}
  <2>1. /\ TypeOK /\ n \in Nat /\ q \in Request /\ q.phase = "committing" /\ q.op \in Operations
        /\ SavingOK(r) /\ HolderOK(r) /\ HistoryIsComplete /\ RollbackRestores /\ AppliedOK
        /\ current.value = NoValue <=> n = 0
    BY DEF IndInv, TypeOK, Current, CommitWrite
  <2> QED
    BY <2>1 DEF SavingOK, Saving, HolderOK, Request
<1>2. PICK m \in Nat : m = n + 1
  BY <1>1
<1> DEFINE e == [version |-> m, value |-> q.value, operation |-> q.op, from |-> q.target]
           a == [action |-> q.op, version |-> m, before |-> q.before, after |-> q.value]
<1>3. /\ current' = [version |-> m, value |-> q.value]
      /\ history' = history \union {e}
      /\ applied' = (IF Hot THEN m ELSE applied)
      /\ everApplied' = everApplied \union {IF Hot THEN m ELSE applied}
      /\ audit' = audit \union {a}
  BY <1>2 DEF CommitWrite, NewEntry, AppliedAfter
<1>4. /\ e \in Entry /\ e.version = m /\ e.value = q.value /\ e.operation = q.op
      /\ e.from = q.target
  BY <1>1 DEF Entry
<1>5. a \in Record /\ a.action = q.op /\ a.version = m /\ a.before = q.before /\ a.after = q.value
  BY <1>1 DEF Record
<1>6. current'.version = m /\ current'.value = q.value /\ current' \in Current
  BY <1>1, <1>3 DEF Current
<1> HIDE DEF e, a
<1>7. TypeOK'
  BY <1>1, <1>3, <1>4, <1>5, <1>6, OthersKeep DEF TypeOK
<1>8. \A d \in history : d.version \in 1..n
  BY <1>1 DEF HistoryIsComplete
<1>9. HistoryIsComplete'
  <2>1. {d.version : d \in history'} = 1..m
    <3>1. {d.version : d \in history'} = (1..n) \union {m}
      BY <1>1, <1>3, <1>4 DEF HistoryIsComplete
    <3> QED
      BY <1>1, <1>2, <3>1
  <2>2. \A d \in history : d.version # m
    BY <1>1, <1>2, <1>8
  <2>3. \A c, d \in history' : c.version = d.version => c = d
    BY <1>1, <1>3, <1>4, <2>2 DEF HistoryIsComplete
  <2>4. \A d \in history' : d.version = m => d.value = q.value
    BY <1>3, <1>4, <2>2
  <2> QED
    BY <1>6, <2>1, <2>3, <2>4 DEF HistoryIsComplete
<1>10. RollbackRestores'
  <2>1. ASSUME NEW c \in history', c.operation = "rollback"
        PROVE \E d \in history' : d.version = c.from /\ d.version < c.version /\ d.value = c.value
    <3>1. CASE c \in history
      BY <1>1, <1>3, <2>1, <3>1 DEF RollbackRestores
    <3>2. CASE c = e
      <4>1. PICK d \in history : d.version = q.target /\ d.value = q.value
        BY <1>1, <1>4, <2>1, <3>2
      <4>2. d.version < m
        BY <1>1, <1>2, <1>8
      <4> QED
        BY <1>3, <1>4, <3>2, <4>1, <4>2
    <3> QED
      BY <1>3, <3>1, <3>2
  <2> QED
    BY <2>1 DEF RollbackRestores
<1>11. AppliedOK'
  <2>1. 1..m = (1..n) \union {m}
    BY <1>1, <1>2
  <2>2. applied \in Nat /\ applied <= n /\ applied \in everApplied \union {0}
    BY <1>1 DEF TypeOK, AppliedOK
  <2>3. applied' <= m
    BY <1>1, <1>2, <1>3, <2>2
  <2> QED
    BY <1>1, <1>3, <1>6, <2>1, <2>2, <2>3 DEF AppliedOK
<1>12. ASSUME ~Foresight PROVE AuditTellsHistory'
  <2> DEFINE changes == {b \in audit : b.action \in Operations}
  <2>1. /\ {b.version : b \in changes} = 1..n
        /\ \A b \in changes, d \in history :
             /\ b.version = d.version => b.action = d.operation /\ b.after = d.value
             /\ b.version = d.version + 1 => b.before = d.value
        /\ \A b \in changes : b.version = 1 => b.before = NoValue
    BY <1>12 DEF IndInv, AuditTellsHistory
  <2>2. {b \in audit' : b.action \in Operations} = changes \union {a}
    BY <1>1, <1>3, <1>5
  <2> HIDE DEF changes
  <2>3. {b.version : b \in changes \union {a}} = 1..m
    <3>1. {b.version : b \in changes \union {a}} = (1..n) \union {m}
      BY <1>5, <2>1
    <3> QED
      BY <1>1, <1>2, <3>1
  <2>4. \A b \in changes : b.version \in 1..n
    BY <2>1
  <2>5. ASSUME NEW b \in changes \union {a}, NEW d \in history'
        PROVE  /\ b.version = d.version => b.action = d.operation /\ b.after = d.value
               /\ b.version = d.version + 1 => b.before = d.value
    <3>1. CASE b \in changes /\ d \in history
      BY <2>1, <3>1
    <3>2. CASE b \in changes /\ d = e
      <4>1. b.version \in 1..n /\ d.version = m
        BY <1>4, <2>4, <3>2
      <4> QED
        BY <1>1, <1>2, <4>1
    <3>3. CASE b = a /\ d \in history
      <4>1. d.version \in 1..n /\ b.version = m /\ b.before = current.value
        BY <1>1, <1>5, <1>8, <1>12, <3>3
      <4>2. d.version = n => d.value = current.value
        BY <1>1, <3>3 DEF HistoryIsComplete
      <4> QED
        BY <1>1, <1>2, <4>1, <4>2
    <3>4. CASE b = a /\ d = e
      <4>1. b.version = m /\ d.version = m /\ b.action = d.operation /\ b.after = d.value
        BY <1>4, <1>5, <3>4
      <4> QED
        BY <4>1
    <3> QED
      BY <1>3, <2>5, <3>1, <3>2, <3>3, <3>4
  <2>6. ASSUME NEW b \in changes \union {a}, b.version = 1 PROVE b.before = NoValue
    <3>1. CASE b = a
      <4>1. n = 0
        BY <1>1, <1>2, <1>5, <2>6, <3>1
      <4> QED
        BY <1>1, <1>5, <1>12, <3>1, <4>1
    <3> QED
      BY <2>1, <2>6, <3>1
  <2> QED
    BY <1>6, <2>2, <2>3, <2>5, <2>6 DEF AuditTellsHistory
<1>13. current'.value = NoValue <=> current'.version = 0
  BY <1>1, <1>2, <1>6, SettingsAssumption
<1> QED
  BY <1>7, <1>9, <1>10, <1>11, <1>12, <1>13, OthersKeep DEF IndInv

\* Every step preserves the invariant.
LEMMA StepInv == ASSUME IndInv, [Next]_vars PROVE IndInv'
<1>1. ASSUME NEW r \in Requests, Call(r) PROVE IndInv'
  BY <1>1, CallInv
<1>2. ASSUME NEW r \in Requests, Read(r) PROVE IndInv'
  BY <1>2, ReadTargetInv, ReadBeforeInv, ReadConflictInv, DiagnosticInv DEF Read
<1>3. ASSUME NEW r \in Requests, CompareAndWrite(r) PROVE IndInv'
  BY <1>3, CompareAndWriteInv
<1>4. ASSUME NEW r \in Requests, SelectForUpdate(r) PROVE IndInv'
  BY <1>4, SelectForUpdateInv
<1>5. ASSUME NEW r \in Requests, Commit(r) PROVE IndInv'
  BY <1>5, CommitWriteInv, CommitAppliedInv DEF Commit
<1>6. ASSUME NEW r \in Requests, Abort(r) \/ Return(r) PROVE IndInv'
  BY <1>6, EndStep DEF Abort, Return
<1>7. CASE UNCHANGED vars
  BY <1>7 DEF vars, IndInv, TypeOK, HistoryIsComplete, RollbackRestores, AppliedOK, OneHolder,
              AuditTellsHistory, SavingOK, HolderOK, CallOK
<1> QED
  BY <1>1, <1>2, <1>3, <1>4, <1>5, <1>6, <1>7 DEF Next

\* The invariant holds in every reachable state, for any number of concurrent calls.
THEOREM Invariance == Spec => []IndInv
<1>1. IndInv /\ [Next]_vars => IndInv'
  BY StepInv
<1> QED
  BY InitInv, <1>1, PTL DEF Spec

\* Every variable has its type.
THEOREM TypeCorrect == Spec => []TypeOK
<1>1. IndInv => TypeOK
  BY DEF IndInv
<1> QED
  BY <1>1, Invariance, PTL

\* The history holds each version once, the last one being the value in force.
THEOREM HistoryComplete == Spec => []HistoryIsComplete
<1>1. IndInv => HistoryIsComplete
  BY DEF IndInv
<1> QED
  BY <1>1, Invariance, PTL

\* A rollback saves the value of the earlier version it names.
THEOREM RollbackIsExact == Spec => []RollbackRestores
<1>1. IndInv => RollbackRestores
  BY DEF IndInv
<1> QED
  BY <1>1, Invariance, PTL

\* If callers name only versions that exist, the audit trail tells the history.
THEOREM AuditIsTrue == ASSUME ~Foresight PROVE Spec => []AuditTellsHistory
<1>1. IndInv => AuditTellsHistory
  BY DEF IndInv
<1> QED
  BY <1>1, Invariance, PTL

\* A version reported as applied had been applied.
THEOREM ReportsAreHonest == Spec => []ReportIsHonest
<1>1. IndInv => ReportIsHonest
  <2> SUFFICES ASSUME IndInv, NEW r \in Requests, request[r].phase = "reported",
                      ApplicationStatus(request[r]) = "APPLIED"
               PROVE  request[r].seen \in everApplied
    BY DEF ReportIsHonest
  <2>1. /\ request[r].seen \in Nat /\ request[r].seen <= current.version
        /\ current.version \in Nat
        /\ request[r].seenApplied \in everApplied \union {0}
        /\ Hot => 1..current.version \subseteq everApplied
    BY DEF IndInv, TypeOK, Request, Current, CallOK, AppliedOK
  <2>2. request[r].seen # 0 /\ (request[r].seen = request[r].seenApplied \/ Hot)
    BY DEF ApplicationStatus
  <2> QED
    BY <2>1, <2>2
<1> QED
  BY <1>1, Invariance, PTL

\* What a step does to the tables: nothing, or one transaction by the holder of the row.
LEMMA Transactions ==
  ASSUME IndInv, [Next]_vars
  PROVE  \/ UNCHANGED stored
         \/ \E r \in Requests, heard \in BOOLEAN :
              /\ CommitWrite(r, heard)
              /\ request[r].expected = current.version /\ request[r].value \in Values
         \/ \E r \in Requests, heard \in BOOLEAN :
              /\ CommitApplied(r, heard)
              /\ request[r].expected = current.version /\ current.version > 0
<1>1. CASE \E r \in Requests : Commit(r)
  <2>1. PICK r \in Requests, heard \in BOOLEAN : CommitWrite(r, heard) \/ CommitApplied(r, heard)
    BY <1>1 DEF Commit
  <2>2. SavingOK(r) /\ HolderOK(r)
    BY DEF IndInv
  <2>3. CASE CommitWrite(r, heard)
    BY <2>2, <2>3 DEF CommitWrite, SavingOK, Saving, HolderOK
  <2>4. CASE CommitApplied(r, heard)
    BY <2>2, <2>4 DEF CommitApplied, HolderOK, Operations
  <2> QED
    BY <2>1, <2>3, <2>4
<1>2. CASE ~\E r \in Requests : Commit(r)
  BY <1>2 DEF Next, vars, stored, Call, Write, Rollback, MarkApplied, Diagnose, Begin, Goto, Read,
              ReadTarget, ReadBefore, ReadConflict, ReadSaved, ReadApplied, CompareAndWrite,
              SelectForUpdate, Abort, Return
<1> QED
  BY <1>1, <1>2

\* The row changes only by a call that expected its version.
THEOREM UpdatesAreKept == Spec => NoLostUpdate
<1>1. IndInv /\ [Next]_vars =>
        [current' # current => \E r \in Requests :
           request[r].phase = "committing" /\ request[r].expected = current.version]_vars
  <2> SUFFICES ASSUME IndInv, [Next]_vars, current' # current
               PROVE  \E r \in Requests :
                        request[r].phase = "committing" /\ request[r].expected = current.version
    OBVIOUS
  <2> QED
    BY Transactions DEF stored, CommitWrite, CommitApplied
<1> QED
  BY <1>1, Invariance, PTL DEF Spec, NoLostUpdate

\* The applied version only advances, to the version in force.
THEOREM AppliedAdvances == Spec => AppliedInOrder
<1>1. IndInv /\ [Next]_vars =>
        [applied' # applied => applied < applied' /\ applied' = current'.version]_vars
  <2> SUFFICES ASSUME IndInv, [Next]_vars, applied' # applied
               PROVE  applied < applied' /\ applied' = current'.version
    OBVIOUS
  <2>1. applied \in Nat /\ current.version \in Nat /\ applied <= current.version
    BY DEF IndInv, TypeOK, Current, AppliedOK
  <2>2. \/ applied' = current.version + 1 /\ current'.version = current.version + 1
        \/ applied' = current.version /\ current' = current
    BY Transactions DEF stored, CommitWrite, CommitApplied, AppliedAfter
  <2> QED
    BY <2>1, <2>2
<1> QED
  BY <1>1, Invariance, PTL DEF Spec, AppliedInOrder

-----------------------------------------------------------------------------
(* Refinement.                                                              *)

Log == [n \in 1..current.version |-> ValueAt(n)]

\* The history as a log: a commit leaves the old values in place and adds its own.
LEMMA LogGrows ==
  ASSUME IndInv, IndInv', NEW r \in Requests, NEW heard \in BOOLEAN, CommitWrite(r, heard)
  PROVE  Log' = [n \in 1..(current.version + 1) |->
                   IF n <= current.version THEN Log[n] ELSE request[r].value]
<1>1. /\ current.version \in Nat /\ current'.version = current.version + 1
      /\ current'.value = request[r].value
      /\ history \subseteq history' /\ HistoryIsComplete /\ HistoryIsComplete'
  BY DEF IndInv, TypeOK, Current, CommitWrite
<1>2. ASSUME NEW n \in 1..current.version PROVE ValueAt(n)' = ValueAt(n)
  <2>1. PICK e \in history : e.version = n
    BY <1>1 DEF HistoryIsComplete
  <2>2. \A d \in history : d.version = n => d = e
    BY <1>1, <2>1 DEF HistoryIsComplete
  <2>3. \A d \in history' : d.version = n => d = e
    BY <1>1, <2>1 DEF HistoryIsComplete
  <2>4. (CHOOSE d \in history : d.version = n) = e
    BY <2>1, <2>2
  <2>5. (CHOOSE d \in history' : d.version = n) = e
    BY <1>1, <2>1, <2>3
  <2> QED
    BY <2>4, <2>5 DEF ValueAt
<1>3. ASSUME NEW n, n = current.version + 1 PROVE ValueAt(n)' = request[r].value
  <2>1. PICK e \in history' : e.version = n
    BY <1>1, <1>3 DEF HistoryIsComplete
  <2>2. \A d \in history' : d.version = n => d.value = request[r].value
    BY <1>1, <1>3 DEF HistoryIsComplete
  <2> QED
    BY <2>1, <2>2 DEF ValueAt
<1>4. Log' = [n \in 1..(current.version + 1) |-> ValueAt(n)']
  BY <1>1 DEF Log
<1>5. ASSUME NEW n \in 1..(current.version + 1)
      PROVE  ValueAt(n)' = IF n <= current.version THEN Log[n] ELSE request[r].value
  BY <1>1, <1>2, <1>3 DEF Log
<1> QED
  BY <1>4, <1>5

\* The settings runtime implements its contract: every transaction is one of its steps.
THEOREM SettingsImplementContract == Spec => ImplementsContract
<1>1. Init => Contract!Init
  <2> SUFFICES ASSUME Init PROVE Contract!Init
    OBVIOUS
  <2>1. current.version = 0 /\ applied = 0 /\ 1..0 = {}
    BY DEF Init, NoRow
  <2>2. [n \in 1..current.version |-> ValueAt(n)] = [n \in {} |-> n]
    BY <2>1
  <2> QED
    BY <2>1, <2>2 DEF Contract!Init
<1>2. IndInv /\ IndInv' /\ [Next]_vars => [Contract!Next]_Contract!vars
  <2> SUFFICES ASSUME IndInv, IndInv', [Next]_vars PROVE [Contract!Next]_Contract!vars
    OBVIOUS
  <2>1. CASE UNCHANGED stored
    BY <2>1 DEF stored, Contract!vars, ValueAt
  <2>2. ASSUME NEW r \in Requests, NEW heard \in BOOLEAN, CommitWrite(r, heard),
               request[r].value \in Values
        PROVE  [Contract!Next]_Contract!vars
    <3>1. /\ current'.version = current.version + 1
          /\ applied' = IF Hot THEN current.version + 1 ELSE applied
      BY <2>2 DEF CommitWrite, AppliedAfter
    <3>2. Contract!Save(request[r].value)
      BY <2>2, <3>1, LogGrows DEF Contract!Save, Log
    <3> QED
      BY <2>2, <3>2 DEF Contract!Next
  <2>3. ASSUME NEW r \in Requests, NEW heard \in BOOLEAN, CommitApplied(r, heard),
               request[r].expected = current.version, current.version > 0
        PROVE  [Contract!Next]_Contract!vars
    <3>1. Contract!Apply
      BY <2>3 DEF Contract!Apply, CommitApplied, ValueAt
    <3> QED
      BY <3>1 DEF Contract!Next
  <2> QED
    BY <2>1, <2>2, <2>3, Transactions
<1> QED
  BY <1>1, <1>2, Invariance, PTL DEF Spec, ImplementsContract, Contract!Spec
=============================================================================
