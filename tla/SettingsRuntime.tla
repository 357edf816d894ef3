--------------------------- MODULE SettingsRuntime ---------------------------
(***************************************************************************)
(* One setting at one scope: its rows in runtime_setting_values, _history  *)
(* and _application, its audit records, and the concurrent calls of        *)
(* SettingsRuntimeService (packages/settings-runtime, service.ts) over     *)
(* PostgresSettingsValueStore (postgres-store.ts).                         *)
(*                                                                         *)
(* write, rollback and markApplied each run in one READ COMMITTED          *)
(* transaction.  Its reads are steps of their own; the statement that      *)
(* compares the version, or takes the row FOR UPDATE, holds the row until  *)
(* COMMIT, so the inserts between the two take effect at COMMIT.           *)
(* diagnostic reads twice, outside any transaction.                        *)
(***************************************************************************)
EXTENDS Integers

CONSTANTS Requests,     \* calls in progress at the same time
          Values,       \* values the resolver accepts; others are refused at once
          NoValue,
          Hot,          \* definition.runtimeBehavior = 'hot'
          Foresight,    \* TRUE: a caller may name a version before it exists
          MaxVersion    \* bound on the version of the setting

ASSUME SettingsAssumption ==
  /\ Hot \in BOOLEAN /\ Foresight \in BOOLEAN
  /\ MaxVersion \in Nat /\ NoValue \notin Values

VARIABLES current,      \* the committed value row; version 0 when there is none
          history,      \* the committed history rows
          applied,      \* the applied version, 0 when there is none
          audit,        \* the committed audit records of the setting
          request,      \* the locals of each call
          everApplied   \* history: the versions ever recorded as applied

stored == <<current, history, applied, audit, everApplied>>
vars == <<current, history, applied, audit, everApplied, request>>

Operations == {"write", "rollback"}
Current == [version : Nat, value : Values \union {NoValue}]
Entry == [version : Nat, value : Values, operation : Operations, from : Nat]
Record == [action : Operations \union {"applied"}, version : Nat,
           before : Values \union {NoValue}, after : Values \union {NoValue}]
Reads == {"reading-target", "reading-before", "reading-conflict",
          "reading-saved", "reading-applied"}
Answers == {"written", "conflict", "applied", "reported", "refused"}
Phases == {"idle", "writing", "marking", "committing"} \union Reads \union Answers

Request == [op : Operations \union {"mark-applied", "diagnostic", "none"}, phase : Phases,
            value : Values \union {NoValue},    \* the value to save
            expected : Nat,                     \* expectedVersion, or the version applied
            target : Nat,                       \* the version a rollback goes back to
            before : Values \union {NoValue},   \* the value it read before writing
            seen : Nat, seenApplied : Nat]      \* the versions it reports

NoRow == [version |-> 0, value |-> NoValue]
Idle == [op |-> "none", phase |-> "idle", value |-> NoValue, expected |-> 0, target |-> 0,
         before |-> NoValue, seen |-> 0, seenApplied |-> 0]

Init ==
  /\ current = NoRow
  /\ history = {}
  /\ applied = 0
  /\ audit = {}
  /\ request = [r \in Requests |-> Idle]
  /\ everApplied = {}

Goto(r, q) == request' = [request EXCEPT ![r] = q] /\ UNCHANGED stored

-----------------------------------------------------------------------------
(* The calls.  A caller learns a version from an answer, hence after it was *)
(* committed, unless it guesses.                                           *)

Known(n) == n <= (IF Foresight THEN MaxVersion ELSE current.version)

Begin(r, q) == request[r].phase = "idle" /\ Goto(r, q)

Write(r, v, expected) ==
  /\ Known(expected)
  /\ Begin(r, [Idle EXCEPT !.op = "write", !.phase = "reading-before",
                           !.value = v, !.expected = expected])

Rollback(r, target, expected) ==
  /\ Known(expected)
  /\ Begin(r, [Idle EXCEPT !.op = "rollback", !.phase = "reading-target",
                           !.target = target, !.expected = expected])

MarkApplied(r, version) ==
  /\ Known(version)
  /\ Begin(r, [Idle EXCEPT !.op = "mark-applied", !.phase = "marking",
                           !.expected = version])

Diagnose(r) ==
  Begin(r, [Idle EXCEPT !.op = "diagnostic", !.phase = "reading-saved"])

-----------------------------------------------------------------------------
(* write and rollback.                                                     *)

ReadTargetOrCurrent(r) ==   \* mutant: a missing target falls back to the current value
  LET q == request[r]
      at == {e \in history : e.version = q.target}
  IN
  /\ q.phase = "reading-target"
  /\ \E v \in IF at = {} THEN {current.value} ELSE {e.value : e \in at} :
       Goto(r, [q EXCEPT !.phase = "reading-before", !.value = v])

\* findHistoryVersion.
ReadTarget(r) ==
  LET q == request[r] IN
  /\ q.phase = "reading-target"
  /\ \/ \E e \in history :
          /\ e.version = q.target
          /\ Goto(r, [q EXCEPT !.phase = "reading-before", !.value = e.value])
     \/ /\ \A e \in history : e.version # q.target
        /\ Goto(r, [Idle EXCEPT !.phase = "refused"])

\* findCurrent, for the audit record.
ReadBefore(r) ==
  /\ request[r].phase = "reading-before"
  /\ Goto(r, [request[r] EXCEPT !.phase = "writing", !.before = current.value])

RowLocked == \E v \in Requests : request[v].phase = "committing"

AnyVersion(q) == TRUE   \* mutant: the UPDATE does not compare the version

VersionMatches(q) == current.version = q.expected

\* An INSERT waits for an uncommitted INSERT of the row, an UPDATE for the holder of
\* the row if it would update it; any other sees at once that it has lost.
Waits(q) == RowLocked /\ VersionMatches(q)

CompareAndWrite(r) ==
  LET q == request[r] IN
  /\ q.phase = "writing"
  /\ ~Waits(q)
  /\ VersionMatches(q) => current.version < MaxVersion
  /\ Goto(r, IF VersionMatches(q) THEN [q EXCEPT !.phase = "committing"]
             ELSE [Idle EXCEPT !.op = q.op, !.phase = "reading-conflict"])

\* The version reported with a conflict is read by a statement of its own.
ReadConflict(r) ==
  /\ request[r].phase = "reading-conflict"
  /\ Goto(r, [Idle EXCEPT !.phase = "conflict", !.seen = current.version])

NewEntry(q) == [version |-> current.version + 1, value |-> q.value,
                operation |-> q.op, from |-> q.target]

Answer(r, phase, heard) ==
  request' = [request EXCEPT ![r] = IF heard THEN [Idle EXCEPT !.phase = phase] ELSE Idle]

AppliedAfter(q) == IF Hot THEN current.version + 1 ELSE applied

\* The history row, the applied version of a hot setting, the audit record, COMMIT.
\* The reply to COMMIT may be lost after it took effect.
CommitWrite(r, heard) ==
  LET q == request[r] IN
  /\ q.phase = "committing" /\ q.op \in Operations
  /\ current' = [version |-> current.version + 1, value |-> q.value]
  /\ history' = history \union {NewEntry(q)}
  /\ applied' = AppliedAfter(q)
  /\ everApplied' = everApplied \union {AppliedAfter(q)}
  /\ audit' = audit \union {[action |-> q.op, version |-> current.version + 1,
                             before |-> q.before, after |-> q.value]}
  /\ Answer(r, "written", heard)

-----------------------------------------------------------------------------
(* markApplied and diagnostic.                                             *)

SelectPlain(r) ==   \* mutant: the version is compared without FOR UPDATE
  LET q == request[r] IN
  /\ q.phase = "marking"
  /\ Goto(r, IF current.version > 0 /\ VersionMatches(q)
             THEN [q EXCEPT !.phase = "committing"] ELSE [Idle EXCEPT !.phase = "refused"])

\* SELECT ... FOR UPDATE; a row that is missing or has another version is refused.
SelectForUpdate(r) ==
  LET q == request[r] IN
  /\ q.phase = "marking"
  /\ current.version > 0 => ~RowLocked
  /\ Goto(r, IF current.version > 0 /\ VersionMatches(q)
             THEN [q EXCEPT !.phase = "committing"] ELSE [Idle EXCEPT !.phase = "refused"])

CommitApplied(r, heard) ==
  LET q == request[r] IN
  /\ q.phase = "committing" /\ q.op = "mark-applied"
  /\ applied' = q.expected
  /\ everApplied' = everApplied \union {q.expected}
  /\ audit' = audit \union {[action |-> "applied", version |-> q.expected,
                             before |-> NoValue, after |-> NoValue]}
  /\ UNCHANGED <<current, history>>
  /\ Answer(r, "applied", heard)

ReadSaved(r) ==
  /\ request[r].phase = "reading-saved"
  /\ Goto(r, [request[r] EXCEPT !.phase = "reading-applied", !.seen = current.version])

ReadApplied(r) ==
  /\ request[r].phase = "reading-applied"
  /\ Goto(r, [request[r] EXCEPT !.phase = "reported", !.seenApplied = applied])

StatusIfReached(q) ==   \* mutant: an older version counts as applied with a newer one
  IF q.seen = 0 THEN "UNSET"
  ELSE IF q.seen <= q.seenApplied \/ Hot THEN "APPLIED" ELSE "PENDING"

\* applicationStatus; PENDING_RELOAD, _RESTART and _DEPLOY are one.
ApplicationStatus(q) ==
  IF q.seen = 0 THEN "UNSET"
  ELSE IF q.seen = q.seenApplied \/ Hot THEN "APPLIED" ELSE "PENDING"

-----------------------------------------------------------------------------
(* The environment.                                                        *)

\* A crash, a failed statement or audit record, a COMMIT that fails: rolled back.
Abort(r) == request[r].phase \notin Answers \union {"idle"} /\ Goto(r, Idle)

Return(r) == request[r].phase \in Answers /\ Goto(r, Idle)

Call(r) ==
  \/ \E v \in Values, n \in 0..MaxVersion : Write(r, v, n)
  \/ \E t \in 1..MaxVersion, n \in 0..MaxVersion : Rollback(r, t, n)
  \/ \E n \in 0..MaxVersion : MarkApplied(r, n)
  \/ Diagnose(r)

Read(r) ==
  ReadTarget(r) \/ ReadBefore(r) \/ ReadConflict(r) \/ ReadSaved(r) \/ ReadApplied(r)

Commit(r) == \E heard \in BOOLEAN : CommitWrite(r, heard) \/ CommitApplied(r, heard)

Next ==
  \E r \in Requests :
    \/ Call(r) \/ Read(r) \/ CompareAndWrite(r) \/ SelectForUpdate(r) \/ Commit(r)
    \/ Abort(r) \/ Return(r)

Spec == Init /\ [][Next]_vars

-----------------------------------------------------------------------------
(* Properties.                                                             *)

\* Every variable has its type.
TypeOK ==
  /\ current \in Current
  /\ history \subseteq Entry
  /\ applied \in Nat
  /\ audit \subseteq Record
  /\ everApplied \subseteq Nat
  /\ request \in [Requests -> Request]

\* The history holds each version of the setting once, and its last entry is the value
\* in force, however writes and rollbacks race (postgres-store.ts compareAndWrite).
HistoryIsComplete ==
  /\ {e.version : e \in history} = 1..current.version
  /\ \A d, e \in history : d.version = e.version => d = e
  /\ \A e \in history : e.version = current.version => e.value = current.value

\* A rollback saves the value of the earlier version it names, whatever was saved
\* between the two (service.ts rollback).
RollbackRestores ==
  \A e \in history : e.operation = "rollback" =>
    \E d \in history : d.version = e.from /\ d.version < e.version /\ d.value = e.value

\* No update is lost: a version is replaced only by a call that expected that version,
\* by one at a time (postgres-store.ts compareAndWrite).
NoLostUpdate ==
  [][current' # current =>
       \E r \in Requests :
         request[r].phase = "committing" /\ request[r].expected = current.version]_vars

\* The audit trail tells the history: one record per version, with the value it set and
\* the value it replaced, although that one is read by an earlier statement than the one
\* that compares the version (service.ts mutate).
AuditTellsHistory ==
  LET changes == {a \in audit : a.action \in Operations} IN
  /\ {a.version : a \in changes} = 1..current.version
  /\ \A a \in changes, e \in history :
       /\ a.version = e.version => a.action = e.operation /\ a.after = e.value
       /\ a.version = e.version + 1 => a.before = e.value
  /\ \A a \in changes : a.version = 1 => a.before = NoValue

\* The applied version never falls back and is never but the current one when it is
\* recorded (postgres-store.ts markApplied).
AppliedInOrder ==
  [][applied' # applied => applied < applied' /\ applied' = current'.version]_vars

\* A version reported as APPLIED had been applied, although the saved and the applied
\* version are read one after the other (service.ts diagnostic).
ReportIsHonest ==
  \A r \in Requests :
    request[r].phase = "reported" /\ ApplicationStatus(request[r]) = "APPLIED" =>
      request[r].seen \in everApplied

-----------------------------------------------------------------------------
(* The inductive invariant.                                                *)

OneHolder ==
  \A r, s \in Requests :
    request[r].phase = "committing" /\ request[s].phase = "committing" => r = s

Saving(q) == q.op \in Operations /\ q.phase \in {"reading-before", "writing", "committing"}

\* What a call that saves a value knows of the setting.
SavingOK(r) ==
  LET q == request[r] IN
  Saving(q) =>
    /\ q.value \in Values
    /\ q.op = "rollback" =>
         \E e \in history : e.version = q.target /\ e.value = q.value
    /\ ~Foresight /\ q.phase # "reading-before" /\ q.expected = current.version =>
         q.before = current.value

HolderOK(r) ==
  LET q == request[r] IN
  q.phase = "committing" =>
    /\ q.expected = current.version
    /\ q.op \in Operations \/ (q.op = "mark-applied" /\ current.version > 0)

CallOK(r) ==
  LET q == request[r] IN
  /\ q.phase \in {"reading-target", "reading-before", "writing"} => q.op \in Operations
  /\ q.phase = "marking" => q.op = "mark-applied"
  /\ ~Foresight => q.expected <= current.version
  /\ q.seen <= current.version /\ q.seenApplied \in everApplied \union {0}

AppliedOK ==
  /\ applied <= current.version /\ applied \in everApplied \union {0}
  /\ Hot => 1..current.version \subseteq everApplied

\* Holds in every reachable state and is preserved by every step, whatever the calls
\* (postgres-store.ts compareAndWrite, markApplied); the proofs use it.
IndInv ==
  /\ TypeOK /\ HistoryIsComplete /\ RollbackRestores /\ AppliedOK /\ OneHolder
  /\ current.value = NoValue <=> current.version = 0
  /\ Foresight \/ AuditTellsHistory
  /\ \A r \in Requests : SavingOK(r) /\ HolderOK(r) /\ CallOK(r)

-----------------------------------------------------------------------------
(* The settings runtime implements its contract.                           *)

ValueAt(n) == (CHOOSE e \in history : e.version = n).value

Contract == INSTANCE SettingsContract WITH
  version <- current.version,
  log <- [n \in 1..current.version |-> ValueAt(n)]

\* Each transaction appends one value to the log or applies the last one, and nothing
\* else happens to them.
ImplementsContract == Contract!Spec
=============================================================================
