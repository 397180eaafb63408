------------------------ MODULE PushDeliveryProofs ------------------------
(***************************************************************************)
(* PushDelivery's safety invariants, for any number of members, devices,   *)
(* requests and alerts, and those of BoardSightings, which runs over it.   *)
(***************************************************************************)
EXTENDS BoardSightings, TLAPS

\* What a dispatch carries from its one read: rows that exist, and go on existing
\* whatever becomes of the tokens in them.
SnapshotStands(j) ==
  /\ \A r \in j.snapshot : tokens[r.slot] # NoRow
  /\ j.sending # NoRow => j.sending \in j.snapshot
  /\ j.stage = "queued" => j.snapshot = {} /\ j.tried = {} /\ j.sending = NoRow
  /\ j.stage = "done" => j.tried = j.snapshot

InFlight == \A n \in Tasks : task[n] # NoRow => SnapshotStands(task[n])

IInv == TypeOK /\ InFlight /\ OneOwner

-----------------------------------------------------------------------------
LEMMA MembersEdited ==
  ASSUME members \subseteq Member, NEW m \in members
  PROVE  (members \ {m}) \cup {Revoked(m)} \subseteq Member
BY DEF Member, Revoked

LEMMA InitInv == Init => IInv
<1> SUFFICES ASSUME Init PROVE IInv
  OBVIOUS
<1>1. TypeOK
  BY PushAssumptions DEF Init, TypeOK, InstallationStatus, Request, Idle
<1>2. InFlight /\ OneOwner
  BY DEF Init, InFlight, OneOwner
<1> QED
  BY <1>1, <1>2 DEF IInv

\* A step of a registration writes one slot, a dispatch retires one; the rest
\* leaves the tokens alone.
LEMMA RegisterTyped ==
  ASSUME TypeOK, NEW t \in Threads, RegisterRead(t) \/ RegisterWrite(t) \/ RegisterFails(t)
  PROVE  TypeOK'
<1>1. CASE RegisterRead(t)
  BY <1>1 DEF RegisterRead, TypeOK, Request
<1>2. CASE RegisterWrite(t)
  <2> DEFINE s == thread[t].slot
             d == thread[t].device
  <2>1. s \in Slot /\ d \in Devices
    BY <1>2 DEF RegisterWrite, TypeOK, Request, Idle
  <2>2. tokens' \in [Slot -> Token \cup {NoRow}]
    <3>1. tokens' = TokensAfter(s, d)
      BY <1>2 DEF RegisterWrite
    <3>2. \A r \in Slot : ActiveFor(r, s.env, d) => [tokens[r] EXCEPT !.active = FALSE] \in Token
      BY DEF ActiveFor, TypeOK, Token
    <3>3. [device |-> d, active |-> TRUE] \in Token
      BY <2>1 DEF Token
    <3> QED
      BY <3>1, <3>2, <3>3 DEF TokensAfter, TypeOK
  <2>3. lastOwner' \in [Environments \X Devices -> Slot \cup {NoRow}]
    BY <1>2, <2>1 DEF RegisterWrite, TypeOK
  <2>4. thread' \in [Threads -> Request]
    BY <1>2 DEF RegisterWrite, TypeOK, Request
  <2> QED
    BY <1>2, <2>2, <2>3, <2>4 DEF RegisterWrite, TypeOK
<1>3. CASE RegisterFails(t)
  BY <1>3 DEF RegisterFails, TypeOK, Request
<1> QED
  BY <1>1, <1>2, <1>3

\* What a step of a dispatch makes of its task.
DispatchedTo(n, j) ==
  /\ j \in Task /\ SnapshotStands(j)
  /\ task' = [task EXCEPT ![n] = j]
  /\ UNCHANGED <<installations, members, pending, lastOwner, thread, edits>>

LEMMA DispatchCases ==
  ASSUME TypeOK, InFlight, NEW n \in Tasks, Dispatch(n)
  PROVE  /\ \E j : DispatchedTo(n, j)
         /\ \/ UNCHANGED tokens
            \/ \E s \in Slot : tokens[s] # NoRow /\ tokens' = [tokens EXCEPT ![s].active = FALSE]
<1> DEFINE j == task[n]
<1>1. j \in Task /\ SnapshotStands(j)
  BY DEF Dispatch, DispatchReads, DispatchSends, DispatchSkips, DispatchLogs, DispatchRevokes,
         DispatchRaises, DispatchEnds, Waiting, Between, TypeOK, InFlight
<1>2. CASE DispatchReads(n)
  <2> DEFINE rows == {[slot |-> s, device |-> tokens[s].device] : s \in Deliverable(j.inst)}
             live == j.about \in pending \cup {NoRow}
             next == [j EXCEPT !.stage = IF live THEN "sending" ELSE "done",
                               !.snapshot = IF live THEN rows ELSE {}]
  <2>1. rows \subseteq Delivery
    BY DEF Deliverable, Delivery, TypeOK, Token
  <2>2. next \in Task
    BY <1>1, <2>1 DEF Task
  <2>3. \A r \in rows : tokens[r.slot] # NoRow
    BY DEF Deliverable
  <2>4. SnapshotStands(next)
    BY <1>1, <1>2, <2>3 DEF SnapshotStands, DispatchReads, Task
  <2>5. task' = [task EXCEPT ![n] = next]
    BY <1>1, <1>2 DEF DispatchReads, TypeOK, Task
  <2> QED
    BY <1>2, <2>2, <2>4, <2>5 DEF DispatchReads, DispatchedTo
<1>3. CASE DispatchSends(n)
  <2>1. PICK r \in j.snapshot \ j.tried : task' = [task EXCEPT ![n].sending = r]
    BY <1>3 DEF DispatchSends
  <2> DEFINE next == [j EXCEPT !.sending = r]
  <2>2. next \in Task
    BY <1>1 DEF Task
  <2>3. SnapshotStands(next)
    BY <1>1, <1>3 DEF SnapshotStands, DispatchSends, Between, Task
  <2> QED
    BY <1>3, <2>1, <2>2, <2>3 DEF DispatchSends, DispatchedTo
<1>4. CASE DispatchSkips(n)
  <2>1. PICK r \in j.snapshot \ j.tried : task' = [task EXCEPT ![n].tried = @ \cup {r}]
    BY <1>4 DEF DispatchSkips
  <2> DEFINE next == [j EXCEPT !.tried = @ \cup {r}]
  <2>2. next \in Task
    BY <1>1 DEF Task
  <2>3. SnapshotStands(next)
    BY <1>1, <1>4 DEF SnapshotStands, DispatchSkips, Between, Task
  <2> QED
    BY <1>4, <2>1, <2>2, <2>3 DEF DispatchSkips, DispatchedTo
<1>5. CASE Waiting(n)
  <2>1. j.sending \in Delivery /\ j.stage = "sending" /\ tokens[j.sending.slot] # NoRow
    BY <1>1, <1>5 DEF Waiting, Task, SnapshotStands
  <2>2. Tried(j) \in Task
    BY <1>1, <2>1 DEF Tried, Task
  <2>3. SnapshotStands(Tried(j))
    BY <1>1, <2>1 DEF SnapshotStands, Tried, Task
  <2>4. CASE DispatchLogs(n)
    BY <2>2, <2>3, <2>4 DEF DispatchLogs, DispatchedTo
  <2>5. CASE DispatchRevokes(n)
    BY <2>1, <2>2, <2>3, <2>5 DEF DispatchRevokes, DispatchedTo, Delivery
  <2>6. CASE DispatchRaises(n)
    BY <2>2, <2>3, <2>6 DEF DispatchRaises, AfterException, DispatchedTo
  <2> QED
    BY <1>5, <2>4, <2>5, <2>6, <1>2, <1>3, <1>4
    DEF Dispatch, DispatchReads, DispatchSends, DispatchSkips, DispatchEnds, Waiting, Between
<1>6. CASE DispatchEnds(n)
  <2> DEFINE next == [j EXCEPT !.stage = "done"]
  <2>1. next \in Task
    BY <1>1 DEF Task
  <2>2. SnapshotStands(next)
    BY <1>1, <1>6 DEF SnapshotStands, DispatchEnds, Between, Task
  <2> QED
    BY <1>6, <2>1, <2>2 DEF DispatchEnds, DispatchedTo
<1> QED
  BY <1>2, <1>3, <1>4, <1>5, <1>6
  DEF Dispatch, DispatchLogs, DispatchRevokes, DispatchRaises
LEMMA DispatchKeeps ==
  ASSUME IInv, NEW n \in Tasks, Dispatch(n)
  PROVE  IInv'
<1> USE DEF IInv
<1>1. PICK j : DispatchedTo(n, j)
  BY DispatchCases
<1>2. CASE UNCHANGED tokens
  <2>1. TypeOK'
    BY <1>1, <1>2 DEF DispatchedTo, TypeOK
  <2>2. InFlight'
    BY <1>1, <1>2 DEF DispatchedTo, TypeOK, InFlight, SnapshotStands
  <2>3. OneOwner'
    BY <1>1, <1>2 DEF DispatchedTo, OneOwner
  <2> QED
    BY <2>1, <2>2, <2>3
<1>3. ASSUME NEW s \in Slot, tokens[s] # NoRow, tokens' = [tokens EXCEPT ![s].active = FALSE]
      PROVE  IInv'
  <2>1. /\ tokens' \in [Slot -> Token \cup {NoRow}]
        /\ tokens'[s].active = FALSE /\ tokens'[s] \in Token
        /\ \A r \in Slot \ {s} : tokens'[r] = tokens[r]
    BY <1>3 DEF TypeOK, Token
  <2>2. TypeOK'
    BY <1>1, <2>1 DEF DispatchedTo, TypeOK
  <2>3. InFlight'
    <3>1. \A r \in Slot : tokens[r] # NoRow => tokens'[r] # NoRow
      BY <2>1, NoRowIsNoRow
    <3>2. \A m \in Tasks : task[m] # NoRow => task[m].snapshot \subseteq Delivery
      BY DEF TypeOK, Task
    <3>3. j.snapshot \subseteq Delivery
      BY <1>1 DEF DispatchedTo, Task
    <3> QED
      BY <1>1, <3>1, <3>2, <3>3 DEF DispatchedTo, TypeOK, InFlight, SnapshotStands, Delivery
  <2>4. OneOwner'
    BY <1>1, <2>1 DEF DispatchedTo, OneOwner
  <2> QED
    BY <2>2, <2>3, <2>4
<1> QED
  BY <1>2, <1>3, DispatchCases

LEMMA RegisterKeeps ==
  ASSUME IInv, NEW t \in Threads, RegisterRead(t) \/ RegisterWrite(t) \/ RegisterFails(t)
  PROVE  IInv'
<1> USE DEF IInv
<1>1. TypeOK'
  BY RegisterTyped
<1>2. CASE RegisterRead(t) \/ RegisterFails(t)
  <2>1. UNCHANGED <<tokens, task, lastOwner>>
    BY <1>2 DEF RegisterRead, RegisterFails
  <2> QED
    BY <1>1, <2>1 DEF InFlight, SnapshotStands, OneOwner
<1>3. CASE RegisterWrite(t)
  <2> DEFINE s == thread[t].slot
             d == thread[t].device
  <2>1. s \in Slot /\ d \in Devices /\ s.env \in Environments
    BY <1>3 DEF RegisterWrite, TypeOK, Request, Idle, Slot
  <2>2. /\ tokens' = TokensAfter(s, d)
        /\ lastOwner' = [lastOwner EXCEPT ![<<s.env, d>>] = s]
        /\ UNCHANGED task
    BY <1>3 DEF RegisterWrite
  <2>3. OneOwner'
    <3> SUFFICES ASSUME NEW r \in Slot, tokens'[r] # NoRow, tokens'[r].active
                 PROVE  lastOwner'[<<r.env, tokens'[r].device>>] = r
      BY DEF OneOwner
    <3> QED
      BY <2>1, <2>2 DEF TokensAfter, ActiveFor, OneOwner, TypeOK, Token, Slot
  <2>4. InFlight'
    <3>1. tokens' \in [Slot -> Token \cup {NoRow}] /\ \A r \in Slot : tokens[r] # NoRow => tokens'[r] \in Token
      <4>1. tokens' \in [Slot -> Token \cup {NoRow}]
        BY <1>1 DEF TypeOK
      <4>2. [device |-> d, active |-> TRUE] \in Token
        BY <2>1 DEF Token
      <4>3. \A r \in Slot : tokens[r] # NoRow => [tokens[r] EXCEPT !.active = FALSE] \in Token
        BY DEF TypeOK, Token
      <4>4. \A r \in Slot : tokens[r] # NoRow => tokens[r] \in Token
        BY DEF TypeOK
      <4> QED
        BY <2>2, <4>1, <4>2, <4>3, <4>4 DEF TokensAfter
    <3>2. \A m \in Tasks : task[m] # NoRow => task[m].snapshot \subseteq Delivery
      BY DEF TypeOK, Task
    <3> QED
      BY <2>2, <3>1, <3>2, NoRowIsNoRow DEF InFlight, SnapshotStands, Delivery
  <2> QED
    BY <1>1, <2>3, <2>4
<1> QED
  BY <1>2, <1>3

\* An alert is queued about a join request, or about a board sighting.
LEMMA QueueKeeps ==
  ASSUME IInv, NEW i \in Installations, NEW about \in Joins \cup {NoRow}, Queues(i, about),
         UNCHANGED <<installations, members, pending, tokens, lastOwner, thread, edits>>
  PROVE  IInv'
<1> USE DEF IInv
<1>1. PICK n \in Tasks : task[n] = NoRow /\ task' = [task EXCEPT ![n] = QueuedTask(i, about)]
  BY DEF Queues
<1>2. QueuedTask(i, about) \in Task
  BY DEF QueuedTask, Task, TypeOK
<1>3. TypeOK'
  BY <1>1, <1>2 DEF TypeOK
<1>4. InFlight' /\ OneOwner'
  BY <1>1 DEF TypeOK, InFlight, SnapshotStands, QueuedTask, OneOwner
<1> QED
  BY <1>3, <1>4

LEMMA AnnounceKeeps ==
  ASSUME IInv, AnnounceJoin
  PROVE  IInv'
BY QueueKeeps DEF AnnounceJoin, IInv, TypeOK

LEMMA ElsewhereKeeps ==
  ASSUME IInv, Elsewhere
  PROVE  IInv'
<1> USE DEF IInv
<1>1. edits' \in 0..MaxEdits
  BY PushAssumptions DEF Elsewhere, TypeOK
<1>2. UNCHANGED <<tokens, lastOwner, thread, task>>
  BY DEF Elsewhere, DecideElsewhere, OperatorRevokes, OperatorDeactivates
<1>4. members' \subseteq Member
  <2>1. CASE OperatorRevokes
    BY <2>1, MembersEdited DEF OperatorRevokes, TypeOK
  <2>2. CASE UNCHANGED members
    BY <2>2 DEF TypeOK
  <2> QED
    BY <2>1, <2>2 DEF Elsewhere, DecideElsewhere, OperatorDeactivates
<1>5. installations' \in [Installations -> InstallationStatus]
  BY DEF Elsewhere, DecideElsewhere, OperatorRevokes, OperatorDeactivates, TypeOK, InstallationStatus
<1>6. pending' \subseteq Joins
  BY DEF Elsewhere, DecideElsewhere, OperatorRevokes, OperatorDeactivates, TypeOK
<1>7. TypeOK'
  BY <1>1, <1>2, <1>4, <1>5, <1>6 DEF TypeOK
<1> QED
  BY <1>2, <1>7 DEF InFlight, SnapshotStands, OneOwner

LEMMA RestartKeeps ==
  ASSUME IInv, Restart, edits' = edits + 1, edits < MaxEdits
  PROVE  IInv'
<1> USE DEF IInv
<1>1. edits' \in 0..MaxEdits
  BY PushAssumptions DEF TypeOK
<1>2. thread' \in [Threads -> Request]
  BY DEF Restart, Request
<1>3. \A n \in Tasks :
        \/ task'[n] = task[n]
        \/ task[n] \in Task /\ task'[n] = [task[n] EXCEPT !.stage = "lost"]
  BY DEF Restart, TypeOK
<1>4. task' \in [Tasks -> Task \cup {NoRow}]
  <2>1. \A n \in Tasks : task'[n] \in Task \cup {NoRow}
    <3>1. \A j \in Task : [j EXCEPT !.stage = "lost"] \in Task
      BY DEF Task
    <3>2. \A n \in Tasks : task[n] \in Task \cup {NoRow}
      BY DEF TypeOK
    <3> QED
      BY <1>3, <3>1, <3>2
  <2> QED
    BY <2>1 DEF Restart
<1>5. TypeOK'
  BY <1>1, <1>2, <1>4 DEF Restart, TypeOK
<1>6. InFlight'
  BY <1>3 DEF Restart, InFlight, SnapshotStands, Task, TypeOK
<1> QED
  BY <1>5, <1>6 DEF Restart, OneOwner

LEMMA PushKeeps ==
  ASSUME IInv, PushNext \/ UNCHANGED pushVars
  PROVE  IInv'
<1>1. CASE UNCHANGED pushVars
  BY <1>1 DEF pushVars, IInv, TypeOK, InFlight, SnapshotStands, OneOwner
<1> QED
  BY <1>1, DispatchKeeps, RegisterKeeps, AnnounceKeeps, ElsewhereKeeps DEF PushNext

LEMMA Invariance == Spec => []IInv
<1>1. ASSUME IInv, [Next]_pushVars PROVE IInv'
  BY <1>1, PushKeeps, RestartKeeps DEF Next
<1> QED
  BY <1>1, InitInv, PTL DEF Spec

\* Tokens, requests in flight and alerts keep their types: an alert never carries a
\* row its Home did not have.
THEOREM TypeCorrect == Spec => []TypeOK
BY Invariance, PTL DEF IInv

\* No order of registrations and revocations leaves a device active for a member
\* that did not register it last.
THEOREM TokenOwner == Spec => []OneOwner
BY Invariance, PTL DEF IInv

\* No failed send, undecryptable token or exception ends an alert early.
THEOREM TriesEvery == Spec => []EveryTokenTried
<1>1. IInv => EveryTokenTried
  BY DEF IInv, InFlight, SnapshotStands, EveryTokenTried
<1> QED
  BY <1>1, Invariance, PTL
-----------------------------------------------------------------------------
\* BoardSightings takes every step of PushDelivery, and those of the endpoint.
Frame == UNCHANGED <<sightings, windows>>

\* What ReportWrite does when it accepts a report.
Accepts(t) ==
  LET message == report[t].message
      now == report[t].now
      w == <<message.inst, message.board>>
      queued == Deliverable(message.inst) # {} /\ WindowOpen(w, now)
  IN /\ StillReporting(message, report[t].key) /\ ~Replayed(message, now)
     /\ clock <= now + LockWait
     /\ sightings' = sightings \cup
                       {[message |-> message, received |-> now,
                         written |-> clock, queued |-> queued]}
     /\ windows' = WindowAfter(w, now, queued)

\* A report in flight read its "now" from a clock that has not gone back since.
ReadBefore == \A t \in Reporters : report[t].op = "report" => report[t].now <= clock

LEMMA ReportKinds ==
  ASSUME NEW r \in Report
  PROVE  /\ r.op = "report" => r.message \in Message /\ r.now \in Nat
         /\ r.op = "queue" => r.message \in Message
BY DEF Report, Idle

\* The endpoint leaves what PushDelivery keeps alone but for the alert it queues,
\* and writes a sighting and its window in the one transaction that accepts it.
LEMMA ReportCases ==
  ASSUME IInv, SightingTypeOK, ReadBefore, NEW t \in Reporters, HandleReport(t)
  PROVE  /\ IInv' /\ clock' = clock /\ report' \in [Reporters -> Report] /\ ReadBefore'
         /\ Frame \/ (report[t].op = "report" /\ Accepts(t))
<1> USE DEF SightingTypeOK
<1>1. CASE ReportRead(t)
  <2>1. PICK c \in Controllers, i \in Installations, b \in Boards, at \in 0..MaxTime :
          \E m \in Reporting([controller |-> c, inst |-> i, board |-> b, observed |-> at]) :
            report' = [report EXCEPT ![t] =
              [op |-> "report",
               message |-> [controller |-> c, inst |-> i, board |-> b, observed |-> at],
               key |-> m.key, now |-> clock]]
    BY <1>1 DEF ReportRead
  <2>2. PICK m \in members :
          /\ m.kind = "controller"
          /\ report' = [report EXCEPT ![t] =
               [op |-> "report",
                message |-> [controller |-> c, inst |-> i, board |-> b, observed |-> at],
                key |-> m.key, now |-> clock]]
    BY <2>1 DEF Reporting, ControllerMembers
  <2>3. m.key \in ControllerKeys \cup Clients /\ clock \in Nat
    BY SightingAssumptions DEF IInv, TypeOK, Member
  <2> DEFINE message == [controller |-> c, inst |-> i, board |-> b, observed |-> at]
             next == [op |-> "report", message |-> message, key |-> m.key, now |-> clock]
  <2>4. message \in Message
    BY SightingAssumptions DEF Message
  <2>5. next \in Report
    BY <2>3, <2>4 DEF Report
  <2>6. report' \in [Reporters -> Report]
    BY <2>2, <2>5
  <2>7. IInv'
    BY <1>1, PushKeeps DEF ReportRead
  <2>8. next.now <= clock /\ clock' = clock
    BY <1>1, <2>3 DEF ReportRead
  <2>9. ReadBefore'
    BY <2>2, <2>8 DEF ReadBefore
  <2> QED
    BY <1>1, <2>6, <2>7, <2>9 DEF ReportRead, Frame
<1>2. CASE ReportWrite(t)
  <2>1. report[t].op = "report" /\ report[t].message \in Message
    BY <1>2, ReportKinds DEF ReportWrite
  <2>2. report' \in [Reporters -> Report]
    BY <1>2, <2>1 DEF ReportWrite, Report
  <2>3. Frame \/ Accepts(t)
    BY <1>2 DEF ReportWrite, Accepts, Frame
  <2>4. ReadBefore'
    BY <1>2 DEF ReadBefore, ReportWrite, Idle
  <2> QED
    BY <1>2, <2>1, <2>2, <2>3, <2>4, PushKeeps DEF ReportWrite
<1>3. CASE ReportQueues(t)
  <2>1. report[t].message.inst \in Installations
    BY <1>3, ReportKinds DEF ReportQueues, Message
  <2>2. IInv'
    BY <1>3, <2>1, QueueKeeps DEF ReportQueues
  <2> QED
    BY <1>3, <2>2 DEF ReportQueues, Frame, Report, ReadBefore, Idle
<1>4. CASE ReportFails(t)
  BY <1>4, PushKeeps DEF ReportFails, Frame, Report, ReadBefore, Idle
<1> QED
  BY <1>1, <1>2, <1>3, <1>4 DEF HandleReport

\* The alerts are Window apart by what each report read, and a report is written
\* within LockWait of that: what AlertedOncePerWindow rests on.
StampsApart ==
  \A w \in Installations \X Boards : \A s, u \in QueuedSightings(w) :
    s # u => s.received + Window <= u.received \/ u.received + Window <= s.received

WrittenInTime ==
  \A s \in sightings : s.received <= s.written /\ s.written <= s.received + LockWait

SInv == /\ IInv /\ SightingTypeOK /\ ReadBefore
        /\ WindowIsLatestAlert /\ StampsApart /\ WrittenInTime

LEMMA StampsSpaceAlerts ==
  ASSUME SightingTypeOK, StampsApart, WrittenInTime
  PROVE  AlertedOncePerWindow
<1> SUFFICES ASSUME NEW w \in Installations \X Boards,
                    NEW s \in QueuedSightings(w), NEW u \in QueuedSightings(w), s # u
             PROVE  \/ s.written + Window <= u.written + LockWait
                    \/ u.written + Window <= s.written + LockWait
  BY DEF AlertedOncePerWindow
<1>1. s \in sightings /\ u \in sightings
  BY DEF QueuedSightings
<1>2. /\ s.received \in Nat /\ s.written \in Nat /\ u.received \in Nat /\ u.written \in Nat
      /\ Window \in Nat /\ LockWait \in Nat
  BY <1>1, SightingAssumptions DEF SightingTypeOK, Sighting
<1>3. s.received + Window <= u.received \/ u.received + Window <= s.received
  BY DEF StampsApart
<1>4. /\ s.received <= s.written /\ s.written <= s.received + LockWait
      /\ u.received <= u.written /\ u.written <= u.received + LockWait
  BY <1>1 DEF WrittenInTime
<1> QED
  BY <1>2, <1>3, <1>4

\* A sighting that is queued is the latest of its window, and a window later than
\* the one before; one that is not queued leaves the windows alone.
LEMMA AcceptKeeps ==
  ASSUME SightingTypeOK, WindowIsLatestAlert, StampsApart, WrittenInTime,
         NEW message \in Message, NEW now \in Nat, NEW at \in Nat, NEW queued \in BOOLEAN,
         now <= at, at <= now + LockWait, NEW v,
         v = <<message.inst, message.board>>, queued => WindowOpen(v, now),
         sightings' = sightings \cup
                        {[message |-> message, received |-> now,
                          written |-> at, queued |-> queued]},
         windows' = WindowAfter(v, now, queued)
  PROVE  /\ sightings' \subseteq Sighting
         /\ windows' \in [Installations \X Boards -> Nat \cup {NoRow}]
         /\ WindowIsLatestAlert' /\ StampsApart' /\ WrittenInTime'
<1> DEFINE row == [message |-> message, received |-> now,
                   written |-> at, queued |-> queued]
<1>1. v \in Installations \X Boards
  BY DEF Message
<1>2. now \in Nat /\ queued \in BOOLEAN
  OBVIOUS
<1>3. /\ row.message = message /\ row.received = now /\ row.written = at
      /\ row.queued = queued
      /\ row \in Sighting
  BY DEF Sighting
<1>4. /\ sightings' = sightings \cup {row}
      /\ windows' = IF queued THEN [windows EXCEPT ![v] = now] ELSE windows
  BY DEF WindowAfter
<1>5. queued => windows[v] = NoRow \/ windows[v] + Window <= now
  BY DEF WindowOpen
<1>6. windows \in [Installations \X Boards -> Nat \cup {NoRow}] /\ sightings \subseteq Sighting
  BY DEF SightingTypeOK
<1> HIDE DEF row
<1>7. \A w \in Installations \X Boards :
        QueuedSightings(w)' = IF queued /\ w = v THEN QueuedSightings(w) \cup {row}
                              ELSE QueuedSightings(w)
  <2> SUFFICES ASSUME NEW w \in Installations \X Boards
               PROVE  QueuedSightings(w)' = IF queued /\ w = v THEN QueuedSightings(w) \cup {row}
                                            ELSE QueuedSightings(w)
    OBVIOUS
  <2>1. CASE queued /\ w = v
    BY <1>3, <1>4, <2>1 DEF QueuedSightings
  <2>2. CASE ~(queued /\ w = v)
    BY <1>3, <1>4, <2>2 DEF QueuedSightings
  <2> QED
    BY <2>1, <2>2
<1>8. \A w \in Installations \X Boards : w # v \/ ~queued =>
        windows'[w] = windows[w] /\ QueuedSightings(w)' = QueuedSightings(w)
  BY <1>4, <1>6, <1>7
<1>9. queued => /\ windows'[v] = now /\ now # NoRow
                /\ QueuedSightings(v)' = QueuedSightings(v) \cup {row}
                /\ \A s \in QueuedSightings(v) : s.received + Window <= now
  <2> SUFFICES ASSUME queued
               PROVE  /\ windows'[v] = now /\ now # NoRow
                      /\ QueuedSightings(v)' = QueuedSightings(v) \cup {row}
                      /\ \A s \in QueuedSightings(v) : s.received + Window <= now
    OBVIOUS
  <2>1. windows'[v] = now /\ now # NoRow
    BY <1>1, <1>2, <1>4, <1>6, SightingAssumptions
  <2>2. ASSUME NEW s \in QueuedSightings(v) PROVE s.received + Window <= now
    <3>1. windows[v] # NoRow /\ s.received <= windows[v]
      BY <1>1, <2>2 DEF WindowIsLatestAlert
    <3>2. s.received \in Nat /\ windows[v] \in Nat
      BY <1>1, <1>6, <2>2, <3>1 DEF QueuedSightings, Sighting
    <3> QED
      BY <1>2, <1>5, <3>1, <3>2, SightingAssumptions
  <2> QED
    BY <1>1, <1>7, <2>1, <2>2
<1>10. \A s \in sightings : s.received \in Nat
  BY <1>6 DEF Sighting
<1>11. WindowIsLatestAlert'
  <2> SUFFICES ASSUME NEW w \in Installations \X Boards
               PROVE  IF windows'[w] = NoRow
                      THEN QueuedSightings(w)' = {}
                      ELSE /\ \E s \in QueuedSightings(w)' : s.received = windows'[w]
                           /\ \A s \in QueuedSightings(w)' : s.received <= windows'[w]
    BY DEF WindowIsLatestAlert
  <2>1. CASE w = v /\ queued
    <3>1. \A s \in QueuedSightings(v) : s.received <= now
      BY <1>2, <1>9, <1>10, <2>1, SightingAssumptions DEF QueuedSightings
    <3>2. windows'[w] = now /\ now # NoRow /\ QueuedSightings(w)' = QueuedSightings(v) \cup {row}
      BY <1>9, <2>1
    <3>3. row \in QueuedSightings(w)' /\ row.received = now /\ now <= now
      BY <1>2, <1>3, <3>2
    <3> QED
      BY <1>3, <3>1, <3>2, <3>3
  <2>2. CASE w # v \/ ~queued
    BY <1>8, <2>2 DEF WindowIsLatestAlert
  <2> QED
    BY <2>1, <2>2
<1>12. StampsApart'
  <2> SUFFICES ASSUME NEW w \in Installations \X Boards,
                      NEW s \in QueuedSightings(w)', NEW u \in QueuedSightings(w)', s # u
               PROVE  s.received + Window <= u.received \/ u.received + Window <= s.received
    BY DEF StampsApart
  <2>1. CASE w = v /\ queued
    BY <1>3, <1>9, <2>1 DEF StampsApart
  <2>2. CASE w # v \/ ~queued
    BY <1>8, <2>2 DEF StampsApart
  <2> QED
    BY <2>1, <2>2
<1>13. /\ sightings' \subseteq Sighting
       /\ windows' \in [Installations \X Boards -> Nat \cup {NoRow}]
  BY <1>1, <1>2, <1>3, <1>4, <1>6
<1>14. WrittenInTime'
  BY <1>3, <1>4 DEF WrittenInTime
<1> QED
  BY <1>11, <1>12, <1>13, <1>14

\* Every other step leaves the sightings and their windows where they were.
LEMMA SightingStep ==
  ASSUME IInv, SightingTypeOK, ReadBefore, [SightingNext]_vars
  PROVE  /\ IInv' /\ clock' \in 0..MaxTime /\ report' \in [Reporters -> Report] /\ ReadBefore'
         /\ Frame \/ \E t \in Reporters : report[t].op = "report" /\ Accepts(t)
<1> USE DEF SightingTypeOK
<1>1. ASSUME NEW t \in Reporters, HandleReport(t)
      PROVE  /\ IInv' /\ clock' \in 0..MaxTime /\ report' \in [Reporters -> Report] /\ ReadBefore'
             /\ Frame \/ (report[t].op = "report" /\ Accepts(t))
  BY <1>1, ReportCases
<1>2. CASE UNCHANGED <<clock, sightings, windows, report>> /\ (PushNext \/ UNCHANGED pushVars)
  BY <1>2, PushKeeps DEF Frame, ReadBefore
<1>3. CASE OperatorRekeys
  <2>1. PICK m \in members, k \in ControllerKeys :
          members' = (members \ {m}) \cup {[m EXCEPT !.key = k]}
    BY <1>3 DEF OperatorRekeys
  <2>2. members' \subseteq Member
    BY <2>1 DEF IInv, TypeOK, Member
  <2>3. edits' \in 0..MaxEdits
    BY <1>3, PushAssumptions DEF OperatorRekeys, IInv, TypeOK
  <2>4. UNCHANGED <<installations, pending, tokens, lastOwner, thread, task,
                    clock, sightings, windows, report>>
    BY <1>3 DEF OperatorRekeys
  <2>5. IInv'
    BY <2>2, <2>3, <2>4 DEF IInv, TypeOK, InFlight, SnapshotStands, OneOwner
  <2> QED
    BY <2>4, <2>5 DEF Frame, ReadBefore
<1>4. CASE CourierRestarts
  BY <1>4, RestartKeeps DEF CourierRestarts, Frame, Report, ReadBefore, Idle
<1>5. CASE Tick
  <2>1. IInv' /\ Frame /\ report' = report
    BY <1>5, PushKeeps DEF Tick, Frame
  <2>2. clock' \in 0..MaxTime
    BY <1>5, SightingAssumptions DEF Tick
  <2>3. ASSUME NEW t \in Reporters, report[t].op = "report"
        PROVE  report[t].now <= clock'
    <3>1. report[t].now \in Nat /\ clock \in Nat /\ clock' = clock + 1
      BY <1>5, <2>3, ReportKinds, SightingAssumptions DEF Tick
    <3> QED
      BY <2>3, <3>1 DEF ReadBefore
  <2> QED
    BY <2>1, <2>2, <2>3 DEF ReadBefore
<1> QED
  BY <1>1, <1>2, <1>3, <1>4, <1>5 DEF SightingNext, vars

LEMMA SightingInvariance == SightingSpec => []SInv
<1>1. SightingInit => SInv
  <2> SUFFICES ASSUME SightingInit PROVE SInv
    OBVIOUS
  <2>1. IInv
    BY InitInv DEF SightingInit
  <2>2. SightingTypeOK
    BY <2>1, SightingAssumptions DEF IInv, SightingInit, SightingTypeOK, Report
  <2>3. WindowIsLatestAlert /\ StampsApart /\ WrittenInTime /\ ReadBefore
    BY DEF SightingInit, WindowIsLatestAlert, StampsApart, WrittenInTime, QueuedSightings,
           ReadBefore, Idle
  <2> QED
    BY <2>1, <2>2, <2>3 DEF SInv
<1>2. ASSUME SInv, [SightingNext]_vars PROVE SInv'
  <2>1. IInv' /\ clock' \in 0..MaxTime /\ report' \in [Reporters -> Report] /\ ReadBefore'
    BY <1>2, SightingStep DEF SInv
  <2>2. CASE Frame
    BY <1>2, <2>1, <2>2 DEF SInv, IInv, Frame, SightingTypeOK, WindowIsLatestAlert,
                            StampsApart, WrittenInTime, QueuedSightings
  <2>3. ASSUME NEW t \in Reporters, report[t].op = "report", Accepts(t) PROVE SInv'
    <3> DEFINE message == report[t].message
               now == report[t].now
               v == <<message.inst, message.board>>
               queued == Deliverable(message.inst) # {} /\ WindowOpen(v, now)
    <3>1. message \in Message /\ now \in Nat /\ clock \in Nat
      BY <1>2, <2>3, ReportKinds, SightingAssumptions DEF SInv, SightingTypeOK
    <3>2. queued \in BOOLEAN /\ (queued => WindowOpen(v, now))
      OBVIOUS
    <3>3. /\ sightings' = sightings \cup
                            {[message |-> message, received |-> now,
                              written |-> clock, queued |-> queued]}
          /\ windows' = WindowAfter(v, now, queued)
          /\ now <= clock /\ clock <= now + LockWait
      BY <1>2, <2>3 DEF Accepts, SInv, ReadBefore
    <3> HIDE DEF message, now, queued
    <3>4. /\ sightings' \subseteq Sighting
          /\ windows' \in [Installations \X Boards -> Nat \cup {NoRow}]
          /\ WindowIsLatestAlert' /\ StampsApart' /\ WrittenInTime'
      BY <1>2, <3>1, <3>2, <3>3, AcceptKeeps DEF SInv
    <3> QED
      BY <1>2, <2>1, <3>4 DEF SInv, IInv, SightingTypeOK
  <2> QED
    BY <1>2, <2>2, <2>3, SightingStep DEF SInv
<1> QED
  BY <1>1, <1>2, PTL DEF SightingSpec

\* Two alerts to a Home about one board are queued at least Window apart, less LockWait,
\* by the clock at their commits: however many reports race and however late, up to
\* LockWait, each gets the write lock after it read the time.
THEOREM OneAlertPerWindow == SightingSpec => []AlertedOncePerWindow
<1>1. SInv => AlertedOncePerWindow
  BY StampsSpaceAlerts DEF SInv
<1> QED
  BY <1>1, SightingInvariance, PTL

\* The rows keep their types, and a window is the time of the latest sighting queued.
THEOREM WindowHolds == SightingSpec => []WindowInv
<1>1. SInv => WindowInv
  BY DEF SInv, WindowInv
<1> QED
  BY <1>1, SightingInvariance, PTL

\* A signed report is accepted once, and only from a controller that is a live member,
\* with the key that signed, when the row is written.
THEOREM AcceptsOnce == SightingSpec => AcceptedOnce
<1> DEFINE A == \A s \in sightings' \ sightings :
                  /\ \A u \in sightings' : u.message = s.message => u = s
                  /\ \E t \in Reporters : \E m \in Reporting(s.message) :
                       report[t].op = "report" /\ report[t].message = s.message /\ report[t].key = m.key
<1>1. ASSUME SInv, [SightingNext]_vars PROVE A
  <2>1. CASE Frame
    BY <2>1 DEF Frame
  <2>2. ASSUME NEW t \in Reporters, report[t].op = "report", Accepts(t) PROVE A
    BY <2>2 DEF Accepts, Replayed, StillReporting
  <2> QED
    BY <1>1, <2>1, <2>2, SightingStep DEF SInv
<1>2. SInv /\ [SightingNext]_vars => [A]_vars
  BY <1>1
<1> QED
  BY <1>2, SightingInvariance, PTL DEF SightingSpec, AcceptedOnce
=============================================================================
