-------------------------- MODULE BoardSightings --------------------------
(***************************************************************************)
(* A controller reports a factory-new board seen nearby, and the Home's    *)
(* clients are told at most once a day: src/app/ember_board_sightings.py,  *)
(* over PushDelivery, which sends the alerts.                              *)
(***************************************************************************)
EXTENDS PushDelivery

CONSTANTS Boards,         \* board suffixes
          Reporters,      \* threads of the report endpoint
          Skew,           \* OBSERVATION_CLOCK_SKEW
          Window,         \* NOTIFICATION_DEDUPLICATION_WINDOW
          LockWait,       \* how long sqlite3.connect lets a request wait for the lock
          MaxTime         \* bound on the clock

ASSUME SightingAssumptions ==
  /\ Skew \in Nat /\ Window \in Nat \ {0} /\ LockWait \in Nat /\ MaxTime \in Nat
  /\ NoRow \notin Nat

VARIABLES clock,
          sightings,      \* ember_board_sightings
          windows,        \* ember_board_notification_windows
          report          \* what a report in flight carries past its signature check

vars == <<pushVars, clock, sightings, windows, report>>

\* What a controller signs.
Message == [controller: Controllers, inst: Installations, board: Boards, observed: Nat]

\* "written" is no column: the moment of the commit, which received_at is not.
Sighting == [message: Message, received: Nat, written: Nat, queued: BOOLEAN]

Report == {Idle} \cup [op: {"report"}, message: Message,
                       key: ControllerKeys \cup Clients, now: Nat]
                 \cup [op: {"queue"}, message: Message]

SightingTypeOK ==
  /\ TypeOK
  /\ clock \in 0..MaxTime
  /\ sightings \subseteq Sighting
  /\ windows \in [Installations \X Boards -> Nat \cup {NoRow}]
  /\ report \in [Reporters -> Report]

SightingInit ==
  /\ Init
  /\ clock = 0
  /\ sightings = {}
  /\ windows = [w \in Installations \X Boards |-> NoRow]
  /\ report = [t \in Reporters |-> Idle]

-----------------------------------------------------------------------------
\* _active_controller_member
Reporting(message) ==
  {m \in ControllerMembers(members, message.controller) :
     m.inst = message.inst /\ ~m.revoked /\ installations[m.inst] = "active"}

\* The signature is verified before the write lock is asked for, and "now" read.
ReportRead(t) ==
  /\ report[t] = Idle
  /\ \E c \in Controllers, i \in Installations, b \in Boards, at \in 0..MaxTime :
       LET message == [controller |-> c, inst |-> i, board |-> b, observed |-> at]
       IN /\ at <= clock + Skew /\ clock <= at + Skew
          /\ \E m \in Reporting(message) :
               report' = [report EXCEPT ![t] = [op |-> "report", message |-> message,
                                                key |-> m.key, now |-> clock]]
  /\ UNCHANGED <<pushVars, clock, sightings, windows>>

\* Mutant: only a replay of the same moment is recognised.
ReplayedNow(message, now) == \E s \in sightings : s.message = message /\ s.received = now

Replayed(message, now) == \E s \in sightings : s.message = message

StillReporting(message, key) == \E m \in Reporting(message) : m.key = key

\* Mutant: the window has to be open only when it was last queued in this home.
WindowOpenEarly(w, now) == windows[w] = NoRow \/ windows[w] < now

WindowOpen(w, now) == windows[w] = NoRow \/ windows[w] + Window <= now

\* Mutant: the start of the window is stored for its end.
WindowAfterStart(w, now, queued) ==
  IF queued THEN [windows EXCEPT ![w] = now - Window] ELSE windows

WindowAfter(w, now, queued) == IF queued THEN [windows EXCEPT ![w] = now] ELSE windows

\* The lock is had within LockWait of the "now" the request goes by.
ReportWrite(t) ==
  /\ report[t].op = "report" /\ clock <= report[t].now + LockWait
  /\ LET message == report[t].message
         now == report[t].now
         w == <<message.inst, message.board>>
         accepted == StillReporting(message, report[t].key) /\ ~Replayed(message, now)
         queued == Deliverable(message.inst) # {} /\ WindowOpen(w, now)
     IN IF accepted
        THEN /\ sightings' = sightings \cup
                               {[message |-> message, received |-> now,
                                 written |-> clock, queued |-> queued]}
             /\ windows' = WindowAfter(w, now, queued)
             /\ report' = [report EXCEPT ![t] = IF queued
                                                THEN [op |-> "queue", message |-> message]
                                                ELSE Idle]
        ELSE /\ report' = [report EXCEPT ![t] = Idle]
             /\ UNCHANGED <<sightings, windows>>
  /\ UNCHANGED <<pushVars, clock>>

\* After the commit the alert becomes a background task.
ReportQueues(t) ==
  /\ report[t].op = "queue"
  /\ Queues(report[t].message.inst, NoRow)
  /\ report' = [report EXCEPT ![t] = Idle]
  /\ UNCHANGED <<installations, members, pending, tokens, lastOwner, thread, edits,
                 clock, sightings, windows>>

\* "database is locked": nothing is written.
ReportFails(t) ==
  /\ report[t].op = "report"
  /\ report' = [report EXCEPT ![t] = Idle]
  /\ UNCHANGED <<pushVars, clock, sightings, windows>>

HandleReport(t) == ReportRead(t) \/ ReportWrite(t) \/ ReportQueues(t) \/ ReportFails(t)

-----------------------------------------------------------------------------
\* An operator gives a controller's member row another key.
OperatorRekeys ==
  /\ edits < MaxEdits /\ edits' = edits + 1
  /\ \E m \in members, k \in ControllerKeys :
       /\ m.kind = "controller" /\ m.key # k
       /\ members' = (members \ {m}) \cup {[m EXCEPT !.key = k]}
  /\ UNCHANGED <<installations, pending, tokens, lastOwner, thread, task,
                 clock, sightings, windows, report>>

CourierRestarts ==
  /\ edits < MaxEdits /\ edits' = edits + 1
  /\ Restart
  /\ report' = [t \in Reporters |-> Idle]
  /\ UNCHANGED <<clock, sightings, windows>>

Tick ==
  /\ clock < MaxTime /\ clock' = clock + 1
  /\ UNCHANGED <<pushVars, sightings, windows, report>>

SightingNext ==
  \/ PushNext /\ UNCHANGED <<clock, sightings, windows, report>>
  \/ \E t \in Reporters : HandleReport(t)
  \/ OperatorRekeys \/ CourierRestarts \/ Tick

SightingSpec == SightingInit /\ [][SightingNext]_vars

-----------------------------------------------------------------------------
QueuedSightings(w) ==
  {s \in sightings : s.queued /\ <<s.message.inst, s.message.board>> = w}

\* Two alerts to a Home about one board are queued Window apart, less what a request
\* can wait for the lock with the "now" it read before: by the clock at the commits,
\* however many reports race.
AlertedOncePerWindow ==
  \A w \in Installations \X Boards : \A s, u \in QueuedSightings(w) :
    s # u => \/ s.written + Window <= u.written + LockWait
             \/ u.written + Window <= s.written + LockWait

\* A window is opened by the alert it stands for and by nothing else: it holds the
\* time of the latest sighting that was queued, and none was if it does not exist.
WindowIsLatestAlert ==
  \A w \in Installations \X Boards :
    IF windows[w] = NoRow
    THEN QueuedSightings(w) = {}
    ELSE /\ \E s \in QueuedSightings(w) : s.received = windows[w]
         /\ \A s \in QueuedSightings(w) : s.received <= windows[w]

\* The rows are of their types, and the windows agree with the sightings.
WindowInv == SightingTypeOK /\ WindowIsLatestAlert

\* A signed report is accepted once, however often it is sent, and never from a
\* controller that is revoked, rekeyed or whose installation is inactive when the row
\* is written, though its signature was verified before ("revocation cannot race an
\* accepted sighting").
AcceptedOnce ==
  [][\A s \in sightings' \ sightings :
       /\ \A u \in sightings' : u.message = s.message => u = s
       /\ \E t \in Reporters : \E m \in Reporting(s.message) :
            report[t].op = "report" /\ report[t].message = s.message /\ report[t].key = m.key]_vars
=============================================================================
