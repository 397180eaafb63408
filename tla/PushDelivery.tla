--------------------------- MODULE PushDelivery ---------------------------
(***************************************************************************)
(* How a Home's clients are told of something: the APNs tokens they        *)
(* register and the background tasks that send an alert to each of them.   *)
(* src/app/ember_push.py.                                                  *)
(*                                                                         *)
(* register_member_push_token runs in the thread pool, as the handlers of  *)
(* Enrollment do.  A dispatch is an asyncio task: it reads the tokens once *)
(* and awaits APNs for each, and anything may happen between the read and  *)
(* an answer.  The two dispatchers differ in the row they look up first.   *)
(* The APNs client is configured: without it every dispatch is skipped.    *)
(***************************************************************************)
EXTENDS Members

CONSTANTS Residents,      \* the member rows at the start
          Environments,   \* APNs environments (there is one app topic)
          Devices,        \* APNs device tokens
          Joins,          \* pending join requests
          Threads,
          Tasks,          \* bounds the alerts of a run
          NoRow,
          MaxEdits        \* bound on edits made elsewhere and on restarts

ASSUME PushAssumptions ==
  /\ Residents \subseteq Member /\ MaxEdits \in Nat
  /\ NoRow \notin Joins \cup Devices

VARIABLES installations, members,
          pending,        \* the join requests not decided yet
          tokens,         \* ember_member_push_tokens
          lastOwner,      \* who registered a device last (history)
          thread, task, edits

pushVars == <<installations, members, pending, tokens, lastOwner, thread, task, edits>>

\* UNIQUE (member_id, platform, environment, app_topic): a row, and its id,
\* outlives the device it was registered with.
Slot == [inst: Installations, key: Clients, env: Environments]

Token == [device: Devices, active: BOOLEAN]

Idle == [op |-> "idle"]

Request == {Idle} \cup [op: {"register"}, slot: Slot, device: Devices]

Delivery == [slot: Slot, device: Devices]

\* about: a join request, or NoRow for a board sighting, whose row is not looked
\* at again but for its name.
Task == [inst: Installations, about: Joins \cup {NoRow},
         stage: {"queued", "sending", "done", "lost"},
         snapshot: SUBSET Delivery, tried: SUBSET Delivery,
         sending: Delivery \cup {NoRow}]

ASSUME NoRowIsNoRow == NoRow \notin Token /\ NoRow \notin Delivery /\ NoRow \notin Task

TypeOK ==
  /\ installations \in [Installations -> InstallationStatus]
  /\ members \subseteq Member
  /\ pending \subseteq Joins
  /\ tokens \in [Slot -> Token \cup {NoRow}]
  /\ lastOwner \in [Environments \X Devices -> Slot \cup {NoRow}]
  /\ thread \in [Threads -> Request]
  /\ task \in [Tasks -> Task \cup {NoRow}]
  /\ edits \in 0..MaxEdits

Init ==
  /\ installations = [i \in Installations |->
                        IF \E m \in Residents : m.inst = i THEN "active" ELSE "absent"]
  /\ members = Residents
  /\ pending = Joins
  /\ tokens = [s \in Slot |-> NoRow]
  /\ lastOwner = [d \in Environments \X Devices |-> NoRow]
  /\ thread = [t \in Threads |-> Idle]
  /\ task = [n \in Tasks |-> NoRow]
  /\ edits = 0

-----------------------------------------------------------------------------
(* POST /member-push-tokens *)
RegisterRead(t) ==
  /\ thread[t] = Idle
  /\ \E s \in Slot, d \in Devices :
       /\ ActiveAdminMember(members, installations, s.inst, s.key)
       /\ thread' = [thread EXCEPT ![t] = [op |-> "register", slot |-> s, device |-> d]]
  /\ UNCHANGED <<installations, members, pending, tokens, lastOwner, task, edits>>

ActiveFor(r, e, d) == tokens[r] # NoRow /\ tokens[r].active /\ r.env = e /\ tokens[r].device = d

\* Mutant: the previous owner of the token keeps its row.
TokensAfterUpsert(s, d) == [tokens EXCEPT ![s] = [device |-> d, active |-> TRUE]]

\* The token's other owners are retired, and the slot's row is upserted.
TokensAfter(s, d) ==
  [r \in Slot |-> IF r = s THEN [device |-> d, active |-> TRUE]
                  ELSE IF ActiveFor(r, s.env, d)
                       THEN [tokens[r] EXCEPT !.active = FALSE]
                       ELSE tokens[r]]

RegisterWrite(t) ==
  /\ thread[t].op = "register"
  /\ LET s == thread[t].slot
         d == thread[t].device
     IN /\ tokens' = TokensAfter(s, d)
        /\ lastOwner' = [lastOwner EXCEPT ![<<s.env, d>>] = s]
  /\ thread' = [thread EXCEPT ![t] = Idle]
  /\ UNCHANGED <<installations, members, pending, task, edits>>

\* "database is locked": nothing is written.
RegisterFails(t) ==
  /\ thread[t] # Idle
  /\ thread' = [thread EXCEPT ![t] = Idle]
  /\ UNCHANGED <<installations, members, pending, tokens, lastOwner, task, edits>>

-----------------------------------------------------------------------------
\* The tokens an alert of installation i goes to.
Deliverable(i) ==
  {s \in Slot :
     /\ s.inst = i /\ installations[i] = "active"
     /\ tokens[s] # NoRow /\ tokens[s].active
     /\ \E m \in ClientMembers(members, i, s.key) : ~m.revoked}

QueuedTask(i, about) ==
  [inst |-> i, about |-> about, stage |-> "queued",
   snapshot |-> {}, tried |-> {}, sending |-> NoRow]

\* background_tasks.add_task, once the request's transaction is committed.
Queues(i, about) ==
  \E n \in Tasks : task[n] = NoRow /\ task' = [task EXCEPT ![n] = QueuedTask(i, about)]

\* A join request is created, or found pending when its candidate asks again.
AnnounceJoin ==
  /\ \E i \in Installations, j \in pending : installations[i] = "active" /\ Queues(i, j)
  /\ UNCHANGED <<installations, members, pending, tokens, lastOwner, thread, edits>>

DispatchReads(n) ==
  /\ task[n] # NoRow /\ task[n].stage = "queued"
  /\ LET about == task[n].about
         rows == {[slot |-> s, device |-> tokens[s].device] : s \in Deliverable(task[n].inst)}
     IN task' = [task EXCEPT ![n].stage = IF about \in pending \cup {NoRow}
                                          THEN "sending" ELSE "done",
                             ![n].snapshot = IF about \in pending \cup {NoRow}
                                             THEN rows ELSE {}]
  /\ UNCHANGED <<installations, members, pending, tokens, lastOwner, thread, edits>>

Waiting(n) == task[n] # NoRow /\ task[n].stage = "sending" /\ task[n].sending # NoRow
Between(n) == task[n] # NoRow /\ task[n].stage = "sending" /\ task[n].sending = NoRow

DispatchSends(n) ==
  /\ Between(n)
  /\ \E r \in task[n].snapshot \ task[n].tried : task' = [task EXCEPT ![n].sending = r]
  /\ UNCHANGED <<installations, members, pending, tokens, lastOwner, thread, edits>>

\* A token that cannot be decrypted is passed over.
DispatchSkips(n) ==
  /\ Between(n)
  /\ \E r \in task[n].snapshot \ task[n].tried :
       task' = [task EXCEPT ![n].tried = @ \cup {r}]
  /\ UNCHANGED <<installations, members, pending, tokens, lastOwner, thread, edits>>

Tried(j) == [j EXCEPT !.tried = @ \cup {j.sending}, !.sending = NoRow]

\* APNs has answered, and the answer is logged.
DispatchLogs(n) ==
  /\ Waiting(n)
  /\ task' = [task EXCEPT ![n] = Tried(@)]
  /\ UNCHANGED <<installations, members, pending, tokens, lastOwner, thread, edits>>

\* APNs answers Unregistered: the row is revoked by its id, whatever it holds now.
DispatchRevokes(n) ==
  /\ Waiting(n)
  /\ tokens' = [tokens EXCEPT ![task[n].sending.slot].active = FALSE]
  /\ task' = [task EXCEPT ![n] = Tried(@)]
  /\ UNCHANGED <<installations, members, pending, lastOwner, thread, edits>>

\* Mutant: the token is tried again, for ever.
AfterExceptionRetries(j) == [j EXCEPT !.sending = NoRow]

\* Mutant: an exception ends the loop.
AfterExceptionStops(j) == [Tried(j) EXCEPT !.stage = "done"]

AfterException(j) == Tried(j)

\* The send, or the write of its result, raises.
DispatchRaises(n) ==
  /\ Waiting(n)
  /\ task' = [task EXCEPT ![n] = AfterException(@)]
  /\ UNCHANGED <<installations, members, pending, tokens, lastOwner, thread, edits>>

DispatchEnds(n) ==
  /\ Between(n)
  /\ task[n].tried = task[n].snapshot
  /\ task' = [task EXCEPT ![n].stage = "done"]
  /\ UNCHANGED <<installations, members, pending, tokens, lastOwner, thread, edits>>

Dispatch(n) ==
  \/ DispatchReads(n) \/ DispatchSends(n) \/ DispatchSkips(n) \/ DispatchLogs(n)
  \/ DispatchRevokes(n) \/ DispatchRaises(n) \/ DispatchEnds(n)

-----------------------------------------------------------------------------
\* Tasks and requests live in memory.
Restart ==
  /\ thread' = [t \in Threads |-> Idle]
  /\ task' = [n \in Tasks |-> IF task[n] = NoRow \/ task[n].stage = "done" THEN task[n]
                              ELSE [task[n] EXCEPT !.stage = "lost"]]
  /\ UNCHANGED <<installations, members, pending, tokens, lastOwner>>

DecideElsewhere ==
  /\ \E j \in pending : pending' = pending \ {j}
  /\ UNCHANGED <<installations, members, tokens, lastOwner, thread, task>>

OperatorRevokes ==
  /\ \E m \in members : ~m.revoked /\ members' = (members \ {m}) \cup {Revoked(m)}
  /\ UNCHANGED <<installations, pending, tokens, lastOwner, thread, task>>

OperatorDeactivates ==
  /\ \E i \in Installations :
       installations[i] = "active" /\ installations' = [installations EXCEPT ![i] = "inactive"]
  /\ UNCHANGED <<members, pending, tokens, lastOwner, thread, task>>

Elsewhere ==
  /\ edits < MaxEdits /\ edits' = edits + 1
  /\ DecideElsewhere \/ OperatorRevokes \/ OperatorDeactivates

PushNext ==
  \/ \E t \in Threads : RegisterRead(t) \/ RegisterWrite(t) \/ RegisterFails(t)
  \/ \E n \in Tasks : Dispatch(n)
  \/ AnnounceJoin \/ Elsewhere

\* With nothing else in memory, a restart is one more edit.
Next == PushNext \/ (edits < MaxEdits /\ edits' = edits + 1 /\ Restart)

Spec == Init /\ [][Next]_pushVars

\* The event loop runs its tasks, and the APNs client gives every send an answer
\* or a timeout.
FairSpec == Spec /\ \A n \in Tasks : WF_pushVars(Dispatch(n))

-----------------------------------------------------------------------------
\* An APNs token is active for one member at most, the one that registered it
\* last: a device that moves to another member or Home stops getting the alerts
\* of the one it left, in whatever order the registrations are written.
OneOwner ==
  \A s \in Slot :
    tokens[s] # NoRow /\ tokens[s].active => lastOwner[<<s.env, tokens[s].device>>] = s

\* An alert that has run to its end has tried every token it read, though sends
\* before fail or raise.
EveryTokenTried ==
  \A n \in Tasks : task[n] # NoRow /\ task[n].stage = "done" => task[n].tried = task[n].snapshot

\* Every alert queued runs to its end unless courier restarts.
AlertsEnd ==
  \A n \in Tasks :
    (task[n] # NoRow) ~> (task[n] # NoRow /\ task[n].stage \in {"done", "lost"})

\* What docs/ember-installations.md says of APNs' Unregistered: it revokes the
\* stored token.  (The code revokes the row, which may hold a newer token by then.)
RevokesReportedToken ==
  [][\A n \in Tasks :
       DispatchRevokes(n) => LET r == task[n].sending
                             IN tokens[r.slot].device = r.device]_pushVars
=============================================================================
