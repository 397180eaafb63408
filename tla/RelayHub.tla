----------------------------- MODULE RelayHub -----------------------------
(***************************************************************************)
(* The off-LAN relay: daemons keep a WebSocket open to courier and the app *)
(* sends requests through it.  src/app/relay.py.                           *)
(*                                                                         *)
(* Everything runs on one event loop, so an action is what a coroutine     *)
(* does from one await to the next.  Sockets are the connections whose     *)
(* register frame was verified; any of them may break at any time.  The    *)
(* daemons are external and answer only what they were asked, perhaps      *)
(* late, twice, or over a newer connection.                                *)
(***************************************************************************)
EXTENDS Naturals, FiniteSets

CONSTANTS Keys,           \* daemon key ids
          Sockets,        \* connections
          KeyOf,          \* socket -> the key it proves
          Requests,       \* calls of relay_forward
          Addressee,      \* request -> the key it is for
          Nobody

ASSUME RelayAssumptions ==
  /\ KeyOf \in [Sockets -> Keys] /\ Addressee \in [Requests -> Keys]
  /\ Nobody \notin Sockets \cup Keys \cup Requests

VARIABLES agents,         \* RelayHub._agents: key -> socket
          pending,        \* RelayHub._pending: request -> its future
          agent,          \* where relay_agent is, per socket
          displaced,      \* the socket relay_agent displaced, until it is closed
          open,           \* sockets still connected
          frames,         \* the response frame on its way, per socket
          forward,        \* where relay_forward is, per request
          via,            \* the socket it is sent over
          answeredBy,     \* the daemon whose frame a future holds
          asked,          \* requests a daemon has received
          newest          \* the last socket to register for a key (history)

hubVars == <<agents, pending>>
agentVars == <<agent, displaced, newest>>
forwardVars == <<forward, via>>
wire == <<open, frames, asked>>
vars == <<hubVars, agentVars, forwardVars, wire, answeredBy>>

TypeOK ==
  /\ agents \in [Keys -> Sockets \cup {Nobody}]
  /\ pending \in [Requests -> {"none", "open", "resolved"}]
  /\ agent \in [Sockets -> {"registering", "displacing", "greeting", "serving", "ended"}]
  /\ displaced \in [Sockets -> Sockets \cup {Nobody}]
  /\ open \subseteq Sockets
  /\ frames \in [Sockets -> Requests \cup {Nobody}]
  /\ forward \in [Requests -> {"idle", "sending", "waiting", "answered", "timed out", "failed"}]
  /\ via \in [Requests -> Sockets \cup {Nobody}]
  /\ answeredBy \in [Requests -> Keys \cup {Nobody}]
  /\ asked \in [Keys -> SUBSET Requests]
  /\ newest \in [Keys -> Sockets \cup {Nobody}]

Init ==
  /\ agents = [k \in Keys |-> Nobody]
  /\ pending = [r \in Requests |-> "none"]
  /\ agent = [s \in Sockets |-> "registering"]
  /\ displaced = [s \in Sockets |-> Nobody]
  /\ open = Sockets
  /\ frames = [s \in Sockets |-> Nobody]
  /\ forward = [r \in Requests |-> "idle"]
  /\ via = [r \in Requests |-> Nobody]
  /\ answeredBy = [r \in Requests |-> Nobody]
  /\ asked = [k \in Keys |-> {}]
  /\ newest = [k \in Keys |-> Nobody]

-----------------------------------------------------------------------------
(* WebSocket /v1/relay/agent *)

\* Mutant: the hub keeps the key.
RegisteredKey(s) == [agents EXCEPT ![KeyOf[s]] = KeyOf[s]]

\* RelayHub.register
Registered(s) == [agents EXCEPT ![KeyOf[s]] = s]

\* Mutant: whoever disconnects takes the key off the hub.
UnregisteredAnyway(s) == [agents EXCEPT ![KeyOf[s]] = Nobody]

\* RelayHub.unregister
Unregistered(s) == IF agents[KeyOf[s]] = s THEN [agents EXCEPT ![KeyOf[s]] = Nobody] ELSE agents

AgentRegisters(s) ==
  /\ agent[s] = "registering"
  /\ agents' = Registered(s)
  /\ displaced' = [displaced EXCEPT ![s] = agents[KeyOf[s]]]
  /\ agent' = [agent EXCEPT ![s] = IF agents[KeyOf[s]] = Nobody THEN "greeting" ELSE "displacing"]
  /\ newest' = [newest EXCEPT ![KeyOf[s]] = s]
  /\ UNCHANGED <<pending, forwardVars, wire, answeredBy>>

\* Mutant: the displaced tunnel is left open.
OpenAfterNoClose(s) == open

OpenAfterClose(s) == open \ {s}

\* await displaced.close(): the older tunnel is closed, if it was not already.
AgentDisplaces(s) ==
  /\ agent[s] = "displacing"
  /\ open' = OpenAfterClose(displaced[s])
  /\ displaced' = [displaced EXCEPT ![s] = Nobody]
  /\ agent' = [agent EXCEPT ![s] = "greeting"]
  /\ UNCHANGED <<hubVars, newest, forwardVars, frames, asked, answeredBy>>

\* await ws.send_json({"type": "registered"}).  On a broken socket the send may
\* still be buffered and succeed.
AgentGreets(s) ==
  /\ agent[s] = "greeting"
  /\ agent' = [agent EXCEPT ![s] = "serving"]
  /\ UNCHANGED <<hubVars, displaced, newest, forwardVars, wire, answeredBy>>

\* Or it raises, before the try whose finally unregisters.
AgentGreetingFails(s) ==
  /\ agent[s] = "greeting" /\ s \notin open
  /\ agent' = [agent EXCEPT ![s] = "ended"]
  /\ UNCHANGED <<hubVars, displaced, newest, forwardVars, wire, answeredBy>>

\* Mutant: the frame resolves whatever waits.
ResolvedAll(r) == [q \in Requests |-> IF pending[q] = "open" THEN "resolved" ELSE pending[q]]

\* RelayHub.resolve
Resolved(r) == IF pending[r] = "open" THEN [pending EXCEPT ![r] = "resolved"] ELSE pending

AgentReceives(s) ==
  /\ agent[s] = "serving"
  /\ frames[s] # Nobody
  /\ pending' = Resolved(frames[s])
  /\ answeredBy' = [r \in Requests |-> IF pending'[r] # pending[r] THEN KeyOf[s]
                                       ELSE answeredBy[r]]
  /\ frames' = [frames EXCEPT ![s] = Nobody]
  /\ UNCHANGED <<agents, agentVars, forwardVars, open, asked>>

\* The socket has broken, or sent what is no JSON.
AgentEnds(s) ==
  /\ agent[s] = "serving"
  /\ agent' = [agent EXCEPT ![s] = "ended"]
  /\ agents' = Unregistered(s)
  /\ open' = open \ {s}
  /\ UNCHANGED <<pending, displaced, newest, forwardVars, frames, asked, answeredBy>>

AgentSeesDisconnect(s) == s \notin open /\ AgentEnds(s)

-----------------------------------------------------------------------------
(* POST /v1/relay/{key_id}/req.  A key with no socket is answered 502 at once. *)
ForwardStarts(r) ==
  /\ forward[r] = "idle"
  /\ agents[Addressee[r]] # Nobody
  /\ via' = [via EXCEPT ![r] = agents[Addressee[r]]]
  /\ pending' = [pending EXCEPT ![r] = "open"]
  /\ forward' = [forward EXCEPT ![r] = "sending"]
  /\ UNCHANGED <<agents, agentVars, wire, answeredBy>>

\* await ws.send_json: the daemon has the request, or never will.
ForwardSends(r) ==
  /\ forward[r] = "sending"
  /\ forward' = [forward EXCEPT ![r] = "waiting"]
  /\ asked' = IF via[r] \in open THEN [asked EXCEPT ![Addressee[r]] = @ \cup {r}] ELSE asked
  /\ UNCHANGED <<hubVars, agentVars, via, open, frames, answeredBy>>

\* Mutant: the future is dropped only when it is answered.
PendingAfterAnswer(r, end) ==
  IF end = "answered" THEN [pending EXCEPT ![r] = "none"] ELSE pending

\* finally: self._pending.pop(request_id, None)
PendingAfter(r, end) == [pending EXCEPT ![r] = "none"]

ForwardEnds(r, end) ==
  /\ forward' = [forward EXCEPT ![r] = end]
  /\ pending' = PendingAfter(r, end)
  /\ UNCHANGED <<agents, agentVars, via, wire, answeredBy>>

ForwardSendFails(r) ==
  forward[r] = "sending" /\ via[r] \notin open /\ ForwardEnds(r, "failed")

ForwardReturns(r) ==
  forward[r] = "waiting" /\ pending[r] = "resolved" /\ ForwardEnds(r, "answered")

\* Mutant: only a connected daemon is given up on.
OverdueWhileConnected(r) == forward[r] = "waiting" /\ pending[r] = "open" /\ via[r] \in open

\* wait_for gives up on a future that is not resolved by then.
Overdue(r) == forward[r] = "waiting" /\ pending[r] = "open"

ForwardTimesOut(r) == Overdue(r) /\ ForwardEnds(r, "timed out")

-----------------------------------------------------------------------------
(* The other end *)
SocketBreaks(s) ==
  /\ s \in open
  /\ open' = open \ {s}
  /\ UNCHANGED <<hubVars, agentVars, forwardVars, frames, asked, answeredBy>>

\* One frame of a socket is on its way at a time (bound).
DaemonAnswers(s, r) ==
  /\ s \in open /\ agent[s] \in {"greeting", "serving"}
  /\ r \in asked[KeyOf[s]] /\ frames[s] = Nobody
  /\ frames' = [frames EXCEPT ![s] = r]
  /\ UNCHANGED <<hubVars, agentVars, forwardVars, open, asked, answeredBy>>

AgentStep(s) ==
  \/ AgentRegisters(s) \/ AgentDisplaces(s) \/ AgentGreets(s) \/ AgentGreetingFails(s)
  \/ AgentReceives(s) \/ AgentEnds(s)

ForwardStep(r) ==
  ForwardSends(r) \/ ForwardSendFails(r) \/ ForwardReturns(r) \/ ForwardTimesOut(r)

Next ==
  \/ \E s \in Sockets : AgentStep(s) \/ SocketBreaks(s) \/ \E r \in Requests : DaemonAnswers(s, r)
  \/ \E r \in Requests : ForwardStarts(r) \/ ForwardStep(r)

Spec == Init /\ [][Next]_vars

\* The event loop runs every coroutine that can go on; a send ends, for the
\* server's keepalive breaks a socket that stalls; wait_for has its timeout.
\* Nothing makes a socket break, a daemon answer, or anybody connect.
Fairness ==
  /\ \A s \in Sockets : /\ WF_vars(AgentDisplaces(s))
                        /\ WF_vars(AgentGreets(s) \/ AgentGreetingFails(s))
                        /\ WF_vars(AgentSeesDisconnect(s))
  /\ \A r \in Requests : WF_vars(ForwardStep(r))

FairSpec == Spec /\ Fairness

-----------------------------------------------------------------------------
\* A future is in the table while its request is in flight and not a moment
\* longer, however the request ends: the table does not grow.
PendingIsInFlight ==
  \A r \in Requests : pending[r] # "none" <=> forward[r] \in {"sending", "waiting"}

\* A request that is answered is answered by the daemon it was addressed to, though
\* frames are matched by request id alone and come late, twice, over old tunnels
\* and new ones.
AnsweredByAddressee ==
  \A r \in Requests : forward[r] = "answered" => answeredBy[r] = Addressee[r]

\* A tunnel that is replaced and goes away later does not take the key off the
\* hub: the newest tunnel is the one requests take for as long as it serves.
NewestTunnelServes ==
  \A k \in Keys :
    newest[k] # Nobody /\ agent[newest[k]] # "ended" => agents[k] = newest[k]

\* Every request ends, whatever becomes of the daemon and its socket.
EveryForwardEnds ==
  \A r \in Requests :
    forward[r] \in {"sending", "waiting"} ~> forward[r] \in {"answered", "timed out", "failed"}

\* One active tunnel per daemon: a tunnel that was replaced ends.
DisplacedEnds ==
  \A s \in Sockets :
    (agent[s] = "serving" /\ agents[KeyOf[s]] # s) ~> agent[s] = "ended"

\* What RelayHub's docstring says it is: a registry of connected daemons.  (A
\* tunnel that breaks before it is greeted is never taken off.)
RegistryOfConnected ==
  \A k \in Keys : agents[k] # Nobody => agent[agents[k]] # "ended"
=============================================================================
