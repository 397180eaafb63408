-------------------------- MODULE RelayHubProofs --------------------------
(***************************************************************************)
(* RelayHub's safety invariants, for any number of daemons, sockets and    *)
(* requests.                                                               *)
(***************************************************************************)
EXTENDS RelayHub, TLAPS

\* A daemon is asked what is addressed to it, and answers only what it was asked.
OnlyAsked ==
  /\ \A k \in Keys : \A r \in asked[k] : Addressee[r] = k
  /\ \A s \in Sockets : frames[s] # Nobody => frames[s] \in asked[KeyOf[s]]

\* A future that is resolved holds a frame of its addressee.
ResolvedByAddressee ==
  \A r \in Requests : pending[r] = "resolved" => answeredBy[r] = Addressee[r]

\* The newest tunnel of a key has registered, and proved that key.
NewestRegistered ==
  \A k \in Keys :
    newest[k] # Nobody => KeyOf[newest[k]] = k /\ agent[newest[k]] # "registering"

IInv ==
  /\ TypeOK
  /\ PendingIsInFlight
  /\ OnlyAsked /\ ResolvedByAddressee /\ AnsweredByAddressee
  /\ NewestRegistered /\ NewestTunnelServes

-----------------------------------------------------------------------------
LEMMA InitInv == Init => IInv
BY RelayAssumptions DEF Init, IInv, TypeOK, PendingIsInFlight, OnlyAsked, ResolvedByAddressee,
  AnsweredByAddressee, NewestRegistered, NewestTunnelServes

LEMMA AgentTyped ==
  ASSUME TypeOK, NEW s \in Sockets, AgentStep(s)
  PROVE  TypeOK'
<1> USE RelayAssumptions DEF TypeOK, hubVars, agentVars, forwardVars, wire
<1>1. CASE AgentRegisters(s)
  BY <1>1 DEF AgentRegisters, Registered
<1>2. CASE AgentDisplaces(s)
  BY <1>2 DEF AgentDisplaces, OpenAfterClose
<1>3. CASE AgentGreets(s)
  BY <1>3 DEF AgentGreets
<1>6. CASE AgentGreetingFails(s)
  BY <1>6 DEF AgentGreetingFails
<1>4. CASE AgentReceives(s)
  <2>1. frames[s] \in Requests
    BY <1>4 DEF AgentReceives
  <2>2. pending' \in [Requests -> {"none", "open", "resolved"}]
    BY <1>4, <2>1 DEF AgentReceives, Resolved
  <2>3. answeredBy' \in [Requests -> Keys \cup {Nobody}]
    BY <1>4 DEF AgentReceives
  <2> QED
    BY <1>4, <2>2, <2>3 DEF AgentReceives
<1>5. CASE AgentEnds(s)
  BY <1>5 DEF AgentEnds, Unregistered
<1> QED
  BY <1>1, <1>2, <1>3, <1>4, <1>5, <1>6 DEF AgentStep

LEMMA ForwardTyped ==
  ASSUME TypeOK, NEW r \in Requests, ForwardStarts(r) \/ ForwardStep(r)
  PROVE  TypeOK'
<1> USE RelayAssumptions DEF TypeOK, hubVars, agentVars, forwardVars, wire
<1>1. CASE ForwardStarts(r)
  BY <1>1 DEF ForwardStarts
<1>2. CASE ForwardSends(r)
  BY <1>2 DEF ForwardSends
<1>3. ASSUME NEW end \in {"answered", "timed out", "failed"}, ForwardEnds(r, end)
      PROVE  TypeOK'
  BY <1>3 DEF ForwardEnds, PendingAfter
<1> QED
  BY <1>1, <1>2, <1>3 DEF ForwardStep, ForwardSendFails, ForwardReturns, ForwardTimesOut

LEMMA StepTyped == TypeOK /\ [Next]_vars => TypeOK'
<1> SUFFICES ASSUME TypeOK, [Next]_vars PROVE TypeOK'
  OBVIOUS
<1>1. ASSUME NEW s \in Sockets, SocketBreaks(s)
      PROVE  TypeOK'
  BY <1>1 DEF SocketBreaks, TypeOK, hubVars, agentVars, forwardVars
<1>2. ASSUME NEW s \in Sockets, NEW r \in Requests, DaemonAnswers(s, r)
      PROVE  TypeOK'
  BY <1>2 DEF DaemonAnswers, TypeOK, hubVars, agentVars, forwardVars
<1>3. CASE UNCHANGED vars
  BY <1>3 DEF TypeOK, vars, hubVars, agentVars, forwardVars, wire
<1> QED
  BY <1>1, <1>2, <1>3, AgentTyped, ForwardTyped DEF Next

-----------------------------------------------------------------------------
\* What a step can do to a request: nothing, a frame that resolves its future, or a
\* step of its own call.
Quiet == UNCHANGED <<pending, forward, answeredBy>>

Resolves(s) ==
  /\ frames[s] \in Requests
  /\ pending' = Resolved(frames[s])
  /\ answeredBy' = [r \in Requests |-> IF pending'[r] # pending[r] THEN KeyOf[s]
                                       ELSE answeredBy[r]]
  /\ UNCHANGED <<forward, asked>>

Ends(r) == \E end \in {"answered", "timed out", "failed"} :
  /\ ForwardEnds(r, end)
  /\ forward[r] \in {"sending", "waiting"}
  /\ end = "answered" => pending[r] = "resolved"

Calls(r) == ForwardStarts(r) \/ ForwardSends(r) \/ Ends(r)

LEMMA RequestCases ==
  ASSUME TypeOK, [Next]_vars
  PROVE  \/ Quiet \/ \E s \in Sockets : Resolves(s)
         \/ \E r \in Requests : Calls(r)
<1> USE DEF hubVars, agentVars, forwardVars, wire
<1>1. ASSUME NEW s \in Sockets, AgentRegisters(s) \/ AgentDisplaces(s) \/ AgentGreets(s)
                              \/ AgentGreetingFails(s) \/ AgentEnds(s)
      PROVE  Quiet
  BY <1>1 DEF Quiet, AgentRegisters, AgentDisplaces, AgentGreets, AgentGreetingFails, AgentEnds
<1>2. ASSUME NEW s \in Sockets, AgentReceives(s) PROVE Resolves(s)
  <2>1. frames[s] \in Requests
    BY <1>2 DEF AgentReceives, TypeOK
  <2> QED
    BY <1>2, <2>1 DEF AgentReceives, Resolves
<1>3. ASSUME NEW s \in Sockets, NEW r \in Requests, DaemonAnswers(s, r)
      PROVE  Quiet
  BY <1>3 DEF Quiet, DaemonAnswers
<1>4. ASSUME NEW r \in Requests, ForwardStarts(r) \/ ForwardStep(r) PROVE Calls(r)
  BY <1>4 DEF Calls, Ends, ForwardStep, ForwardSendFails, ForwardReturns, ForwardTimesOut, Overdue
<1>5. CASE UNCHANGED vars
  BY <1>5 DEF Quiet, vars
<1>6. ASSUME NEW s \in Sockets, SocketBreaks(s) PROVE Quiet
  BY <1>6 DEF Quiet, SocketBreaks
<1> QED
  BY <1>1, <1>2, <1>3, <1>4, <1>5, <1>6 DEF Next, AgentStep

LEMMA InFlightStep ==
  ASSUME TypeOK, PendingIsInFlight, [Next]_vars
  PROVE  PendingIsInFlight'
<1>1. CASE Quiet
  BY <1>1 DEF Quiet, PendingIsInFlight
<1>2. ASSUME NEW s \in Sockets, Resolves(s) PROVE PendingIsInFlight'
  BY <1>2 DEF Resolves, Resolved, PendingIsInFlight, TypeOK
<1>3. ASSUME NEW r \in Requests, ForwardStarts(r) PROVE PendingIsInFlight'
  BY <1>3 DEF ForwardStarts, PendingIsInFlight, TypeOK
<1>4. ASSUME NEW r \in Requests, ForwardSends(r) PROVE PendingIsInFlight'
  BY <1>4 DEF ForwardSends, PendingIsInFlight, TypeOK, hubVars
<1>5. ASSUME NEW r \in Requests, Ends(r) PROVE PendingIsInFlight'
  BY <1>5 DEF Ends, ForwardEnds, PendingAfter, PendingIsInFlight, TypeOK
<1> QED
  BY <1>1, <1>2, <1>3, <1>4, <1>5, RequestCases DEF Calls

LEMMA OnlyAskedStep ==
  ASSUME TypeOK, OnlyAsked, [Next]_vars
  PROVE  OnlyAsked'
<1> USE RelayAssumptions DEF TypeOK, OnlyAsked, hubVars, agentVars, forwardVars, wire
<1>1. CASE UNCHANGED <<asked, frames>>
  BY <1>1
<1>2. ASSUME NEW s \in Sockets, AgentReceives(s) PROVE OnlyAsked'
  <2>1. frames' = [frames EXCEPT ![s] = Nobody] /\ asked' = asked
    BY <1>2 DEF AgentReceives
  <2>2. DOMAIN frames = Sockets
    OBVIOUS
  <2>3. \A q \in Sockets : frames'[q] = IF q = s THEN Nobody ELSE frames[q]
    BY <2>1, <2>2, Zenon
  <2> QED
    BY <2>1, <2>3
<1>3. ASSUME NEW s \in Sockets, NEW r \in Requests, DaemonAnswers(s, r) PROVE OnlyAsked'
  <2>1. \A q \in Sockets : frames'[q] = IF q = s THEN r ELSE frames[q]
    BY <1>3 DEF DaemonAnswers
  <2>2. asked' = asked /\ r \in asked[KeyOf[s]]
    BY <1>3 DEF DaemonAnswers
  <2> QED
    BY <2>1, <2>2
<1>4. ASSUME NEW r \in Requests, ForwardSends(r) PROVE OnlyAsked'
  BY <1>4 DEF ForwardSends
<1>5. ASSUME NEW s \in Sockets, AgentStep(s), ~AgentReceives(s)
      PROVE  UNCHANGED <<asked, frames>>
  BY <1>5 DEF AgentStep, AgentRegisters, AgentDisplaces, AgentGreets, AgentGreetingFails, AgentEnds
<1>6. ASSUME NEW r \in Requests, ForwardStarts(r) \/ ForwardStep(r), ~ForwardSends(r)
      PROVE  UNCHANGED <<asked, frames>>
  BY <1>6 DEF ForwardStep, ForwardStarts, ForwardSendFails, ForwardReturns, ForwardTimesOut, ForwardEnds
<1>7. ASSUME NEW s \in Sockets, SocketBreaks(s) PROVE UNCHANGED <<asked, frames>>
  BY <1>7 DEF SocketBreaks
<1>8. CASE UNCHANGED vars
  BY <1>8, <1>1 DEF vars
<1> QED
  BY <1>1, <1>2, <1>3, <1>4, <1>5, <1>6, <1>7, <1>8 DEF Next

LEMMA AnswerStep ==
  ASSUME TypeOK, PendingIsInFlight, OnlyAsked, ResolvedByAddressee, AnsweredByAddressee,
         [Next]_vars
  PROVE  ResolvedByAddressee' /\ AnsweredByAddressee'
<1> USE DEF ResolvedByAddressee, AnsweredByAddressee, TypeOK
<1>1. CASE Quiet
  BY <1>1 DEF Quiet
<1>2. ASSUME NEW s \in Sockets, Resolves(s) PROVE ResolvedByAddressee' /\ AnsweredByAddressee'
  <2>1. Addressee[frames[s]] = KeyOf[s]
    BY <1>2, RelayAssumptions DEF Resolves, OnlyAsked
  <2>2. \A r \in Requests :
          \/ pending'[r] = pending[r] /\ answeredBy'[r] = answeredBy[r]
          \/ pending[r] = "open" /\ answeredBy'[r] = Addressee[r]
    BY <1>2, <2>1 DEF Resolves, Resolved
  <2> QED
    BY <1>2, <2>2 DEF Resolves, PendingIsInFlight
<1>3. ASSUME NEW r \in Requests, ForwardStarts(r)
      PROVE  ResolvedByAddressee' /\ AnsweredByAddressee'
  BY <1>3 DEF ForwardStarts
<1>4. ASSUME NEW r \in Requests, ForwardSends(r)
      PROVE  ResolvedByAddressee' /\ AnsweredByAddressee'
  BY <1>4 DEF ForwardSends, hubVars
<1>5. ASSUME NEW r \in Requests, Ends(r)
      PROVE  ResolvedByAddressee' /\ AnsweredByAddressee'
  BY <1>5 DEF Ends, ForwardEnds, PendingAfter
<1> QED
  BY <1>1, <1>2, <1>3, <1>4, <1>5, RequestCases DEF Calls

LEMMA NewestStep ==
  ASSUME TypeOK, NewestRegistered, NewestTunnelServes, [Next]_vars
  PROVE  NewestRegistered' /\ NewestTunnelServes'
<1> USE RelayAssumptions DEF TypeOK, NewestRegistered, NewestTunnelServes, hubVars, agentVars
<1>1. CASE UNCHANGED <<agents, agent, newest>>
  BY <1>1
<1>2. ASSUME NEW s \in Sockets, AgentRegisters(s)
      PROVE  NewestRegistered' /\ NewestTunnelServes'
  BY <1>2 DEF AgentRegisters, Registered
<1>3. ASSUME NEW s \in Sockets, AgentDisplaces(s) \/ AgentGreets(s) \/ AgentGreetingFails(s)
      PROVE  NewestRegistered' /\ NewestTunnelServes'
  <2>1. /\ UNCHANGED <<agents, newest>>
        /\ \A q \in Sockets \ {s} : agent'[q] = agent[q]
        /\ agent[s] \notin {"registering", "ended"} /\ agent'[s] # "registering"
    BY <1>3 DEF AgentDisplaces, AgentGreets, AgentGreetingFails
  <2> QED
    BY <2>1
<1>4. ASSUME NEW s \in Sockets, AgentEnds(s)
      PROVE  NewestRegistered' /\ NewestTunnelServes'
  BY <1>4 DEF AgentEnds, Unregistered
<1>5. ASSUME NEW s \in Sockets,
             AgentReceives(s) \/ SocketBreaks(s) \/ \E r \in Requests : DaemonAnswers(s, r)
      PROVE  UNCHANGED <<agents, agent, newest>>
  BY <1>5 DEF AgentReceives, SocketBreaks, DaemonAnswers
<1>6. ASSUME NEW r \in Requests, ForwardStarts(r) \/ ForwardStep(r)
      PROVE  UNCHANGED <<agents, agent, newest>>
  BY <1>6 DEF ForwardStep, ForwardStarts, ForwardSends, ForwardSendFails, ForwardReturns,
              ForwardTimesOut, ForwardEnds
<1>7. CASE UNCHANGED vars
  BY <1>7, <1>1 DEF vars
<1> QED
  BY <1>1, <1>2, <1>3, <1>4, <1>5, <1>6, <1>7 DEF Next, AgentStep

LEMMA Invariance == Spec => []IInv
<1>1. IInv /\ [Next]_vars => IInv'
  BY StepTyped, InFlightStep, OnlyAskedStep, AnswerStep, NewestStep DEF IInv
<1> QED
  BY <1>1, InitInv, PTL DEF Spec

\* Every request and socket has its type from the first state on: the tables never
\* hold a key, a request or a future that is none.
THEOREM TypeCorrect == Spec => []TypeOK
<1>1. Init => TypeOK
  BY InitInv DEF IInv
<1> QED
  BY <1>1, StepTyped, PTL DEF Spec
\* The table of futures holds those in flight and no other, however calls end: it
\* does not grow with the calls a courier has served.
THEOREM NoPendingLeak == Spec => []PendingIsInFlight
BY Invariance, PTL DEF IInv

\* Matching frames by request id alone never hands a caller another daemon's answer.
THEOREM RightAnswer == Spec => []AnsweredByAddressee
BY Invariance, PTL DEF IInv

\* However many tunnels a daemon opens and loses, requests take the newest while it
\* serves.
THEOREM NewestServes == Spec => []NewestTunnelServes
BY Invariance, PTL DEF IInv
=============================================================================
