----------------------------- MODULE DirectPush -----------------------------
(***************************************************************************)
(* POST /v1/push/ios and GET /v1/events of src/app/main.py: a notification *)
(* sent through the process's one ApnsClient (src/app/apns.py) and noted   *)
(* in push_events (src/app/db.py), all of it on the event loop.  A send    *)
(* yields at its HTTP request only; what follows the answer, the note and  *)
(* the response, is one step.                                              *)
(***************************************************************************)
EXTENDS Startup

CONSTANTS Pushes,         \* the notifications callers send
          TTL,            \* APNS_TOKEN_TTL
          SendTimeout,    \* the longest the HTTP client takes to deliver a request
          ProviderLifetime, \* how long APNs takes a provider token
          NoToken

ASSUME PushAssumptions ==
  /\ Pushes \subseteq Requests
  /\ TTL \in Nat \ {0} /\ SendTimeout \in Nat
  /\ ProviderLifetime \in Nat /\ TTL + SendTimeout <= ProviderLifetime
  /\ NoToken \notin Nat

VARIABLES cached,         \* _cached_token, known by the time it was issued
          events          \* push_events, in the order of their ids

pushVars == <<cached, events>>

\* What APNs answers, as the event's status has it.
Outcome == {"sent", "failed"}

PushTypeOK ==
  /\ cached \in 0..MaxTime \cup {NoToken}
  /\ events \in Seq([push: Pushes, outcome: Outcome])

PushInit == cached = NoToken /\ events = <<>>

-----------------------------------------------------------------------------
\* Mutant: the age of the token is not looked at.
FreshForever == cached # NoToken

Fresh == cached # NoToken /\ clock - cached < TTL

ProviderToken == IF Fresh THEN cached ELSE clock

\* The headers take a provider token, and the request goes out.
PushSends(p) ==
  /\ request[p] = Idle
  /\ Accept(p, [op |-> "push", token |-> ProviderToken, sent |-> clock])
  /\ cached' = ProviderToken
  /\ UNCHANGED events

\* cursor.lastrowid
LastRowId(list) == Len(list)

\* APNs has answered: insert_event, then a 200 that names the event's id, which may
\* not arrive.
PushRecorded(p) ==
  /\ request[p].op = "push"
  /\ \E outcome \in Outcome :
       /\ events' = Append(events, [push |-> p, outcome |-> outcome])
       /\ \E answer \in {[op |-> "pushed", id |-> LastRowId(events'), outcome |-> outcome], Lost} :
            Continue(p, answer)
  /\ UNCHANGED cached

\* The request fails or times out, or the database stays locked: 500, and no event,
\* whether the device was notified or not.
PushRaises(p) ==
  /\ request[p].op = "push"
  /\ Continue(p, [op |-> "raised"])
  /\ UNCHANGED pushVars

PushNext ==
  \E p \in Pushes \cap DOMAIN request : PushSends(p) \/ PushRecorded(p) \/ PushRaises(p)

\* A crash takes the client with its token.
PushCrash == cached' = NoToken /\ UNCHANGED events

\* No request is on its way for longer than the HTTP client allows.
InTime == \A p \in Pushes \cap DOMAIN request : request[p].op = "push" => clock - request[p].sent < SendTimeout

-----------------------------------------------------------------------------
\* APNs takes every request: however many sends share the token and however long
\* theirs takes, none arrives with one that has expired.
ProviderAccepts ==
  \A p \in Pushes \cap DOMAIN request : request[p].op = "push" => clock - request[p].token <= ProviderLifetime
=============================================================================
