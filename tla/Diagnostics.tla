---------------------------- MODULE Diagnostics ----------------------------
(***************************************************************************)
(* Short-lived sessions that take a controller's console output and let an *)
(* administrator poll it: src/app/oelo_diagnostics.py.                     *)
(*                                                                         *)
(* All of it is in memory behind one lock, and every handler holds the     *)
(* lock for all it does.  But it reads the clock first, so its "now" may   *)
(* be older than that of the handler before it.  Ingest runs on the event  *)
(* loop, where nothing comes between its clock and its lock but a wait for *)
(* the lock: the times of accepted posts do not go back.                   *)
(***************************************************************************)
EXTENDS Naturals, FiniteSets, Sequences

CONSTANTS Sessions,       \* session ids uuid4 may produce
          NoSession, Gone,
          Lifetimes,      \* the ttl values asked for
          MaxActive,      \* MAX_ACTIVE_SESSIONS
          MaxBuffered,    \* MAX_BUFFERED_LINES
          MaxBatch,       \* MAX_BATCH_LINES
          MaxPosts,       \* MAX_POSTS_PER_SECOND
          Second,         \* one second, in ticks of the clock
          Limits,         \* the limits polls ask for
          MaxLag,         \* bound on the age of a handler's "now"
          MaxLines,       \* bound on the lines of a session
          MaxTime         \* bound on the clock

ASSUME DiagnosticsAssumptions ==
  /\ Lifetimes \subseteq Nat \ {0} /\ Limits \subseteq Nat \ {0}
  /\ {MaxActive, MaxBuffered, MaxBatch, MaxPosts, Second} \subseteq Nat \ {0}
  /\ {MaxLag, MaxLines, MaxTime} \subseteq Nat

VARIABLES clock,
          sessions,       \* _sessions; Gone for an id that is used up
          lastPost,       \* the "now" of the last ingest, on the event loop
          accepted,       \* times of the posts a session accepted (history)
          after,          \* the cursor the administrator polls from
          read, missed    \* the cursors answered to polls, in order, and those
                          \* evicted before they were (history)

vars == <<clock, sessions, lastPost, accepted, after, read, missed>>

-----------------------------------------------------------------------------
Line == [cursor: Nat, received: Nat]

Session == [expires: Nat, next: Nat \ {0}, lines: Seq(Line), posts: Seq(Nat)]

ASSUME NoSessionIsNone == {NoSession, Gone} \cap Session = {} /\ NoSession # Gone

TypeOK ==
  /\ clock \in 0..MaxTime
  /\ sessions \in [Sessions -> Session \cup {NoSession, Gone}]
  /\ lastPost \in Nat
  /\ accepted \in [Sessions -> Seq(Nat)]
  /\ after \in [Sessions -> Nat]
  /\ read \in [Sessions -> Seq(Nat)]
  /\ missed \in [Sessions -> SUBSET Nat]

Init ==
  /\ clock = 0
  /\ sessions = [i \in Sessions |-> NoSession]
  /\ lastPost = 0
  /\ accepted = [i \in Sessions |-> <<>>]
  /\ after = [i \in Sessions |-> 0]
  /\ read = [i \in Sessions |-> <<>>]
  /\ missed = [i \in Sessions |-> {}]

-----------------------------------------------------------------------------
Active(s) == {i \in Sessions : s[i] \notin {NoSession, Gone}}

\* A handler's clock reading, taken before it has the lock.
Readings == {n \in 0..clock : clock <= n + MaxLag}

Expired(s, i, now) == s[i].expires <= now

\* _purge_expired
Purged(now) ==
  [i \in Sessions |-> IF i \in Active(sessions) /\ Expired(sessions, i, now)
                      THEN Gone ELSE sessions[i]]

Room(s) == Cardinality(Active(s)) < MaxActive

NewSession(now, ttl) == [expires |-> now + ttl, next |-> 1, lines |-> <<>>, posts |-> <<>>]

(* POST /sessions.  Refused, it has purged the expired ones all the same. *)
Create ==
  \E now \in Readings, ttl \in Lifetimes, i \in Sessions :
    /\ sessions[i] = NoSession
    /\ sessions' = IF Room(Purged(now))
                   THEN [Purged(now) EXCEPT ![i] = NewSession(now, ttl)]
                   ELSE Purged(now)
    /\ UNCHANGED <<clock, lastPost, accepted, after, read, missed>>

\* Mutant: posts of this very second are forgotten too.
ForgottenSoon(t, now) == t <= now

\* A post a full second ago no longer counts.
Forgotten(t, now) == t + Second <= now

\* The loop pops the posts before the first that still counts.
RecentPosts(session, now) ==
  LET posts == session.posts
      popped == CHOOSE m \in 0..Len(posts) :
                  /\ \A j \in 1..m : Forgotten(posts[j], now)
                  /\ m < Len(posts) => ~Forgotten(posts[m + 1], now)
  IN SubSeq(posts, popped + 1, Len(posts))

\* Mutant: every line of a batch gets the same cursor.
BatchAtOnce(next, now, n) == [j \in 1..n |-> [cursor |-> next, received |-> now]]

Batch(next, now, n) == [j \in 1..n |-> [cursor |-> next + j - 1, received |-> now]]

\* deque(maxlen = MaxBuffered): the oldest lines fall off.
Buffered(lines) ==
  IF Len(lines) <= MaxBuffered THEN lines
  ELSE SubSeq(lines, Len(lines) - MaxBuffered + 1, Len(lines))

Cursors(lines) == {lines[j].cursor : j \in DOMAIN lines}

\* No live session has that id, or the token is another's: the answer is 404 or 401.
TurnedAway ==
  \E now \in Readings :
    /\ sessions' = Purged(now)
    /\ lastPost' \in {t \in {lastPost, now} : lastPost <= t}   \* a poll or an ingest
    /\ UNCHANGED <<clock, accepted, after, read, missed>>

(* POST /sessions/{id}/logs, a batch of n lines with the session's token; a      *)
(* refusal leaves the purge and what the rate limit forgot.                       *)
Ingest(i, n) ==
  \E now \in Readings :
    /\ lastPost <= now /\ lastPost' = now
    /\ i \in Active(Purged(now))
    /\ LET session == sessions[i]
           recent == RecentPosts(session, now)
           lines == session.lines \o Batch(session.next, now, n)
       IN IF Len(recent) >= MaxPosts \/ n > MaxBatch
          THEN /\ sessions' = [Purged(now) EXCEPT ![i].posts = recent]
               /\ UNCHANGED <<accepted, missed>>
          ELSE /\ session.next + n <= MaxLines + 1
               /\ sessions' = [Purged(now) EXCEPT ![i] =
                                 [session EXCEPT !.posts = Append(recent, now),
                                                 !.lines = Buffered(lines), !.next = @ + n]]
               /\ accepted' = [accepted EXCEPT ![i] = Append(@, now)]
               /\ missed' = [missed EXCEPT ![i] = @ \cup
                               {c \in Cursors(lines) \ Cursors(Buffered(lines)) : c > after[i]}]
    /\ UNCHANGED <<clock, after, read>>

\* Mutant: the line at the cursor a is among the newer ones.
PolledAgain(session, a, limit) ==
  LET older == Cardinality({j \in DOMAIN session.lines : session.lines[j].cursor < a})
      all == Len(session.lines)
  IN SubSeq(session.lines, older + 1, IF older + limit < all THEN older + limit ELSE all)

\* The lines newer than cursor a, at most limit of them.  Cursors ascend in the
\* buffer (BufferIsNewest), so the newer ones are its last.
Polled(session, a, limit) ==
  LET older == Cardinality({j \in DOMAIN session.lines : session.lines[j].cursor <= a})
      all == Len(session.lines)
  IN SubSeq(session.lines, older + 1, IF older + limit < all THEN older + limit ELSE all)

NextCursor(session, lines, a) == IF lines = <<>> THEN a ELSE lines[Len(lines)].cursor

CursorList(lines) == [j \in DOMAIN lines |-> lines[j].cursor]

(* GET /sessions/{id}/tail, polled with the nextCursor of the answer before *)
Poll(i, limit) ==
  \E now \in Readings :
    /\ i \in Active(Purged(now))
    /\ sessions' = Purged(now)
    /\ LET lines == Polled(sessions[i], after[i], limit)
       IN /\ read' = [read EXCEPT ![i] = @ \o CursorList(lines)]
          /\ after' = [after EXCEPT ![i] = NextCursor(sessions[i], lines, @)]
    /\ UNCHANGED <<clock, lastPost, accepted, missed>>

(* DELETE /sessions/{id}, expired or not *)
Delete(i) ==
  /\ i \in Active(sessions)
  /\ sessions' = [sessions EXCEPT ![i] = Gone]
  /\ UNCHANGED <<clock, lastPost, accepted, after, read, missed>>

Tick ==
  /\ clock < MaxTime /\ clock' = clock + 1
  /\ UNCHANGED <<sessions, lastPost, accepted, after, read, missed>>

Next ==
  \/ Create \/ TurnedAway \/ Tick
  \/ \E i \in Sessions :
       \/ Delete(i)
       \/ \E n \in 1..(MaxBatch + 1) : Ingest(i, n)
       \/ \E limit \in Limits : Poll(i, limit)

Spec == Init /\ [][Next]_vars

-----------------------------------------------------------------------------
\* A session accepts at most MaxPosts posts in any second (docs/oelo-diagnostics.md).
RateBounded ==
  \A i \in Sessions : \A k \in DOMAIN accepted[i] :
    LET post == accepted[i]
    IN Cardinality({j \in DOMAIN post :
                      post[j] <= post[k] /\ post[k] < post[j] + Second}) <= MaxPosts

\* A session keeps the newest lines, MaxBuffered of them, without a gap, and none
\* that came at its expiry or later.
BufferIsNewest ==
  \A i \in Active(sessions) :
    LET s == sessions[i]
    IN /\ Len(s.lines) = IF s.next - 1 < MaxBuffered THEN s.next - 1 ELSE MaxBuffered
       /\ \A j \in DOMAIN s.lines :
            /\ s.lines[j].cursor = s.next - 1 - (Len(s.lines) - j)
            /\ s.lines[j].received < s.expires

\* Sessions are of their types and their buffers hold what they should.
BufferInv == TypeOK /\ BufferIsNewest

Seen(i) == {read[i][j] : j \in DOMAIN read[i]}

\* An administrator who polls with the cursor of the last answer is answered every
\* line up to it, in order and none a second time, but those that fell off the
\* buffer before the poll.
PollsEverything ==
  \A i \in Sessions :
    /\ \A j, k \in DOMAIN read[i] : j < k => read[i][j] < read[i][k]
    /\ Seen(i) \cap missed[i] = {}
    /\ 1..after[i] = Seen(i) \cup {c \in missed[i] : c <= after[i]}
=============================================================================
