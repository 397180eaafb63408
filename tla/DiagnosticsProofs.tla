------------------------- MODULE DiagnosticsProofs -------------------------
(***************************************************************************)
(* The rate limit, the buffers and the cursors of diagnostic sessions, for *)
(* any limits, any number of sessions and any lag of the handlers' clocks. *)
(*                                                                         *)
(* What a handler does to one session depends on that session alone, so    *)
(* the invariant says of each session by itself that its posts and its     *)
(* lines are sound, and the lemmas are about one session.                  *)
(***************************************************************************)
EXTENDS Diagnostics, FiniteSetTheorems, SequenceTheorems, WellFoundedInduction, TLAPS

\* The rate limit, of the posts accepted by one session.
RateKept(acc) ==
  \A k \in DOMAIN acc :
    Cardinality({j \in DOMAIN acc : acc[j] <= acc[k] /\ acc[k] < acc[j] + Second}) <= MaxPosts

\* Posts were accepted in order of time, and what a session still remembers of
\* them is the last, the others being a second old at least.
PostsSound(s, acc, last) ==
  /\ \A j, k \in DOMAIN acc : j <= k => acc[j] <= acc[k]
  /\ \A j \in DOMAIN acc : acc[j] <= last
  /\ RateKept(acc)
  /\ s = NoSession => acc = <<>>
  /\ s \in Session =>
       /\ Len(s.posts) <= Len(acc)
       /\ \A j \in 1..Len(s.posts) : s.posts[j] = acc[Len(acc) - Len(s.posts) + j]
       /\ \A j \in 1..(Len(acc) - Len(s.posts)) : acc[j] + Second <= last

\* The oldest cursor in the buffer, the next one if it is empty.
First(s) == s.next - Len(s.lines)

IsNewest(s) ==
  /\ Len(s.lines) = IF s.next - 1 < MaxBuffered THEN s.next - 1 ELSE MaxBuffered
  /\ \A j \in DOMAIN s.lines :
       /\ s.lines[j].cursor = s.next - 1 - (Len(s.lines) - j)
       /\ s.lines[j].received < s.expires

\* What was read, as a sequence, is in order and without repetition.
Ascending(r) == \A j, k \in DOMAIN r : j < k => r[j] < r[k]

Elements(r) == {r[j] : j \in DOMAIN r}

\* Every line was read, was missed, or is still in the buffer.
LinesSound(s, a, r, m) ==
  /\ r \cap m = {} /\ 1..a = r \cup {c \in m : c <= a}
  /\ s = NoSession => a = 0 /\ r = {} /\ m = {}
  /\ s \in Session =>
       /\ IsNewest(s)
       /\ a < s.next
       /\ \A c \in m : c < First(s)
       /\ \A c \in Nat : a < c /\ c < First(s) => c \in m

IInv ==
  /\ TypeOK
  /\ \A i \in Sessions : PostsSound(sessions[i], accepted[i], lastPost)
  /\ \A i \in Sessions : LinesSound(sessions[i], after[i], Elements(read[i]), missed[i])
  /\ \A i \in Sessions : Ascending(read[i])

-----------------------------------------------------------------------------
(* Posts. *)

LEMMA Constants ==
  /\ MaxPosts \in Nat /\ MaxPosts > 0 /\ Second \in Nat /\ Second > 0
  /\ MaxBuffered \in Nat /\ MaxBuffered > 0 /\ MaxLag \in Nat /\ MaxTime \in Nat
  /\ MaxBatch \in Nat
BY DiagnosticsAssumptions

LEMMA LeastElement ==
  ASSUME NEW T, T \subseteq Nat, T # {}
  PROVE  \E x \in T : \A y \in T : x <= y
<1>1. PICK x \in T : \A y \in T : ~(<<y, x>> \in OpToRel(<, Nat))
  BY NatLessThanWellFounded, WFMin
<1>2. \A y \in T : <<y, x>> \in OpToRel(<, Nat) <=> y < x
  BY DEF OpToRel
<1>3. \A y \in T : ~(y < x)
  BY <1>1, <1>2
<1> QED
  BY <1>3

\* The loop stops somewhere.
LEMMA LoopStops ==
  ASSUME NEW posts \in Seq(Nat), NEW now \in Nat
  PROVE  \E m \in 0..Len(posts) :
           /\ \A j \in 1..m : Forgotten(posts[j], now)
           /\ m < Len(posts) => ~Forgotten(posts[m + 1], now)
<1> DEFINE T == {k \in 1..Len(posts) : ~Forgotten(posts[k], now)}
<1>1. CASE T = {}
  <2>1. Len(posts) \in 0..Len(posts) /\ \A j \in 1..Len(posts) : Forgotten(posts[j], now)
    BY <1>1
  <2> QED
    BY <2>1
<1>2. CASE T # {}
  <2>1. PICK k \in T : \A y \in T : k <= y
    <3>1. T \subseteq Nat
      OBVIOUS
    <3> HIDE DEF T
    <3> QED
      BY <1>2, <3>1, LeastElement
  <2>2. k - 1 \in 0..Len(posts) /\ (k - 1) + 1 = k /\ ~Forgotten(posts[k], now)
    BY <2>1
  <2>3. \A j \in 1..(k - 1) : Forgotten(posts[j], now)
    BY <2>1
  <2> QED
    BY <2>2, <2>3
<1> QED
  BY <1>1, <1>2

LEMMA SliceIs ==
  ASSUME NEW S, NEW s \in Seq(S), NEW n \in 0..Len(s), NEW m \in 0..n
  PROVE  /\ SubSeq(s, m + 1, n) \in Seq(S)
         /\ Len(SubSeq(s, m + 1, n)) = n - m
         /\ \A j \in 1..(n - m) : SubSeq(s, m + 1, n)[j] = s[m + j]
<1>1. n \in Int /\ m + 1 \in Int /\ \A i \in (m + 1)..n : s[i] \in S
  OBVIOUS
<1>2. /\ SubSeq(s, m + 1, n) \in Seq(S)
      /\ Len(SubSeq(s, m + 1, n)) = IF m + 1 <= n THEN n - (m + 1) + 1 ELSE 0
      /\ \A i \in 1..(n - (m + 1) + 1) : SubSeq(s, m + 1, n)[i] = s[(m + 1) + i - 1]
  BY <1>1, SubSeqProperties
<1>3. \A j \in 1..(n - m) : (m + 1) + j - 1 = m + j
  BY <1>1
<1> QED
  BY <1>1, <1>2, <1>3

LEMMA SuffixIs ==
  ASSUME NEW S, NEW s \in Seq(S), NEW m \in 0..Len(s)
  PROVE  /\ SubSeq(s, m + 1, Len(s)) \in Seq(S)
         /\ Len(SubSeq(s, m + 1, Len(s))) = Len(s) - m
         /\ \A j \in 1..(Len(s) - m) : SubSeq(s, m + 1, Len(s))[j] = s[m + j]
<1>1. Len(s) \in 0..Len(s)
  OBVIOUS
<1> QED
  BY <1>1, SliceIs

\* What the loop leaves: the posts after some m, all m of them a second old.
LEMMA RecentIs ==
  ASSUME NEW s \in Session, NEW now \in Nat
  PROVE  \E m \in 0..Len(s.posts) :
           /\ RecentPosts(s, now) \in Seq(Nat)
           /\ Len(RecentPosts(s, now)) = Len(s.posts) - m
           /\ \A j \in 1..(Len(s.posts) - m) : RecentPosts(s, now)[j] = s.posts[m + j]
           /\ \A j \in 1..m : s.posts[j] + Second <= now
<1> DEFINE posts == s.posts
           Stop(m) == /\ \A j \in 1..m : Forgotten(posts[j], now)
                      /\ m < Len(posts) => ~Forgotten(posts[m + 1], now)
           m == CHOOSE k \in 0..Len(posts) : Stop(k)
<1>1. posts \in Seq(Nat)
  BY DEF Session
<1>2. \E k \in 0..Len(posts) : Stop(k)
  <2> HIDE DEF posts
  <2> QED
    BY <1>1, LoopStops
<1>3. m \in 0..Len(posts) /\ Stop(m)
  <2> HIDE DEF Stop
  <2> QED
    BY <1>2
<1>4. RecentPosts(s, now) = SubSeq(posts, m + 1, Len(posts))
  BY DEF RecentPosts
<1>5. \A j \in 1..m : posts[j] + Second <= now
  BY <1>3 DEF Forgotten
<1>6. m \in 0..Len(posts)
  BY <1>3
<1> HIDE DEF m, posts
<1>7. /\ RecentPosts(s, now) \in Seq(Nat)
      /\ Len(RecentPosts(s, now)) = Len(posts) - m
      /\ \A j \in 1..(Len(posts) - m) : RecentPosts(s, now)[j] = posts[m + j]
  BY <1>1, <1>4, <1>6, SuffixIs
<1> QED
  BY <1>5, <1>6, <1>7 DEF posts

LEMMA WithPosts ==
  ASSUME NEW s \in Session, NEW p \in Seq(Nat)
  PROVE  LET t == [s EXCEPT !.posts = p]
         IN /\ t \in Session /\ t # NoSession
            /\ t.posts = p /\ t.lines = s.lines /\ t.next = s.next /\ t.expires = s.expires
<1> DEFINE t == [s EXCEPT !.posts = p]
<1>1. t \in Session /\ t.posts = p /\ t.lines = s.lines /\ t.next = s.next /\ t.expires = s.expires
  BY DEF Session
<1> QED
  BY <1>1, NoSessionIsNone

LEMMA PostsLater ==
  ASSUME NEW s, NEW acc \in Seq(Nat), NEW last \in Nat, NEW now \in Nat, last <= now,
         PostsSound(s, acc, last)
  PROVE  PostsSound(s, acc, now)
<1>1. \A j \in DOMAIN acc : acc[j] \in Nat
  OBVIOUS
<1>2. \A j \in DOMAIN acc : acc[j] <= now
  BY <1>1 DEF PostsSound
<1>3. s \in Session => \A j \in 1..(Len(acc) - Len(s.posts)) : acc[j] + Second <= now
  <2> SUFFICES ASSUME s \in Session, NEW j \in 1..(Len(acc) - Len(s.posts))
               PROVE  acc[j] + Second <= now
    OBVIOUS
  <2>1. Len(s.posts) \in Nat /\ acc[j] + Second <= last
    BY DEF PostsSound, Session
  <2>2. acc[j] \in Nat
    BY <2>1
  <2> QED
    BY <2>1, <2>2, Constants
<1> QED
  BY <1>2, <1>3 DEF PostsSound

LEMMA PostsGone ==
  ASSUME NEW s, NEW acc, NEW last, PostsSound(s, acc, last)
  PROVE  PostsSound(Gone, acc, last)
BY NoSessionIsNone DEF PostsSound

LEMMA PostsNew ==
  ASSUME NEW acc, NEW last, PostsSound(NoSession, acc, last), NEW now, NEW ttl
  PROVE  PostsSound(NewSession(now, ttl), acc, last)
BY DEF PostsSound, NewSession

\* Forgetting posts that are a second old.
LEMMA PostsForgotten ==
  ASSUME NEW s \in Session, NEW acc \in Seq(Nat), NEW last \in Nat, NEW now \in Nat,
         last <= now, PostsSound(s, acc, last)
  PROVE  PostsSound([s EXCEPT !.posts = RecentPosts(s, now)], acc, now)
<1> DEFINE recent == RecentPosts(s, now)
           n == Len(s.posts)
           t == [s EXCEPT !.posts = recent]
<1>1. PICK m \in 0..n :
        /\ recent \in Seq(Nat) /\ Len(recent) = n - m
        /\ \A j \in 1..(n - m) : recent[j] = s.posts[m + j]
        /\ \A j \in 1..m : s.posts[j] + Second <= now
  BY RecentIs
<1>2. n \in Nat /\ n <= Len(acc) /\ Len(acc) \in Nat
  BY DEF PostsSound, Session
<1>3. t \in Session /\ t.posts = recent /\ t # NoSession
  BY <1>1, WithPosts
<1>4. PostsSound(s, acc, now)
  BY PostsLater
<1> HIDE DEF recent, t, n
<1>5. Len(recent) <= Len(acc)
  BY <1>1, <1>2
<1>6. \A j \in 1..Len(recent) : recent[j] = acc[Len(acc) - Len(recent) + j]
  <2> SUFFICES ASSUME NEW j \in 1..Len(recent)
               PROVE  recent[j] = acc[Len(acc) - Len(recent) + j]
    OBVIOUS
  <2>1. recent[j] = s.posts[m + j] /\ m + j \in 1..n
    BY <1>1, <1>2
  <2>2. s.posts[m + j] = acc[Len(acc) - n + (m + j)]
    BY <1>4, <2>1 DEF PostsSound, n
  <2>3. Len(acc) - n + (m + j) = Len(acc) - Len(recent) + j
    BY <1>1, <1>2
  <2> QED
    BY <2>1, <2>2, <2>3
<1>7. \A j \in 1..(Len(acc) - Len(recent)) : acc[j] + Second <= now
  <2> SUFFICES ASSUME NEW j \in 1..(Len(acc) - Len(recent))
               PROVE  acc[j] + Second <= now
    OBVIOUS
  <2>1. CASE j \in 1..(Len(acc) - n)
    BY <1>4, <2>1 DEF PostsSound, n
  <2>2. CASE j \notin 1..(Len(acc) - n)
    <3> DEFINE k == j - (Len(acc) - n)
    <3>1. k \in 1..m /\ k \in 1..n /\ Len(acc) - n + k = j
      BY <1>1, <1>2, <2>2
    <3>2. s.posts[k] = acc[Len(acc) - n + k]
      BY <1>4, <3>1 DEF PostsSound, n
    <3> QED
      BY <1>1, <3>1, <3>2
  <2> QED
    BY <2>1, <2>2
<1>8. PostsSound(t, acc, now)
  BY <1>3, <1>4, <1>5, <1>6, <1>7 DEF PostsSound
<1> QED
  BY <1>8 DEF t, recent

LEMMA AppendIs ==
  ASSUME NEW acc \in Seq(Nat), NEW now \in Nat
  PROVE  /\ Append(acc, now) \in Seq(Nat)
         /\ Len(Append(acc, now)) = Len(acc) + 1 /\ Len(acc) \in Nat
         /\ DOMAIN Append(acc, now) = 1..(Len(acc) + 1) /\ DOMAIN acc = 1..Len(acc)
         /\ \A j \in 1..Len(acc) : Append(acc, now)[j] = acc[j] /\ acc[j] \in Nat
         /\ Append(acc, now)[Len(acc) + 1] = now
OBVIOUS

\* The posts of the last second are the new one and some of those remembered, so
\* there are at most as many as were remembered and one.
LEMMA RateStillKept ==
  ASSUME NEW acc \in Seq(Nat), NEW now \in Nat, RateKept(acc),
         \A j \in DOMAIN acc : acc[j] <= now,
         NEW n \in Nat, n < MaxPosts, n <= Len(acc),
         \A j \in 1..(Len(acc) - n) : acc[j] + Second <= now
  PROVE  RateKept(Append(acc, now))
<1> DEFINE new == Append(acc, now)
           Around(k) == {j \in DOMAIN new : new[j] <= new[k] /\ new[k] < new[j] + Second}
           last == (Len(acc) - n + 1)..(Len(acc) + 1)
<1>1. /\ DOMAIN new = 1..(Len(acc) + 1) /\ DOMAIN acc = 1..Len(acc) /\ Len(acc) \in Nat
      /\ \A j \in 1..Len(acc) : new[j] = acc[j] /\ acc[j] \in Nat /\ acc[j] <= now
      /\ new[Len(acc) + 1] = now
  BY AppendIs
<1> HIDE DEF new
<1>2. ASSUME NEW k \in DOMAIN new, new[k] = now
      PROVE  Cardinality(Around(k)) <= MaxPosts
  <2>1. Around(k) \in SUBSET last
    <3> SUFFICES ASSUME NEW j \in DOMAIN new, now < new[j] + Second
                 PROVE  j \in last
      BY <1>2
    <3>1. j \in 1..(Len(acc) + 1)
      BY <1>1
    <3>2. ~(j \in 1..(Len(acc) - n))
      <4> SUFFICES ASSUME j \in 1..(Len(acc) - n) PROVE FALSE
        OBVIOUS
      <4>1. j \in 1..Len(acc) /\ new[j] = acc[j] /\ acc[j] \in Nat
        BY <1>1
      <4>2. acc[j] + Second <= now
        OBVIOUS
      <4> QED
        BY <4>1, <4>2, Constants
    <3> QED
      BY <1>1, <3>1, <3>2
  <2>2. IsFiniteSet(last) /\ Cardinality(last) = n + 1
    BY <1>1, FS_Interval
  <2> HIDE DEF last, Around
  <2>3. Cardinality(Around(k)) <= n + 1 /\ IsFiniteSet(Around(k))
    BY <2>1, <2>2, FS_Subset
  <2>4. Cardinality(Around(k)) \in Nat
    BY <2>3, FS_CardinalityType
  <2> QED
    BY <2>3, <2>4, Constants
<1>3. ASSUME NEW k \in DOMAIN new, new[k] # now
      PROVE  Cardinality(Around(k)) <= MaxPosts
  <2>1. k \in DOMAIN acc /\ new[k] = acc[k] /\ acc[k] < now
    BY <1>1, <1>3
  <2>2. Around(k) = {j \in DOMAIN acc : acc[j] <= acc[k] /\ acc[k] < acc[j] + Second}
    BY <1>1, <2>1
  <2> QED
    BY <2>1, <2>2 DEF RateKept
<1> QED
  BY <1>2, <1>3 DEF RateKept, new

\* An accepted post.
LEMMA PostsAppended ==
  ASSUME NEW s \in Session, NEW acc \in Seq(Nat), NEW now \in Nat,
         PostsSound(s, acc, now), Len(s.posts) < MaxPosts,
         NEW t \in Session, t.posts = Append(s.posts, now)
  PROVE  PostsSound(t, Append(acc, now), now)
<1> DEFINE n == Len(s.posts)
           new == Append(acc, now)
<1>1. /\ n \in Nat /\ n < MaxPosts /\ n <= Len(acc) /\ s.posts \in Seq(Nat)
      /\ \A j \in 1..n : s.posts[j] = acc[Len(acc) - n + j]
      /\ \A j \in 1..(Len(acc) - n) : acc[j] + Second <= now
  BY DEF PostsSound, Session
<1>2. /\ \A j, k \in DOMAIN acc : j <= k => acc[j] <= acc[k]
      /\ \A j \in DOMAIN acc : acc[j] <= now
      /\ RateKept(acc)
  BY DEF PostsSound
<1>3. /\ DOMAIN new = 1..(Len(acc) + 1) /\ DOMAIN acc = 1..Len(acc) /\ Len(acc) \in Nat
      /\ Len(new) = Len(acc) + 1
      /\ \A j \in 1..Len(acc) : new[j] = acc[j] /\ acc[j] \in Nat
      /\ new[Len(acc) + 1] = now
  BY AppendIs
<1>4. /\ Len(t.posts) = n + 1 /\ t.posts[n + 1] = now
      /\ \A j \in 1..n : t.posts[j] = s.posts[j]
  BY <1>1, AppendIs
<1>5. RateKept(new)
  BY <1>1, <1>2, RateStillKept
<1> HIDE DEF n, new
<1>6. \A j, k \in DOMAIN new : j <= k => new[j] <= new[k]
  BY <1>2, <1>3
<1>7. \A j \in DOMAIN new : new[j] <= now
  BY <1>2, <1>3
<1>8. \A j \in 1..Len(t.posts) : t.posts[j] = new[Len(new) - Len(t.posts) + j]
  <2>3. Len(t.posts) = n + 1 /\ Len(new) - Len(t.posts) = Len(acc) - n
    BY <1>1, <1>3, <1>4
  <2> SUFFICES ASSUME NEW j \in 1..(n + 1)
               PROVE  t.posts[j] = new[Len(acc) - n + j]
    BY <2>3
  <2>4. n \in Nat /\ Len(acc) \in Nat
    BY <1>1, <1>3
  <2>1. CASE j = n + 1
    <3>1. Len(acc) - n + j = Len(acc) + 1
      BY <2>1, <2>4
    <3> QED
      BY <1>3, <1>4, <2>1, <3>1
  <2>2. CASE j \in 1..n
    <3>1. Len(acc) - n + j \in 1..Len(acc)
      BY <1>1, <1>3, <2>2
    <3> QED
      BY <1>1, <1>3, <1>4, <2>2, <3>1
  <2>5. j = n + 1 \/ j \in 1..n
    BY <2>4
  <2> QED
    BY <2>1, <2>2, <2>5
<1>9. \A j \in 1..(Len(new) - Len(t.posts)) : new[j] + Second <= now
  <2>1. Len(new) - Len(t.posts) = Len(acc) - n
    BY <1>1, <1>3, <1>4
  <2> SUFFICES ASSUME NEW j \in 1..(Len(acc) - n)
               PROVE  new[j] + Second <= now
    BY <2>1
  <2>2. j \in 1..Len(acc)
    BY <1>1, <1>3
  <2> QED
    BY <1>1, <1>3, <2>2
<1>10. Len(t.posts) <= Len(new)
  BY <1>1, <1>3, <1>4
<1>11. t # NoSession
  BY NoSessionIsNone
<1>12. PostsSound(t, new, now)
  BY <1>5, <1>6, <1>7, <1>8, <1>9, <1>10, <1>11 DEF PostsSound
<1> QED
  BY <1>12 DEF new

-----------------------------------------------------------------------------
(* Lines. *)

LEMMA LinesGone ==
  ASSUME NEW s, NEW a, NEW r, NEW m, LinesSound(s, a, r, m)
  PROVE  LinesSound(Gone, a, r, m)
BY NoSessionIsNone DEF LinesSound

LEMMA LinesNew ==
  ASSUME NEW a, NEW r, NEW m, LinesSound(NoSession, a, r, m),
         NEW now \in Nat, NEW ttl \in Nat
  PROVE  NewSession(now, ttl) \in Session /\ LinesSound(NewSession(now, ttl), a, r, m)
<1> DEFINE s == NewSession(now, ttl)
<1>1. s \in Session
  BY DEF NewSession, Session
<1>2. s.next = 1 /\ Len(s.lines) = 0 /\ DOMAIN s.lines = {}
  BY DEF NewSession
<1>3. First(s) = 1 /\ IsNewest(s)
  BY <1>2, Constants DEF First, IsNewest
<1>4. s # NoSession
  BY <1>1, NoSessionIsNone
<1>5. a = 0 /\ r = {} /\ m = {}
  BY DEF LinesSound
<1> HIDE DEF s
<1>6. LinesSound(s, a, r, m)
  BY <1>2, <1>3, <1>4, <1>5 DEF LinesSound
<1> QED
  BY <1>1, <1>6 DEF s

\* Posts and their times do not matter to lines.
LEMMA LinesSame ==
  ASSUME NEW s \in Session, NEW a, NEW r, NEW m, LinesSound(s, a, r, m),
         NEW t \in Session,
         t.lines = s.lines, t.next = s.next, t.expires = s.expires
  PROVE  LinesSound(t, a, r, m)
<1>1. t # NoSession
  BY NoSessionIsNone
<1> QED
  BY <1>1 DEF LinesSound, IsNewest, First

\* Consecutive lines have an interval of cursors.
LEMMA CursorInterval ==
  ASSUME NEW lines \in Seq(Line), NEW f \in Nat,
         \A j \in 1..Len(lines) : lines[j].cursor = f + j - 1
  PROVE  Cursors(lines) = f..(f + Len(lines) - 1)
<1>1. DOMAIN lines = 1..Len(lines) /\ Len(lines) \in Nat
  OBVIOUS
<1>2. ASSUME NEW c \in f..(f + Len(lines) - 1)
      PROVE  c \in Cursors(lines)
  <2> DEFINE j == c - f + 1
  <2>1. j \in 1..Len(lines) /\ f + j - 1 = c
    BY <1>1
  <2>2. lines[j].cursor = c
    BY <2>1
  <2> QED
    BY <1>1, <2>1, <2>2 DEF Cursors
<1>3. ASSUME NEW c \in Cursors(lines)
      PROVE  c \in f..(f + Len(lines) - 1)
  <2>1. PICK j \in 1..Len(lines) : c = lines[j].cursor
    BY <1>1 DEF Cursors
  <2>2. c = f + j - 1
    BY <2>1
  <2> QED
    BY <1>1, <2>2
<1> QED
  BY <1>2, <1>3

LEMMA CursorsAre ==
  ASSUME NEW s \in Session, IsNewest(s)
  PROVE  /\ Len(s.lines) \in Nat /\ First(s) \in Nat /\ First(s) >= 1 /\ First(s) <= s.next
         /\ DOMAIN s.lines = 1..Len(s.lines)
         /\ \A j \in 1..Len(s.lines) : s.lines[j].cursor = First(s) + j - 1
         /\ Cursors(s.lines) = First(s)..(s.next - 1)
<1>1. /\ s.lines \in Seq(Line) /\ s.next \in Nat /\ s.next >= 1
      /\ DOMAIN s.lines = 1..Len(s.lines) /\ Len(s.lines) \in Nat
  BY DEF Session
<1>2. Len(s.lines) <= s.next - 1
  BY <1>1, Constants DEF IsNewest
<1>3. \A j \in 1..Len(s.lines) : s.lines[j].cursor = First(s) + j - 1
  <2> SUFFICES ASSUME NEW j \in 1..Len(s.lines)
               PROVE  s.lines[j].cursor = First(s) + j - 1
    OBVIOUS
  <2>1. s.lines[j].cursor = s.next - 1 - (Len(s.lines) - j)
    BY <1>1 DEF IsNewest
  <2>2. First(s) = s.next - Len(s.lines)
    BY DEF First
  <2> QED
    BY <1>1, <2>1, <2>2
<1>4. First(s) \in Nat /\ First(s) >= 1 /\ First(s) <= s.next
  BY <1>1, <1>2 DEF First
<1>5. Cursors(s.lines) = First(s)..(s.next - 1)
  <2>1. First(s) + Len(s.lines) - 1 = s.next - 1
    BY <1>1 DEF First
  <2> QED
    BY <1>1, <1>3, <1>4, <2>1, CursorInterval
<1> QED
  BY <1>1, <1>3, <1>4, <1>5

LEMMA BatchIs ==
  ASSUME NEW next \in Nat \ {0}, NEW now \in Nat, NEW n \in Nat
  PROVE  /\ Batch(next, now, n) \in Seq(Line) /\ Len(Batch(next, now, n)) = n
         /\ \A j \in 1..n : /\ Batch(next, now, n)[j].cursor = next + j - 1
                           /\ Batch(next, now, n)[j].received = now
<1>1. \A j \in 1..n : next + j - 1 \in Nat
  OBVIOUS
<1>2. Batch(next, now, n) \in [1..n -> Line]
  BY <1>1 DEF Batch, Line
<1>3. Batch(next, now, n) \in Seq(Line)
  BY <1>2
<1> QED
  BY <1>2, <1>3 DEF Batch

\* The lines before they are cut to the buffer: consecutive, and all in time.
LEMMA Joined ==
  ASSUME NEW s \in Session, IsNewest(s), NEW now \in Nat, now < s.expires, NEW n \in Nat
  PROVE  LET all == s.lines \o Batch(s.next, now, n)
         IN /\ all \in Seq(Line) /\ Len(all) = Len(s.lines) + n
            /\ \A j \in 1..Len(all) : /\ all[j].cursor = First(s) + j - 1
                                     /\ all[j].received < s.expires
<1> DEFINE new == Batch(s.next, now, n)
           all == s.lines \o new
           L == Len(s.lines)
<1>1. /\ s.lines \in Seq(Line) /\ s.next \in Nat \ {0}
      /\ L \in Nat /\ DOMAIN s.lines = 1..L
      /\ First(s) \in Nat /\ First(s) + L = s.next
      /\ \A j \in 1..L : s.lines[j].cursor = First(s) + j - 1
  BY CursorsAre DEF Session, First
<1>2. \A j \in 1..L : s.lines[j].received < s.expires
  BY <1>1 DEF IsNewest
<1>3. /\ new \in Seq(Line) /\ Len(new) = n
      /\ \A j \in 1..n : new[j].cursor = s.next + j - 1 /\ new[j].received = now
  BY <1>1, BatchIs
<1> HIDE DEF new, L
<1>4. /\ all \in Seq(Line) /\ Len(all) = L + n
      /\ \A j \in 1..(L + n) : all[j] = IF j <= L THEN s.lines[j] ELSE new[j - L]
  <2>1. s.lines \in Seq(Line) /\ new \in Seq(Line) /\ Len(s.lines) = L /\ Len(new) = n
    BY <1>1, <1>3 DEF L
  <2>2. /\ all \in Seq(Line) /\ Len(all) = Len(s.lines) + Len(new)
        /\ \A j \in 1..(Len(s.lines) + Len(new)) :
             all[j] = IF j <= Len(s.lines) THEN s.lines[j] ELSE new[j - Len(s.lines)]
    BY <2>1, ConcatProperties
  <2> QED
    BY <2>1, <2>2
<1> HIDE DEF all
<1>5. ASSUME NEW j \in 1..(L + n)
      PROVE  all[j].cursor = First(s) + j - 1 /\ all[j].received < s.expires
  <2>1. CASE j <= L
    <3>1. j \in 1..L /\ all[j] = s.lines[j]
      BY <1>1, <1>4, <2>1
    <3> QED
      BY <1>1, <1>2, <3>1
  <2>2. CASE ~(j <= L)
    <3>1. j - L \in 1..n /\ all[j] = new[j - L] /\ s.next + (j - L) - 1 = First(s) + j - 1
      BY <1>1, <1>4, <2>2
    <3> QED
      BY <1>3, <3>1
  <2> QED
    BY <2>1, <2>2
<1> QED
  BY <1>4, <1>5 DEF all, new, L

\* The deque keeps a suffix.
LEMMA BufferedIs ==
  ASSUME NEW all \in Seq(Line), NEW size \in Nat, size = Len(all)
  PROVE  \E k \in 0..size :
           /\ Len(Buffered(all)) = size - k
           /\ size <= MaxBuffered => k = 0
           /\ ~(size <= MaxBuffered) => k = size - MaxBuffered
           /\ \A j \in 1..(size - k) : Buffered(all)[j] = all[k + j]
<1>1. Len(all) \in Nat /\ MaxBuffered \in Nat
  BY Constants
<1>2. CASE Len(all) <= MaxBuffered
  <2>1. Buffered(all) = all /\ 0 \in 0..Len(all) /\ Len(all) = Len(all) - 0
    BY <1>1, <1>2 DEF Buffered
  <2>2. \A j \in 1..(Len(all) - 0) : all[j] = all[0 + j]
    BY <1>1
  <2> QED
    BY <1>2, <2>1, <2>2
<1>3. CASE ~(Len(all) <= MaxBuffered)
  <2> DEFINE k == Len(all) - MaxBuffered
  <2>1. k \in 0..Len(all) /\ Len(all) - k = MaxBuffered
    BY <1>1, <1>3
  <2>2. Buffered(all) = SubSeq(all, k + 1, Len(all))
    BY <1>3 DEF Buffered
  <2> HIDE DEF k
  <2>3. /\ Len(Buffered(all)) = Len(all) - k
        /\ \A j \in 1..(Len(all) - k) : Buffered(all)[j] = all[k + j]
    BY <2>1, <2>2, SuffixIs
  <2> QED
    BY <1>1, <1>3, <2>1, <2>3
<1> QED
  BY <1>2, <1>3

LEMMA IntervalCut ==
  ASSUME NEW f \in Nat, NEW g \in Nat, NEW e \in Nat, f <= g, g <= e
  PROVE  \A c : c \in f..(e - 1) /\ c \notin g..(e - 1) <=> c \in Nat /\ f <= c /\ c < g
OBVIOUS

\* A batch: the lines that fall off are missed, unless they were read.
LEMMA LinesBatch ==
  ASSUME NEW s \in Session, NEW a \in Nat, NEW r, NEW m \in SUBSET Nat, LinesSound(s, a, r, m),
         NEW n \in Nat, NEW all \in Seq(Line), Len(all) = Len(s.lines) + n,
         \A j \in 1..Len(all) : all[j].cursor = First(s) + j - 1 /\ all[j].received < s.expires,
         NEW t \in Session, t.lines = Buffered(all), t.next = s.next + n, t.expires = s.expires
  PROVE  LinesSound(t, a, r, m \cup {c \in Cursors(all) \ Cursors(Buffered(all)) : c > a})
<1> DEFINE L == Len(s.lines)
           N == Len(t.lines)
           next == s.next
           f == First(s)
           size == Len(all)
           b == Buffered(all)
           gone == {c \in Cursors(all) \ Cursors(Buffered(all)) : c > a}
<1>1. /\ IsNewest(s) /\ L \in Nat /\ next \in Nat /\ next >= 1
      /\ f \in Nat /\ f >= 1 /\ f = next - L
      /\ L = IF next - 1 < MaxBuffered THEN next - 1 ELSE MaxBuffered
  <2>1. IsNewest(s) /\ next \in Nat /\ next >= 1
    BY DEF LinesSound, Session
  <2>2. f \in Nat /\ f >= 1 /\ L \in Nat
    BY <2>1, CursorsAre
  <2> QED
    BY <2>1, <2>2 DEF First, IsNewest
<1>2. Len(all) = L + n
  OBVIOUS
<1>3. t.lines \in Seq(Line) /\ N \in Nat /\ t.next = next + n /\ DOMAIN t.lines = 1..N
  BY DEF Session
<1>4. size = Len(all) /\ size \in Nat /\ size = L + n
  BY <1>1, <1>2
<1>5. b = t.lines /\ Len(b) = N /\ First(t) = t.next - N
  BY DEF First
<1>6. \A j \in 1..size : all[j].cursor = f + j - 1 /\ all[j].received < t.expires
  OBVIOUS
<1> HIDE DEF size, L, N, next, f
<1>7. PICK k \in 0..size :
         /\ Len(b) = size - k
         /\ size <= MaxBuffered => k = 0
         /\ ~(size <= MaxBuffered) => k = size - MaxBuffered
         /\ \A j \in 1..(size - k) : b[j] = all[k + j]
  BY <1>4, BufferedIs
<1> HIDE DEF b
<1>8. /\ N = size - k /\ \A j \in 1..N : t.lines[j] = all[k + j]
  BY <1>5, <1>7
<1>9. /\ (next + n) - 1 < MaxBuffered => N = (next + n) - 1
      /\ ~((next + n) - 1 < MaxBuffered) => N = MaxBuffered
      /\ (next + n) - N = f + k /\ f + k \in Nat /\ k \in Nat /\ f + k <= next + n
      /\ f + size - 1 = (next + n) - 1
      /\ \A j \in 1..N : /\ k + j \in 1..size
                         /\ f + (k + j) - 1 = (next + n) - 1 - (N - j)
  <2>1. MaxBuffered \in Nat /\ MaxBuffered > 0
    BY Constants
  <2>2. (next - 1 < MaxBuffered => L = next - 1) /\ (~(next - 1 < MaxBuffered) => L = MaxBuffered)
    BY <1>1
  <2>3. /\ L \in Nat /\ next \in Nat /\ next >= 1 /\ f \in Nat /\ f = next - L
        /\ size \in Nat /\ size = L + n /\ N \in Nat /\ N = size - k
        /\ k \in Nat /\ k <= size
        /\ size <= MaxBuffered => k = 0
        /\ ~(size <= MaxBuffered) => k = size - MaxBuffered
    <3>1. L \in Nat /\ next \in Nat /\ next >= 1 /\ f \in Nat /\ f = next - L
      BY <1>1
    <3>2. size \in Nat /\ size = L + n /\ N \in Nat /\ N = size - k
      BY <1>3, <1>4, <1>8
    <3>3. k \in Nat /\ k <= size
      BY <3>2
    <3>4. /\ size <= MaxBuffered => k = 0
          /\ ~(size <= MaxBuffered) => k = size - MaxBuffered
      BY <1>7
    <3> QED
      BY <3>1, <3>2, <3>3, <3>4
  <2>4. /\ (next + n) - 1 < MaxBuffered => N = (next + n) - 1
        /\ ~((next + n) - 1 < MaxBuffered) => N = MaxBuffered
    BY <2>1, <2>2, <2>3
  <2>5. /\ (next + n) - N = f + k /\ f + k \in Nat /\ f + k <= next + n
        /\ f + size - 1 = (next + n) - 1
    BY <2>3
  <2>6. \A j \in 1..N : k + j \in 1..size /\ f + (k + j) - 1 = (next + n) - 1 - (N - j)
    BY <2>3
  <2> QED
    BY <2>3, <2>4, <2>5, <2>6
<1>10. First(t) = f + k
  BY <1>3, <1>5, <1>9
<1>11. IsNewest(t)
  <2>1. ASSUME NEW j \in 1..N
        PROVE  /\ t.lines[j].cursor = t.next - 1 - (N - j)
               /\ t.lines[j].received < t.expires
    <3>1. k + j \in 1..size /\ f + (k + j) - 1 = t.next - 1 - (N - j)
      BY <1>3, <1>9
    <3>2. t.lines[j] = all[k + j]
      BY <1>8
    <3> QED
      BY <1>6, <3>1, <3>2
  <2>2. N = IF t.next - 1 < MaxBuffered THEN t.next - 1 ELSE MaxBuffered
    BY <1>3, <1>9
  <2> QED
    BY <1>3, <2>1, <2>2 DEF IsNewest, N
<1>12. Cursors(all) = f..((next + n) - 1)
  <2>1. Cursors(all) = f..(f + size - 1)
    BY <1>1, <1>4, <1>6, CursorInterval
  <2> QED
    BY <1>9, <2>1
<1>13. Cursors(t.lines) = (f + k)..((next + n) - 1)
  <2>1. Cursors(t.lines) = First(t)..(t.next - 1)
    BY <1>11, CursorsAre
  <2> QED
    BY <1>3, <1>10, <2>1
<1>14. \A c : c \in gone <=> c \in Nat /\ f <= c /\ c < f + k /\ c > a
  <2>1. f <= f + k /\ next + n \in Nat /\ f + k \in Nat /\ f + k <= next + n
    <3>1. f \in Nat /\ k \in Nat /\ next \in Nat
      BY <1>1, <1>9
    <3> QED
      BY <1>9, <3>1
  <2>2. \A c : c \in f..((next + n) - 1) /\ c \notin (f + k)..((next + n) - 1)
                <=> c \in Nat /\ f <= c /\ c < f + k
    <3> DEFINE g == f + k
               e == next + n
    <3>1. f <= g /\ g <= e /\ f \in Nat /\ g \in Nat /\ e \in Nat
      BY <1>1, <2>1
    <3>2. \A c : c \in f..(e - 1) /\ c \notin g..(e - 1) <=> c \in Nat /\ f <= c /\ c < g
      <4> HIDE DEF g, e
      <4> QED
        BY <3>1, IntervalCut
    <3> QED
      BY <3>2
  <2>3. \A c : c \in gone <=> /\ c \in f..((next + n) - 1)
                             /\ c \notin (f + k)..((next + n) - 1)
                             /\ c > a
    BY <1>12, <1>13
  <2> QED
    BY <2>2, <2>3
<1> HIDE DEF gone
<1>15. /\ r \cap m = {} /\ 1..a = r \cup {c \in m : c <= a} /\ a < next
       /\ \A c \in m : c < f
       /\ \A c \in Nat : a < c /\ c < f => c \in m
  BY DEF LinesSound, f, next
<1>16. r \cap (m \cup gone) = {}
  <2>1. \A c \in r : c \in 1..a
    BY <1>15
  <2>2. \A c \in gone : c \notin 1..a
    BY <1>14
  <2> QED
    BY <1>15, <2>1, <2>2
<1>17. 1..a = r \cup {c \in m \cup gone : c <= a}
  <2>1. \A c \in gone : ~(c <= a)
    BY <1>14
  <2> QED
    BY <1>15, <2>1
<1>18. a < t.next
  BY <1>1, <1>3, <1>15
<1>19. \A c \in m \cup gone : c < First(t)
  <2>1. ASSUME NEW c \in m
        PROVE  c < f + k
    <3>1. c \in Nat /\ c < f
      BY <1>15
    <3>2. f \in Nat /\ k \in Nat
      BY <1>1, <1>9
    <3> QED
      BY <3>1, <3>2
  <2> QED
    BY <1>10, <1>14, <2>1
<1>20. \A c \in Nat : a < c /\ c < First(t) => c \in m \cup gone
  <2> SUFFICES ASSUME NEW c \in Nat, a < c, c < f + k
               PROVE  c \in m \cup gone
    BY <1>10
  <2>1. CASE c < f
    BY <1>15, <2>1
  <2>2. CASE ~(c < f)
    BY <1>1, <1>14, <2>2
  <2> QED
    BY <2>1, <2>2
<1>21. t # NoSession
  BY NoSessionIsNone
<1>22. LinesSound(t, a, r, m \cup gone)
  BY <1>11, <1>16, <1>17, <1>18, <1>19, <1>20, <1>21 DEF LinesSound
<1> QED
  BY <1>22 DEF gone

\* A poll returns the lines from the first newer than the cursor a, or from the
\* first there is.
LEMMA PolledIs ==
  ASSUME NEW s \in Session, IsNewest(s), NEW a \in Nat, a < s.next,
         NEW limit \in Nat, limit >= 1
  PROVE  \E b \in Nat, e \in Nat :
           /\ Polled(s, a, limit) \in Seq(Line)
           /\ b >= First(s) /\ b > a /\ (b > First(s) => b = a + 1)
           /\ b <= e /\ e <= s.next /\ Len(Polled(s, a, limit)) = e - b
           /\ \A j \in 1..(e - b) : Polled(s, a, limit)[j].cursor = b + j - 1
<1> DEFINE L == Len(s.lines)
           f == First(s)
           q == IF a < f THEN 0 ELSE a - f + 1
           u == IF q + limit < L THEN q + limit ELSE L
           Older == {j \in DOMAIN s.lines : s.lines[j].cursor <= a}
<1>1. /\ L \in Nat /\ f \in Nat /\ f >= 1 /\ DOMAIN s.lines = 1..L
      /\ \A j \in 1..L : s.lines[j].cursor = f + j - 1
      /\ s.lines \in Seq(Line) /\ s.next \in Nat
  BY CursorsAre DEF Session
<1>2. s.next = f + L
  <2>1. f = s.next - L
    BY DEF First
  <2> HIDE DEF f, L
  <2> QED
    BY <1>1, <2>1
<1> HIDE DEF L, f
<1>3. q \in Nat /\ q <= L
  BY <1>1, <1>2
<1>4. f + q > a /\ (q > 0 => f + q = a + 1)
  BY <1>1
<1>5. u \in Nat /\ q <= u /\ u <= L
  BY <1>1, <1>3
<1>6. Older = 1..q
  <2>1. \A j \in 1..L : f + j - 1 <= a <=> j <= q
    BY <1>1, <1>3
  <2>2. Older = {j \in 1..L : j <= q}
    BY <1>1, <2>1
  <2> HIDE DEF q
  <2> QED
    BY <1>1, <1>3, <2>2
<1>7. Cardinality(Older) = q
  <2> HIDE DEF q, Older
  <2>1. Cardinality(1..q) = q
    <3>1. Cardinality(1..q) = IF 1 > q THEN 0 ELSE q - 1 + 1
      BY <1>3, FS_Interval
    <3> QED
      BY <1>3, <3>1
  <2> QED
    BY <1>6, <2>1
<1>8. Polled(s, a, limit) = SubSeq(s.lines, q + 1, u)
  BY <1>7 DEF Polled, L
<1> HIDE DEF q, u
<1>9. /\ Polled(s, a, limit) \in Seq(Line)
      /\ Len(Polled(s, a, limit)) = u - q
      /\ \A j \in 1..(u - q) : Polled(s, a, limit)[j] = s.lines[q + j]
  <2>1. u \in 0..Len(s.lines) /\ q \in 0..u
    BY <1>1, <1>3, <1>5 DEF L
  <2> QED
    BY <1>1, <1>8, <2>1, SliceIs
<1> DEFINE b == f + q
           e == f + u
<1>10. /\ b \in Nat /\ e \in Nat /\ b >= f /\ b <= e /\ e <= s.next /\ e - b = u - q
       /\ b > a /\ (b > f => b = a + 1)
  BY <1>1, <1>2, <1>3, <1>4, <1>5
<1>11. \A j \in 1..(u - q) : Polled(s, a, limit)[j].cursor = b + j - 1
  <2> SUFFICES ASSUME NEW j \in 1..(u - q)
               PROVE  Polled(s, a, limit)[j].cursor = b + j - 1
    OBVIOUS
  <2>1. q + j \in 1..L /\ f + (q + j) - 1 = b + j - 1
    BY <1>1, <1>3, <1>5
  <2>2. Polled(s, a, limit)[j] = s.lines[q + j]
    BY <1>9
  <2> QED
    BY <1>1, <2>1, <2>2
<1> HIDE DEF b, e
<1> QED
  BY <1>9, <1>10, <1>11 DEF f

\* A poll reads on where the last one ended, and skips what was missed.
LEMMA LinesPolled ==
  ASSUME NEW s \in Session, NEW a \in Nat, NEW r \in SUBSET Nat, NEW m \in SUBSET Nat,
         LinesSound(s, a, r, m), NEW limit \in Nat, limit >= 1
  PROVE  LET lines == Polled(s, a, limit)
         IN /\ NextCursor(s, lines, a) \in Nat /\ Cursors(lines) \in SUBSET Nat
            /\ LinesSound(s, NextCursor(s, lines, a), r \cup Cursors(lines), m)
            /\ lines \in Seq(Line) /\ \A j \in DOMAIN lines : lines[j].cursor > a
            /\ \A j, k \in DOMAIN lines : j < k => lines[j].cursor < lines[k].cursor
<1> DEFINE lines == Polled(s, a, limit)
           f == First(s)
           new == NextCursor(s, lines, a)
           reads == Cursors(lines)
<1>1. /\ IsNewest(s) /\ a < s.next /\ r \cap m = {}
      /\ 1..a = r \cup {c \in m : c <= a}
      /\ \A c \in m : c < f
      /\ \A c \in Nat : a < c /\ c < f => c \in m
  BY DEF LinesSound
<1>2. f \in Nat /\ f >= 1
  BY <1>1, CursorsAre
<1>3. PICK b \in Nat, e \in Nat :
        /\ lines \in Seq(Line)
        /\ b >= f /\ b > a /\ (b > f => b = a + 1)
        /\ b <= e /\ e <= s.next /\ Len(lines) = e - b
        /\ \A j \in 1..(e - b) : lines[j].cursor = b + j - 1
  BY <1>1, PolledIs
<1>4. s.next \in Nat
  BY DEF Session
<1> HIDE DEF lines, f
<1>0. /\ lines \in Seq(Line) /\ \A j \in DOMAIN lines : lines[j].cursor > a
      /\ \A j, k \in DOMAIN lines : j < k => lines[j].cursor < lines[k].cursor
  <2>1. DOMAIN lines = 1..(e - b)
    BY <1>3
  <2> QED
    BY <1>3, <2>1
<1>5. reads = b..(e - 1)
  <2>1. Cursors(lines) = b..(b + Len(lines) - 1)
    BY <1>3, CursorInterval
  <2>2. b + Len(lines) - 1 = e - 1
    BY <1>3
  <2> QED
    BY <2>1, <2>2
<1>6. new = IF b = e THEN a ELSE e - 1
  <2>1. CASE b = e
    <3>1. lines = <<>>
      BY <1>3, <2>1
    <3> QED
      BY <2>1, <3>1 DEF NextCursor
  <2>2. CASE b # e
    <3>1. Len(lines) = e - b /\ e - b \in 1..(e - b) /\ lines # <<>>
      BY <1>3, <2>2
    <3>2. lines[Len(lines)].cursor = b + (e - b) - 1
      BY <1>3, <3>1
    <3> QED
      BY <2>2, <3>1, <3>2 DEF NextCursor
  <2> QED
    BY <2>1, <2>2
<1> HIDE DEF new, reads
<1>7. new \in Nat /\ new >= a /\ new < s.next /\ reads \in SUBSET Nat
  BY <1>1, <1>3, <1>4, <1>5, <1>6
<1>8. (r \cup reads) \cap m = {}
  <2> SUFFICES ASSUME NEW c \in m, c \in r \cup reads PROVE FALSE
    OBVIOUS
  <2>1. c \in Nat /\ c < f /\ c \in reads
    BY <1>1
  <2> QED
    BY <1>2, <1>3, <1>5, <2>1
<1>9. ASSUME NEW c \in 1..new
      PROVE  c \in r \cup reads \/ (c \in m /\ c <= new)
  <2>1. CASE c <= a
    <3>1. c \in 1..a
      BY <1>7, <2>1
    <3> QED
      BY <1>1, <1>7, <3>1
  <2>2. CASE ~(c <= a) /\ c < b
    <3>1. c < f
      BY <1>2, <1>3, <2>2
    <3> QED
      BY <1>1, <1>7, <2>2, <3>1
  <2>3. CASE ~(c <= a) /\ ~(c < b)
    BY <1>3, <1>5, <1>6, <2>3
  <2> QED
    BY <2>1, <2>2, <2>3
<1>10. ASSUME NEW c \in r \cup reads \cup {x \in m : x <= new}
       PROVE  c \in 1..new
  <2>1. CASE c \in r
    <3>1. c \in 1..a
      BY <1>1, <2>1
    <3> QED
      BY <1>7, <3>1
  <2>2. CASE c \in reads
    BY <1>2, <1>3, <1>5, <1>6, <2>2
  <2>3. CASE c \in m /\ c <= new /\ c <= a
    <3>1. c \in 1..a
      BY <1>1, <2>3
    <3> QED
      BY <1>7, <3>1
  <2>4. CASE c \in m /\ c <= new /\ ~(c <= a)
    BY <1>7, <2>4
  <2> QED
    BY <2>1, <2>2, <2>3, <2>4
<1>11. 1..new = (r \cup reads) \cup {c \in m : c <= new}
  BY <1>9, <1>10
<1>12. \A c \in Nat : new < c /\ c < f => c \in m
  BY <1>1, <1>2, <1>7
<1>13. s # NoSession
  BY NoSessionIsNone
<1>14. LinesSound(s, new, r \cup reads, m)
  BY <1>1, <1>7, <1>8, <1>11, <1>12, <1>13 DEF LinesSound, f
<1> QED
  BY <1>0, <1>7, <1>14 DEF lines, new, reads

\* What is read on after the last cursor stays in order.
LEMMA ReadOn ==
  ASSUME NEW r \in Seq(Nat), Ascending(r), NEW a \in Nat, \A c \in Elements(r) : c <= a,
         NEW lines \in Seq(Line), \A j \in DOMAIN lines : lines[j].cursor > a,
         \A j, k \in DOMAIN lines : j < k => lines[j].cursor < lines[k].cursor
  PROVE  /\ r \o CursorList(lines) \in Seq(Nat) /\ Ascending(r \o CursorList(lines))
         /\ Elements(r \o CursorList(lines)) = Elements(r) \cup Cursors(lines)
<1> DEFINE L == Len(r)
           n == Len(lines)
           new == CursorList(lines)
           all == r \o new
<1>1. /\ L \in Nat /\ n \in Nat /\ DOMAIN r = 1..L /\ DOMAIN lines = 1..n
      /\ \A j \in 1..L : r[j] \in Nat
      /\ \A j \in 1..n : lines[j].cursor \in Nat
  <2>1. \A j \in 1..n : lines[j] \in Line
    OBVIOUS
  <2> QED
    BY <2>1 DEF Line
<1>2. /\ new \in Seq(Nat) /\ Len(new) = n
      /\ \A j \in 1..n : new[j] = lines[j].cursor
  <2>1. new \in [1..n -> Nat]
    BY <1>1 DEF CursorList
  <2>2. \A j \in 1..n : new[j] = lines[j].cursor
    BY <1>1 DEF CursorList
  <2> HIDE DEF n, new
  <2>3. new \in Seq(Nat)
    BY <1>1, <2>1
  <2>4. Len(new) = n
    BY <1>1, <2>1, <2>3
  <2> QED
    BY <2>2, <2>3, <2>4
<1> HIDE DEF new
<1>3. /\ all \in Seq(Nat) /\ Len(all) = L + n
      /\ \A j \in 1..(L + n) : all[j] = IF j <= L THEN r[j] ELSE new[j - L]
  <2>1. /\ all \in Seq(Nat) /\ Len(all) = Len(r) + Len(new)
        /\ \A j \in 1..(Len(r) + Len(new)) : all[j] = IF j <= Len(r) THEN r[j] ELSE new[j - Len(r)]
    BY <1>2, ConcatProperties
  <2>2. Len(r) = L /\ Len(new) = n
    BY <1>2
  <2> HIDE DEF L, n, all
  <2> QED
    BY <2>1, <2>2, Zenon
<1> HIDE DEF all
<1>4. DOMAIN all = 1..(L + n)
  BY <1>3
<1> HIDE DEF L, n
<1>5. \A j \in 1..L : r[j] <= a
  BY <1>1 DEF Elements
<1>6. ASSUME NEW j \in 1..(L + n), j > L
      PROVE  j - L \in 1..n /\ all[j] = lines[j - L].cursor /\ all[j] > a /\ all[j] \in Nat
  <2>1. j - L \in 1..n /\ ~(j <= L)
    BY <1>1, <1>6
  <2> QED
    BY <1>1, <1>2, <1>3, <2>1
<1>7. \A j \in 1..L : j \in 1..(L + n) /\ all[j] = r[j]
  BY <1>1, <1>3
<1>8. ASSUME NEW j \in 1..(L + n), NEW k \in 1..(L + n), j < k
      PROVE  all[j] < all[k]
  <2>1. CASE k <= L
    <3>1. j \in 1..L /\ k \in 1..L
      BY <1>1, <1>8, <2>1
    <3> QED
      BY <1>1, <1>7, <1>8, <3>1 DEF Ascending
  <2>2. CASE ~(k <= L) /\ j <= L
    <3>1. j \in 1..L /\ k > L
      BY <1>1, <2>2
    <3>2. all[j] = r[j] /\ r[j] <= a /\ r[j] \in Nat /\ all[k] > a /\ all[k] \in Nat
      BY <1>1, <1>5, <1>6, <1>7, <3>1
    <3> QED
      BY <3>2
  <2>3. CASE ~(j <= L)
    <3>1. j > L /\ k > L /\ j - L < k - L
      BY <1>1, <1>8, <2>3
    <3>2. /\ j - L \in 1..n /\ all[j] = lines[j - L].cursor
          /\ k - L \in 1..n /\ all[k] = lines[k - L].cursor
      BY <1>6, <3>1
    <3> QED
      BY <1>1, <3>1, <3>2
  <2> QED
    BY <1>1, <2>1, <2>2, <2>3
<1>9. Ascending(all)
  BY <1>4, <1>8 DEF Ascending
<1>10. ASSUME NEW c \in Elements(all)
       PROVE  c \in Elements(r) \cup Cursors(lines)
  <2>1. PICK j \in 1..(L + n) : c = all[j]
    BY <1>4 DEF Elements
  <2>2. CASE j <= L
    <3>1. j \in 1..L /\ c = r[j]
      BY <1>1, <1>7, <2>1, <2>2
    <3> QED
      BY <1>1, <3>1 DEF Elements
  <2>3. CASE ~(j <= L)
    <3>1. j - L \in 1..n /\ c = lines[j - L].cursor
      BY <1>1, <1>6, <2>1, <2>3
    <3> QED
      BY <1>1, <3>1 DEF Cursors
  <2> QED
    BY <2>2, <2>3
<1>11. ASSUME NEW c \in Elements(r) \cup Cursors(lines)
       PROVE  c \in Elements(all)
  <2>1. CASE c \in Elements(r)
    <3>1. PICK j \in 1..L : c = r[j]
      BY <1>1, <2>1 DEF Elements
    <3> QED
      BY <1>4, <1>7, <3>1 DEF Elements
  <2>2. CASE c \in Cursors(lines)
    <3>1. PICK j \in 1..n : c = lines[j].cursor
      BY <1>1, <2>2 DEF Cursors
    <3>2. L + j \in 1..(L + n) /\ ~(L + j <= L) /\ (L + j) - L = j
      BY <1>1
    <3>3. all[L + j] = new[j]
      BY <1>3, <3>2
    <3>4. all[L + j] = c
      BY <1>2, <3>1, <3>3
    <3> QED
      BY <1>4, <3>2, <3>4 DEF Elements
  <2> QED
    BY <2>1, <2>2
<1> QED
  BY <1>3, <1>9, <1>10, <1>11 DEF all, new

-----------------------------------------------------------------------------
(* The actions. *)

THEOREM InitHolds == Init => IInv
<1> SUFFICES ASSUME Init PROVE IInv
  OBVIOUS
<1>1. TypeOK
  BY DiagnosticsAssumptions DEF Init, TypeOK
<1>2. ASSUME NEW i \in Sessions
      PROVE  PostsSound(sessions[i], accepted[i], lastPost)
  <2>1. sessions[i] = NoSession /\ accepted[i] = <<>> /\ DOMAIN accepted[i] = {}
    BY DEF Init
  <2> QED
    BY <2>1, NoSessionIsNone DEF PostsSound, RateKept
<1>3. ASSUME NEW i \in Sessions
      PROVE  LinesSound(sessions[i], after[i], Elements(read[i]), missed[i])
             /\ Ascending(read[i])
  <2>1. /\ sessions[i] = NoSession /\ after[i] = 0 /\ Elements(read[i]) = {} /\ missed[i] = {}
        /\ Ascending(read[i])
    BY DEF Init, Elements, Ascending
  <2>2. 1..0 = {}
    OBVIOUS
  <2> QED
    BY <2>1, <2>2, NoSessionIsNone DEF LinesSound
<1> QED
  BY <1>1, <1>2, <1>3 DEF IInv

\* The purge keeps a session or ends it; one that is left has not expired.
LEMMA PurgedIs ==
  ASSUME TypeOK, NEW now \in Readings
  PROVE  /\ now \in Nat
         /\ Purged(now) \in [Sessions -> Session \cup {NoSession, Gone}]
         /\ \A i \in Sessions : Purged(now)[i] \in {sessions[i], Gone}
         /\ \A i \in Sessions : sessions[i] = NoSession => Purged(now)[i] = NoSession
         /\ \A i \in Active(Purged(now)) : /\ i \in Sessions /\ sessions[i] \in Session
                                          /\ Purged(now)[i] = sessions[i]
                                          /\ now < sessions[i].expires
<1>1. now \in Nat
  BY DEF Readings, TypeOK
<1>2. \A i \in Sessions : Purged(now)[i] \in {sessions[i], Gone}
  BY DEF Purged
<1>3. Purged(now) \in [Sessions -> Session \cup {NoSession, Gone}]
  BY <1>2 DEF Purged, TypeOK
<1>4. \A i \in Sessions : sessions[i] = NoSession => Purged(now)[i] = NoSession
  BY DEF Purged, Active
<1>5. ASSUME NEW i \in Active(Purged(now))
      PROVE  /\ i \in Sessions /\ sessions[i] \in Session
             /\ Purged(now)[i] = sessions[i] /\ now < sessions[i].expires
  <2>1. i \in Sessions /\ Purged(now)[i] # NoSession /\ Purged(now)[i] # Gone
    BY DEF Active
  <2>2. Purged(now)[i] = sessions[i]
    BY <1>2, <2>1
  <2>3. sessions[i] \in Session /\ i \in Active(sessions)
    BY <2>1, <2>2 DEF TypeOK, Active
  <2>4. ~Expired(sessions, i, now)
    BY <2>1, <2>3 DEF Purged
  <2>5. sessions[i].expires \in Nat
    BY <2>3 DEF Session
  <2> QED
    BY <1>1, <2>1, <2>2, <2>3, <2>4, <2>5 DEF Expired
<1> QED
  BY <1>1, <1>2, <1>3, <1>4, <1>5

\* A session that a handler leaves alone or ends stays sound, later too.
LEMMA SoundAlone ==
  ASSUME IInv, NEW i \in Sessions, NEW s \in {sessions[i], Gone},
         NEW now \in Nat, lastPost <= now
  PROVE  /\ PostsSound(s, accepted[i], now)
         /\ LinesSound(s, after[i], Elements(read[i]), missed[i])
<1>1. /\ PostsSound(sessions[i], accepted[i], lastPost)
      /\ LinesSound(sessions[i], after[i], Elements(read[i]), missed[i])
      /\ accepted[i] \in Seq(Nat) /\ lastPost \in Nat
  BY DEF IInv, TypeOK
<1>2. PostsSound(sessions[i], accepted[i], now)
  BY <1>1, PostsLater
<1> QED
  BY <1>1, <1>2, PostsGone, LinesGone

THEOREM CreateKeeps == IInv /\ Create => IInv'
<1> SUFFICES ASSUME IInv, NEW now \in Readings, NEW ttl \in Lifetimes, NEW n \in Sessions,
                    sessions[n] = NoSession,
                    sessions' = IF Room(Purged(now))
                                THEN [Purged(now) EXCEPT ![n] = NewSession(now, ttl)]
                                ELSE Purged(now),
                    UNCHANGED <<clock, lastPost, accepted, after, read, missed>>
             PROVE  IInv'
  BY DEF Create
<1>1. /\ now \in Nat /\ Purged(now) \in [Sessions -> Session \cup {NoSession, Gone}]
      /\ \A i \in Sessions : Purged(now)[i] \in {sessions[i], Gone}
  BY PurgedIs DEF IInv
<1>2. ttl \in Nat /\ lastPost \in Nat /\ lastPost <= lastPost
  BY DiagnosticsAssumptions DEF IInv, TypeOK
<1>3. /\ PostsSound(NoSession, accepted[n], lastPost)
      /\ LinesSound(NoSession, after[n], Elements(read[n]), missed[n])
  BY DEF IInv
<1>4. /\ NewSession(now, ttl) \in Session
      /\ PostsSound(NewSession(now, ttl), accepted[n], lastPost)
      /\ LinesSound(NewSession(now, ttl), after[n], Elements(read[n]), missed[n])
  BY <1>1, <1>2, <1>3, PostsNew, LinesNew
<1>5. \A i \in Sessions : \/ sessions'[i] \in {sessions[i], Gone}
                          \/ (i = n /\ sessions'[i] = NewSession(now, ttl))
  BY <1>1
<1>6. TypeOK'
  <2>1. sessions' \in [Sessions -> Session \cup {NoSession, Gone}]
    BY <1>1, <1>4
  <2> QED
    BY <2>1 DEF IInv, TypeOK
<1>7. ASSUME NEW i \in Sessions
      PROVE  /\ PostsSound(sessions'[i], accepted[i], lastPost)
             /\ LinesSound(sessions'[i], after[i], Elements(read[i]), missed[i])
  <2>1. CASE sessions'[i] \in {sessions[i], Gone}
    BY <1>2, <2>1, SoundAlone
  <2>2. CASE i = n /\ sessions'[i] = NewSession(now, ttl)
    BY <1>4, <2>2
  <2> QED
    BY <1>5, <2>1, <2>2
<1> QED
  BY <1>6, <1>7 DEF IInv

\* Handlers and steps that only end sessions.
LEMMA EndedKeeps ==
  ASSUME IInv, clock' \in 0..MaxTime,
         sessions' \in [Sessions -> Session \cup {NoSession, Gone}],
         \A i \in Sessions : sessions'[i] \in {sessions[i], Gone},
         lastPost' \in Nat, lastPost <= lastPost',
         UNCHANGED <<accepted, after, read, missed>>
  PROVE  IInv'
<1>1. TypeOK'
  BY DEF IInv, TypeOK
<1>2. ASSUME NEW i \in Sessions
      PROVE  /\ PostsSound(sessions'[i], accepted[i], lastPost')
             /\ LinesSound(sessions'[i], after[i], Elements(read[i]), missed[i])
  BY SoundAlone
<1> QED
  BY <1>1, <1>2 DEF IInv

THEOREM TurnedAwayKeeps == IInv /\ TurnedAway => IInv'
<1> SUFFICES ASSUME IInv, NEW now \in Readings, sessions' = Purged(now),
                    lastPost' \in {t \in {lastPost, now} : lastPost <= t},
                    UNCHANGED <<clock, accepted, after, read, missed>>
             PROVE  IInv'
  BY DEF TurnedAway
<1>1. /\ now \in Nat /\ Purged(now) \in [Sessions -> Session \cup {NoSession, Gone}]
      /\ \A i \in Sessions : Purged(now)[i] \in {sessions[i], Gone}
  BY PurgedIs DEF IInv
<1>2. clock \in 0..MaxTime /\ lastPost \in Nat
  BY DEF IInv, TypeOK
<1> QED
  BY <1>1, <1>2, EndedKeeps

THEOREM DeleteKeeps == \A n \in Sessions : IInv /\ Delete(n) => IInv'
<1> SUFFICES ASSUME IInv, NEW n \in Sessions, Delete(n)
             PROVE  IInv'
  OBVIOUS
<1>1. /\ clock \in 0..MaxTime /\ lastPost \in Nat /\ lastPost <= lastPost
      /\ sessions \in [Sessions -> Session \cup {NoSession, Gone}]
  BY DEF IInv, TypeOK
<1>2. /\ sessions' \in [Sessions -> Session \cup {NoSession, Gone}]
      /\ \A i \in Sessions : sessions'[i] \in {sessions[i], Gone}
  BY <1>1 DEF Delete
<1> QED
  BY <1>1, <1>2, EndedKeeps DEF Delete

THEOREM TickKeeps == IInv /\ Tick => IInv'
<1> SUFFICES ASSUME IInv, Tick
             PROVE  IInv'
  OBVIOUS
<1>1. /\ clock \in 0..MaxTime /\ lastPost \in Nat /\ lastPost <= lastPost
      /\ sessions \in [Sessions -> Session \cup {NoSession, Gone}]
  BY DEF IInv, TypeOK
<1>2. clock' \in 0..MaxTime
  BY <1>1, Constants DEF Tick
<1> QED
  BY <1>1, <1>2, EndedKeeps DEF Tick

\* A poll changes what was read of one session.
THEOREM PollKeeps == \A n \in Sessions, limit \in Limits : IInv /\ Poll(n, limit) => IInv'
<1> SUFFICES ASSUME NEW n \in Sessions, NEW limit \in Limits, IInv, NEW now \in Readings,
                    n \in Active(Purged(now)), sessions' = Purged(now),
                    LET lines == Polled(sessions[n], after[n], limit)
                    IN /\ read' = [read EXCEPT ![n] = @ \o CursorList(lines)]
                       /\ after' = [after EXCEPT ![n] = NextCursor(sessions[n], lines, @)],
                    UNCHANGED <<clock, lastPost, accepted, missed>>
             PROVE  IInv'
  BY DEF Poll
<1> DEFINE lines == Polled(sessions[n], after[n], limit)
           new == NextCursor(sessions[n], lines, after[n])
           more == read[n] \o CursorList(lines)
<1>1. /\ now \in Nat /\ Purged(now) \in [Sessions -> Session \cup {NoSession, Gone}]
      /\ \A i \in Sessions : Purged(now)[i] \in {sessions[i], Gone}
      /\ sessions[n] \in Session /\ Purged(now)[n] = sessions[n]
  BY PurgedIs DEF IInv
<1>2. limit \in Nat /\ limit >= 1 /\ lastPost \in Nat /\ lastPost <= lastPost
  BY DiagnosticsAssumptions DEF IInv, TypeOK
<1>3. /\ after[n] \in Nat /\ read[n] \in Seq(Nat) /\ missed[n] \in SUBSET Nat
      /\ LinesSound(sessions[n], after[n], Elements(read[n]), missed[n])
      /\ after \in [Sessions -> Nat] /\ read \in [Sessions -> Seq(Nat)]
      /\ \A i \in Sessions : Ascending(read[i])
  BY DEF IInv, TypeOK
<1>4. Elements(read[n]) \in SUBSET Nat /\ \A c \in Elements(read[n]) : c <= after[n]
  <2>1. Elements(read[n]) \in SUBSET Nat
    BY <1>3 DEF Elements
  <2>2. \A c \in Elements(read[n]) : c \in 1..after[n]
    BY <1>3 DEF LinesSound
  <2> QED
    BY <1>3, <2>1, <2>2
<1>5. /\ new \in Nat
      /\ LinesSound(sessions[n], new, Elements(read[n]) \cup Cursors(lines), missed[n])
      /\ lines \in Seq(Line) /\ \A j \in DOMAIN lines : lines[j].cursor > after[n]
      /\ \A j, k \in DOMAIN lines : j < k => lines[j].cursor < lines[k].cursor
  BY <1>1, <1>2, <1>3, <1>4, LinesPolled
<1>8. /\ read' = [read EXCEPT ![n] = more]
      /\ after' = [after EXCEPT ![n] = new]
  OBVIOUS
<1> HIDE DEF lines, new
<1>9. /\ more \in Seq(Nat) /\ Ascending(more)
      /\ Elements(more) = Elements(read[n]) \cup Cursors(lines)
  BY <1>3, <1>4, <1>5, ReadOn
<1> HIDE DEF more
<1>6. TypeOK'
  <2>1. after' \in [Sessions -> Nat] /\ read' \in [Sessions -> Seq(Nat)]
    BY <1>3, <1>5, <1>8, <1>9
  <2> QED
    BY <1>1, <2>1 DEF IInv, TypeOK
<1>7. ASSUME NEW i \in Sessions
      PROVE  /\ PostsSound(sessions'[i], accepted[i], lastPost)
             /\ LinesSound(sessions'[i], after'[i], Elements(read'[i]), missed[i])
             /\ Ascending(read'[i])
  <2>1. /\ PostsSound(sessions'[i], accepted[i], lastPost)
        /\ LinesSound(sessions'[i], after[i], Elements(read[i]), missed[i])
    BY <1>1, <1>2, SoundAlone
  <2>2. CASE i = n
    <3>1. sessions'[n] = sessions[n] /\ after'[n] = new /\ read'[n] = more
      BY <1>1, <1>3, <1>8
    <3> QED
      BY <1>5, <1>9, <2>1, <2>2, <3>1
  <2>3. CASE i # n
    <3>1. after'[i] = after[i] /\ read'[i] = read[i]
      BY <1>3, <1>8, <2>3
    <3> QED
      BY <1>3, <2>1, <3>1
  <2> QED
    BY <2>2, <2>3
<1> QED
  BY <1>6, <1>7 DEF IInv

LEMMA BufferedType ==
  ASSUME NEW all \in Seq(Line)
  PROVE  Buffered(all) \in Seq(Line)
<1>1. CASE Len(all) <= MaxBuffered
  BY <1>1 DEF Buffered
<1>2. CASE ~(Len(all) <= MaxBuffered)
  <2> DEFINE k == Len(all) - MaxBuffered
  <2>1. k \in 0..Len(all)
    BY <1>2, Constants
  <2>2. Buffered(all) = SubSeq(all, k + 1, Len(all))
    BY <1>2 DEF Buffered
  <2> HIDE DEF k
  <2> QED
    BY <2>1, <2>2, SuffixIs
<1> QED
  BY <1>1, <1>2

\* A post that is refused only forgets the old ones.
LEMMA IngestRefusedKeeps ==
  ASSUME IInv, NEW n \in Sessions, NEW now \in Readings, n \in Active(Purged(now)),
         lastPost <= now, lastPost' = now,
         sessions' = [Purged(now) EXCEPT ![n].posts = RecentPosts(sessions[n], now)],
         UNCHANGED <<clock, accepted, after, read, missed>>
  PROVE  IInv'
<1> DEFINE recent == RecentPosts(sessions[n], now)
           t == [sessions[n] EXCEPT !.posts = recent]
<1>1. /\ now \in Nat /\ Purged(now) \in [Sessions -> Session \cup {NoSession, Gone}]
      /\ \A i \in Sessions : Purged(now)[i] \in {sessions[i], Gone}
      /\ sessions[n] \in Session /\ Purged(now)[n] = sessions[n]
  BY PurgedIs DEF IInv
<1>2. /\ PostsSound(sessions[n], accepted[n], lastPost)
      /\ LinesSound(sessions[n], after[n], Elements(read[n]), missed[n])
      /\ accepted[n] \in Seq(Nat) /\ lastPost \in Nat
  BY DEF IInv, TypeOK
<1>3. PostsSound(t, accepted[n], now)
  BY <1>1, <1>2, PostsForgotten
<1>4. recent \in Seq(Nat)
  BY <1>1, RecentIs
<1>5. sessions' = [Purged(now) EXCEPT ![n] = t]
  BY <1>1
<1> HIDE DEF recent
<1>6. t \in Session /\ t.lines = sessions[n].lines /\ t.next = sessions[n].next
      /\ t.expires = sessions[n].expires
  BY <1>1, <1>4, WithPosts
<1>7. LinesSound(t, after[n], Elements(read[n]), missed[n])
  BY <1>1, <1>2, <1>6, LinesSame
<1> HIDE DEF t
<1>8. TypeOK'
  <2>1. sessions' \in [Sessions -> Session \cup {NoSession, Gone}]
    BY <1>1, <1>5, <1>6
  <2> QED
    BY <1>1, <2>1 DEF IInv, TypeOK
<1>9. ASSUME NEW i \in Sessions
      PROVE  /\ PostsSound(sessions'[i], accepted[i], now)
             /\ LinesSound(sessions'[i], after[i], Elements(read[i]), missed[i])
  <2>1. CASE i = n
    <3>1. sessions'[i] = t
      BY <1>1, <1>5, <2>1
    <3> QED
      BY <1>3, <1>7, <2>1, <3>1
  <2>2. CASE i # n
    <3>1. sessions'[i] \in {sessions[i], Gone}
      BY <1>1, <1>5, <2>2
    <3> QED
      BY <1>1, <3>1, SoundAlone
  <2> QED
    BY <2>1, <2>2
<1> QED
  BY <1>8, <1>9 DEF IInv

\* What an accepted post of k lines makes of the lines, before they are cut to the
\* buffer, and of the session.
AllLines(s, now, k) == s.lines \o Batch(s.next, now, k)

Accepted(s, now, k) ==
  [s EXCEPT !.posts = Append(RecentPosts(s, now), now),
            !.lines = Buffered(AllLines(s, now, k)),
            !.next = @ + k]

\* The cursors newer than a that fall off.
Fallen(lines, a) == {c \in Cursors(lines) \ Cursors(Buffered(lines)) : c > a}

LEMMA SessionAccepts ==
  ASSUME NEW s \in Session, NEW acc \in Seq(Nat), NEW last \in Nat, PostsSound(s, acc, last),
         NEW a \in Nat, NEW r, NEW m \in SUBSET Nat, LinesSound(s, a, r, m),
         NEW now \in Nat, last <= now, now < s.expires, NEW k \in Nat,
         Len(RecentPosts(s, now)) < MaxPosts
  PROVE  LET lines == AllLines(s, now, k)
             t == Accepted(s, now, k)
         IN /\ t \in Session /\ Cursors(lines) \in SUBSET Nat
            /\ PostsSound(t, Append(acc, now), now)
            /\ LinesSound(t, a, r, m \cup Fallen(lines, a))
<1> DEFINE recent == RecentPosts(s, now)
           lines == s.lines \o Batch(s.next, now, k)
           t == [s EXCEPT !.posts = Append(recent, now), !.lines = Buffered(lines), !.next = @ + k]
           u == [s EXCEPT !.posts = recent]
<1>1. IsNewest(s) /\ s.next \in Nat
  BY DEF LinesSound, Session
<1>2. /\ lines \in Seq(Line) /\ Len(lines) = Len(s.lines) + k
      /\ \A j \in 1..Len(lines) : /\ lines[j].cursor = First(s) + j - 1
                                  /\ lines[j].received < s.expires
  BY <1>1, Joined
<1>3. recent \in Seq(Nat)
  BY RecentIs
<1>4. PostsSound(u, acc, now)
  BY PostsForgotten
<1> HIDE DEF recent, lines
<1>5. Append(recent, now) \in Seq(Nat) /\ Len(recent) < MaxPosts
  BY <1>3, AppendIs DEF recent
<1>6. u \in Session /\ u.posts = recent
  BY <1>3, WithPosts
<1>7. /\ t \in Session /\ t.posts = Append(recent, now) /\ t.lines = Buffered(lines)
      /\ t.next = s.next + k /\ t.expires = s.expires
  <2> DEFINE p == Append(recent, now)
             l == Buffered(lines)
             q == s.next + k
  <2>1. p \in Seq(Nat) /\ l \in Seq(Line) /\ q \in Nat \ {0}
    BY <1>2, <1>5, BufferedType DEF Session
  <2> HIDE DEF p, l, q
  <2>2. LET v == [s EXCEPT !.posts = p, !.lines = l, !.next = q]
        IN /\ v \in Session /\ v.posts = p /\ v.lines = l
           /\ v.next = q /\ v.expires = s.expires
    BY <2>1 DEF Session
  <2> QED
    BY <2>2, Zenon DEF p, l, q
<1>8. Cursors(lines) \in SUBSET Nat
  <2>1. Cursors(lines) = First(s)..(First(s) + Len(lines) - 1) /\ First(s) \in Nat
    BY <1>1, <1>2, CursorsAre, CursorInterval
  <2>2. Len(lines) \in Nat
    BY <1>2
  <2> QED
    BY <2>1, <2>2
<1> HIDE DEF u, t
<1>9. PostsSound(t, Append(acc, now), now)
  BY <1>4, <1>5, <1>6, <1>7, PostsAppended
<1>10. LinesSound(t, a, r, m \cup {c \in Cursors(lines) \ Cursors(Buffered(lines)) : c > a})
  BY <1>2, <1>7, LinesBatch
<1> QED
  BY <1>7, <1>8, <1>9, <1>10, Zenon DEF t, lines, recent, Accepted, AllLines, Fallen

\* A post that is accepted adds its time and its lines to one session.
LEMMA IngestAcceptedKeeps ==
  ASSUME IInv, NEW n \in Sessions, NEW now \in Readings,
         lastPost <= now, lastPost' = now,
         NEW t \in Session, NEW acc \in Seq(Nat), NEW gone \in SUBSET Nat,
         PostsSound(t, acc, now),
         LinesSound(t, after[n], Elements(read[n]), missed[n] \cup gone),
         sessions' = [Purged(now) EXCEPT ![n] = t],
         accepted' = [accepted EXCEPT ![n] = acc],
         missed' = [missed EXCEPT ![n] = missed[n] \cup gone],
         UNCHANGED <<clock, after, read>>
  PROVE  IInv'
<1>1. /\ now \in Nat /\ Purged(now) \in [Sessions -> Session \cup {NoSession, Gone}]
      /\ \A i \in Sessions : Purged(now)[i] \in {sessions[i], Gone}
  BY PurgedIs DEF IInv
<1>2. /\ accepted \in [Sessions -> Seq(Nat)] /\ missed \in [Sessions -> SUBSET Nat]
      /\ missed[n] \in SUBSET Nat
  BY DEF IInv, TypeOK
<1>3. TypeOK'
  <2>1. sessions' \in [Sessions -> Session \cup {NoSession, Gone}]
    BY <1>1
  <2>2. accepted' \in [Sessions -> Seq(Nat)] /\ missed' \in [Sessions -> SUBSET Nat]
    BY <1>2
  <2> QED
    BY <1>1, <2>1, <2>2 DEF IInv, TypeOK
<1>4. ASSUME NEW i \in Sessions
      PROVE  /\ PostsSound(sessions'[i], accepted'[i], now)
             /\ LinesSound(sessions'[i], after[i], Elements(read[i]), missed'[i])
  <2>1. CASE i = n
    <3>1. sessions'[n] = t /\ accepted'[n] = acc /\ missed'[n] = missed[n] \cup gone
      BY <1>1, <1>2
    <3> QED
      BY <2>1, <3>1
  <2>2. CASE i # n
    <3>1. /\ sessions'[i] \in {sessions[i], Gone}
          /\ accepted'[i] = accepted[i] /\ missed'[i] = missed[i]
      BY <1>1, <1>2, <2>2
    <3> QED
      BY <1>1, <3>1, SoundAlone
  <2> QED
    BY <2>1, <2>2
<1> QED
  BY <1>3, <1>4 DEF IInv

THEOREM IngestKeeps == \A n \in Sessions, k \in Nat : IInv /\ Ingest(n, k) => IInv'
<1> SUFFICES ASSUME NEW n \in Sessions, NEW k \in Nat, IInv, Ingest(n, k)
             PROVE  IInv'
  OBVIOUS
<1>1. PICK now \in Readings :
        /\ lastPost <= now /\ lastPost' = now
        /\ n \in Active(Purged(now))
        /\ LET session == sessions[n]
               recent == RecentPosts(session, now)
               lines == session.lines \o Batch(session.next, now, k)
           IN IF Len(recent) >= MaxPosts \/ k > MaxBatch
              THEN /\ sessions' = [Purged(now) EXCEPT ![n].posts = recent]
                   /\ UNCHANGED <<accepted, missed>>
              ELSE /\ sessions' = [Purged(now) EXCEPT ![n] =
                                     [session EXCEPT !.posts = Append(recent, now),
                                               !.lines = Buffered(lines), !.next = @ + k]]
                   /\ accepted' = [accepted EXCEPT ![n] = Append(@, now)]
                   /\ missed' = [missed EXCEPT ![n] = @ \cup
                                   {c \in Cursors(lines) \ Cursors(Buffered(lines)) : c > after[n]}]
        /\ UNCHANGED <<clock, after, read>>
  BY DEF Ingest
<1> DEFINE s == sessions[n]
           recent == RecentPosts(s, now)
           lines == AllLines(s, now, k)
           t == Accepted(s, now, k)
           gone == Fallen(lines, after[n])
           acc == Append(accepted[n], now)
<1>2. /\ Purged(now) \in [Sessions -> Session \cup {NoSession, Gone}]
      /\ s \in Session /\ Purged(now)[n] = s /\ now \in Nat /\ now < s.expires
  BY <1>1, PurgedIs DEF IInv
<1>3. Len(recent) \in Nat
  <2>1. recent \in Seq(Nat)
    BY <1>2, RecentIs
  <2> QED
    BY <2>1
<1>4. CASE Len(recent) >= MaxPosts \/ k > MaxBatch
  BY <1>1, <1>4, IngestRefusedKeeps
<1>5. CASE ~(Len(recent) >= MaxPosts \/ k > MaxBatch)
  <2>1. Len(recent) < MaxPosts
    BY <1>3, <1>5, Constants
  <2>2. /\ accepted' = [accepted EXCEPT ![n] = acc]
        /\ missed' = [missed EXCEPT ![n] = missed[n] \cup gone]
        /\ UNCHANGED <<clock, after, read>> /\ lastPost <= now /\ lastPost' = now
    BY <1>1, <1>5, Zenon DEF AllLines, Fallen
  <2>3. sessions' = [Purged(now) EXCEPT ![n] = t]
    BY <1>1, <1>5, Zenon DEF AllLines, Accepted
  <2>4. /\ PostsSound(s, accepted[n], lastPost) /\ LinesSound(s, after[n], Elements(read[n]), missed[n])
        /\ accepted[n] \in Seq(Nat) /\ lastPost \in Nat
        /\ after[n] \in Nat /\ missed[n] \in SUBSET Nat
    BY DEF IInv, TypeOK
  <2>5. /\ t \in Session /\ Cursors(lines) \in SUBSET Nat
        /\ PostsSound(t, acc, now)
        /\ LinesSound(t, after[n], Elements(read[n]), missed[n] \cup gone)
    <3> DEFINE a == after[n]
               r == Elements(read[n])
               m == missed[n]
               ac == accepted[n]
               last == lastPost
    <3>1. /\ s \in Session /\ ac \in Seq(Nat) /\ last \in Nat /\ PostsSound(s, ac, last)
          /\ a \in Nat /\ m \in SUBSET Nat /\ LinesSound(s, a, r, m)
          /\ now \in Nat /\ last <= now /\ now < s.expires
          /\ Len(RecentPosts(s, now)) < MaxPosts
      BY <1>1, <1>2, <2>1, <2>4
    <3> HIDE DEF s, a, r, m, ac, last
    <3>2. LET ls == AllLines(s, now, k)
              v == Accepted(s, now, k)
          IN /\ v \in Session /\ Cursors(ls) \in SUBSET Nat
             /\ PostsSound(v, Append(ac, now), now)
             /\ LinesSound(v, a, r, m \cup Fallen(ls, a))
      BY <3>1, SessionAccepts
    <3> QED
      BY <3>2, Zenon DEF a, r, m, ac
  <2>6. acc \in Seq(Nat) /\ gone \in SUBSET Nat
    <3> HIDE DEF lines
    <3> QED
      BY <1>2, <2>4, <2>5, AppendIs DEF Fallen
  <2> HIDE DEF t, gone, acc
  <2> QED
    BY <2>2, <2>3, <2>5, <2>6, IngestAcceptedKeeps
<1> QED
  BY <1>4, <1>5

-----------------------------------------------------------------------------
(* The theorems. *)

THEOREM NextKeeps == IInv /\ [Next]_vars => IInv'
<1> SUFFICES ASSUME IInv, [Next]_vars PROVE IInv'
  OBVIOUS
<1>1. CASE Create
  BY <1>1, CreateKeeps
<1>2. CASE TurnedAway
  BY <1>2, TurnedAwayKeeps
<1>3. CASE Tick
  BY <1>3, TickKeeps
<1>4. ASSUME NEW i \in Sessions, Delete(i) PROVE IInv'
  BY <1>4, DeleteKeeps
<1>5. ASSUME NEW i \in Sessions, NEW n \in 1..(MaxBatch + 1), Ingest(i, n) PROVE IInv'
  <2>1. n \in Nat
    OBVIOUS
  <2> QED
    BY <1>5, <2>1, IngestKeeps
<1>6. ASSUME NEW i \in Sessions, NEW limit \in Limits, Poll(i, limit) PROVE IInv'
  BY <1>6, PollKeeps
<1>7. CASE UNCHANGED vars
  BY <1>7 DEF vars, IInv, TypeOK
<1> QED
  BY <1>1, <1>2, <1>3, <1>4, <1>5, <1>6, <1>7 DEF Next

THEOREM Inductive == Spec => []IInv
<1> QED
  BY InitHolds, NextKeeps, PTL DEF Spec

\* The rate limit: whatever the clocks of its handlers and however its posts are
\* timed, a session accepts at most MaxPosts of them in any second.
THEOREM LimitsRate == Spec => []RateBounded
<1>1. IInv => RateBounded
  BY DEF IInv, PostsSound, RateKept, RateBounded
<1> QED
  BY <1>1, Inductive, PTL

\* Sessions are of their types, and a live one holds the newest lines, as many as
\* its buffer takes, with consecutive cursors.
THEOREM HoldsNewest == Spec => []BufferInv
<1>1. IInv => BufferInv
  <2> SUFFICES ASSUME IInv, NEW i \in Active(sessions)
               PROVE  LET s == sessions[i]
                      IN /\ Len(s.lines) =
                              IF s.next - 1 < MaxBuffered THEN s.next - 1 ELSE MaxBuffered
                         /\ \A j \in DOMAIN s.lines :
                              /\ s.lines[j].cursor = s.next - 1 - (Len(s.lines) - j)
                              /\ s.lines[j].received < s.expires
    BY DEF IInv, BufferInv, BufferIsNewest
  <2>1. i \in Sessions /\ sessions[i] \in Session
    BY DEF Active, IInv, TypeOK
  <2>2. IsNewest(sessions[i])
    BY <2>1 DEF IInv, LinesSound
  <2> QED
    BY <2>2 DEF IsNewest
<1> QED
  BY <1>1, Inductive, PTL

\* No line is lost between two polls but by falling off the buffer, none is read that
\* had fallen off, and those that are read come in order and once.
THEOREM PollsMissNothing == Spec => []PollsEverything
<1>1. IInv => PollsEverything
  BY DEF IInv, LinesSound, PollsEverything, Seen, Elements, Ascending
<1> QED
  BY <1>1, Inductive, PTL
=============================================================================
