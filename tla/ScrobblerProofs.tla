-------------------------- MODULE ScrobblerProofs --------------------------
(***************************************************************************)
(* Proofs about Scrobbler, for histories of every length and any number of *)
(* errors, timeouts and toggles.                                           *)
(***************************************************************************)
EXTENDS Scrobbler, SequenceTheorems, TLAPS

Statuses == {"Unknown", "Green", "Yellow", "Red", "WaitingForUserCredentials"}

NowPlayings == [present : BOOLEAN, sent : BOOLEAN, done : BOOLEAN]

States ==
    [backend : BackendStates, key : BOOLEAN, status : Statuses, queue : Seq(Nat),
     pending : Nat, nowPlaying : NowPlayings, timeout : BOOLEAN, backoff : BOOLEAN,
     interval : BOOLEAN, wakeUp : BOOLEAN, scrobbledUpTo : Nat, fetchedUpTo : Nat,
     requests : [Requests -> Nat]]

(* The last entry before those in the queue, which is the pending one      *)
(* unless that is done with.                                               *)
Before(s) == s.fetchedUpTo - Len(s.queue)

(* The queue has the last entries of what was fetched, each in its place.  *)
QueueInv(s) ==
    /\ s.fetchedUpTo <= history
    /\ Len(s.queue) <= s.fetchedUpTo
    /\ \A i \in 1..Len(s.queue) : s.queue[i] = Before(s) + i
    /\ s.pending \in {0, Before(s)}

(* The provider remembers what the database has.                           *)
ProviderInv(s) ==
    /\ s.scrobbledUpTo <= s.fetchedUpTo
    /\ s.fetchedUpTo # 0 =>
          /\ s.scrobbledUpTo = saved /\ saved <= Before(s)
          /\ s.pending # 0 => saved < s.pending

(* What is not in the queue is done with, or pending.                      *)
DoneInv(s) == \A e \in 1..Before(s) : e \in marked \cup dropped \cup {s.pending}

(* What is asked is about entries of the history.                          *)
RequestInv(s) ==
    \A what \in {"info", "scrobble"}, e \in Entries :
        s.requests[<<what, e>>] > 0 => e <= history

(* The database: what is saved as scrobbled is done with, and nothing else *)
(* has been marked.                                                        *)
DatabaseInv ==
    /\ enabled \in BOOLEAN /\ savedKey \in BOOLEAN /\ untitled \in SUBSET Entries
    /\ history \in 0..MaxHistory /\ saved \in 0..history
    /\ marked \in SUBSET (1..saved)
    /\ dropped \in SUBSET (1..history) /\ accepted \in SUBSET (1..history)
    /\ \A e \in 1..saved : e \in marked \cup dropped

Works(s) ==
    /\ DatabaseInv
    /\ s \in States /\ QueueInv(s) /\ ProviderInv(s) /\ DoneInv(s) /\ RequestInv(s)

IInv == Works(scrobbler)

-----------------------------------------------------------------------------
(* Changes of the state record that leave the work alone.                  *)
SameWork(s, t) ==
    /\ t \in States
    /\ t.queue = s.queue /\ t.pending = s.pending
    /\ t.scrobbledUpTo = s.scrobbledUpTo /\ t.fetchedUpTo = s.fetchedUpTo
    /\ \A what \in {"info", "scrobble"}, e \in Entries :
          t.requests[<<what, e>>] > 0 => s.requests[<<what, e>>] > 0 \/ e <= history

LEMMA SameWorkWorks ==
    ASSUME NEW s, NEW t, Works(s), SameWork(s, t)
    PROVE  Works(t)
  BY DEF Works, SameWork, QueueInv, ProviderInv, DoneInv, RequestInv, Before

(* One of the flags, the status or the state of the backend.               *)
LEMMA FlagsKeepWork ==
    ASSUME NEW s \in States, NEW b \in BOOLEAN
    PROVE  /\ SameWork(s, [s EXCEPT !.timeout = b])
           /\ SameWork(s, [s EXCEPT !.backoff = b])
           /\ SameWork(s, [s EXCEPT !.interval = b])
           /\ SameWork(s, [s EXCEPT !.wakeUp = b])
           /\ SameWork(s, [s EXCEPT !.key = b])
  BY Zenon DEF States, SameWork

LEMMA StatusKeepsWork ==
    ASSUME NEW s \in States, NEW x \in Statuses, NEW y \in BackendStates
    PROVE  /\ SameWork(s, [s EXCEPT !.status = x])
           /\ SameWork(s, [s EXCEPT !.backend = y])
  BY Zenon DEF States, SameWork

LEMMA NowPlayingKeepsWork ==
    ASSUME NEW s \in States, NEW n \in NowPlayings
    PROVE  SameWork(s, [s EXCEPT !.nowPlaying = n])
  BY Zenon DEF States, SameWork

LEMMA RequestsKeepWork ==
    ASSUME NEW s \in States, NEW f \in [Requests -> Nat],
           \A what \in {"info", "scrobble"}, e \in Entries :
               f[<<what, e>>] > 0 => s.requests[<<what, e>>] > 0 \/ e <= history
    PROVE  SameWork(s, [s EXCEPT !.requests = f])
  BY Zenon DEF States, SameWork

LEMMA AskKeepsWork ==
    ASSUME NEW s \in States, NEW r \in Requests,
           r[1] \in {"info", "scrobble"} => r[2] <= history
    PROVE  SameWork(s, Ask(s, r))
<1>. DEFINE f == [s.requests EXCEPT ![r] = s.requests[r] + 1]
<1>1. s.requests \in [Requests -> Nat]
  BY DEF States
<1>2. f \in [Requests -> Nat]
  BY <1>1
<1>3. ASSUME NEW what \in {"info", "scrobble"}, NEW e \in Entries, f[<<what, e>>] > 0
      PROVE  s.requests[<<what, e>>] > 0 \/ e <= history
  <2>1. <<what, e>> \in Requests
    BY DEF Requests
  <2>2. CASE r = <<what, e>>
    BY <2>2
  <2>3. CASE r # <<what, e>>
    BY <1>1, <1>3, <2>1, <2>3
  <2>. QED  BY <2>2, <2>3
<1>4. Ask(s, r) = [s EXCEPT !.requests = f]
  BY Zenon DEF Ask
<1>. HIDE DEF f
<1>. QED  BY <1>2, <1>3, <1>4, RequestsKeepWork

(* An answer that has come.                                                *)
LEMMA AnsweredKeepsWork ==
    ASSUME scrobbler \in States, NEW r \in Requests, Reply(r)
    PROVE  SameWork(scrobbler, Answered(r))
<1>. DEFINE f == [scrobbler.requests EXCEPT ![r] = scrobbler.requests[r] - 1]
<1>1. scrobbler.requests \in [Requests -> Nat] /\ scrobbler.requests[r] > 0
  BY DEF States, Reply
<1>2. f \in [Requests -> Nat]
  BY <1>1
<1>3. ASSUME NEW what \in {"info", "scrobble"}, NEW e \in Entries, f[<<what, e>>] > 0
      PROVE  scrobbler.requests[<<what, e>>] > 0
  <2>1. <<what, e>> \in Requests
    BY DEF Requests
  <2>2. CASE r = <<what, e>>
    BY <1>1, <2>2
  <2>3. CASE r # <<what, e>>
    BY <1>1, <1>3, <2>1, <2>3
  <2>. QED  BY <2>2, <2>3
<1>4. Answered(r) = [scrobbler EXCEPT !.requests = f]
  BY Zenon DEF Answered
<1>. HIDE DEF f
<1>. QED  BY <1>2, <1>3, <1>4, RequestsKeepWork

LEMMA StateIsKept ==
    ASSUME NEW s, Works(s)
    PROVE  /\ s \in States /\ s.queue \in Seq(Nat) /\ Len(s.queue) \in Nat
           /\ s.fetchedUpTo \in Nat /\ s.pending \in Nat /\ s.scrobbledUpTo \in Nat
           /\ history \in Nat /\ saved \in Nat
  BY LenProperties, ScrobblerConstants DEF Works, States, DatabaseInv

-----------------------------------------------------------------------------
(* The functions of the scrobbler.                                         *)

LEMMA ReevaluateStatusKeeps ==
    ASSUME NEW s \in States
    PROVE  LET t == ReevaluateStatus(s)
           IN  /\ t \in States /\ t.queue = s.queue /\ t.pending = s.pending
               /\ t.scrobbledUpTo = s.scrobbledUpTo /\ t.fetchedUpTo = s.fetchedUpTo
               /\ t.requests = s.requests
<1>. DEFINE x ==
        CASE s.backend = "NotInitialized" -> "Unknown"
          [] s.backend = "WaitingForUserCredentials" -> s.backend
          [] s.backend = "PermanentFatalError" -> "Red"
          [] OTHER -> IF s.backoff /\ s.interval THEN "Yellow" ELSE "Green"
<1>1. x \in Statuses
  BY Zenon DEF Statuses
<1>2. ReevaluateStatus(s) = [s EXCEPT !.status = x]
  BY Zenon DEF ReevaluateStatus
<1>. HIDE DEF x
<1>. QED  BY <1>1, <1>2, Zenon DEF States

LEMMA ReevaluateStatusWorks ==
    ASSUME NEW s, Works(s)
    PROVE  Works(ReevaluateStatus(s))
<1>. DEFINE t == ReevaluateStatus(s)
<1>1. /\ t \in States /\ t.queue = s.queue /\ t.pending = s.pending
      /\ t.scrobbledUpTo = s.scrobbledUpTo /\ t.fetchedUpTo = s.fetchedUpTo
      /\ t.requests = s.requests
  BY StateIsKept, ReevaluateStatusKeeps
<1>. HIDE DEF t
<1>2. SameWork(s, t)
  BY <1>1 DEF SameWork
<1>. QED  BY <1>2, SameWorkWorks DEF t

LEMMA StartBackoffTimerWorks ==
    ASSUME NEW s, Works(s)
    PROVE  Works(StartBackoffTimer(s))
<1>1. s \in States
  BY StateIsKept
<1>2. SameWork(s, [s EXCEPT !.backoff = TRUE, !.interval = TRUE])
  BY <1>1, Zenon DEF States, SameWork
<1>. QED  BY <1>2, SameWorkWorks, ReevaluateStatusWorks DEF StartBackoffTimer

LEMMA PrependInPlace ==
    ASSUME NEW q \in Seq(Nat), NEW n \in Nat, \A i \in 1..Len(q) : q[i] = n + i
    PROVE  /\ <<n>> \o q \in Seq(Nat) /\ Len(<<n>> \o q) = Len(q) + 1
           /\ \A i \in 1..(Len(q) + 1) : (<<n>> \o q)[i] = n - 1 + i
<1>1. <<n>> \in Seq(Nat) /\ Len(<<n>>) = 1 /\ <<n>>[1] = n /\ Len(q) \in Nat
  BY LenProperties
<1>2. /\ <<n>> \o q \in Seq(Nat) /\ Len(<<n>> \o q) = 1 + Len(q)
      /\ \A i \in 1..(1 + Len(q)) :
            (<<n>> \o q)[i] = IF i <= 1 THEN <<n>>[i] ELSE q[i - 1]
  BY <1>1, ConcatProperties
<1>3. ASSUME NEW i \in 1..(Len(q) + 1)  PROVE (<<n>> \o q)[i] = n - 1 + i
  <2>1. CASE i = 1
    BY <1>1, <1>2, <2>1
  <2>2. CASE i # 1
    <3>1. i - 1 \in 1..Len(q) /\ (<<n>> \o q)[i] = q[i - 1]
      BY <1>1, <1>2, <2>2
    <3>2. q[i - 1] = n + (i - 1)
      BY <3>1
    <3>. QED  BY <3>1, <3>2
  <2>. QED  BY <2>1, <2>2
<1>. QED  BY <1>1, <1>2, <1>3

LEMMA ReinsertPendingScrobbleWorks ==
    ASSUME NEW s, Works(s)
    PROVE  Works(ReinsertPendingScrobble(s))
<1>1. CASE s.pending = 0
  BY <1>1 DEF ReinsertPendingScrobble
<1>2. CASE s.pending # 0
  <2>. DEFINE q == <<s.pending>> \o s.queue
              t == [s EXCEPT !.pending = 0, !.queue = q]
  <2>1. /\ s \in States /\ s.queue \in Seq(Nat) /\ Len(s.queue) \in Nat
        /\ s.pending \in Nat /\ s.pending = Before(s) /\ s.fetchedUpTo \in Nat
        /\ \A i \in 1..Len(s.queue) : s.queue[i] = Before(s) + i
    BY <1>2, StateIsKept DEF Works, QueueInv
  <2>2. s.pending # 0 /\ Works(s)
    BY <1>2
  <2>3. /\ q \in Seq(Nat) /\ Len(q) = Len(s.queue) + 1
        /\ \A i \in 1..(Len(s.queue) + 1) : q[i] = s.pending - 1 + i
    <3>1. \A i \in 1..Len(s.queue) : s.queue[i] = s.pending + i
      BY <2>1
    <3>. QED  BY ONLY <2>1, <3>1, PrependInPlace
  <2>5. ReinsertPendingScrobble(s) = t
    BY <1>2, Zenon DEF ReinsertPendingScrobble
  <2>. HIDE DEF q
  <2>6. /\ t \in States /\ t.queue = q /\ t.pending = 0
        /\ t.scrobbledUpTo = s.scrobbledUpTo /\ t.fetchedUpTo = s.fetchedUpTo
        /\ t.requests = s.requests
    <3>1. 0 \in Nat
      OBVIOUS
    <3>. QED  BY <2>1, <2>3, <3>1, Zenon DEF States
  <2>. HIDE DEF t
  <2>7. Before(t) = Before(s) - 1 /\ Before(s) \in Nat \ {0}
    <3>1. Before(t) = s.fetchedUpTo - (Len(s.queue) + 1)
      BY <2>3, <2>6 DEF Before
    <3>2. Before(s) = s.fetchedUpTo - Len(s.queue)
      BY DEF Before
    <3>. QED  BY <2>1, <2>2, <3>1, <3>2
  <2>8. QueueInv(t)
    <3>1. t.fetchedUpTo <= history /\ Len(t.queue) <= t.fetchedUpTo
      BY <2>2, <2>3, <2>6, <2>7, StateIsKept DEF Works, QueueInv, Before
    <3>2. \A i \in 1..Len(t.queue) : t.queue[i] = Before(t) + i
      BY <2>1, <2>3, <2>6, <2>7
    <3>. QED  BY <2>6, <3>1, <3>2 DEF QueueInv
  <2>9. ProviderInv(t)
    BY <2>1, <2>2, <2>6, <2>7 DEF Works, ProviderInv, DatabaseInv
  <2>10. DoneInv(t) /\ RequestInv(t)
    BY <2>1, <2>2, <2>6, <2>7 DEF Works, DoneInv, RequestInv
  <2>. QED  BY <2>2, <2>5, <2>6, <2>8, <2>9, <2>10 DEF Works
<1>. QED  BY <1>1, <1>2

LEMMA MinOfTwo ==
    ASSUME NEW a \in Nat, NEW b \in Nat
    PROVE  Min({a, b}) \in {a, b} /\ Min({a, b}) <= a /\ Min({a, b}) <= b
<1>1. \E x \in {a, b} : \A y \in {a, b} : x =< y
  OBVIOUS
<1>. QED  BY <1>1, Zenon DEF Min

LEMMA MaxOfTwo ==
    ASSUME NEW a \in Nat, NEW b \in Nat
    PROVE  Max({a, b}) \in {a, b} /\ Max({a, b}) >= a /\ Max({a, b}) >= b
<1>1. \E x \in {a, b} : \A y \in {a, b} : x >= y
  OBVIOUS
<1>. QED  BY <1>1, Zenon DEF Max

(* The next part of the history is fetched when there is nothing to do.    *)
LEMMA FetchWorks ==
    ASSUME NEW s, Works(s), s.queue = << >>, s.pending = 0
    PROVE  Works(Fetch(s)) /\ Fetch(s).pending = 0
<1>. DEFINE from == IF s.fetchedUpTo = 0 THEN saved ELSE s.fetchedUpTo
            to == Min({from + FetchSize, history})
            u == IF s.fetchedUpTo = 0 THEN saved ELSE s.scrobbledUpTo
            q == [i \in 1..(to - from) |-> from + i]
            t == [s EXCEPT !.scrobbledUpTo = u, !.fetchedUpTo = to, !.queue = q]
<1>1. /\ s \in States /\ s.fetchedUpTo \in Nat /\ s.scrobbledUpTo \in Nat
      /\ history \in Nat /\ saved \in Nat /\ s.fetchedUpTo <= history /\ saved <= history
      /\ Len(s.queue) = 0
  BY StateIsKept, EmptySeq DEF Works, QueueInv, DatabaseInv
<1>2. /\ from \in Nat /\ from <= history /\ u \in Nat
      /\ to \in Nat /\ from <= to /\ to <= history
  <2>1. from \in Nat /\ from <= history /\ u \in Nat
    BY <1>1
  <2>2. from + FetchSize \in Nat /\ from <= from + FetchSize
    BY <2>1, ScrobblerConstants
  <2>. HIDE DEF from
  <2>3. to \in {from + FetchSize, history} /\ to <= history
    BY <1>1, <2>2, MinOfTwo
  <2>. QED  BY <1>1, <2>1, <2>2, <2>3
<1>3. Fetch(s) = t
  BY Zenon DEF Fetch
<1>. HIDE DEF from, to, u
<1>4. /\ q \in Seq(Nat) /\ Len(q) = to - from
      /\ \A i \in 1..Len(q) : q[i] = from + i
  <2>1. to - from \in Nat
    BY <1>2
  <2>2. q \in [1..(to - from) -> Nat]
    BY <1>2
  <2>. QED  BY <2>1, <2>2
<1>. HIDE DEF q
<1>5. /\ t \in States /\ t.queue = q /\ t.pending = 0 /\ t.scrobbledUpTo = u
      /\ t.fetchedUpTo = to /\ t.requests = s.requests
  BY <1>1, <1>2, <1>4, Zenon DEF States
<1>6. Before(t) = from
  BY <1>2, <1>4, <1>5 DEF Before
<1>. HIDE DEF t
<1>7. Before(s) = s.fetchedUpTo
  BY <1>1 DEF Before
<1>8. \A e \in 1..from : e \in marked \cup dropped
  <2>1. \A e \in 1..saved : e \in marked \cup dropped
    BY DEF Works, DatabaseInv
  <2>2. \A e \in 1..s.fetchedUpTo : e \in marked \cup dropped \cup {0}
    BY <1>7 DEF Works, DoneInv
  <2>3. 0 \notin 1..s.fetchedUpTo
    BY <1>1
  <2>. QED  BY <1>1, <2>1, <2>2, <2>3 DEF from
<1>9. QueueInv(t)
  BY <1>1, <1>2, <1>4, <1>5, <1>6 DEF QueueInv
<1>10. u = saved /\ saved <= from
  BY <1>1, <1>7 DEF from, u, Works, ProviderInv
<1>11. ProviderInv(t)
  BY <1>2, <1>5, <1>6, <1>10 DEF ProviderInv
<1>12. DoneInv(t) /\ RequestInv(t)
  BY <1>5, <1>6, <1>8 DEF Works, DoneInv, RequestInv
<1>. QED  BY <1>3, <1>5, <1>9, <1>11, <1>12 DEF Works

LEMMA SendNextScrobbleWorks ==
    ASSUME NEW s, Works(s), s.queue # << >>, s.pending = 0
    PROVE  Works(SendNextScrobble(s))
<1>. DEFINE h == Head(s.queue)
            q == Tail(s.queue)
            t == [s EXCEPT !.pending = h, !.queue = q, !.timeout = TRUE]
<1>1. /\ s \in States /\ s.queue \in Seq(Nat) /\ Len(s.queue) \in Nat \ {0}
      /\ s.fetchedUpTo \in Nat /\ history \in Nat /\ saved \in Nat
      /\ s.fetchedUpTo <= history /\ Len(s.queue) <= s.fetchedUpTo
  BY StateIsKept, EmptySeq DEF Works, QueueInv
<1>2. h = Before(s) + 1 /\ Before(s) \in Nat
  BY <1>1 DEF Works, QueueInv, Before
<1>3. /\ q \in Seq(Nat) /\ Len(q) = Len(s.queue) - 1
      /\ \A i \in 1..Len(q) : q[i] = s.queue[i + 1]
  BY <1>1, HeadTailProperties
<1>4. \A i \in 1..Len(q) : q[i] = h + i
  <2>1. \A i \in 1..Len(s.queue) : s.queue[i] = Before(s) + i
    BY DEF Works, QueueInv
  <2>. HIDE DEF q, h
  <2>. QED  BY <1>1, <1>2, <1>3, <2>1
<1>5. SendNextScrobble(s) = Ask(t, <<"info", h>>)
  BY Zenon DEF SendNextScrobble
<1>. HIDE DEF q, h
<1>6. /\ t \in States /\ t.queue = q /\ t.pending = h
      /\ t.scrobbledUpTo = s.scrobbledUpTo /\ t.fetchedUpTo = s.fetchedUpTo
      /\ t.requests = s.requests
  <2>1. h \in Nat
    BY <1>1, <1>2
  <2>. QED  BY <1>1, <1>3, <2>1, Zenon DEF States
<1>. HIDE DEF t
<1>7. Before(t) = h /\ h <= history /\ h \in Entries
  <2>1. Before(t) = s.fetchedUpTo - (Len(s.queue) - 1)
    BY <1>3, <1>6 DEF Before
  <2>2. history \in 0..MaxHistory
    BY DEF Works, DatabaseInv
  <2>. QED  BY <1>1, <1>2, <2>1, <2>2, ScrobblerConstants DEF Before, Entries
<1>8. QueueInv(t)
  <2>1. Len(t.queue) <= t.fetchedUpTo
    BY <1>1, <1>3, <1>6
  <2>. QED  BY <1>1, <1>4, <1>6, <1>7, <2>1 DEF QueueInv
<1>9. ProviderInv(t)
  <2>1. /\ s.scrobbledUpTo <= s.fetchedUpTo
        /\ s.fetchedUpTo # 0 => s.scrobbledUpTo = saved /\ saved <= Before(s)
    BY DEF Works, ProviderInv
  <2>. QED  BY <1>1, <1>2, <1>6, <1>7, <2>1 DEF ProviderInv
<1>10. DoneInv(t)
  <2>1. \A e \in 1..Before(s) : e \in marked \cup dropped \cup {0}
    BY DEF Works, DoneInv
  <2>. QED  BY <1>2, <1>6, <1>7, <2>1 DEF DoneInv
<1>11. RequestInv(t)
  BY <1>6 DEF Works, RequestInv
<1>12. Works(t)
  BY <1>6, <1>8, <1>9, <1>10, <1>11 DEF Works
<1>13. /\ <<"info", h>> \in Requests
       /\ <<"info", h>>[1] \in {"info", "scrobble"} => <<"info", h>>[2] <= history
  BY <1>7 DEF Requests
<1>14. SameWork(t, Ask(t, <<"info", h>>))
  BY <1>6, <1>13, AskKeepsWork
<1>. QED  BY <1>5, <1>12, <1>14, SameWorkWorks

LEMMA SendNowPlayingWorks ==
    ASSUME NEW s, Works(s)
    PROVE  Works(SendNowPlaying(s))
<1>. DEFINE n == [s.nowPlaying EXCEPT !.sent = TRUE, !.done = FALSE]
            t == [s EXCEPT !.nowPlaying = n, !.timeout = TRUE]
<1>1. s \in States
  BY StateIsKept
<1>2. s.nowPlaying \in NowPlayings
  BY <1>1, Zenon DEF States
<1>3. n \in NowPlayings
  BY <1>2, Zenon DEF NowPlayings
<1>4. SendNowPlaying(s) = Ask(t, <<"nowPlaying", 0>>)
  BY <1>1, Zenon DEF SendNowPlaying, States
<1>. HIDE DEF n
<1>5. SameWork(s, t)
  BY <1>1, <1>3, Zenon DEF States, SameWork
<1>. HIDE DEF t
<1>6. <<"nowPlaying", 0>> \in Requests /\ <<"nowPlaying", 0>>[1] \notin {"info", "scrobble"}
  BY DEF Requests
<1>7. Works(t) /\ t \in States
  BY <1>5, SameWorkWorks DEF SameWork
<1>8. SameWork(t, Ask(t, <<"nowPlaying", 0>>))
  BY <1>6, <1>7, AskKeepsWork
<1>. QED  BY <1>4, <1>7, <1>8, SameWorkWorks

LEMMA SendScrobblesOrNowPlayingWorks ==
    ASSUME NEW s, Works(s), s.pending = 0
    PROVE  Works(SendScrobblesOrNowPlaying(s))
<1>. DEFINE t == IF s.queue = << >> THEN Fetch(s) ELSE s
<1>1. Works(t) /\ t.pending = 0
  BY FetchWorks
<1>2. SendScrobblesOrNowPlaying(s) \in {SendNextScrobble(t), SendNowPlaying(t), t}
  BY Zenon DEF SendScrobblesOrNowPlaying
<1>3. t.queue # << >> => Works(SendNextScrobble(t))
  BY <1>1, SendNextScrobbleWorks
<1>4. Works(SendNowPlaying(t))
  BY <1>1, SendNowPlayingWorks
<1>5. t.queue = << >> => SendScrobblesOrNowPlaying(s) \in {SendNowPlaying(t), t}
  BY Zenon DEF SendScrobblesOrNowPlaying
<1>. HIDE DEF t
<1>. QED  BY <1>1, <1>2, <1>3, <1>4, <1>5

LEMMA CheckInitializedWorks ==
    ASSUME NEW s, Works(s)
    PROVE  Works(CheckInitialized(s))
<1>1. CASE MayDoSomething(s) /\ s.backend = "ReadyForScrobbling"
  BY <1>1, SendScrobblesOrNowPlayingWorks DEF CheckInitialized, MayDoSomething
<1>2. CASE ~ (MayDoSomething(s) /\ s.backend = "ReadyForScrobbling")
  BY <1>2 DEF CheckInitialized
<1>. QED  BY <1>1, <1>2

LEMMA SetStateWorks ==
    ASSUME NEW s, Works(s), NEW state \in BackendStates
    PROVE  Works(SetState(s, state))
<1>. DEFINE a == [s EXCEPT !.backend = state]
            b == [a EXCEPT !.timeout = FALSE]
            t == ReevaluateStatus(b)
<1>1. SameWork(s, a)
  <2>1. s \in States /\ "Unknown" \in Statuses
    BY StateIsKept DEF Statuses
  <2>. QED  BY <2>1, StatusKeepsWork
<1>. HIDE DEF a
<1>2. Works(a) /\ a \in States
  BY <1>1, SameWorkWorks DEF SameWork
<1>3. SameWork(a, b)
  BY <1>2, FlagsKeepWork
<1>. HIDE DEF b
<1>4. Works(t)
  BY <1>2, <1>3, SameWorkWorks, ReevaluateStatusWorks
<1>5. BackendStateChanged(a) \in {t, CheckInitialized(t)}
  BY Zenon DEF BackendStateChanged, b
<1>. HIDE DEF t
<1>6. SetState(s, state) \in {s, BackendStateChanged(a)}
  BY Zenon DEF SetState, a
<1>. QED  BY <1>4, <1>5, <1>6, CheckInitializedWorks

LEMMA LeaveStateWorks ==
    ASSUME NEW s, Works(s), NEW old
    PROVE  Works(LeaveState(s, old))
<1>1. \A state \in BackendStates : Works(SetState(s, state))
  BY SetStateWorks
<1>2. LeaveState(s, old) \in {s, SetState(s, "ReadyForScrobbling"),
                              SetState(s, "WaitingForUserCredentials")}
  BY Zenon DEF LeaveState
<1>. QED  BY <1>1, <1>2 DEF BackendStates

LEMMA UpdateStateWorks ==
    ASSUME NEW s, Works(s)
    PROVE  Works(UpdateState(s))
<1>1. UpdateState(s) \in {s, LeaveState(s, s.backend)}
  BY Zenon DEF UpdateState
<1>2. Works(LeaveState(s, s.backend))
  BY LeaveStateWorks
<1>. QED  BY <1>1, <1>2

LEMMA InitializeWorks ==
    ASSUME NEW s, Works(s)
    PROVE  Works(Initialize(s))
<1>. DEFINE t == IF SslPresent THEN s ELSE SetState(s, "PermanentFatalError")
            u == LeaveState(t, "NotInitialized")
<1>1. Works(t)
  BY SetStateWorks DEF BackendStates
<1>. HIDE DEF t
<1>2. Works(u)
  BY <1>1, LeaveStateWorks
<1>3. Initialize(s) = [u EXCEPT !.wakeUp = TRUE]
  BY Zenon DEF Initialize, t
<1>. HIDE DEF u
<1>4. SameWork(u, [u EXCEPT !.wakeUp = TRUE])
  BY <1>2, StateIsKept, FlagsKeepWork
<1>. QED  BY <1>2, <1>3, <1>4, SameWorkWorks

LEMMA CheckIfWeHaveSomethingToDoWorks ==
    ASSUME NEW s, Works(s)
    PROVE  Works(CheckIfWeHaveSomethingToDo(s))
<1>1. CheckIfWeHaveSomethingToDo(s) \in {Initialize(s), CheckInitialized(s)}
  BY Zenon DEF CheckIfWeHaveSomethingToDo
<1>. QED  BY <1>1, InitializeWorks, CheckInitializedWorks

LEMMA GotNowPlayingResultWorks ==
    ASSUME NEW s, Works(s), NEW success \in BOOLEAN
    PROVE  Works(GotNowPlayingResult(s, success))
<1>. DEFINE n == [s.nowPlaying EXCEPT !.done = TRUE]
            o == [s.nowPlaying EXCEPT !.sent = FALSE]
            t == [s EXCEPT !.timeout = FALSE, !.nowPlaying = n]
            u == [s EXCEPT !.timeout = FALSE, !.nowPlaying = o]
<1>1. s \in States
  BY StateIsKept
<1>2. s.nowPlaying \in NowPlayings
  BY <1>1, Zenon DEF States
<1>3. n \in NowPlayings /\ o \in NowPlayings
  BY <1>2, Zenon DEF NowPlayings
<1>4. GotNowPlayingResult(s, success) \in
          {CheckIfWeHaveSomethingToDo(ReevaluateStatus(t)), StartBackoffTimer(u)}
  BY <1>1, Zenon DEF GotNowPlayingResult, States
<1>. HIDE DEF n, o
<1>5. SameWork(s, t) /\ SameWork(s, u)
  BY <1>1, <1>3, Zenon DEF States, SameWork
<1>. HIDE DEF t, u
<1>6. Works(t) /\ Works(u)
  BY <1>5, SameWorkWorks
<1>. QED  BY <1>4, <1>6, ReevaluateStatusWorks, CheckIfWeHaveSomethingToDoWorks,
             StartBackoffTimerWorks

(* An error: the entry that is pending is tried again.                     *)
LEMMA GotScrobbleErrorWorks ==
    ASSUME NEW s, Works(s)
    PROVE  Works(GotScrobbleResult(s, "error"))
<1>. DEFINE t == [s EXCEPT !.timeout = FALSE]
<1>1. SameWork(s, t)
  BY StateIsKept, FlagsKeepWork
<1>2. GotScrobbleResult(s, "error") \in {s, StartBackoffTimer(ReinsertPendingScrobble(t))}
  BY Zenon DEF GotScrobbleResult
<1>. HIDE DEF t
<1>. QED  BY <1>1, <1>2, SameWorkWorks, ReinsertPendingScrobbleWorks, StartBackoffTimerWorks

LEMMA HandleErrorCodeWorks ==
    ASSUME NEW s, Works(s), NEW code \in ErrorCodes
    PROVE  Works(HandleErrorCode(s, code))
<1>. DEFINE t == [s EXCEPT !.key = FALSE]
<1>1. SameWork(s, t)
  BY StateIsKept, FlagsKeepWork
<1>2. HandleErrorCode(s, code) \in
          {ServiceTemporarilyUnavailable(s), UpdateState(t),
           SetState(s, "PermanentFatalError"), s}
  BY Zenon DEF HandleErrorCode, ErrorCodes
<1>. HIDE DEF t
<1>3. Works(ServiceTemporarilyUnavailable(s))
  BY ReinsertPendingScrobbleWorks, StartBackoffTimerWorks DEF ServiceTemporarilyUnavailable
<1>4. Works(UpdateState(t))
  BY <1>1, SameWorkWorks, UpdateStateWorks
<1>5. Works(SetState(s, "PermanentFatalError"))
  BY SetStateWorks DEF BackendStates
<1>. QED  BY <1>2, <1>3, <1>4, <1>5

LEMMA NewWorks ==
    ASSUME DatabaseInv, NEW key \in BOOLEAN
    PROVE  Works(New(key))
<1>. DEFINE n == [present |-> FALSE, sent |-> FALSE, done |-> FALSE]
            f == [r \in Requests |-> 0]
            s == New(key)
<1>1. n \in NowPlayings /\ f \in [Requests -> Nat] /\ << >> \in Seq(Nat)
  BY DEF NowPlayings
<1>2. /\ s \in States /\ s.queue = << >> /\ s.pending = 0 /\ s.scrobbledUpTo = 0
      /\ s.fetchedUpTo = 0 /\ s.requests = f
  <2>1. 0 \in Nat /\ "NotInitialized" \in BackendStates /\ "Unknown" \in Statuses
    BY DEF BackendStates, Statuses
  <2>. HIDE DEF n, f
  <2>2. s = [backend |-> "NotInitialized", key |-> key, status |-> "Unknown",
             queue |-> << >>, pending |-> 0, nowPlaying |-> n, timeout |-> FALSE,
             backoff |-> FALSE, interval |-> FALSE, wakeUp |-> FALSE,
             scrobbledUpTo |-> 0, fetchedUpTo |-> 0, requests |-> f]
    BY DEF New, n, f
  <2>. QED  BY <1>1, <2>1, <2>2 DEF States
<1>. HIDE DEF s, f, n
<1>3. Before(s) = 0 /\ Len(s.queue) = 0 /\ history \in Nat
  <2>1. Len(s.queue) = 0
    BY <1>2
  <2>2. s.fetchedUpTo = 0
    BY <1>2
  <2>. QED  BY <2>1, <2>2, ScrobblerConstants DEF Before, DatabaseInv
<1>4. \A what \in {"info", "scrobble"}, e \in Entries : s.requests[<<what, e>>] = 0
  BY <1>2 DEF Requests, f
<1>5. QueueInv(s) /\ ProviderInv(s) /\ DoneInv(s) /\ RequestInv(s)
  BY <1>2, <1>3, <1>4 DEF QueueInv, ProviderInv, DoneInv, RequestInv
<1>. QED  BY <1>2, <1>5 DEF Works, s

-----------------------------------------------------------------------------
(* Each event keeps the invariant.                                         *)

(* What the database has stays as it is, with what is done with.           *)
DatabaseStays ==
    UNCHANGED <<untitled, history, saved, savedKey, marked, dropped, accepted>>

LEMMA WorkIsKept ==
    ASSUME DatabaseStays, enabled' \in BOOLEAN, Works(scrobbler')
    PROVE  IInv'
  BY DEF DatabaseStays, IInv, Works, DatabaseInv, QueueInv, ProviderInv, DoneInv,
         RequestInv, Before

LEMMA AnsweredWorks ==
    ASSUME IInv, NEW r \in Requests, Reply(r)
    PROVE  Works(Answered(r))
  BY StateIsKept, AnsweredKeepsWork, SameWorkWorks DEF IInv

LEMMA RequestsAbout ==
    ASSUME NEW e \in Entries
    PROVE  /\ <<"info", e>> \in Requests /\ <<"scrobble", e>> \in Requests
           /\ <<"nowPlaying", 0>> \in Requests /\ <<"authenticate", 0>> \in Requests
  BY DEF Requests

LEMMA AddToHistoryKeeps ==
    ASSUME IInv, AddToHistory
    PROVE  IInv'
<1>1. /\ UNCHANGED <<enabled, scrobbler, untitled, saved, savedKey, marked, dropped,
                     accepted>>
      /\ history \in Nat /\ saved \in Nat /\ history' = history + 1 /\ history < MaxHistory
  BY StateIsKept DEF IInv, AddToHistory
<1>2. DatabaseInv'
  BY <1>1, ScrobblerConstants DEF IInv, Works, DatabaseInv
<1>3. QueueInv(scrobbler)'
  BY <1>1, StateIsKept DEF IInv, Works, QueueInv, Before
<1>4. ProviderInv(scrobbler)' /\ DoneInv(scrobbler)' /\ (scrobbler \in States)'
  BY <1>1 DEF IInv, Works, ProviderInv, DoneInv, Before
<1>5. RequestInv(scrobbler)'
  BY <1>1, ScrobblerConstants DEF IInv, Works, RequestInv, Entries
<1>. QED  BY <1>2, <1>3, <1>4, <1>5 DEF IInv, Works

LEMMA WakeUpsKeep ==
    ASSUME IInv, WakeUpForUser \/ WakeUp \/ BackoffTimer
    PROVE  IInv'
<1>. DEFINE t == [scrobbler EXCEPT !.wakeUp = FALSE]
            u == [scrobbler EXCEPT !.backoff = FALSE]
<1>1. Works(scrobbler)
  BY DEF IInv
<1>2. SameWork(scrobbler, t) /\ SameWork(scrobbler, u)
  BY <1>1, StateIsKept, FlagsKeepWork
<1>3. scrobbler' \in {CheckIfWeHaveSomethingToDo(scrobbler), CheckIfWeHaveSomethingToDo(t),
                      CheckIfWeHaveSomethingToDo(u)}
  BY Zenon DEF WakeUpForUser, WakeUp, BackoffTimer
<1>. HIDE DEF t, u
<1>4. Works(scrobbler')
  BY <1>1, <1>2, <1>3, SameWorkWorks, CheckIfWeHaveSomethingToDoWorks
<1>5. DatabaseStays /\ enabled' = enabled
  BY DEF WakeUpForUser, WakeUp, BackoffTimer, DatabaseStays, KeepDatabase
<1>. QED  BY <1>1, <1>4, <1>5, WorkIsKept DEF Works, DatabaseInv

LEMMA NowPlayingTrackKeeps ==
    ASSUME IInv, NEW known \in BOOLEAN, NowPlayingTrack(known)
    PROVE  IInv'
<1>. DEFINE n == [present |-> TRUE, sent |-> FALSE, done |-> FALSE]
            o == [scrobbler.nowPlaying EXCEPT !.present = FALSE]
            t == [scrobbler EXCEPT !.nowPlaying = n]
            u == [scrobbler EXCEPT !.nowPlaying = o]
<1>1. Works(scrobbler) /\ scrobbler \in States
  BY StateIsKept DEF IInv
<1>2. scrobbler.nowPlaying \in NowPlayings
  BY <1>1, Zenon DEF States
<1>3. n \in NowPlayings /\ o \in NowPlayings
  BY <1>2, Zenon DEF NowPlayings
<1>4. scrobbler' \in {CheckIfWeHaveSomethingToDo(t), u}
  BY <1>1, Zenon DEF NowPlayingTrack, States
<1>. HIDE DEF n, o
<1>5. SameWork(scrobbler, t) /\ SameWork(scrobbler, u)
  BY <1>1, <1>3, NowPlayingKeepsWork
<1>. HIDE DEF t, u
<1>6. Works(scrobbler')
  BY <1>1, <1>4, <1>5, SameWorkWorks, CheckIfWeHaveSomethingToDoWorks
<1>7. DatabaseStays /\ enabled' = enabled
  BY DEF NowPlayingTrack, DatabaseStays, KeepDatabase
<1>. QED  BY <1>1, <1>6, <1>7, WorkIsKept DEF Works, DatabaseInv

LEMMA TimeoutTimerKeeps ==
    ASSUME IInv, TimeoutTimer
    PROVE  IInv'
<1>. DEFINE t == [scrobbler EXCEPT !.timeout = FALSE]
<1>1. Works(scrobbler)
  BY DEF IInv
<1>2. SameWork(scrobbler, t)
  BY <1>1, StateIsKept, FlagsKeepWork
<1>3. scrobbler' = ReinsertPendingScrobble(t)
  BY Zenon DEF TimeoutTimer
<1>. HIDE DEF t
<1>4. Works(scrobbler')
  BY <1>1, <1>2, <1>3, SameWorkWorks, ReinsertPendingScrobbleWorks
<1>5. DatabaseStays /\ enabled' = enabled
  BY DEF TimeoutTimer, DatabaseStays, KeepDatabase
<1>. QED  BY <1>1, <1>4, <1>5, WorkIsKept DEF Works, DatabaseInv

LEMMA TrackInfoKeeps ==
    ASSUME IInv, NEW e \in Entries, TrackInfo(e)
    PROVE  IInv'
<1>. DEFINE s == Answered(<<"info", e>>)
<1>1. Reply(<<"info", e>>) /\ Works(s) /\ e <= history
  <2>1. Reply(<<"info", e>>) /\ <<"info", e>> \in Requests
    BY RequestsAbout DEF TrackInfo
  <2>2. scrobbler.requests[<<"info", e>>] > 0
    BY <2>1 DEF Reply
  <2>. QED  BY <2>1, <2>2, AnsweredWorks DEF IInv, Works, RequestInv
<1>2. scrobbler' \in {s, Ask(s, <<"scrobble", e>>)}
  BY Zenon DEF TrackInfo
<1>. HIDE DEF s
<1>3. SameWork(s, Ask(s, <<"scrobble", e>>))
  <2>1. <<"scrobble", e>>[1] = "scrobble" /\ <<"scrobble", e>>[2] = e
    OBVIOUS
  <2>. QED  BY <1>1, <2>1, RequestsAbout, StateIsKept, AskKeepsWork
<1>4. Works(scrobbler')
  BY <1>1, <1>2, <1>3, SameWorkWorks
<1>5. DatabaseStays /\ enabled' = enabled
  BY DEF TrackInfo, DatabaseStays, KeepDatabase
<1>. QED  BY <1>4, <1>5, WorkIsKept DEF IInv, Works, DatabaseInv

(* The entry that is pending is given up.                                  *)
LEMMA NoTrackInfoKeeps ==
    ASSUME IInv, NEW e \in Entries, NoTrackInfo(e)
    PROVE  IInv'
<1>. DEFINE s == Answered(<<"info", e>>)
            t == [s EXCEPT !.timeout = FALSE, !.pending = 0]
<1>1. Works(s) /\ SameWork(scrobbler, s)
  <2>1. Reply(<<"info", e>>) /\ <<"info", e>> \in Requests
    BY RequestsAbout DEF NoTrackInfo
  <2>. QED  BY <2>1, AnsweredWorks, AnsweredKeepsWork, StateIsKept DEF IInv
<1>2. scrobbler' = t
  BY Zenon DEF NoTrackInfo
<1>3. /\ UNCHANGED <<enabled, untitled, history, saved, savedKey, marked, accepted>>
      /\ dropped' = dropped \cup ({scrobbler.pending} \ {0})
  BY DEF NoTrackInfo, KeepDatabase
<1>. HIDE DEF s
<1>4. /\ t \in States /\ t.queue = s.queue /\ t.pending = 0
      /\ t.scrobbledUpTo = s.scrobbledUpTo /\ t.fetchedUpTo = s.fetchedUpTo
      /\ t.requests = s.requests
  <2>1. s \in States /\ 0 \in Nat
    BY <1>1, StateIsKept
  <2>. QED  BY <2>1, Zenon DEF States
<1>. HIDE DEF t
<1>5. s.pending = scrobbler.pending /\ Before(t) = Before(s)
  BY <1>1, <1>4 DEF SameWork, Before
<1>6. s.pending \in 0..history
  <2>1. s.pending \in {0, Before(s)} /\ s.fetchedUpTo <= history /\ s.pending \in Nat
    BY <1>1, StateIsKept DEF Works, QueueInv
  <2>. QED  BY <1>1, <2>1, StateIsKept DEF Before
<1>7. DatabaseInv'
  <2>1. dropped' \in SUBSET (1..history)
    <3>1. dropped \in SUBSET (1..history) /\ history \in Nat
      BY <1>1, StateIsKept DEF Works, DatabaseInv
    <3>2. ASSUME NEW x \in dropped'  PROVE x \in 1..history
      <4>1. CASE x \in dropped
        BY <3>1, <4>1
      <4>2. CASE x = s.pending /\ x # 0
        BY <1>6, <3>1, <4>2
      <4>. QED  BY <1>3, <1>5, <4>1, <4>2
    <3>. QED  BY <3>2
  <2>2. \A x \in 1..saved : x \in marked \cup dropped'
    BY <1>1, <1>3 DEF Works, DatabaseInv
  <2>. QED  BY <1>1, <1>3, <2>1, <2>2 DEF Works, DatabaseInv
<1>8. QueueInv(scrobbler)' /\ ProviderInv(scrobbler)'
  BY <1>1, <1>2, <1>3, <1>4, <1>5 DEF Works, QueueInv, ProviderInv, Before
<1>9. DoneInv(scrobbler)'
  <2>1. \A x \in 1..Before(t) : x \in marked \cup dropped'
    <3>1. \A x \in 1..Before(s) : x # 0
      BY <1>1, StateIsKept DEF Before
    <3>. QED  BY <1>1, <1>3, <1>5, <3>1 DEF Works, DoneInv
  <2>. QED  BY <1>2, <1>3, <2>1 DEF DoneInv, Before
<1>10. RequestInv(scrobbler)'
  BY <1>1, <1>2, <1>3, <1>4 DEF Works, RequestInv
<1>. QED  BY <1>2, <1>4, <1>7, <1>8, <1>9, <1>10 DEF IInv, Works

(* The entry that is pending is marked as scrobbled.                       *)
LEMMA ScrobbleReplyKeeps ==
    ASSUME IInv, NEW e \in Entries, ScrobbleReply(e)
    PROVE  IInv'
<1>. DEFINE s == Answered(<<"scrobble", e>>)
<1>1. Works(s) /\ SameWork(scrobbler, s) /\ e \in 1..history
  <2>1. Reply(<<"scrobble", e>>) /\ <<"scrobble", e>> \in Requests
    BY RequestsAbout DEF ScrobbleReply
  <2>2. scrobbler.requests[<<"scrobble", e>>] > 0
    BY <2>1 DEF Reply
  <2>3. e <= history
    BY <2>2 DEF IInv, Works, RequestInv
  <2>4. e \in 1..history
    BY <2>3, StateIsKept, ScrobblerConstants DEF IInv, Entries
  <2>. QED  BY <2>1, <2>4, AnsweredWorks, AnsweredKeepsWork, StateIsKept DEF IInv
<1>2. scrobbler' = GotScrobbleResult(s, "success")
  BY DEF ScrobbleReply
<1>3. /\ UNCHANGED <<enabled, untitled, history, savedKey, dropped>>
      /\ accepted' = accepted \cup {e} /\ Mark(scrobbler)
  BY DEF ScrobbleReply
<1>. HIDE DEF s
<1>4. /\ s.pending = scrobbler.pending /\ s.scrobbledUpTo = scrobbler.scrobbledUpTo
      /\ s \in States /\ s.pending \in Nat /\ s.scrobbledUpTo \in Nat
      /\ s.fetchedUpTo \in Nat /\ Len(s.queue) \in Nat /\ history \in Nat /\ saved \in Nat
  BY <1>1, StateIsKept DEF SameWork
<1>5. CASE s.pending = 0
  <2>1. scrobbler' = s
    BY <1>2, <1>5, Zenon DEF GotScrobbleResult
  <2>2. UNCHANGED <<saved, marked>>
    BY <1>3, <1>4, <1>5 DEF Mark
  <2>3. DatabaseInv'
    BY <1>1, <1>3, <2>2 DEF Works, DatabaseInv
  <2>4. /\ (scrobbler \in States)' /\ QueueInv(scrobbler)' /\ ProviderInv(scrobbler)'
        /\ DoneInv(scrobbler)' /\ RequestInv(scrobbler)'
    BY <1>1, <1>3, <2>1, <2>2
       DEF Works, QueueInv, ProviderInv, DoneInv, RequestInv, Before
  <2>. QED  BY <2>3, <2>4 DEF IInv, Works
<1>6. CASE s.pending # 0
  <2>. DEFINE u == Max({s.scrobbledUpTo, s.pending})
              t == [s EXCEPT !.timeout = FALSE, !.interval = FALSE, !.wakeUp = TRUE,
                             !.pending = 0, !.scrobbledUpTo = u]
  <2>1. saved' = u /\ marked' = marked \cup {s.pending}
    BY <1>3, <1>4, <1>6 DEF Mark
  <2>2. scrobbler' = ReevaluateStatus(t)
    BY <1>2, <1>4, <1>6, Zenon DEF GotScrobbleResult, States
  <2>3. /\ s.pending = Before(s) /\ Before(s) \in Nat \ {0} /\ s.fetchedUpTo # 0
        /\ Before(s) <= s.fetchedUpTo /\ s.fetchedUpTo <= history
    BY <1>1, <1>4, <1>6 DEF Works, QueueInv, Before
  <2>4. u = s.pending
    <3>1. s.scrobbledUpTo = saved /\ saved < s.pending
      BY <1>1, <1>6, <2>3 DEF Works, ProviderInv
    <3>2. u \in {s.scrobbledUpTo, s.pending} /\ u >= s.pending
      BY <1>4, MaxOfTwo
    <3>. HIDE DEF u
    <3>. QED  BY <1>4, <3>1, <3>2
  <2>. HIDE DEF u
  <2>5. /\ t \in States /\ t.queue = s.queue /\ t.pending = 0
        /\ t.scrobbledUpTo = u /\ t.fetchedUpTo = s.fetchedUpTo
        /\ t.requests = s.requests
    <3>1. s \in States /\ 0 \in Nat /\ u \in Nat
      BY <1>4, <2>4
    <3>. QED  BY <3>1, Zenon DEF States
  <2>. HIDE DEF t
  <2>. DEFINE r == ReevaluateStatus(t)
  <2>6. /\ r \in States /\ r.queue = s.queue /\ r.pending = 0
        /\ r.scrobbledUpTo = s.pending /\ r.fetchedUpTo = s.fetchedUpTo
        /\ r.requests = s.requests
    BY <2>4, <2>5, ReevaluateStatusKeeps
  <2>. HIDE DEF r
  <2>7. Before(r) = Before(s)
    BY <2>6 DEF Before
  <2>8. scrobbler' = r /\ saved' = s.pending
    BY <2>1, <2>2, <2>4 DEF r
  <2>9. marked' \in SUBSET (1..saved')
    <3>1. marked \in SUBSET (1..saved) /\ saved < s.pending
      BY <1>1, <1>6, <2>3 DEF Works, DatabaseInv, ProviderInv
    <3>2. ASSUME NEW x \in marked'  PROVE x \in 1..s.pending
      <4>1. CASE x \in marked
        BY <1>4, <3>1, <4>1
      <4>2. CASE x = s.pending
        BY <1>4, <2>3, <4>2
      <4>. QED  BY <2>1, <4>1, <4>2
    <3>. QED  BY <2>8, <3>2
  <2>10. \A x \in 1..saved' : x \in marked' \cup dropped
    <3>1. \A x \in 1..Before(s) : x \in marked \cup dropped \cup {s.pending}
      BY <1>1 DEF Works, DoneInv
    <3>. QED  BY <2>1, <2>3, <2>8, <3>1
  <2>11. DatabaseInv'
    <3>1. accepted' \in SUBSET (1..history) /\ saved' \in 0..history
      BY <1>1, <1>3, <1>4, <2>3, <2>8 DEF Works, DatabaseInv
    <3>. QED  BY <1>1, <1>3, <2>9, <2>10, <3>1 DEF Works, DatabaseInv
  <2>12. QueueInv(scrobbler)'
    BY <1>1, <1>3, <2>6, <2>7, <2>8 DEF Works, QueueInv, Before
  <2>13. ProviderInv(scrobbler)'
    BY <1>1, <1>4, <2>3, <2>6, <2>7, <2>8 DEF ProviderInv, Before
  <2>14. DoneInv(scrobbler)'
    BY <1>3, <2>3, <2>6, <2>7, <2>8, <2>10 DEF DoneInv, Before
  <2>15. RequestInv(scrobbler)' /\ scrobbler' \in States
    BY <1>1, <1>3, <2>6, <2>8 DEF Works, RequestInv
  <2>. QED  BY <2>11, <2>12, <2>13, <2>14, <2>15 DEF IInv, Works
<1>. QED  BY <1>5, <1>6

(* Replies that report an error.                                           *)
LEMMA ScrobbleErrorKeeps ==
    ASSUME IInv, NEW e \in Entries, NEW code \in ErrorCodes, ScrobbleError(e, code)
    PROVE  IInv'
<1>1. Reply(<<"scrobble", e>>)
  BY DEF ScrobbleError
<1>2. Works(Answered(<<"scrobble", e>>))
  BY <1>1, AnsweredWorks DEF Requests
<1>3. Works(scrobbler')
  BY <1>2, HandleErrorCodeWorks, GotScrobbleErrorWorks DEF ScrobbleError
<1>4. DatabaseStays /\ enabled' = enabled
  BY DEF ScrobbleError, DatabaseStays, KeepDatabase
<1>. QED  BY <1>3, <1>4, WorkIsKept DEF IInv, Works, DatabaseInv

LEMMA NowPlayingErrorKeeps ==
    ASSUME IInv, NEW code \in ErrorCodes, NowPlayingError(code)
    PROVE  IInv'
<1>1. Reply(<<"nowPlaying", 0>>)
  BY DEF NowPlayingError
<1>2. Works(Answered(<<"nowPlaying", 0>>))
  BY <1>1, AnsweredWorks DEF Requests
<1>3. Works(scrobbler')
  BY <1>2, HandleErrorCodeWorks, GotNowPlayingResultWorks DEF NowPlayingError
<1>4. DatabaseStays /\ enabled' = enabled
  BY DEF NowPlayingError, DatabaseStays, KeepDatabase
<1>. QED  BY <1>3, <1>4, WorkIsKept DEF IInv, Works, DatabaseInv

LEMMA AuthenticationErrorKeeps ==
    ASSUME IInv, NEW code \in ErrorCodes, AuthenticationError(code)
    PROVE  IInv'
<1>1. Reply(<<"authenticate", 0>>)
  BY DEF AuthenticationError
<1>2. Works(Answered(<<"authenticate", 0>>))
  BY <1>1, AnsweredWorks DEF Requests
<1>3. Works(scrobbler')
  BY <1>2, HandleErrorCodeWorks DEF AuthenticationError
<1>4. DatabaseStays /\ enabled' = enabled
  BY DEF AuthenticationError, DatabaseStays, KeepDatabase
<1>. QED  BY <1>3, <1>4, WorkIsKept DEF IInv, Works, DatabaseInv

LEMMA NowPlayingReplyKeeps ==
    ASSUME IInv, NowPlayingReply
    PROVE  IInv'
<1>1. Works(Answered(<<"nowPlaying", 0>>))
  <2>1. Reply(<<"nowPlaying", 0>>) /\ <<"nowPlaying", 0>> \in Requests
    BY DEF NowPlayingReply, Requests
  <2>. QED  BY <2>1, AnsweredWorks
<1>2. Works(scrobbler')
  BY <1>1, GotNowPlayingResultWorks DEF NowPlayingReply
<1>3. DatabaseStays /\ enabled' = enabled
  BY DEF NowPlayingReply, DatabaseStays, KeepDatabase
<1>. QED  BY <1>2, <1>3, WorkIsKept DEF IInv, Works, DatabaseInv

LEMMA AuthenticateKeeps ==
    ASSUME IInv, AuthenticateWithCredentials
    PROVE  IInv'
<1>1. /\ <<"authenticate", 0>> \in Requests
      /\ <<"authenticate", 0>>[1] \notin {"info", "scrobble"}
  BY DEF Requests
<1>2. SameWork(scrobbler, Ask(scrobbler, <<"authenticate", 0>>))
  BY <1>1, StateIsKept, AskKeepsWork DEF IInv
<1>3. Works(scrobbler')
  BY <1>2, SameWorkWorks DEF AuthenticateWithCredentials, IInv
<1>4. DatabaseStays /\ enabled' = enabled
  BY DEF AuthenticateWithCredentials, DatabaseStays, KeepDatabase
<1>. QED  BY <1>3, <1>4, WorkIsKept DEF IInv, Works, DatabaseInv

LEMMA AuthenticatedKeeps ==
    ASSUME IInv, Authenticated
    PROVE  IInv'
<1>. DEFINE s == Answered(<<"authenticate", 0>>)
            t == [s EXCEPT !.key = TRUE]
<1>1. Works(s)
  <2>1. Reply(<<"authenticate", 0>>) /\ <<"authenticate", 0>> \in Requests
    BY DEF Authenticated, Requests
  <2>. QED  BY <2>1, AnsweredWorks
<1>2. scrobbler' = UpdateState(t)
  BY Zenon DEF Authenticated
<1>. HIDE DEF s
<1>3. SameWork(s, t)
  BY <1>1, StateIsKept, FlagsKeepWork
<1>. HIDE DEF t
<1>4. Works(scrobbler')
  BY <1>1, <1>2, <1>3, SameWorkWorks, UpdateStateWorks
<1>5. /\ UNCHANGED <<enabled, untitled, history, saved, marked, dropped, accepted>>
      /\ savedKey' = TRUE
  BY DEF Authenticated
<1>. QED  BY <1>4, <1>5
          DEF IInv, Works, DatabaseInv, QueueInv, ProviderInv, DoneInv, RequestInv, Before

LEMMA TogglesKeep ==
    ASSUME IInv, Disable \/ Enable
    PROVE  IInv'
<1>1. DatabaseInv /\ savedKey \in BOOLEAN
  BY DEF IInv, Works, DatabaseInv
<1>2. Works(New(FALSE)) /\ Works(New(savedKey))
  BY <1>1, NewWorks
<1>3. Works(scrobbler') /\ enabled' \in BOOLEAN
  BY <1>2, CheckIfWeHaveSomethingToDoWorks DEF Disable, Enable
<1>4. DatabaseStays
  BY DEF Disable, Enable, DatabaseStays, KeepDatabase
<1>. QED  BY <1>3, <1>4, WorkIsKept

-----------------------------------------------------------------------------
(* The theorems.                                                           *)

LEMMA InitInv == Init => IInv
<1>. SUFFICES ASSUME Init PROVE IInv
  OBVIOUS
<1>1. 0 \in 0..MaxHistory /\ 0 \in 0..0
  BY ScrobblerConstants
<1>2. /\ enabled = FALSE /\ savedKey \in BOOLEAN /\ untitled \in SUBSET Entries
      /\ history = 0 /\ saved = 0 /\ marked = {} /\ dropped = {} /\ accepted = {}
      /\ scrobbler = New(FALSE)
  BY Zenon DEF Init
<1>3. DatabaseInv
  <2>1. \A x \in 1..saved : FALSE
    BY <1>2
  <2>2. enabled \in BOOLEAN /\ history \in 0..MaxHistory /\ saved \in 0..history
    BY <1>1, <1>2
  <2>. QED  BY <1>2, <2>1, <2>2 DEF DatabaseInv
<1>. QED  BY <1>2, <1>3, NewWorks DEF IInv

LEMMA NextInv == IInv /\ [Next]_vars => IInv'
<1>. SUFFICES ASSUME IInv, [Next]_vars PROVE IInv'
  OBVIOUS
<1>1. CASE AddToHistory
  BY <1>1, AddToHistoryKeeps
<1>2. CASE WakeUpForUser \/ WakeUp \/ BackoffTimer
  BY <1>2, WakeUpsKeep
<1>3. CASE TimeoutTimer
  BY <1>3, TimeoutTimerKeeps
<1>4. CASE \E known \in BOOLEAN : NowPlayingTrack(known)
  BY <1>4, NowPlayingTrackKeeps
<1>5. CASE \E e \in Entries : TrackInfo(e)
  BY <1>5, TrackInfoKeeps
<1>6. CASE \E e \in Entries : NoTrackInfo(e)
  BY <1>6, NoTrackInfoKeeps
<1>7. CASE \E e \in Entries : ScrobbleReply(e)
  BY <1>7, ScrobbleReplyKeeps
<1>8. CASE \E e \in Entries, code \in ErrorCodes : ScrobbleError(e, code)
  BY <1>8, ScrobbleErrorKeeps
<1>9. CASE NowPlayingReply
  BY <1>9, NowPlayingReplyKeeps
<1>10. CASE \E code \in ErrorCodes : NowPlayingError(code)
  BY <1>10, NowPlayingErrorKeeps
<1>11. CASE AuthenticateWithCredentials
  BY <1>11, AuthenticateKeeps
<1>12. CASE Authenticated
  BY <1>12, AuthenticatedKeeps
<1>13. CASE \E code \in ErrorCodes : AuthenticationError(code)
  BY <1>13, AuthenticationErrorKeeps
<1>14. CASE Disable \/ Enable
  BY <1>14, TogglesKeep
<1>15. CASE UNCHANGED vars
  BY <1>15 DEF vars, IInv, Works, DatabaseInv, QueueInv, ProviderInv, DoneInv,
               RequestInv, Before
<1>. QED  BY <1>1, <1>2, <1>3, <1>4, <1>5, <1>6, <1>7, <1>8, <1>9, <1>10, <1>11,
             <1>12, <1>13, <1>14, <1>15 DEF Next

(* The inductive invariant: what waits is the end of what was fetched, all *)
(* before it is done with, and the database and the provider agree on how  *)
(* far that goes.                                                          *)
THEOREM ScrobblerInvariant == Spec => []IInv
  BY InitInv, NextInv, PTL DEF Spec

(* What waits, the pending entry first, is all of what was fetched after   *)
(* the n-th entry; the database does not know of any of it.                *)
LEMMA WaitingInPlace ==
    ASSUME IInv
    PROVE  \E n \in Nat :
               /\ Waiting \in Seq(Nat) /\ n + Len(Waiting) = scrobbler.fetchedUpTo
               /\ \A i \in 1..Len(Waiting) : Waiting[i] = n + i
               /\ \A e \in 1..n : e \in marked \cup dropped
               /\ scrobbler.fetchedUpTo # 0 => saved <= n
<1>. DEFINE b == Before(scrobbler)
<1>1. Works(scrobbler)
  BY DEF IInv
<1>2. /\ scrobbler.queue \in Seq(Nat) /\ Len(scrobbler.queue) \in Nat
      /\ scrobbler.fetchedUpTo \in Nat /\ scrobbler.pending \in Nat /\ saved \in Nat
      /\ Len(scrobbler.queue) <= scrobbler.fetchedUpTo
      /\ b + Len(scrobbler.queue) = scrobbler.fetchedUpTo /\ b \in Nat
  BY <1>1, StateIsKept DEF Works, QueueInv, Before
<1>3. /\ \A i \in 1..Len(scrobbler.queue) : scrobbler.queue[i] = b + i
      /\ scrobbler.pending \in {0, b}
      /\ scrobbler.fetchedUpTo # 0 =>
            saved <= b /\ (scrobbler.pending # 0 => saved < scrobbler.pending)
      /\ \A e \in 1..b : e \in marked \cup dropped \cup {scrobbler.pending}
  BY <1>1 DEF Works, QueueInv, ProviderInv, DoneInv
<1>. HIDE DEF b
<1>4. CASE scrobbler.pending = 0
  <2>1. \A e \in 1..b : e # 0
    BY <1>2
  <2>2. Waiting = scrobbler.queue
    BY <1>4 DEF Waiting
  <2>. QED  BY <1>2, <1>3, <1>4, <2>1, <2>2
<1>5. CASE scrobbler.pending # 0
  <2>1. scrobbler.pending = b /\ b # 0 /\ Waiting = <<b>> \o scrobbler.queue
    BY <1>3, <1>5 DEF Waiting
  <2>2. /\ Waiting \in Seq(Nat) /\ Len(Waiting) = Len(scrobbler.queue) + 1
        /\ \A i \in 1..(Len(scrobbler.queue) + 1) : Waiting[i] = b - 1 + i
    BY <1>2, <1>3, <2>1, PrependInPlace
  <2>3. b - 1 \in Nat /\ (b - 1) + Len(Waiting) = scrobbler.fetchedUpTo
    BY <1>2, <2>1, <2>2
  <2>4. \A e \in 1..(b - 1) : e \in marked \cup dropped
    BY <1>2, <1>3, <2>1
  <2>5. scrobbler.fetchedUpTo # 0 => saved <= b - 1
    BY <1>2, <1>3, <2>1
  <2>. QED  BY <2>2, <2>3, <2>4, <2>5
<1>. QED  BY <1>4, <1>5

(* Every entry that was fetched from the history is marked as scrobbled or *)
(* given up, or waits to be scrobbled.                                     *)
THEOREM FetchedEntriesAreKept == Spec => []NoTrackIsForgotten
<1>1. ASSUME IInv  PROVE NoTrackIsForgotten
  <2>. SUFFICES ASSUME NEW e \in 1..scrobbler.fetchedUpTo
                PROVE  e \in marked \cup dropped \cup ToSet(Waiting)
    BY DEF NoTrackIsForgotten
  <2>1. PICK n \in Nat :
            /\ Waiting \in Seq(Nat) /\ n + Len(Waiting) = scrobbler.fetchedUpTo
            /\ \A i \in 1..Len(Waiting) : Waiting[i] = n + i
            /\ \A x \in 1..n : x \in marked \cup dropped
    BY <1>1, WaitingInPlace
  <2>2. Len(Waiting) \in Nat /\ DOMAIN Waiting = 1..Len(Waiting)
    BY <2>1, LenProperties
  <2>3. CASE e <= n
    BY <2>1, <2>3
  <2>4. CASE e > n
    <3>1. e - n \in DOMAIN Waiting /\ Waiting[e - n] = e
      BY <2>1, <2>2, <2>4
    <3>. QED  BY <3>1 DEF ToSet
  <2>. QED  BY <2>1, <2>3, <2>4
<1>. QED  BY <1>1, ScrobblerInvariant, PTL

(* What waits is in the order of the history, and was not marked before,   *)
(* also when scrobbling was disabled and enabled again in between.         *)
THEOREM EntriesAreScrobbledInOrder == Spec => []ScrobbledOnceAndInOrder
<1>1. ASSUME IInv  PROVE ScrobbledOnceAndInOrder
  <2>1. PICK n \in Nat :
            /\ Waiting \in Seq(Nat) /\ n + Len(Waiting) = scrobbler.fetchedUpTo
            /\ \A i \in 1..Len(Waiting) : Waiting[i] = n + i
            /\ scrobbler.fetchedUpTo # 0 => saved <= n
    BY <1>1, WaitingInPlace
  <2>2. Len(Waiting) \in Nat /\ DOMAIN Waiting = 1..Len(Waiting)
    BY <2>1, LenProperties
  <2>3. ASSUME NEW i \in DOMAIN Waiting, NEW j \in DOMAIN Waiting, i < j
        PROVE  Waiting[i] < Waiting[j]
    BY <2>1, <2>2, <2>3
  <2>4. ASSUME NEW i \in DOMAIN Waiting  PROVE Waiting[i] \notin marked
    <3>1. marked \in SUBSET (1..saved) /\ saved \in Nat
      BY <1>1, StateIsKept DEF IInv, Works, DatabaseInv
    <3>2. Waiting[i] = n + i /\ saved <= n
      BY <2>1, <2>2
    <3>. QED  BY <2>2, <3>1, <3>2
  <2>5. marked \cap ToSet(Waiting) = {}
    BY <2>4 DEF ToSet
  <2>. QED  BY <2>3, <2>5 DEF ScrobbledOnceAndInOrder
<1>. QED  BY <1>1, ScrobblerInvariant, PTL

(* Every part of the state keeps its type; what waits and what has been    *)
(* done with is in the history.                                            *)
THEOREM ScrobblerTypes == Spec => []TypeOK
<1>1. ASSUME IInv  PROVE TypeOK
  <2>1. /\ scrobbler \in States /\ scrobbler.queue \in Seq(Nat)
        /\ Len(scrobbler.queue) \in Nat /\ DOMAIN scrobbler.queue = 1..Len(scrobbler.queue)
        /\ scrobbler.fetchedUpTo \in Nat /\ scrobbler.pending \in Nat
        /\ scrobbler.scrobbledUpTo \in Nat /\ history \in Nat /\ saved \in Nat
    BY <1>1, StateIsKept, LenProperties DEF IInv
  <2>2. /\ scrobbler.fetchedUpTo <= history
        /\ Len(scrobbler.queue) <= scrobbler.fetchedUpTo
        /\ Before(scrobbler) = scrobbler.fetchedUpTo - Len(scrobbler.queue)
        /\ \A i \in 1..Len(scrobbler.queue) : scrobbler.queue[i] = Before(scrobbler) + i
        /\ scrobbler.pending \in {0, Before(scrobbler)}
        /\ scrobbler.scrobbledUpTo <= scrobbler.fetchedUpTo
    BY <1>1 DEF IInv, Works, QueueInv, ProviderInv, Before
  <2>3. \A i \in DOMAIN scrobbler.queue : scrobbler.queue[i] \in 1..history
    BY <2>1, <2>2
  <2>4. ToSet(scrobbler.queue) \subseteq 1..history
    BY <2>3 DEF ToSet
  <2>5. /\ scrobbler.pending \in 0..history /\ scrobbler.fetchedUpTo \in 0..history
        /\ scrobbler.scrobbledUpTo \in 0..scrobbler.fetchedUpTo
    BY <2>1, <2>2
  <2>6. /\ scrobbler.backend \in BackendStates /\ scrobbler.status \in Statuses
        /\ scrobbler.requests \in [Requests -> Nat]
    BY <2>1 DEF States
  <2>7. /\ enabled \in BOOLEAN /\ savedKey \in BOOLEAN /\ untitled \subseteq Entries
        /\ history \in 0..MaxHistory /\ saved \in 0..history
        /\ dropped \subseteq 1..history /\ accepted \subseteq 1..history
        /\ marked \subseteq 1..saved
    BY <1>1 DEF IInv, Works, DatabaseInv
  <2>8. marked \subseteq 1..history
    BY <2>1, <2>7
  <2>. QED  BY <2>4, <2>5, <2>6, <2>7, <2>8 DEF TypeOK, Statuses
<1>. QED  BY <1>1, ScrobblerInvariant, PTL
=============================================================================
