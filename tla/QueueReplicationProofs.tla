----------------------- MODULE QueueReplicationProofs -----------------------
(***************************************************************************)
(* Proofs about the copy of the queue that a client keeps: the messages    *)
(* that the server sends lead from each state of the queue to the next     *)
(* one, and the monitor makes of them a copy that starts like the queue it *)
(* has seen last.  QueueMediation implements MirroredQueue, for queues,    *)
(* fetches and connections of every size, as long as at most one event     *)
(* reaches the monitor before the first contents.                          *)
(***************************************************************************)
EXTENDS QueueMediation, PlayerProofs

-----------------------------------------------------------------------------
(* Messages that lead from a state of the queue to another one.            *)

ClientMessage ==
    [type : {"contents", "entryAdded", "entryRemoved", "entryMoved"},
     from : Int, to : Int, id : Nat, ids : Seq(Nat), state : Seq(Nat)]

(* Message m can be sent when the queue is, or was just before, s.         *)
Follows(s, m) ==
    /\ m \in ClientMessage
    /\ m.type = "contents" =>
          /\ m.state = s /\ m.to = Len(s) /\ m.from \in Nat
          /\ \A i \in 1..Len(m.ids) : m.from + i <= Len(s) /\ m.ids[i] = s[m.from + i]
    /\ m.type = "entryAdded" =>
          m.to \in 0..Len(s) /\ m.state = Insert(s, m.to, m.id)
    /\ m.type = "entryRemoved" =>
          /\ m.from \in 0..Len(s) - 1 /\ m.id = s[m.from + 1]
          /\ m.state = DeleteAt(s, m.from)
    /\ m.type = "entryMoved" =>
          /\ m.from \in 0..Len(s) - 1 /\ m.to \in 0..Len(s) - 1
          /\ m.id = s[m.from + 1]
          /\ m.state = Insert(DeleteAt(s, m.from), m.to, m.id)

(* The state before message i of messages that start in state s.           *)
Before(s, ms, i) == IF i = 1 THEN s ELSE ms[i - 1].state

(* The messages lead from state s to state t.                              *)
Chained(s, ms, t) ==
    /\ \A i \in 1..Len(ms) : Follows(Before(s, ms, i), ms[i])
    /\ t = Before(s, ms, Len(ms) + 1)

LEMMA NoMessages ==
    ASSUME NEW s
    PROVE  Chained(s, << >>, s)
<1>1. Len(<< >>) = 0
  OBVIOUS
<1>. QED  BY <1>1 DEF Chained, Before

LEMMA OneMessage ==
    ASSUME NEW s, NEW m, Follows(s, m)
    PROVE  Chained(s, <<m>>, m.state)
<1>. DEFINE ms == <<m>>
<1>1. Len(ms) = 1 /\ ms[1] = m
  OBVIOUS
<1>. HIDE DEF ms
<1>2. Chained(s, ms, m.state)
  BY <1>1 DEF Chained, Before
<1>. QED  BY <1>2 DEF ms

LEMMA MoreMessages ==
    ASSUME NEW first \in Seq(ClientMessage), NEW second \in Seq(ClientMessage),
           NEW s, NEW t, NEW u, Chained(s, first, t), Chained(t, second, u)
    PROVE  Chained(s, first \o second, u)
<1>. DEFINE all == first \o second
<1>1. /\ Len(all) = Len(first) + Len(second)
      /\ Len(first) \in Nat /\ Len(second) \in Nat
      /\ \A i \in 1..Len(first) : all[i] = first[i]
      /\ \A i \in Len(first) + 1..Len(all) : all[i] = second[i - Len(first)]
  BY ConcatProperties, LenProperties
<1>. HIDE DEF all
<1>2. ASSUME NEW i \in 1..Len(first) + 1
      PROVE  Before(s, all, i) = Before(s, first, i)
  BY <1>1 DEF Before
<1>3. ASSUME NEW i \in 1..Len(second) + 1
      PROVE  Before(s, all, Len(first) + i) = Before(t, second, i)
  <2>1. CASE i = 1
    BY <1>1, <1>2, <2>1 DEF Chained, Before
  <2>2. CASE i # 1
    <3>1. /\ (Len(first) + i) - 1 \in Len(first) + 1..Len(all)
          /\ ((Len(first) + i) - 1) - Len(first) = i - 1
          /\ Len(first) + i # 1
      BY <1>1, <2>2
    <3>2. all[(Len(first) + i) - 1] = second[i - 1]
      BY <1>1, <3>1
    <3>. QED  BY <2>2, <3>1, <3>2 DEF Before
  <2>. QED  BY <2>1, <2>2
<1>4. ASSUME NEW i \in 1..Len(all)
      PROVE  Follows(Before(s, all, i), all[i])
  <2>1. CASE i <= Len(first)
    <3>1. i \in 1..Len(first) /\ i \in 1..Len(first) + 1
      BY <1>1, <2>1
    <3>2. all[i] = first[i] /\ Before(s, all, i) = Before(s, first, i)
      BY <1>1, <1>2, <3>1
    <3>. QED  BY <3>1, <3>2, Zenon DEF Chained
  <2>2. CASE i > Len(first)
    <3>1. PICK j \in 1..Len(second) : i = Len(first) + j
      <4>1. i - Len(first) \in 1..Len(second) /\ i = Len(first) + (i - Len(first))
        BY <1>1, <2>2
      <4>. QED  BY <4>1
    <3>2. /\ i \in Len(first) + 1..Len(all) /\ i - Len(first) = j
          /\ j \in 1..Len(second) + 1
      BY <1>1, <2>2, <3>1
    <3>3. all[i] = second[j]
      BY <1>1, <3>2
    <3>4. Before(s, all, i) = Before(t, second, j)
      BY <1>3, <3>1, <3>2
    <3>. QED  BY <3>3, <3>4 DEF Chained
  <2>. QED  BY <1>1, <2>1, <2>2
<1>5. u = Before(s, all, Len(all) + 1)
  <2>1. Len(second) + 1 \in 1..Len(second) + 1 /\ Len(all) + 1 = Len(first) + (Len(second) + 1)
    BY <1>1
  <2>. QED  BY <1>3, <2>1 DEF Chained
<1>6. Chained(s, all, u)
  BY <1>4, <1>5 DEF Chained
<1>. QED  BY <1>6 DEF all

LEMMA OtherMessages ==
    ASSUME NEW ms \in Seq(ClientMessage), ms # << >>, NEW s, NEW t, Chained(s, ms, t)
    PROVE  Follows(s, Head(ms)) /\ Chained(Head(ms).state, Tail(ms), t)
<1>. DEFINE rest == Tail(ms)
<1>1. /\ Len(ms) \in Nat /\ Len(ms) > 0 /\ Head(ms) = ms[1]
      /\ Len(rest) = Len(ms) - 1
      /\ \A i \in 1..Len(rest) : rest[i] = ms[i + 1]
  BY HeadTailProperties, LenProperties, EmptySeq
<1>. HIDE DEF rest
<1>2. Follows(s, ms[1])
  BY <1>1 DEF Chained, Before
<1>3. ASSUME NEW i \in 1..Len(ms)
      PROVE  Before(ms[1].state, rest, i) = Before(s, ms, i + 1)
  <2>1. CASE i = 1
    BY <2>1 DEF Before
  <2>2. CASE i # 1
    <3>1. i - 1 \in 1..Len(rest) /\ i + 1 # 1 /\ (i - 1) + 1 = (i + 1) - 1
      BY <1>1, <2>2
    <3>2. rest[i - 1] = ms[(i - 1) + 1]
      BY <1>1, <3>1
    <3>. QED  BY <2>2, <3>1, <3>2 DEF Before
  <2>. QED  BY <2>1, <2>2
<1>4. \A i \in 1..Len(rest) : Follows(Before(ms[1].state, rest, i), rest[i])
  <2>. TAKE i \in 1..Len(rest)
  <2>1. i \in 1..Len(ms) /\ i + 1 \in 1..Len(ms)
    BY <1>1
  <2>. QED  BY <1>1, <1>3, <2>1 DEF Chained
<1>5. t = Before(ms[1].state, rest, Len(rest) + 1)
  <2>1. Len(rest) + 1 \in 1..Len(ms) /\ (Len(rest) + 1) + 1 = Len(ms) + 1
    BY <1>1
  <2>. QED  BY <1>3, <2>1 DEF Chained
<1>6. Chained(ms[1].state, rest, t)
  BY <1>4, <1>5 DEF Chained
<1>. QED  BY <1>1, <1>2, <1>6 DEF rest

-----------------------------------------------------------------------------
(* The messages that the server makes of the signals of its queue.         *)

LEMMA ViewAfterAdded ==
    ASSUME NEW ids, NEW first, NEW signal, signal.signal = "entryAdded"
    PROVE  ViewAfter([ids |-> ids, first |-> first], signal)
             = [ids |-> Insert(ids, signal.to, signal.queueID), first |-> first]
  BY Zenon DEF ViewAfter

LEMMA ViewAfterRemoved ==
    ASSUME NEW ids, NEW first, NEW signal, signal.signal = "entryRemoved"
    PROVE  ViewAfter([ids |-> ids, first |-> first], signal)
             = [ids |-> DeleteAt(ids, signal.from), first |-> first]
  BY Zenon DEF ViewAfter

LEMMA ViewAfterMoved ==
    ASSUME NEW ids, NEW first, NEW signal, signal.signal = "entryMoved"
    PROVE  ViewAfter([ids |-> ids, first |-> first], signal)
             = [ids |-> Insert(DeleteAt(ids, signal.from), signal.to, signal.queueID),
                first |-> first]
<1>. DEFINE view == [ids |-> ids, first |-> first]
<1>1. ViewAfter(view, signal)
        = [view EXCEPT !.ids = Insert(DeleteAt(@, signal.from), signal.to, signal.queueID)]
  BY Zenon DEF ViewAfter
<1>. QED  BY <1>1, Zenon

LEMMA ViewAfterFirstTrack ==
    ASSUME NEW ids, NEW first, NEW signal, signal.signal = "firstTrackChanged"
    PROVE  ViewAfter([ids |-> ids, first |-> first], signal)
             = [ids |-> ids, first |-> [index |-> signal.to, id |-> signal.queueID]]
  BY Zenon DEF ViewAfter

(* The list operations on lists of IDs.                                    *)
LEMMA IdListTypes ==
    ASSUME NEW s \in Seq(Nat)
    PROVE  /\ \A index \in 0..Len(s), id \in Nat : Insert(s, index, id) \in Seq(Nat)
           /\ \A index \in 0..Len(s) - 1 : DeleteAt(s, index) \in Seq(Nat)
           /\ \A index, newIndex \in 0..Len(s) - 1, id \in Nat :
                 Insert(DeleteAt(s, index), newIndex, id) \in Seq(Nat)
<1>1. Len(s) \in Nat
  BY LenProperties
<1>2. ASSUME NEW index \in 0..Len(s) - 1
      PROVE  DeleteAt(s, index) \in Seq(Nat) /\ Len(DeleteAt(s, index)) = Len(s) - 1
  BY <1>1, RemoveProperties
<1>3. ASSUME NEW t \in Seq(Nat), NEW index \in 0..Len(t), NEW id \in Nat
      PROVE  Insert(t, index, id) \in Seq(Nat)
  BY <1>3, InsertProperties
<1>4. ASSUME NEW index \in 0..Len(s) - 1, NEW newIndex \in 0..Len(s) - 1, NEW id \in Nat
      PROVE  Insert(DeleteAt(s, index), newIndex, id) \in Seq(Nat)
  <2>. DEFINE t == DeleteAt(s, index)
  <2>1. t \in Seq(Nat) /\ newIndex \in 0..Len(t)
    BY <1>1, <1>2
  <2>. HIDE DEF t
  <2>2. Insert(t, newIndex, id) \in Seq(Nat)
    BY <1>3, <2>1
  <2>. QED  BY <2>2 DEF t
<1>. QED  BY <1>2, <1>3, <1>4

(* One signal: the message about it, if there is one, leads from the list  *)
(* before it to the list after it.                                         *)
LEMMA SignalToMessage ==
    ASSUME NEW ids \in Seq(Nat), NEW first, NEW signal, Fits(signal, ids),
           NEW view, view = ViewAfter([ids |-> ids, first |-> first], signal),
           NEW m, m = Message(signal.signal, signal.from, signal.to,
                              signal.queueID, << >>, view.ids)
    PROVE  /\ view.ids \in Seq(Nat) /\ view = [ids |-> view.ids, first |-> view.first]
           /\ signal.signal = "firstTrackChanged" => view.ids = ids
           /\ signal.signal # "firstTrackChanged" => /\ Follows(ids, m)
                                                     /\ m.state = view.ids
                                                     /\ m.type # "contents"
<1>1. /\ signal.signal \in {"entryAdded", "entryRemoved", "entryMoved", "firstTrackChanged"}
      /\ signal.from \in Int /\ signal.to \in Int /\ signal.queueID \in Nat
  BY DEF Fits, Signal
<1>2. /\ m.type = signal.signal /\ m.from = signal.from /\ m.to = signal.to
      /\ m.id = signal.queueID /\ m.ids = << >> /\ m.state = view.ids
  BY DEF Message
<1>3. ASSUME view.ids \in Seq(Nat), signal.signal # "firstTrackChanged"
      PROVE  m \in ClientMessage
  BY <1>1, <1>3 DEF Message, ClientMessage
<1>4. CASE signal.signal = "entryAdded"
  <2>1. view = [ids |-> Insert(ids, signal.to, signal.queueID), first |-> first]
    BY <1>4, ViewAfterAdded
  <2>2. signal.to \in 0..Len(ids)
    BY <1>4 DEF Fits
  <2>3. Insert(ids, signal.to, signal.queueID) \in Seq(Nat)
    BY <1>1, <2>2, IdListTypes
  <2>4. m \in ClientMessage /\ m.state = Insert(ids, signal.to, signal.queueID)
    BY <1>2, <1>3, <1>4, <2>1, <2>3
  <2>5. Follows(ids, m)
    BY <1>2, <1>4, <2>2, <2>4 DEF Follows
  <2>. QED  BY <1>2, <1>4, <2>1, <2>3, <2>5
<1>5. CASE signal.signal = "entryRemoved"
  <2>1. view = [ids |-> DeleteAt(ids, signal.from), first |-> first]
    BY <1>5, ViewAfterRemoved
  <2>2. signal.from \in 0..Len(ids) - 1 /\ signal.queueID = ids[signal.from + 1]
    BY <1>5 DEF Fits
  <2>3. DeleteAt(ids, signal.from) \in Seq(Nat)
    BY <2>2, IdListTypes
  <2>4. m \in ClientMessage /\ m.state = DeleteAt(ids, signal.from)
    BY <1>2, <1>3, <1>5, <2>1, <2>3
  <2>5. Follows(ids, m)
    BY <1>2, <1>5, <2>2, <2>4 DEF Follows
  <2>. QED  BY <1>2, <1>5, <2>1, <2>3, <2>5
<1>6. CASE signal.signal = "entryMoved"
  <2>1. view = [ids |-> Insert(DeleteAt(ids, signal.from), signal.to, signal.queueID),
                first |-> first]
    BY <1>6, ViewAfterMoved
  <2>2. /\ signal.from \in 0..Len(ids) - 1 /\ signal.to \in 0..Len(ids) - 1
        /\ signal.queueID = ids[signal.from + 1]
    BY <1>6 DEF Fits
  <2>3. Insert(DeleteAt(ids, signal.from), signal.to, signal.queueID) \in Seq(Nat)
    BY <1>1, <2>2, IdListTypes
  <2>4. m \in ClientMessage /\ m.state = Insert(DeleteAt(ids, signal.from), signal.to, signal.queueID)
    BY <1>2, <1>3, <1>6, <2>1, <2>3
  <2>5. Follows(ids, m)
    BY <1>2, <1>6, <2>2, <2>4 DEF Follows
  <2>. QED  BY <1>2, <1>6, <2>1, <2>3, <2>5
<1>7. CASE signal.signal = "firstTrackChanged"
  <2>1. view = [ids |-> ids, first |-> [index |-> signal.to, id |-> signal.queueID]]
    BY <1>7, ViewAfterFirstTrack
  <2>. QED  BY <1>7, <2>1
<1>. QED  BY <1>1, <1>4, <1>5, <1>6, <1>7

(* A replay that is stopped after some of the signals.                     *)
LEMMA ReplayOfSome ==
    ASSUME NEW view, NEW sigs \in Seq(Signal), NEW views,
           IsReplay(views, view, sigs), NEW n \in 0..Len(sigs)
    PROVE  ViewAfterAll(view, SubSeq(sigs, 1, n)) = views[n]
<1>. DEFINE some == SubSeq(sigs, 1, n)
            someViews == [k \in 0..n |-> views[k]]
<1>1. Len(sigs) \in Nat /\ n \in Nat
  BY LenProperties
<1>2. Len(some) = n /\ \A k \in 1..n : some[k] = sigs[k]
  <2>1. \A k \in 1..n : sigs[k] \in Signal
    BY <1>1, ElementOfSeq
  <2>. QED  BY <1>1, <2>1, SubSeqProperties
<1>3. IsReplay(someViews, view, some)
  <2>1. someViews = [k \in 0..n |-> someViews[k]] /\ someViews[0] = view
    BY <1>1 DEF IsReplay
  <2>2. ASSUME NEW k \in 1..n
        PROVE  someViews[k] = ViewAfter(someViews[k - 1], some[k])
    <3>1. k \in 1..Len(sigs) /\ k \in 0..n /\ k - 1 \in 0..n
      BY <1>1
    <3>. QED  BY <1>2, <3>1 DEF IsReplay
  <2>. HIDE DEF some, someViews
  <2>. QED  BY <1>2, <2>1, <2>2 DEF IsReplay
<1>4. someViews[n] = views[n]
  BY <1>1
<1>. HIDE DEF some, someViews
<1>5. ViewAfterAll(view, some) = someViews[Len(some)]
  BY <1>1, <1>2, <1>3, Replay
<1>. QED  BY <1>2, <1>4, <1>5 DEF some

(* The messages about signals that explain a change lead from the queue to *)
(* what it is after the change.  Both the list of messages, as a recursive *)
(* function, and what it is are shown for more and more of the signals.    *)
LEMMA MessagesLead ==
    ASSUME NEW sigs \in Seq(Signal), NEW after, QueueIds \in Seq(Nat),
           Explain(View, sigs, after)
    PROVE  /\ Messages(sigs) \in Seq(ClientMessage)
           /\ Chained(QueueIds, Messages(sigs), after.ids)
           /\ \A i \in 1..Len(Messages(sigs)) : Messages(sigs)[i].type # "contents"
<1>. DEFINE News(n) == Message(sigs[n].signal, sigs[n].from, sigs[n].to,
                               sigs[n].queueID, << >>, StateAfter(sigs, n))
            Grown(list, n) == IF sigs[n].signal = "firstTrackChanged" THEN list
                              ELSE Append(list, News(n))
            Lists(f, k) == f = [n \in 0..k |-> IF n = 0 THEN << >> ELSE Grown(f[n - 1], n)]
            size == Len(sigs)
<1>1. size \in Nat
  BY LenProperties
<1>2. PICK views : /\ IsReplay(views, View, sigs)
                   /\ \A n \in 1..size : Fits(sigs[n], views[n - 1].ids)
                   /\ views[size] = after
  BY DEF Explain
<1>3. \A n \in 0..size : StateAfter(sigs, n) = views[n].ids
  BY <1>2, ReplayOfSome DEF StateAfter
<1>4. \E f : Lists(f, size)
  <2>. DEFINE Missing == {k \in 0..size : ~ \E f : Lists(f, k)}
  <2>1. SUFFICES ASSUME Missing # {} PROVE FALSE
    <3>1. size \in 0..size
      BY <1>1
    <3>. HIDE DEF Lists
    <3>. QED  BY <3>1
  <2>2. PICK k \in Missing : \A j \in Missing : k <= j
    <3>1. Missing \in SUBSET Nat
      OBVIOUS
    <3>. HIDE DEF Missing
    <3>. QED  BY <2>1, <3>1, MinimumExists
  <2>3. CASE k = 0
    <3>. DEFINE f == [n \in 0..0 |-> << >>]
    <3>1. Lists(f, 0)
      OBVIOUS
    <3>. HIDE DEF f, Lists
    <3>. QED  BY <2>2, <2>3, <3>1
  <2>4. CASE k # 0
    <3>1. k \in 1..size /\ k - 1 \in 0..size /\ ~ k <= k - 1
      BY <1>1, <2>2, <2>4
    <3>2. PICK f : Lists(f, k - 1)
      BY <2>2, <3>1
    <3>. DEFINE last == Grown(f[k - 1], k)
                g == [n \in 0..k |-> IF n = k THEN last ELSE f[n]]
    <3>3. \A n \in 0..k - 1 : f[n] = IF n = 0 THEN << >> ELSE Grown(f[n - 1], n)
      BY <3>2
    <3>. HIDE DEF Grown
    <3>4. \A n \in 0..k - 1 : g[n] = f[n]
      BY <3>1
    <3>5. \A n \in 0..k : g[n] = IF n = 0 THEN << >> ELSE Grown(g[n - 1], n)
      <4>. TAKE n \in 0..k
      <4>1. CASE n = k
        <5>1. g[k] = last /\ k # 0 /\ g[k - 1] = f[k - 1]
          BY <3>1, <3>4
        <5>. QED  BY <4>1, <5>1
      <4>2. CASE n = 0
        BY <3>1, <3>3, <3>4, <4>2
      <4>3. CASE n # k /\ n # 0
        <5>1. n \in 0..k - 1 /\ n - 1 \in 0..k - 1
          BY <3>1, <4>3
        <5>. HIDE DEF g
        <5>. QED  BY <3>3, <3>4, <4>3, <5>1
      <4>. QED  BY <4>1, <4>2, <4>3
    <3>6. g = [n \in 0..k |-> g[n]]
      OBVIOUS
    <3>. HIDE DEF g
    <3>7. Lists(g, k)
      BY <3>5, <3>6
    <3>. HIDE DEF Lists
    <3>. QED  BY <2>2, <3>7
  <2>. QED  BY <2>3, <2>4
<1>. DEFINE sent == CHOOSE f : Lists(f, size)
<1>5. Lists(sent, size)
  <2>. HIDE DEF Lists
  <2>. QED  BY <1>4
<1>6. Messages(sigs) = sent[size]
  BY DEF Messages
<1>. HIDE DEF sent, Lists, Grown, News, size
<1>7. sent[0] = << >> /\ \A n \in 1..size : sent[n] = Grown(sent[n - 1], n)
  BY <1>1, <1>5 DEF Lists
<1>. DEFINE Good(n) ==
                /\ sent[n] \in Seq(ClientMessage)
                /\ Chained(QueueIds, sent[n], views[n].ids)
                /\ \A i \in 1..Len(sent[n]) : sent[n][i].type # "contents"
                /\ views[n].ids \in Seq(Nat)
                /\ views[n] = [ids |-> views[n].ids, first |-> views[n].first]
<1>8. Good(0)
  <2>1. views[0] = [ids |-> QueueIds, first |-> firstTrack]
    BY <1>2 DEF IsReplay, View
  <2>2. sent[0] = << >> /\ << >> \in Seq(ClientMessage) /\ Len(<< >>) = 0
    BY <1>7
  <2>. QED  BY <2>1, <2>2, NoMessages
<1>9. ASSUME NEW n \in 1..size, Good(n - 1)
      PROVE  Good(n)
  <2>. DEFINE list == sent[n - 1]
              before == views[n - 1]
              view == views[n]
              signal == sigs[n]
              m == Message(signal.signal, signal.from, signal.to,
                           signal.queueID, << >>, view.ids)
  <2>1. /\ list \in Seq(ClientMessage) /\ Chained(QueueIds, list, before.ids)
        /\ \A i \in 1..Len(list) : list[i].type # "contents"
        /\ before.ids \in Seq(Nat)
        /\ before = [ids |-> before.ids, first |-> before.first]
    BY <1>9
  <2>2. Fits(signal, before.ids) /\ view = ViewAfter(before, signal)
    BY <1>2 DEF IsReplay, size
  <2>3. News(n) = m
    <3>1. n \in 0..size
      BY <1>1
    <3>. QED  BY <1>3, <3>1 DEF News
  <2>4. sent[n] = IF signal.signal = "firstTrackChanged" THEN list ELSE Append(list, m)
    BY <1>7, <2>3 DEF Grown
  <2>. HIDE DEF list, before, view, signal, m
  <2>5. /\ view.ids \in Seq(Nat) /\ view = [ids |-> view.ids, first |-> view.first]
        /\ signal.signal = "firstTrackChanged" => view.ids = before.ids
        /\ signal.signal # "firstTrackChanged" => /\ Follows(before.ids, m)
                                                  /\ m.state = view.ids
                                                  /\ m.type # "contents"
    <3>1. view = ViewAfter([ids |-> before.ids, first |-> before.first], signal)
      BY <2>1, <2>2
    <3>2. m = Message(signal.signal, signal.from, signal.to, signal.queueID, << >>, view.ids)
      BY DEF m
    <3>. QED  BY <2>1, <2>2, <3>1, <3>2, SignalToMessage
  <2>6. CASE signal.signal = "firstTrackChanged"
    BY <2>1, <2>4, <2>5, <2>6 DEF view
  <2>7. CASE signal.signal # "firstTrackChanged"
    <3>1. sent[n] = Append(list, m) /\ m \in ClientMessage
      BY <2>4, <2>5, <2>7 DEF Follows
    <3>2. Append(list, m) = list \o <<m>> /\ <<m>> \in Seq(ClientMessage)
      BY <2>1, <3>1
    <3>3. Chained(before.ids, <<m>>, view.ids)
      BY <2>5, <2>7, OneMessage
    <3>4. Chained(QueueIds, sent[n], view.ids)
      BY <2>1, <3>1, <3>2, <3>3, MoreMessages
    <3>5. /\ sent[n] \in Seq(ClientMessage) /\ Len(sent[n]) = Len(list) + 1
          /\ \A i \in 1..Len(list) : sent[n][i] = list[i]
          /\ sent[n][Len(list) + 1] = m
      BY <2>1, <3>1, AppendProperties
    <3>6. \A i \in 1..Len(sent[n]) : sent[n][i].type # "contents"
      <4>. TAKE i \in 1..Len(sent[n])
      <4>1. i \in 1..Len(list) \/ i = Len(list) + 1
        BY <2>1, <3>5, LenProperties
      <4>. QED  BY <2>1, <2>5, <2>7, <3>5, <4>1
    <3>. QED  BY <2>5, <3>4, <3>5, <3>6 DEF view
  <2>. QED  BY <2>6, <2>7
<1>10. Good(size)
  <2>. DEFINE Bad == {n \in 0..size : ~ Good(n)}
  <2>. HIDE DEF Good
  <2>1. SUFFICES ASSUME Bad # {} PROVE FALSE
    BY <1>1
  <2>2. PICK n \in Bad : \A k \in Bad : n <= k
    <3>1. Bad \in SUBSET Nat
      OBVIOUS
    <3>. HIDE DEF Bad
    <3>. QED  BY <2>1, <3>1, MinimumExists
  <2>3. n \in 1..size /\ n - 1 \in 0..size /\ ~ n <= n - 1
    BY <1>1, <1>8, <2>2
  <2>. QED  BY <1>9, <2>2, <2>3
<1>. QED  BY <1>2, <1>6, <1>10

-----------------------------------------------------------------------------
(* A list that is the front of another one.                                *)

FrontOf(list, s) ==
    /\ Len(list) <= Len(s)
    /\ \A i \in 1..Len(list) : list[i] = s[i]

LEMMA FrontIsPrefix ==
    ASSUME NEW list \in Seq(Nat), NEW s \in Seq(Nat), FrontOf(list, s)
    PROVE  IsPrefix(list, s)
<1>1. Len(list) \in Nat /\ Len(s) \in Nat /\ Len(list) <= Len(s)
  BY LenProperties DEF FrontOf
<1>2. \A i \in 1..Len(list) : list[i] \in Nat /\ s[i] \in Nat
  BY <1>1, ElementOfSeq
<1>3. /\ SubSeq(list, 1, Len(list)) \in Seq(Nat)
      /\ Len(SubSeq(list, 1, Len(list))) = Len(list)
      /\ \A i \in 1..Len(list) : SubSeq(list, 1, Len(list))[i] = list[i]
  BY <1>1, <1>2, SubSeqProperties
<1>4. /\ SubSeq(s, 1, Len(list)) \in Seq(Nat)
      /\ Len(SubSeq(s, 1, Len(list))) = Len(list)
      /\ \A i \in 1..Len(list) : SubSeq(s, 1, Len(list))[i] = s[i]
  BY <1>1, <1>2, SubSeqProperties
<1>5. \A i \in 1..Len(list) : SubSeq(list, 1, Len(list))[i] = SubSeq(s, 1, Len(list))[i]
  BY <1>3, <1>4 DEF FrontOf
<1>6. SubSeq(list, 1, Len(list)) = SubSeq(s, 1, Len(list))
  BY <1>3, <1>4, <1>5, SeqEqual
<1>. QED  BY <1>1, <1>6 DEF IsPrefix

LEMMA ConcatPlaces ==
    ASSUME NEW S, NEW a \in Seq(S), NEW b \in Seq(S)
    PROVE  /\ a \o b \in Seq(S)
           /\ Len(a \o b) = Len(a) + Len(b)
           /\ \A i \in 1..Len(a) : (a \o b)[i] = a[i]
           /\ \A i \in 1..Len(b) : (a \o b)[Len(a) + i] = b[i]
<1>1. Len(a) \in Nat /\ Len(b) \in Nat
  BY LenProperties
<1>2. /\ a \o b \in Seq(S)
      /\ Len(a \o b) = Len(a) + Len(b)
      /\ \A i \in 1..Len(a) + Len(b) :
            (a \o b)[i] = IF i <= Len(a) THEN a[i] ELSE b[i - Len(a)]
  BY ConcatProperties
<1>3. \A i \in 1..Len(a) : (a \o b)[i] = a[i]
  BY <1>1, <1>2
<1>4. \A i \in 1..Len(b) : (a \o b)[Len(a) + i] = b[i]
  <2>. TAKE i \in 1..Len(b)
  <2>1. /\ Len(a) + i \in 1..Len(a) + Len(b) /\ ~ Len(a) + i <= Len(a)
        /\ (Len(a) + i) - Len(a) = i
    BY <1>1
  <2>. QED  BY <1>2, <2>1
<1>. QED  BY <1>2, <1>3, <1>4

LEMMA NumbersConcatenated ==
    ASSUME NEW a \in Seq(Nat), NEW b \in Seq(Nat), NEW i \in 1..Len(b)
    PROVE  (a \o b)[Len(a) + i] = b[i]
  BY ConcatPlaces

LEMMA AppendPlaces ==
    ASSUME NEW S, NEW a \in Seq(S), NEW e \in S
    PROVE  /\ a \o <<e>> \in Seq(S)
           /\ Len(a \o <<e>>) = Len(a) + 1
           /\ \A i \in 1..Len(a) : (a \o <<e>>)[i] = a[i]
           /\ (a \o <<e>>)[Len(a) + 1] = e
<1>1. <<e>> \in Seq(S) /\ Len(<<e>>) = 1 /\ <<e>>[1] = e
  OBVIOUS
<1>. DEFINE b == <<e>>
<1>. HIDE DEF b
<1>2. b \in Seq(S) /\ Len(b) = 1 /\ b[1] = e
  BY <1>1 DEF b
<1>3. /\ a \o b \in Seq(S) /\ Len(a \o b) = Len(a) + 1
      /\ \A i \in 1..Len(a) : (a \o b)[i] = a[i]
      /\ \A i \in 1..Len(b) : (a \o b)[Len(a) + i] = b[i]
  BY <1>2, ConcatPlaces
<1>. QED  BY <1>2, <1>3 DEF b

(* The list operations of the monitor are those of the queue.              *)
LEMMA InsertAtIsInsert ==
    ASSUME NEW list \in Seq(Nat), NEW index \in 0..Len(list), NEW id \in Nat
    PROVE  InsertAt(list, index + 1, id) = Insert(list, index, id)
<1>. DEFINE front == SubSeq(list, 1, index)
            back == SubSeq(list, index + 1, Len(list))
            all == (front \o <<id>>) \o back
<1>1. Len(list) \in Nat /\ index \in Nat /\ (index + 1) - 1 = index
  BY LenProperties
<1>2. \A i \in 1..Len(list) : list[i] \in Nat
  BY <1>1, ElementOfSeq
<1>3. front \in Seq(Nat) /\ Len(front) = index /\ \A i \in 1..index : front[i] = list[i]
  BY <1>1, <1>2, SubSeqProperties
<1>4. /\ back \in Seq(Nat) /\ Len(back) = Len(list) - index
      /\ \A i \in 1..Len(list) - index : back[i] = list[index + i]
  BY <1>1, <1>2, SubSeqProperties
<1>. HIDE DEF front, back
<1>5. /\ front \o <<id>> \in Seq(Nat) /\ Len(front \o <<id>>) = index + 1
      /\ \A i \in 1..index : (front \o <<id>>)[i] = list[i]
      /\ (front \o <<id>>)[index + 1] = id
  <2>1. /\ front \o <<id>> \in Seq(Nat) /\ Len(front \o <<id>>) = Len(front) + 1
        /\ \A i \in 1..Len(front) : (front \o <<id>>)[i] = front[i]
        /\ (front \o <<id>>)[Len(front) + 1] = id
    BY <1>3, AppendPlaces
  <2>. QED  BY <1>3, <2>1
<1>6. /\ all \in Seq(Nat) /\ Len(all) = Len(list) + 1
      /\ \A i \in 1..index : all[i] = list[i]
      /\ all[index + 1] = id
      /\ \A i \in index + 2..Len(list) + 1 : all[i] = list[i - 1]
  <2>. DEFINE head == front \o <<id>>
  <2>. HIDE DEF head
  <2>1. /\ all = head \o back /\ head \in Seq(Nat) /\ Len(head) = index + 1
        /\ \A i \in 1..index : head[i] = list[i]
        /\ head[index + 1] = id
    BY <1>5 DEF head
  <2>2. /\ all \in Seq(Nat) /\ Len(all) = Len(head) + Len(back)
        /\ \A i \in 1..Len(head) : all[i] = head[i]
        /\ \A i \in 1..Len(back) : all[Len(head) + i] = back[i]
    <3>1. back \in Seq(Nat) /\ head \in Seq(Nat)
      BY <1>4, <2>1
    <3>2. head \o back \in Seq(Nat) /\ Len(head \o back) = Len(head) + Len(back)
      BY <3>1, ConcatPlaces, Zenon
    <3>3. \A i \in 1..Len(head) : (head \o back)[i] = head[i]
      BY <3>1, ConcatPlaces, Zenon
    <3>4. \A i \in 1..Len(back) : (head \o back)[Len(head) + i] = back[i]
      BY <3>1, NumbersConcatenated
    <3>. HIDE DEF all
    <3>. QED  BY <2>1, <3>2, <3>3, <3>4
  <2>. HIDE DEF all
  <2>3. all \in Seq(Nat) /\ Len(all) = Len(list) + 1
    BY <1>1, <1>4, <2>1, <2>2
  <2>4. \A i \in 1..index + 1 : all[i] = head[i]
    BY <2>1, <2>2
  <2>5. \A i \in index + 2..Len(list) + 1 : all[i] = list[i - 1]
    <3>. TAKE i \in index + 2..Len(list) + 1
    <3>1. /\ i - (index + 1) \in 1..Len(list) - index
          /\ index + (i - (index + 1)) = i - 1
          /\ Len(head) + (i - (index + 1)) = i
      BY <1>1, <2>1
    <3>2. all[i] = back[i - (index + 1)]
      BY <1>4, <2>2, <3>1
    <3>. QED  BY <1>4, <3>1, <3>2
  <2>6. index + 1 \in 1..index + 1 /\ \A i \in 1..index : i \in 1..index + 1
    BY <1>1
  <2>7. (\A i \in 1..index : all[i] = list[i]) /\ all[index + 1] = id
    BY <2>1, <2>4, <2>6
  <2>. QED  BY <2>3, <2>5, <2>7
<1>7. InsertAt(list, index + 1, id) = all
  BY <1>1 DEF InsertAt, front, back
<1>. HIDE DEF all
<1>8. /\ Insert(list, index, id) = [i \in 1..Len(list) + 1 |-> Insert(list, index, id)[i]]
      /\ \A i \in 1..index : Insert(list, index, id)[i] = list[i]
      /\ Insert(list, index, id)[index + 1] = id
      /\ \A i \in index + 2..Len(list) + 1 : Insert(list, index, id)[i] = list[i - 1]
  BY <1>1, InsertPlaces
<1>9. \A i \in 1..Len(list) + 1 : all[i] = Insert(list, index, id)[i]
  <2>. TAKE i \in 1..Len(list) + 1
  <2>1. i \in 1..index \/ i = index + 1 \/ i \in index + 2..Len(list) + 1
    BY <1>1
  <2>. QED  BY <1>6, <1>8, <2>1
<1>10. all = Insert(list, index, id)
  <2>1. all = [i \in 1..Len(list) + 1 |-> all[i]]
    BY <1>1, <1>6
  <2>. QED  BY <1>8, <1>9, <2>1
<1>. QED  BY <1>7, <1>10

LEMMA RemoveAtIsDeleteAt ==
    ASSUME NEW list \in Seq(Nat), NEW index \in 0..Len(list) - 1
    PROVE  RemoveAt(list, index + 1) = DeleteAt(list, index)
<1>. DEFINE front == SubSeq(list, 1, index)
            back == SubSeq(list, index + 2, Len(list))
            all == front \o back
<1>1. Len(list) \in Nat /\ index \in Nat /\ (index + 1) - 1 = index /\ (index + 1) + 1 = index + 2
  BY LenProperties
<1>2. \A i \in 1..Len(list) : list[i] \in Nat
  BY <1>1, ElementOfSeq
<1>3. front \in Seq(Nat) /\ Len(front) = index /\ \A i \in 1..index : front[i] = list[i]
  BY <1>1, <1>2, SubSeqProperties
<1>4. /\ back \in Seq(Nat) /\ Len(back) = Len(list) - index - 1
      /\ \A i \in 1..Len(list) - index - 1 : back[i] = list[index + 1 + i]
  BY <1>1, <1>2, SubSeqProperties
<1>. HIDE DEF front, back
<1>5. /\ all \in Seq(Nat) /\ Len(all) = Len(front) + Len(back)
      /\ \A i \in 1..Len(front) : all[i] = front[i]
      /\ \A i \in 1..Len(back) : all[Len(front) + i] = back[i]
  <2>1. back \in Seq(Nat) /\ front \in Seq(Nat)
    BY <1>3, <1>4
  <2>2. all \in Seq(Nat) /\ Len(all) = Len(front) + Len(back)
    BY <2>1, ConcatPlaces, Zenon
  <2>3. \A i \in 1..Len(front) : all[i] = front[i]
    BY <2>1, ConcatPlaces, Zenon
  <2>4. \A i \in 1..Len(back) : all[Len(front) + i] = back[i]
    BY <2>1, NumbersConcatenated
  <2>. HIDE DEF all
  <2>. QED  BY <2>2, <2>3, <2>4
<1>6. RemoveAt(list, index + 1) = all
  BY <1>1 DEF RemoveAt, front, back
<1>. HIDE DEF all
<1>7. \A i \in 1..index : all[i] = list[i]
  BY <1>3, <1>5
<1>8. \A i \in index + 1..Len(list) - 1 : all[i] = list[i + 1]
  <2>. TAKE i \in index + 1..Len(list) - 1
  <2>1. i - index \in 1..Len(list) - index - 1
    BY <1>1
  <2>2. index + 1 + (i - index) = i + 1 /\ index + (i - index) = i
    BY <1>1
  <2>3. all[i] = back[i - index]
    BY <1>3, <1>4, <1>5, <2>1, <2>2
  <2>. QED  BY <1>4, <2>1, <2>2, <2>3
<1>9. all = [i \in 1..Len(list) - 1 |-> all[i]]
  BY <1>1, <1>3, <1>4, <1>5
<1>10. /\ DeleteAt(list, index) = [i \in 1..Len(list) - 1 |-> DeleteAt(list, index)[i]]
       /\ \A i \in 1..index : DeleteAt(list, index)[i] = list[i]
       /\ \A i \in index + 1..Len(list) - 1 : DeleteAt(list, index)[i] = list[i + 1]
  BY <1>1, DeletePlaces
<1>11. \A i \in 1..Len(list) - 1 : all[i] = DeleteAt(list, index)[i]
  <2>. TAKE i \in 1..Len(list) - 1
  <2>1. i \in 1..index \/ i \in index + 1..Len(list) - 1
    BY <1>1
  <2>. QED  BY <1>7, <1>8, <1>10, <2>1
<1>. QED  BY <1>6, <1>9, <1>10, <1>11
-----------------------------------------------------------------------------
(* The start of a queue, after a change of the queue.                      *)

LEMMA DeletedNumber ==
    ASSUME NEW list \in Seq(Nat), NEW from \in 0..Len(list) - 1,
           NEW new, new = DeleteAt(list, from)
    PROVE  /\ new \in Seq(Nat) /\ Len(new) = Len(list) - 1
           /\ \A i \in 1..from : new[i] = list[i]
           /\ \A i \in from + 1..Len(list) - 1 : new[i] = list[i + 1]
<1>1. Len(list) \in Nat
  BY LenProperties
<1>2. new \in Seq(Nat) /\ Len(new) = Len(list) - 1
  BY <1>1, RemoveProperties
<1>3. /\ \A i \in 1..from : DeleteAt(list, from)[i] = list[i]
      /\ \A i \in from + 1..Len(list) - 1 : DeleteAt(list, from)[i] = list[i + 1]
  BY <1>1, DeletePlaces
<1>. QED  BY <1>2, <1>3

(* Inserting a number into a list of numbers.                              *)
LEMMA InsertedNumber ==
    ASSUME NEW list \in Seq(Nat), NEW index \in 0..Len(list), NEW id \in Nat
    PROVE  /\ Insert(list, index, id) \in Seq(Nat)
           /\ Len(Insert(list, index, id)) = Len(list) + 1
           /\ \A i \in 1..index : Insert(list, index, id)[i] = list[i]
           /\ Insert(list, index, id)[index + 1] = id
           /\ \A i \in index + 2..Len(list) + 1 :
                 Insert(list, index, id)[i] = list[i - 1]
<1>1. Len(list) \in Nat
  BY LenProperties
<1>2. /\ \A i \in 1..index : Insert(list, index, id)[i] = list[i]
      /\ Insert(list, index, id)[index + 1] = id
      /\ \A i \in index + 2..Len(list) + 1 :
            Insert(list, index, id)[i] = list[i - 1]
  BY ONLY <1>1, index \in 0..Len(list) DEF Insert
<1>3. /\ Insert(list, index, id) \in Seq(Nat)
      /\ Len(Insert(list, index, id)) = Len(list) + 1
  BY InsertProperties, ZenonT(40)
<1>. QED  BY <1>2, <1>3, Zenon

LEMMA FrontInsert ==
    ASSUME NEW list \in Seq(Nat), NEW s \in Seq(Nat), FrontOf(list, s),
           NEW to \in 0..Len(s), NEW id \in Nat,
           NEW new, new = IF to <= Len(list) THEN InsertAt(list, to + 1, id) ELSE list
    PROVE  /\ new \in Seq(Nat) /\ FrontOf(new, Insert(s, to, id))
           /\ Insert(s, to, id) \in Seq(Nat) /\ Len(Insert(s, to, id)) = Len(s) + 1
           /\ to <= Len(list) => Len(new) = Len(list) + 1
           /\ to > Len(list) => new = list
<1>. DEFINE after == Insert(s, to, id)
<1>1. Len(list) \in Nat /\ Len(s) \in Nat /\ Len(list) <= Len(s) /\ to \in Nat
  BY LenProperties DEF FrontOf
<1>2. /\ after \in Seq(Nat) /\ Len(after) = Len(s) + 1
      /\ \A i \in 1..to : after[i] = s[i]
      /\ after[to + 1] = id
      /\ \A i \in to + 2..Len(s) + 1 : after[i] = s[i - 1]
  BY InsertedNumber, ZenonT(40)
<1>. HIDE DEF after
<1>3. CASE to > Len(list)
  <2>1. new = list
    BY <1>1, <1>3
  <2>2. \A i \in 1..Len(list) : list[i] = after[i]
    <3>. TAKE i \in 1..Len(list)
    <3>1. list[i] = s[i]
      BY DEF FrontOf
    <3>. QED  BY <1>1, <1>2, <1>3, <3>1
  <2>3. FrontOf(new, after)
    <3>1. Len(list) <= Len(after)
      BY <1>1, <1>2, <1>3
    <3>. QED  BY <2>1, <2>2, <3>1, Zenon DEF FrontOf
  <2>. QED  BY <1>1, <1>2, <1>3, <2>1, <2>3 DEF after
<1>4. CASE to <= Len(list)
  <2>1. to \in 0..Len(list) /\ Len(list) \in Nat
    BY <1>1, <1>4
  <2>2. new = Insert(list, to, id)
    BY <1>4, <2>1, InsertAtIsInsert
  <2>3. /\ new \in Seq(Nat) /\ Len(new) = Len(list) + 1
        /\ \A i \in 1..to : new[i] = list[i]
        /\ new[to + 1] = id
        /\ \A i \in to + 2..Len(list) + 1 : new[i] = list[i - 1]
    <3>1. /\ Insert(list, to, id) \in Seq(Nat)
          /\ Len(Insert(list, to, id)) = Len(list) + 1
          /\ \A i \in 1..to : Insert(list, to, id)[i] = list[i]
          /\ Insert(list, to, id)[to + 1] = id
          /\ \A i \in to + 2..Len(list) + 1 : Insert(list, to, id)[i] = list[i - 1]
      BY <2>1, InsertedNumber, Zenon
    <3>. QED  BY <2>2, <3>1, Zenon
  <2>4. \A i \in 1..Len(new) : new[i] = after[i]
    <3>. TAKE i \in 1..Len(new)
    <3>0. i \in Nat /\ i >= 1 /\ i <= Len(list) + 1
      BY <1>1, <2>3
    <3>1. CASE i <= to
      <4>1. i \in 1..Len(list) /\ i \in 1..to
        BY <1>1, <2>1, <3>0, <3>1
      <4>2. list[i] = s[i]
        BY <4>1 DEF FrontOf
      <4>. QED  BY <1>2, <2>3, <4>1, <4>2
    <3>2. CASE i = to + 1
      BY <1>2, <2>3, <3>2
    <3>3. CASE i > to + 1
      <4>1. /\ i \in to + 2..Len(list) + 1 /\ i \in to + 2..Len(s) + 1
            /\ i - 1 \in 1..Len(list)
        BY ONLY <1>1, <2>1, <3>0, <3>3
      <4>. QED  BY <1>2, <2>3, <4>1 DEF FrontOf
    <3>. QED  BY <1>1, <2>1, <2>3, <3>0, <3>1, <3>2, <3>3
  <2>5. Len(new) <= Len(after)
    BY <1>1, <1>2, <1>4, <2>3
  <2>6. FrontOf(new, after)
    BY <2>4, <2>5, Zenon DEF FrontOf
  <2>. QED  BY <1>1, <1>2, <1>4, <2>3, <2>6 DEF after
<1>. QED  BY <1>1, <1>3, <1>4

LEMMA FrontDelete ==
    ASSUME NEW list \in Seq(Nat), NEW s \in Seq(Nat), FrontOf(list, s),
           NEW from \in 0..Len(s) - 1,
           NEW new, new = IF from < Len(list) THEN RemoveAt(list, from + 1) ELSE list
    PROVE  /\ new \in Seq(Nat) /\ FrontOf(new, DeleteAt(s, from))
           /\ DeleteAt(s, from) \in Seq(Nat) /\ Len(DeleteAt(s, from)) = Len(s) - 1
           /\ from < Len(list) => Len(new) = Len(list) - 1
           /\ from >= Len(list) => new = list
<1>. DEFINE after == DeleteAt(s, from)
<1>1. Len(list) \in Nat /\ Len(s) \in Nat /\ Len(list) <= Len(s) /\ from \in Nat
  BY LenProperties DEF FrontOf
<1>2. /\ after \in Seq(Nat) /\ Len(after) = Len(s) - 1
      /\ \A i \in 1..from : after[i] = s[i]
      /\ \A i \in from + 1..Len(s) - 1 : after[i] = s[i + 1]
  BY DeletedNumber
<1>. HIDE DEF after
<1>3. CASE from >= Len(list)
  <2>1. new = list
    BY <1>1, <1>3
  <2>2. \A i \in 1..Len(list) : list[i] = after[i]
    <3>. TAKE i \in 1..Len(list)
    <3>1. list[i] = s[i]
      BY DEF FrontOf
    <3>. QED  BY <1>1, <1>2, <1>3, <3>1
  <2>3. FrontOf(new, after)
    <3>1. Len(list) <= Len(after)
      BY <1>1, <1>2, <1>3
    <3>. QED  BY <2>1, <2>2, <3>1, Zenon DEF FrontOf
  <2>. QED  BY <1>1, <1>2, <1>3, <2>1, <2>3 DEF after
<1>4. CASE from < Len(list)
  <2>1. from \in 0..Len(list) - 1
    BY <1>1, <1>4
  <2>2. new = DeleteAt(list, from)
    BY <1>4, <2>1, RemoveAtIsDeleteAt
  <2>3. /\ new \in Seq(Nat) /\ Len(new) = Len(list) - 1
        /\ \A i \in 1..from : new[i] = list[i]
        /\ \A i \in from + 1..Len(list) - 1 : new[i] = list[i + 1]
    BY <2>1, <2>2, DeletedNumber
  <2>4. \A i \in 1..Len(new) : new[i] = after[i]
    <3>. TAKE i \in 1..Len(new)
    <3>0. i \in Nat /\ i >= 1 /\ i <= Len(list) - 1
      BY <1>1, <2>3
    <3>1. CASE i <= from
      <4>1. i \in 1..Len(list) /\ i \in 1..from
        BY <1>1, <2>1, <3>0, <3>1
      <4>2. list[i] = s[i]
        BY <4>1 DEF FrontOf
      <4>. QED  BY <1>2, <2>3, <4>1, <4>2
    <3>2. CASE i > from
      <4>1. /\ i \in from + 1..Len(list) - 1 /\ i \in from + 1..Len(s) - 1
            /\ i + 1 \in 1..Len(list)
        BY ONLY <1>1, <2>1, <3>0, <3>2
      <4>. QED  BY <1>2, <2>3, <4>1 DEF FrontOf
    <3>. QED  BY <1>1, <2>1, <2>3, <3>0, <3>1, <3>2
  <2>5. Len(new) <= Len(after)
    BY <1>1, <1>2, <1>4, <2>3
  <2>6. FrontOf(new, after)
    BY <2>4, <2>5, Zenon DEF FrontOf
  <2>. QED  BY <1>1, <1>2, <1>4, <2>3, <2>6 DEF after
<1>. QED  BY <1>1, <1>3, <1>4

(* Positions in a list of n elements with m more behind it, and in the     *)
(* list of k elements, from position from on, that these m are the end of. *)
LEMMA BehindTheFront ==
    ASSUME NEW n \in Nat, NEW m \in Nat, NEW i \in 1..n + m, i > n
    PROVE  i - n \in 1..m /\ i = n + (i - n)
  OBVIOUS

RestLength(n, k, from) ==
    IF n - from + 1 <= k THEN k - (n - from + 1) + 1 ELSE 0

IsPlaced(n, k, from, j) ==
    n - from + j \in 1..k /\ from + (n - from + j) = n + j

LEMMA AtTheEnd ==
    ASSUME NEW n \in Nat, NEW k \in Nat, NEW from \in Nat, from <= n,
           NEW j \in 1..RestLength(n, k, from)
    PROVE  IsPlaced(n, k, from, j)
  BY DEF RestLength, IsPlaced

(* The entries that a message tells, from the first one that is not in the *)
(* list yet, continue the list.                                            *)
LEMMA FrontAppend ==
    ASSUME NEW list \in Seq(Nat), NEW s \in Seq(Nat), FrontOf(list, s),
           NEW ids \in Seq(Nat), NEW from \in Nat, from <= Len(list),
           \A i \in 1..Len(ids) : from + i <= Len(s) /\ ids[i] = s[from + i],
           NEW rest, rest = SubSeq(ids, Len(list) - from + 1, Len(ids))
    PROVE  /\ rest \in Seq(Nat) /\ list \o rest \in Seq(Nat)
           /\ FrontOf(list \o rest, s)
<1>. DEFINE all == list \o rest
<1>1. Len(list) \in Nat /\ Len(s) \in Nat /\ Len(ids) \in Nat /\ Len(list) <= Len(s)
  BY LenProperties DEF FrontOf
<1>2. \A i \in Len(list) - from + 1..Len(ids) : ids[i] \in Nat
  <2>. TAKE i \in Len(list) - from + 1..Len(ids)
  <2>1. i \in 1..Len(ids)
    BY <1>1
  <2>. QED  BY <2>1, ElementOfSeq
<1>3. /\ rest \in Seq(Nat)
      /\ Len(rest) = IF Len(list) - from + 1 <= Len(ids)
                     THEN Len(ids) - (Len(list) - from + 1) + 1 ELSE 0
      /\ \A i \in 1..Len(ids) - (Len(list) - from + 1) + 1 :
            rest[i] = ids[Len(list) - from + 1 + i - 1]
  BY <1>1, <1>2, SubSeqProperties
<1>4. Len(rest) \in Nat /\ \A i \in 1..Len(rest) : rest[i] = ids[Len(list) - from + i]
  BY <1>1, <1>3
<1>5. /\ all \in Seq(Nat) /\ Len(all) = Len(list) + Len(rest)
      /\ \A i \in 1..Len(list) : all[i] = list[i]
      /\ \A i \in 1..Len(rest) : all[Len(list) + i] = rest[i]
  <2>1. all \in Seq(Nat) /\ Len(all) = Len(list) + Len(rest)
    BY <1>3, ConcatPlaces
  <2>2. \A i \in 1..Len(list) : all[i] = list[i]
    BY <1>3, ConcatPlaces
  <2>3. \A i \in 1..Len(rest) : all[Len(list) + i] = rest[i]
    BY <1>3, NumbersConcatenated
  <2>. HIDE DEF all
  <2>. QED  BY <2>1, <2>2, <2>3
<1>. HIDE DEF all
<1>6. Len(all) <= Len(s)
  <2>1. CASE Len(list) - from + 1 <= Len(ids)
    <3>1. Len(ids) \in 1..Len(ids)
      BY <1>1, <2>1
    <3>. QED  BY <1>1, <1>3, <1>5, <2>1, <3>1
  <2>2. CASE ~ Len(list) - from + 1 <= Len(ids)
    BY <1>1, <1>3, <1>5, <2>2
  <2>. QED  BY <2>1, <2>2
<1>7. \A i \in 1..Len(all) : all[i] = s[i]
  <2>. TAKE i \in 1..Len(all)
  <2>1. CASE i <= Len(list)
    BY <1>1, <1>5, <2>1 DEF FrontOf
  <2>2. CASE i > Len(list)
    <3>1. PICK j \in 1..Len(rest) : i = Len(list) + j
      <4>1. Len(rest) \in Nat /\ i \in 1..Len(list) + Len(rest)
        BY Zenon, <1>4, <1>5
      <4>. QED  BY Zenon, <1>1, <2>2, <4>1, BehindTheFront
    <3>2. Len(list) - from + j \in 1..Len(ids) /\ from + (Len(list) - from + j) = i
      <4>1. j \in 1..RestLength(Len(list), Len(ids), from)
        BY Zenon, <1>3 DEF RestLength
      <4>2. IsPlaced(Len(list), Len(ids), from, j)
        BY Zenon, <1>1, <4>1, AtTheEnd
      <4>. QED  BY Zenon, <3>1, <4>2 DEF IsPlaced
    <3>3. all[i] = ids[Len(list) - from + j]
      BY <1>4, <1>5, <3>1
    <3>. QED  BY <3>2, <3>3
  <2>. QED  BY <1>1, <2>1, <2>2
<1>. QED  BY <1>3, <1>5, <1>6, <1>7 DEF all, FrontOf
-----------------------------------------------------------------------------
(* The state of the monitor, and what each of its functions leaves alone.  *)

Fetches == [type : {"fetch"}, start : Nat, count : Nat]

Emissions ==
    [type : {"queueResetted", "queueLengthChanged", "fetchCompleted",
             "entriesReceived", "trackAdded", "trackRemoved", "trackMoved"},
     from : Int, to : Int, ids : Seq(Nat), length : Nat, known : Seq(Nat)]

(* No fetch limit is set.                                                  *)
Monitors ==
    [created : BOOLEAN, queue : Seq(Nat), length : Nat, known : BOOLEAN,
     target : Nat \ {0}, limit : {Nowhere}, requested : Nat,
     completed : BOOLEAN, requests : Seq(Fetches), signals : Seq(Emissions)]

(* Monitor d has the queue that monitor c has.                             *)
Kept(c, d) ==
    /\ d \in Monitors
    /\ d.created = c.created /\ d.queue = c.queue
    /\ d.length = c.length /\ d.known = c.known

(* Something of the queue was asked for, or there is nothing to ask for.   *)
Asking(c) == c.requested > 0 \/ Len(c.queue) = c.length

LEMMA FieldTypes ==
    ASSUME NEW c \in Monitors
    PROVE  /\ c.created \in BOOLEAN /\ c.queue \in Seq(Nat) /\ c.length \in Nat
           /\ c.known \in BOOLEAN /\ c.target \in Nat \ {0} /\ c.limit = Nowhere
           /\ c.requested \in Nat /\ c.completed \in BOOLEAN
           /\ c.requests \in Seq(Fetches) /\ c.signals \in Seq(Emissions)
  BY Zenon DEF Monitors

LEMMA FetchIsKept ==
    ASSUME NEW c \in Monitors, NEW start \in Nat, NEW count \in Nat
    PROVE  /\ Kept(c, SendFetch(c, start, count))
           /\ SendFetch(c, start, count).requested = c.requested
<1>. DEFINE list == Append(c.requests, FetchRequest(start, count))
<1>1. list \in Seq(Fetches)
  <2>1. FetchRequest(start, count) \in Fetches
    BY DEF FetchRequest, Fetches
  <2>. QED  BY <2>1, FieldTypes
<1>2. SendFetch(c, start, count) = [c EXCEPT !.requests = list]
  BY Zenon DEF SendFetch
<1>. HIDE DEF list
<1>3. /\ [c EXCEPT !.requests = list] \in Monitors
      /\ [c EXCEPT !.requests = list].created = c.created
      /\ [c EXCEPT !.requests = list].queue = c.queue
      /\ [c EXCEPT !.requests = list].length = c.length
      /\ [c EXCEPT !.requests = list].known = c.known
      /\ [c EXCEPT !.requests = list].requested = c.requested
  BY <1>1, Zenon DEF Monitors
<1>. QED  BY <1>2, <1>3 DEF Kept

LEMMA EmissionIsKept ==
    ASSUME NEW c \in Monitors, NEW from \in Int, NEW to \in Int, NEW ids \in Seq(Nat),
           NEW type \in {"queueResetted", "queueLengthChanged", "fetchCompleted",
                         "entriesReceived", "trackAdded", "trackRemoved", "trackMoved"}
    PROVE  /\ Kept(c, Emit(c, type, from, to, ids))
           /\ Emit(c, type, from, to, ids).requested = c.requested
<1>. DEFINE e == [type |-> type, from |-> from, to |-> to,
                  ids |-> ids, length |-> c.length, known |-> c.queue]
            list == Append(c.signals, e)
<1>1. list \in Seq(Emissions)
  <2>1. c.length \in Nat /\ c.queue \in Seq(Nat) /\ c.signals \in Seq(Emissions)
    BY FieldTypes
  <2>2. e \in Emissions
    BY <2>1 DEF Emissions
  <2>. HIDE DEF e
  <2>. QED  BY <2>1, <2>2
<1>2. Emit(c, type, from, to, ids) = [c EXCEPT !.signals = list]
  BY Zenon DEF Emit
<1>. HIDE DEF list
<1>3. /\ [c EXCEPT !.signals = list] \in Monitors
      /\ [c EXCEPT !.signals = list].created = c.created
      /\ [c EXCEPT !.signals = list].queue = c.queue
      /\ [c EXCEPT !.signals = list].length = c.length
      /\ [c EXCEPT !.signals = list].known = c.known
      /\ [c EXCEPT !.signals = list].requested = c.requested
  BY <1>1, Zenon DEF Monitors
<1>. QED  BY <1>2, <1>3 DEF Kept

LEMMA NewsIsKept ==
    ASSUME NEW c \in Monitors,
           NEW type \in {"queueResetted", "queueLengthChanged", "fetchCompleted"}
    PROVE  Kept(c, EmitNews(c, type)) /\ EmitNews(c, type).requested = c.requested
<1>1. Nowhere \in Int /\ << >> \in Seq(Nat)
  BY DEF Nowhere
<1>2. EmitNews(c, type) = Emit(c, type, Nowhere, Nowhere, << >>)
  BY DEF EmitNews
<1>3. type \in {"queueResetted", "queueLengthChanged", "fetchCompleted",
               "entriesReceived", "trackAdded", "trackRemoved", "trackMoved"}
  OBVIOUS
<1>4. /\ Kept(c, Emit(c, type, Nowhere, Nowhere, << >>))
      /\ Emit(c, type, Nowhere, Nowhere, << >>).requested = c.requested
  BY <1>1, <1>3, EmissionIsKept, ZenonT(40)
<1>. QED  BY <1>2, <1>4

LEMMA CompletionIsKept ==
    ASSUME NEW c \in Monitors
    PROVE  /\ Kept(c, CheckFetchCompleted(c))
           /\ CheckFetchCompleted(c).requested = c.requested
<1>. DEFINE d == [c EXCEPT !.completed = TRUE]
<1>1. d \in Monitors /\ d.requested = c.requested /\ Kept(c, d)
  BY Zenon DEF Monitors, Kept
<1>. HIDE DEF d
<1>2. /\ Kept(d, EmitNews(d, "fetchCompleted"))
      /\ EmitNews(d, "fetchCompleted").requested = d.requested
  BY <1>1, NewsIsKept
<1>3. CheckFetchCompleted(c) = c \/ CheckFetchCompleted(c) = EmitNews(d, "fetchCompleted")
  BY Zenon DEF CheckFetchCompleted, d
<1>4. Kept(c, c)
  BY DEF Kept
<1>. QED  BY <1>1, <1>2, <1>3, <1>4 DEF Kept

LEMMA RequestedIsKept ==
    ASSUME NEW c \in Monitors, NEW n \in Nat
    PROVE  /\ Kept(c, [c EXCEPT !.requested = n])
           /\ [c EXCEPT !.requested = n].requested = n
  BY Zenon DEF Monitors, Kept

(* Fetching more does not change the queue; afterwards something is asked  *)
(* for, if there is something to ask for.                                  *)
LEMMA FetchingIsKept ==
    ASSUME NEW c \in Monitors, Len(c.queue) <= c.length
    PROVE  Kept(c, FetchMore(c)) /\ Asking(FetchMore(c))
<1>. DEFINE d == CheckFetchCompleted(c)
            n == d.requested + FetchBatch
            more == [d EXCEPT !.requested = n]
<1>1. Kept(c, d) /\ d \in Monitors /\ Len(d.queue) <= d.length
  BY CompletionIsKept DEF Kept
<1>2. /\ d.queue \in Seq(Nat) /\ d.length \in Nat /\ d.target \in Nat \ {0}
      /\ d.requested \in Nat /\ Len(d.queue) \in Nat
      /\ FetchBatch \in Nat \ {0}
  BY <1>1, FieldTypes, LenProperties, MonitorConstants
<1>3. FetchMore(c) = IF d.requested >= d.length THEN [d EXCEPT !.requested = d.length]
                     ELSE IF d.requested >= d.target \/ d.requested > Len(d.queue) THEN d
                     ELSE SendFetch(more, d.requested, FetchBatch)
  BY Zenon DEF FetchMore
<1>4. more = [d EXCEPT !.requested = n] /\ n \in Nat /\ n > 0
  BY <1>2
<1>5. Kept(d, more) /\ more.requested > 0
  BY <1>1, <1>4, RequestedIsKept
<1>. HIDE DEF d, more, n
<1>6. CASE d.requested >= d.length
  <2>1. FetchMore(c) = [d EXCEPT !.requested = d.length]
    BY <1>3, <1>6
  <2>2. Kept(d, FetchMore(c)) /\ FetchMore(c).requested = d.length
    BY <1>1, <1>2, <2>1, RequestedIsKept
  <2>. QED  BY <1>1, <1>2, <2>2 DEF Kept, Asking
<1>7. CASE ~ d.requested >= d.length /\ (d.requested >= d.target \/ d.requested > Len(d.queue))
  <2>1. FetchMore(c) = d
    BY <1>3, <1>7
  <2>. QED  BY <1>1, <1>2, <1>7, <2>1 DEF Asking
<1>8. CASE ~ d.requested >= d.length /\ ~ (d.requested >= d.target \/ d.requested > Len(d.queue))
  <2>1. FetchMore(c) = SendFetch(more, d.requested, FetchBatch)
    BY <1>3, <1>8
  <2>2. Kept(more, FetchMore(c)) /\ FetchMore(c).requested = more.requested
    <3>1. more \in Monitors /\ FetchBatch \in Nat
      BY <1>2, <1>5 DEF Kept
    <3>. QED  BY <1>2, <2>1, <3>1, FetchIsKept
  <2>. QED  BY <1>1, <1>5, <2>2 DEF Kept, Asking
<1>. QED  BY <1>6, <1>7, <1>8

LEMMA FirstFetchIsKept ==
    ASSUME NEW c \in Monitors
    PROVE  Kept(c, SendInitialFetch(c)) /\ SendInitialFetch(c).requested > 0
<1>. DEFINE length == IF Limited(c, InitialFetch) = 0 THEN 1 ELSE Limited(c, InitialFetch)
            d == [c EXCEPT !.requested = length]
<1>1. length \in Nat /\ length > 0 /\ 0 \in Nat
  BY FieldTypes, MonitorConstants DEF Limited
<1>2. SendInitialFetch(c) = SendFetch(d, 0, length)
  BY Zenon DEF SendInitialFetch
<1>. HIDE DEF length
<1>3. Kept(c, d) /\ d.requested = length
  BY <1>1, RequestedIsKept
<1>. HIDE DEF d
<1>4. Kept(d, SendFetch(d, 0, length)) /\ SendFetch(d, 0, length).requested = d.requested
  BY <1>1, <1>3, FetchIsKept, ZenonT(40) DEF Kept
<1>. QED  BY <1>1, <1>2, <1>3, <1>4 DEF Kept
-----------------------------------------------------------------------------
(* The monitor follows the messages.                                       *)

(* The monitor c is in step with the state s of the queue.                 *)
InStep(c, s) ==
    /\ c \in Monitors
    /\ FrontOf(c.queue, s) /\ c.length = Len(s)
    /\ Asking(c)

LEMMA StaysInStep ==
    ASSUME NEW s, NEW c, InStep(c, s), NEW d, Kept(c, d), Asking(d)
    PROVE  InStep(d, s) /\ d.known = c.known /\ d.created = c.created
  BY DEF InStep, Kept

LEMMA MoreIsInStep ==
    ASSUME NEW s \in Seq(Nat), NEW c \in Monitors, FrontOf(c.queue, s), c.length = Len(s)
    PROVE  /\ InStep(FetchMore(c), s)
           /\ FetchMore(c).known = c.known /\ FetchMore(c).created = c.created
<1>1. Len(c.queue) <= c.length
  BY DEF FrontOf
<1>2. Kept(c, FetchMore(c)) /\ Asking(FetchMore(c))
  BY <1>1, FetchingIsKept
<1>. QED  BY <1>2 DEF InStep, Kept

LEMMA LengthIsKnown ==
    ASSUME NEW c \in Monitors, NEW n \in Nat
    PROVE  /\ [c EXCEPT !.known = TRUE, !.length = n] \in Monitors
           /\ [c EXCEPT !.known = TRUE, !.length = n].created = c.created
           /\ [c EXCEPT !.known = TRUE, !.length = n].known = TRUE
           /\ [c EXCEPT !.known = TRUE, !.length = n].length = n
           /\ [c EXCEPT !.known = TRUE, !.length = n].queue = c.queue
           /\ [c EXCEPT !.known = TRUE, !.length = n].requested = c.requested
  BY Zenon DEF Monitors

LEMMA EmptyFront ==
    ASSUME NEW s \in Seq(Nat)
    PROVE  FrontOf(<< >>, s)
<1>1. Len(s) \in Nat /\ Len(<< >>) = 0
  BY LenProperties
<1>. QED  BY <1>1 DEF FrontOf

LEMMA SameLength ==
    ASSUME NEW c \in Monitors, NEW d, d = UpdateQueueLength(c, c.length, FALSE)
    PROVE  /\ d \in Monitors /\ d.created = c.created /\ d.known = TRUE
           /\ d.length = c.length /\ d.queue = c.queue /\ d.requested = c.requested
<1>. DEFINE told == [c EXCEPT !.known = @ \/ c.length >= 0, !.length = c.length]
<1>1. d = IF told = c THEN c ELSE EmitNews(told, "queueLengthChanged")
  BY Zenon DEF UpdateQueueLength
<1>2. /\ told \in Monitors /\ told.created = c.created /\ told.known = TRUE
      /\ told.length = c.length /\ told.queue = c.queue /\ told.requested = c.requested
  <2>1. c.length \in Nat
    BY FieldTypes
  <2>2. (c.known \/ c.length >= 0) = TRUE
    BY <2>1
  <2>3. told = [c EXCEPT !.known = TRUE, !.length = c.length]
    BY <2>2, Zenon
  <2>. HIDE DEF told
  <2>. DEFINE said == [c EXCEPT !.known = TRUE, !.length = c.length]
  <2>4. /\ said \in Monitors /\ said.created = c.created /\ said.known = TRUE
        /\ said.length = c.length /\ said.queue = c.queue /\ said.requested = c.requested
    BY <2>1, LengthIsKnown, Zenon
  <2>. QED  BY <2>3, <2>4
<1>. HIDE DEF told
<1>3. /\ Kept(told, EmitNews(told, "queueLengthChanged"))
      /\ EmitNews(told, "queueLengthChanged").requested = told.requested
  BY <1>2, NewsIsKept
<1>. QED  BY <1>1, <1>2, <1>3 DEF Kept

LEMMA OtherLength ==
    ASSUME NEW c \in Monitors, NEW n \in Nat, n # c.length,
           NEW d, d = UpdateQueueLength(c, n, FALSE)
    PROVE  /\ d \in Monitors /\ d.created = c.created /\ d.known = TRUE
           /\ d.length = n /\ d.queue = << >>
           /\ d.requested = c.requested \/ d.requested > 0
<1>. DEFINE changed == [c EXCEPT !.known = @ \/ n >= 0, !.length = n]
            emptied == [changed EXCEPT !.queue = << >>]
            reset == IF c.queue # << >> THEN SendInitialFetch(emptied) ELSE changed
            told == EmitNews(reset, "queueResetted")
<1>1. d = IF told = c THEN c ELSE EmitNews(told, "queueLengthChanged")
  BY Zenon DEF UpdateQueueLength, EmitNews
<1>2. /\ changed \in Monitors /\ changed.created = c.created /\ changed.known = TRUE
      /\ changed.length = n /\ changed.queue = c.queue
      /\ changed.requested = c.requested
  <2>1. (c.known \/ n >= 0) = TRUE
    BY SMT
  <2>2. changed = [c EXCEPT !.known = TRUE, !.length = n]
    BY <2>1, Zenon
  <2>. HIDE DEF changed
  <2>. DEFINE said == [c EXCEPT !.known = TRUE, !.length = n]
  <2>4. /\ said \in Monitors /\ said.created = c.created /\ said.known = TRUE
        /\ said.length = n /\ said.queue = c.queue /\ said.requested = c.requested
    BY LengthIsKnown, Zenon
  <2>. QED  BY <2>2, <2>4
<1>. HIDE DEF changed
<1>3. /\ emptied \in Monitors /\ emptied.created = c.created /\ emptied.known = TRUE
      /\ emptied.length = n /\ emptied.queue = << >>
  <2>1. << >> \in Seq(Nat)
    OBVIOUS
  <2>2. /\ [changed EXCEPT !.queue = << >>] \in Monitors
        /\ [changed EXCEPT !.queue = << >>].created = changed.created
        /\ [changed EXCEPT !.queue = << >>].known = changed.known
        /\ [changed EXCEPT !.queue = << >>].length = changed.length
        /\ [changed EXCEPT !.queue = << >>].queue = << >>
    BY <1>2, <2>1, Zenon DEF Monitors
  <2>. QED  BY <1>2, <2>2
<1>. HIDE DEF emptied
<1>4. /\ reset \in Monitors /\ reset.created = c.created /\ reset.known = TRUE
      /\ reset.length = n /\ reset.queue = << >>
      /\ reset.requested = c.requested \/ reset.requested > 0
  <2>1. CASE c.queue # << >>
    <3>1. reset = SendInitialFetch(emptied)
      BY <2>1
    <3>. HIDE DEF reset
    <3>2. Kept(emptied, reset) /\ reset.requested > 0
      BY <1>3, <3>1, FirstFetchIsKept
    <3>. QED  BY <1>3, <3>2 DEF Kept
  <2>2. CASE c.queue = << >>
    BY <1>2, <2>2
  <2>. QED  BY <2>1, <2>2
<1>. HIDE DEF reset
<1>5. Kept(reset, told) /\ told.requested = reset.requested
  BY <1>4, NewsIsKept
<1>. HIDE DEF told
<1>6. /\ Kept(told, EmitNews(told, "queueLengthChanged"))
      /\ EmitNews(told, "queueLengthChanged").requested = told.requested
  BY <1>5, NewsIsKept DEF Kept
<1>. QED  BY <1>1, <1>4, <1>5, <1>6 DEF Kept

LEMMA ContentsAppended ==
    ASSUME NEW c \in Monitors, NEW ids \in Seq(Nat), c.queue \o ids \in Seq(Nat)
    PROVE  /\ AppendNewContents(c, ids) \in Monitors
           /\ AppendNewContents(c, ids).created = c.created
           /\ AppendNewContents(c, ids).known = c.known
           /\ AppendNewContents(c, ids).length = c.length
           /\ AppendNewContents(c, ids).queue = c.queue \o ids
<1>1. CASE ids = << >>
  <2>1. AppendNewContents(c, ids) = c
    BY <1>1, Zenon DEF AppendNewContents
  <2>2. c.queue \o ids = c.queue
    BY <1>1, FieldTypes, ConcatEmptySeq
  <2>. QED  BY <2>1, <2>2
<1>2. CASE ids # << >>
  <2>. DEFINE list == c.queue \o ids
              d == [c EXCEPT !.queue = list]
  <2>1. AppendNewContents(c, ids) = Emit(d, "entriesReceived", Len(c.queue), Nowhere, ids)
    BY <1>2, Zenon DEF AppendNewContents
  <2>2. list \in Seq(Nat)
    OBVIOUS
  <2>. HIDE DEF list
  <2>3. /\ d \in Monitors /\ d.created = c.created /\ d.known = c.known
        /\ d.length = c.length /\ d.queue = list
    BY <2>2, Zenon DEF Monitors
  <2>. HIDE DEF d
  <2>4. Len(c.queue) \in Int /\ Nowhere \in Int
    BY FieldTypes, LenProperties DEF Nowhere
  <2>5. Kept(d, Emit(d, "entriesReceived", Len(c.queue), Nowhere, ids))
    BY <2>3, <2>4, EmissionIsKept
  <2>. QED  BY <2>1, <2>3, <2>5 DEF Kept, list
<1>. QED  BY <1>1, <1>2

(* Contents: whatever the monitor knew of the queue, as long as it is the  *)
(* start of the queue, it is in step afterwards.                           *)
LEMMA ContentsInStep ==
    ASSUME NEW s \in Seq(Nat), NEW m, Follows(s, m), m.type = "contents",
           NEW c \in Monitors, FrontOf(c.queue, s), Asking(c),
           c.length = Len(s) \/ c.requested > 0
    PROVE  /\ InStep(ReceivedQueueContents(c, m), s)
           /\ ReceivedQueueContents(c, m).known = TRUE
           /\ ReceivedQueueContents(c, m).created = c.created
<1>. DEFINE u == UpdateQueueLength(c, m.to, FALSE)
            rest == SubSeq(m.ids, Len(u.queue) - m.from + 1, Len(m.ids))
            again == [u EXCEPT !.requested = Len(u.queue)]
            d == ReceivedQueueContents(c, m)
<1>1. /\ m.to = Len(s) /\ m.to \in Nat /\ m.from \in Nat /\ m.ids \in Seq(Nat)
      /\ \A i \in 1..Len(m.ids) : m.from + i <= Len(s) /\ m.ids[i] = s[m.from + i]
  BY LenProperties DEF Follows, ClientMessage
<1>2. /\ u \in Monitors /\ u.created = c.created /\ u.known = TRUE /\ u.length = Len(s)
      /\ FrontOf(u.queue, s) /\ Asking(u)
  <2>1. u = UpdateQueueLength(c, Len(s), FALSE) /\ Len(s) \in Nat
    BY <1>1
  <2>. HIDE DEF u
  <2>2. CASE Len(s) = c.length
    <3>1. /\ u \in Monitors /\ u.created = c.created /\ u.known = TRUE
          /\ u.length = c.length /\ u.queue = c.queue /\ u.requested = c.requested
      <4>1. u = UpdateQueueLength(c, c.length, FALSE)
        BY <2>1, <2>2
      <4>. QED  BY <4>1, SameLength
    <3>. QED  BY <2>2, <3>1 DEF Asking
  <2>3. CASE Len(s) # c.length
    <3>. DEFINE n == Len(s)
    <3>0. n \in Nat /\ n # c.length /\ u = UpdateQueueLength(c, n, FALSE)
      BY <2>1, <2>3
    <3>2. u.length = n
      <4>. HIDE DEF n
      <4>. QED  BY <3>0, OtherLength, Zenon
    <3>1. /\ u \in Monitors /\ u.created = c.created /\ u.known = TRUE
          /\ u.queue = << >> /\ u.length = Len(s)
          /\ u.requested = c.requested \/ u.requested > 0
      <4>. HIDE DEF n
      <4>1. u \in Monitors /\ u.created = c.created
        BY <3>0, OtherLength, ZenonT(40)
      <4>2. u.known = TRUE /\ u.queue = << >>
        BY <3>0, OtherLength, Zenon
      <4>3. u.requested = c.requested \/ u.requested > 0
        BY <3>0, OtherLength, Zenon
      <4>. QED  BY <3>2, <4>1, <4>2, <4>3, Zenon DEF n
    <3>3. FrontOf(u.queue, s)
      BY <3>1, EmptyFront
    <3>4. Asking(u)
      BY <2>3, <3>1 DEF Asking
    <3>. QED  BY <3>1, <3>3, <3>4
  <2>. QED  BY <2>2, <2>3
<1>3. d = IF m.ids = << >> THEN CheckFetchCompleted(u)
          ELSE IF m.from > Len(u.queue) THEN FetchMore(again)
          ELSE IF ~ ContentsMatch(u, m.from, m.ids) THEN DoReset(u, m.to)
          ELSE FetchMore(AppendNewContents(u, rest))
  BY Zenon DEF ReceivedQueueContents
<1>4. again = [u EXCEPT !.requested = Len(u.queue)]
  OBVIOUS
<1>. HIDE DEF u, d, again
<1>5. InStep(u, s) /\ u.queue \in Seq(Nat) /\ Len(u.queue) \in Nat
  BY <1>2, FieldTypes, LenProperties DEF InStep
<1>6. CASE m.ids = << >>
  <2>1. d = CheckFetchCompleted(u)
    BY <1>3, <1>6
  <2>2. Kept(u, d) /\ d.requested = u.requested
    BY <1>2, <2>1, CompletionIsKept
  <2>3. Asking(d)
    BY <1>5, <2>2 DEF InStep, Asking, Kept
  <2>. QED  BY <1>2, <1>5, <2>2, <2>3, StaysInStep DEF d
<1>7. CASE m.ids # << >> /\ m.from > Len(u.queue)
  <2>1. d = FetchMore(again)
    BY <1>3, <1>7
  <2>2. Kept(u, again)
    BY <1>2, <1>4, <1>5, RequestedIsKept
  <2>3. again \in Monitors /\ FrontOf(again.queue, s) /\ again.length = Len(s)
    BY <1>5, <2>2 DEF InStep, Kept
  <2>4. InStep(d, s) /\ d.known = again.known /\ d.created = again.created
    BY <2>1, <2>3, MoreIsInStep
  <2>. QED  BY <1>2, <2>2, <2>4 DEF Kept, d
<1>8. CASE m.ids # << >> /\ m.from <= Len(u.queue)
  <2>1. ContentsMatch(u, m.from, m.ids)
    <3>1. ASSUME NEW i \in 1..Len(m.ids), m.from + i <= Len(u.queue)
          PROVE  u.queue[m.from + i] = m.ids[i]
      <4>1. m.from + i \in 1..Len(u.queue)
        <5>1. m.from \in Nat /\ Len(u.queue) \in Nat /\ Len(m.ids) \in Nat
          BY <1>1, <1>5, LenProperties
        <5>. QED  BY ONLY <5>1, <3>1, i \in 1..Len(m.ids)
      <4>. QED  BY <1>1, <1>5, <4>1 DEF InStep, FrontOf
    <3>. QED  BY <3>1 DEF ContentsMatch
  <2>2. d = FetchMore(AppendNewContents(u, rest))
    BY <1>1, <1>3, <1>5, <1>8, <2>1
  <2>3. rest \in Seq(Nat) /\ u.queue \o rest \in Seq(Nat) /\ FrontOf(u.queue \o rest, s)
    BY <1>1, <1>5, <1>8, FrontAppend DEF InStep
  <2>. DEFINE longer == AppendNewContents(u, rest)
  <2>. HIDE DEF rest
  <2>4. /\ longer \in Monitors /\ longer.created = u.created /\ longer.known = u.known
        /\ longer.length = u.length /\ longer.queue = u.queue \o rest
    BY <1>2, <2>3, ContentsAppended
  <2>. HIDE DEF longer
  <2>5. InStep(FetchMore(longer), s) /\ FetchMore(longer).known = longer.known
        /\ FetchMore(longer).created = longer.created
    BY <1>2, <2>3, <2>4, MoreIsInStep
  <2>. QED  BY <1>2, <2>2, <2>4, <2>5 DEF d, longer
<1>9. m.from > Len(u.queue) \/ m.from <= Len(u.queue)
  <2>1. m.from \in Nat /\ Len(u.queue) \in Nat
    BY <1>1, <1>5
  <2>. QED  BY ONLY <2>1
<1>. QED  BY <1>6, <1>7, <1>8, <1>9

(* An added entry that is not beyond the end of the queue: the queue that  *)
(* the monitor has then, and the rest of what it knows.                    *)
ListWith(c, m) ==
    IF m.to <= Len(c.queue) THEN InsertAt(c.queue, m.to + 1, m.id) ELSE c.queue

HasAdded(c, m, d) ==
    /\ d \in Monitors /\ d.created = c.created /\ d.known = c.known
    /\ d.length = c.length + 1 /\ d.queue = ListWith(c, m)
    /\ d.requested = IF m.to < c.requested THEN c.requested + 1 ELSE c.requested

LEMMA AddedEntry ==
    ASSUME NEW c \in Monitors, NEW m, m.to \in Nat, m.to <= c.length, m.id \in Nat,
           ListWith(c, m) \in Seq(Nat)
    PROVE  HasAdded(c, m, QueueEntryAdded(c, m))
<1>. DEFINE length == c.length + 1
            n == IF m.to < c.requested THEN c.requested + 1 ELSE c.requested
            list == ListWith(c, m)
            d == QueueEntryAdded(c, m)
            x == [c EXCEPT !.length = length, !.queue = list, !.requested = n]
            y == Emit(x, "trackAdded", Nowhere, m.to, <<m.id>>)
<1>1. c.length \in Nat /\ c.requested \in Nat
  BY FieldTypes
<1>2. ~ m.to > c.length /\ length \in Nat /\ n \in Nat /\ list \in Seq(Nat)
  BY <1>1
<1>3. d = EmitNews(y, "queueLengthChanged")
  <2>1. QueueEntryAdded(c, m) = IF m.to > c.length THEN Investigate(c, m.to)
                                ELSE EmitNews(y, "queueLengthChanged")
    BY Zenon DEF QueueEntryAdded, ListWith
  <2>. HIDE DEF y
  <2>. QED  BY <1>2, <2>1
<1>. HIDE DEF length, n, list, d
<1>4. /\ x \in Monitors /\ x.created = c.created /\ x.known = c.known
      /\ x.length = length /\ x.queue = list /\ x.requested = n
  BY <1>2, Zenon DEF Monitors
<1>. HIDE DEF x
<1>5. Kept(x, y) /\ y.requested = x.requested
  <2>1. Nowhere \in Int /\ m.to \in Int /\ <<m.id>> \in Seq(Nat)
    BY DEF Nowhere
  <2>. DEFINE to == m.to
              ids == <<m.id>>
  <2>2. /\ x \in Monitors /\ to \in Int /\ ids \in Seq(Nat)
        /\ y = Emit(x, "trackAdded", Nowhere, to, ids)
    BY <1>4, <2>1
  <2>. HIDE DEF to, ids, y
  <2>3. /\ Kept(x, Emit(x, "trackAdded", Nowhere, to, ids))
        /\ Emit(x, "trackAdded", Nowhere, to, ids).requested = x.requested
    BY <2>1, <2>2, EmissionIsKept
  <2>. QED  BY Zenon, <2>2, <2>3
<1>. HIDE DEF y
<1>6. Kept(y, d) /\ d.requested = y.requested
  BY <1>3, <1>5, NewsIsKept DEF Kept
<1>. QED  BY <1>2, <1>4, <1>5, <1>6 DEF Kept, HasAdded, length, n, list, d

LEMMA AddedInStep ==
    ASSUME NEW s \in Seq(Nat), NEW m, Follows(s, m), m.type = "entryAdded",
           NEW c, InStep(c, s)
    PROVE  /\ InStep(QueueEntryAdded(c, m), m.state)
           /\ QueueEntryAdded(c, m).known = c.known
           /\ QueueEntryAdded(c, m).created = c.created
<1>. DEFINE new == IF m.to <= Len(c.queue) THEN InsertAt(c.queue, m.to + 1, m.id) ELSE c.queue
            d == QueueEntryAdded(c, m)
<1>1. /\ m.to \in 0..Len(s) /\ m.id \in Nat /\ m.state = Insert(s, m.to, m.id)
      /\ Len(s) \in Nat /\ m.to \in Nat /\ m.to <= Len(s)
  BY LenProperties DEF Follows, ClientMessage
<1>2. /\ c \in Monitors /\ FrontOf(c.queue, s) /\ c.length = Len(s) /\ Asking(c)
      /\ c.queue \in Seq(Nat) /\ Len(c.queue) \in Nat /\ c.requested \in Nat
  BY FieldTypes, LenProperties DEF InStep
<1>3. /\ new \in Seq(Nat) /\ FrontOf(new, Insert(s, m.to, m.id))
      /\ Len(Insert(s, m.to, m.id)) = Len(s) + 1
      /\ m.to <= Len(c.queue) => Len(new) = Len(c.queue) + 1
  <2>1. new = IF m.to <= Len(c.queue) THEN InsertAt(c.queue, m.to + 1, m.id) ELSE c.queue
    OBVIOUS
  <2>. DEFINE list == c.queue
              to == m.to
              id == m.id
              after == Insert(s, to, id)
  <2>2. /\ list \in Seq(Nat) /\ FrontOf(list, s) /\ to \in 0..Len(s) /\ id \in Nat
        /\ new = IF to <= Len(list) THEN InsertAt(list, to + 1, id) ELSE list
    BY <1>1, <1>2, <2>1
  <2>. HIDE DEF new, d, list, to, id
  <2>3. new \in Seq(Nat) /\ FrontOf(new, after)
    BY <2>2, FrontInsert
  <2>4. Len(after) = Len(s) + 1
    BY <2>2, FrontInsert
  <2>5. to <= Len(list) => Len(new) = Len(list) + 1
    BY <2>2, FrontInsert
  <2>. QED  BY <2>3, <2>4, <2>5 DEF list, to, id
<1>4. /\ d \in Monitors /\ d.created = c.created /\ d.known = c.known
      /\ d.length = c.length + 1 /\ d.queue = new
      /\ d.requested = IF m.to < c.requested THEN c.requested + 1 ELSE c.requested
  <2>1. new = IF m.to <= Len(c.queue) THEN InsertAt(c.queue, m.to + 1, m.id) ELSE c.queue
    OBVIOUS
  <2>2. m.to <= c.length
    BY <1>1, <1>2
  <2>. HIDE DEF new
  <2>3. m.to \in Nat /\ m.id \in Nat /\ c \in Monitors /\ new \in Seq(Nat)
    BY <1>1, <1>2, <1>3
  <2>4. d = QueueEntryAdded(c, m)
    OBVIOUS
  <2>. HIDE DEF d
  <2>5. new = ListWith(c, m)
    BY <2>1, Zenon DEF ListWith
  <2>6. HasAdded(c, m, d)
    BY <2>2, <2>3, <2>4, <2>5, AddedEntry
  <2>. QED  BY <2>5, <2>6, Zenon DEF HasAdded
<1>. HIDE DEF d, new
<1>5. Asking(d)
  <2>1. CASE c.requested > 0
    BY <1>2, <1>4, <2>1 DEF Asking
  <2>2. CASE Len(c.queue) = c.length
    BY <1>1, <1>2, <1>3, <1>4, <2>2 DEF Asking
  <2>. QED  BY <1>2, <2>1, <2>2 DEF Asking
<1>6. InStep(d, m.state)
  BY <1>1, <1>2, <1>3, <1>4, <1>5 DEF InStep
<1>. QED  BY <1>4, <1>6 DEF d

(* A monitor that is in step finds the entry that is told at its index.    *)
LEMMA RemovedInStep ==
    ASSUME NEW s \in Seq(Nat), NEW m, Follows(s, m), m.type = "entryRemoved",
           NEW c, InStep(c, s)
    PROVE  /\ InStep(QueueEntryRemoved(c, m), m.state)
           /\ QueueEntryRemoved(c, m).known = c.known
           /\ QueueEntryRemoved(c, m).created = c.created
<1>. DEFINE length == c.length - 1
            new == IF m.from < Len(c.queue) THEN RemoveAt(c.queue, m.from + 1) ELSE c.queue
            removed == [c EXCEPT !.length = length, !.queue = new]
            fewer == [removed EXCEPT !.requested = @ - 1]
            x == IF m.from < c.requested THEN FetchMore(fewer) ELSE removed
            y == Emit(x, "trackRemoved", m.from, Nowhere, <<m.id>>)
            d == QueueEntryRemoved(c, m)
<1>1. /\ m.from \in 0..Len(s) - 1 /\ m.id \in Nat /\ m.state = DeleteAt(s, m.from)
      /\ m.id = s[m.from + 1] /\ Len(s) \in Nat /\ m.from \in Nat /\ m.from < Len(s)
  BY LenProperties DEF Follows, ClientMessage
<1>2. /\ c \in Monitors /\ FrontOf(c.queue, s) /\ c.length = Len(s) /\ Asking(c)
      /\ c.queue \in Seq(Nat) /\ Len(c.queue) \in Nat /\ c.requested \in Nat
  BY FieldTypes, LenProperties DEF InStep
<1>3. /\ new \in Seq(Nat) /\ FrontOf(new, m.state) /\ Len(m.state) = Len(s) - 1
      /\ m.from < Len(c.queue) => Len(new) = Len(c.queue) - 1
  <2>1. new = IF m.from < Len(c.queue) THEN RemoveAt(c.queue, m.from + 1) ELSE c.queue
    OBVIOUS
  <2>. DEFINE list == c.queue
              from == m.from
              after == DeleteAt(s, from)
  <2>2. /\ list \in Seq(Nat) /\ FrontOf(list, s) /\ from \in 0..Len(s) - 1
        /\ new = IF from < Len(list) THEN RemoveAt(list, from + 1) ELSE list
    BY <1>1, <1>2, <2>1
  <2>. HIDE DEF new, d, x, y, removed, fewer, list, from
  <2>3. new \in Seq(Nat) /\ FrontOf(new, after)
    BY <2>2, FrontDelete
  <2>4. Len(after) = Len(s) - 1
    BY <2>2, FrontDelete
  <2>5. from < Len(list) => Len(new) = Len(list) - 1
    <3>. SUFFICES ASSUME from < Len(list)
                  PROVE  Len(new) = Len(list) - 1
      OBVIOUS
    <3>1. new = RemoveAt(list, from + 1) /\ from \in 0..Len(list) - 1
      BY <2>2, LenProperties
    <3>2. new = DeleteAt(list, from)
      BY <2>2, <3>1, RemoveAtIsDeleteAt
    <3>. QED  BY <2>2, <3>1, <3>2, RemoveProperties
  <2>. QED  BY <1>1, <2>3, <2>4, <2>5 DEF list, from
<1>4. d = EmitNews(y, "queueLengthChanged")
  <2>1. d = IF m.from >= c.length THEN Investigate(c, m.from)
            ELSE IF m.from < Len(c.queue) /\ c.queue[m.from + 1] # m.id
            THEN SendFetch([c EXCEPT !.length = @ - 1], m.from, 1)
            ELSE EmitNews(y, "queueLengthChanged")
    BY Zenon DEF QueueEntryRemoved
  <2>2. m.from < Len(c.queue) => c.queue[m.from + 1] = m.id
    <3>. SUFFICES ASSUME m.from < Len(c.queue)
                  PROVE  c.queue[m.from + 1] = m.id
      OBVIOUS
    <3>1. m.from + 1 \in 1..Len(c.queue)
      <4>1. m.from \in Nat /\ Len(c.queue) \in Nat /\ m.from < Len(c.queue)
        BY <1>1, <1>2
      <4>. QED  BY ONLY <4>1
    <3>2. c.queue[m.from + 1] = s[m.from + 1]
      BY <1>2, <3>1 DEF FrontOf
    <3>. QED  BY <1>1, <3>2
  <2>3. ~ m.from >= c.length
    BY <1>1, <1>2
  <2>. HIDE DEF y, d
  <2>. QED  BY <2>1, <2>2, <2>3
<1>5. length \in Nat /\ length = Len(m.state)
  BY <1>1, <1>2, <1>3
<1>. HIDE DEF length, new
<1>6. /\ removed \in Monitors /\ removed.created = c.created /\ removed.known = c.known
      /\ removed.length = length /\ removed.queue = new /\ removed.requested = c.requested
  BY <1>2, <1>3, <1>5, Zenon DEF Monitors
<1>. HIDE DEF removed
<1>7. x \in Monitors /\ x.created = c.created /\ x.known = c.known /\ InStep(x, m.state)
  <2>1. CASE m.from < c.requested
    <3>1. x = FetchMore(fewer)
      BY <2>1
    <3>. DEFINE n == removed.requested - 1
    <3>2. fewer = [removed EXCEPT !.requested = n] /\ n \in Nat
      BY <1>1, <1>2, <1>6, <2>1
    <3>. HIDE DEF n, x
    <3>3. Kept(removed, fewer)
      BY <1>6, <3>2, RequestedIsKept
    <3>. HIDE DEF fewer
    <3>4. fewer \in Monitors /\ FrontOf(fewer.queue, m.state) /\ fewer.length = Len(m.state)
      BY <1>3, <1>5, <1>6, <3>3 DEF Kept
    <3>5. m.state \in Seq(Nat)
      BY DEF Follows, ClientMessage
    <3>. QED  BY <1>6, <3>1, <3>3, <3>4, <3>5, MoreIsInStep DEF Kept, InStep
  <2>2. CASE ~ m.from < c.requested
    <3>1. x = removed
      BY <2>2
    <3>2. Asking(removed)
      <4>1. CASE c.requested > 0
        BY <1>6, <4>1 DEF Asking
      <4>2. CASE ~ c.requested > 0
        <5>1. Len(c.queue) = c.length
          BY <1>2, <4>2 DEF Asking
        <5>. QED  BY <1>1, <1>2, <1>3, <1>5, <1>6, <5>1 DEF Asking
      <4>. QED  BY <4>1, <4>2
    <3>. HIDE DEF x
    <3>. QED  BY <1>3, <1>5, <1>6, <3>1, <3>2 DEF InStep
  <2>. QED  BY <2>1, <2>2
<1>. HIDE DEF x
<1>8. Kept(x, y) /\ y.requested = x.requested
  <2>1. Nowhere \in Int /\ m.from \in Int /\ <<m.id>> \in Seq(Nat)
    BY <1>1 DEF Nowhere
  <2>. QED  BY <1>7, <2>1, EmissionIsKept
<1>. HIDE DEF y
<1>9. Kept(y, d) /\ d.requested = y.requested
  <2>1. y \in Monitors
    BY <1>8 DEF Kept
  <2>. HIDE DEF d
  <2>. QED  BY <1>4, <2>1, NewsIsKept
<1>. HIDE DEF d
<1>10. Kept(x, d) /\ Asking(d)
  BY <1>7, <1>8, <1>9 DEF Kept, Asking, InStep
<1>11. InStep(d, m.state) /\ d.known = x.known /\ d.created = x.created
  BY <1>7, <1>10, StaysInStep
<1>. QED  BY <1>7, <1>11 DEF d
(* An entry moves; it can leave the known part of the queue, or enter it.  *)
LEMMA InsertedLength ==
    ASSUME NEW list \in Seq(Nat), NEW index \in 0..Len(list), NEW id \in Nat
    PROVE  Len(Insert(list, index, id)) = Len(list) + 1
  BY InsertProperties, Zenon

KnownAfterMove(list, from, to, id) ==
    LET without == IF from < Len(list) THEN RemoveAt(list, from + 1) ELSE list
    IN  IF to <= Len(without) THEN InsertAt(without, to + 1, id) ELSE without

LEMMA FrontMove ==
    ASSUME NEW list \in Seq(Nat), NEW s \in Seq(Nat), FrontOf(list, s),
           NEW from \in 0..Len(s) - 1, NEW to \in 0..Len(s) - 1, NEW id \in Nat
    PROVE  /\ KnownAfterMove(list, from, to, id) \in Seq(Nat)
           /\ FrontOf(KnownAfterMove(list, from, to, id),
                      Insert(DeleteAt(s, from), to, id))
           /\ Len(Insert(DeleteAt(s, from), to, id)) = Len(s)
           /\ \/ Len(KnownAfterMove(list, from, to, id)) = Len(list)
              \/ /\ Len(list) < Len(s)
                 /\ Len(KnownAfterMove(list, from, to, id)) \in {Len(list) - 1, Len(list) + 1}
<1>. DEFINE rest == DeleteAt(s, from)
            after == Insert(rest, to, id)
            without == IF from < Len(list) THEN RemoveAt(list, from + 1) ELSE list
            with == IF to <= Len(without) THEN InsertAt(without, to + 1, id) ELSE without
<1>1. /\ Len(list) \in Nat /\ Len(s) \in Nat /\ Len(list) <= Len(s)
      /\ from \in Nat /\ to \in Nat /\ from < Len(s) /\ to < Len(s)
  BY LenProperties DEF FrontOf
<1>2. without = IF from < Len(list) THEN RemoveAt(list, from + 1) ELSE list
  OBVIOUS
<1>3. with = IF to <= Len(without) THEN InsertAt(without, to + 1, id) ELSE without
  OBVIOUS
<1>. HIDE DEF without, with
<1>4. /\ without \in Seq(Nat) /\ FrontOf(without, rest) /\ rest \in Seq(Nat)
      /\ Len(rest) = Len(s) - 1
  BY <1>2, FrontDelete
<1>5. ASSUME from < Len(list)
      PROVE  Len(without) = Len(list) - 1
  <2>1. without = RemoveAt(list, from + 1) /\ from \in 0..Len(list) - 1
    BY <1>1, <1>2, <1>5
  <2>2. without = DeleteAt(list, from)
    BY <2>1, RemoveAtIsDeleteAt
  <2>. QED  BY <2>1, <2>2, RemoveProperties
<1>. HIDE DEF rest
<1>6. to \in 0..Len(rest) /\ Len(without) \in Nat
  BY <1>1, <1>4, LenProperties
<1>7. with \in Seq(Nat) /\ FrontOf(with, after)
  BY <1>3, <1>4, <1>6, FrontInsert
<1>8. Len(after) = Len(s)
  <2>1. Len(after) = Len(rest) + 1
    BY <1>4, <1>6, InsertedLength
  <2>. HIDE DEF after
  <2>. QED  BY <1>1, <1>4, <2>1
<1>9. ASSUME to <= Len(without)
      PROVE  Len(with) = Len(without) + 1
  <2>1. with = InsertAt(without, to + 1, id) /\ to \in 0..Len(without)
    BY <1>1, <1>3, <1>6, <1>9
  <2>2. with = Insert(without, to, id)
    BY <1>4, <2>1, InsertAtIsInsert
  <2>. QED  BY <1>4, <2>1, <2>2, InsertedLength
<1>10. \/ Len(with) = Len(list)
       \/ Len(list) < Len(s) /\ Len(with) \in {Len(list) - 1, Len(list) + 1}
  <2>1. CASE from < Len(list) /\ to <= Len(without)
    BY <1>1, <1>5, <1>9, <2>1
  <2>2. CASE from < Len(list) /\ ~ to <= Len(without)
    <3>1. Len(with) = Len(without)
      BY <1>3, <2>2
    <3>2. Len(without) = Len(list) - 1
      BY <1>5, <2>2
    <3>3. ~ to <= Len(list) - 1
      BY <2>2, <3>2
    <3>. QED  BY ONLY <1>1, <3>1, <3>2, <3>3
  <2>3. CASE ~ from < Len(list) /\ to <= Len(without)
    <3>1. without = list
      BY <1>2, <2>3
    <3>2. Len(with) = Len(list) + 1
      BY <1>9, <2>3, <3>1
    <3>. QED  BY <1>1, <2>3, <3>2
  <2>4. CASE ~ from < Len(list) /\ ~ to <= Len(without)
    BY <1>2, <1>3, <2>4
  <2>. QED  BY <2>1, <2>2, <2>3, <2>4
<1>11. with = KnownAfterMove(list, from, to, id)
  BY <1>2, <1>3 DEF KnownAfterMove
<1>. QED  BY <1>7, <1>8, <1>10, <1>11 DEF rest, after

LEMMA MovedInStep ==
    ASSUME NEW s \in Seq(Nat), NEW m, Follows(s, m), m.type = "entryMoved",
           NEW c, InStep(c, s)
    PROVE  /\ InStep(QueueEntryMoved(c, m), m.state)
           /\ QueueEntryMoved(c, m).known = c.known
           /\ QueueEntryMoved(c, m).created = c.created
<1>. DEFINE without == IF m.from < Len(c.queue) THEN RemoveAt(c.queue, m.from + 1) ELSE c.queue
            with == IF m.to <= Len(without) THEN InsertAt(without, m.to + 1, m.id) ELSE without
            diff == Len(with) - Len(c.queue)
            moved == [c EXCEPT !.queue = with, !.requested = @ + diff]
            x == IF diff < 0 THEN FetchMore(moved) ELSE moved
            d == QueueEntryMoved(c, m)
<1>1. /\ m.from \in 0..Len(s) - 1 /\ m.to \in 0..Len(s) - 1 /\ m.id \in Nat
      /\ m.state = Insert(DeleteAt(s, m.from), m.to, m.id) /\ m.state \in Seq(Nat)
      /\ m.id = s[m.from + 1] /\ Len(s) \in Nat /\ m.from \in Nat /\ m.from < Len(s)
      /\ m.to \in Nat /\ m.to < Len(s)
  BY LenProperties DEF Follows, ClientMessage
<1>2. /\ c \in Monitors /\ FrontOf(c.queue, s) /\ c.length = Len(s) /\ Asking(c)
      /\ c.queue \in Seq(Nat) /\ Len(c.queue) \in Nat /\ c.requested \in Nat
  BY FieldTypes, LenProperties DEF InStep
<1>3. /\ with \in Seq(Nat) /\ FrontOf(with, m.state) /\ Len(m.state) = Len(s)
      /\ diff \in Int /\ (diff = 0 \/ (diff \in {-1, 1} /\ Len(c.queue) < Len(s)))
  <2>. DEFINE list == c.queue
              from == m.from
              to == m.to
              id == m.id
              after == Insert(DeleteAt(s, from), to, id)
  <2>1. /\ list \in Seq(Nat) /\ FrontOf(list, s) /\ id \in Nat
        /\ from \in 0..Len(s) - 1 /\ to \in 0..Len(s) - 1
        /\ Len(list) \in Nat
    BY <1>1, <1>2
  <2>2. with = KnownAfterMove(list, from, to, id)
    BY DEF KnownAfterMove
  <2>. HIDE DEF d, x, moved, without, with, list, from, to, id
  <2>3. with \in Seq(Nat) /\ FrontOf(with, after)
    BY <2>1, <2>2, FrontMove
  <2>4. Len(after) = Len(s)
    BY <2>1, FrontMove, ZenonT(40)
  <2>5. \/ Len(with) = Len(list)
        \/ Len(list) < Len(s) /\ Len(with) \in {Len(list) - 1, Len(list) + 1}
    BY <2>1, <2>2, FrontMove
  <2>6. diff \in Int /\ (diff = 0 \/ (diff \in {-1, 1} /\ Len(list) < Len(s)))
    BY ONLY <2>1, <2>5 DEF diff, list
  <2>. QED  BY <1>1, <2>3, <2>4, <2>6 DEF list, from, to, id
<1>4. d = Emit(x, "trackMoved", m.from, m.to, <<m.id>>)
  <2>1. d = IF m.from >= c.length THEN Investigate(c, m.from)
            ELSE IF m.to >= c.length THEN Investigate(c, m.to)
            ELSE IF m.from < Len(c.queue) /\ c.queue[m.from + 1] # m.id
            THEN SendFetch(c, m.from, 1)
            ELSE Emit(x, "trackMoved", m.from, m.to, <<m.id>>)
    BY Zenon DEF QueueEntryMoved
  <2>2. m.from < Len(c.queue) => c.queue[m.from + 1] = m.id
    <3>. SUFFICES ASSUME m.from < Len(c.queue)
                  PROVE  c.queue[m.from + 1] = m.id
      OBVIOUS
    <3>1. m.from + 1 \in 1..Len(c.queue)
      <4>1. m.from \in Nat /\ Len(c.queue) \in Nat /\ m.from < Len(c.queue)
        BY <1>1, <1>2
      <4>. QED  BY ONLY <4>1
    <3>2. c.queue[m.from + 1] = s[m.from + 1]
      BY <1>2, <3>1 DEF FrontOf
    <3>. QED  BY <1>1, <3>2
  <2>3. ~ m.from >= c.length /\ ~ m.to >= c.length
    BY <1>1, <1>2
  <2>. HIDE DEF x, d
  <2>. QED  BY <2>1, <2>2, <2>3
<1>. DEFINE n == c.requested + diff
<1>. HIDE DEF with, without
<1>5. n \in Nat
  <2>1. diff < 0 => c.requested > 0
    BY <1>2, <1>3 DEF Asking
  <2>. HIDE DEF diff
  <2>. QED  BY <1>2, <1>3, <2>1
<1>6. /\ moved \in Monitors /\ moved.created = c.created /\ moved.known = c.known
      /\ moved.length = c.length /\ moved.queue = with /\ moved.requested = n
  <2>1. moved = [c EXCEPT !.queue = with, !.requested = n]
    BY Zenon
  <2>. HIDE DEF moved, n, diff
  <2>2. /\ [c EXCEPT !.queue = with, !.requested = n] \in Monitors
        /\ [c EXCEPT !.queue = with, !.requested = n].created = c.created
        /\ [c EXCEPT !.queue = with, !.requested = n].known = c.known
        /\ [c EXCEPT !.queue = with, !.requested = n].length = c.length
        /\ [c EXCEPT !.queue = with, !.requested = n].queue = with
        /\ [c EXCEPT !.queue = with, !.requested = n].requested = n
    BY <1>2, <1>3, <1>5, Zenon DEF Monitors
  <2>. QED  BY <2>1, <2>2
<1>. HIDE DEF moved
<1>7. x.created = c.created /\ x.known = c.known /\ InStep(x, m.state)
  <2>1. CASE diff < 0
    <3>1. x = FetchMore(moved)
      BY <2>1
    <3>2. moved \in Monitors /\ FrontOf(moved.queue, m.state) /\ moved.length = Len(m.state)
      BY <1>2, <1>3, <1>6
    <3>. HIDE DEF x
    <3>. QED  BY <1>1, <1>6, <3>1, <3>2, MoreIsInStep
  <2>2. CASE ~ diff < 0
    <3>1. x = moved
      BY <2>2
    <3>2. Asking(moved)
      <4>1. CASE c.requested > 0
        <5>. HIDE DEF diff
        <5>. QED  BY <1>2, <1>3, <1>6, <2>2, <4>1 DEF Asking, n
      <4>2. CASE ~ c.requested > 0
        <5>1. Len(c.queue) = c.length
          BY <1>2, <4>2 DEF Asking
        <5>. QED  BY <1>2, <1>3, <1>6, <5>1 DEF Asking
      <4>. QED  BY <4>1, <4>2
    <3>. HIDE DEF x
    <3>. QED  BY <1>2, <1>3, <1>6, <3>1, <3>2 DEF InStep
  <2>. QED  BY <2>1, <2>2
<1>. HIDE DEF x
<1>8. Kept(x, d) /\ d.requested = x.requested
  <2>. DEFINE from == m.from
              to == m.to
              ids == <<m.id>>
  <2>1. /\ x \in Monitors /\ from \in Int /\ to \in Int /\ ids \in Seq(Nat)
        /\ d = Emit(x, "trackMoved", from, to, ids)
    BY <1>1, <1>4, <1>7 DEF InStep
  <2>. HIDE DEF from, to, ids, d
  <2>. QED  BY <2>1, EmissionIsKept
<1>. HIDE DEF d
<1>9. Asking(d)
  BY <1>7, <1>8 DEF Kept, Asking, InStep
<1>10. InStep(d, m.state) /\ d.known = x.known /\ d.created = x.created
  BY <1>7, <1>8, <1>9, StaysInStep
<1>. QED  BY <1>7, <1>10 DEF d
LEMMA HandleIsOneOf ==
    ASSUME NEW c, NEW m
    PROVE  /\ m.type = "contents" => Handle(c, m) = ReceivedQueueContents(c, m)
           /\ m.type = "entryAdded" => Handle(c, m) = QueueEntryAdded(c, m)
           /\ m.type = "entryRemoved" => Handle(c, m) = QueueEntryRemoved(c, m)
           /\ m.type = "entryMoved" => Handle(c, m) = QueueEntryMoved(c, m)
<1>1. ASSUME m.type = "contents"
      PROVE  Handle(c, m) = ReceivedQueueContents(c, m)
  BY <1>1, Zenon DEF Handle
<1>2. ASSUME m.type = "entryAdded"
      PROVE  Handle(c, m) = QueueEntryAdded(c, m)
  BY <1>2, Zenon DEF Handle
<1>3. ASSUME m.type = "entryRemoved"
      PROVE  Handle(c, m) = QueueEntryRemoved(c, m)
  BY <1>3, Zenon DEF Handle
<1>4. ASSUME m.type = "entryMoved"
      PROVE  Handle(c, m) = QueueEntryMoved(c, m)
  BY <1>4, Zenon DEF Handle
<1>. QED  BY <1>1, <1>2, <1>3, <1>4

LEMMA MessageTypes ==
    ASSUME NEW s, NEW m, Follows(s, m)
    PROVE  /\ m.type \in {"contents", "entryAdded", "entryRemoved", "entryMoved"}
           /\ m.state \in Seq(Nat)
  BY DEF Follows, ClientMessage

(* Monitor d, which comes after monitor c, knows the length of the queue.  *)
Informed(c, d) == d.known = TRUE /\ d.created = c.created

(* A monitor that is in step stays in step with the next state.            *)
LEMMA HandledInStep ==
    ASSUME NEW s \in Seq(Nat), NEW m, Follows(s, m), NEW c, InStep(c, s), Informed(c, c)
    PROVE  InStep(Handle(c, m), m.state) /\ Informed(c, Handle(c, m))
<1>0. c.known = TRUE
  BY DEF Informed
<1>1. CASE m.type = "contents"
  <2>1. m.state = s
    BY <1>1 DEF Follows
  <2>2. c \in Monitors /\ FrontOf(c.queue, s) /\ Asking(c) /\ c.length = Len(s)
    BY DEF InStep
  <2>3. Handle(c, m) = ReceivedQueueContents(c, m)
    BY <1>1, HandleIsOneOf
  <2>4. c.length = Len(s) \/ c.requested > 0
    BY <2>2
  <2>5. InStep(ReceivedQueueContents(c, m), s)
    BY <1>1, <2>2, <2>4, ContentsInStep
  <2>6. /\ ReceivedQueueContents(c, m).known = TRUE
        /\ ReceivedQueueContents(c, m).created = c.created
    BY <1>1, <2>2, <2>4, ContentsInStep, Zenon
  <2>. QED  BY <2>1, <2>3, <2>5, <2>6 DEF Informed
<1>2. CASE m.type = "entryAdded"
  BY <1>0, <1>2, HandleIsOneOf, AddedInStep DEF Informed
<1>3. CASE m.type = "entryRemoved"
  BY <1>0, <1>3, HandleIsOneOf, RemovedInStep DEF Informed
<1>4. CASE m.type = "entryMoved"
  BY <1>0, <1>4, HandleIsOneOf, MovedInStep DEF Informed
<1>. QED  BY <1>1, <1>2, <1>3, <1>4, MessageTypes

(* Before the first contents: the monitor knows nothing, or it has taken   *)
(* over one entry that was added at the front of what it took for an empty *)
(* queue.                                                                  *)
Blank(c) ==
    /\ c \in Monitors /\ c.known = FALSE
    /\ c.queue = << >> /\ c.length = 0 /\ c.requested > 0

Single(c) ==
    /\ c \in Monitors /\ c.known = FALSE
    /\ Len(c.queue) = 1 /\ c.length = 1 /\ c.requested > 0

LEMMA FirstContents ==
    ASSUME NEW s \in Seq(Nat), NEW m, Follows(s, m), m.type = "contents",
           NEW c, Blank(c) \/ (Single(c) /\ FrontOf(c.queue, s))
    PROVE  InStep(Handle(c, m), m.state) /\ Informed(c, Handle(c, m))
<1>1. m.state = s
  BY DEF Follows
<1>2. c \in Monitors /\ c.requested > 0
  BY DEF Blank, Single
<1>3. FrontOf(c.queue, s) /\ Asking(c)
  BY <1>2, EmptyFront DEF Blank, Single, Asking
<1>4. Handle(c, m) = ReceivedQueueContents(c, m)
  BY HandleIsOneOf
<1>5. c.length = Len(s) \/ c.requested > 0
  BY <1>2
<1>6. InStep(ReceivedQueueContents(c, m), s)
  BY <1>2, <1>3, <1>5, ContentsInStep
<1>7. /\ ReceivedQueueContents(c, m).known = TRUE
      /\ ReceivedQueueContents(c, m).created = c.created
  BY <1>2, <1>3, <1>5, ContentsInStep, Zenon
<1>. QED  BY <1>1, <1>4, <1>6, <1>7 DEF Informed

LEMMA BlankInvestigates ==
    ASSUME NEW c, Blank(c), NEW index \in Nat
    PROVE  Blank(Investigate(c, index)) /\ Investigate(c, index).created = c.created
<1>1. CASE index > 0
  <2>1. Investigate(c, index) = SendFetch(c, c.length, 1)
    BY <1>1 DEF Investigate
  <2>2. c \in Monitors /\ c.length \in Nat /\ 1 \in Nat
    BY FieldTypes DEF Blank
  <2>3. /\ Kept(c, SendFetch(c, c.length, 1))
        /\ SendFetch(c, c.length, 1).requested = c.requested
    BY <2>2, FetchIsKept
  <2>. QED  BY <2>1, <2>3 DEF Kept, Blank
<1>2. CASE ~ index > 0
  BY <1>2 DEF Investigate
<1>. QED  BY <1>1, <1>2

LEMMA EarlyEvent ==
    ASSUME NEW s \in Seq(Nat), NEW m, Follows(s, m), m.type # "contents",
           NEW c, Blank(c)
    PROVE  /\ Handle(c, m).created = c.created
           /\ \/ Blank(Handle(c, m))
              \/ Single(Handle(c, m)) /\ FrontOf(Handle(c, m).queue, m.state)
<1>1. c \in Monitors /\ c.length = 0 /\ c.queue = << >> /\ c.requested \in Nat /\ c.requested > 0
  BY FieldTypes DEF Blank
<1>2. CASE m.type = "entryAdded"
  <2>1. /\ m.to \in Nat /\ m.to \in 0..Len(s) /\ m.id \in Nat
        /\ m.state = Insert(s, m.to, m.id) /\ Handle(c, m) = QueueEntryAdded(c, m)
    BY <1>2, HandleIsOneOf, LenProperties DEF Follows, ClientMessage
  <2>2. CASE m.to > 0
    <3>1. QueueEntryAdded(c, m) = Investigate(c, m.to)
      BY <1>1, <2>1, <2>2 DEF QueueEntryAdded
    <3>. QED  BY <2>1, <3>1, BlankInvestigates
  <2>3. CASE m.to = 0
    <3>. DEFINE list == c.queue
                to == m.to
                id == m.id
                new == IF to <= Len(list) THEN InsertAt(list, to + 1, id) ELSE list
                d == QueueEntryAdded(c, m)
    <3>1. /\ list \in Seq(Nat) /\ Len(list) = 0 /\ FrontOf(list, s)
          /\ to \in 0..Len(s) /\ to = 0 /\ id \in Nat
      BY <1>1, <2>1, <2>3, EmptyFront
    <3>2. new = IF to <= Len(list) THEN InsertAt(list, to + 1, id) ELSE list
      OBVIOUS
    <3>. HIDE DEF list, to, id, new, d
    <3>3. new \in Seq(Nat) /\ FrontOf(new, Insert(s, to, id))
      BY <3>1, <3>2, FrontInsert
    <3>4. Len(new) = 1
      <4>1. new = InsertAt(list, to + 1, id) /\ to \in 0..Len(list)
        BY <3>1, <3>2
      <4>2. new = Insert(list, to, id)
        BY <3>1, <4>1, InsertAtIsInsert
      <4>3. Len(Insert(list, to, id)) = Len(list) + 1
        BY <3>1, <4>1, InsertedLength
      <4>. QED  BY <3>1, <4>2, <4>3
    <3>5. /\ d \in Monitors /\ d.created = c.created /\ d.known = c.known
          /\ d.length = c.length + 1 /\ d.queue = new
          /\ d.requested = IF m.to < c.requested THEN c.requested + 1 ELSE c.requested
      <4>1. new = IF m.to <= Len(c.queue) THEN InsertAt(c.queue, m.to + 1, m.id) ELSE c.queue
        BY <3>2 DEF list, to, id
      <4>2. m.to <= c.length /\ d = QueueEntryAdded(c, m)
        BY <1>1, <2>3 DEF d
      <4>3. new = ListWith(c, m)
        BY <4>1, Zenon DEF ListWith
      <4>4. HasAdded(c, m, d)
        BY <1>1, <2>1, <3>3, <4>2, <4>3, AddedEntry
      <4>. QED  BY <4>3, <4>4, Zenon DEF HasAdded
    <3>6. Single(d)
      BY <1>1, <2>3, <3>4, <3>5 DEF Single, Blank
    <3>. QED  BY <2>1, <3>3, <3>5, <3>6 DEF to, id, d
  <2>. QED  BY <2>1, <2>2, <2>3
<1>3. CASE m.type = "entryRemoved"
  <2>1. /\ m.from \in Nat /\ Handle(c, m) = QueueEntryRemoved(c, m)
    BY <1>3, HandleIsOneOf, LenProperties DEF Follows
  <2>2. QueueEntryRemoved(c, m) = Investigate(c, m.from)
    <3>1. m.from >= c.length
      BY <1>1, <2>1
    <3>. QED  BY <3>1, Zenon DEF QueueEntryRemoved
  <2>. QED  BY <2>1, <2>2, BlankInvestigates
<1>4. CASE m.type = "entryMoved"
  <2>1. /\ m.from \in Nat /\ Handle(c, m) = QueueEntryMoved(c, m)
    BY <1>4, HandleIsOneOf, LenProperties DEF Follows
  <2>2. QueueEntryMoved(c, m) = Investigate(c, m.from)
    <3>1. m.from >= c.length
      BY <1>1, <2>1
    <3>. QED  BY <3>1, Zenon DEF QueueEntryMoved
  <2>. QED  BY <2>1, <2>2, BlankInvestigates
<1>. QED  BY <1>2, <1>3, <1>4, MessageTypes


-----------------------------------------------------------------------------
(* Requests on their way to the server, and the answer to a fetch.         *)

RequestOK(r) ==
    /\ r.type = "fetch" => r \in Fetches
    /\ r.type = "move" => r.diff \in Int

(* A list of requests: those of the user carry an ID of some kind.         *)
RequestList(list) == \E S : list \in Seq(S) /\ \A r \in S : RequestOK(r)

LEMMA NoRequests == RequestList(<< >>)
<1>1. << >> \in Seq(Fetches)
  OBVIOUS
<1>2. \A r \in Fetches : RequestOK(r)
  BY DEF RequestOK, Fetches
<1>. QED  BY <1>1, <1>2, Zenon DEF RequestList

LEMMA AskForMore ==
    ASSUME NEW list, RequestList(list), NEW fetches \in Seq(Fetches)
    PROVE  /\ RequestList(list \o fetches)
           /\ list # << >> => list \o fetches # << >> /\ Head(list \o fetches) = Head(list)
           /\ list = << >> => list \o fetches = fetches
<1>1. PICK S : list \in Seq(S) /\ \A r \in S : RequestOK(r)
  BY DEF RequestList
<1>. DEFINE T == S \cup Fetches
<1>2. \A r \in T : RequestOK(r)
  BY <1>1 DEF RequestOK, Fetches
<1>. HIDE DEF T
<1>3. S \subseteq T /\ Fetches \subseteq T
  BY DEF T
<1>4. list \in Seq(T) /\ fetches \in Seq(T)
  BY <1>1, <1>3
<1>5. /\ list \o fetches \in Seq(T)
      /\ \A i \in 1..Len(list) : (list \o fetches)[i] = list[i]
      /\ Len(list \o fetches) = Len(list) + Len(fetches)
  BY <1>4, ConcatPlaces
<1>6. ASSUME list # << >>
      PROVE  list \o fetches # << >> /\ Head(list \o fetches) = Head(list)
  <2>1. Len(list) \in Nat \ {0} /\ Len(fetches) \in Nat
    BY <1>4, <1>6, EmptySeq, LenProperties
  <2>2. 1 \in 1..Len(list) /\ Len(list \o fetches) # 0
    BY <1>5, <2>1
  <2>3. list \o fetches # << >>
    BY <2>2, EmptySeq
  <2>. DEFINE all == list \o fetches
  <2>4. all \in Seq(T) /\ all[1] = list[1] /\ all # << >>
    BY <1>5, <2>2, <2>3
  <2>. HIDE DEF all
  <2>5. Head(all) = all[1] /\ Head(list) = list[1]
    BY <1>4, <1>6, <2>4
  <2>. QED  BY <2>3, <2>4, <2>5 DEF all
<1>7. ASSUME list = << >>
      PROVE  list \o fetches = fetches
  BY <1>7, <1>4, ConcatEmptySeq
<1>. QED  BY <1>2, <1>5, <1>6, <1>7 DEF RequestList

LEMMA AskAlso ==
    ASSUME NEW list, RequestList(list), NEW request, RequestOK(request)
    PROVE  /\ RequestList(Append(list, request))
           /\ Append(list, request) # << >>
           /\ list # << >> => Head(Append(list, request)) = Head(list)
<1>1. PICK S : list \in Seq(S) /\ \A r \in S : RequestOK(r)
  BY DEF RequestList
<1>. DEFINE T == S \cup {request}
            longer == Append(list, request)
<1>2. \A r \in T : RequestOK(r)
  BY <1>1
<1>3. request \in T /\ list \in Seq(T)
  BY <1>1
<1>. HIDE DEF T
<1>4. /\ longer \in Seq(T) /\ Len(longer) = Len(list) + 1 /\ Len(list) \in Nat
      /\ \A i \in 1..Len(list) : longer[i] = list[i]
  BY <1>3, AppendProperties, LenProperties
<1>. HIDE DEF longer
<1>5. longer # << >>
  BY <1>4, EmptySeq
<1>6. ASSUME list # << >> PROVE Head(longer) = Head(list)
  <2>1. Len(list) # 0
    BY <1>3, <1>6, EmptySeq
  <2>2. 1 \in 1..Len(list)
    BY <1>4, <2>1
  <2>3. Head(longer) = longer[1] /\ Head(list) = list[1]
    BY <1>3, <1>4, <1>5, <1>6
  <2>. QED  BY <1>4, <2>2, <2>3
<1>. QED  BY <1>2, <1>4, <1>5, <1>6 DEF RequestList, longer

LEMMA OtherRequests ==
    ASSUME NEW list, RequestList(list), list # << >>
    PROVE  RequestList(Tail(list)) /\ RequestOK(Head(list))
<1>1. PICK S : list \in Seq(S) /\ \A r \in S : RequestOK(r)
  BY DEF RequestList
<1>2. Tail(list) \in Seq(S) /\ Head(list) \in S
  BY <1>1, HeadTailProperties
<1>. QED  BY <1>1, <1>2 DEF RequestList

LEMMA SmallerOfTwo ==
    ASSUME NEW a \in Nat, NEW b \in Nat
    PROVE  Min({a, b}) \in Nat /\ Min({a, b}) <= a /\ Min({a, b}) <= b
<1>1. \E x \in {a, b} : \A y \in {a, b} : x =< y
  OBVIOUS
<1>2. Min({a, b}) \in {a, b} /\ \A y \in {a, b} : Min({a, b}) =< y
  BY <1>1 DEF Min
<1>. QED  BY <1>2

(* The server answers with a part of its queue.                            *)
LEMMA ContentsFollow ==
    ASSUME QueueInv, NEW request \in Fetches
    PROVE  /\ QueueContents(request) \in ClientMessage
           /\ QueueContents(request).type = "contents"
           /\ QueueContents(request).state = QueueIds
           /\ Follows(QueueIds, QueueContents(request))
<1>. DEFINE s == QueueIds
            start == request.start
            end == Min({start + request.count, Len(queue)})
            ids == SubSeq(s, start + 1, end)
            m == QueueContents(request)
<1>1. s \in Seq(Nat) /\ Len(s) = Len(queue) /\ Len(queue) \in Nat
  BY QueueIdsAreIds DEF QueueInv, QueueTypeOK
<1>2. start \in Nat /\ request.count \in Nat
  BY DEF Fetches
<1>3. end \in Nat /\ end <= Len(s)
  <2>1. start + request.count \in Nat /\ Len(queue) \in Nat
    BY <1>1, <1>2
  <2>2. end \in Nat /\ end <= Len(queue)
    BY <2>1, SmallerOfTwo
  <2>. QED  BY <1>1, <2>2
<1>4. m = [type |-> "contents", from |-> start, to |-> Len(queue), id |-> 0,
           ids |-> ids, state |-> s]
  BY DEF QueueContents, Message, NoQueueId
<1>. HIDE DEF s, start, end, m
<1>5. \A i \in start + 1..end : s[i] \in Nat
  <2>. TAKE i \in start + 1..end
  <2>1. i \in 1..Len(s)
    BY <1>1, <1>2, <1>3
  <2>. QED  BY <1>1, <2>1, ElementOfSeq
<1>6. /\ ids \in Seq(Nat)
      /\ Len(ids) = IF start + 1 <= end THEN end - (start + 1) + 1 ELSE 0
      /\ \A i \in 1..end - (start + 1) + 1 : ids[i] = s[(start + 1) + i - 1]
  BY <1>2, <1>3, <1>5, SubSeqProperties
<1>. HIDE DEF ids
<1>7. ASSUME NEW i \in 1..Len(ids)
      PROVE  start + i <= Len(s) /\ ids[i] = s[start + i]
  <2>1. i \in 1..end - (start + 1) + 1 /\ start + i <= end /\ (start + 1) + i - 1 = start + i
    BY <1>2, <1>3, <1>6
  <2>2. start + i <= Len(s)
    BY <1>1, <1>2, <1>3, <2>1
  <2>3. ids[i] = s[(start + 1) + i - 1]
    BY <1>6, <2>1
  <2>. QED  BY <2>1, <2>2, <2>3
<1>8. m \in ClientMessage
  BY <1>1, <1>2, <1>4, <1>6 DEF ClientMessage
<1>9. Follows(s, m)
  BY <1>1, <1>2, <1>4, <1>7, <1>8 DEF Follows
<1>. QED  BY <1>4, <1>8, <1>9 DEF s, m

-----------------------------------------------------------------------------
(* The monitor after its requests and signals have been delivered.         *)

Delivered(c) == [c EXCEPT !.requests = << >>, !.signals = << >>]

LEMMA DeliveredIsKept ==
    ASSUME NEW c \in Monitors
    PROVE  Kept(c, Delivered(c)) /\ Delivered(c).requested = c.requested
<1>. DEFINE d == [c EXCEPT !.requests = << >>, !.signals = << >>]
<1>1. << >> \in Seq(Fetches) /\ << >> \in Seq(Emissions)
  OBVIOUS
<1>2. /\ d \in Monitors /\ d.created = c.created /\ d.queue = c.queue
      /\ d.length = c.length /\ d.known = c.known /\ d.requested = c.requested
  BY <1>1, Zenon DEF Monitors
<1>. QED  BY <1>2 DEF Kept, Delivered

LEMMA DeliveredInStep ==
    ASSUME NEW c, NEW s, InStep(c, s)
    PROVE  /\ InStep(Delivered(c), s)
           /\ Delivered(c).known = c.known /\ Delivered(c).created = c.created
<1>1. c \in Monitors
  BY DEF InStep
<1>2. Kept(c, Delivered(c)) /\ Delivered(c).requested = c.requested
  BY <1>1, DeliveredIsKept
<1>. QED  BY <1>2 DEF InStep, Kept, Asking

LEMMA DeliveredEarly ==
    ASSUME NEW c
    PROVE  /\ Blank(c) => Blank(Delivered(c)) /\ Delivered(c).created = c.created
           /\ Single(c) => /\ Single(Delivered(c)) /\ Delivered(c).created = c.created
                           /\ Delivered(c).queue = c.queue
<1>1. ASSUME c \in Monitors
      PROVE  Kept(c, Delivered(c)) /\ Delivered(c).requested = c.requested
  BY <1>1, DeliveredIsKept
<1>2. ASSUME Blank(c)
      PROVE  Blank(Delivered(c)) /\ Delivered(c).created = c.created
  BY <1>1, <1>2 DEF Blank, Kept
<1>3. ASSUME Single(c)
      PROVE  /\ Single(Delivered(c)) /\ Delivered(c).created = c.created
             /\ Delivered(c).queue = c.queue
  BY <1>1, <1>3 DEF Single, Kept
<1>. QED  BY <1>2, <1>3

(* The monitor is created.                                                 *)
LEMMA CreatedBlank ==
    ASSUME NEW c, c = SendInitialFetch([NotCreated EXCEPT !.created = TRUE])
    PROVE  /\ Blank(c) /\ c.created = TRUE
           /\ c.requests \in Seq(Fetches) /\ c.requests # << >>
           /\ Head(c.requests).type = "fetch"
<1>. DEFINE new == [NotCreated EXCEPT !.created = TRUE]
            length == IF Limited(new, InitialFetch) = 0 THEN 1 ELSE Limited(new, InitialFetch)
            asking == [new EXCEPT !.requested = length]
            request == FetchRequest(0, length)
<1>1. /\ NotCreated \in Monitors /\ NotCreated.queue = << >> /\ NotCreated.length = 0
      /\ NotCreated.known = FALSE /\ NotCreated.requests = << >>
  <2>1. /\ << >> \in Seq(Nat) /\ << >> \in Seq(Fetches) /\ << >> \in Seq(Emissions)
        /\ InitialFetch \in Nat \ {0}
    BY MonitorConstants
  <2>. QED  BY <2>1 DEF NotCreated, Monitors
<1>2. /\ new \in Monitors /\ new.created = TRUE /\ new.queue = << >> /\ new.length = 0
      /\ new.known = FALSE /\ new.requests = << >>
  BY <1>1, Zenon DEF Monitors
<1>. HIDE DEF new
<1>3. Kept(new, SendInitialFetch(new)) /\ SendInitialFetch(new).requested > 0
  BY <1>2, FirstFetchIsKept
<1>4. c = SendInitialFetch(new)
  BY DEF new
<1>5. Blank(c) /\ c.created = TRUE
  BY <1>2, <1>3, <1>4 DEF Kept, Blank
<1>6. c.requests = Append(<< >>, request)
  <2>1. length \in Nat
    BY <1>2, FieldTypes, MonitorConstants DEF Limited
  <2>2. c = SendFetch(asking, 0, length)
    BY <1>4, Zenon DEF SendInitialFetch
  <2>. HIDE DEF length
  <2>3. asking.requests = << >> /\ asking \in Monitors
    BY <1>2, <2>1, Zenon DEF Monitors
  <2>. HIDE DEF asking
  <2>4. c = [asking EXCEPT !.requests = Append(asking.requests, request)]
    BY <2>2, Zenon DEF SendFetch
  <2>5. c.requests = Append(asking.requests, request)
    BY <2>3, <2>4, Zenon DEF Monitors
  <2>. QED  BY <2>3, <2>5
<1>7. request.type = "fetch"
  BY DEF FetchRequest
<1>8. c.requests \in Seq(Fetches)
  BY <1>3, <1>4, FieldTypes DEF Kept
<1>. HIDE DEF request
<1>9. Append(<< >>, request) # << >> /\ Head(Append(<< >>, request)) = request
  OBVIOUS
<1>. QED  BY <1>5, <1>6, <1>7, <1>8, <1>9, Zenon

(* Looking at an entry: what the monitor knows stays the same.             *)
LEMMA FetchingGoesOn ==
    ASSUME NEW c \in Monitors, c.length > 0, c.requested > 0
    PROVE  FetchMore(c).requested > 0
<1>. DEFINE d == CheckFetchCompleted(c)
            n == d.requested + FetchBatch
            more == [d EXCEPT !.requested = n]
<1>1. d \in Monitors /\ d.length = c.length /\ d.requested = c.requested
  BY CompletionIsKept DEF Kept
<1>2. /\ d.length \in Nat /\ d.requested \in Nat /\ FetchBatch \in Nat \ {0}
  BY <1>1, FieldTypes, MonitorConstants
<1>3. FetchMore(c) = IF d.requested >= d.length THEN [d EXCEPT !.requested = d.length]
                     ELSE IF d.requested >= d.target \/ d.requested > Len(d.queue) THEN d
                     ELSE SendFetch(more, d.requested, FetchBatch)
  BY Zenon DEF FetchMore
<1>4. more = [d EXCEPT !.requested = n] /\ n \in Nat /\ n > 0 /\ FetchBatch \in Nat
  BY <1>2
<1>. HIDE DEF d, n, more
<1>5. more \in Monitors /\ more.requested = n
  BY <1>1, <1>4, RequestedIsKept DEF Kept
<1>6. SendFetch(more, d.requested, FetchBatch).requested = n
  BY <1>2, <1>4, <1>5, FetchIsKept, Zenon
<1>7. [d EXCEPT !.requested = d.length].requested = d.length
  BY <1>1, <1>2, RequestedIsKept
<1>8. CASE d.requested >= d.length
  BY <1>1, <1>3, <1>7, <1>8
<1>9. CASE ~ d.requested >= d.length
  <2>1. FetchMore(c) = d \/ FetchMore(c) = SendFetch(more, d.requested, FetchBatch)
    BY <1>3, <1>9
  <2>. QED  BY <1>1, <1>4, <1>6, <2>1
<1>. QED  BY <1>8, <1>9

LEMMA TargetIsRaised ==
    ASSUME NEW c \in Monitors, NEW n \in Nat \ {0}
    PROVE  /\ Kept(c, [c EXCEPT !.target = n])
           /\ [c EXCEPT !.target = n].requested = c.requested
<1>. DEFINE d == [c EXCEPT !.target = n]
<1>1. /\ d \in Monitors /\ d.created = c.created /\ d.queue = c.queue
      /\ d.length = c.length /\ d.known = c.known /\ d.requested = c.requested
  BY Zenon DEF Monitors
<1>. QED  BY <1>1 DEF Kept

LEMMA LookedAt ==
    ASSUME NEW c \in Monitors, Len(c.queue) <= c.length, Asking(c), NEW index
    PROVE  /\ Kept(c, GotRequestForEntry(c, index)) /\ Asking(GotRequestForEntry(c, index))
           /\ c.length > 0 /\ c.requested > 0 => GotRequestForEntry(c, index).requested > 0
<1>. DEFINE g == GotRequestForEntry(c, index)
            n == Limited(c, c.target + ExtraFetch)
            raised == [c EXCEPT !.target = n]
<1>1. g = c \/ g = FetchMore(raised)
  BY Zenon DEF GotRequestForEntry
<1>2. n \in Nat \ {0}
  BY FieldTypes, MonitorConstants DEF Limited
<1>. HIDE DEF g, n
<1>3. Kept(c, raised) /\ raised.requested = c.requested
  BY <1>2, TargetIsRaised
<1>. HIDE DEF raised
<1>4. raised \in Monitors /\ Len(raised.queue) <= raised.length /\ raised.length = c.length
  BY <1>3 DEF Kept
<1>5. Kept(raised, FetchMore(raised)) /\ Asking(FetchMore(raised))
  BY <1>4, FetchingIsKept
<1>6. ASSUME c.length > 0, c.requested > 0
      PROVE  FetchMore(raised).requested > 0
  BY <1>3, <1>4, <1>6, FetchingGoesOn
<1>7. Kept(c, c)
  BY DEF Kept
<1>8. CASE g = c
  BY <1>7, <1>8 DEF g
<1>9. CASE g = FetchMore(raised)
  <2>1. Kept(c, g) /\ Asking(g)
    BY <1>3, <1>5, <1>9 DEF Kept
  <2>. QED  BY <1>6, <1>9, <2>1 DEF g
<1>. QED  BY <1>1, <1>8, <1>9

-----------------------------------------------------------------------------
(* What happens to the queue, and what the server sends because of it.     *)

LEMMA OperationSends ==
    ASSUME QueueInv, UserOperation
    PROVE  /\ QueueInv' /\ QueueIds \in Seq(Nat)
           /\ Messages(signals') \in Seq(ClientMessage)
           /\ Chained(QueueIds, Messages(signals'), QueueIds')
           /\ \A i \in 1..Len(Messages(signals')) : Messages(signals')[i].type # "contents"
<1>1. QueueNext
  BY DEF QueueNext
<1>2. QueueInv'
  BY <1>1, QueueNextInv
<1>3. Explain(View, signals', View') /\ signals' \in Seq(Signal)
  BY <1>1, OperationsExplain
<1>4. QueueIds \in Seq(Nat)
  BY QueueIdsAreIds DEF QueueInv, QueueTypeOK
<1>5. View'.ids = QueueIds'
  BY DEF View
<1>. QED  BY <1>2, <1>3, <1>4, <1>5, MessagesLead

LEMMA QueueStaysTheSame ==
    ASSUME QueueInv, QueueStays
    PROVE  QueueInv' /\ QueueIds' = QueueIds
<1>1. << >> \in Seq(Signal)
  OBVIOUS
<1>2. QueueTypeOK'
  BY <1>1 DEF QueueStays, QueueInv, QueueTypeOK
<1>3. FirstTrackIsCached'
  BY DEF QueueStays, QueueInv, FirstTrackIsCached, firstTrack
<1>4. QueueIds' = QueueIds
  BY DEF QueueStays, QueueIds
<1>. QED  BY <1>2, <1>3, <1>4 DEF QueueInv

LEMMA MoveIsAUsers ==
    ASSUME QueueInv, NEW index \in 0..Len(queue) - 1, NEW diff \in Int,
           MoveByIndex(index, diff)
    PROVE  UserOperation
<1>1. Len(queue) \in Nat /\ index \in Nat
  BY LenProperties DEF QueueInv, QueueTypeOK
<1>2. /\ diff < 0 => index >= -diff
      /\ diff > 0 => Len(queue) - 1 - diff >= index
  BY DEF MoveByIndex
<1>3. diff \in -Len(queue)..Len(queue)
  BY <1>1, <1>2
<1>. QED  BY <1>3 DEF UserOperation

LEMMA OperationIsAUsers ==
    ASSUME QueueInv, QueueOperation
    PROVE  UserOperation
<1>0. Len(queue) \in Nat
  BY LenProperties DEF QueueInv, QueueTypeOK
<1>1. ASSUME NEW index \in 0..Len(queue), InsertAtIndex(index, "Track")
      PROVE  UserOperation
  BY <1>1 DEF UserOperation, Kinds
<1>2. ASSUME NEW index \in 0..Len(queue) - 1, RemoveAtIndex(index)
      PROVE  UserOperation
  BY <1>2 DEF UserOperation
<1>3. ASSUME NEW index \in 0..Len(queue) - 1, NEW newIndex \in 0..Len(queue) - 1,
             MoveByIndex(index, newIndex - index)
      PROVE  UserOperation
  <2>1. newIndex - index \in Int
    BY <1>0
  <2>. QED  BY <1>3, <2>1, MoveIsAUsers
<1>4. CASE Trim(TrimLength)
  BY <1>4 DEF UserOperation
<1>. QED  BY <1>1, <1>2, <1>3, <1>4 DEF QueueOperation

LEMMA RequestIsAUsers ==
    ASSUME QueueInv, NEW request, RequestOK(request), NEW i \in 1..Len(queue),
           RequestedOperation(request, i - 1)
    PROVE  UserOperation
<1>1. i - 1 \in 0..Len(queue) - 1
  BY LenProperties DEF QueueInv, QueueTypeOK
<1>2. CASE RemoveAtIndex(i - 1)
  BY <1>1, <1>2 DEF UserOperation
<1>3. CASE request.type = "move" /\ MoveByIndex(i - 1, request.diff)
  <2>1. request.diff \in Int
    BY <1>3 DEF RequestOK
  <2>. QED  BY <1>1, <1>3, <2>1, MoveIsAUsers
<1>. QED  BY <1>2, <1>3 DEF RequestedOperation

-----------------------------------------------------------------------------
(* The inductive invariant.  The list and the length of the monitor only   *)
(* stay right because of what is still on its way: messages that lead from *)
(* the queue as the client has seen it to the queue as it is.  Before the  *)
(* first contents the monitor takes the queue for an empty one; of the     *)
(* events in that time it can only cope with one.  Of a monitor that knows *)
(* the length of the queue no more is said of those events.                *)

FewAreEarly == monitor.known \/ early <= 1

ConnectionTypeOK ==
    /\ subscribed \in BOOLEAN /\ monitor \in Monitors
    /\ toClient \in Seq(ClientMessage) /\ lastSeen \in Seq(Nat)
    /\ early \in Nat /\ FewAreEarly
    /\ RequestList(toServer)

NoContents(ms) == \A i \in 1..Len(ms) : ms[i].type # "contents"

NothingIsSent == ~ subscribed => toClient = << >> /\ ~ monitor.created

NothingIsAsked ==
    ~ monitor.created => monitor = NotCreated /\ toServer = << >> /\ NoContents(toClient)

KnownIsInStep == monitor.known => InStep(monitor, lastSeen) /\ monitor.created

LittleIsKnown ==
    monitor.created /\ ~ monitor.known =>
        \/ /\ Blank(monitor)
           /\ Len(toClient) >= 2 => \/ toClient[1].type = "contents"
                                    \/ toClient[2].type = "contents"
        \/ /\ Single(monitor) /\ FrontOf(monitor.queue, lastSeen)
           /\ toClient # << >> => toClient[1].type = "contents"

FewEvents ==
    WaitsForContents =>
        /\ Len(toClient) + Len(monitor.queue) <= early
        /\ toServer # << >> /\ Head(toServer).type = "fetch"

MessagesConnect ==
    /\ monitor.known \/ monitor.queue # << >> => Chained(lastSeen, toClient, QueueIds)
    /\ subscribed => \E s \in Seq(Nat) : Chained(s, toClient, QueueIds)

ConnectionInv ==
    /\ ConnectionTypeOK /\ NothingIsSent /\ NothingIsAsked
    /\ KnownIsInStep /\ LittleIsKnown /\ FewEvents /\ MessagesConnect

ReplicationInv == QueueInv /\ ConnectionInv

-----------------------------------------------------------------------------
(* The server sends messages, possibly none.                               *)

LEMMA SendingKeepsLittleKnown ==
    ASSUME ConnectionInv, NEW ms \in Seq(ClientMessage),
           NoContents(ms) \/ ms[1].type = "contents",
           toClient' = toClient \o ms, monitor' = monitor, lastSeen' = lastSeen,
           early' \in Nat, FewAreEarly', FewEvents'
    PROVE  LittleIsKnown'
<1>. SUFFICES ASSUME monitor.created, ~ monitor.known
              PROVE  \/ /\ Blank(monitor)
                        /\ Len(toClient') >= 2 => \/ toClient'[1].type = "contents"
                                                  \/ toClient'[2].type = "contents"
                     \/ /\ Single(monitor) /\ FrontOf(monitor.queue, lastSeen)
                        /\ toClient' # << >> => toClient'[1].type = "contents"
  BY DEF LittleIsKnown
<1>1. /\ toClient \in Seq(ClientMessage) /\ early \in Nat /\ early <= 1
      /\ Len(toClient) \in Nat /\ Len(ms) \in Nat
  BY LenProperties DEF ConnectionInv, ConnectionTypeOK, FewAreEarly
<1>0. early' \in Nat /\ early' <= 1
  BY DEF FewAreEarly
<1>2. /\ toClient' \in Seq(ClientMessage)
      /\ Len(toClient') = Len(toClient) + Len(ms)
      /\ \A i \in 1..Len(toClient) : toClient'[i] = toClient[i]
      /\ \A i \in 1..Len(ms) : toClient'[Len(toClient) + i] = ms[i]
  BY <1>1, ConcatPlaces
<1>3. toClient # << >> <=> Len(toClient) > 0
  BY <1>1, EmptySeq
<1>4. toClient' # << >> => Len(toClient') > 0
  BY <1>2, EmptySeq
<1>5. \/ /\ Blank(monitor)
         /\ Len(toClient) >= 2 => \/ toClient[1].type = "contents"
                                  \/ toClient[2].type = "contents"
      \/ /\ Single(monitor) /\ FrontOf(monitor.queue, lastSeen)
         /\ toClient # << >> => toClient[1].type = "contents"
  BY DEF ConnectionInv, LittleIsKnown
<1>6. CASE NoContents(toClient')
  <2>1. Len(toClient') + Len(monitor.queue) <= early'
    BY <1>6 DEF FewEvents, WaitsForContents, NoContents
  <2>2. CASE Blank(monitor)
    <3>1. Len(monitor.queue) = 0
      BY <2>2 DEF Blank
    <3>2. ~ Len(toClient') >= 2
      BY <1>0, <1>1, <1>2, <2>1, <3>1
    <3>. QED  BY <2>2, <3>2
  <2>3. CASE Single(monitor) /\ FrontOf(monitor.queue, lastSeen)
    <3>1. Len(monitor.queue) = 1
      BY <2>3 DEF Single
    <3>2. ~ Len(toClient') > 0
      BY <1>0, <1>1, <1>2, <2>1, <3>1
    <3>. QED  BY <1>4, <2>3, <3>2
  <2>. QED  BY <1>5, <2>2, <2>3
<1>7. CASE ~ NoContents(toClient') /\ ~ NoContents(toClient)
  <2>1. PICK i \in 1..Len(toClient) : toClient[i].type = "contents"
    BY <1>7 DEF NoContents
  <2>2. Len(toClient) > 0
    BY <1>1, <2>1
  <2>3. toClient'[1] = toClient[1] /\ (Len(toClient) >= 2 => toClient'[2] = toClient[2])
    BY <1>1, <1>2, <2>2
  <2>4. Len(toClient) >= 2 \/ toClient[1].type = "contents"
    <3>1. Len(toClient) >= 2 \/ i = 1
      BY <1>1, <2>1
    <3>. QED  BY <2>1, <3>1
  <2>. QED  BY <1>3, <1>5, <2>2, <2>3, <2>4
<1>8. CASE ~ NoContents(toClient') /\ NoContents(toClient)
  <2>1. Len(toClient) + Len(monitor.queue) <= early
    BY <1>8 DEF ConnectionInv, FewEvents, WaitsForContents, NoContents
  <2>2. ms[1].type = "contents" /\ Len(ms) > 0
    <3>1. PICK i \in 1..Len(toClient') : toClient'[i].type = "contents"
      BY <1>8 DEF NoContents
    <3>2. ~ i \in 1..Len(toClient)
      BY <1>2, <1>8, <3>1 DEF NoContents
    <3>3. PICK j \in 1..Len(ms) : i = Len(toClient) + j
      <4>1. i - Len(toClient) \in 1..Len(ms) /\ i = Len(toClient) + (i - Len(toClient))
        BY <1>1, <1>2, <3>1, <3>2
      <4>. QED  BY <4>1
    <3>4. ms[j].type = "contents"
      BY <1>2, <3>1, <3>3
    <3>5. Len(ms) > 0
      BY <1>1, <3>3
    <3>. QED  BY <3>4, <3>5 DEF NoContents
  <2>3. toClient'[Len(toClient) + 1].type = "contents"
    <3>1. 1 \in 1..Len(ms)
      BY <1>1, <2>2
    <3>. QED  BY <1>2, <2>2, <3>1
  <2>4. CASE Blank(monitor)
    <3>1. Len(monitor.queue) = 0
      BY <2>4 DEF Blank
    <3>2. Len(toClient) + 1 = 1 \/ Len(toClient) + 1 = 2
      BY <1>1, <2>1, <3>1
    <3>. QED  BY <2>3, <2>4, <3>2
  <2>5. CASE Single(monitor) /\ FrontOf(monitor.queue, lastSeen)
    <3>1. Len(monitor.queue) = 1
      BY <2>5 DEF Single
    <3>2. Len(toClient) + 1 = 1
      BY <1>1, <2>1, <3>1
    <3>. QED  BY <2>3, <2>5, <3>2
  <2>. QED  BY <1>5, <2>4, <2>5
<1>. QED  BY <1>6, <1>7, <1>8

LEMMA SendingKeepsInv ==
    ASSUME ConnectionInv, QueueIds \in Seq(Nat), subscribed,
           NEW ms \in Seq(ClientMessage), Chained(QueueIds, ms, QueueIds'),
           NoContents(ms) \/ ms[1].type = "contents",
           toClient' = toClient \o ms,
           subscribed' = subscribed, monitor' = monitor, lastSeen' = lastSeen,
           early' \in Nat, FewAreEarly', RequestList(toServer'),
           ~ monitor.created => NoContents(ms) /\ toServer' = << >>,
           FewEvents'
    PROVE  ConnectionInv'
<1>1. /\ toClient \in Seq(ClientMessage) /\ lastSeen \in Seq(Nat)
      /\ Len(toClient) \in Nat /\ Len(ms) \in Nat
  BY LenProperties DEF ConnectionInv, ConnectionTypeOK
<1>2. /\ toClient' \in Seq(ClientMessage)
      /\ Len(toClient') = Len(toClient) + Len(ms)
      /\ \A i \in 1..Len(toClient) : toClient'[i] = toClient[i]
      /\ \A i \in 1..Len(ms) : toClient'[Len(toClient) + i] = ms[i]
  BY <1>1, ConcatPlaces
<1>3. ConnectionTypeOK'
  BY <1>2 DEF ConnectionInv, ConnectionTypeOK
<1>4. NothingIsSent'
  BY DEF NothingIsSent
<1>5. NothingIsAsked'
  <2>1. ASSUME NoContents(toClient), NoContents(ms)
        PROVE  NoContents(toClient')
    <3>1. ASSUME NEW i \in 1..Len(toClient'), ~ i \in 1..Len(toClient)
          PROVE  toClient'[i].type # "contents"
      <4>1. /\ i - Len(toClient) \in 1..Len(ms)
            /\ i = Len(toClient) + (i - Len(toClient))
        BY <1>1, <1>2, <3>1
      <4>2. toClient'[i] = ms[i - Len(toClient)]
        BY <1>2, <4>1
      <4>. QED  BY <2>1, <4>1, <4>2 DEF NoContents
    <3>. QED  BY <1>2, <2>1, <3>1 DEF NoContents
  <2>. QED  BY <2>1 DEF ConnectionInv, NothingIsAsked
<1>6. KnownIsInStep'
  BY DEF ConnectionInv, KnownIsInStep
<1>7. LittleIsKnown'
  BY SendingKeepsLittleKnown
<1>8. MessagesConnect'
  <2>1. ASSUME NEW s, Chained(s, toClient, QueueIds)
        PROVE  Chained(s, toClient', QueueIds')
    BY <1>1, <2>1, MoreMessages
  <2>. QED  BY <2>1 DEF ConnectionInv, MessagesConnect
<1>. QED  BY <1>3, <1>4, <1>5, <1>6, <1>7, <1>8 DEF ConnectionInv

(* If the client has not got contents after a step that sends something,   *)
(* it had not got any before the step.                                     *)
LEMMA StillNoContents ==
    ASSUME NEW ms \in Seq(ClientMessage), NEW more \in Seq(ClientMessage),
           NoContents(ms \o more)
    PROVE  NoContents(ms) /\ NoContents(more) /\ Len(ms \o more) = Len(ms) + Len(more)
<1>1. /\ Len(ms \o more) = Len(ms) + Len(more)
      /\ \A i \in 1..Len(ms) : (ms \o more)[i] = ms[i]
      /\ \A i \in 1..Len(more) : (ms \o more)[Len(ms) + i] = more[i]
      /\ Len(ms) \in Nat /\ Len(more) \in Nat
  BY ConcatPlaces, LenProperties
<1>. DEFINE all == ms \o more
<1>2. NoContents(all)
  OBVIOUS
<1>. HIDE DEF all
<1>3. /\ Len(all) = Len(ms) + Len(more)
      /\ \A i \in 1..Len(ms) : all[i] = ms[i]
      /\ \A i \in 1..Len(more) : all[Len(ms) + i] = more[i]
  BY <1>1 DEF all
<1>4. ASSUME NEW i \in 1..Len(ms)
      PROVE  ms[i].type # "contents"
  <2>1. i \in 1..Len(all)
    BY <1>1, <1>3
  <2>. QED  BY <1>2, <1>3, <2>1 DEF NoContents
<1>5. ASSUME NEW i \in 1..Len(more)
      PROVE  more[i].type # "contents"
  <2>1. Len(ms) + i \in 1..Len(all)
    BY <1>1, <1>3
  <2>. QED  BY <1>2, <1>3, <2>1 DEF NoContents
<1>. QED  BY <1>1, <1>4, <1>5 DEF NoContents

LEMMA WaitingMeans ==
    /\ WaitsForContents <=>
          monitor.created /\ ~ monitor.known /\ NoContents(toClient)
    /\ WaitsForContents' <=>
          monitor'.created /\ ~ monitor'.known /\ NoContents(toClient')
  BY DEF WaitsForContents, NoContents

LEMMA ChangeKeepsInv ==
    ASSUME ReplicationInv, ChangeQueue, FewAreEarly'
    PROVE  ReplicationInv'
<1>. DEFINE ms == Messages(signals')
<1>1. UserOperation
  BY OperationIsAUsers DEF ReplicationInv, ChangeQueue
<1>2. /\ QueueInv' /\ QueueIds \in Seq(Nat) /\ ms \in Seq(ClientMessage)
      /\ Chained(QueueIds, ms, QueueIds') /\ NoContents(ms)
  BY <1>1, OperationSends DEF ReplicationInv, NoContents
<1>3. /\ toClient' = IF subscribed THEN toClient \o ms ELSE toClient
      /\ early' = IF WaitsForContents THEN early + Len(ms) ELSE early
      /\ subscribed' = subscribed /\ toServer' = toServer
      /\ monitor' = monitor /\ lastSeen' = lastSeen
  BY DEF ChangeQueue
<1>4. ConnectionInv
  BY DEF ReplicationInv
<1>. HIDE DEF ms
<1>5. early' \in Nat
  <2>1. early \in Nat /\ Len(ms) \in Nat
    BY <1>2, <1>4, LenProperties DEF ConnectionInv, ConnectionTypeOK
  <2>. QED  BY <1>3, <2>1
<1>6. CASE subscribed
  <2>1. toClient' = toClient \o ms
    BY <1>3, <1>6
  <2>2. FewEvents'
    <3>. SUFFICES ASSUME WaitsForContents'
                  PROVE  /\ Len(toClient') + Len(monitor'.queue) <= early'
                         /\ toServer' # << >> /\ Head(toServer').type = "fetch"
      BY DEF FewEvents
    <3>1. monitor.created /\ ~ monitor.known /\ NoContents(toClient \o ms)
      BY <1>3, <2>1, WaitingMeans
    <3>2. toClient \in Seq(ClientMessage) /\ monitor.queue \in Seq(Nat) /\ early \in Nat
      BY <1>4, FieldTypes DEF ConnectionInv, ConnectionTypeOK
    <3>3. NoContents(toClient) /\ Len(toClient \o ms) = Len(toClient) + Len(ms)
      BY <1>2, <3>1, <3>2, StillNoContents
    <3>4. WaitsForContents
      BY <3>1, <3>3, WaitingMeans
    <3>5. Len(toClient) + Len(monitor.queue) <= early
      BY <1>4, <3>4 DEF ConnectionInv, FewEvents
    <3>6. /\ Len(toClient) \in Nat /\ Len(ms) \in Nat /\ Len(monitor.queue) \in Nat
          /\ Len(toClient') = Len(toClient) + Len(ms)
      BY <1>2, <2>1, <3>2, <3>3, LenProperties
    <3>7. early' = early + Len(ms)
      BY <1>3, <3>4
    <3>8. Len(toClient') + Len(monitor.queue) <= early'
      <4>1. (Len(toClient) + Len(ms)) + Len(monitor.queue) <= early + Len(ms)
        <5>1. ASSUME NEW a \in Nat, NEW b \in Nat, NEW c \in Nat, NEW d \in Nat, a + b <= c
              PROVE  (a + d) + b <= c + d
          BY <5>1
        <5>. QED  BY <3>2, <3>5, <3>6, <5>1
      <4>. QED  BY <3>6, <3>7, <4>1, Zenon
    <3>. QED  BY <1>3, <1>4, <3>4, <3>8 DEF ConnectionInv, FewEvents
  <2>3. ~ monitor.created => NoContents(ms) /\ toServer' = << >>
    BY <1>2, <1>3, <1>4 DEF ConnectionInv, NothingIsAsked
  <2>4. RequestList(toServer')
    BY <1>3, <1>4 DEF ConnectionInv, ConnectionTypeOK
  <2>5. ConnectionInv'
    BY <1>2, <1>3, <1>4, <1>5, <1>6, <2>1, <2>2, <2>3, <2>4, SendingKeepsInv
  <2>. QED  BY <1>2, <2>5 DEF ReplicationInv
<1>7. CASE ~ subscribed
  <2>1. toClient' = toClient /\ toClient = << >> /\ ~ monitor.created
    BY <1>3, <1>4, <1>7 DEF ConnectionInv, NothingIsSent
  <2>2. monitor = NotCreated /\ toServer = << >> /\ ~ monitor.known /\ monitor.queue = << >>
    BY <1>4, <2>1 DEF ConnectionInv, NothingIsAsked, NotCreated
  <2>3. ConnectionTypeOK' /\ NothingIsSent' /\ NothingIsAsked'
    BY <1>3, <1>4, <1>5, <2>1
       DEF ConnectionInv, ConnectionTypeOK, NothingIsSent, NothingIsAsked, NoContents
  <2>4. KnownIsInStep' /\ LittleIsKnown' /\ FewEvents' /\ MessagesConnect'
    BY <1>3, <1>7, <2>1, <2>2
       DEF KnownIsInStep, LittleIsKnown, FewEvents, WaitsForContents, MessagesConnect
  <2>. QED  BY <1>2, <2>3, <2>4 DEF ReplicationInv, ConnectionInv
<1>. QED  BY <1>6, <1>7

LEMMA AnswerKeepsInv ==
    ASSUME ReplicationInv, AnswerFetchRequest
    PROVE  ReplicationInv'
<1>. DEFINE m == QueueContents(Head(toServer))
<1>1. /\ toServer # << >> /\ Head(toServer).type = "fetch"
      /\ toClient' = Append(toClient, m) /\ toServer' = Tail(toServer)
      /\ subscribed' = subscribed /\ monitor' = monitor /\ lastSeen' = lastSeen
      /\ early' = early /\ QueueStays
  BY DEF AnswerFetchRequest
<1>2. QueueInv /\ ConnectionInv
  BY DEF ReplicationInv
<1>3. QueueInv' /\ QueueIds' = QueueIds
  BY <1>1, <1>2, QueueStaysTheSame
<1>4. RequestList(Tail(toServer)) /\ Head(toServer) \in Fetches
  BY <1>1, <1>2, OtherRequests DEF ConnectionInv, ConnectionTypeOK, RequestOK
<1>5. m \in ClientMessage /\ m.type = "contents" /\ m.state = QueueIds /\ Follows(QueueIds, m)
  BY <1>2, <1>4, ContentsFollow
<1>. HIDE DEF m
<1>. DEFINE ms == <<m>>
<1>6. ms \in Seq(ClientMessage) /\ Len(ms) = 1 /\ ms[1] = m
  BY <1>5
<1>7. Chained(QueueIds, ms, QueueIds')
  BY <1>3, <1>5, OneMessage
<1>8. toClient' = toClient \o ms
  BY <1>1, <1>2, <1>5 DEF ConnectionInv, ConnectionTypeOK
<1>. HIDE DEF ms
<1>9. QueueIds \in Seq(Nat)
  BY <1>2, QueueIdsAreIds DEF QueueInv, QueueTypeOK
<1>10. monitor.created
  BY <1>1, <1>2 DEF ConnectionInv, NothingIsAsked
<1>11. subscribed
  BY <1>2, <1>10 DEF ConnectionInv, NothingIsSent
<1>12. early' \in Nat /\ FewAreEarly' /\ toClient \in Seq(ClientMessage)
  BY <1>1, <1>2 DEF ConnectionInv, ConnectionTypeOK, FewAreEarly
<1>13. FewEvents'
  <2>1. ASSUME WaitsForContents'
        PROVE  FALSE
    <3>1. NoContents(toClient \o ms)
      BY <1>8, <2>1, WaitingMeans
    <3>2. NoContents(ms)
      BY <1>6, <1>12, <3>1, StillNoContents
    <3>. QED  BY <1>5, <1>6, <3>2 DEF NoContents
  <2>. QED  BY <2>1 DEF FewEvents
<1>14. RequestList(toServer')
  BY <1>1, <1>4
<1>15. ms[1].type = "contents"
  BY <1>5, <1>6
<1>16. ConnectionInv'
  BY <1>1, <1>2, <1>6, <1>7, <1>8, <1>9, <1>10, <1>11, <1>12, <1>13, <1>14, <1>15,
     SendingKeepsInv
<1>. QED  BY <1>3, <1>16 DEF ReplicationInv

(* A request of the user is carried out; until there are contents the      *)
(* first fetch is ahead of it.                                             *)
LEMMA HandlingKeepsInv ==
    ASSUME ReplicationInv, HandleRequest
    PROVE  ReplicationInv'
<1>. DEFINE request == Head(toServer)
<1>1. /\ toServer # << >> /\ request.type # "fetch" /\ toServer' = Tail(toServer)
      /\ subscribed' = subscribed /\ monitor' = monitor /\ lastSeen' = lastSeen
      /\ early' = early
  BY DEF HandleRequest
<1>2. QueueInv /\ ConnectionInv
  BY DEF ReplicationInv
<1>3. RequestList(Tail(toServer)) /\ RequestOK(request)
  BY <1>1, <1>2, OtherRequests DEF ConnectionInv, ConnectionTypeOK
<1>4. toClient \in Seq(ClientMessage) /\ QueueIds \in Seq(Nat)
  BY <1>2, QueueIdsAreIds DEF ConnectionInv, ConnectionTypeOK, QueueInv, QueueTypeOK
<1>5. \E ms \in Seq(ClientMessage) :
         /\ QueueInv' /\ Chained(QueueIds, ms, QueueIds') /\ NoContents(ms)
         /\ toClient' = toClient \o ms
  <2>1. CASE Possible(request)
    <3>1. PICK i \in 1..Len(queue) : RequestedOperation(request, i - 1)
      BY <2>1 DEF HandleRequest
    <3>2. UserOperation
      BY <1>2, <1>3, <3>1, RequestIsAUsers
    <3>3. toClient' = toClient \o Messages(signals')
      BY <2>1 DEF HandleRequest
    <3>. QED  BY <1>2, <3>2, <3>3, OperationSends DEF NoContents
  <2>2. CASE ~ Possible(request)
    <3>1. QueueStays /\ toClient' = toClient
      BY <2>2 DEF HandleRequest
    <3>2. << >> \in Seq(ClientMessage) /\ NoContents(<< >>)
      BY DEF NoContents
    <3>3. toClient' = toClient \o << >>
      BY <1>4, <3>1, ConcatEmptySeq
    <3>4. QueueInv' /\ Chained(QueueIds, << >>, QueueIds')
      BY <1>2, <3>1, QueueStaysTheSame, NoMessages
    <3>. QED  BY <3>2, <3>3, <3>4
  <2>. QED  BY <2>1, <2>2
<1>6. PICK ms \in Seq(ClientMessage) :
         /\ QueueInv' /\ Chained(QueueIds, ms, QueueIds') /\ NoContents(ms)
         /\ toClient' = toClient \o ms
  BY <1>5
<1>. HIDE DEF request
<1>7. monitor.created
  BY <1>1, <1>2 DEF ConnectionInv, NothingIsAsked
<1>8. subscribed
  BY <1>2, <1>7 DEF ConnectionInv, NothingIsSent
<1>9. early' \in Nat /\ FewAreEarly'
  BY <1>1, <1>2 DEF ConnectionInv, ConnectionTypeOK, FewAreEarly
<1>10. FewEvents'
  <2>1. ASSUME WaitsForContents'
        PROVE  FALSE
    <3>1. NoContents(toClient \o ms) /\ ~ monitor.known
      BY <1>1, <1>6, <2>1, WaitingMeans
    <3>2. WaitsForContents
      BY <1>4, <1>6, <1>7, <3>1, StillNoContents, WaitingMeans
    <3>3. request.type = "fetch"
      BY <1>2, <3>2 DEF ConnectionInv, FewEvents, request
    <3>. QED  BY <1>1, <3>3
  <2>. QED  BY <2>1 DEF FewEvents
<1>11. RequestList(toServer')
  BY <1>1, <1>3
<1>12. ConnectionInv'
  BY <1>1, <1>2, <1>4, <1>6, <1>7, <1>8, <1>9, <1>10, <1>11, SendingKeepsInv
<1>. QED  BY <1>6, <1>12 DEF ReplicationInv

(* The user asks for something.                                            *)
LEMMA LocalOperationKeepsInv ==
    ASSUME ReplicationInv, NEW op, NEW request, RequestOK(request),
           DoLocalOperation(op, request)
    PROVE  ReplicationInv'
<1>1. /\ monitor.created /\ QueueStays
      /\ toServer' = Append(toServer, request) \/ toServer' = toServer
      /\ subscribed' = subscribed /\ monitor' = monitor /\ lastSeen' = lastSeen
      /\ early' = early /\ toClient' = toClient
  BY DEF DoLocalOperation
<1>2. QueueInv /\ ConnectionInv
  BY DEF ReplicationInv
<1>3. QueueInv' /\ QueueIds' = QueueIds
  BY <1>1, <1>2, QueueStaysTheSame
<1>4. RequestList(toServer)
  BY <1>2 DEF ConnectionInv, ConnectionTypeOK
<1>5. /\ RequestList(toServer')
      /\ toServer # << >> => toServer' # << >> /\ Head(toServer') = Head(toServer)
  BY <1>1, <1>4, AskAlso
<1>6. ConnectionTypeOK'
  BY <1>1, <1>2, <1>5 DEF ConnectionInv, ConnectionTypeOK, FewAreEarly
<1>7. NothingIsSent' /\ NothingIsAsked' /\ KnownIsInStep' /\ LittleIsKnown'
  BY <1>1, <1>2
     DEF ConnectionInv, NothingIsSent, NothingIsAsked, KnownIsInStep, LittleIsKnown
<1>8. FewEvents'
  BY <1>1, <1>2, <1>5, WaitingMeans DEF ConnectionInv, FewEvents
<1>9. MessagesConnect'
  BY <1>1, <1>2, <1>3 DEF ConnectionInv, MessagesConnect
<1>. QED  BY <1>3, <1>6, <1>7, <1>8, <1>9 DEF ReplicationInv, ConnectionInv

LEMMA EnablingKeepsInv ==
    ASSUME ReplicationInv, EnableEvents
    PROVE  ReplicationInv'
<1>1. /\ ~ subscribed /\ subscribed' = TRUE /\ QueueStays
      /\ toServer' = toServer /\ monitor' = monitor /\ lastSeen' = lastSeen
      /\ early' = early /\ toClient' = toClient
  BY DEF EnableEvents
<1>2. QueueInv /\ ConnectionInv
  BY DEF ReplicationInv
<1>3. QueueInv' /\ QueueIds' = QueueIds /\ QueueIds \in Seq(Nat)
  BY <1>1, <1>2, QueueStaysTheSame, QueueIdsAreIds DEF QueueInv, QueueTypeOK
<1>4. toClient = << >> /\ ~ monitor.created
  BY <1>1, <1>2 DEF ConnectionInv, NothingIsSent
<1>5. ConnectionTypeOK' /\ NothingIsSent'
  BY <1>1, <1>2 DEF ConnectionInv, ConnectionTypeOK, NothingIsSent, FewAreEarly
<1>6. NothingIsAsked' /\ KnownIsInStep' /\ LittleIsKnown' /\ FewEvents'
  BY <1>1, <1>2, WaitingMeans
     DEF ConnectionInv, NothingIsAsked, KnownIsInStep, LittleIsKnown, FewEvents
<1>7. MessagesConnect'
  <2>1. Chained(QueueIds, toClient', QueueIds')
    BY <1>1, <1>3, <1>4, NoMessages
  <2>. QED  BY <1>1, <1>2, <1>3, <2>1 DEF ConnectionInv, MessagesConnect
<1>. QED  BY <1>3, <1>5, <1>6, <1>7 DEF ReplicationInv, ConnectionInv

LEMMA CreationKeepsInv ==
    ASSUME ReplicationInv, CreateMonitor, FewAreEarly'
    PROVE  ReplicationInv'
<1>. DEFINE c == SendInitialFetch([NotCreated EXCEPT !.created = TRUE])
<1>1. QueueInv /\ ConnectionInv
  BY DEF ReplicationInv
<1>2. ~ monitor.created /\ subscribed /\ monitor = NotCreated
  BY <1>1 DEF CreateMonitor, ConnectionInv, NothingIsAsked
<1>3. /\ monitor' = Delivered(c) /\ toServer' = toServer \o c.requests
  BY <1>2, Zenon DEF CreateMonitor, MonitorBecomes, Delivered
<1>4. /\ early' = Len(toClient) /\ QueueStays
      /\ subscribed' = subscribed /\ toClient' = toClient /\ lastSeen' = lastSeen
  BY DEF CreateMonitor
<1>5. /\ Blank(c) /\ c.created = TRUE /\ c.requests \in Seq(Fetches)
      /\ c.requests # << >> /\ Head(c.requests).type = "fetch"
  BY CreatedBlank
<1>. HIDE DEF c
<1>6. Blank(monitor') /\ monitor'.created = TRUE
  BY <1>3, <1>5, DeliveredEarly
<1>7. toServer = << >> /\ RequestList(toServer)
  BY <1>1, <1>2 DEF ConnectionInv, NothingIsAsked, ConnectionTypeOK
<1>8. RequestList(toServer') /\ toServer' = c.requests
  BY <1>3, <1>5, <1>7, AskForMore
<1>9. /\ Len(toClient) \in Nat /\ early' \in Nat
      /\ early' <= 1 /\ Len(toClient') <= 1
  <2>1. Len(toClient) \in Nat
    BY <1>1, LenProperties DEF ConnectionInv, ConnectionTypeOK
  <2>2. early' <= 1
    BY <1>6 DEF Blank, FewAreEarly
  <2>. QED  BY <1>4, <2>1, <2>2
<1>10. QueueInv' /\ QueueIds' = QueueIds
  BY <1>1, <1>4, QueueStaysTheSame
<1>11. monitor' \in Monitors /\ monitor'.known = FALSE /\ monitor'.queue = << >>
  BY <1>6 DEF Blank
<1>12. ConnectionTypeOK' /\ NothingIsSent' /\ NothingIsAsked' /\ KnownIsInStep'
  BY <1>1, <1>2, <1>4, <1>6, <1>8, <1>9, <1>11
     DEF ConnectionInv, ConnectionTypeOK, NothingIsSent, NothingIsAsked, KnownIsInStep
<1>13. LittleIsKnown'
  <2>1. ~ Len(toClient') >= 2
    BY <1>4, <1>9
  <2>. QED  BY <1>6, <2>1 DEF LittleIsKnown
<1>14. FewEvents'
  <2>1. Len(monitor'.queue) = 0
    BY <1>11
  <2>2. Len(toClient') + Len(monitor'.queue) <= early'
    BY <1>4, <1>9, <2>1
  <2>. QED  BY <1>5, <1>8, <2>2 DEF FewEvents
<1>15. MessagesConnect'
  BY <1>1, <1>4, <1>10, <1>11 DEF ConnectionInv, MessagesConnect
<1>. QED  BY <1>10, <1>12, <1>13, <1>14, <1>15 DEF ReplicationInv, ConnectionInv

LEMMA LookingKeepsInv ==
    ASSUME ReplicationInv, NEW index \in Nat, LookAtEntry(index)
    PROVE  /\ ReplicationInv'
           /\ monitor'.known = monitor.known /\ monitor'.queue = monitor.queue
<1>. DEFINE c == GotRequestForEntry(monitor, index)
<1>1. QueueInv /\ ConnectionInv /\ monitor \in Monitors
  BY DEF ReplicationInv, ConnectionInv, ConnectionTypeOK
<1>2. /\ monitor.created /\ index < monitor.length /\ QueueStays
      /\ monitor' = Delivered(c) /\ toServer' = toServer \o c.requests
      /\ early' = early /\ lastSeen' = lastSeen
      /\ subscribed' = subscribed /\ toClient' = toClient
  BY Zenon DEF LookAtEntry, MonitorBecomes, Delivered
<1>3. monitor.length > 0
  BY <1>1, <1>2, FieldTypes
<1>4. ~ Blank(monitor)
  BY <1>3 DEF Blank
<1>5. Len(monitor.queue) <= monitor.length /\ Asking(monitor)
  <2>1. CASE monitor.known
    BY <1>1, <2>1 DEF ConnectionInv, KnownIsInStep, InStep, FrontOf
  <2>2. CASE ~ monitor.known
    <3>1. Single(monitor)
      BY <1>1, <1>2, <1>4, <2>2 DEF ConnectionInv, LittleIsKnown
    <3>2. Len(monitor.queue) = 1 /\ monitor.length = 1 /\ monitor.requested > 0
      BY <3>1 DEF Single
    <3>. QED  BY <3>2 DEF Asking
  <2>. QED  BY <2>1, <2>2
<1>6. /\ Kept(monitor, c) /\ Asking(c)
      /\ monitor.requested > 0 => c.requested > 0
  BY <1>1, <1>3, <1>5, LookedAt
<1>. HIDE DEF c
<1>7. c.requests \in Seq(Fetches) /\ Kept(c, Delivered(c)) /\ Delivered(c).requested = c.requested
  BY <1>6, FieldTypes, DeliveredIsKept DEF Kept
<1>8. /\ monitor' \in Monitors /\ monitor'.created = monitor.created
      /\ monitor'.queue = monitor.queue /\ monitor'.length = monitor.length
      /\ monitor'.known = monitor.known /\ Asking(monitor')
      /\ monitor.requested > 0 => monitor'.requested > 0
  BY <1>2, <1>6, <1>7 DEF Kept, Asking
<1>9. QueueInv' /\ QueueIds' = QueueIds
  BY <1>1, <1>2, QueueStaysTheSame
<1>10. RequestList(toServer)
  BY <1>1 DEF ConnectionInv, ConnectionTypeOK
<1>11. /\ RequestList(toServer')
       /\ toServer # << >> => toServer' # << >> /\ Head(toServer') = Head(toServer)
  BY <1>2, <1>7, <1>10, AskForMore
<1>12. ConnectionTypeOK'
  BY <1>1, <1>2, <1>8, <1>11 DEF ConnectionInv, ConnectionTypeOK, FewAreEarly
<1>13. NothingIsSent' /\ NothingIsAsked'
  BY <1>1, <1>2, <1>8 DEF ConnectionInv, NothingIsSent, NothingIsAsked
<1>14. KnownIsInStep'
  BY <1>1, <1>2, <1>8 DEF ConnectionInv, KnownIsInStep, InStep
<1>15. LittleIsKnown'
  <2>. SUFFICES ASSUME ~ monitor.known
                PROVE  /\ Single(monitor') /\ FrontOf(monitor'.queue, lastSeen')
                       /\ toClient' # << >> => toClient'[1].type = "contents"
    BY <1>8 DEF LittleIsKnown
  <2>1. /\ Single(monitor) /\ FrontOf(monitor.queue, lastSeen)
        /\ toClient # << >> => toClient[1].type = "contents"
    BY <1>1, <1>2, <1>4 DEF ConnectionInv, LittleIsKnown
  <2>. QED  BY <1>2, <1>8, <2>1 DEF Single
<1>16. FewEvents'
  BY <1>1, <1>2, <1>8, <1>11, WaitingMeans DEF ConnectionInv, FewEvents
<1>17. MessagesConnect'
  BY <1>1, <1>2, <1>8, <1>9 DEF ConnectionInv, MessagesConnect
<1>. QED  BY <1>8, <1>9, <1>12, <1>13, <1>14, <1>15, <1>16, <1>17
          DEF ReplicationInv, ConnectionInv

(* The next message arrives.                                               *)
LEMMA ReceivingKeepsInv ==
    ASSUME ReplicationInv, ReceiveMessage
    PROVE  ReplicationInv'
<1>. DEFINE m == Head(toClient)
            rest == Tail(toClient)
            c == Handle(monitor, m)
<1>1. QueueInv /\ ConnectionInv /\ toClient \in Seq(ClientMessage)
  BY DEF ReplicationInv, ConnectionInv, ConnectionTypeOK
<1>2. /\ toClient # << >> /\ lastSeen' = m.state /\ toClient' = rest /\ QueueStays
      /\ subscribed' = subscribed /\ early' = early
      /\ monitor.created => monitor' = Delivered(c) /\ toServer' = toServer \o c.requests
      /\ ~ monitor.created => monitor' = monitor /\ toServer' = toServer
  BY Zenon DEF ReceiveMessage, MonitorBecomes, Delivered
<1>3. QueueInv' /\ QueueIds' = QueueIds
  BY <1>1, <1>2, QueueStaysTheSame
<1>4. subscribed
  BY <1>1, <1>2 DEF ConnectionInv, NothingIsSent
<1>5. /\ m = toClient[1] /\ m \in ClientMessage /\ rest \in Seq(ClientMessage)
      /\ Len(rest) = Len(toClient) - 1 /\ Len(toClient) \in Nat /\ Len(toClient) > 0
      /\ \A i \in 1..Len(rest) : rest[i] = toClient[i + 1]
  BY <1>1, <1>2, HeadTailProperties, LenProperties, EmptySeq
<1>6. m.state \in Seq(Nat)
  BY <1>5 DEF ClientMessage
<1>7. ASSUME NEW s, Chained(s, toClient, QueueIds)
      PROVE  Follows(s, m) /\ Chained(m.state, rest, QueueIds)
  BY <1>1, <1>2, <1>7, OtherMessages
<1>8. PICK s \in Seq(Nat) : Chained(s, toClient, QueueIds)
  BY <1>1, <1>4 DEF ConnectionInv, MessagesConnect
<1>9. Follows(s, m) /\ Chained(m.state, rest, QueueIds)
  BY <1>7, <1>8
<1>10. MessagesConnect'
  BY <1>2, <1>3, <1>6, <1>9 DEF MessagesConnect
<1>. HIDE DEF m, rest
<1>11. RequestList(toServer)
  BY <1>1 DEF ConnectionInv, ConnectionTypeOK
<1>12. ASSUME NoContents(rest), m.type # "contents"
       PROVE  NoContents(toClient)
  <2>1. ASSUME NEW i \in 1..Len(toClient)
        PROVE  toClient[i].type # "contents"
    <3>1. CASE i = 1
      BY <1>5, <1>12, <3>1
    <3>2. CASE i # 1
      <4>1. i - 1 \in 1..Len(rest) /\ (i - 1) + 1 = i
        BY <1>5, <3>2
      <4>2. rest[i - 1] = toClient[i]
        BY <1>5, <4>1
      <4>. QED  BY <1>12, <4>1, <4>2 DEF NoContents
    <3>. QED  BY <3>1, <3>2
  <2>. QED  BY <2>1 DEF NoContents
<1>13. ASSUME NoContents(toClient)
       PROVE  NoContents(rest)
  <2>1. ASSUME NEW i \in 1..Len(rest)
        PROVE  rest[i].type # "contents"
    <3>1. i + 1 \in 1..Len(toClient)
      BY <1>5
    <3>. QED  BY <1>5, <1>13, <3>1 DEF NoContents
  <2>. QED  BY <2>1 DEF NoContents
<1>14. CASE ~ monitor.created
  <2>1. monitor = NotCreated /\ NoContents(toClient)
    BY <1>1, <1>14 DEF ConnectionInv, NothingIsAsked
  <2>2. ~ monitor.known
    BY <2>1 DEF NotCreated
  <2>3. ConnectionTypeOK' /\ NothingIsSent' /\ NothingIsAsked'
    BY <1>1, <1>2, <1>4, <1>5, <1>6, <1>13, <1>14, <2>1
       DEF ConnectionInv, ConnectionTypeOK, NothingIsSent, NothingIsAsked, FewAreEarly
  <2>4. KnownIsInStep' /\ LittleIsKnown' /\ FewEvents'
    BY <1>2, <1>14, <2>2, WaitingMeans DEF KnownIsInStep, LittleIsKnown, FewEvents
  <2>. QED  BY <1>3, <1>10, <2>3, <2>4 DEF ReplicationInv, ConnectionInv
<1>15. CASE monitor.created
  <2>. HIDE DEF c
  <2>1. monitor' = Delivered(c) /\ toServer' = toServer \o c.requests
    BY <1>2, <1>15
  <2>2. ASSUME c \in Monitors, c.created = monitor.created, c.known \/ early <= 1
        PROVE  /\ ConnectionTypeOK' /\ NothingIsSent' /\ NothingIsAsked' /\ monitor'.created
               /\ toServer # << >> => toServer' # << >> /\ Head(toServer') = Head(toServer)
    <3>1. c.requests \in Seq(Fetches) /\ Kept(c, Delivered(c))
      BY <2>2, FieldTypes, DeliveredIsKept
    <3>2. /\ RequestList(toServer')
          /\ toServer # << >> => toServer' # << >> /\ Head(toServer') = Head(toServer)
      BY <1>11, <2>1, <3>1, AskForMore
    <3>3. monitor' \in Monitors /\ monitor'.created /\ monitor'.known = c.known
      BY <1>15, <2>1, <2>2, <3>1 DEF Kept
    <3>4. FewAreEarly'
      BY <1>2, <2>2, <3>3 DEF FewAreEarly
    <3>. QED  BY <1>1, <1>2, <1>4, <1>5, <1>6, <3>2, <3>3, <3>4
              DEF ConnectionInv, ConnectionTypeOK, NothingIsSent, NothingIsAsked
  <2>3. ASSUME InStep(c, m.state), Informed(monitor, c)
        PROVE  ReplicationInv'
    <3>1. c \in Monitors /\ c.known = TRUE /\ c.created = monitor.created
      BY <2>3 DEF InStep, Informed
    <3>2. InStep(monitor', lastSeen') /\ monitor'.known = TRUE
      BY <1>2, <2>1, <2>3, <3>1, DeliveredInStep
    <3>3. KnownIsInStep' /\ LittleIsKnown' /\ FewEvents'
      BY <2>2, <2>3, <3>1, <3>2, WaitingMeans DEF KnownIsInStep, LittleIsKnown, FewEvents
    <3>. QED  BY <1>3, <1>10, <2>2, <2>3, <3>1, <3>3 DEF ReplicationInv, ConnectionInv
  <2>4. CASE monitor.known
    <3>1. InStep(monitor, lastSeen) /\ Chained(lastSeen, toClient, QueueIds)
      BY <1>1, <2>4 DEF ConnectionInv, KnownIsInStep, MessagesConnect
    <3>2. Follows(lastSeen, m) /\ lastSeen \in Seq(Nat) /\ monitor.known = TRUE
      BY <1>1, <1>7, <2>4, <3>1, FieldTypes DEF ConnectionInv, ConnectionTypeOK
    <3>3. Informed(monitor, monitor)
      BY <3>2 DEF Informed
    <3>4. InStep(c, m.state) /\ Informed(monitor, c)
      <4>1. InStep(Handle(monitor, m), m.state) /\ Informed(monitor, Handle(monitor, m))
        BY <3>1, <3>2, <3>3, HandledInStep
      <4>. QED  BY <4>1 DEF c
    <3>. QED  BY <2>3, <3>4
  <2>5. CASE ~ monitor.known /\ m.type = "contents"
    <3>1. CASE Blank(monitor)
      <4>1. InStep(c, m.state) /\ Informed(monitor, c)
        <5>1. InStep(Handle(monitor, m), m.state) /\ Informed(monitor, Handle(monitor, m))
          BY <1>9, <2>5, <3>1, FirstContents
        <5>. QED  BY <5>1 DEF c
      <4>. QED  BY <2>3, <4>1
    <3>2. CASE Single(monitor) /\ FrontOf(monitor.queue, lastSeen)
      <4>1. monitor.queue # << >>
        <5>1. Len(monitor.queue) = 1
          BY <3>2 DEF Single
        <5>2. Len(<< >>) = 0
          OBVIOUS
        <5>3. Len(monitor.queue) # Len(<< >>)
          BY ONLY <5>1, <5>2
        <5>. QED  BY <5>3, Zenon
      <4>2. Follows(lastSeen, m) /\ lastSeen \in Seq(Nat)
        BY <1>1, <1>7, <4>1 DEF ConnectionInv, MessagesConnect, ConnectionTypeOK
      <4>3. InStep(c, m.state) /\ Informed(monitor, c)
        <5>1. InStep(Handle(monitor, m), m.state) /\ Informed(monitor, Handle(monitor, m))
          BY <2>5, <3>2, <4>2, FirstContents
        <5>. QED  BY <5>1 DEF c
      <4>. QED  BY <2>3, <4>3
    <3>. QED  BY <1>1, <1>15, <2>5, <3>1, <3>2 DEF ConnectionInv, LittleIsKnown
  <2>6. CASE ~ monitor.known /\ m.type # "contents"
    <3>1. /\ Blank(monitor)
          /\ Len(toClient) >= 2 => toClient[1].type = "contents" \/ toClient[2].type = "contents"
      BY <1>1, <1>2, <1>5, <1>15, <2>6 DEF ConnectionInv, LittleIsKnown
    <3>2. /\ c.created = monitor.created
          /\ Blank(c) \/ (Single(c) /\ FrontOf(c.queue, m.state))
      BY <1>9, <2>6, <3>1, EarlyEvent DEF c
    <3>3. c \in Monitors /\ early <= 1
      BY <1>1, <2>6, <3>2 DEF Blank, Single, ConnectionInv, ConnectionTypeOK, FewAreEarly
    <3>4. rest # << >> => rest[1].type = "contents"
      <4>1. rest # << >> => Len(rest) > 0 /\ Len(rest) \in Nat
        BY <1>5, EmptySeq
      <4>2. rest # << >> => rest[1] = toClient[2] /\ Len(toClient) >= 2
        <5>1. ASSUME rest # << >> PROVE 1 \in 1..Len(rest) /\ 1 + 1 = 2 /\ Len(toClient) >= 2
          BY <1>5, <4>1, <5>1
        <5>. QED  BY <1>5, <5>1
      <4>. QED  BY <1>5, <2>6, <3>1, <4>2
    <3>5. /\ Blank(c) => Blank(monitor')
          /\ Single(c) /\ FrontOf(c.queue, m.state) =>
                Single(monitor') /\ FrontOf(monitor'.queue, lastSeen')
      BY <1>2, <2>1, DeliveredEarly
    <3>6. monitor'.known = FALSE /\ Len(monitor'.queue) <= 1
      <4>1. CASE Blank(monitor')
        <5>1. monitor'.known = FALSE /\ monitor'.queue = << >> /\ Len(<< >>) = 0
          BY <4>1 DEF Blank
        <5>. QED  BY <5>1
      <4>2. CASE Single(monitor')
        <5>1. monitor'.known = FALSE /\ Len(monitor'.queue) = 1
          BY <4>2 DEF Single
        <5>. QED  BY <5>1
      <4>. QED  BY <3>2, <3>5, <4>1, <4>2
    <3>7. KnownIsInStep'
      BY <3>6 DEF KnownIsInStep
    <3>8. LittleIsKnown'
      <4>1. Len(rest) >= 2 => rest # << >>
        BY <1>5, EmptySeq
      <4>. QED  BY <1>2, <3>2, <3>4, <3>5, <4>1 DEF LittleIsKnown
    <3>9. FewEvents'
      <4>. SUFFICES ASSUME WaitsForContents'
                    PROVE  /\ Len(toClient') + Len(monitor'.queue) <= early'
                           /\ toServer' # << >> /\ Head(toServer').type = "fetch"
        BY DEF FewEvents
      <4>1. NoContents(rest)
        BY <1>2, WaitingMeans
      <4>2. WaitsForContents
        BY <1>12, <1>15, <2>6, <4>1, WaitingMeans
      <4>3. /\ Len(toClient) + Len(monitor.queue) <= early
            /\ toServer # << >> /\ Head(toServer).type = "fetch"
        BY <1>1, <4>2 DEF ConnectionInv, FewEvents
      <4>4. Len(monitor.queue) = 0 /\ early \in Nat /\ Len(monitor'.queue) \in Nat
        BY <1>1, <3>1, <2>2, <3>2, <3>3, FieldTypes, LenProperties
           DEF Blank, ConnectionInv, ConnectionTypeOK
      <4>5. Len(toClient) <= early
        BY <1>5, <4>3, <4>4
      <4>6. Len(toClient') + Len(monitor'.queue) <= early'
        BY <1>2, <1>5, <3>6, <4>4, <4>5
      <4>. QED  BY <2>2, <3>2, <3>3, <4>3, <4>6
    <3>. QED  BY <1>3, <1>10, <2>2, <3>2, <3>3, <3>7, <3>8, <3>9
              DEF ReplicationInv, ConnectionInv
  <2>. QED  BY <2>4, <2>5, <2>6
<1>. QED  BY <1>14, <1>15

-----------------------------------------------------------------------------
(* The inductive invariant, of the client that is started when there is    *)
(* something in the queue already.                                         *)

LEMMA StartingQueueInv ==
    ASSUME MediationInit
    PROVE  QueueInv
<1>1. /\ StartLength \in Nat /\ StartLength >= 1
      /\ queue = [i \in 1..StartLength |-> [queueID |-> i, kind |-> "Track"]]
      /\ idLookup = 1..StartLength /\ history = << >> /\ nextQueueID = StartLength + 1
      /\ firstTrackIndex = 0 /\ firstTrackQueueId = 1 /\ signals = << >>
  BY MediationConstants, QueueConstants DEF MediationInit
<1>2. ASSUME NEW i \in 1..StartLength
      PROVE  queue[i] \in Entry /\ IsTrack(queue[i]) /\ queue[i].queueID = i
  BY <1>1 DEF Entry, Kinds, NoQueueId, IsTrack
<1>3. queue \in Seq(Entry) /\ Len(queue) = StartLength
  <2>1. \A i \in 1..StartLength : [queueID |-> i, kind |-> "Track"] \in Entry
    BY <1>1 DEF Entry, Kinds, NoQueueId
  <2>2. queue \in [1..StartLength -> Entry]
    BY <1>1, <2>1
  <2>. QED  BY <1>1, <2>2, FunctionIsSeq
<1>4. QueueTypeOK
  <2>1. << >> \in Seq(Nat \ {NoQueueId}) /\ << >> \in Seq(Signal)
    OBVIOUS
  <2>2. idLookup \in SUBSET (Nat \ {NoQueueId})
    BY <1>1 DEF NoQueueId
  <2>3. nextQueueID \in Nat \ {NoQueueId}
    BY <1>1 DEF NoQueueId
  <2>. QED  BY <1>1, <1>3, <2>1, <2>2, <2>3 DEF QueueTypeOK
<1>5. IsFirst(queue, firstTrack, 0, Len(queue))
  <2>1. firstTrack = [index |-> 0, id |-> 1] /\ firstTrack.index = 0
    BY <1>1 DEF firstTrack
  <2>2. IsTrack(queue[0 + 1]) /\ queue[0 + 1].queueID = 1
    BY <1>1, <1>2
  <2>3. 0 \in 0..Len(queue) - 1 /\ 0 < Len(queue)
    BY <1>1, <1>3
  <2>4. \A i \in 0..0 - 1 : ~ IsTrack(queue[i + 1])
    OBVIOUS
  <2>. QED  BY <2>1, <2>2, <2>3, <2>4 DEF IsFirst
<1>. QED  BY <1>4, <1>5, FirstTrackIsFirst DEF QueueInv

LEMMA ReplicationInitInv == MediationInit => ReplicationInv
<1>. SUFFICES ASSUME MediationInit PROVE ReplicationInv
  OBVIOUS
<1>1. /\ subscribed = FALSE /\ toServer = << >> /\ toClient = << >>
      /\ monitor = NotCreated /\ lastSeen = << >> /\ early = 0
  BY DEF MediationInit, ReplicationInit
<1>2. /\ NotCreated \in Monitors /\ ~ NotCreated.created /\ ~ NotCreated.known
      /\ NotCreated.queue = << >>
  <2>1. /\ << >> \in Seq(Nat) /\ << >> \in Seq(Fetches) /\ << >> \in Seq(Emissions)
        /\ InitialFetch \in Nat \ {0}
    BY MonitorConstants
  <2>. QED  BY <2>1 DEF NotCreated, Monitors
<1>3. ConnectionTypeOK
  <2>1. << >> \in Seq(ClientMessage) /\ << >> \in Seq(Nat)
    OBVIOUS
  <2>2. /\ subscribed \in BOOLEAN /\ monitor \in Monitors
        /\ toClient \in Seq(ClientMessage) /\ lastSeen \in Seq(Nat)
        /\ RequestList(toServer)
    BY <1>1, <1>2, <2>1, NoRequests, Zenon
  <2>3. early \in Nat /\ FewAreEarly
    BY <1>1 DEF FewAreEarly
  <2>. QED  BY <2>2, <2>3 DEF ConnectionTypeOK
<1>4. NothingIsSent /\ NothingIsAsked /\ KnownIsInStep /\ LittleIsKnown
  BY <1>1, <1>2 DEF NothingIsSent, NothingIsAsked, NoContents, KnownIsInStep, LittleIsKnown
<1>5. FewEvents /\ MessagesConnect
  BY <1>1, <1>2 DEF FewEvents, WaitsForContents, MessagesConnect
<1>. QED  BY <1>3, <1>4, <1>5, StartingQueueInv DEF ReplicationInv, ConnectionInv

LEMMA ReplicationNextInv ==
    ReplicationInv /\ [MediationNext]_mediationVars /\ FewAreEarly' => ReplicationInv'
<1>. SUFFICES ASSUME ReplicationInv, [MediationNext]_mediationVars, FewAreEarly'
              PROVE  ReplicationInv'
  OBVIOUS
<1>1. CASE ChangedByOthers
  BY <1>1, ChangeKeepsInv DEF ChangedByOthers
<1>2. CASE EnableEvents
  BY <1>2, EnablingKeepsInv
<1>3. CASE CreateMonitor
  BY <1>3, CreationKeepsInv
<1>4. CASE AnswerFetchRequest
  BY <1>4, AnswerKeepsInv
<1>5. ASSUME NEW index \in 0..MaximumQueueLength, LookAtEntry(index)
      PROVE  ReplicationInv'
  <2>1. index \in Nat
    BY QueueConstants
  <2>. QED  BY <1>5, <2>1, LookingKeepsInv
<1>6. CASE ReceiveAndMediate
  BY <1>6, ReceivingKeepsInv DEF ReceiveAndMediate
<1>7. CASE HandleRequest
  BY <1>7, HandlingKeepsInv
<1>8. ASSUME NEW index \in 0..MaximumQueueLength, RemoveTrack(index)
      PROVE  ReplicationInv'
  <2>. DEFINE id == mediator.queue[index + 1]
              request == [type |-> "remove", id |-> id]
  <2>1. DoLocalOperation(Removal(index, id), request)
    BY <1>8 DEF RemoveTrack
  <2>2. RequestOK(request)
    BY DEF RequestOK
  <2>. HIDE DEF request
  <2>. QED  BY <2>1, <2>2, LocalOperationKeepsInv
<1>9. ASSUME NEW index \in 0..MaximumQueueLength, NEW newIndex \in 0..MaximumQueueLength,
             MoveTrack(index, newIndex)
      PROVE  ReplicationInv'
  <2>. DEFINE id == mediator.queue[index + 1]
              request == [type |-> "move", id |-> id, diff |-> newIndex - index]
  <2>1. DoLocalOperation(Movement(index, newIndex, id), request)
    BY <1>9 DEF MoveTrack
  <2>2. RequestOK(request)
    <3>1. newIndex - index \in Int
      BY QueueConstants
    <3>. QED  BY <3>1 DEF RequestOK
  <2>. HIDE DEF request
  <2>. QED  BY <2>1, <2>2, LocalOperationKeepsInv
<1>10. CASE UNCHANGED mediationVars
  <2>1. /\ subscribed' = subscribed /\ toServer' = toServer /\ toClient' = toClient
        /\ monitor' = monitor /\ lastSeen' = lastSeen /\ early' = early
    BY <1>10 DEF mediationVars, vars, replicationVars
  <2>2. UNCHANGED queueVars
    BY <1>10 DEF mediationVars, vars
  <2>3. QueueInv'
    BY <2>2, QueueNextInv DEF ReplicationInv
  <2>4. QueueIds' = QueueIds
    BY <2>2 DEF queueVars, QueueIds
  <2>5. ConnectionInv'
    BY <2>1, <2>4
       DEF ReplicationInv, ConnectionInv, ConnectionTypeOK, NothingIsSent, NothingIsAsked,
           KnownIsInStep, LittleIsKnown, FewEvents, WaitsForContents, MessagesConnect,
           FewAreEarly
  <2>. QED  BY <2>3, <2>5 DEF ReplicationInv
<1>. QED  BY <1>1, <1>2, <1>3, <1>4, <1>5, <1>6, <1>7, <1>8, <1>9, <1>10
          DEF MediationNext

-----------------------------------------------------------------------------
(* What the client sees is a mirrored queue.                               *)

LEMMA MessageStates ==
    ASSUME NEW ms \in Seq(ClientMessage)
    PROVE  \A i \in 1..Len(ms) : ms[i].state \in Seq(Nat)
<1>. TAKE i \in 1..Len(ms)
<1>1. ms[i] \in ClientMessage
  BY ElementOfSeq
<1>. QED  BY <1>1 DEF ClientMessage

(* A step that sends messages, possibly none, adds states to those that    *)
(* the client has not seen yet.                                            *)
LEMMA SendingIsAChange ==
    ASSUME toClient \in Seq(ClientMessage), NEW ms \in Seq(ClientMessage),
           toClient' = toClient \o ms, lastSeen' = lastSeen,
           monitor'.known = monitor.known, monitor'.queue = monitor.queue
    PROVE  Promise!Change \/ UNCHANGED Promise!mirrorVars
<1>. DEFINE Unseen == [i \in 1..Len(toClient) |-> toClient[i].state]
            Shown == IF monitor.known THEN monitor.queue ELSE << >>
            after == [i \in 1..Len(toClient') |-> toClient'[i].state]
            n == Len(toClient)
<1>1. Unseen' = after /\ Shown' = Shown
  OBVIOUS
<1>2. n \in Nat /\ Len(ms) \in Nat /\ toClient' \in Seq(ClientMessage)
      /\ Len(toClient') = n + Len(ms)
      /\ \A i \in 1..n : toClient'[i] = toClient[i]
  BY ConcatPlaces, LenProperties
<1>3. /\ \A i \in 1..n : toClient[i].state \in Seq(Nat)
      /\ \A i \in 1..n + Len(ms) : toClient'[i].state \in Seq(Nat)
  BY <1>2, MessageStates
<1>4. Unseen \in Seq(Seq(Nat)) /\ Len(Unseen) = n
  <2>1. Unseen \in [1..n -> Seq(Nat)]
    BY <1>3
  <2>. HIDE DEF Unseen
  <2>. QED  BY <1>2, <2>1, FunctionIsSeq
<1>5. after \in Seq(Seq(Nat)) /\ Len(after) = n + Len(ms)
  <2>1. after \in [1..n + Len(ms) -> Seq(Nat)] /\ n + Len(ms) \in Nat
    BY <1>2, <1>3
  <2>. HIDE DEF after
  <2>. QED  BY <2>1, FunctionIsSeq
<1>6. \A i \in 1..n : after[i] = Unseen[i]
  <2>. TAKE i \in 1..n
  <2>1. i \in 1..Len(toClient')
    BY <1>2
  <2>. QED  BY <1>2, <2>1
<1>7. \A i \in 1..n : Unseen[i] \in Seq(Nat) /\ after[i] \in Seq(Nat)
  BY <1>3, <1>6
<1>. HIDE DEF after
<1>8. Len(ms) > 0 => IsStrictPrefix(Unseen, after)
  <2>. DEFINE list == Unseen
  <2>1. /\ list \in Seq(Seq(Nat)) /\ Len(list) = n
        /\ \A i \in 1..n : after[i] = list[i]
        /\ \A i \in 1..n : list[i] \in Seq(Nat) /\ after[i] \in Seq(Nat)
    BY <1>4, <1>6, <1>7
  <2>. HIDE DEF list
  <2>2. /\ SubSeq(list, 1, n) \in Seq(Seq(Nat)) /\ Len(SubSeq(list, 1, n)) = n
        /\ \A i \in 1..n : SubSeq(list, 1, n)[i] = list[i]
    BY <1>2, <2>1, SubSeqProperties
  <2>3. /\ SubSeq(after, 1, n) \in Seq(Seq(Nat)) /\ Len(SubSeq(after, 1, n)) = n
        /\ \A i \in 1..n : SubSeq(after, 1, n)[i] = after[i]
    BY <1>2, <2>1, SubSeqProperties
  <2>4. \A i \in 1..n : SubSeq(list, 1, n)[i] = SubSeq(after, 1, n)[i]
    BY <2>1, <2>2, <2>3
  <2>5. SubSeq(list, 1, n) = SubSeq(after, 1, n)
    BY <2>2, <2>3, <2>4, SeqEqual
  <2>6. Len(list) <= Len(after)
    BY <1>2, <1>5, <2>1
  <2>7. Len(ms) > 0 => list # after
    BY <1>2, <1>5, <2>1
  <2>8. IsPrefix(list, after)
    BY <2>1, <2>5, <2>6 DEF IsPrefix
  <2>9. Len(ms) > 0 => IsStrictPrefix(list, after)
    BY <2>7, <2>8 DEF IsStrictPrefix
  <2>. QED  BY <2>9 DEF list
<1>9. CASE Len(ms) > 0
  <2>1. IsStrictPrefix(Unseen, Unseen')
    BY <1>1, <1>8, <1>9
  <2>. QED  BY <1>1, <2>1 DEF Promise!Change, Promise!IsStrictPrefix, Promise!IsPrefix,
                                  IsStrictPrefix, IsPrefix
<1>10. CASE ~ Len(ms) > 0
  <2>1. Len(after) = Len(Unseen) /\ \A i \in 1..Len(Unseen) : after[i] = Unseen[i]
    <3>1. Len(ms) = 0
      BY <1>2, <1>10
    <3>2. Len(after) = n
      BY <1>2, <1>5, <3>1
    <3>. QED  BY <1>4, <1>6, <3>2, Zenon
  <2>2. after = Unseen
    BY <1>4, <1>5, <2>1, SeqEqual, ZenonT(40)
  <2>. QED  BY <1>1, <2>2 DEF Promise!mirrorVars
<1>. QED  BY <1>9, <1>10

(* A step that receives a message shows the client the next state.         *)
LEMMA ReceivingIsSeeing ==
    ASSUME ReplicationInv, ReplicationInv', ReceiveMessage
    PROVE  Promise!See
<1>. DEFINE Unseen == [i \in 1..Len(toClient) |-> toClient[i].state]
            Shown == IF monitor.known THEN monitor.queue ELSE << >>
            after == [i \in 1..Len(toClient') |-> toClient'[i].state]
            n == Len(toClient)
<1>1. /\ toClient # << >> /\ lastSeen' = Head(toClient).state /\ toClient' = Tail(toClient)
      /\ toClient \in Seq(ClientMessage) /\ toClient' \in Seq(ClientMessage)
  BY DEF ReceiveMessage, ReplicationInv, ConnectionInv, ConnectionTypeOK
<1>2. /\ n \in Nat /\ n > 0 /\ Head(toClient) = toClient[1] /\ Len(toClient') = n - 1
      /\ \A i \in 1..n - 1 : toClient'[i] = toClient[i + 1]
  BY <1>1, HeadTailProperties, LenProperties, EmptySeq
<1>3. /\ \A i \in 1..n : toClient[i].state \in Seq(Nat)
      /\ \A i \in 1..n - 1 : toClient'[i].state \in Seq(Nat)
  BY <1>1, <1>2, MessageStates
<1>4. /\ Unseen \in Seq(Seq(Nat)) /\ Len(Unseen) = n
      /\ \A i \in 1..n : Unseen[i] = toClient[i].state
  <2>1. Unseen \in [1..n -> Seq(Nat)] /\ \A i \in 1..n : Unseen[i] = toClient[i].state
    BY <1>3
  <2>. HIDE DEF Unseen
  <2>. QED  BY <1>2, <2>1, FunctionIsSeq
<1>5. /\ after \in Seq(Seq(Nat)) /\ Len(after) = n - 1
      /\ \A i \in 1..n - 1 : after[i] = toClient'[i].state
  <2>1. /\ after \in [1..n - 1 -> Seq(Nat)] /\ n - 1 \in Nat
        /\ \A i \in 1..n - 1 : after[i] = toClient'[i].state
    BY <1>2, <1>3
  <2>. HIDE DEF after
  <2>. QED  BY <2>1, FunctionIsSeq
<1>6. Unseen' = after
  OBVIOUS
<1>. DEFINE list == Unseen
<1>7. list \in Seq(Seq(Nat)) /\ Len(list) = n /\ \A i \in 1..n : list[i] = toClient[i].state
  BY <1>4
<1>. HIDE DEF list, after
<1>8. list # << >>
  BY <1>2, <1>7, EmptySeq
<1>9. /\ Head(list) = list[1] /\ Tail(list) \in Seq(Seq(Nat)) /\ Len(Tail(list)) = n - 1
      /\ \A i \in 1..n - 1 : Tail(list)[i] = list[i + 1]
  BY <1>7, <1>8, HeadTailProperties
<1>10. Head(list) = lastSeen'
  BY <1>1, <1>2, <1>7, <1>9
<1>11. after = Tail(list)
  <2>1. \A i \in 1..n - 1 : after[i] = Tail(list)[i]
    <3>. TAKE i \in 1..n - 1
    <3>1. i + 1 \in 1..n
      BY <1>2
    <3>. QED  BY <1>2, <1>5, <1>7, <1>9, <3>1
  <2>. QED  BY <1>5, <1>9, <2>1, SeqEqual
<1>12. IsPrefix(Shown', lastSeen')
  <2>1. lastSeen' \in Seq(Nat) /\ monitor' \in Monitors
    BY DEF ReplicationInv, ConnectionInv, ConnectionTypeOK
  <2>2. CASE monitor'.known
    <3>1. FrontOf(monitor'.queue, lastSeen') /\ monitor'.queue \in Seq(Nat)
      BY <2>1, <2>2, FieldTypes DEF ReplicationInv, ConnectionInv, KnownIsInStep, InStep
    <3>2. IsPrefix(monitor'.queue, lastSeen')
      BY <2>1, <3>1, FrontIsPrefix
    <3>. QED  BY <2>2, <3>2
  <2>3. CASE ~ monitor'.known
    <3>1. << >> \in Seq(Nat)
      OBVIOUS
    <3>2. IsPrefix(<< >>, lastSeen')
      BY <2>1, <3>1, EmptyFront, FrontIsPrefix
    <3>. QED  BY <2>3, <3>2
  <2>. QED  BY <2>2, <2>3
<1>. QED  BY <1>6, <1>8, <1>10, <1>11, <1>12 DEF Promise!See, Promise!IsPrefix, IsPrefix, list

(* A step that leaves the messages and the monitor alone.                  *)
LEMMA NothingIsSeen ==
    ASSUME ReplicationInv, toClient' = toClient, lastSeen' = lastSeen,
           monitor'.known = monitor.known, monitor'.queue = monitor.queue
    PROVE  Promise!Change \/ UNCHANGED Promise!mirrorVars
<1>1. toClient \in Seq(ClientMessage) /\ << >> \in Seq(ClientMessage)
  BY DEF ReplicationInv, ConnectionInv, ConnectionTypeOK
<1>2. toClient' = toClient \o << >>
  BY <1>1, ConcatEmptySeq
<1>. QED  BY <1>1, <1>2, SendingIsAChange

LEMMA StepsMirror ==
    ReplicationInv /\ ReplicationInv' /\ [MediationNext]_mediationVars
        => [Promise!MirrorNext]_(Promise!mirrorVars)
<1>. SUFFICES ASSUME ReplicationInv, ReplicationInv', [MediationNext]_mediationVars
              PROVE  Promise!MirrorNext \/ UNCHANGED Promise!mirrorVars
  OBVIOUS
<1>. USE DEF Promise!MirrorNext
<1>1. QueueInv /\ toClient \in Seq(ClientMessage) /\ monitor \in Monitors
  BY DEF ReplicationInv, ConnectionInv, ConnectionTypeOK
<1>2. CASE ChangedByOthers
  <2>1. ChangeQueue
    BY <1>2 DEF ChangedByOthers
  <2>2. Messages(signals') \in Seq(ClientMessage)
    BY <1>1, <2>1, OperationIsAUsers, OperationSends DEF ChangeQueue
  <2>3. lastSeen' = lastSeen /\ monitor' = monitor
    BY <2>1 DEF ChangeQueue
  <2>4. CASE subscribed
    BY <1>1, <2>1, <2>2, <2>3, <2>4, SendingIsAChange DEF ChangeQueue
  <2>5. CASE ~ subscribed
    BY <2>1, <2>3, <2>5, NothingIsSeen DEF ChangeQueue
  <2>. QED  BY <2>4, <2>5
<1>3. CASE EnableEvents
  BY <1>3, NothingIsSeen DEF EnableEvents
<1>4. CASE CreateMonitor
  <2>1. ~ monitor.created /\ toClient' = toClient /\ lastSeen' = lastSeen
    BY <1>4 DEF CreateMonitor
  <2>2. monitor = NotCreated /\ monitor' = Delivered(SendInitialFetch([NotCreated EXCEPT !.created = TRUE]))
    <3>1. monitor = NotCreated
      BY <2>1 DEF ReplicationInv, ConnectionInv, NothingIsAsked
    <3>. QED  BY <1>4, <3>1, Zenon DEF CreateMonitor, MonitorBecomes, Delivered
  <2>3. Blank(monitor')
    BY <2>2, CreatedBlank, DeliveredEarly
  <2>4. /\ monitor'.known = FALSE /\ monitor'.queue = << >>
        /\ monitor.known = FALSE /\ monitor.queue = << >>
    BY <2>2, <2>3 DEF Blank, NotCreated
  <2>. QED  BY <2>1, <2>4, NothingIsSeen
<1>5. CASE AnswerFetchRequest
  <2>1. /\ toServer # << >> /\ Head(toServer).type = "fetch"
        /\ toClient' = Append(toClient, QueueContents(Head(toServer)))
        /\ lastSeen' = lastSeen /\ monitor' = monitor
    BY <1>5 DEF AnswerFetchRequest
  <2>2. Head(toServer) \in Fetches
    BY <2>1, OtherRequests DEF ReplicationInv, ConnectionInv, ConnectionTypeOK, RequestOK
  <2>. DEFINE m == QueueContents(Head(toServer))
  <2>3. m \in ClientMessage
    BY <1>1, <2>2, ContentsFollow
  <2>. HIDE DEF m
  <2>4. <<m>> \in Seq(ClientMessage) /\ Append(toClient, m) = toClient \o <<m>>
    BY <1>1, <2>3
  <2>. QED  BY <1>1, <2>1, <2>4, SendingIsAChange DEF m
<1>6. ASSUME NEW index \in 0..MaximumQueueLength, LookAtEntry(index)
      PROVE  Promise!MirrorNext \/ UNCHANGED Promise!mirrorVars
  <2>1. index \in Nat
    BY QueueConstants
  <2>2. monitor'.known = monitor.known /\ monitor'.queue = monitor.queue
    BY <1>6, <2>1, LookingKeepsInv
  <2>3. toClient' = toClient /\ lastSeen' = lastSeen
    BY <1>6 DEF LookAtEntry
  <2>. QED  BY <2>2, <2>3, NothingIsSeen
<1>7. CASE ReceiveAndMediate
  BY <1>7, ReceivingIsSeeing DEF ReceiveAndMediate
<1>8. CASE HandleRequest
  <2>. DEFINE request == Head(toServer)
  <2>1. lastSeen' = lastSeen /\ monitor' = monitor /\ toServer # << >>
    BY <1>8 DEF HandleRequest
  <2>2. RequestOK(request)
    BY <2>1, OtherRequests DEF ReplicationInv, ConnectionInv, ConnectionTypeOK
  <2>3. CASE Possible(request)
    <3>1. PICK i \in 1..Len(queue) : RequestedOperation(request, i - 1)
      BY <1>8, <2>3 DEF HandleRequest
    <3>2. Messages(signals') \in Seq(ClientMessage)
      BY <1>1, <2>2, <3>1, RequestIsAUsers, OperationSends
    <3>3. toClient' = toClient \o Messages(signals')
      BY <1>8, <2>3 DEF HandleRequest
    <3>. QED  BY <1>1, <2>1, <3>2, <3>3, SendingIsAChange
  <2>4. CASE ~ Possible(request)
    BY <1>8, <2>1, <2>4, NothingIsSeen DEF HandleRequest
  <2>. QED  BY <2>3, <2>4
<1>9. ASSUME NEW op, NEW request, DoLocalOperation(op, request)
      PROVE  Promise!MirrorNext \/ UNCHANGED Promise!mirrorVars
  BY <1>9, NothingIsSeen DEF DoLocalOperation
<1>10. ASSUME NEW index \in 0..MaximumQueueLength, RemoveTrack(index)
       PROVE  Promise!MirrorNext \/ UNCHANGED Promise!mirrorVars
  BY <1>9, <1>10 DEF RemoveTrack
<1>11. ASSUME NEW index \in 0..MaximumQueueLength, NEW newIndex \in 0..MaximumQueueLength,
              MoveTrack(index, newIndex)
       PROVE  Promise!MirrorNext \/ UNCHANGED Promise!mirrorVars
  BY <1>9, <1>11 DEF MoveTrack
<1>12. CASE UNCHANGED mediationVars
  BY <1>12, NothingIsSeen DEF mediationVars, vars, replicationVars
<1>. QED  BY <1>2, <1>3, <1>4, <1>5, <1>6, <1>7, <1>8, <1>10, <1>11, <1>12
          DEF MediationNext

(* The monitor never forgets that it knows the length of the queue.        *)
LEMMA KnowsForEver ==
    ReplicationInv /\ monitor.known /\ [MediationNext]_mediationVars => monitor'.known
<1>. SUFFICES ASSUME ReplicationInv, monitor.known, [MediationNext]_mediationVars
              PROVE  monitor'.known
  OBVIOUS
<1>1. ConnectionInv /\ monitor.created
  BY DEF ReplicationInv, ConnectionInv, KnownIsInStep
<1>2. CASE monitor' = monitor
  BY <1>2
<1>3. ASSUME NEW index \in 0..MaximumQueueLength, LookAtEntry(index)
      PROVE  monitor'.known
  <2>1. index \in Nat
    BY QueueConstants
  <2>. QED  BY <1>3, <2>1, LookingKeepsInv
<1>4. CASE ReceiveMessage
  <2>. DEFINE m == Head(toClient)
              c == Handle(monitor, m)
  <2>1. toClient # << >> /\ monitor' = Delivered(c)
    BY <1>1, <1>4, Zenon DEF ReceiveMessage, MonitorBecomes, Delivered
  <2>2. /\ InStep(monitor, lastSeen) /\ Chained(lastSeen, toClient, QueueIds)
        /\ lastSeen \in Seq(Nat) /\ toClient \in Seq(ClientMessage) /\ monitor \in Monitors
    BY <1>1 DEF ConnectionInv, ConnectionTypeOK, KnownIsInStep, MessagesConnect
  <2>3. Follows(lastSeen, m)
    BY <2>1, <2>2, OtherMessages
  <2>4. Informed(monitor, monitor)
    BY <2>2, FieldTypes DEF Informed
  <2>. HIDE DEF m
  <2>5. InStep(Handle(monitor, m), m.state) /\ Informed(monitor, Handle(monitor, m))
    BY <2>2, <2>3, <2>4, HandledInStep
  <2>6. c.known = TRUE /\ InStep(c, m.state)
    BY <2>5 DEF Informed
  <2>. HIDE DEF c
  <2>. QED  BY <2>1, <2>6, DeliveredInStep DEF InStep
<1>5. ASSUME NEW op, NEW request, DoLocalOperation(op, request)
      PROVE  monitor' = monitor
  BY <1>5 DEF DoLocalOperation
<1>6. ASSUME NEW index \in 0..MaximumQueueLength, RemoveTrack(index)
      PROVE  monitor' = monitor
  BY <1>5, <1>6 DEF RemoveTrack
<1>7. ASSUME NEW index \in 0..MaximumQueueLength, NEW newIndex \in 0..MaximumQueueLength,
             MoveTrack(index, newIndex)
      PROVE  monitor' = monitor
  BY <1>5, <1>7 DEF MoveTrack
<1>8. CASE ChangedByOthers \/ EnableEvents \/ AnswerFetchRequest \/ HandleRequest
  BY <1>2, <1>8 DEF ChangedByOthers, ChangeQueue, EnableEvents, AnswerFetchRequest, HandleRequest
<1>9. CASE CreateMonitor
  BY <1>1, <1>9 DEF CreateMonitor
<1>10. CASE UNCHANGED mediationVars
  BY <1>2, <1>10 DEF mediationVars, vars, replicationVars
<1>. QED  BY <1>2, <1>3, <1>4, <1>6, <1>7, <1>8, <1>9, <1>10 DEF MediationNext, ReceiveAndMediate

(* The monitor follows the queue: it knows the length, its list is a front *)
(* of the queue as it has seen it, and what is on its way leads from there *)
(* to the queue as it is.  No constant is restricted, and nothing is said  *)
(* of how it got there.                                                    *)
FollowsTheQueue == ReplicationInv /\ monitor.known

LEMMA ListOfAFollower ==
    ReplicationInv => ListIsPrefix /\ InconsistencyIsRepaired
<1>. SUFFICES ASSUME ReplicationInv
              PROVE  ListIsPrefix /\ InconsistencyIsRepaired
  OBVIOUS
<1>1. /\ QueueInv /\ ConnectionInv /\ lastSeen \in Seq(Nat)
      /\ monitor \in Monitors /\ monitor.queue \in Seq(Nat)
  BY FieldTypes DEF ReplicationInv, ConnectionInv, ConnectionTypeOK
<1>2. ListIsPrefix
  <2>1. ASSUME monitor.known
        PROVE  FrontOf(monitor.queue, lastSeen) /\ monitor.length = Len(lastSeen)
    BY <1>1, <2>1 DEF ConnectionInv, KnownIsInStep, InStep
  <2>. QED  BY <1>1, <2>1, FrontIsPrefix DEF ListIsPrefix
<1>3. ASSUME monitor.created, toClient = << >>
      PROVE  IsPrefix(monitor.queue, QueueIds)
  <2>1. CASE monitor.known \/ monitor.queue # << >>
    <3>1. Chained(lastSeen, << >>, QueueIds) /\ Len(<< >>) = 0
      BY <1>1, <1>3, <2>1 DEF ConnectionInv, MessagesConnect
    <3>2. QueueIds = lastSeen
      BY <3>1 DEF Chained, Before
    <3>3. FrontOf(monitor.queue, lastSeen)
      <4>1. CASE monitor.known
        BY <1>1, <4>1 DEF ConnectionInv, KnownIsInStep, InStep
      <4>2. CASE ~ monitor.known
        BY <1>1, <1>3, <2>1, <4>2 DEF ConnectionInv, LittleIsKnown, Blank
      <4>. QED  BY <4>1, <4>2
    <3>. QED  BY <1>1, <3>2, <3>3, FrontIsPrefix
  <2>2. CASE monitor.queue = << >>
    <3>1. QueueIds \in Seq(Nat)
      BY <1>1, QueueIdsAreIds DEF QueueInv, QueueTypeOK
    <3>2. FrontOf(monitor.queue, QueueIds)
      BY <2>2, <3>1, EmptyFront
    <3>. QED  BY <1>1, <3>1, <3>2, FrontIsPrefix
  <2>. QED  BY <2>1, <2>2
<1>. QED  BY <1>2, <1>3 DEF InconsistencyIsRepaired, Quiet

(* A monitor that follows the queue does so for ever, for queues, fetches  *)
(* and connections of every size: no mix of events and overlapping fetches *)
(* confuses it, whatever others do to the queue and the user asks for.     *)
THEOREM FollowsForEver ==
    MediationSpec =>
        [](FollowsTheQueue => [](FollowsTheQueue /\ ListIsPrefix /\ InconsistencyIsRepaired))
<1>1. FollowsTheQueue /\ [MediationNext]_mediationVars => FollowsTheQueue'
  <2>. SUFFICES ASSUME ReplicationInv, monitor.known, [MediationNext]_mediationVars
                PROVE  ReplicationInv' /\ monitor'.known
    BY DEF FollowsTheQueue
  <2>1. monitor'.known
    BY KnowsForEver
  <2>2. FewAreEarly'
    BY <2>1 DEF FewAreEarly
  <2>. QED  BY <2>1, <2>2, ReplicationNextInv
<1>2. FollowsTheQueue => ListIsPrefix /\ InconsistencyIsRepaired
  BY ListOfAFollower DEF FollowsTheQueue
<1>. QED  BY <1>1, <1>2, PTL DEF MediationSpec

(* The client sees every state of the queue, in order, and of each of them *)
(* a part that starts at the front, in every execution in which at most    *)
(* one event is sent before the first contents: until then the monitor     *)
(* takes the queue for an empty one, and some sequences of four such       *)
(* events do leave it with a wrong list.  In such an execution the first   *)
(* contents make the monitor follow the queue.                             *)
THEOREM QueueIsMirrored ==
    MediationSpec /\ []FewAreEarly =>
        MirrorsTheQueue /\ [](monitor.known => FollowsTheQueue)
<1>1. MediationInit => Promise!MirrorInit
  <2>. SUFFICES ASSUME MediationInit
                PROVE  Promise!MirrorInit
    OBVIOUS
  <2>1. toClient = << >> /\ monitor.known = FALSE /\ lastSeen = << >>
    BY DEF MediationInit, ReplicationInit, NotCreated
  <2>2. [i \in 1..Len(toClient) |-> toClient[i].state] = << >>
    <3>1. Len(toClient) = 0
      BY <2>1
    <3>. QED  BY <3>1
  <2>. QED  BY <2>1, <2>2 DEF Promise!MirrorInit
<1>2. MediationInit => ReplicationInv
  BY ReplicationInitInv
<1>3. ReplicationInv /\ [MediationNext]_mediationVars /\ FewAreEarly' => ReplicationInv'
  BY ReplicationNextInv
<1>4. ReplicationInv /\ ReplicationInv' /\ [MediationNext]_mediationVars
        => [Promise!MirrorNext]_(Promise!mirrorVars)
  BY StepsMirror
<1>5. ReplicationInv => (monitor.known => FollowsTheQueue)
  BY DEF FollowsTheQueue
<1>. QED  BY <1>1, <1>2, <1>3, <1>4, <1>5, PTL
          DEF MediationSpec, MirrorsTheQueue, Promise!Mirror
=============================================================================
