---------------------------- MODULE PlayerProofs ----------------------------
(***************************************************************************)
(* Proofs about PlayerQueue, Player and Preloader.  First the queue, for   *)
(* queues and histories of every length: its types, the cached position of *)
(* the first track, the lookup table (no ID is handed out twice, and none  *)
(* is forgotten too early), and the signals (replayed in order, they give  *)
(* a listener the queue as it has become).  Then the player, for queues of *)
(* every length and any number of instances.  Last the preloader, for any  *)
(* limits: what it remembers is looked after, and what is locked stays.    *)
(***************************************************************************)
EXTENDS Player, Preloader, SequenceTheorems, FiniteSetTheorems,
        WellFoundedInduction, TLAPS

-----------------------------------------------------------------------------
(* The list operations.                                                    *)

LEMMA FunctionIsSeq ==
    ASSUME NEW S, NEW n \in Nat, NEW f \in [1..n -> S]
    PROVE  f \in Seq(S) /\ Len(f) = n
  OBVIOUS

LEMMA InsertProperties ==
    ASSUME NEW S, NEW seq \in Seq(S), NEW e \in S, NEW index \in 0..Len(seq)
    PROVE  /\ Insert(seq, index, e) \in Seq(S)
           /\ Len(Insert(seq, index, e)) = Len(seq) + 1
           /\ \A i \in 1..Len(seq) + 1 :
                 Insert(seq, index, e)[i] =
                    IF i <= index THEN seq[i]
                    ELSE IF i = index + 1 THEN e ELSE seq[i - 1]
<1>1. Len(seq) \in Nat
  BY LenProperties
<1>2. Insert(seq, index, e) \in [1..Len(seq) + 1 -> S]
  BY <1>1, ElementOfSeq DEF Insert
<1>. QED  BY <1>1, <1>2, FunctionIsSeq DEF Insert

LEMMA RemoveProperties ==
    ASSUME NEW S, NEW seq \in Seq(S), NEW index \in 0..Len(seq) - 1
    PROVE  /\ DeleteAt(seq, index) \in Seq(S)
           /\ Len(DeleteAt(seq, index)) = Len(seq) - 1
           /\ \A i \in 1..Len(seq) - 1 :
                 DeleteAt(seq, index)[i] = IF i <= index THEN seq[i] ELSE seq[i + 1]
<1>1. Len(seq) \in Nat
  BY LenProperties
<1>2. DeleteAt(seq, index) \in [1..Len(seq) - 1 -> S]
  BY <1>1, ElementOfSeq DEF DeleteAt
<1>. QED  BY <1>1, <1>2, FunctionIsSeq DEF DeleteAt

LEMMA MoveProperties ==
    ASSUME NEW S, NEW seq \in Seq(S), NEW index \in 0..Len(seq) - 1,
           NEW newIndex \in 0..Len(seq) - 1
    PROVE  /\ Move(seq, index, newIndex) \in Seq(S)
           /\ Len(Move(seq, index, newIndex)) = Len(seq)
           /\ \A i \in 1..Len(seq) :
                 Move(seq, index, newIndex)[i] =
                    IF i = newIndex + 1 THEN seq[index + 1]
                    ELSE IF i > index /\ i <= newIndex THEN seq[i + 1]
                    ELSE IF i > newIndex + 1 /\ i <= index + 1 THEN seq[i - 1]
                    ELSE seq[i]
<1>1. Len(seq) \in Nat
  BY LenProperties
<1>2. Move(seq, index, newIndex) \in [1..Len(seq) -> S]
  BY <1>1, ElementOfSeq DEF Move
<1>. QED  BY <1>1, <1>2, FunctionIsSeq DEF Move

-----------------------------------------------------------------------------
(* The search for the first track.                                         *)

(* Position f is that of the first track between two indexes, or no        *)
(* position at all because there is no track between them.                 *)
IsFirst(q, f, start, end) ==
    \/ /\ f = NoFirstTrack
       /\ \A i \in start..end - 1 : i < Len(q) => ~ IsTrack(q[i + 1])
    \/ /\ f.index \in start..end - 1
       /\ f.index < Len(q)
       /\ IsTrack(q[f.index + 1])
       /\ f = [index |-> f.index, id |-> q[f.index + 1].queueID]
       /\ \A i \in start..f.index - 1 : ~ IsTrack(q[i + 1])

(* A set of natural numbers that is not empty has a smallest element: the  *)
(* initial segments of its elements are finite sets, and strict inclusion  *)
(* is well-founded on finite sets.                                         *)
LEMMA MinimumExists ==
    ASSUME NEW T \in SUBSET Nat, T # {}
    PROVE  \E x \in T : \A y \in T : x <= y
<1>. DEFINE Segments == {0..x : x \in T}
            R == StrictSubsetOrdering(Nat)
<1>1. IsWellFoundedOn(R, FiniteSubsetsOf(Nat))
  BY FS_StrictSubsetOrderingWellFounded
<1>2. Segments \subseteq FiniteSubsetsOf(Nat) /\ Segments # {}
  <2>1. ASSUME NEW x \in T
        PROVE  0..x \in FiniteSubsetsOf(Nat)
    <3>1. x \in Int /\ 0 \in Int
      OBVIOUS
    <3>2. IsFiniteSet(0..x)
      BY <3>1, FS_Interval
    <3>. QED  BY <3>2 DEF FiniteSubsetsOf
  <2>. QED  BY <2>1
<1>. HIDE DEF R, Segments
<1>3. PICK segment \in Segments : \A s \in Segments : <<s, segment>> \notin R
  BY <1>1, <1>2, WFMin
<1>4. PICK x \in T : segment = 0..x
  BY DEF Segments
<1>5. ASSUME NEW y \in T, y < x
      PROVE  FALSE
  <2>1. 0..y \in Segments /\ x \in Nat /\ y \in Nat
    BY DEF Segments
  <2>2. 0..y \subseteq 0..x /\ x \in 0..x /\ x \notin 0..y
    BY <1>5, <2>1
  <2>3. <<0..y, 0..x>> \in R
    BY <2>1, <2>2 DEF R, StrictSubsetOrdering
  <2>. QED  BY <1>3, <1>4, <2>1, <2>3
<1>. QED  BY <1>5

(* findFirstTrackBetweenIndices finds the first track, and nothing else    *)
(* is the first track.                                                     *)
LEMMA FindFirstTrackIsFirst ==
    ASSUME NEW q \in Seq(Entry), NEW start \in Nat, NEW end \in Int, NEW f
    PROVE  f = FindFirstTrackBetween(q, start, end) <=> IsFirst(q, f, start, end)
<1>. DEFINE T == TrackIndexes(q, start, end)
<1>1. Len(q) \in Nat
  BY LenProperties
<1>2. T \in SUBSET Nat
  BY <1>1 DEF TrackIndexes
<1>3. CASE T = {}
  <2>1. \A i \in start..end - 1 : i < Len(q) => ~ IsTrack(q[i + 1])
    BY <1>3 DEF TrackIndexes
  <2>2. FindFirstTrackBetween(q, start, end) = NoFirstTrack
    BY <1>3 DEF FindFirstTrackBetween
  <2>. QED  BY <2>1, <2>2 DEF IsFirst
<1>4. CASE T # {}
  <2>. DEFINE m == CHOOSE i \in T : \A j \in T : i <= j
  <2>1. m \in T /\ \A j \in T : m <= j
    BY <1>2, <1>4, MinimumExists
  <2>2. FindFirstTrackBetween(q, start, end) = [index |-> m, id |-> q[m + 1].queueID]
    BY <1>4 DEF FindFirstTrackBetween
  <2>3. m \in start..end - 1 /\ m < Len(q) /\ IsTrack(q[m + 1])
    BY <2>1 DEF TrackIndexes
  <2>4. ASSUME NEW i \in start..m - 1, IsTrack(q[i + 1])
        PROVE  FALSE
    <3>1. i \in start..end - 1 /\ i < Len(q) /\ i < m
      BY <1>1, <2>3
    <3>2. i \in T
      BY <2>4, <3>1 DEF TrackIndexes
    <3>3. m \in Nat /\ i \in Nat
      BY <1>2, <2>1, <3>2
    <3>4. m <= i
      BY <2>1, <3>2
    <3>. HIDE DEF m
    <3>. QED  BY <3>1, <3>3, <3>4
  <2>5. ASSUME f = FindFirstTrackBetween(q, start, end)
        PROVE  IsFirst(q, f, start, end)
    BY <2>2, <2>3, <2>4, <2>5 DEF IsFirst
  <2>6. ASSUME IsFirst(q, f, start, end)
        PROVE  f = FindFirstTrackBetween(q, start, end)
    <3>1. ~ \A i \in start..end - 1 : i < Len(q) => ~ IsTrack(q[i + 1])
      BY <2>3
    <3>2. /\ f.index \in start..end - 1
          /\ f.index < Len(q)
          /\ IsTrack(q[f.index + 1])
          /\ f = [index |-> f.index, id |-> q[f.index + 1].queueID]
          /\ \A i \in start..f.index - 1 : ~ IsTrack(q[i + 1])
      BY <2>6, <3>1 DEF IsFirst
    <3>3. f.index \in T
      BY <3>2 DEF TrackIndexes
    <3>4. f.index = m
      <4>1. m <= f.index /\ m \in Nat /\ f.index \in Nat
        BY <1>2, <2>1, <3>3
      <4>2. ~ m < f.index
        BY <2>3, <3>2
      <4>. HIDE DEF m
      <4>. QED  BY <4>1, <4>2
    <3>. QED  BY <2>2, <3>2, <3>4
  <2>. QED  BY <2>5, <2>6
<1>. QED  BY <1>3, <1>4

-----------------------------------------------------------------------------
(* The inductive invariant: the cached first track is only right after an  *)
(* operation if it was right before, and if the entries have their types.  *)

QueueInv == QueueTypeOK /\ FirstTrackIsCached

LEMMA FirstTrackIsFirst ==
    ASSUME QueueTypeOK
    PROVE  FirstTrackIsCached <=> IsFirst(queue, firstTrack, 0, Len(queue))
<1>1. queue \in Seq(Entry) /\ Len(queue) \in Int
  BY LenProperties DEF QueueTypeOK
<1>. QED  BY <1>1, FindFirstTrackIsFirst DEF FirstTrackIsCached

(* What the invariant says of the variables.                               *)
NoTrack ==
    /\ firstTrackIndex = -1 /\ firstTrackQueueId = 0
    /\ \A i \in 0..Len(queue) - 1 : ~ IsTrack(queue[i + 1])

SomeTrack ==
    /\ firstTrackIndex \in 0..Len(queue) - 1
    /\ IsTrack(queue[firstTrackIndex + 1])
    /\ firstTrackQueueId = queue[firstTrackIndex + 1].queueID
    /\ \A i \in 0..firstTrackIndex - 1 : ~ IsTrack(queue[i + 1])

LEMMA FirstTrackCases ==
    ASSUME QueueInv
    PROVE  NoTrack \/ SomeTrack
<1>1. Len(queue) \in Nat
  BY LenProperties DEF QueueInv, QueueTypeOK
<1>2. IsFirst(queue, firstTrack, 0, Len(queue))
  BY FirstTrackIsFirst DEF QueueInv
<1>3. CASE firstTrack = NoFirstTrack /\ \A i \in 0..Len(queue) - 1 : ~ IsTrack(queue[i + 1])
  BY <1>3 DEF NoTrack, firstTrack, NoFirstTrack, NoIndex, NoQueueId
<1>4. CASE /\ firstTrack.index \in 0..Len(queue) - 1
           /\ IsTrack(queue[firstTrack.index + 1])
           /\ firstTrack = [index |-> firstTrack.index,
                            id |-> queue[firstTrack.index + 1].queueID]
           /\ \A i \in 0..firstTrack.index - 1 : ~ IsTrack(queue[i + 1])
  BY <1>4 DEF SomeTrack, firstTrack
<1>. QED  BY <1>1, <1>2, <1>3, <1>4 DEF IsFirst

LEMMA FirstTrackIsFirstPrime ==
    ASSUME QueueTypeOK', IsFirst(queue', firstTrack', 0, Len(queue'))
    PROVE  FirstTrackIsCached'
<1>1. queue' \in Seq(Entry) /\ Len(queue') \in Int
  BY LenProperties DEF QueueTypeOK
<1>. QED  BY <1>1, FindFirstTrackIsFirst DEF FirstTrackIsCached

(* What a search for the first track returns is a position.                *)
LEMMA IsFirstType ==
    ASSUME NEW q \in Seq(Entry), NEW f, NEW start \in Nat, NEW end \in Int,
           IsFirst(q, f, start, end)
    PROVE  f \in [index : Int, id : Nat]
<1>1. CASE f = NoFirstTrack
  BY <1>1 DEF NoFirstTrack, NoIndex, NoQueueId
<1>2. CASE f # NoFirstTrack
  <2>1. /\ f.index \in start..end - 1 /\ f.index < Len(q)
        /\ f = [index |-> f.index, id |-> q[f.index + 1].queueID]
    BY <1>2 DEF IsFirst
  <2>2. f.index + 1 \in 1..Len(q)
    BY <2>1, LenProperties
  <2>3. q[f.index + 1] \in Entry
    BY <2>2, ElementOfSeq
  <2>4. q[f.index + 1].queueID \in Nat
    BY <2>3 DEF Entry
  <2>5. f.index \in Int
    BY <2>1
  <2>. QED  BY <2>1, <2>4, <2>5
<1>. QED  BY <1>1, <1>2

(* The signals of an operation have the type of signals.                   *)
LEMMA FinishType ==
    ASSUME NEW first \in [index : Int, id : Nat], NEW signal \in Signal,
           Finish(first, signal)
    PROVE  /\ firstTrackIndex' \in Int
           /\ firstTrackQueueId' \in Nat
           /\ signals' \in Seq(Signal)
           /\ firstTrack' = first
<1>1. FirstTrackChanged(first) \in Signal
  BY DEF FirstTrackChanged, Signal, NoIndex
<1>2. signals' = <<signal>> \/ signals' = <<signal, FirstTrackChanged(first)>>
  BY DEF Finish
<1>3. <<signal>> \in Seq(Signal) /\ <<signal, FirstTrackChanged(first)>> \in Seq(Signal)
  <2>. DEFINE changed == FirstTrackChanged(first)
  <2>. HIDE DEF changed
  <2>1. changed \in Signal
    BY <1>1 DEF changed
  <2>2. <<signal>> \in Seq(Signal) /\ <<signal, changed>> \in Seq(Signal)
    BY <2>1
  <2>. QED  BY <2>2 DEF changed
<1>4. signals' \in Seq(Signal)
  BY <1>2, <1>3
<1>. QED  BY <1>4 DEF Finish, firstTrack

(* The inductive invariant holds of the empty queue of the constructor.    *)
THEOREM QueueInitInv == QueueInit => QueueInv
<1>. SUFFICES ASSUME QueueInit PROVE QueueInv
  OBVIOUS
<1>1. QueueTypeOK
  BY DEF QueueInit, QueueTypeOK, NoIndex, NoQueueId
<1>2. IsFirst(queue, firstTrack, 0, Len(queue))
  BY DEF QueueInit, IsFirst, firstTrack, NoFirstTrack
<1>. QED  BY <1>1, <1>2, FirstTrackIsFirst DEF QueueInv

(* Inserting an entry.                                                     *)
LEMMA InsertKeepsInv ==
    ASSUME QueueInv, NEW index \in 0..Len(queue), NEW kind \in Kinds,
           InsertAtIndex(index, kind)
    PROVE  QueueInv'
<1>. DEFINE entry == [queueID |-> nextQueueID, kind |-> kind]
            first == FirstTrackAfterInsert(index, entry)
<1>1. queue \in Seq(Entry) /\ Len(queue) \in Nat /\ index \in Nat
  BY LenProperties DEF QueueInv, QueueTypeOK
<1>2. entry \in Entry
  BY DEF QueueInv, QueueTypeOK, Entry
<1>3. /\ queue' = Insert(queue, index, entry)
      /\ Finish(first, EntryAdded(index, nextQueueID))
  BY DEF InsertAtIndex
<1>4. /\ queue' \in Seq(Entry)
      /\ Len(queue') = Len(queue) + 1
      /\ \A i \in 1..Len(queue) + 1 :
            queue'[i] = IF i <= index THEN queue[i]
                        ELSE IF i = index + 1 THEN entry ELSE queue[i - 1]
  <2>1. ASSUME NEW e \in Entry
        PROVE  /\ Insert(queue, index, e) \in Seq(Entry)
               /\ Len(Insert(queue, index, e)) = Len(queue) + 1
               /\ \A i \in 1..Len(queue) + 1 :
                     Insert(queue, index, e)[i] =
                        IF i <= index THEN queue[i]
                        ELSE IF i = index + 1 THEN e ELSE queue[i - 1]
    <3>1. queue \in Seq(Entry)
      BY <1>1
    <3>. QED  BY ONLY <3>1, e \in Entry, index \in 0..Len(queue), InsertProperties
  <2>. HIDE DEF entry
  <2>. QED  BY <1>2, <1>3, <2>1
<1>5. NoTrack \/ SomeTrack
  BY FirstTrackCases
<1>. HIDE DEF entry
<1>6. \A i \in 0..index - 1 : queue'[i + 1] = queue[i + 1]
  BY <1>1, <1>4
<1>7. queue'[index + 1] = entry
  BY <1>1, <1>4
<1>8. \A i \in index..Len(queue) - 1 : queue'[i + 2] = queue[i + 1]
  BY <1>1, <1>4
<1>9. IsFirst(queue', first, 0, Len(queue'))
  <2>1. CASE (firstTrackIndex < 0 \/ firstTrackIndex >= index) /\ IsTrack(entry)
    <3>1. first = [index |-> index, id |-> entry.queueID]
      BY <2>1 DEF FirstTrackAfterInsert
    <3>2. \A i \in 0..index - 1 : ~ IsTrack(queue[i + 1])
      BY <1>1, <1>5, <2>1 DEF NoTrack, SomeTrack
    <3>. HIDE DEF first
    <3>. QED  BY <1>1, <1>4, <1>6, <1>7, <2>1, <3>1, <3>2 DEF IsFirst
  <2>2. CASE ~ IsTrack(entry) /\ firstTrackIndex >= index
    <3>1. first = [index |-> firstTrackIndex + 1, id |-> firstTrackQueueId]
      BY <1>1, <1>5, <2>2 DEF FirstTrackAfterInsert, MovedFirstTrack, NoTrack, SomeTrack
    <3>2. SomeTrack
      BY <1>1, <1>5, <2>2 DEF NoTrack
    <3>3. queue'[firstTrackIndex + 2] = queue[firstTrackIndex + 1]
      BY <1>1, <1>8, <2>2, <3>2 DEF SomeTrack
    <3>4. ASSUME NEW i \in 0..firstTrackIndex PROVE ~ IsTrack(queue'[i + 1])
      <4>1. CASE i < index
        BY <1>1, <1>6, <2>2, <3>2, <4>1 DEF SomeTrack
      <4>2. CASE i = index
        BY <1>7, <2>2, <4>2
      <4>3. CASE i > index
        <5>1. i - 1 \in index..Len(queue) - 1 /\ i - 1 \in 0..firstTrackIndex - 1
          BY <1>1, <3>2, <4>3 DEF SomeTrack
        <5>2. queue'[(i - 1) + 2] = queue[(i - 1) + 1]
          BY <1>8, <5>1
        <5>3. ~ IsTrack(queue[(i - 1) + 1])
          BY <3>2, <5>1 DEF SomeTrack
        <5>4. (i - 1) + 2 = i + 1
          BY <3>2 DEF SomeTrack
        <5>. QED  BY <5>2, <5>3, <5>4
      <4>. QED  BY <1>1, <3>2, <4>1, <4>2, <4>3 DEF SomeTrack
    <3>. HIDE DEF first
    <3>. QED  BY <1>1, <1>4, <3>1, <3>2, <3>3, <3>4 DEF IsFirst, SomeTrack
  <2>3. CASE /\ firstTrackIndex < index
             /\ ~ (firstTrackIndex < 0 /\ IsTrack(entry))
    <3>1. first = firstTrack
      BY <1>1, <1>5, <2>3 DEF FirstTrackAfterInsert, NoTrack, SomeTrack
    <3>2. CASE NoTrack
      <4>1. \A i \in 0..Len(queue) : ~ IsTrack(queue'[i + 1])
        <5>1. \A i \in 0..Len(queue) : queue'[i + 1] = IF i < index THEN queue[i + 1]
                                      ELSE IF i = index THEN entry ELSE queue[i]
          BY <1>1, <1>4
        <5>2. ASSUME NEW i \in index + 1..Len(queue) PROVE ~ IsTrack(queue[i])
          <6>1. i - 1 \in 0..Len(queue) - 1 /\ (i - 1) + 1 = i
            BY <1>1
          <6>. QED  BY <3>2, <6>1 DEF NoTrack
        <5>. QED  BY <1>1, <2>3, <3>2, <5>1, <5>2 DEF NoTrack
      <4>2. firstTrack = NoFirstTrack
        BY <3>2 DEF NoTrack, firstTrack, NoFirstTrack, NoIndex, NoQueueId
      <4>. HIDE DEF first
      <4>. QED  BY <1>1, <1>4, <3>1, <4>1, <4>2 DEF IsFirst
    <3>3. CASE SomeTrack
      <4>. HIDE DEF first
      <4>. QED  BY <1>1, <1>4, <1>6, <2>3, <3>1, <3>3 DEF IsFirst, SomeTrack, firstTrack
    <3>. QED  BY <1>5, <3>2, <3>3
  <2>. QED  BY <1>1, <1>5, <2>1, <2>2, <2>3 DEF NoTrack, SomeTrack
<1>10. first \in [index : Int, id : Nat]
  BY <1>1, <1>4, <1>9, IsFirstType
<1>11. EntryAdded(index, nextQueueID) \in Signal
  BY <1>1 DEF EntryAdded, Signal, QueueInv, QueueTypeOK, NoIndex
<1>. HIDE DEF first
<1>12. /\ firstTrackIndex' \in Int /\ firstTrackQueueId' \in Nat
       /\ signals' \in Seq(Signal) /\ firstTrack' = first
  BY <1>3, <1>10, <1>11, FinishType
<1>13. /\ idLookup' \in SUBSET (Nat \ {NoQueueId})
       /\ history' \in Seq(Nat \ {NoQueueId})
       /\ nextQueueID' \in Nat \ {NoQueueId}
  BY DEF QueueInv, QueueTypeOK, InsertAtIndex, NoQueueId
<1>14. QueueTypeOK'
  BY <1>4, <1>12, <1>13 DEF QueueTypeOK
<1>. QED  BY <1>9, <1>12, <1>14, FirstTrackIsFirstPrime DEF QueueInv

(* Removing an entry, at the front or elsewhere.                           *)
LEMMA RemovalFirst ==
    ASSUME QueueInv, NEW index \in 0..Len(queue) - 1,
           queue' = DeleteAt(queue, index)
    PROVE  IsFirst(queue', FirstTrackAfterRemove(index), 0, Len(queue'))
<1>. DEFINE first == FirstTrackAfterRemove(index)
<1>. SUFFICES IsFirst(queue', first, 0, Len(queue'))
  OBVIOUS
<1>1. queue \in Seq(Entry) /\ Len(queue) \in Nat /\ index \in Nat
  BY LenProperties DEF QueueInv, QueueTypeOK
<1>2. /\ queue' \in Seq(Entry)
      /\ Len(queue') = Len(queue) - 1
      /\ \A i \in 1..Len(queue) - 1 :
            queue'[i] = IF i <= index THEN queue[i] ELSE queue[i + 1]
  <2>1. /\ DeleteAt(queue, index) \in Seq(Entry)
        /\ Len(DeleteAt(queue, index)) = Len(queue) - 1
        /\ \A i \in 1..Len(queue) - 1 :
              DeleteAt(queue, index)[i] =
                 IF i <= index THEN queue[i] ELSE queue[i + 1]
    BY <1>1, RemoveProperties, SMTT(30)
  <2>. QED  BY <2>1
<1>3. \A i \in 0..index - 1 : queue'[i + 1] = queue[i + 1]
  BY <1>1, <1>2
<1>4. \A i \in index..Len(queue) - 2 : queue'[i + 1] = queue[i + 2]
  BY <1>1, <1>2
<1>5. NoTrack \/ SomeTrack
  BY FirstTrackCases
<1>6. CASE NoTrack
  <2>1. first = NoFirstTrack
    BY <1>1, <1>6 DEF FirstTrackAfterRemove, NoTrack, firstTrack, NoFirstTrack, NoIndex, NoQueueId
  <2>2. ASSUME NEW i \in 0..Len(queue) - 2 PROVE ~ IsTrack(queue'[i + 1])
    <3>1. CASE i < index
      BY <1>1, <1>3, <1>6, <3>1 DEF NoTrack
    <3>2. CASE i >= index
      <4>1. i + 1 \in 0..Len(queue) - 1 /\ (i + 1) + 1 = i + 2
        BY <1>1
      <4>2. ~ IsTrack(queue[i + 2])
        BY <1>6, <4>1 DEF NoTrack
      <4>. QED  BY <1>1, <1>4, <3>2, <4>2
    <3>. QED  BY <1>1, <3>1, <3>2
  <2>. HIDE DEF first
  <2>. QED  BY <1>1, <1>2, <2>1, <2>2 DEF IsFirst
<1>7. CASE SomeTrack /\ firstTrackIndex < index
  <2>1. first = firstTrack
    BY <1>1, <1>7 DEF FirstTrackAfterRemove, SomeTrack
  <2>2. first = [index |-> firstTrackIndex, id |-> queue[firstTrackIndex + 1].queueID]
    BY <1>7, <2>1 DEF SomeTrack, firstTrack
  <2>3. /\ firstTrackIndex \in 0..index - 1
        /\ queue'[firstTrackIndex + 1] = queue[firstTrackIndex + 1]
        /\ IsTrack(queue[firstTrackIndex + 1])
    BY <1>1, <1>3, <1>7 DEF SomeTrack
  <2>4. \A i \in 0..firstTrackIndex - 1 : ~ IsTrack(queue'[i + 1])
    BY <1>1, <1>3, <1>7 DEF SomeTrack
  <2>. HIDE DEF first
  <2>. QED  BY <1>1, <1>2, <2>2, <2>3, <2>4 DEF IsFirst
<1>8. CASE SomeTrack /\ firstTrackIndex = index
  <2>1. first = FindFirstTrackBetween(queue', index, Len(queue) - 1)
    BY <1>1, <1>8 DEF FirstTrackAfterRemove, SomeTrack
  <2>2. IsFirst(queue', first, index, Len(queue) - 1)
    BY <1>1, <1>2, <2>1, FindFirstTrackIsFirst
  <2>3. \A i \in 0..index - 1 : ~ IsTrack(queue'[i + 1])
    BY <1>1, <1>3, <1>8 DEF SomeTrack
  <2>. HIDE DEF first
  <2>. QED  BY <1>1, <1>2, <2>2, <2>3 DEF IsFirst
<1>9. CASE SomeTrack /\ firstTrackIndex > index
  <2>1. first = [index |-> firstTrackIndex - 1, id |-> firstTrackQueueId]
    BY <1>1, <1>9 DEF FirstTrackAfterRemove, MovedFirstTrack, SomeTrack
  <2>2. queue'[firstTrackIndex] = queue[firstTrackIndex + 1]
    BY <1>1, <1>2, <1>9 DEF SomeTrack
  <2>3. ASSUME NEW i \in 0..firstTrackIndex - 2 PROVE ~ IsTrack(queue'[i + 1])
    <3>1. CASE i < index
      <4>1. i \in 0..index - 1 /\ i \in 0..firstTrackIndex - 1
        BY <1>1, <1>9, <3>1 DEF SomeTrack
      <4>. QED  BY <1>3, <1>9, <4>1 DEF SomeTrack
    <3>2. CASE i >= index
      <4>1. i + 1 \in 0..firstTrackIndex - 1 /\ (i + 1) + 1 = i + 2
            /\ i \in index..Len(queue) - 2
        BY <1>1, <1>9, <3>2 DEF SomeTrack
      <4>2. ~ IsTrack(queue[i + 2])
        BY <1>9, <4>1 DEF SomeTrack
      <4>. QED  BY <1>4, <4>1, <4>2
    <3>. QED  BY <1>1, <1>9, <3>1, <3>2 DEF SomeTrack
  <2>. HIDE DEF first
  <2>. QED  BY <1>1, <1>2, <1>9, <2>1, <2>2, <2>3 DEF IsFirst, SomeTrack
<1>. QED  BY <1>1, <1>5, <1>6, <1>7, <1>8, <1>9 DEF SomeTrack

(* The rest of an operation that takes one entry out of the queue.         *)
LEMMA RemovalKeepsInv ==
    ASSUME QueueInv, NEW index \in 0..Len(queue) - 1,
           queue' = DeleteAt(queue, index),
           Finish(FirstTrackAfterRemove(index),
                  EntryRemoved(index, queue[index + 1].queueID)),
           idLookup' \subseteq idLookup,
           UNCHANGED <<history, nextQueueID>>
    PROVE  QueueInv'
<1>. DEFINE first == FirstTrackAfterRemove(index)
<1>1. queue \in Seq(Entry) /\ Len(queue) \in Nat /\ index + 1 \in 1..Len(queue)
  BY LenProperties DEF QueueInv, QueueTypeOK
<1>2. queue' \in Seq(Entry) /\ Len(queue') = Len(queue) - 1
  BY <1>1, RemoveProperties
<1>3. IsFirst(queue', first, 0, Len(queue'))
  BY RemovalFirst
<1>4. first \in [index : Int, id : Nat]
  BY <1>1, <1>2, <1>3, IsFirstType
<1>5. queue[index + 1] \in Entry
  BY <1>1, ElementOfSeq
<1>6. EntryRemoved(index, queue[index + 1].queueID) \in Signal
  BY <1>5 DEF EntryRemoved, Signal, Entry, NoIndex
<1>7. /\ firstTrackIndex' \in Int /\ firstTrackQueueId' \in Nat
      /\ signals' \in Seq(Signal) /\ firstTrack' = first
  BY <1>4, <1>6, FinishType
<1>8. QueueTypeOK'
  BY <1>2, <1>7 DEF QueueInv, QueueTypeOK
<1>. QED  BY <1>3, <1>7, <1>8, FirstTrackIsFirstPrime DEF QueueInv

LEMMA RemoveKeepsInv ==
    ASSUME QueueInv, NEW index \in 0..Len(queue) - 1, RemoveAtIndex(index)
    PROVE  QueueInv'
  BY RemovalKeepsInv DEF RemoveAtIndex

LEMMA TailIsDeletion ==
    ASSUME NEW S, NEW seq \in Seq(S), seq # << >>
    PROVE  Tail(seq) = DeleteAt(seq, 0)
<1>1. Len(seq) \in Nat /\ 0 \in 0..Len(seq) - 1
  BY LenProperties, EmptySeq
<1>2. /\ Tail(seq) \in Seq(S) /\ Len(Tail(seq)) = Len(seq) - 1
      /\ \A i \in 1..Len(Tail(seq)) : Tail(seq)[i] = seq[i + 1]
  BY HeadTailProperties
<1>3. /\ DeleteAt(seq, 0) \in Seq(S) /\ Len(DeleteAt(seq, 0)) = Len(seq) - 1
      /\ \A i \in 1..Len(seq) - 1 :
           DeleteAt(seq, 0)[i] = IF i <= 0 THEN seq[i] ELSE seq[i + 1]
  BY <1>1, RemoveProperties
<1>. QED  BY <1>1, <1>2, <1>3, SeqEqual

LEMMA DequeueKeepsInv ==
    ASSUME QueueInv, Dequeue
    PROVE  QueueInv'
<1>1. queue \in Seq(Entry) /\ queue # << >> /\ Len(queue) \in Nat
  BY LenProperties DEF QueueInv, QueueTypeOK, Dequeue
<1>2. Len(queue) > 0 /\ 0 \in 0..Len(queue) - 1
  BY <1>1, EmptySeq
<1>3. Tail(queue) = DeleteAt(queue, 0)
  BY <1>1, TailIsDeletion
<1>. QED  BY <1>2, <1>3, RemovalKeepsInv DEF Dequeue

(* Moving an entry up or down.                                             *)
LEMMA MoveFirst ==
    ASSUME QueueInv, NEW index \in 0..Len(queue) - 1,
           NEW newIndex \in 0..Len(queue) - 1, newIndex # index,
           queue' = Move(queue, index, newIndex)
    PROVE  IsFirst(queue', FirstTrackAfterMove(index, newIndex), 0, Len(queue'))
<1>. DEFINE first == FirstTrackAfterMove(index, newIndex)
            old == firstTrackIndex
<1>. SUFFICES IsFirst(queue', first, 0, Len(queue'))
  OBVIOUS
<1>1. /\ queue \in Seq(Entry) /\ Len(queue) \in Nat
      /\ index \in Nat /\ newIndex \in Nat
  BY LenProperties DEF QueueInv, QueueTypeOK
<1>2. /\ queue' \in Seq(Entry) /\ Len(queue') = Len(queue)
      /\ \A i \in 1..Len(queue) :
            queue'[i] = IF i = newIndex + 1 THEN queue[index + 1]
                        ELSE IF i > index /\ i <= newIndex THEN queue[i + 1]
                        ELSE IF i > newIndex + 1 /\ i <= index + 1 THEN queue[i - 1]
                        ELSE queue[i]
  <2>1. /\ Move(queue, index, newIndex) \in Seq(Entry)
        /\ Len(Move(queue, index, newIndex)) = Len(queue)
        /\ \A i \in 1..Len(queue) :
              Move(queue, index, newIndex)[i] =
                 IF i = newIndex + 1 THEN queue[index + 1]
                 ELSE IF i > index /\ i <= newIndex THEN queue[i + 1]
                 ELSE IF i > newIndex + 1 /\ i <= index + 1 THEN queue[i - 1]
                 ELSE queue[i]
    BY <1>1, MoveProperties, SMTT(30)
  <2>. QED  BY <2>1
<1>. DEFINE n == Len(queue)
            Origin(i) == IF i = newIndex THEN index
                         ELSE IF i >= index /\ i < newIndex THEN i + 1
                         ELSE IF i > newIndex /\ i <= index THEN i - 1
                         ELSE i
            Before == {i \in 0..n - 1 : IsTrack(queue[i + 1])}
            After == {i \in 0..n - 1 : IsTrack(queue'[i + 1])}
<1>3. \A i \in 0..n - 1 : Origin(i) \in 0..n - 1 /\ queue'[i + 1] = queue[Origin(i) + 1]
  BY <1>1, <1>2
<1>4. \A i \in 0..n - 1 : i \in After <=> Origin(i) \in Before
  BY <1>3
<1>5. NoTrack \/ SomeTrack
  BY FirstTrackCases
<1>6. CASE NoTrack
  <2>1. first = NoFirstTrack
    BY <1>1, <1>6 DEF FirstTrackAfterMove, NoTrack, firstTrack, NoFirstTrack, NoIndex, NoQueueId
  <2>2. Before = {}
    BY <1>6 DEF NoTrack
  <2>3. After = {}
    BY <1>3, <1>4, <2>2
  <2>. HIDE DEF first
  <2>. QED  BY <1>1, <1>2, <2>1, <2>3 DEF IsFirst
<1>7. CASE SomeTrack
  <2>1. /\ old \in 0..n - 1 /\ old \in Before /\ IsTrack(queue[old + 1])
        /\ firstTrackQueueId = queue[old + 1].queueID
    BY <1>7 DEF SomeTrack
  <2>2. \A i \in 0..old - 1 : i \notin Before
    BY <1>7 DEF SomeTrack
  <2>3. ASSUME NEW k \in 0..n - 1, k \in After, \A i \in 0..k - 1 : i \notin After,
               first = [index |-> k, id |-> queue[Origin(k) + 1].queueID]
        PROVE  IsFirst(queue', first, 0, Len(queue'))
    <3>1. first = [index |-> k, id |-> queue'[k + 1].queueID]
      BY <1>3, <2>3
    <3>2. \A i \in 0..k - 1 : ~ IsTrack(queue'[i + 1])
      BY <1>1, <2>3
    <3>. HIDE DEF first
    <3>. QED  BY <1>1, <1>2, <2>3, <3>1, <3>2 DEF IsFirst
  <2>. HIDE DEF Before, After
  <2>4. CASE (old < index /\ old < newIndex) \/ (old > index /\ old > newIndex)
    <3>1. Origin(old) = old /\ old \in After /\ \A i \in 0..old - 1 : i \notin After
      BY <1>1, <1>4, <2>1, <2>2, <2>4
    <3>2. first = [index |-> old, id |-> queue[old + 1].queueID]
      BY <2>1, <2>4 DEF FirstTrackAfterMove, firstTrack
    <3>. QED  BY <2>1, <2>3, <3>1, <3>2
  <2>5. CASE newIndex <= old /\ old <= index /\ IsTrack(queue[index + 1])
    <3>1. Origin(newIndex) = index /\ index \in Before
      BY <1>1, <2>5 DEF Before
    <3>2. newIndex \in After /\ \A i \in 0..newIndex - 1 : i \notin After
      BY <1>1, <1>4, <2>1, <2>2, <2>5, <3>1
    <3>3. first = [index |-> newIndex, id |-> queue[index + 1].queueID]
      BY <1>1, <2>1, <2>5 DEF FirstTrackAfterMove
    <3>. QED  BY <2>3, <3>1, <3>2, <3>3
  <2>6. CASE newIndex <= old /\ old <= index /\ ~ IsTrack(queue[index + 1])
    <3>1. old < index /\ index \notin Before
      BY <1>1, <2>1, <2>6 DEF Before
    <3>2. Origin(old + 1) = old /\ old + 1 \in 0..n - 1
      BY <1>1, <2>1, <2>6, <3>1
    <3>3. old + 1 \in After /\ \A i \in 0..old : i \notin After
      BY <1>1, <1>4, <2>1, <2>2, <2>6, <3>1, <3>2
    <3>4. first = [index |-> old + 1, id |-> queue[old + 1].queueID]
      BY <1>1, <2>1, <2>6, <3>1 DEF FirstTrackAfterMove, MovedFirstTrack
    <3>5. \A i \in 0..(old + 1) - 1 : i \notin After
      BY <2>1, <3>3
    <3>. QED  BY <2>3, <3>2, <3>3, <3>4, <3>5
  <2>7. CASE index = old /\ old < newIndex
    <3>1. first = FindFirstTrackBetween(queue', index, newIndex + 1)
      BY <1>1, <2>1, <2>7 DEF FirstTrackAfterMove
    <3>2. IsFirst(queue', first, index, newIndex + 1)
      BY <1>1, <1>2, <3>1, FindFirstTrackIsFirst
    <3>3. \A i \in 0..index - 1 : i \notin After
      BY <1>1, <1>4, <2>1, <2>2, <2>7
    <3>4. \A i \in 0..index - 1 : ~ IsTrack(queue'[i + 1])
      BY <1>1, <3>3 DEF After
    <3>5. IsTrack(queue'[newIndex + 1])
      BY <1>1, <1>3, <2>1, <2>7
    <3>6. newIndex \in index..(newIndex + 1) - 1 /\ newIndex < Len(queue')
      BY <1>1, <1>2, <2>7
    <3>. HIDE DEF first
    <3>7. /\ first.index \in index..(newIndex + 1) - 1
          /\ first.index < Len(queue')
          /\ IsTrack(queue'[first.index + 1])
          /\ first = [index |-> first.index, id |-> queue'[first.index + 1].queueID]
          /\ \A i \in index..first.index - 1 : ~ IsTrack(queue'[i + 1])
      BY <3>2, <3>5, <3>6 DEF IsFirst
    <3>8. first.index \in 0..Len(queue') - 1
      BY <1>1, <1>2, <3>7
    <3>9. \A i \in 0..first.index - 1 : ~ IsTrack(queue'[i + 1])
      BY <1>1, <3>4, <3>7
    <3>. QED  BY <3>7, <3>8, <3>9 DEF IsFirst
  <2>8. CASE index < old /\ old <= newIndex
    <3>1. index \notin Before
      BY <1>1, <2>1, <2>2, <2>8
    <3>2. Origin(old - 1) = old /\ old - 1 \in 0..n - 1
      BY <1>1, <2>1, <2>8
    <3>3. old - 1 \in After
      BY <1>4, <2>1, <3>2
    <3>4. \A i \in 0..(old - 1) - 1 : i \notin After
      BY <1>1, <1>4, <2>1, <2>2, <2>8
    <3>5. first = [index |-> old - 1, id |-> queue[old + 1].queueID]
      BY <1>1, <2>1, <2>8 DEF FirstTrackAfterMove, MovedFirstTrack
    <3>. QED  BY <2>3, <3>2, <3>3, <3>4, <3>5
  <2>. QED  BY <1>1, <2>1, <2>4, <2>5, <2>6, <2>7, <2>8
<1>. QED  BY <1>5, <1>6, <1>7

LEMMA MoveKeepsInv ==
    ASSUME QueueInv, NEW index \in 0..Len(queue) - 1,
           NEW indexDiff \in Int, MoveByIndex(index, indexDiff)
    PROVE  QueueInv'
<1>. DEFINE newIndex == index + indexDiff
            first == FirstTrackAfterMove(index, newIndex)
<1>1. queue \in Seq(Entry) /\ Len(queue) \in Nat /\ index + 1 \in 1..Len(queue)
  BY LenProperties DEF QueueInv, QueueTypeOK
<1>2. newIndex \in 0..Len(queue) - 1 /\ newIndex # index
  BY <1>1 DEF MoveByIndex
<1>3. /\ queue' = Move(queue, index, newIndex)
      /\ Finish(first, EntryMoved(index, newIndex, queue[index + 1].queueID))
      /\ UNCHANGED <<idLookup, history, nextQueueID>>
  BY DEF MoveByIndex
<1>. HIDE DEF newIndex
<1>4. queue' \in Seq(Entry) /\ Len(queue') = Len(queue)
  BY <1>1, <1>2, <1>3, MoveProperties
<1>5. IsFirst(queue', first, 0, Len(queue'))
  BY <1>2, <1>3, MoveFirst
<1>6. first \in [index : Int, id : Nat]
  BY <1>1, <1>4, <1>5, IsFirstType
<1>7. queue[index + 1] \in Entry
  BY <1>1, ElementOfSeq
<1>8. EntryMoved(index, newIndex, queue[index + 1].queueID) \in Signal
  BY <1>2, <1>7 DEF EntryMoved, Signal, Entry
<1>9. /\ firstTrackIndex' \in Int /\ firstTrackQueueId' \in Nat
      /\ signals' \in Seq(Signal) /\ firstTrack' = first
  BY <1>3, <1>6, <1>8, FinishType
<1>10. QueueTypeOK'
  BY <1>3, <1>4, <1>9 DEF QueueInv, QueueTypeOK
<1>. QED  BY <1>5, <1>9, <1>10, FirstTrackIsFirstPrime DEF QueueInv

(* Trimming the queue.                                                     *)
LEMMA TrimKeepsInv ==
    ASSUME QueueInv, NEW length \in Nat, Trim(length)
    PROVE  QueueInv'
<1>1. /\ queue \in Seq(Entry) /\ Len(queue) \in Nat /\ Len(queue) > length
      /\ firstTrackIndex \in Int
  BY LenProperties DEF QueueInv, QueueTypeOK, Trim
<1>2. /\ queue' \in Seq(Entry) /\ Len(queue') = length
      /\ \A i \in 1..length : queue'[i] = queue[i]
  <2>1. queue' = SubSeq(queue, 1, length) /\ \A i \in 1..length : queue[i] \in Entry
    BY <1>1, ElementOfSeq DEF Trim
  <2>. QED  BY <2>1, SubSeqProperties
<1>3. signals' \in Seq(Signal)
  <2>. DEFINE n == Len(queue) - length
              plain == [k \in 1..n |->
                          EntryRemoved(Len(queue) - k,
                                       queue[Len(queue) - k + 1].queueID)]
  <2>1. ASSUME NEW k \in 1..n
        PROVE  EntryRemoved(Len(queue) - k, queue[Len(queue) - k + 1].queueID) \in Signal
    <3>1. queue[Len(queue) - k + 1] \in Entry
      BY <1>1, ElementOfSeq
    <3>. QED  BY <1>1, <3>1 DEF EntryRemoved, Signal, Entry, NoIndex
  <2>2. plain \in Seq(Signal) /\ Len(plain) = n
    BY <1>1, <2>1, FunctionIsSeq
  <2>3. FirstTrackChanged(NoFirstTrack) \in Signal
    BY DEF FirstTrackChanged, NoFirstTrack, Signal, NoIndex, NoQueueId
  <2>4. CASE firstTrackIndex < length
    BY <2>2, <2>4 DEF Trim, TrimSignals
  <2>5. CASE ~ firstTrackIndex < length
    <3>1. Len(queue) - firstTrackIndex \in 0..Len(plain)
      BY <1>1, <2>2, <2>5, FirstTrackCases DEF NoTrack, SomeTrack
    <3>2. signals' = Insert(plain, Len(queue) - firstTrackIndex,
                            FirstTrackChanged(NoFirstTrack))
      BY <2>5 DEF Trim, TrimSignals
    <3>. HIDE DEF plain
    <3>. QED  BY <2>2, <2>3, <3>1, <3>2, InsertProperties
  <2>. QED  BY <2>4, <2>5
<1>4. QueueTypeOK'
  <2>1. firstTrackIndex' \in Int /\ firstTrackQueueId' \in Nat
    BY <1>1 DEF Trim, QueueInv, QueueTypeOK, NoIndex, NoQueueId
  <2>2. idLookup' \subseteq idLookup /\ UNCHANGED <<history, nextQueueID>>
    BY DEF Trim
  <2>. QED  BY <1>2, <1>3, <2>1, <2>2 DEF QueueInv, QueueTypeOK
<1>5. IsFirst(queue', firstTrack', 0, Len(queue'))
  <2>1. NoTrack \/ SomeTrack
    BY FirstTrackCases
  <2>2. CASE firstTrackIndex < length
    <3>1. firstTrack' = [index |-> firstTrackIndex, id |-> firstTrackQueueId]
      BY <2>2 DEF Trim, firstTrack
    <3>2. CASE NoTrack
      <4>1. firstTrack' = NoFirstTrack
        BY <3>1, <3>2 DEF NoTrack, NoFirstTrack, NoIndex, NoQueueId
      <4>2. \A i \in 0..Len(queue') - 1 : ~ IsTrack(queue'[i + 1])
        BY <1>1, <1>2, <3>2 DEF NoTrack
      <4>. QED  BY <4>1, <4>2 DEF IsFirst
    <3>3. CASE SomeTrack
      BY <1>1, <1>2, <2>2, <3>1, <3>3 DEF SomeTrack, IsFirst
    <3>. QED  BY <2>1, <3>2, <3>3
  <2>3. CASE ~ firstTrackIndex < length
    <3>1. firstTrack' = NoFirstTrack
      BY <2>3 DEF Trim, firstTrack, NoFirstTrack
    <3>2. SomeTrack
      BY <1>1, <2>1, <2>3 DEF NoTrack
    <3>3. \A i \in 0..Len(queue') - 1 : ~ IsTrack(queue'[i + 1])
      BY <1>1, <1>2, <2>3, <3>2 DEF SomeTrack
    <3>. QED  BY <3>1, <3>3 DEF IsFirst
  <2>. QED  BY <2>2, <2>3
<1>. QED  BY <1>4, <1>5, FirstTrackIsFirstPrime DEF QueueInv

(* The history does not touch the queue.                                   *)
LEMMA AddToHistoryKeepsInv ==
    ASSUME QueueInv, NEW id \in Dequeued, AddToHistory(id)
    PROVE  QueueInv'
<1>1. id \in Nat \ {NoQueueId}
  BY DEF Dequeued, QueueInv, QueueTypeOK
<1>2. history \in Seq(Nat \ {NoQueueId})
  BY DEF QueueInv, QueueTypeOK
<1>3. /\ Append(history, id) \in Seq(Nat \ {NoQueueId})
      /\ Append(history, id) # << >>
  BY <1>1, <1>2, AppendProperties
<1>4. Tail(Append(history, id)) \in Seq(Nat \ {NoQueueId})
  BY <1>3, HeadTailProperties
<1>5. history' \in Seq(Nat \ {NoQueueId}) /\ idLookup' \in SUBSET (Nat \ {NoQueueId})
  BY <1>3, <1>4 DEF AddToHistory, QueueInv, QueueTypeOK
<1>6. signals' \in Seq(Signal)
  BY DEF AddToHistory
<1>7. UNCHANGED <<queue, nextQueueID, firstTrackIndex, firstTrackQueueId>>
  BY DEF AddToHistory
<1>8. QueueTypeOK'
  BY <1>5, <1>6, <1>7 DEF QueueInv, QueueTypeOK
<1>9. FirstTrackIsCached'
  BY <1>7 DEF QueueInv, FirstTrackIsCached, firstTrack
<1>. QED  BY <1>8, <1>9 DEF QueueInv

(* Every operation on the queue preserves the inductive invariant.         *)
THEOREM QueueNextInv == QueueInv /\ [QueueNext]_queueVars => QueueInv'
<1>. SUFFICES ASSUME QueueInv, [QueueNext]_queueVars
              PROVE  QueueInv'
  OBVIOUS
<1>1. ASSUME NEW index \in 0..Len(queue), NEW kind \in Kinds,
             InsertAtIndex(index, kind)
      PROVE  QueueInv'
  BY <1>1, InsertKeepsInv
<1>2. CASE InsertBreakAtFrontIfNotExists
  <2>1. 0 \in 0..Len(queue) /\ "Break" \in Kinds
    BY LenProperties DEF QueueInv, QueueTypeOK, Kinds
  <2>. QED  BY <1>2, <2>1, InsertKeepsInv DEF InsertBreakAtFrontIfNotExists
<1>3. ASSUME NEW index \in 0..Len(queue) - 1, RemoveAtIndex(index)
      PROVE  QueueInv'
  BY <1>3, RemoveKeepsInv
<1>4. ASSUME NEW index \in 0..Len(queue) - 1,
             NEW indexDiff \in -Len(queue)..Len(queue), MoveByIndex(index, indexDiff)
      PROVE  QueueInv'
  <2>1. indexDiff \in Int
    BY LenProperties DEF QueueInv, QueueTypeOK
  <2>. QED  BY <1>4, <2>1, MoveKeepsInv
<1>5. CASE Trim(TrimLength)
  BY <1>5, QueueConstants, TrimKeepsInv
<1>6. CASE Dequeue
  BY <1>6, DequeueKeepsInv
<1>7. ASSUME NEW id \in Dequeued, AddToHistory(id)
      PROVE  QueueInv'
  BY <1>7, AddToHistoryKeepsInv
<1>8. CASE UNCHANGED queueVars
  BY <1>8 DEF queueVars, QueueInv, QueueTypeOK, FirstTrackIsCached, firstTrack
<1>. QED  BY <1>1, <1>2, <1>3, <1>4, <1>5, <1>6, <1>7, <1>8
          DEF QueueNext, UserOperation

(* The variables of the queue keep their types.                            *)
THEOREM QueueTypeCorrect == QueueSpec => []QueueTypeOK
<1>1. QueueInv => QueueTypeOK
  BY DEF QueueInv
<1>. QED  BY QueueInitInv, QueueNextInv, <1>1, PTL DEF QueueSpec

(* For a queue of any length: the cached position is that of the first     *)
(* track, so that peekFirstTrackEntry() returns that track.                *)
THEOREM FirstTrackCorrect == QueueSpec => []FirstTrackIsCached
<1>1. QueueInv => FirstTrackIsCached
  BY DEF QueueInv
<1>. QED  BY QueueInitInv, QueueNextInv, <1>1, PTL DEF QueueSpec

-----------------------------------------------------------------------------
(* The lookup table.                                                       *)

(* LookupIsConsistent is inductive for variables that have their types: it *)
(* says that IDs below the next one are all that was handed out.           *)
LookupInv == QueueTypeOK /\ LookupIsConsistent

LEMMA LengthsAreNaturals ==
    ASSUME QueueTypeOK
    PROVE  /\ queue \in Seq(Entry) /\ Len(queue) \in Nat
           /\ Len(history) \in Nat /\ nextQueueID \in Nat
  BY LenProperties DEF QueueTypeOK

(* What LookupIsConsistent says of single entries.                         *)
LEMMA EntriesInLookup ==
    ASSUME LookupIsConsistent
    PROVE  /\ \A i, j \in 1..Len(queue) : queue[i].queueID = queue[j].queueID => i = j
           /\ \A i, j \in 1..Len(history) : history[i] = history[j] => i = j
           /\ \A i \in 1..Len(queue) : queue[i].queueID \in idLookup
           /\ \A i \in 1..Len(history) : history[i] \in idLookup
           /\ \A i \in 1..Len(queue), j \in 1..Len(history) : queue[i].queueID # history[j]
           /\ \A id \in idLookup : id < nextQueueID
<1>1. /\ \A i \in 1..Len(queue) : queue[i].queueID \in InQueue
      /\ \A i \in 1..Len(history) : history[i] \in InHistory
  BY DEF InQueue, InHistory
<1>2. InQueue \cap InHistory = {} /\ InQueue \cup InHistory \subseteq idLookup
  BY DEF LookupIsConsistent
<1>3. /\ \A i \in 1..Len(queue) : queue[i].queueID \in idLookup
      /\ \A i \in 1..Len(history) : history[i] \in idLookup
  BY <1>1, <1>2, Zenon
<1>4. \A i \in 1..Len(queue), j \in 1..Len(history) : queue[i].queueID # history[j]
  <2>. SUFFICES ASSUME NEW i \in 1..Len(queue), NEW j \in 1..Len(history),
                       queue[i].queueID = history[j]
                PROVE  FALSE
    OBVIOUS
  <2>. QED  BY <1>1, <1>2
<1>5. /\ \A i, j \in 1..Len(queue) : queue[i].queueID = queue[j].queueID => i = j
      /\ \A i, j \in 1..Len(history) : history[i] = history[j] => i = j
      /\ \A id \in idLookup : id < nextQueueID
  BY Zenon DEF LookupIsConsistent
<1>. QED  BY <1>3, <1>4, <1>5

(* The entries that are left come from different places in the queue, and  *)
(* the IDs that can no longer be looked up are those of entries that are   *)
(* gone.                                                                   *)
LEMMA SelectionKeepsLookup ==
    ASSUME LookupInv, queue' \in Seq(Entry), UNCHANGED <<history, nextQueueID>>,
           NEW origin \in [1..Len(queue') -> 1..Len(queue)],
           \A i, j \in 1..Len(queue') : origin[i] = origin[j] => i = j,
           \A i \in 1..Len(queue') : queue'[i] = queue[origin[i]],
           NEW removed, idLookup' = idLookup \ removed,
           \A i \in 1..Len(queue') : queue'[i].queueID \notin removed,
           \A i \in 1..Len(history) : history[i] \notin removed
    PROVE  LookupIsConsistent'
<1>1. /\ \A i, j \in 1..Len(queue) : queue[i].queueID = queue[j].queueID => i = j
      /\ \A i, j \in 1..Len(history) : history[i] = history[j] => i = j
      /\ \A i \in 1..Len(queue) : queue[i].queueID \in idLookup
      /\ \A i \in 1..Len(history) : history[i] \in idLookup
      /\ \A i \in 1..Len(queue), j \in 1..Len(history) : queue[i].queueID # history[j]
      /\ \A id \in idLookup : id < nextQueueID
  BY EntriesInLookup DEF LookupInv
<1>2. \A i \in 1..Len(queue') : origin[i] \in 1..Len(queue)
  OBVIOUS
<1>3. \A i, j \in 1..Len(queue') : queue'[i].queueID = queue'[j].queueID => i = j
  BY <1>1, <1>2
<1>4. \A i \in 1..Len(queue'), j \in 1..Len(history') : queue'[i].queueID # history'[j]
  BY <1>1, <1>2
<1>5. /\ \A i \in 1..Len(queue') : queue'[i].queueID \in idLookup'
      /\ \A i \in 1..Len(history') : history'[i] \in idLookup'
  BY <1>1, <1>2
<1>6. \A id \in idLookup' : id < nextQueueID'
  BY <1>1
<1>7. \A i, j \in 1..Len(history') : history'[i] = history'[j] => i = j
  BY <1>1
<1>. QED  BY <1>3, <1>4, <1>5, <1>6, <1>7 DEF LookupIsConsistent, InQueue, InHistory

(* Inserting an entry: its ID has not been used before.                    *)
LEMMA InsertKeepsLookup ==
    ASSUME LookupInv, NEW index \in 0..Len(queue), NEW kind \in Kinds,
           InsertAtIndex(index, kind)
    PROVE  LookupIsConsistent'
<1>. DEFINE new == [queueID |-> nextQueueID, kind |-> kind]
<1>1. /\ queue \in Seq(Entry) /\ Len(queue) \in Nat /\ Len(history) \in Nat
      /\ nextQueueID \in Nat /\ nextQueueID # NoQueueId
  BY LengthsAreNaturals DEF LookupInv, QueueTypeOK
<1>2. new \in Entry
  BY <1>1 DEF Entry
<1>3. /\ queue' = Insert(queue, index, new)
      /\ idLookup' = idLookup \cup {nextQueueID}
      /\ nextQueueID' = nextQueueID + 1
      /\ UNCHANGED history
  BY DEF InsertAtIndex
<1>4. /\ Len(queue') = Len(queue) + 1
      /\ \A i \in 1..Len(queue) + 1 :
            queue'[i] = IF i <= index THEN queue[i]
                        ELSE IF i = index + 1 THEN new ELSE queue[i - 1]
  <2>1. \A e \in Entry :
          /\ Len(Insert(queue, index, e)) = Len(queue) + 1
          /\ \A i \in 1..Len(queue) + 1 :
                Insert(queue, index, e)[i] =
                   IF i <= index THEN queue[i]
                   ELSE IF i = index + 1 THEN e ELSE queue[i - 1]
    BY <1>1, InsertProperties, SMTT(30)
  <2>. HIDE DEF new
  <2>. QED  BY <1>2, <1>3, <2>1
<1>5. new.queueID = nextQueueID
  OBVIOUS
<1>. HIDE DEF new
<1>6. /\ \A i, j \in 1..Len(queue) : queue[i].queueID = queue[j].queueID => i = j
      /\ \A i, j \in 1..Len(history) : history[i] = history[j] => i = j
      /\ \A i \in 1..Len(queue) : queue[i].queueID \in idLookup
      /\ \A i \in 1..Len(history) : history[i] \in idLookup
      /\ \A i \in 1..Len(queue), j \in 1..Len(history) : queue[i].queueID # history[j]
      /\ \A id \in idLookup : id < nextQueueID
  BY EntriesInLookup DEF LookupInv
<1>7. \A i \in 1..Len(queue) : queue[i].queueID # nextQueueID
  BY <1>1, <1>6
<1>8. \A i \in 1..Len(history) : history[i] # nextQueueID
  BY <1>1, <1>6
<1>9. \A i \in 1..Len(queue') :
         \/ i = index + 1 /\ queue'[i].queueID = nextQueueID
         \/ i < index + 1 /\ i \in 1..Len(queue) /\ queue'[i] = queue[i]
         \/ i > index + 1 /\ i - 1 \in 1..Len(queue) /\ queue'[i] = queue[i - 1]
  BY <1>1, <1>4, <1>5
<1>10. \A i, j \in 1..Len(queue') : queue'[i].queueID = queue'[j].queueID => i = j
  <2>. SUFFICES ASSUME NEW i \in 1..Len(queue'), NEW j \in 1..Len(queue'),
                       queue'[i].queueID = queue'[j].queueID
                PROVE  i = j
    OBVIOUS
  <2>1. i \in Int /\ j \in Int /\ index \in Int
    BY <1>1, <1>4
  <2>2. \/ i = index + 1 /\ queue'[i].queueID = nextQueueID
        \/ i < index + 1 /\ i \in 1..Len(queue) /\ queue'[i] = queue[i]
        \/ i > index + 1 /\ i - 1 \in 1..Len(queue) /\ queue'[i] = queue[i - 1]
    BY <1>9
  <2>3. \/ j = index + 1 /\ queue'[j].queueID = nextQueueID
        \/ j < index + 1 /\ j \in 1..Len(queue) /\ queue'[j] = queue[j]
        \/ j > index + 1 /\ j - 1 \in 1..Len(queue) /\ queue'[j] = queue[j - 1]
    BY <1>9
  <2>4. CASE i = index + 1
    BY <1>7, <2>1, <2>2, <2>3, <2>4
  <2>5. CASE j = index + 1
    BY <1>7, <2>1, <2>2, <2>3, <2>5
  <2>6. CASE i < index + 1 /\ j < index + 1
    BY <1>6, <2>1, <2>2, <2>3, <2>6
  <2>7. CASE i < index + 1 /\ j > index + 1
    <3>1. queue[i].queueID = queue[j - 1].queueID /\ i # j - 1
      BY <2>1, <2>2, <2>3, <2>7
    <3>. QED  BY <1>6, <2>1, <2>2, <2>3, <2>7, <3>1
  <2>8. CASE i > index + 1 /\ j < index + 1
    <3>1. queue[i - 1].queueID = queue[j].queueID /\ i - 1 # j
      BY <2>1, <2>2, <2>3, <2>8
    <3>. QED  BY <1>6, <2>1, <2>2, <2>3, <2>8, <3>1
  <2>9. CASE i > index + 1 /\ j > index + 1
    <3>1. i - 1 \in 1..Len(queue) /\ j - 1 \in 1..Len(queue)
          /\ queue[i - 1].queueID = queue[j - 1].queueID
      BY <2>1, <2>2, <2>3, <2>9
    <3>2. i - 1 = j - 1
      BY <1>6, <3>1
    <3>. QED  BY <2>1, <3>2
  <2>. QED  BY <2>1, <2>4, <2>5, <2>6, <2>7, <2>8, <2>9
<1>11. \A i \in 1..Len(queue') :
          \/ queue'[i].queueID = nextQueueID
          \/ \E j \in 1..Len(queue) : queue'[i].queueID = queue[j].queueID
  BY <1>9
<1>12. \A i \in 1..Len(queue'), j \in 1..Len(history') : queue'[i].queueID # history'[j]
  BY <1>3, <1>6, <1>8, <1>11
<1>13. /\ \A i \in 1..Len(queue') : queue'[i].queueID \in idLookup'
       /\ \A i \in 1..Len(history') : history'[i] \in idLookup'
  BY <1>3, <1>6, <1>11
<1>14. \A id \in idLookup' : id < nextQueueID'
  <2>1. \A id \in idLookup : id \in Nat
    BY DEF LookupInv, QueueTypeOK
  <2>. QED  BY <1>1, <1>3, <1>6, <2>1
<1>15. \A i, j \in 1..Len(history') : history'[i] = history'[j] => i = j
  BY <1>3, <1>6
<1>. QED  BY <1>10, <1>12, <1>13, <1>14, <1>15 DEF LookupIsConsistent, InQueue, InHistory

(* Taking the first entry: it can still be looked up.                      *)
LEMMA DequeueKeepsLookup ==
    ASSUME LookupInv, Dequeue
    PROVE  LookupIsConsistent'
<1>. DEFINE origin == [i \in 1..Len(queue') |-> i + 1]
<1>1. queue \in Seq(Entry) /\ queue # << >> /\ Len(queue) \in Nat
  BY LengthsAreNaturals DEF LookupInv, Dequeue
<1>2. /\ queue' \in Seq(Entry) /\ Len(queue') = Len(queue) - 1
      /\ \A i \in 1..Len(queue') : queue'[i] = queue[i + 1]
  BY <1>1, HeadTailProperties DEF Dequeue
<1>3. origin \in [1..Len(queue') -> 1..Len(queue)]
  BY <1>1, <1>2
<1>4. \A i \in 1..Len(queue') : origin[i] = i + 1
  OBVIOUS
<1>. HIDE DEF origin
<1>5. \A i, j \in 1..Len(queue') : origin[i] = origin[j] => i = j
  BY <1>1, <1>2, <1>4
<1>6. \A i \in 1..Len(queue') : queue'[i] = queue[origin[i]]
  BY <1>2, <1>4
<1>7. UNCHANGED <<history, nextQueueID>> /\ idLookup' = idLookup \ {}
  BY DEF Dequeue
<1>. QED  BY <1>2, <1>3, <1>5, <1>6, <1>7, SelectionKeepsLookup

(* Removing an entry, with its ID.                                         *)
LEMMA RemoveKeepsLookup ==
    ASSUME LookupInv, NEW index \in 0..Len(queue) - 1, RemoveAtIndex(index)
    PROVE  LookupIsConsistent'
<1>. DEFINE origin == [i \in 1..Len(queue') |-> IF i <= index THEN i ELSE i + 1]
            removed == {queue[index + 1].queueID}
<1>1. queue \in Seq(Entry) /\ Len(queue) \in Nat
  BY LengthsAreNaturals DEF LookupInv
<1>2. /\ queue' \in Seq(Entry) /\ Len(queue') = Len(queue) - 1
      /\ \A i \in 1..Len(queue') :
            queue'[i] = IF i <= index THEN queue[i] ELSE queue[i + 1]
  BY <1>1, RemoveProperties DEF RemoveAtIndex
<1>3. origin \in [1..Len(queue') -> 1..Len(queue)]
  BY <1>1, <1>2
<1>4. \A i \in 1..Len(queue') : origin[i] = IF i <= index THEN i ELSE i + 1
  OBVIOUS
<1>. HIDE DEF origin
<1>5. \A i, j \in 1..Len(queue') : origin[i] = origin[j] => i = j
  BY <1>1, <1>2, <1>4
<1>6. \A i \in 1..Len(queue') : queue'[i] = queue[origin[i]] /\ origin[i] # index + 1
  BY <1>1, <1>2, <1>4
<1>7. UNCHANGED <<history, nextQueueID>> /\ idLookup' = idLookup \ removed
  BY DEF RemoveAtIndex
<1>8. \A i \in 1..Len(queue') : queue'[i].queueID \notin removed
  <2>1. \A i \in 1..Len(queue) : i # index + 1 => queue[i].queueID \notin removed
    BY <1>1 DEF LookupInv, LookupIsConsistent
  <2>. QED  BY <1>3, <1>6, <2>1
<1>9. \A i \in 1..Len(history) : history[i] \notin removed
  <2>1. queue[index + 1].queueID \in InQueue
    BY <1>1 DEF InQueue
  <2>. QED  BY <2>1 DEF LookupInv, LookupIsConsistent, InHistory
<1>. HIDE DEF removed
<1>. QED  BY <1>2, <1>3, <1>5, <1>6, <1>7, <1>8, <1>9, SelectionKeepsLookup

(* Moving an entry: the same entries in another order.                     *)
LEMMA MoveKeepsLookup ==
    ASSUME LookupInv, NEW index \in 0..Len(queue) - 1, NEW indexDiff \in Int,
           MoveByIndex(index, indexDiff)
    PROVE  LookupIsConsistent'
<1>. DEFINE newIndex == index + indexDiff
            origin == [i \in 1..Len(queue') |->
                          IF i = newIndex + 1 THEN index + 1
                          ELSE IF i > index /\ i <= newIndex THEN i + 1
                          ELSE IF i > newIndex + 1 /\ i <= index + 1 THEN i - 1
                          ELSE i]
<1>1. queue \in Seq(Entry) /\ Len(queue) \in Nat
  BY LengthsAreNaturals DEF LookupInv
<1>2. newIndex \in 0..Len(queue) - 1
  BY <1>1 DEF MoveByIndex
<1>3. queue' = Move(queue, index, newIndex)
  BY DEF MoveByIndex
<1>. HIDE DEF newIndex
<1>4. /\ queue' \in Seq(Entry) /\ Len(queue') = Len(queue)
      /\ \A i \in 1..Len(queue) :
            queue'[i] = IF i = newIndex + 1 THEN queue[index + 1]
                        ELSE IF i > index /\ i <= newIndex THEN queue[i + 1]
                        ELSE IF i > newIndex + 1 /\ i <= index + 1 THEN queue[i - 1]
                        ELSE queue[i]
  BY <1>1, <1>2, <1>3, MoveProperties
<1>5. origin \in [1..Len(queue') -> 1..Len(queue)]
  BY <1>1, <1>2, <1>4
<1>6. \A i \in 1..Len(queue') :
         origin[i] = IF i = newIndex + 1 THEN index + 1
                     ELSE IF i > index /\ i <= newIndex THEN i + 1
                     ELSE IF i > newIndex + 1 /\ i <= index + 1 THEN i - 1
                     ELSE i
  OBVIOUS
<1>. HIDE DEF origin
<1>7. \A i, j \in 1..Len(queue') : origin[i] = origin[j] => i = j
  BY <1>1, <1>2, <1>4, <1>6
<1>8. \A i \in 1..Len(queue') : queue'[i] = queue[origin[i]]
  BY <1>1, <1>2, <1>4, <1>6
<1>9. UNCHANGED <<history, nextQueueID>> /\ idLookup' = idLookup \ {}
  BY DEF MoveByIndex
<1>. QED  BY <1>4, <1>5, <1>7, <1>8, <1>9, SelectionKeepsLookup

(* Trimming the queue: the entries at its end go, with their IDs.          *)
LEMMA TrimKeepsLookup ==
    ASSUME LookupInv, NEW length \in Nat, Trim(length)
    PROVE  LookupIsConsistent'
<1>. DEFINE origin == [i \in 1..Len(queue') |-> i]
            removed == {queue[i].queueID : i \in length + 1..Len(queue)}
<1>1. queue \in Seq(Entry) /\ Len(queue) \in Nat /\ Len(queue) > length
  BY LengthsAreNaturals DEF LookupInv, Trim
<1>2. /\ queue' \in Seq(Entry) /\ Len(queue') = length
      /\ \A i \in 1..length : queue'[i] = queue[i]
  <2>1. queue' = SubSeq(queue, 1, length) /\ \A i \in 1..length : queue[i] \in Entry
    BY <1>1, ElementOfSeq DEF Trim
  <2>. QED  BY <2>1, SubSeqProperties
<1>3. origin \in [1..Len(queue') -> 1..Len(queue)]
  BY <1>1, <1>2
<1>4. \A i \in 1..Len(queue') : origin[i] = i
  OBVIOUS
<1>5. UNCHANGED <<history, nextQueueID>> /\ idLookup' = idLookup \ removed
  BY DEF Trim
<1>6. \A i \in 1..Len(queue') : queue'[i].queueID \notin removed
  <2>1. \A i, j \in 1..Len(queue) : queue[i].queueID = queue[j].queueID => i = j
    BY DEF LookupInv, LookupIsConsistent
  <2>. QED  BY <1>1, <1>2, <2>1
<1>7. \A i \in 1..Len(history) : history[i] \notin removed
  <2>1. removed \subseteq InQueue
    BY <1>1 DEF InQueue
  <2>2. InQueue \cap InHistory = {}
    BY DEF LookupInv, LookupIsConsistent
  <2>3. \A i \in 1..Len(history) : history[i] \in InHistory
    BY DEF InHistory
  <2>. QED  BY <2>1, <2>2, <2>3
<1>. HIDE DEF origin, removed
<1>. QED  BY <1>2, <1>3, <1>4, <1>5, <1>6, <1>7, SelectionKeepsLookup

(* An entry that the player is done with enters the history; the one that  *)
(* leaves it, which may be the same, can no longer be looked up.           *)
LEMMA AddToHistoryKeepsLookup ==
    ASSUME LookupInv, NEW id \in Dequeued, AddToHistory(id)
    PROVE  LookupIsConsistent'
<1>. DEFINE all == Append(history, id)
<1>1. /\ history \in Seq(Nat \ {NoQueueId}) /\ Len(history) \in Nat
      /\ id \in Nat \ {NoQueueId}
  BY LengthsAreNaturals DEF LookupInv, QueueTypeOK, Dequeued
<1>2. /\ all \in Seq(Nat \ {NoQueueId}) /\ all # << >> /\ Len(all) = Len(history) + 1
      /\ \A i \in 1..Len(history) : all[i] = history[i]
      /\ all[Len(history) + 1] = id
  BY <1>1, AppendProperties
<1>. HIDE DEF all
<1>3. /\ \A i, j \in 1..Len(history) : history[i] = history[j] => i = j
      /\ \A i \in 1..Len(history) : history[i] \in idLookup /\ history[i] # id
      /\ \A i \in 1..Len(queue), j \in 1..Len(history) : queue[i].queueID # history[j]
      /\ \A i \in 1..Len(queue) : queue[i].queueID # id
      /\ id \in idLookup
  <2>1. id \in idLookup /\ id \notin InQueue /\ id \notin InHistory
    BY DEF Dequeued
  <2>2. /\ \A i \in 1..Len(history) : history[i] # id
        /\ \A i \in 1..Len(queue) : queue[i].queueID # id
    BY <2>1, Zenon DEF InQueue, InHistory
  <2>. QED  BY <2>1, <2>2, EntriesInLookup DEF LookupInv
<1>4. /\ \A i, j \in 1..Len(all) : all[i] = all[j] => i = j
      /\ \A i \in 1..Len(all) : all[i] \in idLookup
      /\ \A i \in 1..Len(queue), j \in 1..Len(all) : queue[i].queueID # all[j]
  <2>1. \A i \in 1..Len(all) :
           \/ i \in 1..Len(history) /\ all[i] = history[i]
           \/ i = Len(history) + 1 /\ all[i] = id
    BY <1>1, <1>2
  <2>2. \A i, j \in 1..Len(all) : all[i] = all[j] => i = j
    BY <1>3, <2>1
  <2>3. \A i \in 1..Len(all) : all[i] \in idLookup
    BY <1>3, <2>1
  <2>4. \A i \in 1..Len(queue), j \in 1..Len(all) : queue[i].queueID # all[j]
    BY <1>3, <2>1
  <2>. QED  BY <2>2, <2>3, <2>4
<1>5. UNCHANGED <<queue, nextQueueID>>
  BY DEF AddToHistory
<1>6. /\ \A i, j \in 1..Len(queue') : queue'[i].queueID = queue'[j].queueID => i = j
      /\ \A i \in 1..Len(queue) : queue[i].queueID \in idLookup
      /\ \A x \in idLookup : x < nextQueueID'
  BY <1>5 DEF LookupInv, LookupIsConsistent, InQueue
<1>7. /\ \A i, j \in 1..Len(history') : history'[i] = history'[j] => i = j
      /\ \A i \in 1..Len(history') : history'[i] \in idLookup'
      /\ \A i \in 1..Len(queue'), j \in 1..Len(history') : queue'[i].queueID # history'[j]
      /\ \A i \in 1..Len(queue') : queue'[i].queueID \in idLookup'
      /\ idLookup' \subseteq idLookup
  <2>1. CASE Len(history) + 1 > HistoryLimit
    <3>1. history' = Tail(all) /\ idLookup' = idLookup \ {Head(all)}
      BY <2>1 DEF AddToHistory, all
    <3>2. /\ Len(history') = Len(all) - 1 /\ Head(all) = all[1]
          /\ \A i \in 1..Len(history') : history'[i] = all[i + 1]
      BY <1>2, <3>1, HeadTailProperties
    <3>3. Len(all) \in Nat \ {0}
      BY <1>1, <1>2
    <3>4. \A i \in 1..Len(history') : history'[i] \in idLookup /\ history'[i] # all[1]
      BY <1>4, <3>2, <3>3
    <3>5. \A i \in 1..Len(queue') : queue'[i].queueID # all[1]
      BY <1>4, <1>5, <3>3
    <3>. QED  BY <1>4, <1>5, <1>6, <3>1, <3>2, <3>3, <3>4, <3>5
  <2>2. CASE ~ Len(history) + 1 > HistoryLimit
    <3>1. history' = all /\ idLookup' = idLookup
      BY <2>2 DEF AddToHistory, all
    <3>. QED  BY <1>4, <1>5, <1>6, <3>1
  <2>. QED  BY <2>1, <2>2
<1>. QED  BY <1>6, <1>7 DEF LookupIsConsistent, InQueue, InHistory

(* Every operation keeps the table consistent.                             *)
THEOREM LookupNextInv == LookupInv /\ QueueInv /\ [QueueNext]_queueVars => LookupInv'
<1>. SUFFICES ASSUME LookupInv, QueueInv, [QueueNext]_queueVars
              PROVE  LookupInv'
  OBVIOUS
<1>1. QueueTypeOK'
  BY QueueNextInv DEF QueueInv
<1>. SUFFICES LookupIsConsistent'
  BY <1>1 DEF LookupInv
<1>2. ASSUME NEW index \in 0..Len(queue), NEW kind \in Kinds, InsertAtIndex(index, kind)
      PROVE  LookupIsConsistent'
  BY <1>2, InsertKeepsLookup
<1>3. CASE InsertBreakAtFrontIfNotExists
  <2>1. 0 \in 0..Len(queue) /\ "Break" \in Kinds
    BY LengthsAreNaturals DEF LookupInv, Kinds
  <2>. QED  BY <1>3, <2>1, InsertKeepsLookup DEF InsertBreakAtFrontIfNotExists
<1>4. ASSUME NEW index \in 0..Len(queue) - 1, RemoveAtIndex(index)
      PROVE  LookupIsConsistent'
  BY <1>4, RemoveKeepsLookup
<1>5. ASSUME NEW index \in 0..Len(queue) - 1,
             NEW indexDiff \in -Len(queue)..Len(queue), MoveByIndex(index, indexDiff)
      PROVE  LookupIsConsistent'
  <2>1. indexDiff \in Int
    BY LengthsAreNaturals DEF LookupInv
  <2>. QED  BY <1>5, <2>1, MoveKeepsLookup
<1>6. CASE Trim(TrimLength)
  BY <1>6, QueueConstants, TrimKeepsLookup
<1>7. CASE Dequeue
  BY <1>7, DequeueKeepsLookup
<1>8. ASSUME NEW id \in Dequeued, AddToHistory(id)
      PROVE  LookupIsConsistent'
  BY <1>8, AddToHistoryKeepsLookup
<1>9. CASE UNCHANGED queueVars
  BY <1>9 DEF queueVars, LookupInv, LookupIsConsistent, InQueue, InHistory
<1>. QED  BY <1>2, <1>3, <1>4, <1>5, <1>6, <1>7, <1>8, <1>9 DEF QueueNext, UserOperation

(* For queues and histories of any length: an ID belongs to one entry,     *)
(* which is in the queue, with the player or in the history but not in two *)
(* of these, and every entry of the queue or the history can be looked up. *)
THEOREM LookupCorrect == QueueSpec => []LookupIsConsistent
<1>1. QueueInit => LookupInv
  BY QueueInitInv DEF QueueInv, LookupInv, QueueInit, LookupIsConsistent, InQueue, InHistory
<1>2. QueueInit => QueueInv /\ LookupInv
  BY <1>1, QueueInitInv
<1>3. QueueInv /\ LookupInv /\ [QueueNext]_queueVars => (QueueInv /\ LookupInv)'
  BY QueueNextInv, LookupNextInv
<1>4. QueueInv /\ LookupInv => LookupIsConsistent
  BY DEF LookupInv
<1>. QED  BY <1>2, <1>3, <1>4, PTL DEF QueueSpec

-----------------------------------------------------------------------------
(* The signals.                                                            *)

(* A signal is about a place in the list where there is such a place, and  *)
(* carries the ID of the entry that is there.                              *)
Fits(signal, ids) ==
    /\ signal \in Signal
    /\ signal.signal = "entryAdded" => signal.to \in 0..Len(ids)
    /\ signal.signal = "entryRemoved" =>
          signal.from \in 0..Len(ids) - 1 /\ signal.queueID = ids[signal.from + 1]
    /\ signal.signal = "entryMoved" =>
          /\ signal.from \in 0..Len(ids) - 1 /\ signal.to \in 0..Len(ids) - 1
          /\ signal.queueID = ids[signal.from + 1]

(* The views of a listener, one after the other: each comes from the one   *)
(* before by processing the next signal.                                   *)
IsReplay(views, view, sigs) ==
    /\ views = [n \in 0..Len(sigs) |-> views[n]]
    /\ views[0] = view
    /\ \A n \in 1..Len(sigs) : views[n] = ViewAfter(views[n - 1], sigs[n])

(* The signals lead from a view to a view; each fits the list it comes to. *)
Explain(view, sigs, after) ==
    \E views :
        /\ IsReplay(views, view, sigs)
        /\ \A n \in 1..Len(sigs) : Fits(sigs[n], views[n - 1].ids)
        /\ views[Len(sigs)] = after

(* ViewAfterAll gives the last of these views, as no other function is a   *)
(* replay: take the first argument at which two of them differ.            *)
LEMMA Replay ==
    ASSUME NEW view, NEW sigs, Len(sigs) \in Nat, NEW views,
           IsReplay(views, view, sigs)
    PROVE  ViewAfterAll(view, sigs) = views[Len(sigs)]
<1>. DEFINE Replays(f) == f = [n \in 0..Len(sigs) |-> IF n = 0 THEN view
                                           ELSE ViewAfter(f[n - 1], sigs[n])]
            chosen == CHOOSE f : Replays(f)
<1>1. Replays(chosen)
  <2>1. Replays(views)
    <3>1. \A n \in 0..Len(sigs) : n # 0 => n \in 1..Len(sigs)
      OBVIOUS
    <3>. QED  BY <3>1 DEF IsReplay
  <2>. HIDE DEF Replays
  <2>. QED  BY <2>1
<1>2. ViewAfterAll(view, sigs) = chosen[Len(sigs)]
  BY DEF ViewAfterAll
<1>. HIDE DEF chosen
<1>3. \A n \in 0..Len(sigs) : chosen[n] = views[n]
  <2>. DEFINE Differ == {n \in 0..Len(sigs) : chosen[n] # views[n]}
  <2>1. SUFFICES ASSUME Differ # {} PROVE FALSE
    OBVIOUS
  <2>2. PICK n \in Differ : \A m \in Differ : n <= m
    <3>1. Differ \in SUBSET Nat
      OBVIOUS
    <3>. HIDE DEF Differ
    <3>. QED  BY <2>1, <3>1, MinimumExists
  <2>3. chosen[0] = view /\ views[0] = view
    BY <1>1 DEF IsReplay
  <2>4. n \in 1..Len(sigs) /\ n - 1 \in 0..Len(sigs) /\ ~ n <= n - 1
    BY <2>2, <2>3
  <2>5. chosen[n - 1] = views[n - 1]
    BY <2>2, <2>4
  <2>6. /\ chosen[n] = ViewAfter(chosen[n - 1], sigs[n])
        /\ views[n] = ViewAfter(views[n - 1], sigs[n])
    BY <1>1, <2>4 DEF IsReplay
  <2>. QED  BY <2>2, <2>5, <2>6
<1>. QED  BY <1>2, <1>3

(* What each signal does to a view.                                        *)
LEMMA ViewAfterSignal ==
    ASSUME NEW ids, NEW first
    PROVE  /\ \A index, id : ViewAfter([ids |-> ids, first |-> first], EntryAdded(index, id))
                  = [ids |-> Insert(ids, index, id), first |-> first]
           /\ \A index, id : ViewAfter([ids |-> ids, first |-> first], EntryRemoved(index, id))
                  = [ids |-> DeleteAt(ids, index), first |-> first]
           /\ \A index, newIndex, id :
                 ViewAfter([ids |-> ids, first |-> first], EntryMoved(index, newIndex, id))
                  = [ids |-> Insert(DeleteAt(ids, index), newIndex, id), first |-> first]
           /\ \A position :
                 ViewAfter([ids |-> ids, first |-> first], FirstTrackChanged(position))
                  = [ids |-> ids, first |-> [index |-> position.index, id |-> position.id]]
  <1>1. \A index, id : ViewAfter([ids |-> ids, first |-> first], EntryAdded(index, id))
                  = [ids |-> Insert(ids, index, id), first |-> first]
    BY Zenon DEF ViewAfter, EntryAdded
  <1>2. \A index, id : ViewAfter([ids |-> ids, first |-> first], EntryRemoved(index, id))
                  = [ids |-> DeleteAt(ids, index), first |-> first]
    BY Zenon DEF ViewAfter, EntryRemoved
  <1>3. \A index, newIndex, id :
                 ViewAfter([ids |-> ids, first |-> first], EntryMoved(index, newIndex, id))
                  = [ids |-> Insert(DeleteAt(ids, index), newIndex, id), first |-> first]
    <2>. SUFFICES ASSUME NEW index, NEW newIndex, NEW id
                  PROVE  ViewAfter([ids |-> ids, first |-> first], EntryMoved(index, newIndex, id))
                  = [ids |-> Insert(DeleteAt(ids, index), newIndex, id), first |-> first]
      OBVIOUS
    <2>. DEFINE s == EntryMoved(index, newIndex, id)
    <2>1. s.signal = "entryMoved" /\ s.from = index /\ s.to = newIndex /\ s.queueID = id
      BY DEF EntryMoved
    <2>. HIDE DEF s
    <2>2. ViewAfter([ids |-> ids, first |-> first], s) = 
             [[ids |-> ids, first |-> first] EXCEPT !.ids = Insert(DeleteAt(@, s.from), s.to, s.queueID)]
      BY <2>1, Zenon DEF ViewAfter
    <2>3. ViewAfter([ids |-> ids, first |-> first], s)
             = [ids |-> Insert(DeleteAt(ids, s.from), s.to, s.queueID), first |-> first]
      BY <2>2, Zenon
    <2>. QED  BY <2>1, <2>3 DEF s
  <1>4. \A position :
                 ViewAfter([ids |-> ids, first |-> first], FirstTrackChanged(position))
                  = [ids |-> ids, first |-> [index |-> position.index, id |-> position.id]]
    BY Zenon DEF ViewAfter, FirstTrackChanged
  <1>. QED BY <1>1, <1>2, <1>3, <1>4

LEMMA NothingExplains ==
    ASSUME NEW view
    PROVE  Explain(view, << >>, view)
<1>. DEFINE views == [n \in 0..0 |-> view]
<1>1. Len(<< >>) = 0 /\ views[0] = view /\ views = [n \in 0..0 |-> views[n]]
  OBVIOUS
<1>. HIDE DEF views
<1>2. IsReplay(views, view, << >>) /\ \A n \in 1..Len(<< >>) : FALSE
  BY <1>1 DEF IsReplay
<1>. QED  BY <1>1, <1>2 DEF Explain

LEMMA OneExplains ==
    ASSUME NEW view, NEW signal, Fits(signal, view.ids)
    PROVE  Explain(view, <<signal>>, ViewAfter(view, signal))
<1>. DEFINE sigs == <<signal>>
            views == [n \in 0..1 |-> IF n = 0 THEN view ELSE ViewAfter(view, signal)]
<1>1. Len(sigs) = 1 /\ sigs[1] = signal
  OBVIOUS
<1>2. /\ views[0] = view /\ views[1] = ViewAfter(view, signal)
      /\ views = [n \in 0..1 |-> views[n]]
  OBVIOUS
<1>. HIDE DEF sigs, views
<1>3. IsReplay(views, view, sigs)
  BY <1>1, <1>2 DEF IsReplay
<1>4. \A n \in 1..Len(sigs) : Fits(sigs[n], views[n - 1].ids)
  BY <1>1, <1>2
<1>5. Explain(view, sigs, ViewAfter(view, signal))
  BY <1>1, <1>2, <1>3, <1>4 DEF Explain
<1>. QED  BY <1>5 DEF sigs

LEMMA TwoExplain ==
    ASSUME NEW view, NEW signal, NEW next, Fits(signal, view.ids),
           Fits(next, ViewAfter(view, signal).ids)
    PROVE  Explain(view, <<signal, next>>, ViewAfter(ViewAfter(view, signal), next))
<1>. DEFINE sigs == <<signal, next>>
            middle == ViewAfter(view, signal)
            last == ViewAfter(middle, next)
            views == [n \in 0..2 |-> IF n = 0 THEN view ELSE IF n = 1 THEN middle ELSE last]
<1>1. Len(sigs) = 2 /\ sigs[1] = signal /\ sigs[2] = next
  OBVIOUS
<1>2. /\ views[0] = view /\ views[1] = middle /\ views[2] = last
      /\ views = [n \in 0..2 |-> views[n]]
  OBVIOUS
<1>. HIDE DEF sigs, views
<1>3. \A n \in 1..Len(sigs) : n = 1 \/ n = 2
  BY <1>1
<1>4. IsReplay(views, view, sigs)
  BY <1>1, <1>2, <1>3 DEF IsReplay
<1>5. \A n \in 1..Len(sigs) : Fits(sigs[n], views[n - 1].ids)
  BY <1>1, <1>2, <1>3
<1>6. Explain(view, sigs, last)
  BY <1>1, <1>2, <1>4, <1>5 DEF Explain
<1>. QED  BY <1>6 DEF sigs

(* An operation whose own signal describes what it does to the list tells  *)
(* a listener everything: firstTrackChanged follows if it is needed.       *)
LEMMA FinishExplains ==
    ASSUME NEW first \in [index : Int, id : Nat], NEW signal, NEW ids,
           Finish(first, signal), Fits(signal, QueueIds),
           ViewAfter(View, signal) = [ids |-> ids, first |-> firstTrack],
           QueueIds' = ids
    PROVE  Explain(View, signals', View')
<1>1. View' = [ids |-> ids, first |-> first]
  <2>1. firstTrack' = first
    BY DEF Finish, firstTrack
  <2>. QED  BY <2>1 DEF View
<1>2. View.ids = QueueIds
  BY DEF View
<1>3. CASE first = firstTrack
  <2>1. signals' = <<signal>>
    BY <1>3 DEF Finish
  <2>2. Explain(View, <<signal>>, ViewAfter(View, signal))
    BY <1>2, OneExplains
  <2>. QED  BY <1>1, <1>3, <2>1, <2>2
<1>4. CASE first # firstTrack
  <2>. DEFINE news == FirstTrackChanged(first)
  <2>1. signals' = <<signal, news>>
    BY <1>4 DEF Finish
  <2>2. first = [index |-> first.index, id |-> first.id]
    OBVIOUS
  <2>3. ViewAfter([ids |-> ids, first |-> firstTrack], news)
           = [ids |-> ids, first |-> first]
    BY <2>2, ViewAfterSignal
  <2>4. Fits(news, ViewAfter(View, signal).ids)
    BY DEF Fits, FirstTrackChanged, Signal, NoIndex
  <2>. HIDE DEF news
  <2>5. Explain(View, <<signal, news>>, ViewAfter(ViewAfter(View, signal), news))
    BY <1>2, <2>4, TwoExplain
  <2>. QED  BY <1>1, <2>1, <2>3, <2>5
<1>. QED  BY <1>3, <1>4

(* What is where after an insertion or a removal.                          *)
LEMMA InsertPlaces ==
    ASSUME NEW seq, Len(seq) \in Nat, NEW e, NEW index \in 0..Len(seq)
    PROVE  /\ Insert(seq, index, e) = [i \in 1..Len(seq) + 1 |-> Insert(seq, index, e)[i]]
           /\ \A i \in 1..index : Insert(seq, index, e)[i] = seq[i]
           /\ Insert(seq, index, e)[index + 1] = e
           /\ \A i \in index + 2..Len(seq) + 1 : Insert(seq, index, e)[i] = seq[i - 1]
  BY DEF Insert

LEMMA DeletePlaces ==
    ASSUME NEW seq, Len(seq) \in Nat, NEW index \in 0..Len(seq) - 1
    PROVE  /\ DeleteAt(seq, index) = [i \in 1..Len(seq) - 1 |-> DeleteAt(seq, index)[i]]
           /\ \A i \in 1..index : DeleteAt(seq, index)[i] = seq[i]
           /\ \A i \in index + 1..Len(seq) - 1 : DeleteAt(seq, index)[i] = seq[i + 1]
  BY DEF DeleteAt

(* The IDs of the entries of a list; those of the queue are QueueIds.      *)
IdsOf(q) == [i \in 1..Len(q) |-> q[i].queueID]

LEMMA IdsAreNumbers ==
    ASSUME NEW q \in Seq(Entry)
    PROVE  /\ IdsOf(q) \in Seq(Nat)
           /\ Len(IdsOf(q)) = Len(q) /\ Len(q) \in Nat
           /\ \A i \in 1..Len(q) : IdsOf(q)[i] = q[i].queueID
<1>1. Len(q) \in Nat /\ \A i \in 1..Len(q) : q[i] \in Entry
  BY LenProperties, ElementOfSeq
<1>2. \A i \in 1..Len(q) : q[i].queueID \in Nat
  BY <1>1 DEF Entry
<1>3. IdsOf(q) \in [1..Len(q) -> Nat]
  BY <1>2 DEF IdsOf
<1>. QED  BY <1>1, <1>3, FunctionIsSeq DEF IdsOf

LEMMA IdsAfterInsertion ==
    ASSUME NEW q \in Seq(Entry), NEW e \in Entry, NEW index \in 0..Len(q)
    PROVE  IdsOf(Insert(q, index, e)) = Insert(IdsOf(q), index, e.queueID)
<1>. DEFINE ids == IdsOf(q)
            id == e.queueID
            longer == Insert(q, index, e)
            longerIds == Insert(ids, index, id)
<1>1. /\ Len(ids) = Len(q) /\ Len(q) \in Nat /\ index \in 0..Len(q)
      /\ \A i \in 1..Len(q) : ids[i] = q[i].queueID
  BY IdsAreNumbers
<1>2. Len(longer) = Len(q) + 1
  BY InsertProperties
<1>3. /\ longer = [i \in 1..Len(q) + 1 |-> longer[i]]
      /\ \A i \in 1..index : longer[i] = q[i]
      /\ longer[index + 1] = e
      /\ \A i \in index + 2..Len(q) + 1 : longer[i] = q[i - 1]
  BY <1>1, InsertPlaces
<1>. HIDE DEF ids
<1>4. /\ longerIds = [i \in 1..Len(ids) + 1 |-> longerIds[i]]
      /\ \A i \in 1..index : longerIds[i] = ids[i]
      /\ longerIds[index + 1] = id
      /\ \A i \in index + 2..Len(ids) + 1 : longerIds[i] = ids[i - 1]
  <2>1. Len(ids) \in Nat /\ index \in 0..Len(ids)
    BY <1>1
  <2>. HIDE DEF id
  <2>. QED  BY <2>1, InsertPlaces
<1>. HIDE DEF longer, longerIds
<1>5. ASSUME NEW i \in 1..Len(q) + 1
      PROVE  longer[i].queueID = longerIds[i]
  <2>1. CASE i <= index
    <3>1. i \in 1..index /\ i \in 1..Len(q)
      BY <1>1, <2>1
    <3>. QED  BY <1>1, <1>3, <1>4, <3>1
  <2>2. CASE i = index + 1
    BY <1>3, <1>4, <2>2
  <2>3. CASE i > index + 1
    <3>1. i \in index + 2..Len(q) + 1 /\ i - 1 \in 1..Len(q)
      BY <1>1, <2>3
    <3>. QED  BY <1>1, <1>3, <1>4, <3>1
  <2>. QED  BY <1>1, <2>1, <2>2, <2>3
<1>6. IdsOf(longer) = longerIds
  BY <1>1, <1>2, <1>4, <1>5 DEF IdsOf
<1>. QED  BY <1>6 DEF longer, longerIds, ids, id

LEMMA IdsAfterDeletion ==
    ASSUME NEW q \in Seq(Entry), NEW index \in 0..Len(q) - 1
    PROVE  IdsOf(DeleteAt(q, index)) = DeleteAt(IdsOf(q), index)
<1>. DEFINE ids == IdsOf(q)
            shorter == DeleteAt(q, index)
            shorterIds == DeleteAt(ids, index)
<1>1. /\ Len(ids) = Len(q) /\ Len(q) \in Nat /\ index \in 0..Len(q) - 1
      /\ \A i \in 1..Len(q) : ids[i] = q[i].queueID
  BY IdsAreNumbers
<1>2. Len(shorter) = Len(q) - 1
  BY RemoveProperties
<1>3. /\ shorter = [i \in 1..Len(q) - 1 |-> shorter[i]]
      /\ \A i \in 1..index : shorter[i] = q[i]
      /\ \A i \in index + 1..Len(q) - 1 : shorter[i] = q[i + 1]
  BY <1>1, DeletePlaces
<1>. HIDE DEF ids
<1>4. /\ shorterIds = [i \in 1..Len(ids) - 1 |-> shorterIds[i]]
      /\ \A i \in 1..index : shorterIds[i] = ids[i]
      /\ \A i \in index + 1..Len(ids) - 1 : shorterIds[i] = ids[i + 1]
  <2>1. Len(ids) \in Nat /\ index \in 0..Len(ids) - 1
    BY <1>1
  <2>. QED  BY <2>1, DeletePlaces
<1>. HIDE DEF shorter, shorterIds
<1>5. ASSUME NEW i \in 1..Len(q) - 1
      PROVE  shorter[i].queueID = shorterIds[i]
  <2>1. CASE i <= index
    <3>1. i \in 1..index /\ i \in 1..Len(q)
      BY <1>1, <2>1
    <3>. QED  BY <1>1, <1>3, <1>4, <3>1
  <2>2. CASE i > index
    <3>1. i \in index + 1..Len(q) - 1 /\ i + 1 \in 1..Len(q)
      BY <1>1, <2>2
    <3>. QED  BY <1>1, <1>3, <1>4, <3>1
  <2>. QED  BY <1>1, <2>1, <2>2
<1>6. IdsOf(shorter) = shorterIds
  BY <1>1, <1>2, <1>4, <1>5 DEF IdsOf
<1>. QED  BY <1>6 DEF shorter, shorterIds, ids

(* A move is a removal followed by an insertion.                           *)
LEMMA MoveIsReinsertion ==
    ASSUME NEW S, NEW seq \in Seq(S), NEW index \in 0..Len(seq) - 1,
           NEW newIndex \in 0..Len(seq) - 1
    PROVE  Move(seq, index, newIndex)
             = Insert(DeleteAt(seq, index), newIndex, seq[index + 1])
<1>. DEFINE without == DeleteAt(seq, index)
            e == seq[index + 1]
            with == Insert(without, newIndex, e)
            moved == Move(seq, index, newIndex)
<1>1. Len(seq) \in Nat /\ e \in S
  BY LenProperties, ElementOfSeq
<1>2. /\ without \in Seq(S) /\ Len(without) = Len(seq) - 1
      /\ \A i \in 1..Len(seq) - 1 :
            without[i] = IF i <= index THEN seq[i] ELSE seq[i + 1]
  BY RemoveProperties
<1>3. /\ moved \in Seq(S) /\ Len(moved) = Len(seq)
      /\ \A i \in 1..Len(seq) :
            moved[i] = IF i = newIndex + 1 THEN e
                       ELSE IF i > index /\ i <= newIndex THEN seq[i + 1]
                       ELSE IF i > newIndex + 1 /\ i <= index + 1 THEN seq[i - 1]
                       ELSE seq[i]
  BY MoveProperties
<1>. HIDE DEF without, e, moved
<1>4. /\ with = [i \in 1..Len(seq) |-> with[i]]
      /\ \A i \in 1..newIndex : with[i] = without[i]
      /\ with[newIndex + 1] = e
      /\ \A i \in newIndex + 2..Len(seq) : with[i] = without[i - 1]
  <2>1. newIndex \in 0..Len(without) /\ Len(without) \in Nat /\ Len(without) + 1 = Len(seq)
    BY <1>1, <1>2
  <2>. QED  BY <2>1, InsertPlaces
<1>. HIDE DEF with
<1>5. ASSUME NEW i \in 1..Len(seq)
      PROVE  moved[i] = with[i]
  <2>1. CASE i = newIndex + 1
    BY <1>1, <1>2, <1>3, <1>4, <2>1
  <2>2. CASE i <= newIndex
    <3>0. i \in 1..newIndex /\ i \in 1..Len(seq) - 1
      BY <1>1, <2>2
    <3>1. with[i] = IF i <= index THEN seq[i] ELSE seq[i + 1]
      BY <1>2, <1>4, <3>0
    <3>2. moved[i] = IF i > index THEN seq[i + 1] ELSE seq[i]
      BY <1>1, <1>3, <2>2
    <3>. QED  BY <1>1, <3>1, <3>2
  <2>3. CASE i > newIndex + 1
    <3>1. without[i - 1] = IF i - 1 <= index THEN seq[i - 1] ELSE seq[(i - 1) + 1]
      BY <1>1, <1>2, <2>3
    <3>2. i \in newIndex + 2..Len(seq) /\ (i - 1) + 1 = i
      BY <1>1, <2>3
    <3>0. with[i] = without[i - 1]
      BY <1>4, <3>2
    <3>3. moved[i] = IF i <= index + 1 THEN seq[i - 1] ELSE seq[i]
      BY <1>1, <1>3, <2>3
    <3>4. i - 1 <= index <=> i <= index + 1
      BY <1>1
    <3>. QED  BY <3>0, <3>1, <3>2, <3>3, <3>4
  <2>. QED  BY <1>1, <2>1, <2>2, <2>3
<1>6. moved = with
  BY <1>1, <1>3, <1>4, <1>5 DEF moved, Move
<1>. QED  BY <1>6 DEF moved, with, without, e

LEMMA QueueIdsAreIds ==
    ASSUME queue \in Seq(Entry)
    PROVE  /\ QueueIds \in Seq(Nat)
           /\ Len(QueueIds) = Len(queue) /\ Len(queue) \in Nat
           /\ \A i \in 0..Len(queue) - 1 :
                 QueueIds[i + 1] = queue[i + 1].queueID /\ queue[i + 1].queueID \in Nat
<1>1. QueueIds = IdsOf(queue)
  BY DEF QueueIds, IdsOf
<1>2. \A i \in 1..Len(queue) : QueueIds[i] = queue[i].queueID /\ QueueIds[i] \in Nat
  BY <1>1, IdsAreNumbers, ElementOfSeq
<1>. QED  BY <1>1, <1>2, IdsAreNumbers

LEMMA InsertExplains ==
    ASSUME QueueInv, NEW index \in 0..Len(queue), NEW kind \in Kinds,
           InsertAtIndex(index, kind)
    PROVE  Explain(View, signals', View')
<1>. DEFINE entry == [queueID |-> nextQueueID, kind |-> kind]
            first == FirstTrackAfterInsert(index, entry)
<1>1. queue \in Seq(Entry) /\ nextQueueID \in Nat /\ index \in Nat
  BY LenProperties DEF QueueInv, QueueTypeOK
<1>2. entry \in Entry /\ entry.queueID = nextQueueID
  BY DEF QueueInv, QueueTypeOK, Entry
<1>3. /\ queue' = Insert(queue, index, entry)
      /\ Finish(first, EntryAdded(index, nextQueueID))
  BY DEF InsertAtIndex
<1>4. first \in [index : Int, id : Nat]
  BY <1>1, <1>2 DEF FirstTrackAfterInsert, MovedFirstTrack, firstTrack,
                    QueueInv, QueueTypeOK
<1>. HIDE DEF entry, first
<1>5. QueueIds' = Insert(QueueIds, index, nextQueueID)
  <2>1. IdsOf(Insert(queue, index, entry)) = Insert(IdsOf(queue), index, nextQueueID)
    BY <1>1, <1>2, IdsAfterInsertion
  <2>. QED  BY <1>3, <2>1 DEF QueueIds, IdsOf
<1>6. ViewAfter(View, EntryAdded(index, nextQueueID))
        = [ids |-> Insert(QueueIds, index, nextQueueID), first |-> firstTrack]
  BY ViewAfterSignal DEF View
<1>7. Fits(EntryAdded(index, nextQueueID), QueueIds)
  BY <1>1, QueueIdsAreIds DEF Fits, EntryAdded, Signal, NoIndex
<1>. QED  BY <1>3, <1>4, <1>5, <1>6, <1>7, FinishExplains

LEMMA RemovalExplains ==
    ASSUME QueueInv, NEW index \in 0..Len(queue) - 1,
           queue' = DeleteAt(queue, index),
           Finish(FirstTrackAfterRemove(index),
                  EntryRemoved(index, queue[index + 1].queueID))
    PROVE  Explain(View, signals', View')
<1>. DEFINE first == FirstTrackAfterRemove(index)
            id == queue[index + 1].queueID
<1>1. queue \in Seq(Entry) /\ Len(queue) \in Nat
  BY LenProperties DEF QueueInv, QueueTypeOK
<1>2. queue' \in Seq(Entry) /\ Len(queue') = Len(queue) - 1
  BY <1>1, RemoveProperties
<1>3. first \in [index : Int, id : Nat]
  BY <1>1, <1>2, RemovalFirst, IsFirstType
<1>4. QueueIds' = DeleteAt(QueueIds, index)
  <2>1. IdsOf(DeleteAt(queue, index)) = DeleteAt(IdsOf(queue), index)
    BY <1>1, IdsAfterDeletion
  <2>. QED  BY <2>1 DEF QueueIds, IdsOf
<1>5. ViewAfter(View, EntryRemoved(index, id))
        = [ids |-> DeleteAt(QueueIds, index), first |-> firstTrack]
  BY ViewAfterSignal DEF View
<1>6. Fits(EntryRemoved(index, id), QueueIds)
  BY <1>1, QueueIdsAreIds DEF Fits, EntryRemoved, Signal, NoIndex
<1>. HIDE DEF first
<1>. QED  BY <1>3, <1>4, <1>5, <1>6, FinishExplains DEF first

LEMMA DequeueExplains ==
    ASSUME QueueInv, Dequeue
    PROVE  Explain(View, signals', View')
<1>1. queue \in Seq(Entry) /\ queue # << >> /\ Len(queue) \in Nat
  BY LenProperties DEF QueueInv, QueueTypeOK, Dequeue
<1>2. Len(queue) > 0 /\ 0 \in 0..Len(queue) - 1
  BY <1>1, EmptySeq
<1>3. Tail(queue) = DeleteAt(queue, 0)
  BY <1>1, <1>2, TailIsDeletion
<1>. QED  BY <1>2, <1>3, RemovalExplains DEF Dequeue

LEMMA MoveExplains ==
    ASSUME QueueInv, NEW index \in 0..Len(queue) - 1,
           NEW indexDiff \in Int, MoveByIndex(index, indexDiff)
    PROVE  Explain(View, signals', View')
<1>. DEFINE newIndex == index + indexDiff
            first == FirstTrackAfterMove(index, newIndex)
            id == queue[index + 1].queueID
<1>1. queue \in Seq(Entry) /\ Len(queue) \in Nat
  BY LenProperties DEF QueueInv, QueueTypeOK
<1>2. newIndex \in 0..Len(queue) - 1 /\ newIndex # index
  BY <1>1 DEF MoveByIndex
<1>3. queue' = Move(queue, index, newIndex) /\ Finish(first, EntryMoved(index, newIndex, id))
  BY DEF MoveByIndex
<1>. HIDE DEF newIndex
<1>4. queue' \in Seq(Entry) /\ Len(queue') = Len(queue)
  BY <1>1, <1>2, <1>3, MoveProperties
<1>5. first \in [index : Int, id : Nat]
  BY <1>1, <1>2, <1>3, <1>4, MoveFirst, IsFirstType
<1>6. QueueIds' = Insert(DeleteAt(QueueIds, index), newIndex, id)
  <2>. DEFINE without == DeleteAt(queue, index)
  <2>1. without \in Seq(Entry) /\ Len(without) = Len(queue) - 1
    BY <1>1, RemoveProperties
  <2>2. IdsOf(without) = DeleteAt(IdsOf(queue), index)
    BY <1>1, IdsAfterDeletion
  <2>3. queue' = Insert(without, newIndex, queue[index + 1])
    BY <1>1, <1>2, <1>3, MoveIsReinsertion
  <2>. HIDE DEF without
  <2>4. queue[index + 1] \in Entry
    BY <1>1, ElementOfSeq
  <2>5. IdsOf(Insert(without, newIndex, queue[index + 1]))
          = Insert(IdsOf(without), newIndex, id)
    BY <1>1, <1>2, <2>1, <2>4, IdsAfterInsertion
  <2>. QED  BY <2>2, <2>3, <2>5 DEF QueueIds, IdsOf
<1>7. ViewAfter(View, EntryMoved(index, newIndex, id))
        = [ids |-> Insert(DeleteAt(QueueIds, index), newIndex, id), first |-> firstTrack]
  BY ViewAfterSignal DEF View
<1>8. Fits(EntryMoved(index, newIndex, id), QueueIds)
  BY <1>1, <1>2, QueueIdsAreIds DEF Fits, EntryMoved, Signal
<1>. HIDE DEF first
<1>. QED  BY <1>3, <1>5, <1>6, <1>7, <1>8, FinishExplains DEF first

(* The IDs of the first n entries.                                         *)
FrontIds(n) == [i \in 1..n |-> queue[i].queueID]

LEMMA TrimExplains ==
    ASSUME QueueInv, NEW length \in Nat, Trim(length)
    PROVE  Explain(View, signals', View')
<1>. DEFINE size == Len(queue)
            n == size - length
            Removal(k) == EntryRemoved(size - k, queue[size - k + 1].queueID)
            plain == [k \in 1..n |-> Removal(k)]
            Step(sigs, views, m) == /\ views[m] = ViewAfter(views[m - 1], sigs[m])
                                    /\ Fits(sigs[m], views[m - 1].ids)
<1>1. /\ queue \in Seq(Entry) /\ size \in Nat /\ n \in Nat /\ n > 0
      /\ length \in Nat /\ size = length + n
  BY LenProperties DEF QueueInv, QueueTypeOK, Trim
<1>2. \A k \in 1..n : DeleteAt(FrontIds(size - k + 1), size - k) = FrontIds(size - k)
  BY <1>1 DEF DeleteAt, FrontIds
<1>3. View = [ids |-> FrontIds(size), first |-> firstTrack]
  BY DEF View, QueueIds, FrontIds
<1>4. QueueIds' = FrontIds(length)
  <2>1. queue' = SubSeq(queue, 1, length) /\ \A i \in 1..length : queue[i] \in Entry
    BY <1>1, ElementOfSeq DEF Trim
  <2>2. Len(queue') = length /\ \A i \in 1..length : queue'[i] = queue[i]
    BY <1>1, <2>1, SubSeqProperties
  <2>. QED  BY <2>2 DEF QueueIds, FrontIds
<1>5. \A k \in 1..n : \A first :
         ViewAfter([ids |-> FrontIds(size - k + 1), first |-> first], Removal(k))
           = [ids |-> FrontIds(size - k), first |-> first]
  BY <1>2, ViewAfterSignal
<1>9. ASSUME NEW k \in 1..n
      PROVE  Fits(Removal(k), FrontIds(size - k + 1))
  <2>1. size - k \in 0..size - 1 /\ size - k + 1 \in 1..size /\ size - k + 1 \in Nat
    BY <1>1
  <2>2. queue[size - k + 1].queueID \in Nat
    <3>1. queue[size - k + 1] \in Entry
      BY <1>1, <2>1, ElementOfSeq
    <3>. QED  BY <3>1 DEF Entry
  <2>3. /\ Len(FrontIds(size - k + 1)) = size - k + 1
        /\ FrontIds(size - k + 1)[size - k + 1] = queue[size - k + 1].queueID
    BY <2>1 DEF FrontIds
  <2>. HIDE DEF n, size
  <2>. QED  BY <1>1, <2>1, <2>2, <2>3 DEF Fits, EntryRemoved, Signal, NoIndex
<1>. HIDE DEF Removal, n, size
<1>6. Len(plain) = n /\ plain = [k \in 1..n |-> Removal(k)]
  BY <1>1
<1>7. CASE firstTrackIndex < length
  <2>. DEFINE views == [m \in 0..n |-> [ids |-> FrontIds(size - m), first |-> firstTrack]]
  <2>1. signals' = plain
    BY <1>7 DEF Trim, TrimSignals, n, size, Removal
  <2>2. View' = [ids |-> FrontIds(length), first |-> firstTrack]
    BY <1>4, <1>7 DEF Trim, View, firstTrack
  <2>3. ASSUME NEW m \in 1..n
        PROVE  Step(plain, views, m)
    <3>1. m \in 0..n /\ m - 1 \in 0..n /\ size - (m - 1) = size - m + 1
      BY <1>1
    <3>2. views[m - 1] = [ids |-> FrontIds(size - m + 1), first |-> firstTrack]
      BY <3>1
    <3>3. plain[m] = Removal(m)
      OBVIOUS
    <3>4. views[m] = [ids |-> FrontIds(size - m), first |-> firstTrack]
      BY <3>1
    <3>. HIDE DEF plain, views
    <3>. QED  BY <1>5, <1>9, <3>2, <3>3, <3>4
  <2>4. views[n] = [ids |-> FrontIds(length), first |-> firstTrack] /\ DOMAIN views = 0..n
    BY <1>1
  <2>5. views = [m \in 0..n |-> views[m]] /\ views[0] = View
    BY <1>1, <1>3
  <2>. HIDE DEF plain, views
  <2>6. IsReplay(views, View, plain)
    BY <1>6, <2>3, <2>5 DEF IsReplay
  <2>. QED  BY <1>6, <2>1, <2>2, <2>3, <2>4, <2>6 DEF Explain
<1>8. CASE ~ firstTrackIndex < length
  <2>. DEFINE gone == FirstTrackChanged(NoFirstTrack)
              p == size - firstTrackIndex
              sigs == Insert(plain, p, gone)
              views == [m \in 0..n + 1 |->
                          IF m <= p
                          THEN [ids |-> FrontIds(size - m), first |-> firstTrack]
                          ELSE [ids |-> FrontIds(size - (m - 1)), first |-> NoFirstTrack]]
  <2>1. signals' = sigs
    BY <1>8 DEF Trim, TrimSignals, n, size, Removal
  <2>2. View' = [ids |-> FrontIds(length), first |-> NoFirstTrack]
    BY <1>4, <1>8 DEF Trim, View, firstTrack, NoFirstTrack
  <2>3. p \in 1..n
    BY <1>1, <1>8, FirstTrackCases DEF NoTrack, SomeTrack, n, size
  <2>. HIDE DEF p
  <2>4. /\ sigs = [i \in 1..n + 1 |-> sigs[i]]
        /\ \A i \in 1..p : sigs[i] = plain[i]
        /\ sigs[p + 1] = gone
        /\ \A i \in p + 2..n + 1 : sigs[i] = plain[i - 1]
    <3>1. Len(plain) \in Nat /\ p \in 0..Len(plain)
      BY <1>1, <1>6, <2>3
    <3>. HIDE DEF plain, gone
    <3>2. /\ sigs = [i \in 1..Len(plain) + 1 |-> sigs[i]]
          /\ \A i \in 1..p : sigs[i] = plain[i]
          /\ sigs[p + 1] = gone
          /\ \A i \in p + 2..Len(plain) + 1 : sigs[i] = plain[i - 1]
      BY ONLY <3>1, InsertPlaces
    <3>. QED  BY <1>6, <3>2
  <2>5. Len(sigs) = n + 1
    <3>. HIDE DEF plain, gone
    <3>. QED  BY <1>1, <1>6 DEF Insert
  <2>6. \A k \in 1..n : plain[k] = Removal(k)
    OBVIOUS
  <2>. HIDE DEF plain, sigs
  <2>7. ViewAfter([ids |-> FrontIds(size - p), first |-> firstTrack], gone)
          = [ids |-> FrontIds(size - p), first |-> NoFirstTrack]
    BY ViewAfterSignal DEF NoFirstTrack
  <2>12. \A ids : Fits(gone, ids)
    BY DEF Fits, FirstTrackChanged, NoFirstTrack, Signal, NoIndex, NoQueueId
  <2>. HIDE DEF gone
  <2>8. ASSUME NEW m \in 1..n + 1
        PROVE  Step(sigs, views, m)
    <3>1. m \in 0..n + 1
      BY <1>1
    <3>2. CASE m <= p
      <4>1. m \in 1..n /\ m \in 1..p /\ m - 1 \in 0..n + 1 /\ size - (m - 1) = size - m + 1
        BY <1>1, <2>3, <3>2
      <4>2. views[m - 1] = [ids |-> FrontIds(size - m + 1), first |-> firstTrack]
        BY <2>3, <3>2, <4>1
      <4>3. sigs[m] = Removal(m)
        BY <2>4, <2>6, <4>1
      <4>4. views[m] = [ids |-> FrontIds(size - m), first |-> firstTrack]
        BY <3>1, <3>2
      <4>. HIDE DEF views
      <4>. QED  BY <1>5, <1>9, <4>1, <4>2, <4>3, <4>4
    <3>3. CASE m = p + 1
      <4>1. m - 1 = p /\ p \in 0..n + 1 /\ ~ m <= p
        BY <1>1, <2>3, <3>3
      <4>2. views[m - 1] = [ids |-> FrontIds(size - p), first |-> firstTrack]
        BY <2>3, <4>1
      <4>3. views[m] = [ids |-> FrontIds(size - p), first |-> NoFirstTrack]
        BY <3>1, <4>1
      <4>. HIDE DEF views
      <4>. QED  BY <2>4, <2>7, <2>12, <3>3, <4>1, <4>2, <4>3
    <3>4. CASE m > p + 1
      <4>1. /\ m - 1 \in 1..n /\ m \in p + 2..n + 1 /\ m - 1 \in 0..n + 1
            /\ ~ m <= p /\ ~ m - 1 <= p
            /\ size - ((m - 1) - 1) = size - (m - 1) + 1
        BY <1>1, <2>3, <3>4
      <4>2. views[m - 1] = [ids |-> FrontIds(size - (m - 1) + 1), first |-> NoFirstTrack]
        BY <3>1, <4>1
      <4>3. sigs[m] = Removal(m - 1)
        BY <2>4, <2>6, <4>1
      <4>4. views[m] = [ids |-> FrontIds(size - (m - 1)), first |-> NoFirstTrack]
        BY <3>1, <4>1
      <4>. HIDE DEF views
      <4>. QED  BY <1>5, <1>9, <4>1, <4>2, <4>3, <4>4
    <3>5. m <= p \/ m = p + 1 \/ m > p + 1
      BY <1>1, <2>3
    <3>. HIDE DEF views, Step
    <3>. QED  BY <3>2, <3>3, <3>4, <3>5
  <2>9. views[n + 1] = [ids |-> FrontIds(length), first |-> NoFirstTrack]
    <3>1. n + 1 \in 0..n + 1 /\ ~ n + 1 <= p /\ size - ((n + 1) - 1) = length
      BY <1>1, <2>3
    <3>. QED  BY <3>1
  <2>10. views = [m \in 0..n + 1 |-> views[m]] /\ views[0] = View
    BY <1>1, <1>3, <2>3
  <2>. HIDE DEF views
  <2>11. IsReplay(views, View, sigs)
    BY <2>5, <2>8, <2>10 DEF IsReplay
  <2>. QED  BY <2>1, <2>2, <2>5, <2>8, <2>9, <2>11 DEF Explain
<1>. QED  BY <1>7, <1>8

(* Every operation on the queue emits signals that explain what it does.   *)
LEMMA OperationsExplain ==
    ASSUME QueueInv, QueueNext
    PROVE  Explain(View, signals', View') /\ signals' \in Seq(Signal)
<1>. SUFFICES Explain(View, signals', View')
  BY QueueNextInv DEF QueueInv, QueueTypeOK
<1>1. ASSUME NEW index \in 0..Len(queue), NEW kind \in Kinds,
             InsertAtIndex(index, kind)
      PROVE  Explain(View, signals', View')
  BY <1>1, InsertExplains
<1>2. CASE InsertBreakAtFrontIfNotExists
  <2>1. 0 \in 0..Len(queue) /\ "Break" \in Kinds
    BY LenProperties DEF QueueInv, QueueTypeOK, Kinds
  <2>. QED  BY <1>2, <2>1, InsertExplains DEF InsertBreakAtFrontIfNotExists
<1>3. ASSUME NEW index \in 0..Len(queue) - 1, RemoveAtIndex(index)
      PROVE  Explain(View, signals', View')
  BY <1>3, RemovalExplains DEF RemoveAtIndex
<1>4. ASSUME NEW index \in 0..Len(queue) - 1,
             NEW indexDiff \in -Len(queue)..Len(queue), MoveByIndex(index, indexDiff)
      PROVE  Explain(View, signals', View')
  <2>1. indexDiff \in Int
    BY LenProperties DEF QueueInv, QueueTypeOK
  <2>. QED  BY <1>4, <2>1, MoveExplains
<1>5. CASE Trim(TrimLength)
  BY <1>5, QueueConstants, TrimExplains
<1>6. CASE Dequeue
  BY <1>6, DequeueExplains
<1>7. ASSUME NEW id \in Dequeued, AddToHistory(id)
      PROVE  Explain(View, signals', View')
  BY <1>7, NothingExplains DEF AddToHistory, View, QueueIds, firstTrack
<1>. QED  BY <1>1, <1>2, <1>3, <1>4, <1>5, <1>6, <1>7 DEF QueueNext, UserOperation

(* For a queue of any length and any operation on it: a listener that      *)
(* processes the signals in the order of emission turns its view of the    *)
(* queue before the operation into the queue after it, and its idea of the *)
(* first track into the new first track.                                   *)
THEOREM SignalsAreComplete == QueueSpec => SignalsDescribeTheChange
<1>. DEFINE Described == ViewAfterAll(View, signals') = View'
<1>1. QueueInv /\ [QueueNext]_queueVars => [Described]_queueVars
  <2>. SUFFICES ASSUME QueueInv, QueueNext
                PROVE  Described
    OBVIOUS
  <2>1. Explain(View, signals', View') /\ Len(signals') \in Nat
    BY OperationsExplain, LenProperties
  <2>2. PICK views : /\ IsReplay(views, View, signals')
                     /\ views[Len(signals')] = View'
    BY <2>1 DEF Explain
  <2>. QED  BY <2>1, <2>2, Replay
<1>2. Described <=> ViewAfterAll(View, signals') = View'
  OBVIOUS
<1>. HIDE DEF Described
<1>3. QueueSpec => [][Described]_queueVars
  BY QueueInitInv, QueueNextInv, <1>1, PTL DEF QueueSpec
<1>. QED  BY <1>3 DEF SignalsDescribeTheChange, Described

-----------------------------------------------------------------------------
(* The player.                                                             *)

Slots == [current : Instances \cup {NoInstance}, next : Instances \cup {NoInstance},
          old1 : Instances \cup {NoInstance}, old2 : Instances \cup {NoInstance}]

Calls == [phase : {"idle", "loop", "dequeued", "finish", "crashed"},
          stopCurrent : BOOLEAN, playNext : BOOLEAN,
          oldCurrent : Instances \cup {NoInstance}, next : Instances \cup {NoInstance},
          emitter : Instances \cup {NoInstance},
          entry : [queueID : Nat, kind : Kinds]]

IsPool(insts) ==
    /\ DOMAIN insts \in SUBSET Instances
    /\ insts \in [DOMAIN insts -> InstanceState]

TypeInv ==
    /\ QueueInv
    /\ state \in {"Stopped", "Playing", "Paused"}
    /\ slots \in Slots
    /\ IsPool(instances)
    /\ startedTracks \in SUBSET Nat
    /\ historyOrder \in Seq(Nat \ {NoQueueId})
    /\ pendingHistory \in SUBSET Nat
    /\ call \in Calls
    /\ errors \in Nat
    /\ syncStop \in BOOLEAN

(* Where startNext() is, and what it can rely on.                          *)
CallInv ==
    /\ call.phase \in {"idle", "crashed"} =>
          call.next = NoInstance /\ call.oldCurrent = NoInstance
    /\ call.phase \in {"loop", "dequeued"} => slots.current = NoInstance
    /\ call.phase = "dequeued" => call.entry.queueID # NoQueueId
    /\ slots.current \in {NoInstance, call.next} \/ call.phase = "idle"
    /\ call.oldCurrent \in DOMAIN instances \cup {NoInstance}
    /\ call.emitter \in {NoInstance, call.oldCurrent}
    /\ call.next # NoInstance => call.next # call.oldCurrent

(* The slots s and the instance in hand hold each instance once, and those *)
(* that nobody holds are to be deleted.                                    *)
Managed(s, insts, inHand) ==
    /\ {s.current, s.next, s.old1, s.old2, inHand} \subseteq DOMAIN insts \cup {NoInstance}
    /\ s.current # NoInstance => s.current \notin {s.next, s.old1, s.old2, inHand}
    /\ s.next # NoInstance => s.next \notin {s.old1, s.old2, inHand}
    /\ s.old1 # NoInstance => s.old1 \notin {s.old2, inHand}
    /\ s.old2 # NoInstance => s.old2 # inHand
    /\ \A i \in DOMAIN insts :
          insts[i].deleteAfterStopped <=>
              i \notin {s.current, s.next, s.old1, s.old2, inHand}
    /\ s.next # NoInstance => insts[s.next].available

InHand == IF slots.current = call.next THEN NoInstance ELSE call.next

PoolInv ==
    /\ Managed(slots, instances, InHand)
    /\ InHand # NoInstance => instances[InHand].available

(* Reported before, waiting to be, or too old to be in the history.        *)
Reported(id) == id \in InHistory \/ id \notin idLookup \/ id \in pendingHistory

(* An instance that is available does not run; one that runs has a track,  *)
(* and one that has failed has reported its track.                         *)
InstanceInv ==
    \A i \in DOMAIN instances :
        /\ instances[i].available => ~ Running(i)
        /\ instances[i].track = NoQueueId =>
              ~ Running(i) /\ ~ instances[i].stopping /\ i # slots.current
        /\ instances[i].failed => Reported(instances[i].track)
        /\ i = call.emitter => ~ Running(i) /\ ~ instances[i].available

(* No ID is used that has not been handed out.                             *)
IdInv ==
    /\ \A k \in 1..Len(queue) : queue[k].queueID < nextQueueID
    /\ \A i \in DOMAIN instances : instances[i].track < nextQueueID
    /\ call.entry.queueID < nextQueueID
    /\ \A id \in startedTracks : id < nextQueueID

(* Whatever was started was reported, or is running.                       *)
TrackInv ==
    \A id \in startedTracks :
        \/ Reported(id)
        \/ \E i \in DOMAIN instances : instances[i].track = id /\ Running(i)

(* While stops are reported right away and no track has failed, only the   *)
(* instance that plays is in use, or the one that has just played; and at  *)
(* most one of the four places has no instance.                            *)
InUse == IF slots.current # NoInstance THEN slots.current ELSE call.next

OneMissing(a, b, c, d) ==
    /\ a = NoInstance => NoInstance \notin {b, c, d}
    /\ b = NoInstance => NoInstance \notin {c, d}
    /\ c = NoInstance => d # NoInstance

SyncInv ==
    syncStop /\ errors = 0 =>
        /\ call.phase # "crashed"
        /\ call.phase # "idle" => call.next # NoInstance
        /\ AtRest /\ state = "Stopped" => slots.current = NoInstance
        /\ OneMissing(InUse, slots.next, slots.old1, slots.old2)
        /\ \A i \in DOMAIN instances :
              /\ ~ instances[i].failed
              /\ ~ instances[i].available =>
                    /\ Running(i) \/ i = call.emitter
                    /\ i \in {slots.current, call.oldCurrent}
                    /\ i = call.oldCurrent => i = call.emitter \/ call.stopCurrent

IInv == /\ TypeInv /\ CallInv /\ PoolInv /\ InstanceInv /\ IdInv /\ TrackInv /\ SyncInv

-----------------------------------------------------------------------------
(* What becomes of the instances: only i is changed,                       *)
Updated(insts, after, i) ==
    /\ IsPool(after) /\ DOMAIN after = DOMAIN insts
    /\ \A j \in DOMAIN insts : j # i => after[j] = insts[j]

(* or some that are stopped are gone, and others are going to be.          *)
SameTrack(a, b) ==
    /\ a.track = b.track /\ a.mediaSet = b.mediaSet /\ a.available = b.available
    /\ a.backend = b.backend /\ a.stopping = b.stopping /\ a.failed = b.failed

Thinned(insts, after) ==
    /\ IsPool(after) /\ DOMAIN after \subseteq DOMAIN insts
    /\ \A j \in DOMAIN after : SameTrack(after[j], insts[j])
    /\ \A j \in DOMAIN insts \ DOMAIN after : insts[j].backend = "Stopped"

LEMMA ThinnedTwice ==
    ASSUME NEW a, NEW b, NEW c, Thinned(a, b), Thinned(b, c)
    PROVE  Thinned(a, c)
  BY DEF Thinned, SameTrack

LEMMA ThinnedByNothing ==
    ASSUME NEW a, IsPool(a)
    PROVE  Thinned(a, a)
  BY DEF Thinned, SameTrack

LEMMA UpdatedByRecord ==
    ASSUME NEW insts, IsPool(insts), NEW i \in DOMAIN insts, NEW x \in InstanceState
    PROVE  /\ Updated(insts, [insts EXCEPT ![i] = x], i)
           /\ [insts EXCEPT ![i] = x][i] = x
  BY DEF IsPool, Updated

LEMMA DeleteAfterStoppedThins ==
    ASSUME NEW insts, IsPool(insts), NEW i \in DOMAIN insts
    PROVE  /\ Thinned(insts, DeleteAfterStopped(insts, i))
           /\ DOMAIN insts \ {i} \subseteq DOMAIN DeleteAfterStopped(insts, i)
           /\ \A j \in DOMAIN DeleteAfterStopped(insts, i) :
                 DeleteAfterStopped(insts, i)[j].deleteAfterStopped <=>
                     insts[j].deleteAfterStopped \/ j = i
<1>1. CASE insts[i].backend = "Stopped"
  <2>1. DeleteAfterStopped(insts, i) = [j \in DOMAIN insts \ {i} |-> insts[j]]
    BY <1>1 DEF DeleteAfterStopped
  <2>2. QED  BY <1>1, <2>1 DEF Thinned, SameTrack, IsPool
<1>2. CASE insts[i].backend # "Stopped"
  <2>. DEFINE x == [insts[i] EXCEPT !.deleteAfterStopped = TRUE]
  <2>1. insts[i] \in InstanceState
    BY DEF IsPool
  <2>2. x \in InstanceState /\ x.deleteAfterStopped /\ SameTrack(x, insts[i])
    BY <2>1, Zenon DEF InstanceState, SameTrack
  <2>3. DeleteAfterStopped(insts, i) = [insts EXCEPT ![i] = x]
    BY <1>2, Zenon DEF DeleteAfterStopped, IsPool
  <2>. HIDE DEF x
  <2>4. /\ Updated(insts, DeleteAfterStopped(insts, i), i)
        /\ DeleteAfterStopped(insts, i)[i] = x
    BY <2>2, <2>3, UpdatedByRecord
  <2>5. DOMAIN DeleteAfterStopped(insts, i) = DOMAIN insts
    BY <2>4 DEF Updated
  <2>6. ASSUME NEW j \in DOMAIN insts
        PROVE  /\ SameTrack(DeleteAfterStopped(insts, i)[j], insts[j])
               /\ DeleteAfterStopped(insts, i)[j].deleteAfterStopped <=>
                      insts[j].deleteAfterStopped \/ j = i
    <3>1. CASE j = i
      BY <2>2, <2>4, <3>1
    <3>2. CASE j # i
      BY <2>4, <3>2 DEF Updated, SameTrack
    <3>3. QED  BY <3>1, <3>2
  <2>7. QED  BY <2>4, <2>5, <2>6 DEF Updated, Thinned
<1>3. QED  BY <1>1, <1>2

(* A track that cannot be prepared leaves the instance as it was.          *)
LEMMA AfterPrepareUpdates ==
    ASSUME NEW insts, IsPool(insts), NEW i \in DOMAIN insts, NEW id \in Nat,
           NEW found \in BOOLEAN
    PROVE  /\ Updated(insts, AfterPrepare(insts, i, id, found), i)
           /\ \/ AfterPrepare(insts, i, id, found) = insts
              \/ /\ insts[i].available
                 /\ AfterPrepare(insts, i, id, found)[i].track = id
                 /\ AfterPrepare(insts, i, id, found)[i].available
                 /\ ~ AfterPrepare(insts, i, id, found)[i].failed
                 /\ AfterPrepare(insts, i, id, found)[i].backend = insts[i].backend
                 /\ AfterPrepare(insts, i, id, found)[i].stopping = insts[i].stopping
                 /\ AfterPrepare(insts, i, id, found)[i].deleteAfterStopped =
                       insts[i].deleteAfterStopped
<1>1. CASE ~ insts[i].available \/ IsPrepared(insts, i, id)
  BY <1>1 DEF AfterPrepare, Updated
<1>2. CASE ~ (~ insts[i].available \/ IsPrepared(insts, i, id))
  <2>. DEFINE x == [insts[i] EXCEPT !.track = id, !.mediaSet = found, !.failed = FALSE]
  <2>1. insts[i] \in InstanceState
    BY DEF IsPool
  <2>2. /\ x \in InstanceState /\ x.track = id /\ ~ x.failed
        /\ x.available = insts[i].available /\ x.backend = insts[i].backend
        /\ x.stopping = insts[i].stopping
        /\ x.deleteAfterStopped = insts[i].deleteAfterStopped
    BY <2>1, Zenon DEF InstanceState
  <2>3. AfterPrepare(insts, i, id, found) = [insts EXCEPT ![i] = x]
    BY <1>2, Zenon DEF AfterPrepare, IsPool
  <2>. HIDE DEF x
  <2>4. QED  BY <1>2, <2>2, <2>3, UpdatedByRecord
<1>3. QED  BY <1>1, <1>2

LEMMA AfterPlayUpdates ==
    ASSUME NEW insts, IsPool(insts), NEW i \in DOMAIN insts
    PROVE  /\ Updated(insts, AfterPlay(insts, i), i)
           /\ AfterPlay(insts, i)[i].track = insts[i].track
           /\ AfterPlay(insts, i)[i].failed = insts[i].failed
           /\ ~ AfterPlay(insts, i)[i].available
           /\ AfterPlay(insts, i)[i].stopping = insts[i].stopping
           /\ AfterPlay(insts, i)[i].deleteAfterStopped = insts[i].deleteAfterStopped
           /\ AfterPlay(insts, i)[i].backend =
                 IF insts[i].failed THEN insts[i].backend ELSE "Playing"
<1>. DEFINE x == [insts[i] EXCEPT !.available = FALSE,
                                  !.backend = IF insts[i].failed THEN @ ELSE "Playing"]
<1>1. insts[i] \in InstanceState
  BY DEF IsPool
<1>2. /\ x \in InstanceState /\ x.track = insts[i].track /\ x.failed = insts[i].failed
      /\ x.available = FALSE /\ x.stopping = insts[i].stopping
      /\ x.deleteAfterStopped = insts[i].deleteAfterStopped
      /\ x.backend = IF insts[i].failed THEN insts[i].backend ELSE "Playing"
  BY <1>1, Zenon DEF InstanceState
<1>3. AfterPlay(insts, i) = [insts EXCEPT ![i] = x]
  BY Zenon DEF AfterPlay, IsPool
<1>. HIDE DEF x
<1>4. QED  BY <1>2, <1>3, UpdatedByRecord

(* The end of an instance that was to be deleted; any other can be used.   *)
Ended(insts, after, i) ==
    /\ IsPool(after)
    /\ DOMAIN after = {j \in DOMAIN insts : j # i \/ ~ insts[j].deleteAfterStopped}
    /\ \A j \in DOMAIN after :
          /\ j # i => after[j] = insts[j]
          /\ j = i => /\ after[j].available /\ ~ after[j].deleteAfterStopped
                      /\ after[j].track = insts[j].track
                      /\ after[j].backend = insts[j].backend
                      /\ after[j].stopping = insts[j].stopping
                      /\ after[j].failed = insts[j].failed

LEMMA AfterStoppedEnds ==
    ASSUME NEW insts, IsPool(insts), NEW i
    PROVE  Ended(insts, AfterStopped(insts, i), i)
<1>1. CASE i \notin DOMAIN insts
  BY <1>1 DEF AfterStopped, Ended
<1>2. CASE i \in DOMAIN insts /\ insts[i].deleteAfterStopped
  <2>1. AfterStopped(insts, i) = [j \in DOMAIN insts \ {i} |-> insts[j]]
    BY <1>2 DEF AfterStopped
  <2>2. QED  BY <1>2, <2>1 DEF IsPool, Ended
<1>3. CASE i \in DOMAIN insts /\ ~ insts[i].deleteAfterStopped
  <2>. DEFINE x == [insts[i] EXCEPT !.available = TRUE]
  <2>1. insts[i] \in InstanceState
    BY <1>3 DEF IsPool
  <2>2. /\ x \in InstanceState /\ x.track = insts[i].track /\ x.failed = insts[i].failed
        /\ x.available = TRUE /\ x.stopping = insts[i].stopping
        /\ x.backend = insts[i].backend
        /\ x.deleteAfterStopped = insts[i].deleteAfterStopped
    BY <2>1, Zenon DEF InstanceState
  <2>3. AfterStopped(insts, i) = [insts EXCEPT ![i] = x]
    BY <1>3, Zenon DEF AfterStopped, IsPool
  <2>. HIDE DEF x
  <2>4. Updated(insts, AfterStopped(insts, i), i) /\ AfterStopped(insts, i)[i] = x
    BY <1>3, <2>2, <2>3, UpdatedByRecord
  <2>5. DOMAIN AfterStopped(insts, i) = DOMAIN insts
    BY <2>4 DEF Updated
  <2>6. /\ \A j \in DOMAIN insts : j # i => AfterStopped(insts, i)[j] = insts[j]
        /\ IsPool(AfterStopped(insts, i))
    BY <2>4 DEF Updated
  <2>7. QED  BY <1>3, <2>2, <2>4, <2>5, <2>6 DEF Ended
<1>4. QED  BY <1>1, <1>2, <1>3

-----------------------------------------------------------------------------
(* The slots.                                                              *)

(* p has a free old slot, and holds what s held, without one perhaps.      *)
Freed(s, insts, inHand, p) ==
    /\ p = [slots |-> p.slots, instances |-> p.instances]
    /\ p.slots \in Slots /\ Thinned(insts, p.instances)
    /\ Managed(p.slots, p.instances, inHand)
    /\ p.slots.current = s.current
    /\ p.slots.old1 = NoInstance \/ p.slots.old2 = NoInstance
    /\ /\ OneMissing(inHand, s.next, s.old1, s.old2) /\ inHand # NoInstance
       /\ s.next # NoInstance \/ IsAvailable(insts, s.old1) \/ IsAvailable(insts, s.old2)
       => /\ p.slots.next # NoInstance
          /\ p.slots.old1 # NoInstance \/ p.slots.old2 # NoInstance

LEMMA WithFreeOldSlotFrees ==
    ASSUME NEW s \in Slots, NEW insts, IsPool(insts), NEW inHand \in Instances \cup {NoInstance},
           Managed(s, insts, inHand)
    PROVE  Freed(s, insts, inHand, WithFreeOldSlot([slots |-> s, instances |-> insts]))
<1>. DEFINE pool == [slots |-> s, instances |-> insts]
            p == WithFreeOldSlot(pool)
<1>1. CASE s.old1 = NoInstance \/ s.old2 = NoInstance
  <2>1. p = pool
    BY <1>1 DEF WithFreeOldSlot
  <2>2. QED  BY <1>1, <2>1, ThinnedByNothing DEF Freed, OneMissing
<1>2. CASE /\ s.old1 # NoInstance /\ s.old2 # NoInstance
           /\ s.next = NoInstance /\ IsAvailable(insts, s.old1)
  <2>. DEFINE t == [s EXCEPT !.next = s.old1, !.old1 = NoInstance]
  <2>1. /\ t \in Slots /\ t.current = s.current /\ t.next = s.old1
        /\ t.old1 = NoInstance /\ t.old2 = s.old2
    BY Zenon DEF Slots
  <2>2. p = [slots |-> t, instances |-> insts]
    BY <1>2 DEF WithFreeOldSlot
  <2>. HIDE DEF t
  <2>3. Managed(t, insts, inHand)
    BY <1>2, <2>1 DEF Managed, IsAvailable
  <2>4. QED  BY <1>2, <2>1, <2>2, <2>3, ThinnedByNothing DEF Freed
<1>3. CASE /\ s.old1 # NoInstance /\ s.old2 # NoInstance
           /\ s.next = NoInstance /\ ~ IsAvailable(insts, s.old1) /\ IsAvailable(insts, s.old2)
  <2>. DEFINE t == [s EXCEPT !.next = s.old2, !.old2 = NoInstance]
  <2>1. /\ t \in Slots /\ t.current = s.current /\ t.next = s.old2
        /\ t.old1 = s.old1 /\ t.old2 = NoInstance
    BY Zenon DEF Slots
  <2>2. p = [slots |-> t, instances |-> insts]
    BY <1>3 DEF WithFreeOldSlot
  <2>. HIDE DEF t
  <2>3. Managed(t, insts, inHand)
    BY <1>3, <2>1 DEF Managed, IsAvailable
  <2>4. QED  BY <1>3, <2>1, <2>2, <2>3, ThinnedByNothing DEF Freed
<1>4. CASE /\ s.old1 # NoInstance /\ s.old2 # NoInstance
           /\ \/ s.next # NoInstance
              \/ ~ IsAvailable(insts, s.old1) /\ ~ IsAvailable(insts, s.old2)
  <2>. DEFINE t == [s EXCEPT !.old2 = NoInstance]
              after == DeleteAfterStopped(insts, s.old2)
  <2>1. /\ t \in Slots /\ t.current = s.current /\ t.next = s.next
        /\ t.old1 = s.old1 /\ t.old2 = NoInstance
    BY Zenon DEF Slots
  <2>2. p = [slots |-> t, instances |-> after]
    BY <1>4 DEF WithFreeOldSlot
  <2>3. s.old2 \in DOMAIN insts
    BY <1>4 DEF Managed
  <2>4. /\ Thinned(insts, after) /\ DOMAIN insts \ {s.old2} \subseteq DOMAIN after
        /\ \A j \in DOMAIN after :
              after[j].deleteAfterStopped <=> insts[j].deleteAfterStopped \/ j = s.old2
    BY <2>3, DeleteAfterStoppedThins
  <2>. HIDE DEF t, after
  <2>5. Managed(t, after, inHand)
    <3>1. {t.current, t.next, t.old1, t.old2, inHand} \subseteq DOMAIN after \cup {NoInstance}
      BY <1>4, <2>1, <2>4 DEF Managed
    <3>2. ASSUME NEW i \in DOMAIN after
          PROVE  after[i].deleteAfterStopped <=>
                     i \notin {t.current, t.next, t.old1, t.old2, inHand}
      <4>1. s.old2 \notin {s.current, s.next, s.old1, inHand, NoInstance}
        BY <1>4 DEF Managed
      <4>2. i \in DOMAIN insts /\ i # NoInstance
        BY <2>4, PlayerConstants DEF Thinned, IsPool, NoInstance
      <4>3. CASE i = s.old2
        BY <2>1, <2>4, <4>1, <4>2, <4>3
      <4>4. CASE i # s.old2
        <5>1. after[i].deleteAfterStopped <=> insts[i].deleteAfterStopped
          BY <2>4, <4>4
        <5>2. insts[i].deleteAfterStopped <=>
                  i \notin {s.current, s.next, s.old1, s.old2, inHand}
          BY <4>2 DEF Managed
        <5>3. QED  BY <2>1, <4>2, <4>4, <5>1, <5>2
      <4>5. QED  BY <4>3, <4>4
    <3>3. t.next # NoInstance => after[t.next].available
      BY <2>1, <2>4, <3>1 DEF Managed, Thinned, SameTrack
    <3>4. QED  BY <2>1, <3>1, <3>2, <3>3 DEF Managed
  <2>6. QED  BY <1>4, <2>1, <2>2, <2>4, <2>5 DEF Freed
<1>5. QED  BY <1>1, <1>2, <1>3, <1>4

(* p holds what s held, and what was in hand.                              *)
Moved(s, insts, inHand, p) ==
    /\ p.slots \in Slots /\ Thinned(insts, p.instances)
    /\ Managed(p.slots, p.instances, NoInstance)
    /\ p.slots.current = s.current
    /\ inHand # NoInstance => inHand \in {p.slots.old1, p.slots.old2}
    /\ /\ OneMissing(inHand, s.next, s.old1, s.old2)
       /\ s.next # NoInstance \/ IsAvailable(insts, s.old1) \/ IsAvailable(insts, s.old2)
       => NoInstance \notin {p.slots.next, p.slots.old1, p.slots.old2}

LEMMA MovedToOldSlotMoves ==
    ASSUME NEW s \in Slots, NEW insts, IsPool(insts), NEW inHand \in Instances \cup {NoInstance},
           Managed(s, insts, inHand)
    PROVE  Moved(s, insts, inHand, MovedToOldSlot([slots |-> s, instances |-> insts], inHand))
<1>. DEFINE pool == [slots |-> s, instances |-> insts]
            f == WithFreeOldSlot(pool)
            p == MovedToOldSlot(pool, inHand)
<1>1. CASE inHand = NoInstance
  <2>1. p = pool
    BY <1>1 DEF MovedToOldSlot
  <2>2. QED  BY <1>1, <2>1, ThinnedByNothing DEF Moved, OneMissing
<1>2. CASE inHand # NoInstance
  <2>1. Freed(s, insts, inHand, f)
    BY WithFreeOldSlotFrees
  <2>2. p = IF f.slots.old1 = NoInstance THEN [f EXCEPT !.slots.old1 = inHand]
            ELSE [f EXCEPT !.slots.old2 = inHand]
    BY <1>2 DEF MovedToOldSlot
  <2>. SUFFICES Moved(s, insts, inHand, p)
    OBVIOUS
  <2>. HIDE DEF f, p
  <2>3. f.slots \in Slots /\ f = [slots |-> f.slots, instances |-> f.instances]
    BY <2>1 DEF Freed
  <2>4. CASE f.slots.old1 = NoInstance
    <3>1. p.slots = [f.slots EXCEPT !.old1 = inHand] /\ p.instances = f.instances
      BY <2>2, <2>3, <2>4, Zenon
    <3>2. /\ p.slots \in Slots /\ p.slots.current = f.slots.current
          /\ p.slots.next = f.slots.next /\ p.slots.old1 = inHand
          /\ p.slots.old2 = f.slots.old2
      BY <2>3, <3>1, Zenon DEF Slots
    <3>3. Managed(p.slots, p.instances, NoInstance)
      BY <1>2, <2>1, <2>4, <3>1, <3>2 DEF Freed, Managed
    <3>4. QED  BY <1>2, <2>1, <2>4, <3>1, <3>2, <3>3 DEF Freed, Moved
  <2>5. CASE f.slots.old1 # NoInstance
    <3>1. p.slots = [f.slots EXCEPT !.old2 = inHand] /\ p.instances = f.instances
      BY <2>2, <2>3, <2>5, Zenon
    <3>2. /\ p.slots \in Slots /\ p.slots.current = f.slots.current
          /\ p.slots.next = f.slots.next /\ p.slots.old1 = f.slots.old1
          /\ p.slots.old2 = inHand
      BY <2>3, <3>1, Zenon DEF Slots
    <3>3. Managed(p.slots, p.instances, NoInstance)
      BY <1>2, <2>1, <2>5, <3>1, <3>2 DEF Freed, Managed
    <3>4. QED  BY <1>2, <2>1, <2>5, <3>1, <3>2, <3>3 DEF Freed, Moved
  <2>6. QED  BY <2>4, <2>5
<1>3. QED  BY <1>1, <1>2

-----------------------------------------------------------------------------
(* The queue and the history.                                              *)

QueueIdsAreOld == \A k \in 1..Len(queue) : queue[k].queueID < nextQueueID

(* What is reported stays reported, and all IDs have been handed out.      *)
HistoryKept ==
    /\ QueueInv' /\ QueueIdsAreOld'
    /\ nextQueueID <= nextQueueID'
    /\ \A id \in Nat : id < nextQueueID /\ Reported(id) => Reported(id)'

LEMMA UnchangedHistory ==
    ASSUME QueueInv, QueueIdsAreOld, UNCHANGED <<queueVars, pendingHistory>>
    PROVE  HistoryKept
<1>1. UNCHANGED <<queue, idLookup, history, nextQueueID, firstTrackIndex, firstTrackQueueId,
                  signals>>
  BY DEF queueVars
<1>2. QueueInv'
  BY QueueNextInv DEF queueVars
<1>3. nextQueueID \in Nat
  BY DEF QueueInv, QueueTypeOK
<1>4. QED  BY <1>1, <1>2, <1>3 DEF HistoryKept, QueueIdsAreOld, Reported, InHistory

(* Every entry is an old one, or the one that got the next ID.             *)
LEMMA QueueStepKeepsHistory ==
    ASSUME QueueInv, QueueIdsAreOld, QueueNext,
           UNCHANGED <<history, pendingHistory>>,
           idLookup' \subseteq idLookup \cup {nextQueueID},
           nextQueueID' \in {nextQueueID, nextQueueID + 1},
           \A k \in 1..Len(queue') :
              \/ \E j \in 1..Len(queue) : queue'[k] = queue[j]
              \/ queue'[k].queueID = nextQueueID /\ nextQueueID' = nextQueueID + 1
    PROVE  HistoryKept
<1>1. QueueInv'
  BY QueueNextInv
<1>2. nextQueueID \in Nat /\ queue \in Seq(Entry) /\ nextQueueID <= nextQueueID'
  BY DEF QueueInv, QueueTypeOK
<1>3. QueueIdsAreOld'
  <2>1. ASSUME NEW k \in 1..Len(queue')  PROVE queue'[k].queueID < nextQueueID'
    <3>1. CASE \E j \in 1..Len(queue) : queue'[k] = queue[j]
      <4>1. PICK j \in 1..Len(queue) : queue'[k] = queue[j]
        BY <3>1
      <4>2. queue[j] \in Entry /\ queue[j].queueID < nextQueueID
        BY <1>2, ElementOfSeq DEF QueueIdsAreOld
      <4>3. queue[j].queueID \in Nat
        BY <4>2 DEF Entry
      <4>4. QED  BY <1>2, <4>1, <4>2, <4>3
    <3>2. CASE queue'[k].queueID = nextQueueID /\ nextQueueID' = nextQueueID + 1
      BY <1>2, <3>2
    <3>3. QED  BY <3>1, <3>2
  <2>2. QED  BY <2>1 DEF QueueIdsAreOld
<1>4. ASSUME NEW id \in Nat, id < nextQueueID, Reported(id)  PROVE Reported(id)'
  BY <1>2, <1>4 DEF Reported, InHistory
<1>5. QED  BY <1>1, <1>2, <1>3, <1>4 DEF HistoryKept

LEMMA DequeueKeepsHistory ==
    ASSUME QueueInv, QueueIdsAreOld, Dequeue, UNCHANGED pendingHistory
    PROVE  HistoryKept
<1>1. queue \in Seq(Entry) /\ queue # << >> /\ queue' = Tail(queue)
      /\ UNCHANGED <<idLookup, history, nextQueueID>>
  BY DEF QueueInv, QueueTypeOK, Dequeue
<1>2. Len(queue') = Len(queue) - 1 /\ \A k \in 1..Len(queue') : queue'[k] = queue[k + 1]
  BY <1>1, HeadTailProperties
<1>3. Len(queue) \in Nat
  BY <1>1, LenProperties
<1>4. ASSUME NEW k \in 1..Len(queue')
      PROVE  \E j \in 1..Len(queue) : queue'[k] = queue[j]
  <2>1. k + 1 \in 1..Len(queue) /\ queue'[k] = queue[k + 1]
    BY <1>2, <1>3
  <2>2. QED  BY <2>1
<1>5. QED  BY <1>1, <1>4, QueueStepKeepsHistory DEF QueueNext

LEMMA UserOperationKeepsHistory ==
    ASSUME QueueInv, QueueIdsAreOld, UserOperation, UNCHANGED pendingHistory
    PROVE  HistoryKept
<1>1. queue \in Seq(Entry) /\ Len(queue) \in Nat /\ nextQueueID \in Nat \ {NoQueueId}
  BY LenProperties DEF QueueInv, QueueTypeOK
<1>2. ASSUME NEW index \in 0..Len(queue), NEW kind \in Kinds, InsertAtIndex(index, kind)
      PROVE  HistoryKept
  <2>. DEFINE entry == [queueID |-> nextQueueID, kind |-> kind]
  <2>1. /\ queue' = Insert(queue, index, entry) /\ entry.queueID = nextQueueID
        /\ idLookup' = idLookup \cup {nextQueueID}
        /\ nextQueueID' = nextQueueID + 1 /\ UNCHANGED history
    BY <1>2 DEF InsertAtIndex
  <2>2. entry \in Entry
    BY <1>1 DEF Entry
  <2>. HIDE DEF entry
  <2>3. /\ Len(queue') = Len(queue) + 1
        /\ \A i \in 1..Len(queue) + 1 :
              queue'[i] = IF i <= index THEN queue[i]
                          ELSE IF i = index + 1 THEN entry ELSE queue[i - 1]
    <3>1. Len(Insert(queue, index, entry)) = Len(queue) + 1
      BY <1>1, <1>2, <2>2, InsertProperties, Zenon
    <3>2. \A i \in 1..Len(queue) + 1 :
             Insert(queue, index, entry)[i] =
                 IF i <= index THEN queue[i]
                 ELSE IF i = index + 1 THEN entry ELSE queue[i - 1]
      BY DEF Insert
    <3>3. queue' = Insert(queue, index, entry)
      BY <2>1
    <3>4. QED  BY <3>1, <3>2, <3>3, Zenon
  <2>4. ASSUME NEW k \in 1..Len(queue')
        PROVE  \/ \E j \in 1..Len(queue) : queue'[k] = queue[j]
               \/ queue'[k].queueID = nextQueueID /\ nextQueueID' = nextQueueID + 1
    <3>1. CASE k <= index
      <4>1. k \in 1..Len(queue) /\ queue'[k] = queue[k]
        BY <1>1, <2>3, <3>1
      <4>2. QED  BY <4>1
    <3>2. CASE k = index + 1
      BY <1>1, <2>1, <2>3, <3>2
    <3>3. CASE k > index + 1
      <4>1. k - 1 \in 1..Len(queue) /\ queue'[k] = queue[k - 1]
        BY <1>1, <2>3, <3>3
      <4>2. QED  BY <4>1
    <3>4. QED  BY <1>1, <2>3, <3>1, <3>2, <3>3
  <2>5. QueueNext
    BY <1>2 DEF QueueNext, UserOperation
  <2>6. QED  BY <2>1, <2>4, <2>5, QueueStepKeepsHistory
<1>3. CASE InsertBreakAtFrontIfNotExists
  BY <1>1, <1>2, <1>3 DEF InsertBreakAtFrontIfNotExists, Kinds
<1>4. ASSUME NEW index \in 0..Len(queue) - 1, RemoveAtIndex(index)
      PROVE  HistoryKept
  <2>1. /\ queue' = DeleteAt(queue, index) /\ idLookup' \subseteq idLookup
        /\ UNCHANGED <<history, nextQueueID>>
    BY <1>4 DEF RemoveAtIndex
  <2>2. /\ Len(queue') = Len(queue) - 1
        /\ \A i \in 1..Len(queue) - 1 :
              queue'[i] = IF i <= index THEN queue[i] ELSE queue[i + 1]
    BY <1>1, <2>1, RemoveProperties
  <2>3. ASSUME NEW k \in 1..Len(queue')
        PROVE  \E j \in 1..Len(queue) : queue'[k] = queue[j]
    <3>1. /\ k \in 1..Len(queue) /\ k + 1 \in 1..Len(queue)
          /\ queue'[k] = queue[k] \/ queue'[k] = queue[k + 1]
      BY <1>1, <2>2
    <3>2. QED  BY <3>1
  <2>4. QueueNext
    BY <1>4 DEF QueueNext, UserOperation
  <2>5. QED  BY <2>1, <2>3, <2>4, QueueStepKeepsHistory
<1>5. ASSUME NEW index \in 0..Len(queue) - 1, NEW indexDiff \in -Len(queue)..Len(queue),
             MoveByIndex(index, indexDiff)
      PROVE  HistoryKept
  <2>. DEFINE newIndex == index + indexDiff
  <2>1. /\ queue' = Move(queue, index, newIndex)
        /\ UNCHANGED <<idLookup, history, nextQueueID>>
    BY <1>5 DEF MoveByIndex
  <2>2. newIndex \in 0..Len(queue) - 1
    BY <1>1, <1>5 DEF MoveByIndex
  <2>. HIDE DEF newIndex
  <2>3. /\ Len(queue') = Len(queue)
        /\ \A i \in 1..Len(queue) :
              queue'[i] = IF i = newIndex + 1 THEN queue[index + 1]
                          ELSE IF i > index /\ i <= newIndex THEN queue[i + 1]
                          ELSE IF i > newIndex + 1 /\ i <= index + 1 THEN queue[i - 1]
                          ELSE queue[i]
    BY <1>1, <2>1, <2>2, MoveProperties
  <2>4. ASSUME NEW k \in 1..Len(queue')
        PROVE  \E j \in 1..Len(queue) : queue'[k] = queue[j]
    <3>1. \/ index + 1 \in 1..Len(queue) /\ queue'[k] = queue[index + 1]
          \/ k + 1 \in 1..Len(queue) /\ queue'[k] = queue[k + 1]
          \/ k - 1 \in 1..Len(queue) /\ queue'[k] = queue[k - 1]
          \/ k \in 1..Len(queue) /\ queue'[k] = queue[k]
      BY <1>1, <2>2, <2>3
    <3>2. QED  BY <3>1
  <2>5. QueueNext
    BY <1>5 DEF QueueNext, UserOperation
  <2>6. QED  BY <2>1, <2>4, <2>5, QueueStepKeepsHistory
<1>6. CASE Trim(TrimLength)
  <2>1. /\ queue' = SubSeq(queue, 1, TrimLength) /\ idLookup' \subseteq idLookup
        /\ UNCHANGED <<history, nextQueueID>> /\ Len(queue) > TrimLength
        /\ TrimLength \in Nat
    BY <1>6, QueueConstants DEF Trim
  <2>2. Len(queue') = TrimLength /\ \A i \in 1..TrimLength : queue'[i] = queue[i]
    BY <1>1, <2>1, SubSeqProperties
  <2>3. ASSUME NEW k \in 1..Len(queue')
        PROVE  \E j \in 1..Len(queue) : queue'[k] = queue[j]
    <3>1. k \in 1..Len(queue) /\ queue'[k] = queue[k]
      BY <1>1, <2>1, <2>2
    <3>2. QED  BY <3>1
  <2>4. QueueNext
    BY <1>6 DEF QueueNext, UserOperation
  <2>5. QED  BY <2>1, <2>3, <2>4, QueueStepKeepsHistory
<1>7. QED  BY <1>2, <1>3, <1>4, <1>5, <1>6 DEF UserOperation


LEMMA MaximumIsChosen ==
    ASSUME NEW T, NEW x \in T, \A y \in T : x >= y
    PROVE  Max(T) \in T /\ \A y \in T : Max(T) >= y
  BY DEF Max

LEMMA MaximumExists ==
    ASSUME NEW T \in SUBSET Nat, T # {}, NEW b \in Nat, \A x \in T : x <= b
    PROVE  Max(T) \in T /\ \A y \in T : Max(T) >= y
<1>. DEFINE U == {b - x : x \in T}
<1>1. U \in SUBSET Nat /\ U # {}
  <2>1. \A x \in T : x \in Nat /\ b - x \in Nat
    OBVIOUS
  <2>2. QED  BY <2>1
<1>2. PICK u \in U : \A v \in U : u <= v
  BY <1>1, MinimumExists
<1>3. PICK x \in T : u = b - x
  OBVIOUS
<1>4. \A y \in T : x >= y
  <2>1. ASSUME NEW y \in T  PROVE x >= y
    <3>1. b - y \in U
      OBVIOUS
    <3>2. b - x <= b - y
      BY <1>2, <1>3, <3>1
    <3>3. x \in Nat /\ y \in Nat
      OBVIOUS
    <3>4. QED  BY <3>2, <3>3
  <2>2. QED  BY <2>1
<1>5. QED  BY <1>4, MaximumIsChosen

(* What can be reported is the front of the order, all of it pending.      *)
LEMMA ReportableIsAPrefix ==
    ASSUME NEW T, NEW order \in Seq(T), NEW pending
    PROVE  /\ Reportable(order, pending) \in Seq(T)
           /\ Len(Reportable(order, pending)) <= Len(order)
           /\ \A i \in 1..Len(Reportable(order, pending)) :
                 Reportable(order, pending)[i] \in pending
<1>. DEFINE K == {k \in 0..Len(order) : \A i \in 1..k : order[i] \in pending}
            n == Max(K)
<1>1. Len(order) \in Nat
  BY LenProperties
<1>2. n \in K
  <2>1. K \in SUBSET Nat /\ 0 \in K /\ \A k \in K : k <= Len(order)
    BY <1>1
  <2>2. K # {}
    BY <2>1
  <2>. HIDE DEF K
  <2>3. QED  BY <1>1, <2>1, <2>2, MaximumExists
<1>3. Reportable(order, pending) = SubSeq(order, 1, n)
  BY DEF Reportable
<1>4. n \in 0..Len(order) /\ \A i \in 1..n : order[i] \in pending
  BY <1>2
<1>. HIDE DEF n
<1>5. \A i \in 1..n : order[i] \in T
  BY <1>1, <1>4, ElementOfSeq
<1>6. /\ SubSeq(order, 1, n) \in Seq(T) /\ Len(SubSeq(order, 1, n)) = n
      /\ \A i \in 1..n : SubSeq(order, 1, n)[i] = order[i]
  BY <1>1, <1>4, <1>5, SubSeqProperties
<1>7. QED  BY <1>1, <1>3, <1>4, <1>6

(* Every track that goes through addToHistory counts as reported.          *)
LEMMA AddToPlayerHistoryKeepsHistory ==
    ASSUME QueueInv, QueueIdsAreOld, pendingHistory \in SUBSET Nat,
           NEW order \in Seq(Nat \ {NoQueueId}), NEW id \in Nat \ {NoQueueId},
           AddToPlayerHistory(order, id)
    PROVE  /\ HistoryKept /\ Reported(id)'
           /\ historyOrder' \in Seq(Nat \ {NoQueueId}) /\ pendingHistory' \in SUBSET Nat
           /\ UNCHANGED <<queue, nextQueueID, firstTrackIndex, firstTrackQueueId>>
<1>. DEFINE Issued == Nat \ {NoQueueId}
            ready == IF order # << >> /\ Head(order) = id
                     THEN Reportable(order, pendingHistory \cup {id})
                     ELSE << >>
            all == history \o ready
            excess == Max({0, Len(all) - HistoryLimit})
<1>1. /\ historyOrder' = SubSeq(order, Len(ready) + 1, Len(order))
      /\ pendingHistory' = (pendingHistory \cup {id}) \ ToSet(ready)
      /\ history' = SubSeq(all, excess + 1, Len(all))
      /\ idLookup' = idLookup \ {all[i] : i \in 1..excess}
      /\ signals' = << >>
      /\ UNCHANGED <<queue, nextQueueID, firstTrackIndex, firstTrackQueueId>>
  BY DEF AddToPlayerHistory
<1>2. /\ ready \in Seq(Issued) /\ Len(ready) \in Nat /\ Len(ready) <= Len(order)
      /\ \A i \in 1..Len(ready) : ready[i] \in pendingHistory \cup {id}
  <2>1. CASE order # << >> /\ Head(order) = id
    BY <2>1, ReportableIsAPrefix, LenProperties
  <2>2. CASE ~ (order # << >> /\ Head(order) = id)
    <3>1. ready = << >> /\ Len(ready) = 0 /\ ready \in Seq(Issued) /\ Len(order) \in Nat
      BY <2>2, LenProperties
    <3>. HIDE DEF ready
    <3>2. QED  BY <3>1
  <2>3. QED  BY <2>1, <2>2
<1>. HIDE DEF ready
<1>3. history \in Seq(Issued) /\ Len(history) \in Nat
  BY LenProperties DEF QueueInv, QueueTypeOK
<1>4. /\ all \in Seq(Issued) /\ Len(all) = Len(history) + Len(ready)
      /\ \A i \in 1..Len(history) : all[i] = history[i]
      /\ \A i \in 1..Len(ready) : all[Len(history) + i] = ready[i]
  <2>1. /\ all \in Seq(Issued) /\ Len(all) = Len(history) + Len(ready)
        /\ \A i \in 1..Len(history) + Len(ready) :
              all[i] = IF i <= Len(history) THEN history[i]
                                            ELSE ready[i - Len(history)]
    BY <1>2, <1>3, ConcatProperties
  <2>. HIDE DEF all
  <2>2. ASSUME NEW i \in 1..Len(history)  PROVE all[i] = history[i]
    BY <1>2, <1>3, <2>1
  <2>3. ASSUME NEW i \in 1..Len(ready)  PROVE all[Len(history) + i] = ready[i]
    <3>1. /\ Len(history) + i \in 1..Len(history) + Len(ready)
          /\ ~ (Len(history) + i <= Len(history))
          /\ (Len(history) + i) - Len(history) = i
      BY <1>2, <1>3
    <3>2. all[Len(history) + i] = ready[(Len(history) + i) - Len(history)]
      BY <2>1, <3>1, Zenon
    <3>3. QED  BY <3>1, <3>2
  <2>4. QED  BY <2>1, <2>2, <2>3
<1>. HIDE DEF all
<1>5. excess \in 0..Len(all)
  <2>. DEFINE d == Len(all) - HistoryLimit
  <2>1. d \in Int /\ Len(all) \in Nat /\ d <= Len(all)
    BY <1>2, <1>3, <1>4, QueueConstants
  <2>. HIDE DEF d
  <2>2. Max({0, d}) \in {0, d} /\ Max({0, d}) >= 0
    <3>. DEFINE T == {0, d}
    <3>1. \/ d \in T /\ \A y \in T : d >= y
          \/ 0 \in T /\ \A y \in T : 0 >= y
      BY <2>1
    <3>2. 0 \in T /\ \A y \in T : y \in {0, d}
      OBVIOUS
    <3>. HIDE DEF T
    <3>3. Max(T) \in T /\ \A y \in T : Max(T) >= y
      BY <3>1, MaximumIsChosen
    <3>4. Max(T) \in {0, d} /\ Max(T) >= 0
      BY <3>2, <3>3
    <3>5. QED  BY <3>4 DEF T
  <2>3. excess = Max({0, d})
    BY DEF d
  <2>4. QED  BY <2>1, <2>2, <2>3
<1>. HIDE DEF excess
<1>6. Len(all) \in Nat
  BY <1>4, LenProperties
<1>7. /\ history' \in Seq(Issued) /\ Len(history') = Len(all) - excess
      /\ \A i \in 1..Len(all) - excess : history'[i] = all[excess + i]
  <2>1. \A i \in excess + 1..Len(all) : all[i] \in Issued
    BY <1>4, <1>5, <1>6, ElementOfSeq
  <2>2. QED  BY <1>1, <1>5, <1>6, <2>1, SubSeqProperties
<1>8. ASSUME NEW k \in 1..Len(all)  PROVE all[k] \in InHistory' \/ all[k] \notin idLookup'
  <2>1. CASE k <= excess
    BY <1>1, <1>5, <2>1
  <2>2. CASE k > excess
    <3>1. k - excess \in 1..Len(history') /\ history'[k - excess] = all[k]
      BY <1>5, <1>6, <1>7, <2>2
    <3>2. QED  BY <3>1 DEF InHistory
  <2>3. QED  BY <1>5, <2>1, <2>2
<1>9. ASSUME NEW j, j \in InHistory \/ j \notin idLookup \/ j \in pendingHistory \cup {id}
      PROVE  Reported(j)'
  <2>1. CASE j \in InHistory
    <3>1. PICK k \in 1..Len(history) : j = history[k]
      BY <2>1 DEF InHistory
    <3>2. k \in 1..Len(all) /\ j = all[k]
      BY <1>2, <1>3, <1>4, <3>1
    <3>3. QED  BY <1>8, <3>2 DEF Reported
  <2>2. CASE j \notin idLookup
    BY <1>1, <2>2 DEF Reported
  <2>3. CASE j \in pendingHistory \cup {id} /\ j \in ToSet(ready)
    <3>1. PICK k \in 1..Len(ready) : j = ready[k]
      BY <1>2, <2>3 DEF ToSet
    <3>2. Len(history) + k \in 1..Len(all)
      BY <1>2, <1>3, <1>4
    <3>. HIDE DEF Issued
    <3>3. j = all[Len(history) + k]
      BY <1>4, <3>1, Zenon
    <3>4. QED  BY <1>8, <3>2, <3>3 DEF Reported
  <2>4. CASE j \in pendingHistory \cup {id} /\ j \notin ToSet(ready)
    BY <1>1, <2>4 DEF Reported
  <2>5. QED  BY <1>9, <2>1, <2>2, <2>3, <2>4
<1>10. QueueInv' /\ QueueIdsAreOld'
  <2>1. QueueTypeOK'
    <3>1. << >> \in Seq(Signal)
      BY EmptySeq
    <3>2. idLookup' \in SUBSET Issued
      BY <1>1 DEF QueueInv, QueueTypeOK
    <3>3. QED  BY <1>1, <1>7, <3>1, <3>2 DEF QueueInv, QueueTypeOK
  <2>2. FirstTrackIsCached'
    BY <1>1 DEF QueueInv, FirstTrackIsCached, firstTrack
  <2>3. QED  BY <1>1, <2>1, <2>2 DEF QueueInv, QueueIdsAreOld
<1>11. HistoryKept
  <2>1. nextQueueID \in Nat /\ nextQueueID' = nextQueueID
    BY <1>1 DEF QueueInv, QueueTypeOK
  <2>2. QED  BY <1>9, <1>10, <2>1 DEF HistoryKept, Reported
<1>12. historyOrder' \in Seq(Issued)
  <2>1. Len(order) \in Nat /\ \A i \in Len(ready) + 1..Len(order) : order[i] \in Issued
    BY <1>2, LenProperties, ElementOfSeq
  <2>2. QED  BY <1>1, <1>2, <2>1, SubSeqProperties
<1>13. QED  BY <1>1, <1>9, <1>11, <1>12


-----------------------------------------------------------------------------
(* What the steps do to the pool.                                          *)

LEMMA UpdatedStaysManaged ==
    ASSUME NEW s, NEW insts, NEW after, NEW inHand, NEW i,
           Managed(s, insts, inHand), Updated(insts, after, i),
           i \in DOMAIN insts => after[i].deleteAfterStopped = insts[i].deleteAfterStopped,
           i # NoInstance /\ i = s.next => after[i].available
    PROVE  Managed(s, after, inHand)
  BY DEF Managed, Updated

LEMMA AfterStoppedStaysManaged ==
    ASSUME NEW s, NEW insts, NEW inHand, NEW i,
           IsPool(insts), Managed(s, insts, inHand)
    PROVE  Managed(s, AfterStopped(insts, i), inHand)
<1>. DEFINE after == AfterStopped(insts, i)
<1>0. Ended(insts, after, i)
  BY AfterStoppedEnds
<1>. HIDE DEF after
<1>1. /\ DOMAIN after = {j \in DOMAIN insts : j # i \/ ~ insts[j].deleteAfterStopped}
      /\ \A j \in DOMAIN after :
            /\ j # i => after[j] = insts[j]
            /\ j = i => after[j].available /\ ~ after[j].deleteAfterStopped
  BY <1>0 DEF Ended
<1>2. NoInstance \notin DOMAIN insts
  BY PlayerConstants DEF IsPool, NoInstance
<1>3. {s.current, s.next, s.old1, s.old2, inHand} \subseteq DOMAIN after \cup {NoInstance}
  BY <1>1, <1>2 DEF Managed
<1>4. ASSUME NEW j \in DOMAIN after
      PROVE  after[j].deleteAfterStopped <=>
                 j \notin {s.current, s.next, s.old1, s.old2, inHand}
  BY <1>1 DEF Managed
<1>5. s.next # NoInstance => after[s.next].available
  BY <1>1, <1>3 DEF Managed
<1>6. Managed(s, after, inHand)
  BY <1>3, <1>4, <1>5 DEF Managed
<1>7. QED  BY <1>6 DEF after

(* There is a next instance: an old one, or a new one.                     *)
Supplied(s, insts, inHand, p) ==
    /\ p.slots \in Slots /\ IsPool(p.instances)
    /\ p.slots.current = s.current /\ p.slots.next # NoInstance
    /\ Managed(p.slots, p.instances, inHand)
    /\ DOMAIN insts \subseteq DOMAIN p.instances
    /\ \A i \in DOMAIN insts : p.instances[i] = insts[i]
    /\ \A i \in DOMAIN p.instances \ DOMAIN insts : p.instances[i] = NewInstance
    /\ \A a \in Nat : OneMissing(a, s.next, s.old1, s.old2) =>
                      OneMissing(a, p.slots.next, p.slots.old1, p.slots.old2)

LEMMA WithNextInstanceSupplies ==
    ASSUME NEW s \in Slots, NEW insts, IsPool(insts), NEW inHand \in Instances \cup {NoInstance},
           Managed(s, insts, inHand), Instances # DOMAIN insts
    PROVE  Supplied(s, insts, inHand, WithNextInstance([slots |-> s, instances |-> insts]))
<1>. DEFINE p == WithNextInstance([slots |-> s, instances |-> insts])
            new == Min(Instances \ DOMAIN insts)
<1>1. CASE s.next # NoInstance
  <2>1. p = [slots |-> s, instances |-> insts]
    BY <1>1 DEF WithNextInstance
  <2>2. QED  BY <1>1, <2>1 DEF Supplied
<1>2. CASE s.next = NoInstance /\ IsAvailable(insts, s.old1)
  <2>. DEFINE t == [s EXCEPT !.next = s.old1, !.old1 = NoInstance]
  <2>1. /\ t \in Slots /\ t.current = s.current /\ t.next = s.old1
        /\ t.old1 = NoInstance /\ t.old2 = s.old2
    BY Zenon DEF Slots
  <2>2. p = [slots |-> t, instances |-> insts]
    BY <1>2 DEF WithNextInstance
  <2>. HIDE DEF t
  <2>3. Managed(t, insts, inHand)
    BY <1>2, <2>1 DEF Managed, IsAvailable
  <2>4. QED  BY <1>2, <2>1, <2>2, <2>3 DEF Supplied, OneMissing, IsAvailable
<1>3. CASE s.next = NoInstance /\ ~ IsAvailable(insts, s.old1) /\ IsAvailable(insts, s.old2)
  <2>. DEFINE t == [s EXCEPT !.next = s.old2, !.old2 = NoInstance]
  <2>1. /\ t \in Slots /\ t.current = s.current /\ t.next = s.old2
        /\ t.old1 = s.old1 /\ t.old2 = NoInstance
    BY Zenon DEF Slots
  <2>2. p = [slots |-> t, instances |-> insts]
    BY <1>3 DEF WithNextInstance
  <2>. HIDE DEF t
  <2>3. Managed(t, insts, inHand)
    BY <1>3, <2>1 DEF Managed, IsAvailable
  <2>4. QED  BY <1>3, <2>1, <2>2, <2>3 DEF Supplied, OneMissing, IsAvailable
<1>4. CASE /\ s.next = NoInstance
           /\ ~ IsAvailable(insts, s.old1) /\ ~ IsAvailable(insts, s.old2)
  <2>. DEFINE t == [s EXCEPT !.next = new]
              after == [j \in DOMAIN insts \cup {new} |->
                           IF j \in DOMAIN insts THEN insts[j] ELSE NewInstance]
  <2>1. new \in Instances \ DOMAIN insts
    <3>1. Instances \ DOMAIN insts \in SUBSET Nat /\ Instances \ DOMAIN insts # {}
      BY PlayerConstants DEF IsPool
    <3>2. \E x \in Instances \ DOMAIN insts : \A y \in Instances \ DOMAIN insts : x <= y
      BY <3>1, MinimumExists
    <3>3. QED  BY <3>2 DEF Min
  <2>2. p = [slots |-> t, instances |-> after]
    BY <1>4 DEF WithNextInstance
  <2>. HIDE DEF new
  <2>3. /\ t \in Slots /\ t.current = s.current /\ t.next = new
        /\ t.old1 = s.old1 /\ t.old2 = s.old2 /\ new # NoInstance
    BY <2>1, PlayerConstants, Zenon DEF Slots, NoInstance
  <2>4. NewInstance \in InstanceState /\ ~ NewInstance.deleteAfterStopped
        /\ NewInstance.available
    BY DEF NewInstance, InstanceState, NoQueueId
  <2>5. /\ IsPool(after) /\ DOMAIN after = DOMAIN insts \cup {new}
        /\ \A j \in DOMAIN insts : after[j] = insts[j]
        /\ after[new] = NewInstance
    BY <2>1, <2>4 DEF IsPool
  <2>. HIDE DEF t, after
  <2>6. new \notin {s.current, s.next, s.old1, s.old2, inHand}
    BY <2>1, <2>3 DEF Managed
  <2>7. Managed(t, after, inHand)
    <3>1. {t.current, t.next, t.old1, t.old2, inHand} \subseteq DOMAIN after \cup {NoInstance}
      BY <2>3, <2>5 DEF Managed
    <3>2. ASSUME NEW j \in DOMAIN after
          PROVE  after[j].deleteAfterStopped <=>
                     j \notin {t.current, t.next, t.old1, t.old2, inHand}
      <4>1. CASE j = new
        BY <2>3, <2>4, <2>5, <4>1
      <4>2. CASE j # new
        <5>1. j \in DOMAIN insts /\ j # NoInstance
          BY <2>5, <4>2, PlayerConstants DEF IsPool, NoInstance
        <5>2. insts[j].deleteAfterStopped <=>
                  j \notin {s.current, s.next, s.old1, s.old2, inHand}
          BY <5>1 DEF Managed
        <5>3. QED  BY <1>4, <2>3, <2>5, <4>2, <5>1, <5>2
      <4>3. QED  BY <4>1, <4>2
    <3>3. /\ t.current # NoInstance => t.current \notin {t.next, t.old1, t.old2, inHand}
          /\ t.next # NoInstance => t.next \notin {t.old1, t.old2, inHand}
      BY <2>3, <2>6 DEF Managed
    <3>4. /\ t.old1 # NoInstance => t.old1 \notin {t.old2, inHand}
          /\ t.old2 # NoInstance => t.old2 # inHand
      BY <2>3 DEF Managed
    <3>5. t.next # NoInstance => after[t.next].available
      BY <2>3, <2>4, <2>5
    <3>6. QED  BY <3>1, <3>2, <3>3, <3>4, <3>5 DEF Managed
  <2>8. QED  BY <1>4, <2>2, <2>3, <2>5, <2>7 DEF Supplied, OneMissing
<1>5. QED  BY <1>1, <1>2, <1>3, <1>4


-----------------------------------------------------------------------------
(* startNext() is entered.                                                 *)

(* insts is what the instances are by then: the one whose signal is being  *)
(* handled has stopped, and its track has been reported.                   *)
Entering(insts, emitter, id) ==
    /\ IsPool(insts) /\ DOMAIN insts = DOMAIN instances
    /\ emitter \in {NoInstance, slots.current}
    /\ \A j \in DOMAIN insts :
          /\ insts[j].track = instances[j].track
          /\ insts[j].available = instances[j].available
          /\ insts[j].deleteAfterStopped = instances[j].deleteAfterStopped
          /\ insts[j].failed = instances[j].failed
          /\ j # emitter => insts[j] = instances[j]
          /\ j = emitter => /\ insts[j].backend = "Stopped" /\ ~ insts[j].stopping
                            /\ ~ insts[j].available /\ insts[j].track = id

LEMMA EnteredPool ==
    ASSUME IInv, AtRest, NEW insts, NEW emitter, NEW id,
           NEW stopCurrent \in BOOLEAN, NEW playNext \in BOOLEAN,
           Entering(insts, emitter, id),
           EnterStartNext(insts, stopCurrent, playNext, emitter)
    PROVE  /\ slots' \in Slots /\ call' \in Calls /\ Thinned(insts, instances')
           /\ slots'.current = NoInstance /\ slots'.next = NoInstance
           /\ call'.phase = "loop" /\ call'.stopCurrent = stopCurrent
           /\ call'.emitter = emitter /\ call'.oldCurrent = slots.current
           /\ call'.entry.queueID = NoQueueId
           /\ call'.oldCurrent \in DOMAIN instances' \cup {NoInstance}
           /\ call'.next # NoInstance => call'.next # call'.oldCurrent
           /\ InHand' = call'.next /\ PoolInv'
           /\ /\ OneMissing(slots.current, slots.next, slots.old1, slots.old2)
              /\ \/ slots.next # NoInstance
                 \/ IsAvailable(insts, slots.old1) \/ IsAvailable(insts, slots.old2)
              => NoInstance \notin {call'.next, slots'.old1, slots'.old2}
<1>. DEFINE s == [slots EXCEPT !.current = NoInstance]
            h == slots.current
            p == MovedToOldSlot([slots |-> s, instances |-> insts], h)
<1>1. slots \in Slots /\ h \in Instances \cup {NoInstance} /\ call.next = NoInstance
  BY DEF IInv, TypeInv, CallInv, AtRest, Slots
<1>2. /\ s \in Slots /\ s.current = NoInstance /\ s.next = slots.next
      /\ s.old1 = slots.old1 /\ s.old2 = slots.old2
  BY <1>1, Zenon DEF Slots, NoInstance
<1>3. /\ slots' = [p.slots EXCEPT !.next = NoInstance]
      /\ instances' = p.instances
      /\ call' = [Idle EXCEPT !.phase = "loop", !.stopCurrent = stopCurrent,
                              !.playNext = playNext, !.emitter = emitter,
                              !.oldCurrent = slots.current, !.next = p.slots.next]
  BY DEF EnterStartNext
<1>. HIDE DEF s
<1>4. Managed(s, insts, h)
  <2>1. InHand = NoInstance
    BY <1>1 DEF InHand
  <2>2. Managed(slots, instances, NoInstance)
    BY <2>1 DEF IInv, PoolInv
  <2>3. ASSUME NEW j \in DOMAIN insts
        PROVE  insts[j].deleteAfterStopped <=>
                   j \notin {s.current, s.next, s.old1, s.old2, h}
    <3>1. insts[j].deleteAfterStopped <=>
              j \notin {slots.current, slots.next, slots.old1, slots.old2, NoInstance}
      BY <2>2 DEF Managed, Entering
    <3>2. QED  BY <1>2, <3>1
  <2>4. s.next # NoInstance => insts[s.next].available
    BY <1>2, <2>2 DEF Managed, Entering
  <2>5. QED  BY <1>2, <2>2, <2>3, <2>4 DEF Managed, Entering
<1>5. Moved(s, insts, h, p)
  BY <1>1, <1>2, <1>4, MovedToOldSlotMoves DEF Entering
<1>. HIDE DEF p
<1>6. p.slots \in Slots
  BY <1>5 DEF Moved
<1>7. /\ slots' \in Slots /\ slots'.current = p.slots.current /\ slots'.next = NoInstance
      /\ slots'.old1 = p.slots.old1 /\ slots'.old2 = p.slots.old2
  BY <1>3, <1>6, Zenon DEF Slots, NoInstance
<1>8. p.slots.next \in Instances \cup {NoInstance} /\ emitter \in Instances \cup {NoInstance}
  BY <1>1, <1>6 DEF Slots, Entering
<1>9. Idle \in Calls
  BY DEF Idle, Calls, NoQueueId, Kinds
<1>10. /\ call' \in Calls /\ call'.phase = "loop" /\ call'.stopCurrent = stopCurrent
       /\ call'.emitter = emitter /\ call'.oldCurrent = slots.current
       /\ call'.next = p.slots.next /\ call'.entry = Idle.entry
  BY <1>1, <1>3, <1>8, <1>9, Zenon DEF Calls
<1>11. call'.entry.queueID = NoQueueId
  BY <1>10 DEF Idle
<1>12. /\ Managed(p.slots, instances', NoInstance) /\ Thinned(insts, instances')
       /\ p.slots.current = NoInstance /\ slots'.current = NoInstance
  BY <1>2, <1>3, <1>5, <1>7 DEF Moved
<1>13. InHand' = call'.next
  BY <1>12 DEF InHand
<1>14. /\ h # NoInstance => h \in {p.slots.old1, p.slots.old2}
       /\ h \in DOMAIN instances' \cup {NoInstance}
  BY <1>5, <1>12 DEF Moved, Managed
<1>15. call'.next # NoInstance => call'.next # call'.oldCurrent
  BY <1>10, <1>12, <1>14 DEF Managed
<1>16. PoolInv'
  <2>1. Managed(slots', instances', call'.next)
    <3>1. {slots'.current, slots'.next, slots'.old1, slots'.old2, call'.next}
              \subseteq DOMAIN instances' \cup {NoInstance}
      BY <1>7, <1>10, <1>12 DEF Managed
    <3>2. ASSUME NEW j \in DOMAIN instances'
          PROVE  instances'[j].deleteAfterStopped <=>
                     j \notin {slots'.current, slots'.next, slots'.old1, slots'.old2,
                               call'.next}
      <4>1. instances'[j].deleteAfterStopped <=>
                j \notin {p.slots.current, p.slots.next, p.slots.old1, p.slots.old2,
                          NoInstance}
        BY <1>12 DEF Managed
      <4>2. QED  BY <1>7, <1>10, <1>12, <4>1
    <3>3. QED  BY <1>7, <1>10, <1>12, <3>1, <3>2 DEF Managed
  <2>2. call'.next # NoInstance => instances'[call'.next].available
    BY <1>10, <1>12 DEF Managed
  <2>3. QED  BY <1>13, <2>1, <2>2 DEF PoolInv
<1>17. /\ OneMissing(slots.current, slots.next, slots.old1, slots.old2)
       /\ \/ slots.next # NoInstance
          \/ IsAvailable(insts, slots.old1) \/ IsAvailable(insts, slots.old2)
       => NoInstance \notin {call'.next, slots'.old1, slots'.old2}
  BY <1>2, <1>5, <1>7, <1>10 DEF Moved
<1>18. QED  BY <1>7, <1>10, <1>11, <1>12, <1>13, <1>14, <1>15, <1>16, <1>17

(* The tracks that run are looked after as before.                         *)
LEMMA TracksStay ==
    ASSUME IInv, HistoryKept, UNCHANGED startedTracks, NEW id, NEW i,
           \A j \in DOMAIN instances :
              Running(j) => \/ j = i /\ instances[j].track = id /\ Reported(id)'
                            \/ /\ j \in DOMAIN instances' /\ Running(j)'
                               /\ instances'[j].track = instances[j].track
    PROVE  TrackInv'
<1>1. ASSUME NEW t \in startedTracks
      PROVE  \/ Reported(t)'
             \/ \E j \in DOMAIN instances' : instances'[j].track = t /\ Running(j)'
  <2>1. t \in Nat /\ t < nextQueueID
    BY DEF IInv, TypeInv, IdInv
  <2>2. CASE Reported(t)
    BY <2>1, <2>2 DEF HistoryKept
  <2>3. CASE \E j \in DOMAIN instances : instances[j].track = t /\ Running(j)
    BY <2>3
  <2>4. QED  BY <2>2, <2>3 DEF IInv, TrackInv
<1>2. QED  BY <1>1 DEF TrackInv, Reported, Running


(* What the invariant says of a player at rest.                            *)
LEMMA RestFacts ==
    ASSUME IInv, AtRest
    PROVE  /\ call.next = NoInstance /\ call.oldCurrent = NoInstance
           /\ call.emitter = NoInstance /\ InHand = NoInstance
           /\ InUse = slots.current
           /\ NoInstance \notin DOMAIN instances
           /\ Managed(slots, instances, NoInstance)
  BY PlayerConstants
     DEF IInv, TypeInv, IsPool, CallInv, PoolInv, AtRest, InHand, InUse, NoInstance

LEMMA EnterStartNextKeepsInv ==
    ASSUME IInv, AtRest, NEW insts, NEW emitter, NEW id,
           NEW stopCurrent \in BOOLEAN, NEW playNext \in BOOLEAN,
           Entering(insts, emitter, id),
           EnterStartNext(insts, stopCurrent, playNext, emitter),
           HistoryKept, emitter # NoInstance => Reported(id)',
           historyOrder' \in Seq(Nat \ {NoQueueId}), pendingHistory' \in SUBSET Nat,
           UNCHANGED <<trackVars, syncStop>>,
           stopCurrent \/ emitter = slots.current \/ state = "Stopped"
    PROVE  IInv'
<1>. USE DEF NoInstance
<1>1. /\ slots' \in Slots /\ call' \in Calls /\ Thinned(insts, instances')
      /\ slots'.current = NoInstance /\ slots'.next = NoInstance
      /\ call'.phase = "loop" /\ call'.stopCurrent = stopCurrent
      /\ call'.emitter = emitter /\ call'.oldCurrent = slots.current
      /\ call'.entry.queueID = NoQueueId
      /\ call'.oldCurrent \in DOMAIN instances' \cup {NoInstance}
      /\ call'.next # NoInstance => call'.next # call'.oldCurrent
      /\ PoolInv'
  BY EnteredPool, Zenon
<1>2. UNCHANGED <<state, nowPlaying, startedTracks, errors, syncStop>>
  BY DEF trackVars
<1>3. NoInstance \notin DOMAIN instances /\ DOMAIN instances' \subseteq DOMAIN instances
  BY <1>1, RestFacts DEF Thinned, Entering
<1>4. ASSUME NEW j \in DOMAIN instances'
      PROVE  /\ j \in DOMAIN instances
             /\ instances'[j].track = instances[j].track
             /\ instances'[j].available = instances[j].available
             /\ instances'[j].failed = instances[j].failed
             /\ j # emitter => /\ instances'[j].backend = instances[j].backend
                               /\ instances'[j].stopping = instances[j].stopping
             /\ j = emitter => /\ instances'[j].backend = "Stopped"
                               /\ ~ instances'[j].stopping /\ ~ instances'[j].available
                               /\ instances'[j].track = id
  <2>1. SameTrack(instances'[j], insts[j]) /\ j \in DOMAIN insts
    BY <1>1 DEF Thinned
  <2>2. QED  BY <2>1 DEF Entering, SameTrack
<1>5. TypeInv'
  BY <1>1, <1>2 DEF IInv, TypeInv, HistoryKept, Thinned
<1>6. CallInv'
  BY <1>1 DEF CallInv, Entering
<1>7. InstanceInv'
  <2>1. ASSUME NEW j \in DOMAIN instances'
        PROVE  /\ instances'[j].available => instances'[j].backend = "Stopped"
               /\ instances'[j].track = NoQueueId =>
                     /\ instances'[j].backend = "Stopped"
                     /\ ~ instances'[j].stopping /\ j # slots'.current
               /\ j = call'.emitter => /\ instances'[j].backend = "Stopped"
                                       /\ ~ instances'[j].available
    BY <1>1, <1>3, <1>4 DEF IInv, InstanceInv, Running
  <2>2. ASSUME NEW j \in DOMAIN instances', instances'[j].failed
        PROVE  Reported(instances[j].track)'
    <3>1. Reported(instances[j].track)
      BY <1>4, <2>2 DEF IInv, InstanceInv
    <3>2. instances[j].track \in Nat /\ instances[j].track < nextQueueID
      BY <1>4 DEF IInv, TypeInv, IsPool, InstanceState, IdInv
    <3>3. ASSUME NEW t, t = instances[j].track  PROVE Reported(t)'
      BY <3>1, <3>2, <3>3 DEF HistoryKept
    <3>4. QED  BY <1>4, <3>3 DEF Reported
  <2>3. QED  BY <2>1, <2>2 DEF InstanceInv, Running, Reported
<1>8. IdInv'
  <2>1. nextQueueID \in Nat /\ nextQueueID' \in Nat /\ nextQueueID <= nextQueueID'
    BY DEF IInv, TypeInv, HistoryKept, QueueInv, QueueTypeOK
  <2>2. ASSUME NEW j \in DOMAIN instances'  PROVE instances'[j].track < nextQueueID'
    <3>1. instances[j].track \in Nat /\ instances[j].track < nextQueueID
      BY <1>4 DEF IInv, TypeInv, IsPool, InstanceState, IdInv
    <3>2. QED  BY <1>4, <2>1, <3>1
  <2>3. ASSUME NEW t \in startedTracks'  PROVE t < nextQueueID'
    <3>1. t \in Nat /\ t < nextQueueID
      BY <1>2 DEF IInv, TypeInv, IdInv
    <3>2. QED  BY <2>1, <3>1
  <2>4. call'.entry.queueID < nextQueueID'
    <3>1. nextQueueID' # NoQueueId
      BY DEF HistoryKept, QueueInv, QueueTypeOK
    <3>2. QED  BY <1>1, <2>1, <3>1 DEF NoQueueId
  <2>5. QED  BY <2>2, <2>3, <2>4 DEF IdInv, HistoryKept, QueueIdsAreOld
<1>9. TrackInv'
  <2>1. ASSUME NEW j \in DOMAIN instances, Running(j), j # emitter
        PROVE  /\ j \in DOMAIN instances' /\ Running(j)'
               /\ instances'[j].track = instances[j].track
    <3>1. insts[j] = instances[j] /\ j \in DOMAIN insts
      BY <2>1 DEF Entering
    <3>2. j \in DOMAIN instances'
      BY <1>1, <2>1, <3>1 DEF Thinned, Running
    <3>3. QED  BY <1>4, <2>1, <3>2 DEF Running
  <2>2. ASSUME NEW j \in DOMAIN instances, Running(j), j = emitter
        PROVE  instances[j].track = id /\ Reported(id)'
    BY <1>3, <2>2 DEF Entering
  <2>3. QED  BY <1>2, <2>1, <2>2, TracksStay
<1>10. SyncInv'
  <2>. SUFFICES ASSUME syncStop' /\ errors' = 0
                PROVE  /\ call'.next # NoInstance
                       /\ OneMissing(InUse', slots'.next, slots'.old1, slots'.old2)
                       /\ \A i \in DOMAIN instances' :
                             /\ ~ instances'[i].failed
                             /\ ~ instances'[i].available =>
                                   /\ Running(i)' \/ i = call'.emitter
                                   /\ i \in {slots'.current, call'.oldCurrent}
                                   /\ i = call'.oldCurrent =>
                                         i = call'.emitter \/ call'.stopCurrent
    BY <1>1 DEF SyncInv, AtRest
  <2>1. /\ OneMissing(slots.current, slots.next, slots.old1, slots.old2)
        /\ state = "Stopped" => slots.current = NoInstance
        /\ \A i \in DOMAIN instances :
              /\ ~ instances[i].failed
              /\ ~ instances[i].available => Running(i) /\ i = slots.current
    BY <1>2, <1>3, RestFacts DEF IInv, SyncInv
  <2>2. NoInstance \notin {call'.next, slots'.old1, slots'.old2}
    <3>1. /\ slots.old1 # NoInstance =>
                slots.old1 \in DOMAIN insts /\ slots.old1 # slots.current
      BY RestFacts DEF Entering, Managed
    <3>2. slots.old1 # NoInstance => IsAvailable(insts, slots.old1)
      BY <2>1, <3>1 DEF IsAvailable, Entering
    <3>3. slots.next # NoInstance \/ IsAvailable(insts, slots.old1)
      BY <2>1, <3>2 DEF OneMissing
    <3>4. QED  BY <2>1, <3>3, EnteredPool, Zenon
  <2>3. InUse' = call'.next
    BY <1>1 DEF InUse
  <2>4. ASSUME NEW i \in DOMAIN instances', ~ instances'[i].available
        PROVE  /\ Running(i)' \/ i = call'.emitter
               /\ i \in {slots'.current, call'.oldCurrent}
               /\ i = call'.oldCurrent => i = call'.emitter \/ call'.stopCurrent
    <3>1. i \in DOMAIN instances /\ Running(i) /\ i = slots.current /\ i # NoInstance
      BY <1>3, <1>4, <2>1, <2>4
    <3>2. Running(i)' \/ i = emitter
      BY <1>4, <3>1 DEF Running
    <3>3. stopCurrent \/ emitter = i
      BY <2>1, <3>1
    <3>4. QED  BY <1>1, <3>1, <3>2, <3>3
  <2>5. QED  BY <1>1, <1>4, <2>1, <2>2, <2>3, <2>4 DEF OneMissing
<1>11. QED  BY <1>1, <1>5, <1>6, <1>7, <1>8, <1>9, <1>10 DEF IInv


-----------------------------------------------------------------------------
(* The conjuncts that most steps keep in the same way.                     *)

LEMMA FailedStayReported ==
    ASSUME IInv, HistoryKept, NEW j \in DOMAIN instances, instances[j].failed,
           NEW id, id = instances[j].track
    PROVE  Reported(id)'
<1>1. Reported(id) /\ id \in Nat /\ id < nextQueueID
  BY DEF IInv, TypeInv, IsPool, InstanceState, InstanceInv, IdInv
<1>2. QED  BY <1>1 DEF HistoryKept

LEMMA IdsStay ==
    ASSUME IInv, HistoryKept, NEW id \in Nat, id < nextQueueID,
           startedTracks' \subseteq startedTracks \cup {id},
           call'.entry.queueID \in Nat, call'.entry.queueID < nextQueueID,
           \A j \in DOMAIN instances' :
              \/ instances'[j].track = id
              \/ instances'[j].track = NoQueueId
              \/ j \in DOMAIN instances /\ instances'[j].track = instances[j].track
    PROVE  IdInv'
<1>1. /\ nextQueueID \in Nat /\ nextQueueID' \in Nat /\ nextQueueID <= nextQueueID'
      /\ NoQueueId < nextQueueID
  BY DEF IInv, TypeInv, HistoryKept, QueueInv, QueueTypeOK, NoQueueId
<1>2. ASSUME NEW j \in DOMAIN instances  PROVE instances[j].track \in Nat
                                               /\ instances[j].track < nextQueueID
  BY DEF IInv, TypeInv, IsPool, InstanceState, IdInv
<1>3. ASSUME NEW j \in DOMAIN instances'  PROVE instances'[j].track < nextQueueID'
  <2>1. instances'[j].track \in Nat /\ instances'[j].track < nextQueueID
    BY <1>1, <1>2 DEF NoQueueId
  <2>2. QED  BY <1>1, <2>1
<1>4. ASSUME NEW t \in startedTracks'  PROVE t < nextQueueID'
  <2>1. t \in Nat /\ t < nextQueueID
    BY DEF IInv, TypeInv, IdInv
  <2>2. QED  BY <1>1, <2>1
<1>5. call'.entry.queueID < nextQueueID'
  BY <1>1
<1>6. QED  BY <1>3, <1>4, <1>5 DEF IdInv, HistoryKept, QueueIdsAreOld

LEMMA EntryIdIsOld ==
    ASSUME IInv
    PROVE  call.entry.queueID \in Nat /\ call.entry.queueID < nextQueueID
  BY DEF IInv, TypeInv, Calls, IdInv

(* Steps of startNext() and of the queue that do not touch the instances.  *)
LEMMA PoolStaysKeepsInv ==
    ASSUME IInv, HistoryKept, UNCHANGED <<poolVars, trackVars, orderVars, syncStop>>,
           call' \in Calls, call'.phase = call.phase \/ call.phase \in {"loop", "dequeued"},
           call'.phase \in {"idle", "crashed"} => call'.phase = call.phase,
           call'.next = call.next, call'.oldCurrent = call.oldCurrent,
           call'.emitter = call.emitter, call'.stopCurrent = call.stopCurrent,
           call'.entry.queueID < nextQueueID,
           call'.phase = "dequeued" => call'.entry.queueID # NoQueueId
    PROVE  IInv'
<1>1. UNCHANGED <<slots, instances, state, startedTracks, errors, historyOrder, pendingHistory,
                  syncStop>>
  BY DEF poolVars, trackVars, orderVars
<1>2. TypeInv'
  BY <1>1 DEF IInv, TypeInv, HistoryKept
<1>3. CallInv'
  BY <1>1 DEF IInv, CallInv
<1>4. PoolInv'
  BY <1>1 DEF IInv, PoolInv, InHand
<1>5. InstanceInv'
  <2>1. ASSUME NEW j \in DOMAIN instances, instances[j].failed
        PROVE  Reported(instances[j].track)'
    <3>1. ASSUME NEW t, t = instances[j].track  PROVE Reported(t)'
      BY <2>1, <3>1, FailedStayReported
    <3>2. QED  BY <1>1, <3>1 DEF Reported
  <2>2. QED  BY <1>1, <2>1 DEF IInv, InstanceInv, Running, Reported
<1>6. IdInv'
  <2>1. call'.entry.queueID \in Nat /\ 0 \in Nat /\ 0 < nextQueueID
    BY DEF Calls, IInv, TypeInv, QueueInv, QueueTypeOK, NoQueueId
  <2>2. QED  BY <1>1, <2>1, IdsStay
<1>7. TrackInv'
  BY <1>1, TracksStay DEF Running
<1>8. SyncInv'
  <2>. SUFFICES ASSUME syncStop' /\ errors' = 0
                PROVE  /\ call'.phase # "crashed"
                       /\ call'.phase # "idle" => call'.next # NoInstance
                       /\ call'.phase = "idle" /\ state' = "Stopped" =>
                             slots'.current = NoInstance
                       /\ OneMissing(InUse', slots'.next, slots'.old1, slots'.old2)
                       /\ \A i \in DOMAIN instances' :
                             /\ ~ instances'[i].failed
                             /\ ~ instances'[i].available =>
                                   /\ Running(i)' \/ i = call'.emitter
                                   /\ i \in {slots'.current, call'.oldCurrent}
                                   /\ i = call'.oldCurrent =>
                                         i = call'.emitter \/ call'.stopCurrent
    BY DEF SyncInv, AtRest
  <2>1. InUse' = InUse
    BY <1>1 DEF InUse
  <2>2. /\ call.phase # "crashed"
        /\ call.phase # "idle" => call.next # NoInstance
        /\ call.phase = "idle" /\ state = "Stopped" => slots.current = NoInstance
        /\ OneMissing(InUse, slots.next, slots.old1, slots.old2)
    BY <1>1 DEF IInv, SyncInv, AtRest
  <2>3. \A i \in DOMAIN instances :
           /\ ~ instances[i].failed
           /\ ~ instances[i].available =>
                 /\ Running(i) \/ i = call.emitter
                 /\ i \in {slots.current, call.oldCurrent}
                 /\ i = call.oldCurrent => i = call.emitter \/ call.stopCurrent
    BY <1>1 DEF IInv, SyncInv
  <2>4. /\ call'.phase # "crashed"
        /\ call'.phase # "idle" => call'.next # NoInstance
        /\ call'.phase = "idle" /\ state' = "Stopped" => slots'.current = NoInstance
    BY <1>1, <2>2
  <2>5. QED  BY <1>1, <2>1, <2>2, <2>3, <2>4 DEF Running
<1>9. QED  BY <1>2, <1>3, <1>4, <1>5, <1>6, <1>7, <1>8 DEF IInv

(* The player is at rest, and something happens to the instance i.         *)
LEMMA RestKeepsInv ==
    ASSUME IInv, AtRest, HistoryKept, UNCHANGED <<slots, call, syncStop>>,
           historyOrder' \in Seq(Nat \ {NoQueueId}), pendingHistory' \in SUBSET Nat,
           errors' \in Nat, state' \in {"Stopped", "Playing", "Paused"},
           state' = "Stopped" => state = "Stopped",
           IsPool(instances'), Managed(slots, instances', NoInstance),
           NEW i \in DOMAIN instances, NEW id, id = instances[i].track, id # NoQueueId,
           DOMAIN instances' \subseteq DOMAIN instances,
           \A j \in DOMAIN instances \ {i} :
              j \in DOMAIN instances' /\ instances'[j] = instances[j],
           i \in DOMAIN instances' =>
              /\ instances'[i].track = id
              /\ instances'[i].available => ~ Running(i)'
              /\ instances'[i].failed => Reported(id)',
           \/ UNCHANGED startedTracks /\ (Running(i) => Reported(id)')
           \/ /\ startedTracks' \in {startedTracks, startedTracks \cup {id}}
              /\ i \in DOMAIN instances'
              /\ Running(i) => Running(i)'
              /\ startedTracks' # startedTracks => Reported(id)' \/ Running(i)',
           syncStop /\ errors' = 0 =>
              /\ errors = 0
              /\ i \in DOMAIN instances' =>
                    /\ ~ instances'[i].failed
                    /\ ~ instances'[i].available => i = slots.current /\ Running(i)'
    PROVE  IInv'
<1>1. /\ call.next = NoInstance /\ call.oldCurrent = NoInstance
      /\ call.emitter = NoInstance /\ InHand = NoInstance
      /\ InUse = slots.current /\ call.phase = "idle"
      /\ NoInstance \notin DOMAIN instances
  BY RestFacts DEF AtRest
<1>2. id \in Nat /\ id < nextQueueID
  BY DEF IInv, TypeInv, IsPool, InstanceState, IdInv
<1>3. TypeInv'
  BY <1>2 DEF IInv, TypeInv, HistoryKept
<1>4. CallInv'
  BY <1>1 DEF IInv, CallInv
<1>5. PoolInv'
  BY <1>1 DEF PoolInv, InHand
<1>6. InstanceInv'
  <2>1. ASSUME NEW j \in DOMAIN instances', instances'[j].failed
        PROVE  \A t : t = instances'[j].track => Reported(t)'
    <3>1. CASE j = i
      BY <2>1, <3>1
    <3>2. CASE j # i
      BY <2>1, <3>2, FailedStayReported
    <3>3. QED  BY <3>1, <3>2
  <2>2. ASSUME NEW j \in DOMAIN instances'
        PROVE  /\ instances'[j].available => ~ Running(j)'
               /\ instances'[j].track = NoQueueId =>
                     ~ Running(j)' /\ ~ instances'[j].stopping /\ j # slots'.current
               /\ j # call'.emitter
    <3>1. CASE j = i
      BY <1>1, <3>1
    <3>2. CASE j # i
      BY <1>1, <3>2 DEF IInv, InstanceInv, Running
    <3>3. QED  BY <3>1, <3>2
  <2>3. QED  BY <2>1, <2>2 DEF InstanceInv, Running, Reported
<1>7. IdInv'
  BY <1>2, EntryIdIsOld, IdsStay
<1>8. TrackInv'
  <2>1. CASE UNCHANGED startedTracks /\ (Running(i) => Reported(id)')
    BY <2>1, TracksStay DEF Running
  <2>2. CASE /\ startedTracks' \in {startedTracks, startedTracks \cup {id}}
             /\ i \in DOMAIN instances'
             /\ Running(i) => Running(i)'
             /\ startedTracks' # startedTracks => Reported(id)' \/ Running(i)'
    <3>1. ASSUME NEW t \in startedTracks
          PROVE  \/ Reported(t)'
                 \/ \E j \in DOMAIN instances' : instances'[j].track = t /\ Running(j)'
      <4>1. t \in Nat /\ t < nextQueueID
        BY DEF IInv, TypeInv, IdInv
      <4>2. CASE Reported(t)
        BY <4>1, <4>2 DEF HistoryKept
      <4>3. CASE \E j \in DOMAIN instances : instances[j].track = t /\ Running(j)
        <5>1. PICK j \in DOMAIN instances : instances[j].track = t /\ Running(j)
          BY <4>3
        <5>2. /\ j \in DOMAIN instances' /\ instances'[j].track = t /\ Running(j)'
          BY <2>2, <5>1 DEF Running
        <5>3. QED  BY <5>2
      <4>4. QED  BY <4>2, <4>3 DEF IInv, TrackInv
    <3>2. CASE startedTracks' = startedTracks
      BY <3>1, <3>2 DEF TrackInv, Reported, Running
    <3>3. CASE startedTracks' # startedTracks
      <4>1. \/ Reported(id)'
            \/ \E j \in DOMAIN instances' : instances'[j].track = id /\ Running(j)'
        BY <2>2, <3>3
      <4>2. startedTracks' = startedTracks \cup {id}
        BY <2>2, <3>3
      <4>3. QED  BY <3>1, <4>1, <4>2 DEF TrackInv, Reported, Running
    <3>4. QED  BY <3>2, <3>3
  <2>3. QED  BY <2>1, <2>2
<1>9. SyncInv'
  <2>. SUFFICES ASSUME syncStop' /\ errors' = 0
                PROVE  /\ state' = "Stopped" => slots'.current = NoInstance
                       /\ OneMissing(InUse', slots'.next, slots'.old1, slots'.old2)
                       /\ \A j \in DOMAIN instances' :
                             /\ ~ instances'[j].failed
                             /\ ~ instances'[j].available =>
                                   Running(j)' /\ j = slots'.current
    BY <1>1, NoInstance \notin DOMAIN instances' DEF SyncInv, AtRest
  <2>1. /\ state = "Stopped" => slots.current = NoInstance
        /\ OneMissing(slots.current, slots.next, slots.old1, slots.old2)
        /\ \A j \in DOMAIN instances :
              /\ ~ instances[j].failed
              /\ ~ instances[j].available => Running(j) /\ j = slots.current
    BY <1>1 DEF IInv, SyncInv, AtRest
  <2>2. InUse' = slots.current
    BY <1>1 DEF InUse
  <2>3. ASSUME NEW j \in DOMAIN instances'
        PROVE  /\ ~ instances'[j].failed
               /\ ~ instances'[j].available => Running(j)' /\ j = slots'.current
    <3>1. CASE j = i
      BY <3>1
    <3>2. CASE j # i
      BY <2>1, <3>2 DEF Running
    <3>3. QED  BY <3>1, <3>2
  <2>4. QED  BY <2>1, <2>2, <2>3
<1>10. QED  BY <1>3, <1>4, <1>5, <1>6, <1>7, <1>8, <1>9 DEF IInv


-----------------------------------------------------------------------------
(* The actions at rest.                                                    *)

LEMMA IInvGivesHistory ==
    ASSUME IInv, UNCHANGED <<queueVars, pendingHistory>>
    PROVE  HistoryKept
  BY UnchangedHistory DEF IInv, TypeInv, IdInv, QueueIdsAreOld

LEMMA ReportKeepsHistory ==
    ASSUME IInv, NEW order \in Seq(Nat \ {NoQueueId}), NEW id \in Nat \ {NoQueueId},
           AddToPlayerHistory(order, id)
    PROVE  /\ HistoryKept /\ Reported(id)'
           /\ historyOrder' \in Seq(Nat \ {NoQueueId}) /\ pendingHistory' \in SUBSET Nat
  BY AddToPlayerHistoryKeepsHistory DEF IInv, TypeInv, IdInv, QueueIdsAreOld

LEMMA PlayKeepsInv ==
    ASSUME IInv, Play \/ Skip
    PROVE  IInv'
<1>1. /\ AtRest /\ UNCHANGED <<queueVars, trackVars, orderVars, syncStop>>
      /\ \/ state = "Stopped" /\ EnterStartNext(instances, FALSE, TRUE, NoInstance)
         \/ EnterStartNext(instances, TRUE, state = "Playing", NoInstance)
  BY DEF Play, Skip
<1>2. Entering(instances, NoInstance, 0)
  BY <1>1, RestFacts DEF Entering, IInv, TypeInv
<1>3. UNCHANGED <<historyOrder, pendingHistory>>
  BY <1>1 DEF orderVars
<1>4. /\ HistoryKept
      /\ historyOrder' \in Seq(Nat \ {NoQueueId}) /\ pendingHistory' \in SUBSET Nat
  BY <1>1, <1>3, IInvGivesHistory DEF IInv, TypeInv
<1>5. (state = "Playing") \in BOOLEAN /\ TRUE \in BOOLEAN /\ FALSE \in BOOLEAN
  OBVIOUS
<1>6. CASE state = "Stopped" /\ EnterStartNext(instances, FALSE, TRUE, NoInstance)
  BY <1>1, <1>2, <1>4, <1>5, <1>6, EnterStartNextKeepsInv
<1>7. CASE EnterStartNext(instances, TRUE, state = "Playing", NoInstance)
  BY <1>1, <1>2, <1>4, <1>5, <1>7, EnterStartNextKeepsInv, Zenon
<1>8. QED  BY <1>1, <1>6, <1>7

LEMMA ResumeKeepsInv ==
    ASSUME IInv, Resume
    PROVE  IInv'
<1>0. PICK i : i = slots.current
  OBVIOUS
<1>1. /\ AtRest /\ i # NoInstance /\ instances' = AfterPlay(instances, i)
      /\ startedTracks' = startedTracks \cup {instances[i].track}
      /\ state' = "Playing"
      /\ UNCHANGED <<slots, call, syncStop, errors, historyOrder, pendingHistory>>
      /\ UNCHANGED <<queueVars, pendingHistory>>
  BY <1>0 DEF Resume, orderVars
<1>2. i \in DOMAIN instances /\ IsPool(instances) /\ Managed(slots, instances, NoInstance)
  BY <1>0, <1>1, RestFacts DEF Managed, IInv, TypeInv
<1>3. PICK id : id = instances[i].track
  OBVIOUS
<1>4. id # NoQueueId /\ (instances[i].failed => Reported(id))
  BY <1>0, <1>2, <1>3 DEF IInv, InstanceInv
<1>5. /\ Updated(instances, instances', i)
      /\ instances'[i].track = id /\ instances'[i].failed = instances[i].failed
      /\ ~ instances'[i].available
      /\ instances'[i].deleteAfterStopped = instances[i].deleteAfterStopped
      /\ instances'[i].backend =
            IF instances[i].failed THEN instances[i].backend ELSE "Playing"
  BY <1>1, <1>2, <1>3, AfterPlayUpdates
<1>6. Managed(slots, instances', NoInstance)
  <2>1. i # slots.next
    BY <1>0, <1>1, <1>2 DEF Managed
  <2>2. QED  BY <1>2, <1>5, <2>1, UpdatedStaysManaged
<1>7. HistoryKept
  BY <1>1, IInvGivesHistory
<1>8. instances[i].failed => Reported(id)'
  BY <1>2, <1>3, <1>7, FailedStayReported
<1>9. /\ Running(i) => Running(i)'
      /\ Running(i)' \/ instances[i].failed
  BY <1>5 DEF Running
<1>10. /\ IsPool(instances') /\ DOMAIN instances' = DOMAIN instances
       /\ \A j \in DOMAIN instances \ {i} : instances'[j] = instances[j]
  BY <1>5 DEF Updated
<1>11. /\ historyOrder' \in Seq(Nat \ {NoQueueId}) /\ pendingHistory' \in SUBSET Nat
       /\ errors' \in Nat
  BY <1>1 DEF IInv, TypeInv
<1>12. syncStop /\ errors' = 0 => errors = 0 /\ ~ instances[i].failed
  BY <1>1, <1>2 DEF IInv, SyncInv
<1>13. QED
  BY <1>0, <1>1, <1>2, <1>3, <1>4, <1>5, <1>6, <1>7, <1>8, <1>9, <1>10, <1>11, <1>12,
     RestKeepsInv

LEMMA PauseKeepsInv ==
    ASSUME IInv, Pause
    PROVE  IInv'
<1>0. PICK i : i = slots.current
  OBVIOUS
<1>. DEFINE x == [instances[i] EXCEPT !.backend = IF @ = "Playing" THEN "Paused" ELSE @]
<1>1. /\ AtRest /\ i # NoInstance
      /\ instances' = [instances EXCEPT ![i].backend = IF @ = "Playing" THEN "Paused" ELSE @]
      /\ state' = "Paused"
      /\ UNCHANGED <<slots, call, syncStop, errors, historyOrder, startedTracks>>
      /\ UNCHANGED <<queueVars, pendingHistory>>
  BY <1>0 DEF Pause, orderVars
<1>2. i \in DOMAIN instances /\ IsPool(instances) /\ Managed(slots, instances, NoInstance)
  BY <1>0, <1>1, RestFacts DEF Managed, IInv, TypeInv
<1>3. PICK id : id = instances[i].track
  OBVIOUS
<1>4. id # NoQueueId /\ instances[i] \in InstanceState
  BY <1>0, <1>2, <1>3 DEF IInv, InstanceInv, IsPool
<1>6. instances' = [instances EXCEPT ![i] = x]
  BY <1>1, <1>2, Zenon DEF IsPool
<1>7. /\ x \in InstanceState /\ x.track = id /\ x.available = instances[i].available
      /\ x.failed = instances[i].failed /\ x.stopping = instances[i].stopping
      /\ x.deleteAfterStopped = instances[i].deleteAfterStopped
      /\ x.backend = IF instances[i].backend = "Playing" THEN "Paused"
                     ELSE instances[i].backend
  <2>1. (IF instances[i].backend = "Playing" THEN "Paused" ELSE instances[i].backend)
            \in {"Stopped", "Playing", "Paused"}
    BY <1>4 DEF InstanceState
  <2>2. QED  BY <1>3, <1>4, <2>1, Zenon DEF InstanceState
<1>. HIDE DEF x
<1>8. Updated(instances, instances', i) /\ instances'[i] = x
  BY <1>2, <1>6, <1>7, UpdatedByRecord
<1>9. Managed(slots, instances', NoInstance)
  <2>1. i # slots.next
    BY <1>0, <1>1, <1>2 DEF Managed
  <2>2. QED  BY <1>2, <1>7, <1>8, <2>1, UpdatedStaysManaged
<1>10. HistoryKept
  BY <1>1, IInvGivesHistory
<1>11. /\ instances[i].failed => Reported(id)'
       /\ Running(i)' <=> Running(i)
       /\ instances[i].available => ~ Running(i)
  <2>1. Running(i)' <=> Running(i)
    BY <1>7, <1>8 DEF Running
  <2>2. QED  BY <1>2, <1>3, <1>10, <2>1, FailedStayReported DEF IInv, InstanceInv
<1>12. /\ IsPool(instances') /\ DOMAIN instances' = DOMAIN instances
       /\ \A j \in DOMAIN instances \ {i} : instances'[j] = instances[j]
  BY <1>8 DEF Updated
<1>13. /\ historyOrder' \in Seq(Nat \ {NoQueueId}) /\ pendingHistory' \in SUBSET Nat
       /\ errors' \in Nat
  BY <1>1 DEF IInv, TypeInv
<1>14. syncStop /\ errors' = 0 =>
          /\ errors = 0 /\ ~ instances[i].failed
          /\ ~ instances[i].available => Running(i)
  BY <1>1, <1>2, RestFacts DEF IInv, SyncInv
<1>15. QED
  BY <1>0, <1>1, <1>2, <1>3, <1>4, <1>7, <1>8, <1>9, <1>10, <1>11, <1>12, <1>13, <1>14,
     RestKeepsInv

(* An instance has stopped, and its track has been reported.               *)
Signalled(insts, i) ==
    /\ Updated(instances, insts, i) /\ insts[i].track = instances[i].track
    /\ insts[i].available = instances[i].available
    /\ insts[i].deleteAfterStopped = instances[i].deleteAfterStopped
    /\ insts[i].backend = "Stopped" /\ ~ insts[i].stopping

LEMMA StoppedIsSignalled ==
    ASSUME IsPool(instances), NEW i \in DOMAIN instances
    PROVE  Signalled(Stopped(i), i) /\ Stopped(i)[i].failed = instances[i].failed
<1>. DEFINE x == [instances[i] EXCEPT !.backend = "Stopped", !.stopping = FALSE]
<1>1. instances[i] \in InstanceState
  BY DEF IsPool
<1>2. /\ x \in InstanceState /\ x.track = instances[i].track
      /\ x.available = instances[i].available /\ x.failed = instances[i].failed
      /\ x.deleteAfterStopped = instances[i].deleteAfterStopped
      /\ x.backend = "Stopped" /\ x.stopping = FALSE
  BY <1>1, Zenon DEF InstanceState
<1>3. Stopped(i) = [instances EXCEPT ![i] = x]
  BY Zenon DEF Stopped, IsPool
<1>. HIDE DEF x
<1>4. Updated(instances, Stopped(i), i) /\ Stopped(i)[i] = x
  BY <1>2, <1>3, UpdatedByRecord
<1>5. QED  BY <1>2, <1>4 DEF Signalled

LEMMA SignalKeepsInv ==
    ASSUME IInv, AtRest, NEW i \in DOMAIN instances, NEW insts, Signalled(insts, i),
           NEW id, id = instances[i].track, id # NoQueueId,
           AddToPlayerHistory(historyOrder, id),
           instances' = AfterStopped(insts, i),
           UNCHANGED <<slots, state, startedTracks, call, syncStop>>,
           \/ insts[i].failed = instances[i].failed /\ errors' = errors
           \/ errors' = errors + 1
    PROVE  IInv'
<1>1. /\ IsPool(insts) /\ DOMAIN insts = DOMAIN instances
      /\ \A j \in DOMAIN instances : j # i => insts[j] = instances[j]
      /\ insts[i].track = id /\ insts[i].backend = "Stopped"
  BY DEF Signalled, Updated
<1>2. /\ IsPool(instances')
      /\ DOMAIN instances' =
            {j \in DOMAIN insts : j # i \/ ~ insts[j].deleteAfterStopped}
      /\ \A j \in DOMAIN instances' :
            /\ j # i => instances'[j] = insts[j]
            /\ j = i => /\ instances'[j].available
                        /\ instances'[j].track = insts[j].track
                        /\ instances'[j].backend = insts[j].backend
                        /\ instances'[j].failed = insts[j].failed
  <2>1. Ended(insts, instances', i)
    BY <1>1, AfterStoppedEnds
  <2>2. QED  BY <1>1, <2>1 DEF Ended
<1>3. Managed(slots, insts, NoInstance)
  <2>1. Managed(slots, instances, NoInstance)
    BY RestFacts
  <2>2. i # NoInstance /\ i = slots.next => insts[i].available
    BY <2>1 DEF Managed, Signalled
  <2>3. QED  BY <2>1, <2>2, UpdatedStaysManaged DEF Signalled
<1>4. Managed(slots, instances', NoInstance)
  BY <1>1, <1>3, AfterStoppedStaysManaged
<1>5. historyOrder \in Seq(Nat \ {NoQueueId}) /\ id \in Nat \ {NoQueueId}
  BY DEF IInv, TypeInv, IsPool, InstanceState
<1>6. /\ HistoryKept /\ Reported(id)'
      /\ historyOrder' \in Seq(Nat \ {NoQueueId}) /\ pendingHistory' \in SUBSET Nat
  BY <1>5, ReportKeepsHistory
<1>7. /\ errors \in Nat /\ errors' \in Nat /\ state' \in {"Stopped", "Playing", "Paused"}
      /\ errors' = 0 => errors = 0 /\ errors' = errors
  BY DEF IInv, TypeInv
<1>8. syncStop /\ errors' = 0 /\ i \in DOMAIN instances' => ~ instances'[i].failed
  <2>1. syncStop /\ errors = 0 => ~ instances[i].failed
    BY DEF IInv, SyncInv
  <2>2. errors' = 0 => insts[i].failed = instances[i].failed
    BY <1>7
  <2>3. QED  BY <1>2, <1>7, <2>1, <2>2
<1>9. \A j \in DOMAIN instances \ {i} :
         j \in DOMAIN instances' /\ instances'[j] = instances[j]
  BY <1>1, <1>2
<1>10. i \in DOMAIN instances' =>
          instances'[i].track = id /\ instances'[i].available /\ ~ Running(i)'
  BY <1>1, <1>2 DEF Running
<1>11. QED
  BY <1>1, <1>2, <1>4, <1>6, <1>7, <1>8, <1>9, <1>10, RestKeepsInv

LEMMA TrackFinishedKeepsInv ==
    ASSUME IInv, NEW i \in DOMAIN instances, TrackFinished(i)
    PROVE  IInv'
<1>1. AtRest /\ Running(i) /\ IsPool(instances)
  BY DEF TrackFinished, IInv, TypeInv
<1>2. PICK id : id = instances[i].track
  OBVIOUS
<1>3. id # NoQueueId /\ ~ instances[i].available
  BY <1>1, <1>2 DEF IInv, InstanceInv
<1>4. AddToPlayerHistory(historyOrder, id) /\ UNCHANGED <<trackVars, syncStop>>
  BY <1>2 DEF TrackFinished
<1>5. Signalled(Stopped(i), i) /\ Stopped(i)[i].failed = instances[i].failed
  BY <1>1, StoppedIsSignalled
<1>6. CASE i # slots.current
  <2>1. instances' = AfterStopped(Stopped(i), i) /\ UNCHANGED <<slots, call>>
    BY <1>6 DEF TrackFinished
  <2>2. UNCHANGED <<slots, state, startedTracks, call, syncStop, errors>>
    BY <1>4, <2>1 DEF trackVars
  <2>3. QED  BY <1>1, <1>2, <1>3, <1>4, <1>5, <2>1, <2>2, SignalKeepsInv
<1>7. CASE i = slots.current
  <2>1. EnterStartNext(Stopped(i), FALSE, state = "Playing", i)
    BY <1>7 DEF TrackFinished
  <2>2. Entering(Stopped(i), i, id)
    BY <1>2, <1>3, <1>5, <1>7 DEF Entering, Signalled, Updated
  <2>3. historyOrder \in Seq(Nat \ {NoQueueId}) /\ id \in Nat \ {NoQueueId}
    BY <1>1, <1>2, <1>3 DEF IInv, TypeInv, IsPool, InstanceState
  <2>4. /\ HistoryKept /\ Reported(id)'
        /\ historyOrder' \in Seq(Nat \ {NoQueueId}) /\ pendingHistory' \in SUBSET Nat
    BY <1>4, <2>3, ReportKeepsHistory
  <2>5. (state = "Playing") \in BOOLEAN /\ FALSE \in BOOLEAN
    OBVIOUS
  <2>6. QED
    BY <1>1, <1>4, <1>7, <2>1, <2>2, <2>4, <2>5, EnterStartNextKeepsInv, Zenon
<1>8. QED  BY <1>6, <1>7

LEMMA PlaybackErrorKeepsInv ==
    ASSUME IInv, NEW i \in DOMAIN instances, PlaybackError(i)
    PROVE  IInv'
<1>. DEFINE insts == [Stopped(i) EXCEPT ![i].failed = TRUE]
            x == [Stopped(i)[i] EXCEPT !.failed = TRUE]
<1>1. AtRest /\ Running(i) /\ IsPool(instances)
  BY DEF PlaybackError, Running, IInv, TypeInv
<1>2. PICK id : id = instances[i].track
  OBVIOUS
<1>3. id # NoQueueId
  BY <1>1, <1>2 DEF IInv, InstanceInv
<1>4. /\ AddToPlayerHistory(historyOrder, id) /\ errors' = errors + 1
      /\ instances' = AfterStopped(insts, i)
      /\ UNCHANGED <<slots, state, startedTracks, call, syncStop>>
  BY <1>2 DEF PlaybackError
<1>5. Signalled(Stopped(i), i)
  BY <1>1, StoppedIsSignalled
<1>6. /\ IsPool(Stopped(i)) /\ i \in DOMAIN Stopped(i)
      /\ Stopped(i)[i] \in InstanceState
  BY <1>5 DEF Signalled, Updated, IsPool
<1>7. /\ x \in InstanceState /\ x.track = Stopped(i)[i].track
      /\ x.available = Stopped(i)[i].available
      /\ x.deleteAfterStopped = Stopped(i)[i].deleteAfterStopped
      /\ x.backend = Stopped(i)[i].backend /\ x.stopping = Stopped(i)[i].stopping
  BY <1>6, Zenon DEF InstanceState
<1>8. insts = [Stopped(i) EXCEPT ![i] = x]
  BY <1>6, Zenon DEF IsPool
<1>. HIDE DEF x, insts
<1>9. Updated(Stopped(i), insts, i) /\ insts[i] = x
  BY <1>6, <1>7, <1>8, UpdatedByRecord
<1>10. Signalled(insts, i)
  BY <1>5, <1>7, <1>9 DEF Signalled, Updated
<1>11. QED  BY <1>1, <1>2, <1>3, <1>4, <1>10, SignalKeepsInv

LEMMA StoppedEarlyKeepsInv ==
    ASSUME IInv, NEW i \in DOMAIN instances, StoppedEarly(i)
    PROVE  IInv'
<1>1. AtRest /\ instances[i].stopping /\ IsPool(instances)
  BY DEF StoppedEarly, IInv, TypeInv
<1>2. PICK id : id = instances[i].track
  OBVIOUS
<1>3. id # NoQueueId
  BY <1>1, <1>2 DEF IInv, InstanceInv
<1>4. /\ AddToPlayerHistory(historyOrder, id)
      /\ instances' = AfterStopped(Stopped(i), i)
      /\ UNCHANGED <<slots, state, startedTracks, call, syncStop, errors>>
  BY <1>2 DEF StoppedEarly, trackVars
<1>5. Signalled(Stopped(i), i) /\ Stopped(i)[i].failed = instances[i].failed
  BY <1>1, StoppedIsSignalled
<1>6. QED  BY <1>1, <1>2, <1>3, <1>4, <1>5, SignalKeepsInv

LEMMA ChangeQueueKeepsInv ==
    ASSUME IInv, QueueChanges
    PROVE  IInv'
<1>1. UserOperation /\ UNCHANGED <<poolVars, trackVars, orderVars, call, syncStop>>
  BY DEF QueueChanges, playerVars
<1>2. HistoryKept
  BY <1>1, UserOperationKeepsHistory DEF orderVars, IInv, TypeInv, IdInv, QueueIdsAreOld
<1>3. QED
  BY <1>1, <1>2, EntryIdIsOld, PoolStaysKeepsInv DEF IInv, TypeInv, CallInv


-----------------------------------------------------------------------------
(* The steps of startNext().                                               *)

LEMMA CallPhaseType ==
    ASSUME call \in Calls, NEW phase \in {"loop", "dequeued", "finish"},
           call' = [call EXCEPT !.phase = phase]
    PROVE  /\ call' \in Calls /\ call'.phase = phase /\ call'.stopCurrent = call.stopCurrent
           /\ call'.next = call.next /\ call'.oldCurrent = call.oldCurrent
           /\ call'.emitter = call.emitter /\ call'.entry = call.entry
  BY Zenon DEF Calls

LEMMA SearchEndsKeepsInv ==
    ASSUME IInv, NothingToPlay \/ MeetBreak
    PROVE  IInv'
<1>1. /\ UNCHANGED <<queueVars, poolVars, trackVars, orderVars, syncStop>>
      /\ call' = [call EXCEPT !.phase = "finish"] /\ call.phase \in {"loop", "dequeued"}
  BY DEF NothingToPlay, MeetBreak
<1>2. /\ call' \in Calls /\ call'.phase = "finish" /\ call'.stopCurrent = call.stopCurrent
      /\ call'.next = call.next /\ call'.oldCurrent = call.oldCurrent
      /\ call'.emitter = call.emitter /\ call'.entry = call.entry
  BY <1>1, CallPhaseType DEF IInv, TypeInv
<1>3. HistoryKept
  BY <1>1, IInvGivesHistory DEF orderVars
<1>4. QED  BY <1>1, <1>2, <1>3, EntryIdIsOld, PoolStaysKeepsInv

LEMMA TakeFromQueueKeepsInv ==
    ASSUME IInv, TakeFromQueue
    PROVE  IInv'
<1>1. /\ UNCHANGED <<poolVars, trackVars, orderVars, syncStop>> /\ Dequeue
      /\ call' = [call EXCEPT !.phase = "dequeued", !.entry = queue[1]]
      /\ call.phase = "loop" /\ call \in Calls /\ queue # << >> /\ queue \in Seq(Entry)
  BY DEF TakeFromQueue, Dequeue, IInv, TypeInv, QueueInv, QueueTypeOK
<1>2. 1 \in 1..Len(queue)
  BY <1>1, EmptySeq, LenProperties
<1>3. /\ queue[1] \in Entry /\ queue[1].queueID \in Nat \ {NoQueueId}
      /\ queue[1].queueID < nextQueueID
  <2>1. queue[1] \in Entry
    BY <1>1, <1>2, ElementOfSeq
  <2>2. QED  BY <1>2, <2>1 DEF Entry, IInv, IdInv
<1>4. queue[1] \in [queueID : Nat, kind : Kinds]
  BY <1>3 DEF Entry
<1>5. /\ call' \in Calls /\ call'.phase = "dequeued" /\ call'.stopCurrent = call.stopCurrent
      /\ call'.next = call.next /\ call'.oldCurrent = call.oldCurrent
      /\ call'.emitter = call.emitter /\ call'.entry = queue[1]
  BY <1>1, <1>4, Zenon DEF Calls
<1>6. HistoryKept
  BY <1>1, DequeueKeepsHistory DEF orderVars, IInv, TypeInv, IdInv, QueueIdsAreOld
<1>7. QED  BY <1>1, <1>3, <1>5, <1>6, PoolStaysKeepsInv

LEMMA NoInstanceForTrackKeepsInv ==
    ASSUME IInv, NoInstanceForTrack
    PROVE  IInv'
<1>1. /\ call.phase = "dequeued" /\ call.next = NoInstance /\ slots.current = NoInstance
      /\ call' = [Idle EXCEPT !.phase = "crashed"]
      /\ UNCHANGED <<queueVars, slots, instances, state, startedTracks, errors,
                     historyOrder, pendingHistory, syncStop>>
  BY DEF NoInstanceForTrack, poolVars, trackVars, orderVars, IInv, CallInv
<1>2. ~ (syncStop /\ errors = 0)
  BY <1>1 DEF IInv, SyncInv
<1>3. Idle \in Calls
  BY DEF Idle, Calls, NoQueueId, Kinds, NoInstance
<1>4. /\ call' \in Calls /\ call'.phase = "crashed" /\ call'.next = Idle.next
      /\ call'.oldCurrent = Idle.oldCurrent /\ call'.emitter = Idle.emitter
      /\ call'.entry = Idle.entry
  BY <1>1, <1>3, Zenon DEF Calls
<1>5. /\ call'.next = NoInstance /\ call'.oldCurrent = NoInstance
      /\ call'.emitter = NoInstance /\ call'.entry.queueID = NoQueueId
  BY <1>4 DEF Idle
<1>6. HistoryKept
  BY <1>1, IInvGivesHistory
<1>7. NoInstance \notin DOMAIN instances
  BY PlayerConstants DEF IInv, TypeInv, IsPool, NoInstance
<1>8. TypeInv'
  BY <1>1, <1>4, <1>6 DEF IInv, TypeInv, HistoryKept
<1>9. CallInv'
  BY <1>1, <1>4, <1>5 DEF CallInv
<1>10. PoolInv'
  BY <1>1, <1>5 DEF IInv, PoolInv, InHand
<1>11. InstanceInv'
  <2>1. ASSUME NEW j \in DOMAIN instances, instances[j].failed
        PROVE  Reported(instances[j].track)'
    <3>1. ASSUME NEW t, t = instances[j].track  PROVE Reported(t)'
      BY <1>6, <2>1, <3>1, FailedStayReported
    <3>2. QED  BY <1>1, <3>1 DEF Reported
  <2>2. QED  BY <1>1, <1>5, <1>7, <2>1 DEF IInv, InstanceInv, Running, Reported
<1>12. IdInv'
  <2>1. 0 \in Nat /\ 0 < nextQueueID
    BY DEF IInv, TypeInv, QueueInv, QueueTypeOK, NoQueueId
  <2>2. QED  BY <1>1, <1>5, <1>6, <2>1, IdsStay DEF NoQueueId
<1>13. TrackInv'
  BY <1>1, <1>6, TracksStay DEF Running
<1>14. SyncInv'
  BY <1>1, <1>2 DEF SyncInv
<1>15. QED
  BY <1>8, <1>9, <1>10, <1>11, <1>12, <1>13, <1>14 DEF IInv

(* An instance is in its slot, prepared for the first track of the queue.  *)
LEMMA PrepareKeepsInv ==
    ASSUME IInv, PrepareForFirstTrackFromQueue
    PROVE  IInv'
<1>. DEFINE pool == WithNextInstance(Pool)
            id == queue[firstTrackIndex + 1].queueID
<1>1. /\ call.phase \in {"idle", "dequeued"} /\ firstTrackIndex >= 0
      /\ Instances # DOMAIN instances /\ slots' = pool.slots
      /\ UNCHANGED <<queueVars, trackVars, orderVars, call, syncStop>>
  BY DEF PrepareForFirstTrackFromQueue
<1>2. PICK preloaded \in BOOLEAN :
         instances' = AfterPrepare(pool.instances, pool.slots.next, id, preloaded)
  BY DEF PrepareForFirstTrackFromQueue
<1>3. UNCHANGED <<state, startedTracks, errors, historyOrder, pendingHistory>>
  BY <1>1 DEF trackVars, orderVars
<1>4. /\ slots \in Slots /\ IsPool(instances) /\ Managed(slots, instances, InHand)
      /\ InHand \in Instances \cup {NoInstance} /\ NoInstance \notin DOMAIN instances
  BY PlayerConstants
     DEF IInv, TypeInv, PoolInv, Managed, InHand, Slots, Calls, IsPool, NoInstance
<1>5. Supplied(slots, instances, InHand, pool)
  BY <1>1, <1>4, WithNextInstanceSupplies DEF Pool
<1>6. id \in Nat \ {NoQueueId} /\ id < nextQueueID
  <2>1. SomeTrack
    BY <1>1, FirstTrackCases DEF IInv, TypeInv, NoTrack
  <2>2. firstTrackIndex + 1 \in 1..Len(queue) /\ queue \in Seq(Entry)
    BY <2>1, LenProperties DEF SomeTrack, IInv, TypeInv, QueueInv, QueueTypeOK
  <2>3. queue[firstTrackIndex + 1] \in Entry
    BY <2>2, ElementOfSeq
  <2>4. QED  BY <2>2, <2>3 DEF Entry, IInv, IdInv
<1>. HIDE DEF pool, id
<1>7. PICK n : n = slots'.next
  OBVIOUS
<1>8. /\ slots' \in Slots /\ slots'.current = slots.current /\ n # NoInstance
      /\ n = pool.slots.next
      /\ IsPool(pool.instances) /\ Managed(slots', pool.instances, InHand)
      /\ n \in DOMAIN pool.instances /\ pool.instances[n].available
      /\ DOMAIN instances \subseteq DOMAIN pool.instances
      /\ \A j \in DOMAIN instances : pool.instances[j] = instances[j]
      /\ \A j \in DOMAIN pool.instances \ DOMAIN instances : pool.instances[j] = NewInstance
  BY <1>1, <1>5, <1>7 DEF Supplied, Managed
<1>9. /\ Updated(pool.instances, instances', n)
      /\ \/ instances' = pool.instances
         \/ /\ instances'[n].track = id /\ instances'[n].available
            /\ ~ instances'[n].failed
            /\ instances'[n].backend = pool.instances[n].backend
            /\ instances'[n].stopping = pool.instances[n].stopping
            /\ instances'[n].deleteAfterStopped = pool.instances[n].deleteAfterStopped
  BY <1>2, <1>6, <1>8, AfterPrepareUpdates
<1>10. /\ IsPool(instances') /\ DOMAIN instances' = DOMAIN pool.instances
       /\ NoInstance \notin DOMAIN instances'
  BY <1>9, PlayerConstants DEF Updated, IsPool, NoInstance
<1>11. /\ NewInstance.available /\ NewInstance.backend = "Stopped" /\ ~ NewInstance.failed
       /\ NewInstance.track = NoQueueId /\ ~ NewInstance.stopping
  BY DEF NewInstance
<1>12. ASSUME NEW j \in DOMAIN instances'
       PROVE  \/ j \in DOMAIN instances /\ instances'[j] = instances[j]
              \/ /\ instances'[j].available /\ instances'[j].backend = "Stopped"
                 /\ ~ instances'[j].failed /\ j \notin {slots.current, call.emitter}
                 /\ \/ instances'[j].track = id
                    \/ instances'[j].track = NoQueueId /\ ~ instances'[j].stopping
  <2>1. CASE j # n /\ j \in DOMAIN instances
    BY <1>8, <1>9, <2>1 DEF Updated
  <2>2. CASE j \notin DOMAIN instances
    <3>1. pool.instances[j] = NewInstance /\ j # slots.current /\ j # call.emitter
      BY <1>4, <1>8, <1>10, <2>2 DEF Managed, IInv, CallInv
    <3>2. CASE instances' = pool.instances
      BY <1>11, <3>1, <3>2
    <3>3. CASE instances' # pool.instances /\ j = n
      BY <1>9, <1>11, <3>1, <3>3
    <3>4. CASE instances' # pool.instances /\ j # n
      BY <1>9, <1>10, <1>11, <3>1, <3>4 DEF Updated
    <3>5. QED  BY <3>2, <3>3, <3>4
  <2>3. CASE j = n /\ j \in DOMAIN instances
    <3>1. pool.instances[n] = instances[n] /\ instances[n].available
      BY <1>8, <2>3
    <3>2. instances[n].backend = "Stopped" /\ n # call.emitter
      BY <2>3, <3>1 DEF IInv, InstanceInv, Running
    <3>3. n # slots.current
      BY <1>7, <1>8 DEF Managed
    <3>4. QED  BY <1>8, <1>9, <2>3, <3>1, <3>2, <3>3, Zenon
  <2>4. QED  BY <2>1, <2>2, <2>3
<1>13. ASSUME NEW j \in DOMAIN instances, Running(j)
       PROVE  j \in DOMAIN instances' /\ Running(j)' /\ instances'[j].track = instances[j].track
  <2>1. j \in DOMAIN instances'
    BY <1>8, <1>10
  <2>2. ~ instances[j].available
    BY <1>13 DEF IInv, InstanceInv
  <2>3. j # n
    BY <1>8, <2>2
  <2>4. instances'[j] = instances[j]
    BY <1>8, <1>9, <2>3 DEF Updated
  <2>5. QED  BY <1>13, <2>1, <2>4 DEF Running
<1>14. HistoryKept
  BY <1>1, <1>3, IInvGivesHistory
<1>15. TypeInv'
  BY <1>1, <1>3, <1>8, <1>10, <1>14 DEF IInv, TypeInv, HistoryKept
<1>16. CallInv'
  BY <1>1, <1>8, <1>10 DEF IInv, CallInv
<1>17. InHand' = InHand
  BY <1>1, <1>8 DEF InHand
<1>18. PoolInv'
  <2>1. Managed(slots', instances', InHand)
    BY <1>8, <1>9, UpdatedStaysManaged
  <2>2. InHand # NoInstance => InHand # n
    BY <1>7, <1>8 DEF Managed
  <2>3. InHand # NoInstance =>
           InHand \in DOMAIN instances /\ instances'[InHand] = instances[InHand]
    BY <1>4, <1>8, <1>9, <2>2 DEF Managed, Updated
  <2>4. QED  BY <1>17, <2>1, <2>3 DEF IInv, PoolInv
<1>19. InstanceInv'
  <2>1. ASSUME NEW j \in DOMAIN instances', instances'[j].failed
        PROVE  \A t : t = instances'[j].track => Reported(t)'
    <3>1. j \in DOMAIN instances /\ instances'[j] = instances[j]
      BY <1>12, <2>1
    <3>2. QED  BY <1>14, <2>1, <3>1, FailedStayReported
  <2>2. ASSUME NEW j \in DOMAIN instances'
        PROVE  /\ instances'[j].available => ~ Running(j)'
               /\ instances'[j].track = NoQueueId =>
                     ~ Running(j)' /\ ~ instances'[j].stopping /\ j # slots'.current
               /\ j = call'.emitter => ~ Running(j)' /\ ~ instances'[j].available
    <3>1. CASE j \in DOMAIN instances /\ instances'[j] = instances[j]
      BY <1>1, <1>8, <3>1 DEF IInv, InstanceInv, Running
    <3>2. CASE ~ (j \in DOMAIN instances /\ instances'[j] = instances[j])
      BY <1>1, <1>6, <1>8, <1>12, <3>2 DEF Running
    <3>3. QED  BY <3>1, <3>2
  <2>3. QED  BY <2>1, <2>2 DEF InstanceInv, Running, Reported
<1>20. IdInv'
  <2>1. \A j \in DOMAIN instances' :
           \/ instances'[j].track = id
           \/ instances'[j].track = NoQueueId
           \/ j \in DOMAIN instances /\ instances'[j].track = instances[j].track
    BY <1>12
  <2>2. startedTracks' \subseteq startedTracks \cup {id} /\ call' = call
    BY <1>1, <1>3
  <2>3. QED  BY <1>6, <1>14, <2>1, <2>2, EntryIdIsOld, IdsStay
<1>21. TrackInv'
  BY <1>3, <1>13, <1>14, TracksStay
<1>22. SyncInv'
  <2>. SUFFICES ASSUME syncStop' /\ errors' = 0
                PROVE  /\ call'.phase # "crashed"
                       /\ call'.phase # "idle" => call'.next # NoInstance
                       /\ call'.phase = "idle" /\ state' = "Stopped" =>
                             slots'.current = NoInstance
                       /\ OneMissing(InUse', slots'.next, slots'.old1, slots'.old2)
                       /\ \A i \in DOMAIN instances' :
                             /\ ~ instances'[i].failed
                             /\ ~ instances'[i].available =>
                                   /\ Running(i)' \/ i = call'.emitter
                                   /\ i \in {slots'.current, call'.oldCurrent}
                                   /\ i = call'.oldCurrent =>
                                         i = call'.emitter \/ call'.stopCurrent
    BY DEF SyncInv, AtRest
  <2>1. InUse' = InUse /\ InUse \in Nat
    <3>1. InUse \in Instances \cup {NoInstance}
      BY DEF InUse, IInv, TypeInv, Slots, Calls
    <3>2. InUse \in Nat
      BY <3>1, PlayerConstants DEF NoInstance
    <3>3. InUse' = InUse
      BY <1>1, <1>8 DEF InUse
    <3>4. QED  BY <3>2, <3>3
  <2>2. /\ call.phase # "crashed"
        /\ call.phase # "idle" => call.next # NoInstance
        /\ call.phase = "idle" /\ state = "Stopped" => slots.current = NoInstance
        /\ OneMissing(InUse, slots.next, slots.old1, slots.old2)
    BY <1>1, <1>3 DEF IInv, SyncInv, AtRest
  <2>3. \A i \in DOMAIN instances :
           /\ ~ instances[i].failed
           /\ ~ instances[i].available =>
                 /\ Running(i) \/ i = call.emitter
                 /\ i \in {slots.current, call.oldCurrent}
                 /\ i = call.oldCurrent => i = call.emitter \/ call.stopCurrent
    BY <1>1, <1>3 DEF IInv, SyncInv
  <2>4. OneMissing(InUse', slots'.next, slots'.old1, slots'.old2)
    BY <1>1, <1>5, <2>1, <2>2 DEF Supplied
  <2>5. ASSUME NEW i \in DOMAIN instances'
        PROVE  /\ ~ instances'[i].failed
               /\ ~ instances'[i].available =>
                     /\ Running(i)' \/ i = call'.emitter
                     /\ i \in {slots'.current, call'.oldCurrent}
                     /\ i = call'.oldCurrent => i = call'.emitter \/ call'.stopCurrent
    <3>1. CASE i \in DOMAIN instances /\ instances'[i] = instances[i]
      BY <1>1, <1>8, <2>3, <3>1 DEF Running
    <3>2. CASE ~ (i \in DOMAIN instances /\ instances'[i] = instances[i])
      BY <1>12, <3>2
    <3>3. QED  BY <3>1, <3>2
  <2>6. QED  BY <1>1, <1>3, <1>8, <2>2, <2>4, <2>5
<1>23. QED
  BY <1>15, <1>16, <1>18, <1>19, <1>20, <1>21, <1>22 DEF IInv


(* tryPrepareTrack for the instance in hand, which does not run.           *)
Prepared(insts, i, id) ==
    /\ Updated(instances, insts, i) /\ i \in DOMAIN instances
    /\ slots.current = NoInstance /\ InHand = i
    /\ ~ Running(i) /\ instances[i].available /\ i # call.emitter
    /\ i # call.oldCurrent /\ i \notin {slots.next, slots.old1, slots.old2}
    /\ id \in Nat \ {NoQueueId} /\ id < nextQueueID
    /\ insts[i].available /\ insts[i].backend = "Stopped"
    /\ insts[i].deleteAfterStopped = instances[i].deleteAfterStopped
    /\ \/ insts = instances
       \/ insts[i].track = id /\ ~ insts[i].failed

LEMMA PreparedInHand ==
    ASSUME IInv, call.phase = "dequeued", call.next # NoInstance, NEW found \in BOOLEAN,
           NEW id, id = call.entry.queueID, NEW i, i = call.next,
           NEW insts, insts = AfterPrepare(instances, i, id, found)
    PROVE  Prepared(insts, i, id)
<1>1. slots.current = NoInstance /\ InHand = i
  BY DEF IInv, CallInv, InHand
<1>2. IsPool(instances) /\ Managed(slots, instances, i) /\ instances[i].available
  BY <1>1 DEF IInv, TypeInv, PoolInv
<1>3. i \in DOMAIN instances /\ i \notin {slots.next, slots.old1, slots.old2}
  BY <1>2 DEF Managed
<1>4. ~ Running(i) /\ i # call.emitter /\ i # call.oldCurrent
  BY <1>2, <1>3 DEF IInv, InstanceInv, CallInv
<1>5. id \in Nat \ {NoQueueId} /\ id < nextQueueID
  BY EntryIdIsOld DEF IInv, CallInv
<1>6. /\ Updated(instances, insts, i)
      /\ \/ insts = instances
         \/ /\ insts[i].track = id /\ insts[i].available /\ ~ insts[i].failed
            /\ insts[i].backend = instances[i].backend
            /\ insts[i].deleteAfterStopped = instances[i].deleteAfterStopped
  BY <1>2, <1>3, <1>5, AfterPrepareUpdates
<1>7. QED  BY <1>1, <1>2, <1>3, <1>4, <1>5, <1>6 DEF Running, Prepared

(* The instance in hand is given its track, or not, and may start.         *)
LEMMA TryKeepsInv ==
    ASSUME IInv, call.phase = "dequeued", call.next # NoInstance, NEW found \in BOOLEAN,
           NEW id, id = call.entry.queueID, NEW i, i = call.next,
           NEW insts, insts = AfterPrepare(instances, i, id, found),
           HistoryKept, historyOrder' \in Seq(Nat \ {NoQueueId}),
           pendingHistory' \in SUBSET Nat,
           state' \in {"Stopped", "Playing", "Paused"}, UNCHANGED <<errors, syncStop>>,
           call' \in Calls, call'.next = call.next, call'.oldCurrent = call.oldCurrent,
           call'.emitter = call.emitter, call'.stopCurrent = call.stopCurrent,
           call'.entry = call.entry, slots' \in Slots,
           slots'.next = slots.next, slots'.old1 = slots.old1, slots'.old2 = slots.old2,
           \/ /\ call'.phase = "loop" /\ slots'.current = NoInstance
              /\ instances' = insts /\ startedTracks' = startedTracks
           \/ /\ call'.phase = "finish" /\ slots'.current = i /\ insts[i].track = id
              /\ instances' = insts /\ startedTracks' = startedTracks
           \/ /\ call'.phase = "finish" /\ slots'.current = i /\ insts[i].track = id
              /\ instances' = AfterPlay(insts, i)
              /\ startedTracks' = startedTracks \cup {id}
    PROVE  IInv'
<1>1. /\ Updated(instances, insts, i) /\ i \in DOMAIN instances
      /\ slots.current = NoInstance /\ InHand = i
      /\ ~ Running(i) /\ instances[i].available /\ i # call.emitter
      /\ i # call.oldCurrent /\ i \notin {slots.next, slots.old1, slots.old2}
      /\ id \in Nat \ {NoQueueId} /\ id < nextQueueID
      /\ insts[i].available /\ insts[i].backend = "Stopped"
      /\ insts[i].deleteAfterStopped = instances[i].deleteAfterStopped
      /\ \/ insts = instances
         \/ insts[i].track = id /\ ~ insts[i].failed
  BY PreparedInHand DEF Prepared
<1>2. /\ IsPool(insts) /\ DOMAIN insts = DOMAIN instances
      /\ i \in DOMAIN insts /\ NoInstance \notin DOMAIN instances
      /\ \A j \in DOMAIN instances : j # i => insts[j] = instances[j]
  BY <1>1, PlayerConstants DEF Updated, IsPool, NoInstance
<1>3. insts[i].failed => \A t : t = insts[i].track => Reported(t)'
  BY <1>1, FailedStayReported
<1>4. /\ Updated(instances, instances', i)
      /\ instances'[i].track = insts[i].track /\ instances'[i].failed = insts[i].failed
      /\ instances'[i].deleteAfterStopped = instances[i].deleteAfterStopped
      /\ instances'[i].available => instances'[i].backend = "Stopped"
      /\ \/ instances' = insts /\ startedTracks' = startedTracks
         \/ /\ ~ instances'[i].available /\ startedTracks' = startedTracks \cup {id}
            /\ slots'.current = i /\ insts[i].track = id
            /\ instances'[i].failed \/ instances'[i].backend = "Playing"
  <2>1. CASE instances' = insts /\ startedTracks' = startedTracks
    BY <1>1, <2>1
  <2>2. CASE /\ instances' = AfterPlay(insts, i) /\ slots'.current = i
             /\ startedTracks' = startedTracks \cup {id} /\ insts[i].track = id
    <3>1. /\ Updated(insts, instances', i) /\ instances'[i].track = insts[i].track
          /\ instances'[i].failed = insts[i].failed /\ ~ instances'[i].available
          /\ instances'[i].deleteAfterStopped = insts[i].deleteAfterStopped
          /\ instances'[i].backend =
                IF insts[i].failed THEN insts[i].backend ELSE "Playing"
      BY <1>2, <2>2, AfterPlayUpdates
    <3>2. Updated(instances, instances', i)
      BY <1>2, <3>1 DEF Updated
    <3>3. QED  BY <1>1, <2>2, <3>1, <3>2
  <2>3. QED  BY <2>1, <2>2
<1>5. /\ IsPool(instances') /\ DOMAIN instances' = DOMAIN instances
      /\ \A j \in DOMAIN instances : j # i => instances'[j] = instances[j]
  BY <1>4 DEF Updated
<1>6. /\ slots'.current \in {NoInstance, i}
      /\ slots'.current = i => insts[i].track = id
      /\ call'.phase \in {"loop", "finish"}
      /\ call'.phase = "loop" => slots'.current = NoInstance
  OBVIOUS
<1>7. TypeInv'
  <2>1. startedTracks \in SUBSET Nat /\ startedTracks' \in SUBSET Nat
    BY <1>1, <1>4 DEF IInv, TypeInv
  <2>2. QED  BY <1>5, <2>1 DEF IInv, TypeInv, HistoryKept
<1>8. CallInv'
  BY <1>5, <1>6 DEF IInv, CallInv
<1>9. PoolInv'
  <2>1. Managed(slots, instances, i)
    BY <1>1 DEF IInv, PoolInv
  <2>2. Managed(slots, instances', i)
    BY <1>1, <1>4, <2>1, UpdatedStaysManaged
  <2>3. CASE slots'.current = NoInstance
    <3>1. InHand' = i
      BY <2>3 DEF InHand
    <3>2. Managed(slots', instances', i)
      BY <1>1, <2>2, <2>3 DEF Managed
    <3>3. instances'[i].available
      BY <1>1, <1>2, <1>4, <2>3
    <3>4. QED  BY <3>1, <3>2, <3>3 DEF PoolInv
  <2>4. CASE slots'.current = i
    <3>1. InHand' = NoInstance
      BY <2>4 DEF InHand
    <3>2. ASSUME NEW j \in DOMAIN instances'
          PROVE  instances'[j].deleteAfterStopped <=>
                     j \notin {slots'.current, slots'.next, slots'.old1, slots'.old2,
                               NoInstance}
      <4>1. instances'[j].deleteAfterStopped <=>
                j \notin {slots.current, slots.next, slots.old1, slots.old2, i}
        BY <2>2 DEF Managed
      <4>2. j # NoInstance
        BY <1>2, <1>5
      <4>3. QED  BY <1>1, <2>4, <4>1, <4>2
    <3>3. Managed(slots', instances', NoInstance)
      BY <1>1, <2>2, <2>4, <3>2 DEF Managed
    <3>4. QED  BY <3>1, <3>3 DEF PoolInv
  <2>5. QED  BY <1>6, <2>3, <2>4
<1>10. InstanceInv'
  <2>1. ASSUME NEW j \in DOMAIN instances', instances'[j].failed
        PROVE  \A t : t = instances'[j].track => Reported(t)'
    <3>1. CASE j = i
      BY <1>3, <1>4, <2>1, <3>1
    <3>2. CASE j # i
      BY <1>5, <2>1, <3>2, FailedStayReported
    <3>3. QED  BY <3>1, <3>2
  <2>2. instances'[i].track = NoQueueId =>
           /\ instances'[i] = instances[i] /\ slots'.current # i
    <3>1. CASE insts = instances
      BY <1>1, <1>4, <1>6, <3>1
    <3>2. CASE insts[i].track = id
      BY <1>1, <1>4, <3>2
    <3>3. QED  BY <1>1, <3>1, <3>2
  <2>3. ASSUME NEW j \in DOMAIN instances'
        PROVE  /\ instances'[j].available => ~ Running(j)'
               /\ instances'[j].track = NoQueueId =>
                     ~ Running(j)' /\ ~ instances'[j].stopping /\ j # slots'.current
               /\ j = call'.emitter => ~ Running(j)' /\ ~ instances'[j].available
    <3>1. CASE j = i
      BY <1>1, <1>4, <2>2, <3>1 DEF IInv, InstanceInv, Running
    <3>2. CASE j # i
      BY <1>1, <1>2, <1>5, <1>6, <3>2 DEF IInv, InstanceInv, Running
    <3>3. QED  BY <3>1, <3>2
  <2>4. QED  BY <2>1, <2>3 DEF InstanceInv, Running, Reported
<1>11. IdInv'
  <2>1. \A j \in DOMAIN instances' :
           \/ instances'[j].track = id
           \/ j \in DOMAIN instances /\ instances'[j].track = instances[j].track
    BY <1>1, <1>4, <1>5
  <2>2. startedTracks' \subseteq startedTracks \cup {id}
    BY <1>4
  <2>3. QED  BY <1>1, <2>1, <2>2, EntryIdIsOld, IdsStay
<1>12. TrackInv'
  <2>1. ASSUME NEW t \in startedTracks
        PROVE  \/ Reported(t)'
               \/ \E j \in DOMAIN instances' : instances'[j].track = t /\ Running(j)'
    <3>1. t \in Nat /\ t < nextQueueID
      BY DEF IInv, TypeInv, IdInv
    <3>2. CASE Reported(t)
      BY <3>1, <3>2 DEF HistoryKept
    <3>3. CASE \E j \in DOMAIN instances : instances[j].track = t /\ Running(j)
      <4>1. PICK j \in DOMAIN instances : instances[j].track = t /\ Running(j)
        BY <3>3
      <4>2. j \in DOMAIN instances' /\ instances'[j].track = t /\ Running(j)'
        BY <1>1, <1>5, <4>1 DEF Running
      <4>3. QED  BY <4>2
    <3>4. QED  BY <3>2, <3>3 DEF IInv, TrackInv
  <2>2. CASE startedTracks' = startedTracks
    BY <2>1, <2>2 DEF TrackInv, Reported, Running
  <2>3. CASE /\ startedTracks' = startedTracks \cup {id} /\ insts[i].track = id
             /\ instances'[i].failed \/ instances'[i].backend = "Playing"
    <3>1. \/ Reported(id)'
          \/ \E j \in DOMAIN instances' : instances'[j].track = id /\ Running(j)'
      <4>1. CASE instances'[i].failed
        BY <1>3, <1>4, <2>3, <4>1
      <4>2. CASE instances'[i].backend = "Playing"
        <5>1. i \in DOMAIN instances' /\ instances'[i].track = id /\ Running(i)'
          BY <1>1, <1>4, <1>5, <2>3, <4>2 DEF Running
        <5>2. QED  BY <5>1
      <4>3. QED  BY <2>3, <4>1, <4>2
    <3>2. QED  BY <2>1, <2>3, <3>1 DEF TrackInv, Reported, Running
  <2>4. QED  BY <1>4, <2>2, <2>3
<1>13. SyncInv'
  <2>. SUFFICES ASSUME syncStop' /\ errors' = 0
                PROVE  /\ OneMissing(InUse', slots'.next, slots'.old1, slots'.old2)
                       /\ \A j \in DOMAIN instances' :
                             /\ ~ instances'[j].failed
                             /\ ~ instances'[j].available =>
                                   /\ Running(j)' \/ j = call'.emitter
                                   /\ j \in {slots'.current, call'.oldCurrent}
                                   /\ j = call'.oldCurrent =>
                                         j = call'.emitter \/ call'.stopCurrent
    BY <1>6 DEF SyncInv, AtRest
  <2>1. InUse' = i /\ InUse = i
    BY <1>1, <1>2, <1>6 DEF InUse
  <2>2. OneMissing(InUse, slots.next, slots.old1, slots.old2)
    BY DEF IInv, SyncInv
  <2>3. \A j \in DOMAIN instances :
           /\ ~ instances[j].failed
           /\ ~ instances[j].available =>
                 /\ Running(j) \/ j = call.emitter
                 /\ j \in {slots.current, call.oldCurrent}
                 /\ j = call.oldCurrent => j = call.emitter \/ call.stopCurrent
    BY DEF IInv, SyncInv
  <2>4. ~ instances'[i].failed
    BY <1>1, <1>4, <2>3
  <2>5. ASSUME NEW j \in DOMAIN instances'
        PROVE  /\ ~ instances'[j].failed
               /\ ~ instances'[j].available =>
                     /\ Running(j)' \/ j = call'.emitter
                     /\ j \in {slots'.current, call'.oldCurrent}
                     /\ j = call'.oldCurrent => j = call'.emitter \/ call'.stopCurrent
    <3>1. CASE j = i
      BY <1>1, <1>4, <2>4, <3>1 DEF Running
    <3>2. CASE j # i
      BY <1>1, <1>2, <1>5, <1>6, <2>3, <3>2 DEF Running
    <3>3. QED  BY <3>1, <3>2
  <2>6. QED  BY <2>1, <2>2, <2>5
<1>14. QED
  BY <1>7, <1>8, <1>9, <1>10, <1>11, <1>12, <1>13 DEF IInv


LEMMA TryTrackKeepsInv ==
    ASSUME IInv, TryTrack
    PROVE  IInv'
<1>1. PICK id : id = call.entry.queueID
  OBVIOUS
<1>2. PICK i : i = call.next
  OBVIOUS
<1>3. PICK found \in BOOLEAN :
         LET insts == AfterPrepare(instances, i, id, found)
         IN  IF CanStart(insts, i, id) THEN StartTrack(insts, i, id)
                                       ELSE RejectTrack(insts, id)
  BY <1>1, <1>2 DEF TryTrack
<1>4. PICK insts : insts = AfterPrepare(instances, i, id, found)
  OBVIOUS
<1>5. call.phase = "dequeued" /\ call.next # NoInstance /\ call \in Calls /\ slots \in Slots
  BY DEF TryTrack, IInv, TypeInv
<1>6. Prepared(insts, i, id)
  BY <1>1, <1>2, <1>4, <1>5, PreparedInHand
<1>7. /\ id \in Nat \ {NoQueueId} /\ slots.current = NoInstance
      /\ i \in DOMAIN instances /\ i \in Instances
  BY <1>6 DEF Prepared, IInv, TypeInv, IsPool
<1>8. /\ historyOrder \in Seq(Nat \ {NoQueueId})
      /\ Append(historyOrder, id) \in Seq(Nat \ {NoQueueId})
  BY <1>7, AppendProperties DEF IInv, TypeInv
<1>9. CASE CanStart(insts, i, id) /\ StartTrack(insts, i, id)
  <2>1. /\ slots' = [slots EXCEPT !.current = i]
        /\ call' = [call EXCEPT !.phase = "finish"]
        /\ historyOrder' = Append(historyOrder, id)
        /\ UNCHANGED <<queueVars, pendingHistory, errors, syncStop>>
        /\ \/ /\ instances' = insts /\ startedTracks' = startedTracks /\ state' = state
           \/ /\ instances' = AfterPlay(insts, i)
              /\ startedTracks' = startedTracks \cup {id} /\ state' = "Playing"
    BY <1>9 DEF StartTrack
  <2>2. insts[i].track = id
    BY <1>9 DEF CanStart, IsPrepared
  <2>3. /\ slots' \in Slots /\ slots'.current = i /\ slots'.next = slots.next
        /\ slots'.old1 = slots.old1 /\ slots'.old2 = slots.old2
    BY <1>5, <1>7, <2>1, Zenon DEF Slots
  <2>4. /\ call' \in Calls /\ call'.phase = "finish" /\ call'.stopCurrent = call.stopCurrent
        /\ call'.next = call.next /\ call'.oldCurrent = call.oldCurrent
        /\ call'.emitter = call.emitter /\ call'.entry = call.entry
    BY <1>5, <2>1, CallPhaseType
  <2>5. HistoryKept
    BY <2>1, IInvGivesHistory
  <2>6. /\ historyOrder' \in Seq(Nat \ {NoQueueId}) /\ pendingHistory' \in SUBSET Nat
        /\ state' \in {"Stopped", "Playing", "Paused"}
    BY <1>8, <2>1 DEF IInv, TypeInv
  <2>7. CASE instances' = insts /\ startedTracks' = startedTracks
    <3>1. UNCHANGED <<errors, syncStop>> /\ slots'.current = i
      BY <2>1, <2>3
    <3>2. QED
      BY ONLY IInv, <1>1, <1>2, <1>4, <1>5, <2>2, <2>3, <2>4, <2>5, <2>6, <2>7, <3>1,
              TryKeepsInv
  <2>8. CASE /\ instances' = AfterPlay(insts, i)
             /\ startedTracks' = startedTracks \cup {id}
    BY <1>1, <1>2, <1>4, <1>5, <2>1, <2>2, <2>3, <2>4, <2>5, <2>6, <2>8, TryKeepsInv
  <2>9. QED  BY <2>1, <2>7, <2>8
<1>10. CASE RejectTrack(insts, id)
  <2>1. /\ instances' = insts /\ AddToPlayerHistory(Append(historyOrder, id), id)
        /\ call' = [call EXCEPT !.phase = "loop"]
        /\ UNCHANGED <<slots, state, startedTracks, errors, syncStop>>
    BY <1>10 DEF RejectTrack, trackVars
  <2>2. /\ call' \in Calls /\ call'.phase = "loop" /\ call'.stopCurrent = call.stopCurrent
        /\ call'.next = call.next /\ call'.oldCurrent = call.oldCurrent
        /\ call'.emitter = call.emitter /\ call'.entry = call.entry
    BY <1>5, <2>1, CallPhaseType
  <2>3. /\ HistoryKept
        /\ historyOrder' \in Seq(Nat \ {NoQueueId}) /\ pendingHistory' \in SUBSET Nat
    BY <1>7, <1>8, <2>1, ReportKeepsHistory
  <2>4. state' \in {"Stopped", "Playing", "Paused"}
    BY <2>1 DEF IInv, TypeInv
  <2>5. QED
    BY <1>1, <1>2, <1>4, <1>5, <1>7, <2>1, <2>2, <2>3, <2>4, TryKeepsInv
<1>11. QED  BY <1>3, <1>4, <1>9, <1>10

(* The end of startNext(): slots and instances.                            *)
KeptInstances(insts, after) ==
    /\ IsPool(after) /\ DOMAIN after \subseteq DOMAIN insts
    /\ \A j \in DOMAIN insts \ DOMAIN after :
          j = call.emitter \/ insts[j].backend = "Stopped"
    /\ \A j \in DOMAIN after :
          /\ after[j].track = insts[j].track /\ after[j].failed = insts[j].failed
          /\ after[j].backend = insts[j].backend /\ after[j].stopping = insts[j].stopping
          /\ j # call.emitter => after[j].available = insts[j].available
          /\ j = call.emitter => after[j].available

LEMMA PoolIsFinished ==
    ASSUME IInv, call.phase = "finish", NEW insts, IsPool(insts),
           Managed(slots, insts, InHand), FinishPool(insts, slots.current # NoInstance)
    PROVE  /\ slots' \in Slots /\ slots'.current = slots.current
           /\ KeptInstances(insts, instances') /\ Managed(slots', instances', NoInstance)
           /\ /\ OneMissing(InUse, slots.next, slots.old1, slots.old2)
              /\ \/ slots.current # NoInstance \/ slots.next # NoInstance
                 \/ IsAvailable(insts, slots.old1) \/ IsAvailable(insts, slots.old2)
              => OneMissing(slots'.current, slots'.next, slots'.old1, slots'.old2)
<1>. DEFINE found == slots.current # NoInstance
            pool == IF found THEN [slots |-> slots, instances |-> insts]
                    ELSE MovedToOldSlot([slots |-> slots, instances |-> insts], call.next)
<1>1. slots' = pool.slots /\ instances' = AfterStopped(pool.instances, call.emitter)
  BY DEF FinishPool
<1>2. slots \in Slots /\ call.next \in Instances \cup {NoInstance}
  BY DEF IInv, TypeInv, Calls
<1>3. /\ pool.slots \in Slots /\ pool.slots.current = slots.current
      /\ Thinned(insts, pool.instances)
      /\ Managed(pool.slots, pool.instances, NoInstance)
      /\ /\ OneMissing(InUse, slots.next, slots.old1, slots.old2)
         /\ \/ slots.current # NoInstance \/ slots.next # NoInstance
            \/ IsAvailable(insts, slots.old1) \/ IsAvailable(insts, slots.old2)
         => OneMissing(pool.slots.current, pool.slots.next, pool.slots.old1,
                       pool.slots.old2)
  <2>1. CASE found
    <3>1. InHand = NoInstance /\ InUse = slots.current
      BY <2>1 DEF IInv, CallInv, InHand, InUse
    <3>2. pool.slots = slots /\ pool.instances = insts
      BY <2>1
    <3>. HIDE DEF pool
    <3>3. QED  BY <1>2, <3>1, <3>2, ThinnedByNothing
  <2>2. CASE ~ found
    <3>1. InHand = call.next /\ InUse = call.next
      BY <2>2 DEF InHand, InUse
    <3>2. pool = MovedToOldSlot([slots |-> slots, instances |-> insts], call.next)
      BY <2>2
    <3>. HIDE DEF pool
    <3>3. Moved(slots, insts, call.next, pool)
      BY <1>2, <3>1, <3>2, MovedToOldSlotMoves
    <3>4. /\ OneMissing(InUse, slots.next, slots.old1, slots.old2)
          /\ \/ slots.next # NoInstance
             \/ IsAvailable(insts, slots.old1) \/ IsAvailable(insts, slots.old2)
          => NoInstance \notin {pool.slots.next, pool.slots.old1, pool.slots.old2}
      BY <3>1, <3>3 DEF Moved
    <3>5. QED  BY <2>2, <3>3, <3>4 DEF Moved, OneMissing
  <2>3. QED  BY <2>1, <2>2
<1>. HIDE DEF pool
<1>4. IsPool(pool.instances)
  BY <1>3 DEF Thinned
<1>5. Ended(pool.instances, instances', call.emitter)
  BY <1>1, <1>4, AfterStoppedEnds
<1>6. Managed(slots', instances', NoInstance)
  BY <1>1, <1>3, <1>4, AfterStoppedStaysManaged
<1>7. KeptInstances(insts, instances')
  <2>1. /\ IsPool(instances') /\ DOMAIN instances' \subseteq DOMAIN pool.instances
        /\ DOMAIN pool.instances \subseteq DOMAIN insts
    BY <1>3, <1>5 DEF Ended, Thinned
  <2>2. ASSUME NEW j \in DOMAIN insts \ DOMAIN instances'
        PROVE  j = call.emitter \/ insts[j].backend = "Stopped"
    BY <1>3, <1>5 DEF Ended, Thinned
  <2>3. ASSUME NEW j \in DOMAIN instances'
        PROVE  /\ instances'[j].track = insts[j].track
               /\ instances'[j].failed = insts[j].failed
               /\ instances'[j].backend = insts[j].backend
               /\ instances'[j].stopping = insts[j].stopping
               /\ j # call.emitter => instances'[j].available = insts[j].available
               /\ j = call.emitter => instances'[j].available
    <3>1. SameTrack(pool.instances[j], insts[j])
      BY <1>3, <2>1 DEF Thinned
    <3>2. QED  BY <1>5, <3>1 DEF Ended, SameTrack
  <2>4. QED  BY <2>1, <2>2, <2>3 DEF KeptInstances
<1>8. QED  BY <1>1, <1>3, <1>6, <1>7

(* insts: what was playing has been stopped, or told to stop, or goes on.  *)
LEMMA FinishKeepsInv ==
    ASSUME IInv, call.phase = "finish", NEW old, old = call.oldCurrent, NEW id,
           NEW insts, IsPool(insts), Managed(slots, insts, InHand),
           DOMAIN insts \subseteq DOMAIN instances,
           \A j \in DOMAIN instances \ {old} : j \in DOMAIN insts /\ insts[j] = instances[j],
           old \in DOMAIN insts =>
              /\ insts[old].track = instances[old].track
              /\ insts[old].failed = instances[old].failed
              /\ instances[old].available => insts[old].available
              /\ insts[old].backend # "Stopped" =>
                    insts[old].backend = instances[old].backend /\ ~ insts[old].available
              /\ insts[old].stopping => instances[old].stopping \/ Running(old),
           old \in DOMAIN instances /\ Running(old) =>
              \/ old \in DOMAIN insts /\ insts[old].backend = instances[old].backend
              \/ id = instances[old].track /\ Reported(id)',
           syncStop /\ errors = 0 /\ MustStopOld /\ old \in DOMAIN insts =>
              insts[old].available,
           FinishPool(insts, slots.current # NoInstance),
           call' = Idle, UNCHANGED <<startedTracks, errors, syncStop>>,
           state' \in {"Stopped", "Playing", "Paused"},
           state' = "Stopped" => slots.current = NoInstance,
           HistoryKept, historyOrder' \in Seq(Nat \ {NoQueueId}),
           pendingHistory' \in SUBSET Nat
    PROVE  IInv'
<1>1. /\ slots' \in Slots /\ slots'.current = slots.current
      /\ KeptInstances(insts, instances') /\ Managed(slots', instances', NoInstance)
  BY PoolIsFinished
<1>2. Idle \in Calls
  BY DEF Idle, Calls, NoQueueId, Kinds, NoInstance
<1>3. /\ call'.phase = "idle" /\ call'.next = NoInstance /\ call'.oldCurrent = NoInstance
      /\ call'.emitter = NoInstance /\ call'.entry.queueID = NoQueueId
  BY DEF Idle
<1>4. /\ NoInstance \notin DOMAIN instances /\ DOMAIN instances' \subseteq DOMAIN insts
      /\ call.emitter \in {NoInstance, old}
  BY <1>1, PlayerConstants DEF IInv, TypeInv, IsPool, CallInv, NoInstance, KeptInstances
<1>5. ASSUME NEW j \in DOMAIN instances'
      PROVE  /\ j \in DOMAIN instances /\ j \in DOMAIN insts
             /\ instances'[j].track = instances[j].track
             /\ instances'[j].failed = instances[j].failed
             /\ instances'[j].stopping => instances[j].stopping \/ Running(j)
             /\ instances'[j].backend # "Stopped" =>
                   instances'[j].backend = instances[j].backend /\ Running(j)
             /\ instances'[j].available => instances'[j].backend = "Stopped"
             /\ j # old => /\ instances'[j].backend = instances[j].backend
                           /\ instances'[j].available = instances[j].available
  <2>1. /\ j \in DOMAIN instances /\ j \in DOMAIN insts
        /\ instances'[j].track = insts[j].track /\ instances'[j].failed = insts[j].failed
        /\ instances'[j].backend = insts[j].backend
        /\ instances'[j].stopping = insts[j].stopping
        /\ j # call.emitter => instances'[j].available = insts[j].available
    BY <1>1 DEF KeptInstances
  <2>2. /\ instances[j].available => ~ Running(j)
        /\ j = call.emitter => ~ Running(j)
    BY <2>1 DEF IInv, InstanceInv
  <2>3. CASE j = old
    BY <2>1, <2>2, <2>3 DEF Running
  <2>4. CASE j # old
    <3>1. insts[j] = instances[j] /\ j # call.emitter
      BY <1>4, <2>1, <2>4
    <3>2. QED  BY <2>1, <2>2, <2>4, <3>1 DEF Running
  <2>5. QED  BY <2>3, <2>4
<1>6. ASSUME NEW j \in DOMAIN instances, Running(j)
      PROVE  \/ j = old /\ instances[j].track = id /\ Reported(id)'
             \/ /\ j \in DOMAIN instances' /\ Running(j)'
                /\ instances'[j].track = instances[j].track
  <2>1. j # call.emitter
    BY <1>6 DEF IInv, InstanceInv
  <2>2. \/ j = old /\ instances[j].track = id /\ Reported(id)'
        \/ j \in DOMAIN insts /\ insts[j].backend = instances[j].backend
    BY <1>6
  <2>3. ASSUME j \in DOMAIN insts, insts[j].backend = instances[j].backend
        PROVE  /\ j \in DOMAIN instances' /\ Running(j)'
               /\ instances'[j].track = instances[j].track
    <3>1. insts[j].backend # "Stopped"
      BY <1>6, <2>3 DEF Running
    <3>2. j \in DOMAIN instances'
      BY <1>1, <2>1, <2>3, <3>1 DEF KeptInstances
    <3>3. QED  BY <1>1, <1>5, <3>1, <3>2 DEF KeptInstances, Running
  <2>4. QED  BY <2>2, <2>3
<1>7. TypeInv'
  BY <1>1, <1>2 DEF IInv, TypeInv, HistoryKept, KeptInstances
<1>8. CallInv'
  BY <1>3 DEF CallInv
<1>9. PoolInv'
  <2>1. InHand' = NoInstance
    BY <1>3 DEF InHand
  <2>2. QED  BY <1>1, <2>1 DEF PoolInv
<1>10. InstanceInv'
  <2>1. ASSUME NEW j \in DOMAIN instances', instances'[j].failed
        PROVE  \A t : t = instances'[j].track => Reported(t)'
    BY <1>5, <2>1, FailedStayReported
  <2>2. ASSUME NEW j \in DOMAIN instances'
        PROVE  /\ instances'[j].available => ~ Running(j)'
               /\ instances'[j].track = NoQueueId =>
                     ~ Running(j)' /\ ~ instances'[j].stopping /\ j # slots'.current
               /\ j # call'.emitter
    BY <1>1, <1>3, <1>4, <1>5 DEF IInv, InstanceInv, Running
  <2>3. QED  BY <2>1, <2>2 DEF InstanceInv, Running, Reported
<1>11. IdInv'
  <2>1. 0 \in Nat /\ 0 < nextQueueID
    BY DEF IInv, TypeInv, QueueInv, QueueTypeOK, NoQueueId
  <2>2. QED  BY <1>3, <1>5, <2>1, IdsStay DEF NoQueueId
<1>12. TrackInv'
  <2>1. UNCHANGED startedTracks
    OBVIOUS
  <2>2. QED  BY ONLY IInv, HistoryKept, <1>6, <2>1, TracksStay
<1>13. SyncInv'
  <2>. SUFFICES ASSUME syncStop' /\ errors' = 0
                PROVE  /\ state' = "Stopped" => slots'.current = NoInstance
                       /\ OneMissing(InUse', slots'.next, slots'.old1, slots'.old2)
                       /\ \A j \in DOMAIN instances' :
                             /\ ~ instances'[j].failed
                             /\ ~ instances'[j].available =>
                                   Running(j)' /\ j = slots'.current
    BY <1>3, <1>4, <1>5 DEF SyncInv, AtRest
  <2>1. InUse' = slots'.current
    BY <1>3 DEF InUse
  <2>2. OneMissing(InUse, slots.next, slots.old1, slots.old2)
    BY DEF IInv, SyncInv
  <2>3. \A j \in DOMAIN instances :
           /\ ~ instances[j].failed
           /\ ~ instances[j].available =>
                 /\ Running(j) \/ j = call.emitter
                 /\ j \in {slots.current, old}
                 /\ j = old => j = call.emitter \/ call.stopCurrent
    BY DEF IInv, SyncInv
  <2>4. \/ slots.current # NoInstance \/ slots.next # NoInstance
        \/ IsAvailable(insts, slots.old1) \/ IsAvailable(insts, slots.old2)
    <3>1. SUFFICES ASSUME slots.current = NoInstance, slots.next = NoInstance
                   PROVE  IsAvailable(insts, slots.old1) \/ IsAvailable(insts, slots.old2)
      OBVIOUS
    <3>2. slots.old1 # NoInstance /\ slots.old2 # NoInstance
      BY <2>2, <3>1 DEF OneMissing
    <3>3. /\ slots.old1 \in DOMAIN instances /\ slots.old2 \in DOMAIN instances
          /\ slots.old1 # slots.old2
      BY <3>2 DEF Managed
    <3>4. ASSUME NEW j \in DOMAIN instances, j # old  PROVE insts[j].available
      <4>1. instances[j].available
        BY <1>4, <2>3, <3>1, <3>4
      <4>2. QED  BY <3>4, <4>1
    <3>5. QED  BY <3>2, <3>3, <3>4 DEF IsAvailable
  <2>5. OneMissing(slots'.current, slots'.next, slots'.old1, slots'.old2)
    BY <2>2, <2>4, PoolIsFinished, Zenon
  <2>6. ASSUME NEW j \in DOMAIN instances', ~ instances'[j].available
        PROVE  Running(j)' /\ j = slots'.current
    <3>1. j # call.emitter /\ instances'[j].available = insts[j].available
      BY <1>1, <2>6 DEF KeptInstances
    <3>2. j # old
      <4>1. SUFFICES ASSUME j = old PROVE FALSE
        OBVIOUS
      <4>2. ~ MustStopOld
        BY <1>5, <2>6, <3>1, <4>1
      <4>3. ~ Running(old) \/ ~ call.stopCurrent
        BY <1>4, <1>5, <4>1, <4>2 DEF MustStopOld, Running
      <4>4. instances[old].available
        BY <1>5, <2>3, <3>1, <4>1, <4>3
      <4>5. QED  BY <1>5, <2>6, <3>1, <4>1, <4>4
    <3>3. QED  BY <1>1, <1>5, <2>3, <2>6, <3>1, <3>2 DEF Running
  <2>7. QED  BY <1>1, <1>5, <2>1, <2>3, <2>5, <2>6
<1>14. QED
  BY <1>7, <1>8, <1>9, <1>10, <1>11, <1>12, <1>13 DEF IInv


LEMMA FinishStartNextKeepsInv ==
    ASSUME IInv, FinishStartNext
    PROVE  IInv'
<1>1. PICK old : old = call.oldCurrent
  OBVIOUS
<1>2. PICK id : id = instances[old].track
  OBVIOUS
<1>. DEFINE found == slots.current # NoInstance
            stopped == [instances EXCEPT ![old].backend = "Stopped"]
            told == [instances EXCEPT ![old].stopping = TRUE]
<1>3. /\ call.phase = "finish" /\ call' = Idle
      /\ UNCHANGED <<startedTracks, errors, syncStop>>
      /\ state' = IF ~ found THEN "Stopped"
                  ELSE IF call.playNext THEN "Playing" ELSE "Paused"
      /\ \/ /\ MustStopOld /\ FinishPool(AfterStopped(stopped, old), found)
            /\ AddToPlayerHistory(historyOrder, id)
         \/ /\ MustStopOld /\ ~ syncStop
            /\ FinishPool(told, found) /\ NoHistoryChange
         \/ ~ MustStopOld /\ FinishPool(instances, found) /\ NoHistoryChange
  BY <1>1, <1>2 DEF FinishStartNext
<1>4. /\ state' \in {"Stopped", "Playing", "Paused"}
      /\ state' = "Stopped" => slots.current = NoInstance
  BY <1>3
<1>5. IsPool(instances) /\ Managed(slots, instances, InHand)
  BY DEF IInv, TypeInv, PoolInv
<1>6. ASSUME MustStopOld
      PROVE  /\ old \in DOMAIN instances /\ Running(old) /\ instances[old] \in InstanceState
             /\ ~ instances[old].available /\ id \in Nat \ {NoQueueId}
             /\ old # NoInstance /\ old # slots.next
  <2>1. old \in DOMAIN instances /\ Running(old) /\ old # NoInstance
    BY <1>1, <1>6 DEF MustStopOld, Running, IInv, CallInv
  <2>2. instances[old] \in InstanceState /\ ~ instances[old].available /\ id # NoQueueId
    BY <1>2, <1>5, <2>1 DEF IsPool, IInv, InstanceInv
  <2>3. old # slots.next
    BY <1>5, <2>1, <2>2 DEF Managed
  <2>4. QED  BY <1>2, <2>1, <2>2, <2>3 DEF InstanceState
<1>7. ASSUME NoHistoryChange
      PROVE  /\ HistoryKept
             /\ historyOrder' \in Seq(Nat \ {NoQueueId}) /\ pendingHistory' \in SUBSET Nat
  <2>1. UNCHANGED <<historyOrder, pendingHistory>> /\ UNCHANGED queueVars
    BY <1>7 DEF NoHistoryChange, orderVars
  <2>2. QED  BY <2>1, IInvGivesHistory DEF IInv, TypeInv
<1>8. CASE /\ MustStopOld /\ FinishPool(AfterStopped(stopped, old), found)
           /\ AddToPlayerHistory(historyOrder, id)
  <2>. DEFINE x == [instances[old] EXCEPT !.backend = "Stopped"]
  <2>1. /\ x \in InstanceState /\ x.track = id /\ x.failed = instances[old].failed
        /\ x.available = instances[old].available /\ x.backend = "Stopped"
        /\ x.stopping = instances[old].stopping
        /\ x.deleteAfterStopped = instances[old].deleteAfterStopped
    BY <1>2, <1>6, <1>8, Zenon DEF InstanceState
  <2>2. stopped = [instances EXCEPT ![old] = x]
    BY <1>5, <1>6, <1>8, Zenon DEF IsPool
  <2>. HIDE DEF x
  <2>3. Updated(instances, stopped, old) /\ stopped[old] = x
    BY <1>5, <1>6, <1>8, <2>1, <2>2, UpdatedByRecord
  <2>. HIDE DEF stopped
  <2>4. /\ IsPool(stopped) /\ DOMAIN stopped = DOMAIN instances
        /\ \A j \in DOMAIN instances : j # old => stopped[j] = instances[j]
    BY <2>3 DEF Updated
  <2>5. Managed(slots, stopped, InHand)
    BY <1>5, <1>6, <1>8, <2>1, <2>3, UpdatedStaysManaged
  <2>6. PICK insts : insts = AfterStopped(stopped, old)
    OBVIOUS
  <2>7. Managed(slots, insts, InHand)
    BY <2>4, <2>5, <2>6, AfterStoppedStaysManaged
  <2>8. Ended(stopped, insts, old)
    BY <2>4, <2>6, AfterStoppedEnds
  <2>9. /\ IsPool(insts) /\ DOMAIN insts \subseteq DOMAIN instances
        /\ \A j \in DOMAIN instances \ {old} : j \in DOMAIN insts /\ insts[j] = instances[j]
        /\ old \in DOMAIN insts =>
              /\ insts[old].track = id /\ insts[old].failed = instances[old].failed
              /\ insts[old].backend = "Stopped" /\ insts[old].available
              /\ insts[old].stopping = instances[old].stopping
    BY <2>1, <2>3, <2>4, <2>8 DEF Ended
  <2>10. historyOrder \in Seq(Nat \ {NoQueueId}) /\ id \in Nat \ {NoQueueId}
    BY <1>6, <1>8 DEF IInv, TypeInv
  <2>11. /\ HistoryKept /\ Reported(id)'
         /\ historyOrder' \in Seq(Nat \ {NoQueueId}) /\ pendingHistory' \in SUBSET Nat
    BY <1>8, <2>10, ReportKeepsHistory
  <2>12. FinishPool(insts, found)
    BY <1>8, <2>6
  <2>13. QED
    BY ONLY IInv, <1>1, <1>2, <1>3, <1>4, <2>7, <2>9, <2>11, <2>12, FinishKeepsInv
<1>9. CASE MustStopOld /\ ~ syncStop /\ FinishPool(told, found) /\ NoHistoryChange
  <2>. DEFINE x == [instances[old] EXCEPT !.stopping = TRUE]
  <2>1. /\ x \in InstanceState /\ x.track = id /\ x.failed = instances[old].failed
        /\ x.available = instances[old].available
        /\ x.backend = instances[old].backend
        /\ x.deleteAfterStopped = instances[old].deleteAfterStopped
    BY <1>2, <1>6, <1>9, Zenon DEF InstanceState
  <2>2. told = [instances EXCEPT ![old] = x]
    BY <1>5, <1>6, <1>9, Zenon DEF IsPool
  <2>. HIDE DEF x
  <2>3. PICK insts : insts = told
    OBVIOUS
  <2>4. Updated(instances, insts, old) /\ insts[old] = x
    BY <1>5, <1>6, <1>9, <2>1, <2>2, <2>3, UpdatedByRecord
  <2>5. Managed(slots, insts, InHand)
    BY <1>5, <1>6, <1>9, <2>1, <2>4, UpdatedStaysManaged
  <2>6. FinishPool(insts, found)
    BY <1>9, <2>3
  <2>7. /\ IsPool(insts) /\ DOMAIN insts = DOMAIN instances
        /\ \A j \in DOMAIN instances \ {old} : insts[j] = instances[j]
    BY <2>4 DEF Updated
  <2>8. /\ insts[old].track = id /\ insts[old].failed = instances[old].failed
        /\ ~ insts[old].available /\ insts[old].backend = instances[old].backend
    BY <1>6, <1>9, <2>1, <2>4
  <2>9. QED
    BY ONLY IInv, <1>1, <1>2, <1>3, <1>4, <1>6, <1>7, <1>9, <2>5, <2>6, <2>7, <2>8,
            FinishKeepsInv
<1>10. CASE ~ MustStopOld /\ FinishPool(instances, found) /\ NoHistoryChange
  <2>1. \A j \in DOMAIN instances : instances[j].available => instances[j].backend = "Stopped"
    BY DEF IInv, InstanceInv, Running
  <2>2. QED
    BY ONLY IInv, <1>1, <1>3, <1>4, <1>5, <1>7, <1>10, <2>1, FinishKeepsInv
<1>11. QED  BY <1>3, <1>8, <1>9, <1>10

-----------------------------------------------------------------------------
(* The theorems.                                                           *)

LEMMA PlayerInitInv ==
    ASSUME PlayerInit
    PROVE  IInv
<1>. USE DEF NoInstance, NoQueueId
<1>1. /\ QueueInv /\ queue = << >> /\ nextQueueID = 1
      /\ state = "Stopped" /\ startedTracks = {} /\ historyOrder = << >>
      /\ pendingHistory = {} /\ call = Idle /\ errors = 0 /\ syncStop \in BOOLEAN
      /\ slots = [current |-> 0, next |-> 1, old1 |-> 2, old2 |-> 3]
      /\ instances = [i \in {1, 2, 3} |-> NewInstance]
  BY QueueInitInv DEF PlayerInit, QueueInit
<1>2. Idle \in Calls
  BY DEF Idle, Calls, Kinds
<1>3. /\ Idle.phase = "idle" /\ Idle.next = 0 /\ Idle.oldCurrent = 0
      /\ Idle.emitter = 0 /\ Idle.entry.queueID = 0
  BY DEF Idle
<1>4. /\ NewInstance \in InstanceState /\ NewInstance.available
      /\ NewInstance.backend = "Stopped" /\ ~ NewInstance.failed
      /\ NewInstance.track = 0 /\ ~ NewInstance.stopping
      /\ ~ NewInstance.deleteAfterStopped
  BY DEF NewInstance, InstanceState
<1>5. /\ DOMAIN instances = {1, 2, 3} /\ \A i \in {1, 2, 3} : instances[i] = NewInstance
      /\ slots.current = 0 /\ slots.next = 1 /\ slots.old1 = 2 /\ slots.old2 = 3
  BY <1>1
<1>6. IsPool(instances)
  BY <1>1, <1>4, <1>5, PlayerConstants DEF IsPool
<1>7. slots \in Slots
  BY <1>1, PlayerConstants DEF Slots
<1>8. TypeInv
  <2>1. << >> \in Seq(Nat \ {0})
    BY EmptySeq
  <2>2. QED  BY <1>1, <1>2, <1>6, <1>7, <2>1 DEF TypeInv
<1>9. CallInv
  BY <1>1, <1>3, <1>5 DEF CallInv
<1>10. InHand = 0
  BY <1>1, <1>3, <1>5 DEF InHand
<1>11. PoolInv
  BY <1>4, <1>5, <1>10 DEF PoolInv, Managed
<1>12. InstanceInv
  BY <1>1, <1>3, <1>4, <1>5 DEF InstanceInv, Running
<1>13. IdInv
  <2>1. Len(queue) = 0
    BY <1>1, EmptySeq
  <2>2. QED  BY <1>1, <1>3, <1>4, <1>5, <2>1 DEF IdInv
<1>14. TrackInv
  BY <1>1 DEF TrackInv
<1>15. SyncInv
  BY <1>1, <1>3, <1>4, <1>5 DEF SyncInv, AtRest, InUse, OneMissing
<1>16. QED  BY <1>8, <1>9, <1>11, <1>12, <1>13, <1>14, <1>15 DEF IInv

LEMMA PlayerNextInv ==
    ASSUME IInv, [PlayerNext]_allVars
    PROVE  IInv'
<1>1. CASE StartNextStep
  BY <1>1, SearchEndsKeepsInv, TakeFromQueueKeepsInv, TryTrackKeepsInv,
     FinishStartNextKeepsInv DEF StartNextStep
<1>2. CASE NoInstanceForTrack
  BY <1>2, NoInstanceForTrackKeepsInv
<1>3. CASE PrepareForFirstTrackFromQueue
  BY <1>3, PrepareKeepsInv
<1>4. CASE Play \/ Resume \/ Pause \/ Skip
  BY <1>4, PlayKeepsInv, ResumeKeepsInv, PauseKeepsInv
<1>5. CASE QueueChanges
  BY <1>5, ChangeQueueKeepsInv
<1>6. ASSUME NEW i \in DOMAIN instances,
             TrackFinished(i) \/ PlaybackError(i) \/ StoppedEarly(i)
      PROVE  IInv'
  BY <1>6, TrackFinishedKeepsInv, PlaybackErrorKeepsInv, StoppedEarlyKeepsInv
<1>7. CASE UNCHANGED allVars
  <2>1. /\ UNCHANGED <<poolVars, trackVars, orderVars, call, syncStop>>
        /\ UNCHANGED queueVars
    BY <1>7 DEF allVars, playerVars
  <2>2. HistoryKept
    BY <2>1, IInvGivesHistory DEF orderVars
  <2>3. QED
    BY <2>1, <2>2, EntryIdIsOld, PoolStaysKeepsInv DEF IInv, TypeInv, CallInv
<1>8. QED  BY <1>1, <1>2, <1>3, <1>4, <1>5, <1>6, <1>7 DEF PlayerNext

(* The invariant of the player: where each instance is, which of them run  *)
(* and for which track, and where startNext() stands.                      *)
THEOREM PlayerInvariant == PlayerSpec => []IInv
<1>1. PlayerInit => IInv
  BY PlayerInitInv
<1>2. IInv /\ [PlayerNext]_allVars => IInv'
  BY PlayerNextInv
<1>3. QED  BY <1>1, <1>2, PTL DEF PlayerSpec

(* No instance is lost, held twice or used after its end, and the one to   *)
(* be prepared can take a track: for any number of instances.              *)
THEOREM InstancesStayManaged == PlayerSpec => []InstancesAreManaged
<1>1. IInv => InstancesAreManaged
  <2>. SUFFICES ASSUME IInv PROVE InstancesAreManaged
    OBVIOUS
  <2>1. Managed(slots, instances, InHand) /\ (InHand # NoInstance => instances[InHand].available)
    BY DEF IInv, PoolInv
  <2>2. Holders = <<slots.current, slots.next, slots.old1, slots.old2, InHand>>
    BY DEF Holders, InHand
  <2>3. DOMAIN Holders = 1..5
    BY <2>2
  <2>4. /\ Holders[1] = slots.current /\ Holders[2] = slots.next
        /\ Holders[3] = slots.old1 /\ Holders[4] = slots.old2 /\ Holders[5] = InHand
    BY <2>2
  <2>5. ToSet(Holders) = {slots.current, slots.next, slots.old1, slots.old2, InHand}
    <3>1. \A m \in DOMAIN Holders : m = 1 \/ m = 2 \/ m = 3 \/ m = 4 \/ m = 5
      BY <2>3
    <3>2. /\ 1 \in DOMAIN Holders /\ 2 \in DOMAIN Holders /\ 3 \in DOMAIN Holders
          /\ 4 \in DOMAIN Holders /\ 5 \in DOMAIN Holders
      BY <2>3
    <3>. HIDE DEF Holders
    <3>3. QED  BY <2>4, <3>1, <3>2 DEF ToSet
  <2>6. ASSUME NEW m \in 1..5, NEW n \in 1..5, m # n, Holders[m] # NoInstance
        PROVE  Holders[m] # Holders[n]
    BY <2>1, <2>4, <2>6 DEF Managed
  <2>7. \A i \in DOMAIN instances :
           instances[i].deleteAfterStopped <=> i \notin ToSet(Holders)
    BY <2>1, <2>5 DEF Managed
  <2>8. ASSUME NEW i \in {slots.next, call.next} \ {NoInstance, slots.current}
        PROVE  instances[i].available
    BY <2>1 DEF Managed, InHand
  <2>9. QED  BY <2>6, <2>7, <2>8 DEF InstancesAreManaged
<1>2. QED  BY <1>1, PlayerInvariant, PTL

(* Every track that was started has been reported, waits to be, or is with *)
(* an instance that will report it.                                        *)
THEOREM StartedTracksAreReported == PlayerSpec => []StartedTracksAreNotLost
<1>1. IInv => StartedTracksAreNotLost
  BY DEF IInv, TrackInv, StartedTracksAreNotLost, Reported, WillReport
<1>2. QED  BY <1>1, PlayerInvariant, PTL

(* startNext() finds an instance for its track as long as stops are        *)
(* reported right away and no track has failed.                            *)
THEOREM StartNextHasAnInstance == PlayerSpec => []AlwaysAnInstance
<1>1. IInv => AlwaysAnInstance
  BY DEF IInv, SyncInv, AlwaysAnInstance
<1>2. QED  BY <1>1, PlayerInvariant, PTL

-----------------------------------------------------------------------------
(* The preloader.                                                          *)

(* Induction over the iterations of a loop.                                *)
LEMMA SetInduction ==
    ASSUME NEW G \in SUBSET Nat, 0 \in G, \A m \in G : m + 1 \in G
    PROVE  Nat \subseteq G
<1>. DEFINE Others == Nat \ G
<1>1. SUFFICES ASSUME Others # {} PROVE FALSE
  OBVIOUS
<1>2. PICK n \in Others : \A m \in Others : n <= m
  <2>1. Others \in SUBSET Nat
    OBVIOUS
  <2>. HIDE DEF Others
  <2>. QED  BY <1>1, <2>1, MinimumExists
<1>3. n - 1 \in Nat /\ ~ n <= n - 1 /\ (n - 1) + 1 = n
  BY <1>2
<1>4. n - 1 \in G
  BY <1>2, <1>3
<1>. QED  BY <1>2, <1>3, <1>4

LEMMA LoopStays ==
    ASSUME NEW n \in Nat, NEW S, NEW f, f[0] \in S,
           \A k \in 1..n : f[k - 1] \in S => f[k] \in S
    PROVE  f[n] \in S
<1>. DEFINE G == {m \in Nat : m <= n => f[m] \in S}
<1>1. G \in SUBSET Nat /\ 0 \in G
  OBVIOUS
<1>2. ASSUME NEW m \in G  PROVE m + 1 \in G
  <2>. SUFFICES ASSUME m + 1 <= n PROVE f[m + 1] \in S
    OBVIOUS
  <2>1. m \in Nat /\ m + 1 \in 1..n /\ f[m] \in S /\ (m + 1) - 1 = m
    BY <1>2
  <2>. QED  BY <2>1
<1>. HIDE DEF G
<1>3. n \in G
  BY <1>1, <1>2, SetInduction
<1>. QED  BY <1>3 DEF G

(* What the first n iterations of a loop lead to, and what they start from.*)
IsRun(f, n) == f = [k \in 0..n |-> f[k]]

(* After m iterations f, and with one more, which leads to e, g.           *)
OneMore(f, m, e, g) ==
    IsRun(g, m + 1) /\ (\A k \in 0..m : g[k] = f[k]) /\ g[m + 1] = e

LEMMA LongerRun ==
    ASSUME NEW m \in Nat, NEW f, NEW e
    PROVE  \E g : OneMore(f, m, e, g)
<1>. DEFINE g == [k \in 0..m + 1 |-> IF k = m + 1 THEN e ELSE f[k]]
<1>1. g = [k \in 0..m + 1 |-> g[k]]
  OBVIOUS
<1>2. \A k \in 0..m : k \in 0..m + 1 /\ k # m + 1
  OBVIOUS
<1>3. (\A k \in 0..m : g[k] = f[k]) /\ g[m + 1] = e
  BY <1>2
<1>4. OneMore(f, m, e, g)
  BY <1>1, <1>3 DEF IsRun, OneMore
<1>. QED  BY <1>4

(* The loops of the preloader do what is written in their bodies: a list   *)
(* of jobs to start, a list of what is to be deleted, the entries that are *)
(* checked, and the signals that are read.                                 *)
JobsStarted(n, list) == Iterate(StartNextJob, n, list)

JobSteps(f, n, list) ==
    f[0] = list /\ \A k \in 1..n : f[k] = StartNextJob(f[k - 1])

Expired(n, list) == Iterate(ExpireNext, n, list)

ExpirySteps(f, n, list) ==
    f[0] = list /\ \A k \in 1..n : f[k] = ExpireNext(f[k - 1])

CheckSteps(f, list, entries) ==
    /\ f[0] = list
    /\ \A k \in 1..Len(entries) : f[k] = CheckToPreload(f[k - 1], entries[k])

AfterSignal(ids, signal) ==
    IF IsRemoval(signal) THEN Append(ids, signal.queueID) ELSE ids

RemovalSteps(f, ids, sigs) ==
    /\ f[0] = ids
    /\ \A k \in 1..Len(sigs) : f[k] = AfterSignal(f[k - 1], sigs[k])

LEMMA JobLoop ==
    ASSUME NEW n \in Nat, NEW list
    PROVE  \E f : JobsStarted(n, list) = f[n] /\ JobSteps(f, n, list)
<1>. DEFINE Step(x, k) == StartNextJob(x)
            Follows(i, h) == /\ IsRun(h, i)
                             /\ h[0] = list
                             /\ \A k \in 1..i : h[k] = Step(h[k - 1], k)
            Runs(h) == h = [k \in 0..n |-> IF k = 0 THEN list
                                             ELSE Step(h[k - 1], k)]
            chosen == CHOOSE h : Runs(h)
            G == {i \in Nat : \E h : Follows(i, h)}
<1>1. JobsStarted(n, list) = chosen[n]
  BY DEF JobsStarted, Iterate
<1>. HIDE DEF Step, chosen
<1>2. 0 \in G
  <2>1. \E z : z = [k \in 0..0 |-> list]
    OBVIOUS
  <2>2. PICK z : z = [k \in 0..0 |-> list]
    BY <2>1
  <2>3. z = [k \in 0..0 |-> z[k]] /\ z[0] = list /\ 1..0 = {}
    BY <2>2
  <2>4. Follows(0, z)
    BY <2>3 DEF IsRun
  <2>. HIDE DEF Follows
  <2>. QED  BY <2>4
<1>3. ASSUME NEW m \in G  PROVE m + 1 \in G
  <2>1. m \in Nat
    BY <1>3
  <2>2. PICK f : Follows(m, f)
    BY <1>3
  <2>7. PICK e : e = Step(f[m], m + 1)
    OBVIOUS
  <2>3. PICK g : OneMore(f, m, e, g)
    BY <2>1, LongerRun
  <2>4. ASSUME NEW k \in 1..m + 1  PROVE g[k] = Step(g[k - 1], k)
    <3>1. CASE k \in 1..m
      <4>1. k \in 0..m /\ k - 1 \in 0..m
        BY <2>1, <3>1
      <4>. QED  BY <2>2, <2>3, <3>1, <4>1 DEF OneMore
    <3>2. CASE k = m + 1
      <4>1. k - 1 = m /\ m \in 0..m
        BY <2>1, <3>2
      <4>. QED  BY <2>3, <3>2, <4>1, <2>7 DEF OneMore
    <3>. QED  BY <2>1, <3>1, <3>2
  <2>5. g[0] = list
    <3>1. 0 \in 0..m
      BY <2>1
    <3>. QED  BY <2>2, <2>3, <3>1 DEF OneMore
  <2>6. Follows(m + 1, g)
    BY <2>3, <2>4, <2>5 DEF OneMore
  <2>. HIDE DEF Follows
  <2>. QED  BY <2>1, <2>6
<1>4. n \in G
  <2>. HIDE DEF G
  <2>1. G \in SUBSET Nat
    BY DEF G
  <2>. QED  BY <1>2, <1>3, <2>1, SetInduction
<1>5. \E f : Runs(f)
  <2>1. PICK f : Follows(n, f)
    BY <1>4
  <2>2. ASSUME NEW k \in 0..n
        PROVE  f[k] = IF k = 0 THEN list ELSE Step(f[k - 1], k)
    <3>1. k = 0 \/ k \in 1..n
      OBVIOUS
    <3>. QED  BY <2>1, <3>1
  <2>3. Runs(f)
    BY <2>1, <2>2 DEF IsRun
  <2>. QED  BY <2>3
<1>6. Runs(chosen)
  <2>. HIDE DEF Runs
  <2>. QED  BY <1>5 DEF chosen
<1>7. chosen[0] = list /\ \A k \in 1..n : chosen[k] = Step(chosen[k - 1], k)
  <2>1. 0 \in 0..n /\ \A k \in 1..n : k \in 0..n /\ k # 0
    OBVIOUS
  <2>. QED  BY <1>6, <2>1
<1>8. JobSteps(chosen, n, list)
  BY <1>7 DEF JobSteps, Step
<1>. QED  BY <1>1, <1>8

LEMMA ExpiryLoop ==
    ASSUME NEW n \in Nat, NEW list
    PROVE  \E f : Expired(n, list) = f[n] /\ ExpirySteps(f, n, list)
<1>. DEFINE Step(x, k) == ExpireNext(x)
            Follows(i, h) == /\ IsRun(h, i)
                             /\ h[0] = list
                             /\ \A k \in 1..i : h[k] = Step(h[k - 1], k)
            Runs(h) == h = [k \in 0..n |-> IF k = 0 THEN list
                                             ELSE Step(h[k - 1], k)]
            chosen == CHOOSE h : Runs(h)
            G == {i \in Nat : \E h : Follows(i, h)}
<1>1. Expired(n, list) = chosen[n]
  BY DEF Expired, Iterate
<1>. HIDE DEF Step, chosen
<1>2. 0 \in G
  <2>1. \E z : z = [k \in 0..0 |-> list]
    OBVIOUS
  <2>2. PICK z : z = [k \in 0..0 |-> list]
    BY <2>1
  <2>3. z = [k \in 0..0 |-> z[k]] /\ z[0] = list /\ 1..0 = {}
    BY <2>2
  <2>4. Follows(0, z)
    BY <2>3 DEF IsRun
  <2>. HIDE DEF Follows
  <2>. QED  BY <2>4
<1>3. ASSUME NEW m \in G  PROVE m + 1 \in G
  <2>1. m \in Nat
    BY <1>3
  <2>2. PICK f : Follows(m, f)
    BY <1>3
  <2>7. PICK e : e = Step(f[m], m + 1)
    OBVIOUS
  <2>3. PICK g : OneMore(f, m, e, g)
    BY <2>1, LongerRun
  <2>4. ASSUME NEW k \in 1..m + 1  PROVE g[k] = Step(g[k - 1], k)
    <3>1. CASE k \in 1..m
      <4>1. k \in 0..m /\ k - 1 \in 0..m
        BY <2>1, <3>1
      <4>. QED  BY <2>2, <2>3, <3>1, <4>1 DEF OneMore
    <3>2. CASE k = m + 1
      <4>1. k - 1 = m /\ m \in 0..m
        BY <2>1, <3>2
      <4>. QED  BY <2>3, <3>2, <4>1, <2>7 DEF OneMore
    <3>. QED  BY <2>1, <3>1, <3>2
  <2>5. g[0] = list
    <3>1. 0 \in 0..m
      BY <2>1
    <3>. QED  BY <2>2, <2>3, <3>1 DEF OneMore
  <2>6. Follows(m + 1, g)
    BY <2>3, <2>4, <2>5 DEF OneMore
  <2>. HIDE DEF Follows
  <2>. QED  BY <2>1, <2>6
<1>4. n \in G
  <2>. HIDE DEF G
  <2>1. G \in SUBSET Nat
    BY DEF G
  <2>. QED  BY <1>2, <1>3, <2>1, SetInduction
<1>5. \E f : Runs(f)
  <2>1. PICK f : Follows(n, f)
    BY <1>4
  <2>2. ASSUME NEW k \in 0..n
        PROVE  f[k] = IF k = 0 THEN list ELSE Step(f[k - 1], k)
    <3>1. k = 0 \/ k \in 1..n
      OBVIOUS
    <3>. QED  BY <2>1, <3>1
  <2>3. Runs(f)
    BY <2>1, <2>2 DEF IsRun
  <2>. QED  BY <2>3
<1>6. Runs(chosen)
  <2>. HIDE DEF Runs
  <2>. QED  BY <1>5 DEF chosen
<1>7. chosen[0] = list /\ \A k \in 1..n : chosen[k] = Step(chosen[k - 1], k)
  <2>1. 0 \in 0..n /\ \A k \in 1..n : k \in 0..n /\ k # 0
    OBVIOUS
  <2>. QED  BY <1>6, <2>1
<1>8. ExpirySteps(chosen, n, list)
  BY <1>7 DEF ExpirySteps, Step
<1>. QED  BY <1>1, <1>8

LEMMA CheckLoop ==
    ASSUME NEW list, NEW entries, Len(entries) \in Nat
    PROVE  \E f : CheckAll(list, entries) = f[Len(entries)] /\ CheckSteps(f, list, entries)
<1>. DEFINE Step(x, k) == CheckToPreload(x, entries[k])
            Follows(i, h) == /\ IsRun(h, i)
                             /\ h[0] = list
                             /\ \A k \in 1..i : h[k] = Step(h[k - 1], k)
            Runs(h) == h = [k \in 0..Len(entries) |-> IF k = 0 THEN list
                                             ELSE Step(h[k - 1], k)]
            chosen == CHOOSE h : Runs(h)
            G == {i \in Nat : \E h : Follows(i, h)}
<1>1. CheckAll(list, entries) = chosen[Len(entries)]
  BY DEF CheckAll
<1>. HIDE DEF Step, chosen
<1>2. 0 \in G
  <2>1. \E z : z = [k \in 0..0 |-> list]
    OBVIOUS
  <2>2. PICK z : z = [k \in 0..0 |-> list]
    BY <2>1
  <2>3. z = [k \in 0..0 |-> z[k]] /\ z[0] = list /\ 1..0 = {}
    BY <2>2
  <2>4. Follows(0, z)
    BY <2>3 DEF IsRun
  <2>. HIDE DEF Follows
  <2>. QED  BY <2>4
<1>3. ASSUME NEW m \in G  PROVE m + 1 \in G
  <2>1. m \in Nat
    BY <1>3
  <2>2. PICK f : Follows(m, f)
    BY <1>3
  <2>7. PICK e : e = Step(f[m], m + 1)
    OBVIOUS
  <2>3. PICK g : OneMore(f, m, e, g)
    BY <2>1, LongerRun
  <2>4. ASSUME NEW k \in 1..m + 1  PROVE g[k] = Step(g[k - 1], k)
    <3>1. CASE k \in 1..m
      <4>1. k \in 0..m /\ k - 1 \in 0..m
        BY <2>1, <3>1
      <4>. QED  BY <2>2, <2>3, <3>1, <4>1 DEF OneMore
    <3>2. CASE k = m + 1
      <4>1. k - 1 = m /\ m \in 0..m
        BY <2>1, <3>2
      <4>. QED  BY <2>3, <3>2, <4>1, <2>7 DEF OneMore
    <3>. QED  BY <2>1, <3>1, <3>2
  <2>5. g[0] = list
    <3>1. 0 \in 0..m
      BY <2>1
    <3>. QED  BY <2>2, <2>3, <3>1 DEF OneMore
  <2>6. Follows(m + 1, g)
    BY <2>3, <2>4, <2>5 DEF OneMore
  <2>. HIDE DEF Follows
  <2>. QED  BY <2>1, <2>6
<1>4. Len(entries) \in G
  <2>. HIDE DEF G
  <2>1. G \in SUBSET Nat
    BY DEF G
  <2>. QED  BY <1>2, <1>3, <2>1, SetInduction
<1>5. \E f : Runs(f)
  <2>1. PICK f : Follows(Len(entries), f)
    BY <1>4
  <2>2. ASSUME NEW k \in 0..Len(entries)
        PROVE  f[k] = IF k = 0 THEN list ELSE Step(f[k - 1], k)
    <3>1. k = 0 \/ k \in 1..Len(entries)
      OBVIOUS
    <3>. QED  BY <2>1, <3>1
  <2>3. Runs(f)
    BY <2>1, <2>2 DEF IsRun
  <2>. QED  BY <2>3
<1>6. Runs(chosen)
  <2>. HIDE DEF Runs
  <2>. QED  BY <1>5 DEF chosen
<1>7. chosen[0] = list /\ \A k \in 1..Len(entries) : chosen[k] = Step(chosen[k - 1], k)
  <2>1. 0 \in 0..Len(entries) /\ \A k \in 1..Len(entries) : k \in 0..Len(entries) /\ k # 0
    OBVIOUS
  <2>. QED  BY <1>6, <2>1
<1>8. CheckSteps(chosen, list, entries)
  BY <1>7 DEF CheckSteps, Step
<1>. QED  BY <1>1, <1>8

LEMMA RemovalLoop ==
    ASSUME NEW ids, NEW sigs, Len(sigs) \in Nat
    PROVE  \E f : WithRemovals(ids, sigs) = f[Len(sigs)] /\ RemovalSteps(f, ids, sigs)
<1>. DEFINE Step(x, k) == AfterSignal(x, sigs[k])
            Follows(i, h) == /\ IsRun(h, i)
                             /\ h[0] = ids
                             /\ \A k \in 1..i : h[k] = Step(h[k - 1], k)
            Runs(h) == h = [k \in 0..Len(sigs) |-> IF k = 0 THEN ids
                                             ELSE Step(h[k - 1], k)]
            chosen == CHOOSE h : Runs(h)
            G == {i \in Nat : \E h : Follows(i, h)}
<1>1. WithRemovals(ids, sigs) = chosen[Len(sigs)]
  BY DEF WithRemovals, AfterSignal
<1>. HIDE DEF Step, chosen
<1>2. 0 \in G
  <2>1. \E z : z = [k \in 0..0 |-> ids]
    OBVIOUS
  <2>2. PICK z : z = [k \in 0..0 |-> ids]
    BY <2>1
  <2>3. z = [k \in 0..0 |-> z[k]] /\ z[0] = ids /\ 1..0 = {}
    BY <2>2
  <2>4. Follows(0, z)
    BY <2>3 DEF IsRun
  <2>. HIDE DEF Follows
  <2>. QED  BY <2>4
<1>3. ASSUME NEW m \in G  PROVE m + 1 \in G
  <2>1. m \in Nat
    BY <1>3
  <2>2. PICK f : Follows(m, f)
    BY <1>3
  <2>7. PICK e : e = Step(f[m], m + 1)
    OBVIOUS
  <2>3. PICK g : OneMore(f, m, e, g)
    BY <2>1, LongerRun
  <2>4. ASSUME NEW k \in 1..m + 1  PROVE g[k] = Step(g[k - 1], k)
    <3>1. CASE k \in 1..m
      <4>1. k \in 0..m /\ k - 1 \in 0..m
        BY <2>1, <3>1
      <4>. QED  BY <2>2, <2>3, <3>1, <4>1 DEF OneMore
    <3>2. CASE k = m + 1
      <4>1. k - 1 = m /\ m \in 0..m
        BY <2>1, <3>2
      <4>. QED  BY <2>3, <3>2, <4>1, <2>7 DEF OneMore
    <3>. QED  BY <2>1, <3>1, <3>2
  <2>5. g[0] = ids
    <3>1. 0 \in 0..m
      BY <2>1
    <3>. QED  BY <2>2, <2>3, <3>1 DEF OneMore
  <2>6. Follows(m + 1, g)
    BY <2>3, <2>4, <2>5 DEF OneMore
  <2>. HIDE DEF Follows
  <2>. QED  BY <2>1, <2>6
<1>4. Len(sigs) \in G
  <2>. HIDE DEF G
  <2>1. G \in SUBSET Nat
    BY DEF G
  <2>. QED  BY <1>2, <1>3, <2>1, SetInduction
<1>5. \E f : Runs(f)
  <2>1. PICK f : Follows(Len(sigs), f)
    BY <1>4
  <2>2. ASSUME NEW k \in 0..Len(sigs)
        PROVE  f[k] = IF k = 0 THEN ids ELSE Step(f[k - 1], k)
    <3>1. k = 0 \/ k \in 1..Len(sigs)
      OBVIOUS
    <3>. QED  BY <2>1, <3>1
  <2>3. Runs(f)
    BY <2>1, <2>2 DEF IsRun
  <2>. QED  BY <2>3
<1>6. Runs(chosen)
  <2>. HIDE DEF Runs
  <2>. QED  BY <1>5 DEF chosen
<1>7. chosen[0] = ids /\ \A k \in 1..Len(sigs) : chosen[k] = Step(chosen[k - 1], k)
  <2>1. 0 \in 0..Len(sigs) /\ \A k \in 1..Len(sigs) : k \in 0..Len(sigs) /\ k # 0
    OBVIOUS
  <2>. QED  BY <1>6, <2>1
<1>8. RemovalSteps(chosen, ids, sigs)
  BY <1>7 DEF RemovalSteps, Step
<1>. QED  BY <1>1, <1>8

-----------------------------------------------------------------------------
(* What the helpers do with tables.                                        *)
Maps(V) == UNION {[S -> V] : S \in SUBSET Nat}

JobStates == {"running", "written", "failed"}

JobLists == [tracks : Maps(Status), toPreload : Seq(Nat), jobs : Maps(JobStates)]

(* The lists that are in order: only what is in D is known, and jobs are   *)
(* running for the tracks that are being processed.                        *)
Ordered(D) ==
    {l \in JobLists :
        /\ DOMAIN l.tracks \subseteq D
        /\ DOMAIN l.jobs = {id \in DOMAIN l.tracks : l.tracks[id] = "Processing"}
        /\ IsFiniteSet(DOMAIN l.jobs) /\ Cardinality(DOMAIN l.jobs) <= MaxJobs}

LEMMA MapProperties ==
    ASSUME NEW V, NEW f \in Maps(V)
    PROVE  DOMAIN f \subseteq Nat /\ \A x \in DOMAIN f : f[x] \in V
<1>1. PICK S \in SUBSET Nat : f \in [S -> V]
  BY DEF Maps
<1>. QED  BY <1>1

Extends(g, f, id, v) ==
    /\ DOMAIN g = DOMAIN f \cup {id}
    /\ g[id] = v
    /\ \A x \in DOMAIN f : x # id => g[x] = f[x]

Restricts(g, f, id) ==
    DOMAIN g = DOMAIN f \ {id} /\ \A x \in DOMAIN f \ {id} : g[x] = f[x]

LEMMA WithProperties ==
    ASSUME NEW V, NEW f \in Maps(V), NEW id \in Nat, NEW v \in V
    PROVE  With(f, id, v) \in Maps(V) /\ Extends(With(f, id, v), f, id, v)
<1>. DEFINE g == With(f, id, v)
            S == DOMAIN f \cup {id}
<1>1. S \in SUBSET Nat /\ \A x \in DOMAIN f : f[x] \in V
  BY MapProperties
<1>2. g = [x \in S |-> IF x = id THEN v ELSE f[x]]
  BY DEF With
<1>. HIDE DEF g
<1>3. \A x \in S : (IF x = id THEN v ELSE f[x]) \in V
  BY <1>1
<1>4. g \in [S -> V]
  BY <1>2, <1>3
<1>5. g \in Maps(V)
  <2>. HIDE DEF S
  <2>. QED  BY <1>1, <1>4 DEF Maps
<1>6. Extends(g, f, id, v)
  BY <1>2 DEF Extends
<1>. QED  BY <1>5, <1>6 DEF g

LEMMA WithoutProperties ==
    ASSUME NEW V, NEW f \in Maps(V), NEW id
    PROVE  Without(f, id) \in Maps(V) /\ Restricts(Without(f, id), f, id)
<1>. DEFINE g == Without(f, id)
            S == DOMAIN f \ {id}
<1>1. S \in SUBSET Nat /\ \A x \in DOMAIN f : f[x] \in V
  BY MapProperties
<1>2. g = [x \in S |-> f[x]]
  BY DEF Without
<1>. HIDE DEF g
<1>3. g \in [S -> V]
  BY <1>1, <1>2
<1>4. g \in Maps(V)
  <2>. HIDE DEF S
  <2>. QED  BY <1>1, <1>3 DEF Maps
<1>5. Restricts(g, f, id)
  BY <1>2 DEF Restricts
<1>. QED  BY <1>4, <1>5 DEF g

LEMMA CheckKeepsOrder ==
    ASSUME NEW D \in SUBSET Nat, NEW l \in Ordered(D), NEW entry \in Entry,
           entry.queueID \in D
    PROVE  CheckToPreload(l, entry) \in Ordered(D)
<1>. DEFINE id == entry.queueID
            missing == l.tracks[id] = "Preloaded" /\ id \notin disk
            more == With(l.tracks, id, "Initial")
            list == Append(l.toPreload, id)
            x == [l EXCEPT !.tracks = more, !.toPreload = list]
<1>1. l \in JobLists /\ id \in Nat /\ id \in D
  BY DEF Ordered
<1>2. l.tracks \in Maps(Status) /\ l.toPreload \in Seq(Nat) /\ l.jobs \in Maps(JobStates)
  BY <1>1 DEF JobLists
<1>3. SUFFICES ASSUME id \in DOMAIN l.tracks => missing
               PROVE  x \in Ordered(D)
  <2>1. CheckToPreload(l, entry) \in {l, x}
    BY DEF CheckToPreload
  <2>2. \/ IsTrack(entry) /\ (id \notin DOMAIN l.tracks \/ missing)
        \/ CheckToPreload(l, entry) = l
    BY Zenon DEF CheckToPreload
  <2>. QED  BY <2>1, <2>2
<1>4. more \in Maps(Status) /\ Extends(more, l.tracks, id, "Initial")
  <2>1. "Initial" \in Status
    BY DEF Status
  <2>. QED  BY Zenon, <1>1, <1>2, <2>1, WithProperties
<1>5. list \in Seq(Nat)
  BY <1>1, <1>2
<1>. HIDE DEF more, list
<1>6. x \in JobLists /\ x.tracks = more /\ x.jobs = l.jobs
  BY Zenon, <1>1, <1>4, <1>5 DEF JobLists
<1>. HIDE DEF x
<1>7. {y \in DOMAIN more : more[y] = "Processing"}
      = {y \in DOMAIN l.tracks : l.tracks[y] = "Processing"}
  BY <1>3, <1>4 DEF Extends
<1>8. DOMAIN more \subseteq D
  BY <1>1, <1>4 DEF Ordered, Extends
<1>. QED  BY <1>6, <1>7, <1>8 DEF Ordered

LEMMA StartKeepsOrder ==
    ASSUME NEW D \in SUBSET Nat, NEW l \in Ordered(D)
    PROVE  StartNextJob(l) \in Ordered(D)
<1>. DEFINE id == Head(l.toPreload)
            rest == Tail(l.toPreload)
            more == With(l.tracks, id, "Processing")
            running == With(l.jobs, id, "running")
            shorter == [l EXCEPT !.toPreload = rest]
            started == [tracks |-> more, toPreload |-> rest, jobs |-> running]
<1>1. /\ l \in JobLists /\ DOMAIN l.tracks \subseteq D
      /\ DOMAIN l.jobs = {y \in DOMAIN l.tracks : l.tracks[y] = "Processing"}
      /\ IsFiniteSet(DOMAIN l.jobs) /\ Cardinality(DOMAIN l.jobs) <= MaxJobs
  BY DEF Ordered
<1>2. l.tracks \in Maps(Status) /\ l.toPreload \in Seq(Nat) /\ l.jobs \in Maps(JobStates)
  BY <1>1 DEF JobLists
<1>3. SUFFICES ASSUME l.toPreload # << >>, ~ Cardinality(DOMAIN l.jobs) >= MaxJobs
               PROVE  StartNextJob(l) \in Ordered(D)
  BY Zenon DEF StartNextJob
<1>4. id \in Nat /\ rest \in Seq(Nat)
  BY <1>2, <1>3
<1>. HIDE DEF id, rest
<1>5. CASE id \notin DOMAIN l.tracks \/ l.tracks[id] # "Initial"
  <2>1. StartNextJob(l) = shorter
    BY Zenon, <1>3, <1>5 DEF StartNextJob, id, rest
  <2>2. shorter \in JobLists /\ shorter.tracks = l.tracks /\ shorter.jobs = l.jobs
    BY Zenon, <1>1, <1>4 DEF JobLists
  <2>. HIDE DEF shorter
  <2>. QED  BY <1>1, <2>1, <2>2 DEF Ordered
<1>6. CASE id \in DOMAIN l.tracks /\ l.tracks[id] = "Initial"
  <2>1. StartNextJob(l) = started
    BY Zenon, <1>3, <1>6 DEF StartNextJob, id, rest
  <2>2. more \in Maps(Status) /\ Extends(more, l.tracks, id, "Processing")
    <3>1. "Processing" \in Status
      BY DEF Status
    <3>. QED  BY Zenon, <1>2, <1>4, <3>1, WithProperties
  <2>3. running \in Maps(JobStates) /\ Extends(running, l.jobs, id, "running")
    <3>1. "running" \in JobStates
      BY DEF JobStates
    <3>. QED  BY Zenon, <1>2, <1>4, <3>1, WithProperties
  <2>. HIDE DEF more, running
  <2>4. /\ started \in JobLists /\ started.tracks = more /\ started.jobs = running
    BY <1>4, <2>2, <2>3 DEF JobLists
  <2>. HIDE DEF started
  <2>5. id \notin DOMAIN l.jobs
    BY <1>1, <1>6
  <2>6. /\ IsFiniteSet(DOMAIN running)
        /\ Cardinality(DOMAIN running) = Cardinality(DOMAIN l.jobs) + 1
    <3>1. /\ IsFiniteSet(DOMAIN l.jobs \cup {id})
          /\ Cardinality(DOMAIN l.jobs \cup {id}) = Cardinality(DOMAIN l.jobs) + 1
      BY Zenon, <1>1, <2>5, FS_AddElement
    <3>. QED  BY Zenon, <2>3, <3>1 DEF Extends
  <2>7. Cardinality(DOMAIN running) <= MaxJobs
    <3>1. Cardinality(DOMAIN l.jobs) \in Nat /\ MaxJobs \in Nat
      BY <1>1, FS_CardinalityType, PreloaderConstants
    <3>. QED  BY <1>3, <2>6, <3>1
  <2>8. DOMAIN running = {y \in DOMAIN more : more[y] = "Processing"}
    BY <1>1, <1>6, <2>2, <2>3 DEF Extends
  <2>9. DOMAIN more \subseteq D
    BY <1>1, <1>6, <2>2 DEF Extends
  <2>. QED  BY <2>1, <2>4, <2>6, <2>7, <2>8, <2>9 DEF Ordered
<1>. QED  BY <1>5, <1>6

(* checkForJobsToStart.                                                    *)
LEMMA StartingKeepsOrder ==
    ASSUME NEW D \in SUBSET Nat, NEW l \in Ordered(D), CheckForJobsToStart(l)
    PROVE  [tracks |-> tracks', toPreload |-> tracksToPreload', jobs |-> jobs']
              \in Ordered(D)
<1>. DEFINE after == JobsStarted(JobIterations, l)
<1>1. JobIterations \in Nat
  BY PreloaderConstants
<1>2. PICK f : after = f[JobIterations] /\ JobSteps(f, JobIterations, l)
  BY <1>1, JobLoop
<1>3. \A k \in 1..JobIterations : f[k - 1] \in Ordered(D) => f[k] \in Ordered(D)
  BY <1>2, StartKeepsOrder DEF JobSteps
<1>4. after \in Ordered(D)
  BY <1>1, <1>2, <1>3, LoopStays DEF JobSteps
<1>5. /\ tracks' = after.tracks
      /\ tracksToPreload' = after.toPreload
      /\ jobs' = after.jobs
  BY Zenon DEF CheckForJobsToStart, JobsStarted
<1>. HIDE DEF after
<1>6. after = [tracks |-> after.tracks, toPreload |-> after.toPreload,
               jobs |-> after.jobs]
  BY <1>4 DEF Ordered, JobLists
<1>. QED  BY <1>4, <1>5, <1>6

(* checkForTracksToPreload, before it starts jobs.                         *)
LEMMA ChecksKeepOrder ==
    ASSUME NEW D \in SUBSET Nat, NEW l \in Ordered(D), NEW entries \in Seq(Entry),
           \A k \in 1..Len(entries) : entries[k].queueID \in D
    PROVE  CheckAll(l, entries) \in Ordered(D)
<1>. DEFINE after == CheckAll(l, entries)
            n == Len(entries)
<1>1. n \in Nat /\ \A k \in 1..n : entries[k] \in Entry
  BY LenProperties, ElementOfSeq
<1>2. PICK f : after = f[n] /\ CheckSteps(f, l, entries)
  BY <1>1, CheckLoop
<1>3. \A k \in 1..n : f[k - 1] \in Ordered(D) => f[k] \in Ordered(D)
  BY <1>1, <1>2, CheckKeepsOrder DEF CheckSteps
<1>. QED  BY <1>1, <1>2, <1>3, LoopStays DEF CheckSteps

-----------------------------------------------------------------------------
(* The signals.                                                            *)

LEMMA AppendMembers ==
    ASSUME NEW seq \in Seq(Nat), NEW e \in Nat
    PROVE  Append(seq, e) \in Seq(Nat) /\ ToSet(Append(seq, e)) = ToSet(seq) \cup {e}
<1>. DEFINE longer == Append(seq, e)
            n == Len(seq)
<1>1. n \in Nat /\ seq \in [1..n -> Nat] /\ DOMAIN seq = 1..n
  BY LenProperties
<1>2. /\ longer \in Seq(Nat) /\ Len(longer) = n + 1 /\ DOMAIN longer = 1..n + 1
      /\ \A i \in 1..n : longer[i] = seq[i]
      /\ longer[n + 1] = e
  BY <1>1, AppendProperties, LenProperties
<1>. HIDE DEF longer, n
<1>3. ToSet(longer) \subseteq ToSet(seq) \cup {e}
  <2>1. ASSUME NEW i \in 1..n + 1  PROVE longer[i] \in ToSet(seq) \cup {e}
    <3>1. i \in 1..n \/ i = n + 1
      BY <1>1
    <3>. QED  BY <1>1, <1>2, <3>1 DEF ToSet
  <2>. QED  BY <1>2, <2>1 DEF ToSet
<1>4. ToSet(seq) \cup {e} \subseteq ToSet(longer)
  <2>1. \A i \in 1..n : i \in 1..n + 1
    BY <1>1
  <2>2. n + 1 \in 1..n + 1
    BY <1>1
  <2>. QED  BY <1>1, <1>2, <2>1, <2>2 DEF ToSet
<1>. QED  BY <1>2, <1>3, <1>4 DEF longer

IsGone(id, sigs) ==
    \E k \in 1..Len(sigs) : IsRemoval(sigs[k]) /\ sigs[k].queueID = id

(* The list l has what the first m signals and the list ids make of it.    *)
Listed(l, ids, sigs, m) ==
    /\ l \in Seq(Nat) /\ ToSet(ids) \subseteq ToSet(l)
    /\ \A k \in 1..m : IsRemoval(sigs[k]) => sigs[k].queueID \in ToSet(l)

LEMMA RemovalsAreListed ==
    ASSUME NEW ids \in Seq(Nat), NEW sigs \in Seq(Signal)
    PROVE  /\ WithRemovals(ids, sigs) \in Seq(Nat)
           /\ ToSet(ids) \subseteq ToSet(WithRemovals(ids, sigs))
           /\ \A id : IsGone(id, sigs) => id \in ToSet(WithRemovals(ids, sigs))
<1>. DEFINE n == Len(sigs)
            list == WithRemovals(ids, sigs)
<1>1. n \in Nat /\ \A k \in 1..n : sigs[k] \in Signal
  BY LenProperties, ElementOfSeq
<1>2. PICK f : list = f[n] /\ RemovalSteps(f, ids, sigs)
  BY <1>1, RemovalLoop
<1>3. ASSUME NEW m \in Nat, m + 1 <= n, Listed(f[m], ids, sigs, m)
      PROVE  Listed(f[m + 1], ids, sigs, m + 1)
  <2>1. m + 1 \in 1..n /\ (m + 1) - 1 = m
    BY <1>1, <1>3
  <2>2. f[m + 1] = AfterSignal(f[m], sigs[m + 1])
    BY <1>2, <2>1 DEF RemovalSteps
  <2>3. sigs[m + 1].queueID \in Nat
    BY <1>1, <2>1 DEF Signal
  <2>4. f[m] \in Seq(Nat)
    BY <1>3 DEF Listed
  <2>5. /\ f[m + 1] \in Seq(Nat) /\ ToSet(f[m]) \subseteq ToSet(f[m + 1])
        /\ IsRemoval(sigs[m + 1]) => sigs[m + 1].queueID \in ToSet(f[m + 1])
    <3>1. CASE IsRemoval(sigs[m + 1])
      BY <2>2, <2>3, <2>4, <3>1, AppendMembers DEF AfterSignal
    <3>2. CASE ~ IsRemoval(sigs[m + 1])
      BY <2>2, <2>4, <3>2 DEF AfterSignal
    <3>. QED  BY <3>1, <3>2
  <2>6. \A k \in 1..m + 1 : k \in 1..m \/ k = m + 1
    OBVIOUS
  <2>. QED  BY <1>3, <2>5, <2>6 DEF Listed
<1>4. Listed(f[0], ids, sigs, 0)
  BY <1>2 DEF RemovalSteps, Listed
<1>. DEFINE G == {m \in Nat : m <= n => Listed(f[m], ids, sigs, m)}
<1>5. n \in G
  <2>1. G \in SUBSET Nat /\ 0 \in G
    BY <1>4
  <2>2. ASSUME NEW m \in G  PROVE m + 1 \in G
    <3>1. m \in Nat /\ (m + 1 <= n => m <= n)
      BY <1>1
    <3>. QED  BY <1>3, <3>1
  <2>. HIDE DEF G
  <2>3. Nat \subseteq G
    BY <2>1, <2>2, SetInduction
  <2>. QED  BY <1>1, <2>3
<1>6. Listed(list, ids, sigs, n)
  BY <1>1, <1>2, <1>5
<1>. QED  BY <1>6 DEF Listed, IsGone

LEMMA FirstSignal ==
    ASSUME NEW first, NEW signal, Finish(first, signal)
    PROVE  Len(signals') \in Nat /\ 1 \in 1..Len(signals') /\ signals'[1] = signal
<1>1. signals' = <<signal>> \/ signals' = <<signal, FirstTrackChanged(first)>>
  BY DEF Finish
<1>. QED  BY <1>1

(* What leaves the queue is in the signals.                                *)
LEMMA InsertionKeepsEntries ==
    ASSUME QueueInv, NEW index \in 0..Len(queue), NEW kind \in Kinds,
           InsertAtIndex(index, kind)
    PROVE  InQueue \subseteq InQueue'
<1>. DEFINE n == Len(queue)
<1>1. queue \in Seq(Entry) /\ n \in Nat /\ nextQueueID \in Nat \ {NoQueueId}
  BY LenProperties DEF QueueInv, QueueTypeOK
<1>. PICK entry : entry = [queueID |-> nextQueueID, kind |-> kind]
  OBVIOUS
<1>2. queue' = Insert(queue, index, entry) /\ entry \in Entry
  BY <1>1 DEF InsertAtIndex, Entry
<1>3. /\ Len(queue') = n + 1
      /\ \A i \in 1..index : queue'[i] = queue[i]
      /\ \A i \in index + 2..n + 1 : queue'[i] = queue[i - 1]
  BY <1>1, <1>2, InsertProperties, InsertPlaces
<1>4. ASSUME NEW i \in 1..n  PROVE \E j \in 1..n + 1 : queue'[j] = queue[i]
  <2>1. CASE i <= index
    <3>1. i \in 1..index /\ i \in 1..n + 1
      BY <1>1, <2>1
    <3>. QED  BY <1>3, <3>1
  <2>2. CASE i > index
    <3>1. i + 1 \in index + 2..n + 1 /\ i + 1 \in 1..n + 1 /\ (i + 1) - 1 = i
      BY <1>1, <2>2
    <3>. QED  BY <1>3, <3>1
  <2>. QED  BY <1>1, <2>1, <2>2
<1>. QED  BY <1>3, <1>4 DEF InQueue

LEMMA RemovalIsTold ==
    ASSUME QueueInv, NEW index \in 0..Len(queue) - 1, NEW first,
           queue' = DeleteAt(queue, index),
           Finish(first, EntryRemoved(index, queue[index + 1].queueID))
    PROVE  \A id \in InQueue : id \in InQueue' \/ IsGone(id, signals')
<1>. DEFINE n == Len(queue)
<1>1. queue \in Seq(Entry) /\ n \in Nat
  BY LenProperties DEF QueueInv, QueueTypeOK
<1>2. /\ Len(queue') = n - 1
      /\ \A i \in 1..index : queue'[i] = queue[i]
      /\ \A i \in index + 1..n - 1 : queue'[i] = queue[i + 1]
  BY <1>1, RemoveProperties, DeletePlaces
<1>3. IsGone(queue[index + 1].queueID, signals')
  BY FirstSignal DEF IsGone, IsRemoval, EntryRemoved
<1>4. ASSUME NEW i \in 1..n, i # index + 1
      PROVE  \E j \in 1..n - 1 : queue'[j] = queue[i]
  <2>1. CASE i <= index
    <3>1. i \in 1..index /\ i \in 1..n - 1
      BY <1>1, <2>1
    <3>. QED  BY <1>2, <3>1
  <2>2. CASE i > index + 1
    <3>1. i - 1 \in index + 1..n - 1 /\ i - 1 \in 1..n - 1 /\ (i - 1) + 1 = i
      BY <1>1, <2>2
    <3>. QED  BY <1>2, <3>1
  <2>. QED  BY <1>1, <1>4, <2>1, <2>2
<1>. QED  BY <1>2, <1>3, <1>4 DEF InQueue

LEMMA MoveKeepsEntries ==
    ASSUME QueueInv, NEW index \in 0..Len(queue) - 1, NEW indexDiff \in Int,
           MoveByIndex(index, indexDiff)
    PROVE  InQueue \subseteq InQueue'
<1>. DEFINE n == Len(queue)
            to == index + indexDiff
<1>1. queue \in Seq(Entry) /\ n \in Nat /\ index \in 0..n - 1 /\ to \in 0..n - 1
  BY LenProperties DEF QueueInv, QueueTypeOK, MoveByIndex
<1>2. queue' = Move(queue, index, to)
  BY DEF MoveByIndex
<1>. HIDE DEF to
<1>3. /\ Len(queue') = n
      /\ \A i \in 1..n :
            queue'[i] = IF i = to + 1 THEN queue[index + 1]
                        ELSE IF i > index /\ i <= to THEN queue[i + 1]
                        ELSE IF i > to + 1 /\ i <= index + 1 THEN queue[i - 1]
                        ELSE queue[i]
  BY <1>1, <1>2, MoveProperties
<1>4. ASSUME NEW i \in 1..n  PROVE \E j \in 1..n : queue'[j] = queue[i]
  <2>1. CASE i = index + 1
    <3>1. to + 1 \in 1..n
      BY <1>1
    <3>. QED  BY <1>3, <2>1, <3>1
  <2>2. CASE i > index + 1 /\ i <= to + 1
    <3>1. /\ i - 1 \in 1..n /\ i - 1 # to + 1 /\ i - 1 > index /\ i - 1 <= to
          /\ (i - 1) + 1 = i
      BY <1>1, <2>2
    <3>2. queue'[i - 1] = queue[(i - 1) + 1]
      BY <1>3, <3>1
    <3>. QED  BY <3>1, <3>2
  <2>3. CASE i < index + 1 /\ i >= to + 1
    <3>1. /\ i + 1 \in 1..n /\ i + 1 # to + 1 /\ ~ (i + 1 <= to)
          /\ i + 1 > to + 1 /\ i + 1 <= index + 1 /\ (i + 1) - 1 = i
      BY <1>1, <2>3
    <3>2. queue'[i + 1] = queue[(i + 1) - 1]
      BY <1>3, <3>1
    <3>. QED  BY <3>1, <3>2
  <2>4. CASE ~ (i > index + 1 /\ i <= to + 1) /\ ~ (i < index + 1 /\ i >= to + 1)
             /\ i # index + 1
    <3>1. i # to + 1 /\ ~ (i > index /\ i <= to) /\ ~ (i > to + 1 /\ i <= index + 1)
      BY <1>1, <2>4
    <3>2. queue'[i] = queue[i]
      BY <1>3, <3>1
    <3>. QED  BY <3>2
  <2>. QED  BY <2>1, <2>2, <2>3, <2>4
<1>5. Len(queue') = n
  BY <1>3
<1>. QED  BY <1>4, <1>5 DEF InQueue

LEMMA TrimIsTold ==
    ASSUME QueueInv, NEW length \in Nat, Trim(length)
    PROVE  \A id \in InQueue : id \in InQueue' \/ IsGone(id, signals')
<1>. DEFINE n == Len(queue)
            size == n - length
            Removal(k) == EntryRemoved(n - k, queue[n - k + 1].queueID)
            plain == [k \in 1..size |-> Removal(k)]
            change == FirstTrackChanged(NoFirstTrack)
            index == n - firstTrackIndex
<1>1. /\ queue \in Seq(Entry) /\ n \in Nat /\ n > length /\ size \in Nat
      /\ firstTrackIndex \in Int
  BY LenProperties DEF QueueInv, QueueTypeOK, Trim
<1>2. queue' = SubSeq(queue, 1, length)
  BY DEF Trim
<1>3. Len(queue') = length /\ \A i \in 1..length : queue'[i] = queue[i]
  BY <1>1, <1>2
<1>4. signals' = IF firstTrackIndex < length THEN plain ELSE Insert(plain, index, change)
  BY DEF Trim, TrimSignals
<1>5. Len(plain) = size /\ \A k \in 1..size : plain[k] = Removal(k)
  <2>. HIDE DEF size, Removal
  <2>. QED  BY <1>1
<1>. HIDE DEF plain, change, Removal
<1>6. ASSUME NEW k \in 1..size
      PROVE  \E p \in 1..Len(signals') : signals'[p] = Removal(k)
  <2>1. CASE firstTrackIndex < length
    BY <1>4, <1>5, <2>1
  <2>2. CASE ~ firstTrackIndex < length
    <3>1. firstTrackIndex \in 0..n - 1
      BY <1>1, <2>2, FirstTrackCases DEF NoTrack, SomeTrack
    <3>2. index \in 0..size
      BY <1>1, <2>2, <3>1
    <3>. HIDE DEF index
    <3>3. signals' = Insert(plain, index, change)
      BY <1>4, <2>2
    <3>4. /\ signals' = [i \in 1..size + 1 |-> signals'[i]]
          /\ \A i \in 1..index : signals'[i] = plain[i]
          /\ \A i \in index + 2..size + 1 : signals'[i] = plain[i - 1]
      BY <1>1, <1>5, <3>2, <3>3, InsertPlaces
    <3>5. Len(signals') = size + 1
      BY <1>1, <3>4
    <3>6. CASE k <= index
      <4>1. k \in 1..index /\ k \in 1..size + 1
        BY <1>1, <3>2, <3>6
      <4>. QED  BY <1>5, <3>4, <3>5, <4>1
    <3>7. CASE k > index
      <4>1. k + 1 \in index + 2..size + 1 /\ k + 1 \in 1..size + 1 /\ (k + 1) - 1 = k
        BY <1>1, <3>2, <3>7
      <4>. QED  BY <1>5, <3>4, <3>5, <4>1
    <3>. QED  BY <1>1, <3>2, <3>6, <3>7
  <2>. QED  BY <2>1, <2>2
<1>7. ASSUME NEW i \in 1..n  PROVE queue[i].queueID \in InQueue' \/ IsGone(queue[i].queueID, signals')
  <2>1. CASE i <= length
    <3>1. i \in 1..length
      BY <1>1, <2>1
    <3>. QED  BY <1>3, <3>1 DEF InQueue
  <2>2. CASE i > length
    <3>1. n - i + 1 \in 1..size /\ n - (n - i + 1) + 1 = i
      BY <1>1, <2>2
    <3>2. PICK p \in 1..Len(signals') : signals'[p] = Removal(n - i + 1)
      BY <1>6, <3>1
    <3>3. Removal(n - i + 1) = EntryRemoved(n - (n - i + 1), queue[i].queueID)
      BY <3>1 DEF Removal
    <3>. QED  BY <3>2, <3>3 DEF IsGone, IsRemoval, EntryRemoved
  <2>. QED  BY <1>1, <2>1, <2>2
<1>. QED  BY <1>7 DEF InQueue

LEMMA NothingLeavesUnseen ==
    ASSUME QueueInv, UserOperation \/ Dequeue
    PROVE  \A id \in InQueue : id \in InQueue' \/ IsGone(id, signals')
<1>0. queue \in Seq(Entry) /\ Len(queue) \in Nat
  BY LenProperties DEF QueueInv, QueueTypeOK
<1>1. ASSUME NEW index \in 0..Len(queue), NEW kind \in Kinds,
             InsertAtIndex(index, kind)
      PROVE  InQueue \subseteq InQueue'
  BY <1>1, InsertionKeepsEntries
<1>2. CASE InsertBreakAtFrontIfNotExists
  <2>1. 0 \in 0..Len(queue) /\ "Break" \in Kinds
    BY <1>0 DEF Kinds
  <2>. QED  BY <1>2, <2>1, InsertionKeepsEntries DEF InsertBreakAtFrontIfNotExists
<1>3. ASSUME NEW index \in 0..Len(queue) - 1, RemoveAtIndex(index)
      PROVE  \A id \in InQueue : id \in InQueue' \/ IsGone(id, signals')
  BY <1>3, RemovalIsTold DEF RemoveAtIndex
<1>4. ASSUME NEW index \in 0..Len(queue) - 1, NEW indexDiff \in -Len(queue)..Len(queue),
             MoveByIndex(index, indexDiff)
      PROVE  InQueue \subseteq InQueue'
  <2>1. indexDiff \in Int
    BY <1>0
  <2>. QED  BY <1>4, <2>1, MoveKeepsEntries
<1>5. CASE Trim(TrimLength)
  BY <1>5, TrimIsTold, QueueConstants
<1>6. CASE Dequeue
  <2>1. queue # << >> /\ 0 \in 0..Len(queue) - 1
    BY <1>0, <1>6, EmptySeq DEF Dequeue
  <2>2. queue' = DeleteAt(queue, 0) /\ 0 + 1 = 1
    BY <1>0, <1>6, <2>1, TailIsDeletion DEF Dequeue
  <2>. QED  BY <1>6, <2>1, <2>2, RemovalIsTold DEF Dequeue
<1>. QED  BY <1>1, <1>2, <1>3, <1>4, <1>5, <1>6 DEF UserOperation

-----------------------------------------------------------------------------
(* Deleting what has been removed.                                         *)

LEMMA RemovalMembers ==
    ASSUME NEW seq \in Seq(Nat), NEW i \in 1..Len(seq)
    PROVE  /\ RemoveAt(seq, i) \in Seq(Nat)
           /\ ToSet(seq) \subseteq ToSet(RemoveAt(seq, i)) \cup {seq[i]}
<1>. DEFINE n == Len(seq)
            before == SubSeq(seq, 1, i - 1)
            behind == SubSeq(seq, i + 1, n)
            others == RemoveAt(seq, i)
<1>1. n \in Nat /\ i \in 1..n /\ DOMAIN seq = 1..n
  BY LenProperties
<1>2. /\ before \in Seq(Nat) /\ Len(before) = i - 1
      /\ \A k \in 1..i - 1 : before[k] = seq[k]
  BY <1>1
<1>3. /\ behind \in Seq(Nat) /\ Len(behind) = n - i
      /\ \A k \in 1..n - i : behind[k] = seq[k + i]
  <2>1. i + 1 \in Int /\ n \in Int /\ \A k \in i + 1..n : seq[k] \in Nat
    BY <1>1, ElementOfSeq
  <2>2. behind \in Seq(Nat)
    BY <2>1, SubSeqProperties
  <2>3. Len(behind) = n - i
    <3>1. Len(behind) = IF i + 1 <= n THEN n - (i + 1) + 1 ELSE 0
      BY <2>1, SubSeqProperties
    <3>. HIDE DEF behind, n
    <3>. QED  BY <1>1, <3>1
  <2>4. ASSUME NEW k \in 1..n - i  PROVE behind[k] = seq[k + i]
    <3>1. k + i = (i + 1) + k - 1
      BY <1>1
    <3>. QED  BY <1>1, <3>1
  <2>. QED  BY <2>2, <2>3, <2>4
<1>4. others = before \o behind
  BY DEF RemoveAt
<1>. HIDE DEF before, behind, others, n
<1>5. /\ others \in Seq(Nat) /\ Len(others) = n - 1
      /\ \A k \in 1..i - 1 : others[k] = seq[k]
      /\ \A k \in 1..n - i : others[(i - 1) + k] = seq[k + i]
  <2>1. /\ others \in Seq(Nat) /\ Len(others) = Len(before) + Len(behind)
        /\ \A k \in 1..Len(before) + Len(behind) :
              others[k] = IF k <= Len(before) THEN before[k]
                                              ELSE behind[k - Len(before)]
    <3>1. before \in Seq(Nat) /\ behind \in Seq(Nat)
      BY <1>2, <1>3
    <3>. QED  BY <1>4, <3>1, ConcatProperties
  <2>2. ASSUME NEW k \in 1..i - 1  PROVE others[k] = seq[k]
    BY <1>1, <1>2, <1>3, <2>1
  <2>3. ASSUME NEW k \in 1..n - i  PROVE others[(i - 1) + k] = seq[k + i]
    <3>1. /\ (i - 1) + k \in 1..(i - 1) + (n - i) /\ ~ ((i - 1) + k <= i - 1)
          /\ ((i - 1) + k) - (i - 1) = k
      BY <1>1
    <3>2. others[(i - 1) + k] = behind[k]
      BY <1>2, <1>3, <2>1, <3>1
    <3>. QED  BY <1>3, <3>2
  <2>. QED  BY <1>1, <1>2, <1>3, <2>1, <2>2, <2>3
<1>6. DOMAIN others = 1..n - 1
  BY <1>5, LenProperties
<1>7. ASSUME NEW k \in 1..n, k # i  PROVE seq[k] \in ToSet(others)
  <2>1. CASE k < i
    <3>1. k \in 1..i - 1 /\ k \in 1..n - 1
      BY <1>1, <2>1
    <3>. QED  BY <1>5, <1>6, <3>1 DEF ToSet
  <2>2. CASE k > i
    <3>1. k - i \in 1..n - i /\ (k - i) + i = k /\ (i - 1) + (k - i) = k - 1
          /\ k - 1 \in 1..n - 1
      BY <1>1, <2>2
    <3>2. others[k - 1] = seq[k]
      BY <1>5, <3>1
    <3>. QED  BY <1>6, <3>1, <3>2 DEF ToSet
  <2>. QED  BY <1>1, <1>7, <2>1, <2>2
<1>. QED  BY <1>1, <1>5, <1>7 DEF ToSet, others

States == [i : Nat, removed : Seq(Nat), tracks : Maps(Status), disk : SUBSET disk]

(* What checkForCacheExpiration may have made of the tracks and the files: *)
(* what is known is looked after, no job has lost its track, and only      *)
(* files that are not locked have been deleted.                            *)
Expiring ==
    {s \in States :
        /\ DOMAIN s.tracks \subseteq InQueue \cup ToSet(s.removed)
        /\ {id \in DOMAIN s.tracks : s.tracks[id] = "Processing"} = DOMAIN jobs
        /\ \A id \in disk \ s.disk : ~ Locked(id)}

LEMMA ExpiryKeepsOrder ==
    ASSUME NEW s \in Expiring
    PROVE  ExpireNext(s) \in Expiring
<1>. DEFINE id == s.removed[s.i + 1]
            others == RemoveAt(s.removed, s.i + 1)
            missing == /\ id \in DOMAIN s.tracks /\ s.tracks[id] = "Preloaded"
                       /\ id \notin s.disk
            skipped == [s EXCEPT !.i = @ + 1]
            longer == Append(others, id)
            postponed == [s EXCEPT !.removed = longer]
            middle == [s EXCEPT !.removed = others]
            fewer == Without(s.tracks, id)
            files == IF id \in DOMAIN s.tracks THEN s.disk \ {id} ELSE s.disk
            deleted == [middle EXCEPT !.tracks = fewer, !.disk = files]
<1>1. /\ s \in States /\ DOMAIN s.tracks \subseteq InQueue \cup ToSet(s.removed)
      /\ {x \in DOMAIN s.tracks : s.tracks[x] = "Processing"} = DOMAIN jobs
      /\ \A x \in disk \ s.disk : ~ Locked(x)
  BY DEF Expiring
<1>2. /\ s.i \in Nat /\ s.removed \in Seq(Nat) /\ s.tracks \in Maps(Status)
      /\ s.disk \in SUBSET disk
  BY <1>1 DEF States
<1>3. SUFFICES ASSUME ~ s.i >= Len(s.removed)  PROVE ExpireNext(s) \in Expiring
  BY Zenon DEF ExpireNext
<1>4. s.i + 1 \in 1..Len(s.removed) /\ s.i + 1 \in Nat
  BY <1>2, <1>3, LenProperties
<1>5. others \in Seq(Nat) /\ ToSet(s.removed) \subseteq ToSet(others) \cup {id} /\ id \in Nat
  <2>1. id \in Nat
    BY <1>2, <1>4, ElementOfSeq
  <2>. QED  BY Zenon, <1>2, <1>4, <2>1, RemovalMembers
<1>. HIDE DEF id, others
<1>6. CASE Blocked(s, id)
  <2>1. ExpireNext(s) = skipped
    BY Zenon, <1>3, <1>6 DEF ExpireNext, id
  <2>2. /\ skipped \in States /\ skipped.removed = s.removed
        /\ skipped.tracks = s.tracks /\ skipped.disk = s.disk
    BY Zenon, <1>1, <1>2, <1>4 DEF States
  <2>. HIDE DEF skipped
  <2>. QED  BY <1>1, <2>1, <2>2 DEF Expiring
<1>7. CASE ~ Blocked(s, id) /\ missing
  <2>1. ExpireNext(s) = postponed
    BY Zenon, <1>3, <1>7 DEF ExpireNext, id, others
  <2>2. longer \in Seq(Nat) /\ ToSet(longer) = ToSet(others) \cup {id}
    BY <1>5, AppendMembers
  <2>. HIDE DEF longer
  <2>3. /\ postponed \in States /\ postponed.removed = longer
        /\ postponed.tracks = s.tracks /\ postponed.disk = s.disk
    BY Zenon, <1>1, <1>2, <2>2 DEF States
  <2>. HIDE DEF postponed
  <2>. QED  BY <1>1, <1>5, <2>1, <2>2, <2>3 DEF Expiring
<1>8. CASE ~ Blocked(s, id) /\ ~ missing
  <2>1. ExpireNext(s) = CleanedUp(middle, id)
    BY Zenon, <1>3, <1>8 DEF ExpireNext, id, others
  <2>2. /\ middle \in States /\ middle.removed = others
        /\ middle.tracks = s.tracks /\ middle.disk = s.disk
    BY Zenon, <1>1, <1>2, <1>5 DEF States
  <2>. HIDE DEF middle
  <2>3. CleanedUp(middle, id) = deleted
    BY Zenon, <2>2 DEF CleanedUp
  <2>4. fewer \in Maps(Status) /\ Restricts(fewer, s.tracks, id)
    BY Zenon, <1>2, WithoutProperties
  <2>5. files \in SUBSET disk
    BY <1>2
  <2>. HIDE DEF fewer, files
  <2>6. /\ deleted \in States /\ deleted.removed = others
        /\ deleted.tracks = fewer /\ deleted.disk = files
    BY Zenon, <2>2, <2>4, <2>5 DEF States
  <2>. HIDE DEF deleted
  <2>7. ~ Locked(id) /\ ~ (id \in DOMAIN s.tracks /\ s.tracks[id] = "Processing")
    BY Zenon, <1>8 DEF Blocked
  <2>8. DOMAIN fewer \subseteq InQueue \cup ToSet(others)
    BY <1>1, <1>5, <2>4 DEF Restricts
  <2>9. {x \in DOMAIN fewer : fewer[x] = "Processing"} = DOMAIN jobs
    BY <1>1, <2>4, <2>7 DEF Restricts
  <2>10. \A x \in disk \ files : ~ Locked(x)
    BY <1>1, <2>7 DEF files
  <2>. QED  BY <2>1, <2>3, <2>6, <2>8, <2>9, <2>10 DEF Expiring
<1>. QED  BY <1>6, <1>7, <1>8

-----------------------------------------------------------------------------
(* The invariant of the preloader.                                         *)

Remembered == InQueue \cup ToSet(tracksRemoved)

PreloaderInv ==
    QueueInv /\ tracksRemoved \in Seq(Nat) /\ List \in Ordered(Remembered)

LEMMA RememberedType ==
    ASSUME QueueInv, tracksRemoved \in Seq(Nat)
    PROVE  Remembered \in SUBSET Nat
<1>1. /\ Len(queue) \in Nat /\ \A i \in 1..Len(queue) : queue[i] \in Entry
  BY LenProperties, ElementOfSeq DEF QueueInv, QueueTypeOK
<1>2. InQueue \in SUBSET Nat
  BY <1>1 DEF InQueue, Entry
<1>3. ToSet(tracksRemoved) \in SUBSET Nat
  BY ElementOfSeq, LenProperties DEF ToSet
<1>. QED  BY <1>2, <1>3 DEF Remembered

(* What the invariant says of the variables.                               *)
LEMMA InvFacts ==
    ASSUME PreloaderInv
    PROVE  /\ Remembered \in SUBSET Nat
           /\ List \in Ordered(Remembered)
           /\ tracks \in Maps(Status) /\ tracksToPreload \in Seq(Nat)
           /\ jobs \in Maps(JobStates)
           /\ Known \subseteq Remembered
           /\ DOMAIN jobs = {id \in Known : tracks[id] = "Processing"}
           /\ IsFiniteSet(DOMAIN jobs) /\ Cardinality(DOMAIN jobs) <= MaxJobs
<1>1. List.tracks = tracks /\ List.toPreload = tracksToPreload /\ List.jobs = jobs
  BY DEF List
<1>2. List \in Ordered(Remembered) /\ Remembered \in SUBSET Nat
  BY RememberedType DEF PreloaderInv
<1>. HIDE DEF List
<1>. QED  BY <1>1, <1>2 DEF Ordered, JobLists, Known

(* And what is to be shown of them, for a set of what is remembered.       *)
LEMMA IsInOrder ==
    ASSUME NEW D, NEW t \in Maps(Status), NEW p \in Seq(Nat), NEW j \in Maps(JobStates),
           DOMAIN t \subseteq D,
           DOMAIN j = {id \in DOMAIN t : t[id] = "Processing"},
           IsFiniteSet(DOMAIN j), Cardinality(DOMAIN j) <= MaxJobs
    PROVE  [tracks |-> t, toPreload |-> p, jobs |-> j] \in Ordered(D)
<1>. DEFINE l == [tracks |-> t, toPreload |-> p, jobs |-> j]
<1>1. l \in JobLists /\ l.tracks = t /\ l.jobs = j
  BY DEF JobLists
<1>. HIDE DEF l
<1>2. l \in Ordered(D)
  BY <1>1 DEF Ordered
<1>. QED  BY <1>2 DEF l

-----------------------------------------------------------------------------
(* The steps.  When the list stays as it is, what is remembered may grow.  *)
LEMMA ListStays ==
    ASSUME PreloaderInv, QueueInv', tracksRemoved' \in Seq(Nat),
           UNCHANGED <<tracks, tracksToPreload, jobs>>, Known \subseteq Remembered'
    PROVE  PreloaderInv'
<1>1. [tracks |-> tracks, toPreload |-> tracksToPreload, jobs |-> jobs]
         \in Ordered(Remembered')
  BY InvFacts, IsInOrder DEF Known
<1>2. List' = [tracks |-> tracks, toPreload |-> tracksToPreload, jobs |-> jobs]
  BY DEF List
<1>. QED  BY Zenon, <1>1, <1>2 DEF PreloaderInv

LEMMA QueueIsKept ==
    ASSUME QueueInv, UNCHANGED queueVars
    PROVE  QueueInv' /\ InQueue' = InQueue
<1>1. QueueInv'
  BY QueueNextInv
<1>2. InQueue' = InQueue
  BY DEF queueVars, InQueue
<1>. QED  BY <1>1, <1>2

LEMMA QueueTellsKeepsInv ==
    ASSUME PreloaderInv, QueueTells
    PROVE  PreloaderInv'
<1>1. QueueInv /\ tracksRemoved \in Seq(Nat)
  BY DEF PreloaderInv
<1>2. UserOperation \/ Dequeue
  BY DEF QueueTells
<1>3. QueueInv'
  BY <1>1, <1>2, QueueNextInv DEF QueueNext
<1>4. signals' \in Seq(Signal)
  BY <1>3 DEF QueueInv, QueueTypeOK
<1>5. tracksRemoved' = WithRemovals(tracksRemoved, signals')
  BY DEF QueueTells, QueueSignals
<1>6. /\ tracksRemoved' \in Seq(Nat)
      /\ ToSet(tracksRemoved) \subseteq ToSet(tracksRemoved')
      /\ \A id : IsGone(id, signals') => id \in ToSet(tracksRemoved')
  BY Zenon, <1>1, <1>4, <1>5, RemovalsAreListed
<1>7. \A id \in InQueue : id \in InQueue' \/ IsGone(id, signals')
  BY <1>1, <1>2, NothingLeavesUnseen
<1>8. Remembered \subseteq Remembered'
  BY <1>6, <1>7 DEF Remembered
<1>9. Known \subseteq Remembered'
  BY <1>8, InvFacts
<1>10. UNCHANGED <<tracks, tracksToPreload, jobs>>
  BY DEF QueueTells
<1>. QED  BY <1>3, <1>6, <1>9, <1>10, ListStays

(* Jobs are started, from a list that is in order.                         *)
LEMMA StartingKeepsInv ==
    ASSUME PreloaderInv, NEW l \in Ordered(Remembered), CheckForJobsToStart(l),
           UNCHANGED queueVars, UNCHANGED tracksRemoved
    PROVE  PreloaderInv'
<1>1. QueueInv' /\ InQueue' = InQueue /\ tracksRemoved' \in Seq(Nat)
  BY QueueIsKept DEF PreloaderInv
<1>2. Remembered' = Remembered
  BY <1>1 DEF Remembered
<1>3. List' \in Ordered(Remembered)
  BY InvFacts, StartingKeepsOrder DEF List
<1>. QED  BY Zenon, <1>1, <1>2, <1>3 DEF PreloaderInv

LEMMA CheckFirstTrackKeepsInv ==
    ASSUME PreloaderInv, CheckFirstTrack
    PROVE  PreloaderInv'
<1>1. QueueInv /\ tracksRemoved \in Seq(Nat) /\ queue \in Seq(Entry)
  BY DEF PreloaderInv, QueueInv, QueueTypeOK
<1>2. UNCHANGED queueVars /\ UNCHANGED tracksRemoved
  BY DEF CheckFirstTrack
<1>3. CASE firstTrackIndex < 0
  <2>1. UNCHANGED <<tracks, tracksToPreload, jobs>>
    BY <1>3 DEF CheckFirstTrack
  <2>2. Remembered' = Remembered
    BY <1>1, <1>2, QueueIsKept DEF Remembered
  <2>. QED  BY <1>1, <1>2, <2>1, <2>2, QueueIsKept, InvFacts, ListStays
<1>4. CASE ~ firstTrackIndex < 0
  <2>1. CheckForJobsToStart(CheckToPreload(List, queue[firstTrackIndex + 1]))
    BY <1>4 DEF CheckFirstTrack
  <2>2. PICK entry : entry = queue[firstTrackIndex + 1]
    OBVIOUS
  <2>3. firstTrackIndex \in 0..Len(queue) - 1
    BY <1>1, <1>4, FirstTrackCases DEF NoTrack, SomeTrack
  <2>4. firstTrackIndex + 1 \in 1..Len(queue)
    BY <1>1, <2>3, LenProperties
  <2>5. entry \in Entry /\ entry.queueID \in Remembered
    BY <1>1, <2>2, <2>4, ElementOfSeq DEF InQueue, Remembered
  <2>6. PICK l : l = CheckToPreload(List, entry)
    OBVIOUS
  <2>7. l \in Ordered(Remembered)
    BY Zenon, <2>5, <2>6, InvFacts, CheckKeepsOrder
  <2>8. CheckForJobsToStart(l)
    BY Zenon, <2>1, <2>2, <2>6
  <2>. QED  BY <1>2, <2>7, <2>8, StartingKeepsInv
<1>. QED  BY <1>3, <1>4

LEMMA CheckForTracksToPreloadKeepsInv ==
    ASSUME PreloaderInv, CheckForTracksToPreload
    PROVE  PreloaderInv'
<1>. DEFINE size == Min({Len(queue), PreloadRange})
            first == SubSeq(queue, 1, size)
<1>1. /\ queue \in Seq(Entry) /\ Len(queue) \in Nat /\ PreloadRange \in Nat
  BY LenProperties, PreloaderConstants DEF PreloaderInv, QueueInv, QueueTypeOK
<1>2. size \in 0..Len(queue)
  <2>1. \E x \in {Len(queue), PreloadRange} :
            \A y \in {Len(queue), PreloadRange} : x <= y
    BY <1>1
  <2>2. /\ size \in {Len(queue), PreloadRange}
        /\ \A y \in {Len(queue), PreloadRange} : size <= y
    BY <2>1 DEF Min
  <2>. QED  BY <1>1, <2>2
<1>3. CheckForJobsToStart(CheckAll(List, first)) /\ UNCHANGED queueVars
      /\ UNCHANGED tracksRemoved
  BY DEF CheckForTracksToPreload
<1>. HIDE DEF size
<1>4. \A k \in 1..size : queue[k] \in Entry /\ queue[k].queueID \in Remembered
  <2>1. \A k \in 1..size : k \in 1..Len(queue)
    BY <1>1, <1>2
  <2>. QED  BY <1>1, <2>1, ElementOfSeq DEF InQueue, Remembered
<1>5. /\ first \in Seq(Entry) /\ Len(first) = size
      /\ \A k \in 1..size : first[k] = queue[k]
  BY <1>1, <1>2, <1>4, SubSeqProperties
<1>. HIDE DEF first
<1>6. \A k \in 1..Len(first) : first[k].queueID \in Remembered
  BY <1>4, <1>5
<1>7. PICK l : l = CheckAll(List, first)
  OBVIOUS
<1>8. l \in Ordered(Remembered)
  BY Zenon, <1>5, <1>6, <1>7, InvFacts, ChecksKeepOrder
<1>9. CheckForJobsToStart(l)
  BY Zenon, <1>3, <1>7
<1>. QED  BY <1>3, <1>8, <1>9, StartingKeepsInv

LEMMA JobEndsKeepsInv ==
    ASSUME PreloaderInv, NEW id \in DOMAIN jobs, JobEnds(id)
    PROVE  PreloaderInv'
<1>1. PICK end \in JobStates : jobs' = With(jobs, id, end)
  BY DEF JobEnds, JobStates
<1>2. jobs \in Maps(JobStates) /\ id \in Nat
  BY InvFacts, MapProperties
<1>3. jobs' \in Maps(JobStates) /\ Extends(jobs', jobs, id, end)
  BY Zenon, <1>1, <1>2, WithProperties
<1>4. DOMAIN jobs' = DOMAIN jobs
  BY <1>3 DEF Extends
<1>5. UNCHANGED <<queueVars, tracks, tracksToPreload, tracksRemoved>>
  BY DEF JobEnds
<1>6. QueueInv' /\ tracksRemoved' \in Seq(Nat) /\ Remembered' = Remembered
  BY <1>5, QueueIsKept DEF PreloaderInv, Remembered
<1>7. [tracks |-> tracks, toPreload |-> tracksToPreload, jobs |-> jobs']
         \in Ordered(Remembered)
  BY <1>3, <1>4, InvFacts, IsInOrder DEF Known
<1>8. List' = [tracks |-> tracks, toPreload |-> tracksToPreload, jobs |-> jobs']
  BY <1>5 DEF List
<1>. QED  BY Zenon, <1>6, <1>7, <1>8 DEF PreloaderInv

(* A job is over: its track has another status.                            *)
LEMMA JobIsOver ==
    ASSUME PreloaderInv, NEW id \in DOMAIN jobs, NEW status \in {"Failed", "Preloaded"}
    PROVE  /\ id \in Known
           /\ [List EXCEPT !.tracks = With(tracks, id, status), !.jobs = Without(@, id)]
                 \in Ordered(Remembered)
<1>. DEFINE more == With(tracks, id, status)
            fewer == Without(jobs, id)
            over == [List EXCEPT !.tracks = more, !.jobs = Without(@, id)]
<1>1. /\ tracks \in Maps(Status) /\ jobs \in Maps(JobStates) /\ tracksToPreload \in Seq(Nat)
      /\ Known \subseteq Remembered
      /\ DOMAIN jobs = {x \in Known : tracks[x] = "Processing"}
      /\ IsFiniteSet(DOMAIN jobs) /\ Cardinality(DOMAIN jobs) <= MaxJobs
  BY InvFacts
<1>2. id \in Known /\ id \in Nat /\ status \in Status /\ status # "Processing"
  BY <1>1, MapProperties DEF Status
<1>3. more \in Maps(Status) /\ Extends(more, tracks, id, status)
  BY Zenon, <1>1, <1>2, WithProperties
<1>4. fewer \in Maps(JobStates) /\ Restricts(fewer, jobs, id)
  BY Zenon, <1>1, WithoutProperties
<1>. HIDE DEF more
<1>5. over \in JobLists /\ over.tracks = more /\ over.jobs = fewer
  <2>1. List \in JobLists /\ List.jobs = jobs
    BY InvFacts DEF Ordered, List
  <2>2. over = [List EXCEPT !.tracks = more, !.jobs = fewer]
    BY Zenon, <2>1
  <2>. HIDE DEF fewer, over
  <2>. QED  BY Zenon, <1>3, <1>4, <2>1, <2>2 DEF JobLists
<1>. HIDE DEF fewer, over
<1>6. DOMAIN more \subseteq Remembered
  BY <1>1, <1>2, <1>3 DEF Extends, Known
<1>7. DOMAIN fewer = {x \in DOMAIN more : more[x] = "Processing"}
  BY <1>1, <1>2, <1>3, <1>4 DEF Extends, Restricts, Known
<1>8. IsFiniteSet(DOMAIN fewer) /\ Cardinality(DOMAIN fewer) <= MaxJobs
  <2>1. DOMAIN fewer \in SUBSET DOMAIN jobs
    BY <1>4 DEF Restricts
  <2>2. IsFiniteSet(DOMAIN fewer) /\ Cardinality(DOMAIN fewer) <= Cardinality(DOMAIN jobs)
    BY <1>1, <2>1, FS_Subset
  <2>3. Cardinality(DOMAIN fewer) \in Nat /\ Cardinality(DOMAIN jobs) \in Nat /\ MaxJobs \in Nat
    BY <1>1, <2>2, FS_CardinalityType, PreloaderConstants
  <2>. QED  BY <1>1, <2>2, <2>3
<1>9. over \in Ordered(Remembered)
  BY <1>5, <1>6, <1>7, <1>8 DEF Ordered
<1>. QED  BY <1>2, <1>9 DEF over, more

LEMMA PreloadFailedKeepsInv ==
    ASSUME PreloaderInv, NEW id \in DOMAIN jobs, PreloadFailed(id)
    PROVE  PreloaderInv'
<1>1. PICK l : l = [List EXCEPT !.tracks = With(tracks, id, "Failed"),
                                !.jobs = Without(@, id)]
  OBVIOUS
<1>2. id \in Known /\ l \in Ordered(Remembered)
  BY Zenon, <1>1, JobIsOver
<1>3. CheckForJobsToStart(l)
  BY Zenon, <1>1, <1>2 DEF PreloadFailed
<1>4. UNCHANGED queueVars /\ UNCHANGED tracksRemoved
  BY DEF PreloadFailed
<1>. QED  BY <1>2, <1>3, <1>4, StartingKeepsInv

LEMMA PreloadFinishedKeepsInv ==
    ASSUME PreloaderInv, NEW id \in DOMAIN jobs, PreloadFinished(id)
    PROVE  PreloaderInv'
<1>1. PICK l : l = [List EXCEPT !.tracks = With(tracks, id, "Preloaded"),
                                !.jobs = Without(@, id)]
  OBVIOUS
<1>2. id \in Known /\ l \in Ordered(Remembered)
  BY Zenon, <1>1, JobIsOver
<1>3. CheckForJobsToStart(l)
  BY Zenon, <1>1, <1>2 DEF PreloadFinished
<1>4. UNCHANGED queueVars /\ UNCHANGED tracksRemoved
  BY DEF PreloadFinished
<1>. QED  BY <1>2, <1>3, <1>4, StartingKeepsInv

(* What the check for what has expired leads to.                           *)
LEMMA ExpirationEnds ==
    ASSUME PreloaderInv, CheckForCacheExpiration
    PROVE  /\ tracksRemoved' \in Seq(Nat) /\ tracks' \in Maps(Status)
           /\ DOMAIN tracks' \subseteq InQueue \cup ToSet(tracksRemoved')
           /\ {id \in DOMAIN tracks' : tracks'[id] = "Processing"} = DOMAIN jobs
           /\ \A id \in disk \ disk' : ~ Locked(id)
<1>. DEFINE start == [i |-> 0, removed |-> tracksRemoved, tracks |-> tracks,
                      disk |-> disk]
            after == Expired(ExpirationLimit, start)
<1>1. ExpirationLimit \in Nat
  BY PreloaderConstants
<1>2. tracksRemoved' = after.removed /\ tracks' = after.tracks /\ disk' = after.disk
  BY Zenon DEF CheckForCacheExpiration, Expired
<1>3. start \in Expiring
  <2>1. /\ start \in States /\ start.removed = tracksRemoved
        /\ start.tracks = tracks /\ start.disk = disk
    BY InvFacts DEF PreloaderInv, States
  <2>2. /\ Known \subseteq InQueue \cup ToSet(tracksRemoved)
        /\ {id \in Known : tracks[id] = "Processing"} = DOMAIN jobs
    BY InvFacts DEF Remembered
  <2>. HIDE DEF start
  <2>. QED  BY <2>1, <2>2 DEF Expiring, Known
<1>. HIDE DEF start
<1>4. PICK f : after = f[ExpirationLimit] /\ ExpirySteps(f, ExpirationLimit, start)
  BY <1>1, ExpiryLoop
<1>5. \A k \in 1..ExpirationLimit : f[k - 1] \in Expiring => f[k] \in Expiring
  BY <1>4, ExpiryKeepsOrder DEF ExpirySteps
<1>6. after \in Expiring
  BY <1>1, <1>3, <1>4, <1>5, LoopStays DEF ExpirySteps
<1>. HIDE DEF after
<1>. QED  BY <1>2, <1>6 DEF Expiring, States

LEMMA CheckForCacheExpirationKeepsInv ==
    ASSUME PreloaderInv, CheckForCacheExpiration
    PROVE  PreloaderInv'
<1>1. UNCHANGED <<queueVars, tracksToPreload, jobs>>
  BY DEF CheckForCacheExpiration
<1>2. QueueInv' /\ InQueue' = InQueue
  BY <1>1, QueueIsKept DEF PreloaderInv
<1>3. /\ tracksRemoved' \in Seq(Nat) /\ tracks' \in Maps(Status)
      /\ DOMAIN tracks' \subseteq Remembered'
      /\ DOMAIN jobs = {id \in DOMAIN tracks' : tracks'[id] = "Processing"}
  BY <1>2, ExpirationEnds DEF Remembered
<1>4. [tracks |-> tracks', toPreload |-> tracksToPreload, jobs |-> jobs]
         \in Ordered(Remembered')
  BY <1>3, InvFacts, IsInOrder
<1>5. List' = [tracks |-> tracks', toPreload |-> tracksToPreload, jobs |-> jobs]
  BY <1>1 DEF List
<1>. QED  BY Zenon, <1>2, <1>3, <1>4, <1>5 DEF PreloaderInv

LEMMA GetPreloadedCacheFileKeepsInv ==
    ASSUME PreloaderInv, NEW id, GetPreloadedCacheFile(id)
    PROVE  PreloaderInv'
<1>1. UNCHANGED <<queueVars, tracksToPreload, tracksRemoved, jobs>>
  BY DEF GetPreloadedCacheFile
<1>2. QueueInv' /\ tracksRemoved' \in Seq(Nat) /\ Remembered' = Remembered
  BY <1>1, QueueIsKept DEF PreloaderInv, Remembered
<1>3. CASE UNCHANGED tracks
  BY <1>1, <1>2, <1>3, InvFacts, ListStays
<1>4. CASE tracks' = Without(tracks, id)
  <2>1. tracks[id] = "Preloaded"
    BY DEF GetPreloadedCacheFile
  <2>2. tracks' \in Maps(Status) /\ Restricts(tracks', tracks, id)
    BY Zenon, <1>4, InvFacts, WithoutProperties
  <2>3. /\ DOMAIN tracks' \subseteq Remembered
        /\ DOMAIN jobs = {x \in DOMAIN tracks' : tracks'[x] = "Processing"}
    BY <2>1, <2>2, InvFacts DEF Restricts, Known
  <2>4. [tracks |-> tracks', toPreload |-> tracksToPreload, jobs |-> jobs]
           \in Ordered(Remembered)
    BY <2>2, <2>3, InvFacts, IsInOrder
  <2>5. List' = [tracks |-> tracks', toPreload |-> tracksToPreload, jobs |-> jobs]
    BY <1>1 DEF List
  <2>. QED  BY Zenon, <1>2, <2>4, <2>5 DEF PreloaderInv
<1>. QED  BY <1>3, <1>4 DEF GetPreloadedCacheFile

LEMMA NothingChangesKeepsInv ==
    ASSUME PreloaderInv, UNCHANGED queueVars,
           UNCHANGED <<tracks, tracksToPreload, tracksRemoved, jobs>>
    PROVE  PreloaderInv'
<1>1. QueueInv' /\ tracksRemoved' \in Seq(Nat) /\ Remembered' = Remembered
  BY QueueIsKept DEF PreloaderInv, Remembered
<1>. QED  BY <1>1, InvFacts, ListStays

LEMMA PreloaderInitInv ==
    ASSUME PreloaderInit
    PROVE  PreloaderInv
<1>1. QueueInv
  BY QueueInitInv DEF PreloaderInit
<1>2. tracks = << >> /\ tracksToPreload = << >> /\ tracksRemoved = << >> /\ jobs = << >>
  BY DEF PreloaderInit
<1>3. DOMAIN tracks = {} /\ DOMAIN jobs = {}
  BY <1>2
<1>4. tracks \in Maps(Status) /\ jobs \in Maps(JobStates)
  <2>1. tracks \in [{} -> Status] /\ jobs \in [{} -> JobStates]
    BY <1>2
  <2>. QED  BY <2>1 DEF Maps
<1>5. IsFiniteSet(DOMAIN jobs) /\ Cardinality(DOMAIN jobs) <= MaxJobs
  BY <1>3, FS_EmptySet, PreloaderConstants
<1>6. tracksToPreload \in Seq(Nat) /\ tracksRemoved \in Seq(Nat)
  BY <1>2
<1>7. List \in Ordered(Remembered)
  BY <1>3, <1>4, <1>5, <1>6, IsInOrder DEF List
<1>. QED  BY <1>1, <1>6, <1>7 DEF PreloaderInv

LEMMA PreloaderNextInv == PreloaderInv /\ [PreloaderNext]_preloadingVars => PreloaderInv'
<1>. SUFFICES ASSUME PreloaderInv, [PreloaderNext]_preloadingVars
              PROVE  PreloaderInv'
  OBVIOUS
<1>1. CASE QueueTells
  BY <1>1, QueueTellsKeepsInv
<1>2. CASE CheckFirstTrack
  BY <1>2, CheckFirstTrackKeepsInv
<1>3. CASE CheckForTracksToPreload
  BY <1>3, CheckForTracksToPreloadKeepsInv
<1>4. CASE CheckForCacheExpiration
  BY <1>4, CheckForCacheExpirationKeepsInv
<1>5. ASSUME NEW id \in Ids, JobStep(id)  PROVE PreloaderInv'
  BY <1>5, JobEndsKeepsInv, PreloadFailedKeepsInv, PreloadFinishedKeepsInv DEF JobStep
<1>6. ASSUME NEW id \in Ids, GetPreloadedCacheFile(id)  PROVE PreloaderInv'
  BY <1>6, GetPreloadedCacheFileKeepsInv
<1>7. ASSUME NEW id \in Ids, DoUnlock(id)  PROVE PreloaderInv'
  BY <1>7, NothingChangesKeepsInv DEF DoUnlock
<1>8. ASSUME NEW id \in Ids, FileIsLost(id)  PROVE PreloaderInv'
  BY <1>8, NothingChangesKeepsInv DEF FileIsLost
<1>9. CASE UNCHANGED preloadingVars
  BY <1>9, NothingChangesKeepsInv DEF preloadingVars, preloaderVars
<1>. QED  BY <1>1, <1>2, <1>3, <1>4, <1>5, <1>6, <1>7, <1>8, <1>9 DEF PreloaderNext

(* Nothing that the preloader remembers is forgotten in its tables, and a  *)
(* track is being processed just as long as its job runs: for queues of    *)
(* every length, any limits, and any number of lost files.                 *)
THEOREM TracksStayLookedAfter == PreloaderSpec => []TracksAreLookedAfter
<1>1. PreloaderInit => PreloaderInv
  BY PreloaderInitInv
<1>2. PreloaderInv /\ [PreloaderNext]_preloadingVars => PreloaderInv'
  BY PreloaderNextInv
<1>3. PreloaderInv => TracksAreLookedAfter
  BY InvFacts DEF TracksAreLookedAfter, Remembered
<1>. QED  BY <1>1, <1>2, <1>3, PTL DEF PreloaderSpec

(* Only the outside world takes a file away that the player has locked.    *)
LEMMA StepsKeepLockedFiles ==
    ASSUME PreloaderInv, PreloaderNext, ~ \E id \in Ids : FileIsLost(id)
    PROVE  \A id \in disk : Locked(id) => id \in disk'
<1>1. CASE CheckForCacheExpiration
  BY <1>1, ExpirationEnds
<1>2. ASSUME NEW id \in Ids, JobStep(id)  PROVE disk \subseteq disk'
  <2>1. id \in Known
    BY <1>2, InvFacts DEF JobStep
  <2>. QED  BY <1>2, <2>1 DEF JobStep, JobEnds, PreloadFailed, PreloadFinished
<1>3. CASE QueueTells \/ CheckFirstTrack \/ CheckForTracksToPreload
  BY <1>3 DEF QueueTells, CheckFirstTrack, CheckForTracksToPreload
<1>4. ASSUME NEW id \in Ids, GetPreloadedCacheFile(id) \/ DoUnlock(id)
      PROVE  disk' = disk
  BY <1>4 DEF GetPreloadedCacheFile, DoUnlock
<1>. QED  BY <1>1, <1>2, <1>3, <1>4 DEF PreloaderNext

(* The preloader never deletes a file while a player instance has it       *)
(* locked, neither when it cleans up nor when a result comes in late: for  *)
(* any number of locks, files and jobs.                                    *)
THEOREM LockedFilesAreKept == PreloaderSpec => LockedFilesStay
<1>. DEFINE Kept == (\E id \in Ids : FileIsLost(id))
                    \/ \A id \in disk : Locked(id) => id \in disk'
<1>1. PreloaderInit => PreloaderInv
  BY PreloaderInitInv
<1>2. PreloaderInv /\ [PreloaderNext]_preloadingVars => PreloaderInv'
  BY PreloaderNextInv
<1>3. PreloaderInv /\ [PreloaderNext]_preloadingVars => [Kept]_preloadingVars
  BY StepsKeepLockedFiles
<1>. QED  BY <1>1, <1>2, <1>3, PTL DEF PreloaderSpec, LockedFilesStay
=============================================================================
