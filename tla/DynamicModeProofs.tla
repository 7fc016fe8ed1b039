------------------------- MODULE DynamicModeProofs -------------------------
(***************************************************************************)
(* Proofs about dynamic mode, for any finite set of tracks, any users and  *)
(* any sizes: no track gets lost or is handed out twice, everything that   *)
(* has to be done later has a timer, what is added to the queue fits, and  *)
(* preferences come back.                                                  *)
(***************************************************************************)
EXTENDS DynamicMode, SequenceTheorems, FiniteSetTheorems, WellFoundedInduction,
        TLAPS

-----------------------------------------------------------------------------
(* Loops.                                                                  *)

(* A set of natural numbers that is not empty has a smallest element:      *)
(* strict inclusion is well-founded on finite sets, and the initial        *)
(* segments of its elements are such sets.                                 *)
LEMMA LeastNumber ==
    ASSUME NEW T \in SUBSET Nat, T # {}
    PROVE  \E x \in T : \A y \in T : x <= y
  <1> DEFINE Initials == {0..x : x \in T}
             R == StrictSubsetOrdering(Nat)
  <1>1. IsWellFoundedOn(R, FiniteSubsetsOf(Nat))
    BY FS_StrictSubsetOrderingWellFounded
  <1>2. Initials \subseteq FiniteSubsetsOf(Nat) /\ Initials # {}
    <2>1. ASSUME NEW x \in T
          PROVE  0..x \in FiniteSubsetsOf(Nat)
      <3>1. x \in Int /\ 0 \in Int
        OBVIOUS
      <3>2. IsFiniteSet(0..x)
        BY <3>1, FS_Interval
      <3> QED BY <3>2 DEF FiniteSubsetsOf
    <2> QED BY <2>1
  <1> HIDE DEF R, Initials
  <1>3. PICK least \in Initials : \A s \in Initials : <<s, least>> \notin R
    BY <1>1, <1>2, WFMin
  <1>4. PICK x \in T : least = 0..x
    BY DEF Initials
  <1>5. ASSUME NEW y \in T, y < x
        PROVE  FALSE
    <2>1. 0..y \in Initials /\ x \in Nat /\ y \in Nat
      BY DEF Initials
    <2>2. 0..y \subseteq 0..x /\ x \in 0..x /\ x \notin 0..y
      BY <1>5, <2>1
    <2>3. <<0..y, 0..x>> \in R
      BY <2>1, <2>2 DEF R, StrictSubsetOrdering
    <2> QED BY <1>3, <1>4, <2>1, <2>3
  <1> QED BY <1>5

(* A set that 0 is in, and each number when its predecessor is, has all.   *)
LEMMA CountUp ==
    ASSUME NEW n \in Nat, NEW Good, 0 \in Good,
           \A k \in 1..n : k - 1 \in Good => k \in Good
    PROVE  0..n \subseteq Good
  <1> DEFINE Bad == {k \in 0..n : k \notin Good}
  <1> SUFFICES ASSUME Bad # {} PROVE FALSE
    OBVIOUS
  <1>1. Bad \in SUBSET Nat
    OBVIOUS
  <1>2. PICK k \in Bad : \A j \in Bad : k <= j
    <2> HIDE DEF Bad
    <2> QED BY <1>1, LeastNumber
  <1>3. k \in 1..n /\ k - 1 \in 0..n /\ ~ k <= k - 1
    BY <1>2
  <1> QED BY <1>2, <1>3

(* What holds at first and after each round of a loop holds after all.     *)
LEMMA LoopStays ==
    ASSUME NEW S, NEW n \in Nat, NEW after, after[0] \in S,
           \A k \in 1..n : after[k - 1] \in S => after[k] \in S
    PROVE  \A k \in 0..n : after[k] \in S
  <1> DEFINE Good == {k \in 0..n : after[k] \in S}
  <1>1. 0 \in Good /\ \A k \in 1..n : k - 1 \in Good => k \in Good
    OBVIOUS
  <1>2. 0..n \subseteq Good
    <2> HIDE DEF Good
    <2> QED BY <1>1, CountUp
  <1> QED BY <1>2

(* The results of the first rounds can be listed, however many they are.   *)
LEMMA LoopExists ==
    ASSUME NEW S, NEW x \in S, NEW n \in Nat, NEW step \in [1..n -> [S -> S]]
    PROVE  \E after \in [0..n -> S] :
              after[0] = x /\ \A k \in 1..n : after[k] = step[k][after[k - 1]]
  <1> DEFINE Listed(m, f) ==
                 f[0] = x /\ \A k \in 1..m : f[k] = step[k][f[k - 1]]
             Bad == {m \in 0..n : ~ \E f \in [0..m -> S] : Listed(m, f)}
  <1>1. Bad = {}
    <2> SUFFICES ASSUME Bad # {} PROVE FALSE
      OBVIOUS
    <2>1. Bad \in SUBSET Nat
      OBVIOUS
    <2>2. PICK m \in Bad : \A j \in Bad : m <= j
      <3> HIDE DEF Bad
      <3> QED BY <2>1, LeastNumber
    <2>3. m # 0
      <3> DEFINE f == [k \in 0..0 |-> x]
      <3>1. Listed(0, f) /\ f \in [0..0 -> S]
        OBVIOUS
      <3>2. 0 \notin Bad
        <4> HIDE DEF f, Listed
        <4> QED BY <3>1
      <3> HIDE DEF Bad
      <3> QED BY <2>2, <3>2
    <2>4. m \in 1..n /\ m - 1 \in 0..n /\ ~ m <= m - 1
      BY <2>2, <2>3
    <2>5. PICK f \in [0..m-1 -> S] : Listed(m - 1, f)
      BY <2>2, <2>4
    <2> DEFINE h == [k \in 0..m |-> IF k = m THEN step[m][f[m - 1]] ELSE f[k]]
    <2>6. step[m][f[m - 1]] \in S
      BY <2>4, <2>5
    <2>7. h \in [0..m -> S]
      BY <2>4, <2>5, <2>6
    <2>8. Listed(m, h)
      <3>1. ASSUME NEW k \in 1..m, k # m
            PROVE  h[k] = step[k][h[k - 1]]
        <4>1. k \in 1..m-1 /\ k \in 0..m /\ k - 1 \in 0..m /\ k - 1 # m
          BY <2>4, <3>1
        <4>2. h[k] = f[k] /\ h[k - 1] = f[k - 1]
          BY <3>1, <4>1
        <4> QED BY <2>5, <4>1, <4>2
      <3>2. h[m] = step[m][h[m - 1]]
        BY <2>4
      <3>3. h[0] = x
        BY <2>3, <2>4, <2>5
      <3> QED BY <3>1, <3>2, <3>3
    <2> QED BY <2>2, <2>7, <2>8
  <1>2. n \notin Bad
    BY <1>1
  <1> QED BY <1>2

-----------------------------------------------------------------------------
(* Lists of tracks.                                                        *)

(* The empty list, and a list with one more element.                       *)
LEMMA EmptyList ==
    << >> \in Seq(Hashes) /\ ToSet(<< >>) = {} /\ IsInjective(<< >>)
  BY DEF ToSet, IsInjective

LEMMA AppendedList ==
    ASSUME NEW c \in Seq(Hashes), NEW h \in Hashes
    PROVE  /\ Append(c, h) \in Seq(Hashes)
           /\ ToSet(Append(c, h)) = ToSet(c) \cup {h}
           /\ IsInjective(c) /\ h \notin ToSet(c) => IsInjective(Append(c, h))
  <1>1. /\ Len(Append(c, h)) = Len(c) + 1 /\ Append(c, h)[Len(c) + 1] = h
        /\ \A i \in 1..Len(c) : Append(c, h)[i] = c[i]
        /\ Append(c, h) \in Seq(Hashes)
    OBVIOUS
  <1>2. ToSet(Append(c, h)) = ToSet(c) \cup {h}
    BY <1>1 DEF ToSet
  <1>3. ASSUME IsInjective(c), h \notin ToSet(c) PROVE IsInjective(Append(c, h))
    <2> SUFFICES ASSUME NEW i \in 1..Len(c) + 1, NEW j \in 1..Len(c) + 1,
                        Append(c, h)[i] = Append(c, h)[j]
                 PROVE  i = j
      BY <1>1 DEF IsInjective
    <2>1. \A k \in 1..Len(c) : c[k] # h
      BY <1>3 DEF ToSet
    <2>2. CASE i \in 1..Len(c) /\ j \in 1..Len(c)
      BY <1>1, <1>3, <2>2 DEF IsInjective
    <2>3. CASE i = Len(c) + 1 \/ j = Len(c) + 1
      BY <1>1, <2>1, <2>3
    <2> QED BY <2>2, <2>3
  <1> QED BY <1>1, <1>2, <1>3

(* One list after another.                                                 *)
LEMMA JoinedLists ==
    ASSUME NEW c \in Seq(Hashes), NEW d \in Seq(Hashes)
    PROVE  /\ c \o d \in Seq(Hashes)
           /\ ToSet(c \o d) = ToSet(c) \cup ToSet(d)
           /\ IsInjective(c \o d) <=>
                  /\ IsInjective(c) /\ IsInjective(d)
                  /\ ToSet(c) \cap ToSet(d) = {}
  <1>1. /\ c \o d \in Seq(Hashes) /\ Len(c \o d) = Len(c) + Len(d)
        /\ \A i \in 1..Len(c) : (c \o d)[i] = c[i]
        /\ \A i \in 1..Len(d) : (c \o d)[Len(c) + i] = d[i]
    OBVIOUS
  <1> DEFINE e == c \o d
  <1>2. \A i \in 1..Len(e) : i \in 1..Len(c) \/
            (i - Len(c) \in 1..Len(d) /\ e[i] = d[i - Len(c)])
    <2> SUFFICES ASSUME NEW i \in 1..Len(e), i \notin 1..Len(c)
                 PROVE  i - Len(c) \in 1..Len(d) /\ e[i] = d[i - Len(c)]
      OBVIOUS
    <2>1. i - Len(c) \in 1..Len(d) /\ Len(c) + (i - Len(c)) = i
      BY <1>1
    <2> QED BY <1>1, <2>1
  <1>3. /\ \A i \in 1..Len(c) : i \in 1..Len(e) /\ e[i] = c[i]
        /\ \A i \in 1..Len(d) : Len(c) + i \in 1..Len(e) /\ e[Len(c) + i] = d[i]
    BY <1>1
  <1> HIDE DEF e
  <1>4. DOMAIN e = 1..Len(e) /\ DOMAIN c = 1..Len(c) /\ DOMAIN d = 1..Len(d)
        /\ Len(c) \in Nat /\ Len(d) \in Nat
    BY <1>1 DEF e
  <1>5. ToSet(e) = ToSet(c) \cup ToSet(d)
    <2>1. ToSet(e) \subseteq ToSet(c) \cup ToSet(d)
      BY <1>2, <1>3, <1>4 DEF ToSet
    <2>2. ToSet(c) \subseteq ToSet(e) /\ ToSet(d) \subseteq ToSet(e)
      BY <1>3, <1>4 DEF ToSet
    <2> QED BY <2>1, <2>2
  <1>6. ASSUME IsInjective(e)
        PROVE  IsInjective(c) /\ IsInjective(d) /\ ToSet(c) \cap ToSet(d) = {}
    <2>1. IsInjective(c)
      BY <1>3, <1>4, <1>6 DEF IsInjective
    <2>2. IsInjective(d)
      <3> SUFFICES ASSUME NEW i \in 1..Len(d), NEW j \in 1..Len(d), d[i] = d[j]
                   PROVE  i = j
        BY <1>4 DEF IsInjective
      <3>1. Len(c) + i = Len(c) + j
        BY <1>3, <1>4, <1>6 DEF IsInjective
      <3> QED BY <1>4, <3>1
    <2>3. ASSUME NEW i \in 1..Len(c), NEW j \in 1..Len(d), c[i] = d[j]
          PROVE  FALSE
      <3>1. i = Len(c) + j
        BY <1>3, <1>4, <1>6, <2>3 DEF IsInjective
      <3> QED BY <1>4, <3>1
    <2>4. ToSet(c) \cap ToSet(d) = {}
      BY <1>4, <2>3 DEF ToSet
    <2> QED BY <2>1, <2>2, <2>4
  <1>7. ASSUME IsInjective(c), IsInjective(d), ToSet(c) \cap ToSet(d) = {}
        PROVE  IsInjective(e)
    <2>1. \A i \in 1..Len(c), j \in 1..Len(d) : c[i] # d[j]
      BY <1>4, <1>7 DEF ToSet
    <2> SUFFICES ASSUME NEW i \in 1..Len(e), NEW j \in 1..Len(e), e[i] = e[j]
                 PROVE  i = j
      BY <1>4 DEF IsInjective
    <2>2. CASE i \in 1..Len(c) /\ j \in 1..Len(c)
      BY <1>3, <1>4, <1>7, <2>2 DEF IsInjective
    <2>3. CASE i \in 1..Len(c) /\ j \notin 1..Len(c)
      BY <1>2, <1>3, <2>1, <2>3
    <2>4. CASE i \notin 1..Len(c) /\ j \in 1..Len(c)
      BY <1>2, <1>3, <2>1, <2>4
    <2>5. CASE i \notin 1..Len(c) /\ j \notin 1..Len(c)
      <3>1. i - Len(c) = j - Len(c)
        BY <1>2, <1>4, <1>7, <2>5 DEF IsInjective
      <3> QED BY <1>4, <3>1
    <2> QED BY <2>2, <2>3, <2>4, <2>5
  <1> QED BY <1>1, <1>5, <1>6, <1>7 DEF e

(* A list is what is before some place and what is after it.               *)
LEMMA SplitList ==
    ASSUME NEW seq \in Seq(Hashes), NEW n \in 0..Len(seq)
    PROVE  /\ SubSeq(seq, 1, n) \in Seq(Hashes)
           /\ SubSeq(seq, n + 1, Len(seq)) \in Seq(Hashes)
           /\ ToSet(seq) = ToSet(SubSeq(seq, 1, n)) \cup ToSet(SubSeq(seq, n + 1, Len(seq)))
           /\ IsInjective(seq) =>
                  /\ IsInjective(SubSeq(seq, 1, n))
                  /\ IsInjective(SubSeq(seq, n + 1, Len(seq)))
                  /\ ToSet(SubSeq(seq, 1, n)) \cap ToSet(SubSeq(seq, n + 1, Len(seq))) = {}
  <1> DEFINE p == SubSeq(seq, 1, n)
             r == SubSeq(seq, n + 1, Len(seq))
  <1>1. /\ p \in Seq(Hashes) /\ Len(p) = n /\ \A i \in 1..n : p[i] = seq[i]
        /\ r \in Seq(Hashes) /\ Len(r) = Len(seq) - n
        /\ \A i \in 1..Len(seq) - n : r[i] = seq[n + i]
    OBVIOUS
  <1> HIDE DEF p, r
  <1>2. \A i \in 1..Len(seq) : (p \o r)[i] = seq[i]
    <2>1. ASSUME NEW i \in 1..Len(seq), i <= n PROVE (p \o r)[i] = seq[i]
      BY <1>1, <2>1
    <2>2. ASSUME NEW i \in 1..Len(seq), ~ i <= n PROVE (p \o r)[i] = seq[i]
      <3>1. (p \o r)[i] = r[i - n]
        BY <1>1, <2>2
      <3>2. i - n \in 1..Len(seq) - n /\ n + (i - n) = i
        BY <1>1, <2>2
      <3> QED BY <1>1, <3>1, <3>2
    <2> QED BY <2>1, <2>2
  <1>3. p \o r \in Seq(Hashes) /\ Len(p \o r) = Len(seq)
    BY <1>1
  <1>4. p \o r = seq
    <2> DEFINE joined == p \o r
    <2>1. joined \in Seq(Hashes) /\ Len(joined) = Len(seq)
          /\ \A i \in 1..Len(joined) : joined[i] = seq[i]
      BY <1>2, <1>3
    <2> HIDE DEF joined
    <2>2. joined = seq
      BY <2>1, SeqEqual
    <2> QED BY <2>2 DEF joined
  <1>5. /\ ToSet(seq) = ToSet(p) \cup ToSet(r)
        /\ IsInjective(seq) => IsInjective(p) /\ IsInjective(r) /\ ToSet(p) \cap ToSet(r) = {}
    BY <1>1, <1>4, JoinedLists
  <1> QED BY <1>1, <1>5 DEF p, r

(* The last element of a list, and the others.                             *)
LEMMA LastOfList ==
    ASSUME NEW seq \in Seq(Hashes), seq # << >>
    PROVE  /\ Front(seq) \in Seq(Hashes) /\ Last(seq) \in Hashes
           /\ ToSet(seq) = ToSet(Front(seq)) \cup {Last(seq)}
           /\ IsInjective(seq) =>
                  IsInjective(Front(seq)) /\ Last(seq) \notin ToSet(Front(seq))
  <1> DEFINE n == Len(seq) - 1
             r == SubSeq(seq, n + 1, Len(seq))
  <1>1. n \in 0..Len(seq) /\ Len(seq) \in 1..Len(seq) /\ Last(seq) = seq[Len(seq)]
    BY DEF Last
  <1>2. Front(seq) = SubSeq(seq, 1, n)
    BY DEF Front
  <1>3. ToSet(r) = {Last(seq)}
    <2>1. Len(r) = 1 /\ r[1] = seq[Len(seq)] /\ r \in Seq(Hashes)
      BY <1>1
    <2> HIDE DEF r
    <2> QED BY <1>1, <2>1 DEF ToSet
  <1> HIDE DEF n
  <1>4. SubSeq(seq, 1, n) \in Seq(Hashes) /\ ToSet(seq) = ToSet(SubSeq(seq, 1, n)) \cup ToSet(r)
        /\ (IsInjective(seq) => IsInjective(SubSeq(seq, 1, n))
                               /\ ToSet(SubSeq(seq, 1, n)) \cap ToSet(r) = {})
    BY <1>1, SplitList
  <1> HIDE DEF r
  <1>5. Last(seq) \in Hashes
    BY <1>1
  <1> QED BY <1>2, <1>3, <1>4, <1>5

(* What is selected of a list.                                             *)
LEMMA SelectedOf ==
    ASSUME NEW seq \in Seq(Hashes), NEW S
    PROVE  /\ Selected(seq, S) \in Seq(Hashes)
           /\ ToSet(Selected(seq, S)) = ToSet(seq) \cap S
           /\ IsInjective(seq) => IsInjective(Selected(seq, S))
  <1> DEFINE Chosen(f) == f = [i \in 0..Len(seq) |->
                 IF i = 0 THEN << >>
                 ELSE IF seq[i] \in S THEN Append(f[i - 1], seq[i]) ELSE f[i - 1]]
             chosen == CHOOSE f : Chosen(f)
             First(i) == {seq[j] : j \in 1..i}
             Right(i) == /\ chosen[i] \in Seq(Hashes)
                         /\ ToSet(chosen[i]) = First(i) \cap S
                         /\ IsInjective(seq) => IsInjective(chosen[i])
  <1>1. Chosen(chosen)
    <2> DEFINE step == [i \in 1..Len(seq) |-> [c \in Seq(Hashes) |->
                           IF seq[i] \in S THEN Append(c, seq[i]) ELSE c]]
    <2>1. step \in [1..Len(seq) -> [Seq(Hashes) -> Seq(Hashes)]]
      OBVIOUS
    <2>2. Len(seq) \in Nat /\ << >> \in Seq(Hashes)
      OBVIOUS
    <2>3. PICK f \in [0..Len(seq) -> Seq(Hashes)] :
              f[0] = << >> /\ \A i \in 1..Len(seq) : f[i] = step[i][f[i - 1]]
      <3> DEFINE n == Len(seq)
                 empty == << >>
                 lists == Seq(Hashes)
      <3>1. n \in Nat /\ empty \in lists /\ step \in [1..n -> [lists -> lists]]
        BY <2>1, <2>2
      <3> HIDE DEF step, n, empty, lists
      <3>2. \E f \in [0..n -> lists] :
                f[0] = empty /\ \A i \in 1..n : f[i] = step[i][f[i - 1]]
        BY <3>1, LoopExists
      <3> QED BY <3>2 DEF n, empty, lists
    <2>4. \A i \in 0..Len(seq) : f[i] = IF i = 0 THEN << >>
              ELSE IF seq[i] \in S THEN Append(f[i - 1], seq[i]) ELSE f[i - 1]
      <3>1. ASSUME NEW i \in 0..Len(seq), i # 0
            PROVE  f[i] = IF seq[i] \in S THEN Append(f[i - 1], seq[i]) ELSE f[i - 1]
        <4>1. i \in 1..Len(seq) /\ i - 1 \in 0..Len(seq)
          BY <3>1
        <4>2. f[i] = step[i][f[i - 1]] /\ f[i - 1] \in Seq(Hashes)
          <5> HIDE DEF step
          <5> QED BY <2>3, <3>1, <4>1
        <4> QED BY <4>1, <4>2
      <3>2. f[0] = << >>
        <4> HIDE DEF step
        <4> QED BY <2>2, <2>3
      <3> QED BY <3>1, <3>2
    <2>5. Chosen(f)
      BY <2>3, <2>4
    <2> HIDE DEF Chosen
    <2> QED BY <2>5, Zenon
  <1>2. Selected(seq, S) = chosen[Len(seq)]
    BY Zenon DEF Selected
  <1> HIDE DEF chosen
  <1>3. \A i \in 0..Len(seq) : chosen[i] = IF i = 0 THEN << >>
            ELSE IF seq[i] \in S THEN Append(chosen[i - 1], seq[i]) ELSE chosen[i - 1]
    BY <1>1
  <1>4. Right(0)
    <2>1. chosen[0] = << >>
      BY <1>3
    <2>2. First(0) = {}
      OBVIOUS
    <2> QED BY <2>1, <2>2, EmptyList
  <1>5. ASSUME NEW i \in 1..Len(seq), Right(i - 1)
        PROVE  Right(i)
    <2>1. First(i) = First(i - 1) \cup {seq[i]} /\ seq[i] \in Hashes /\ i # 0 /\ i \in 0..Len(seq)
      OBVIOUS
    <2>2. IsInjective(seq) => seq[i] \notin First(i - 1)
      BY DEF IsInjective
    <2> HIDE DEF First
    <2>3. CASE seq[i] \in S
      <3>1. chosen[i] = Append(chosen[i - 1], seq[i])
        BY <1>3, <2>1, <2>3
      <3> DEFINE c == chosen[i - 1]
      <3>2. c \in Seq(Hashes) /\ ToSet(c) = First(i - 1) \cap S
            /\ (IsInjective(seq) => IsInjective(c))
        BY <1>5
      <3> HIDE DEF c
      <3> QED BY <2>1, <2>2, <2>3, <3>1, <3>2, AppendedList DEF c
    <2>4. CASE seq[i] \notin S
      <3>1. chosen[i] = chosen[i - 1]
        BY <1>3, <2>1, <2>4
      <3> QED BY <1>5, <2>1, <2>4, <3>1
    <2> QED BY <2>3, <2>4
  <1>6. Right(Len(seq))
    <2> DEFINE Good == {i \in 0..Len(seq) : Right(i)}
    <2>1. Len(seq) \in Nat
      OBVIOUS
    <2>2. 0 \in Good
      <3> HIDE DEF Right
      <3> QED BY <1>4, <2>1
    <2>3. \A i \in 1..Len(seq) : i - 1 \in Good => i \in Good
      <3> HIDE DEF Right
      <3> QED BY <1>5, <2>1
    <2> HIDE DEF Good
    <2>4. 0..Len(seq) \subseteq Good
      BY <2>1, <2>2, <2>3, CountUp
    <2>5. Len(seq) \in Good
      BY <2>1, <2>4
    <2> QED BY <2>5 DEF Good
  <1>7. First(Len(seq)) = ToSet(seq)
    BY DEF ToSet
  <1> QED BY <1>2, <1>6, <1>7

(* An order has each track once.                                           *)
LEMMA OrderOf ==
    ASSUME NEW order \in Orders
    PROVE  order \in Seq(Hashes) /\ IsInjective(order) /\ ToSet(order) = Hashes
  <1> DEFINE n == Cardinality(Hashes)
             D == 1..n
  <1>1. IsFiniteSet(Hashes)
    BY DynamicModeConstants
  <1>2. n \in Nat
    BY <1>1, FS_CardinalityType
  <1> HIDE DEF n
  <1>3. order \in [D -> Hashes] /\ \A i, j \in D : i # j => order[i] # order[j]
    BY DEF Orders, SetToSeqs, n
  <1>4. order \in Seq(Hashes) /\ IsInjective(order)
    BY <1>2, <1>3 DEF IsInjective
  <1>5. IsFiniteSet(D) /\ Cardinality(D) = n
    <2>1. 1 \in Int /\ n \in Int
      BY <1>2
    <2>2. IsFiniteSet(1..n) /\ Cardinality(1..n) = IF 1 > n THEN 0 ELSE n - 1 + 1
      BY <2>1, FS_Interval
    <2> QED BY <1>2, <2>2
  <1>6. order \in Surjection(D, Hashes)
    <2>1. order \in Injection(D, Hashes)
      BY <1>3 DEF Injection, IsInjective
    <2> HIDE DEF D
    <2> QED BY <1>1, <1>5, <2>1, FS_Injection DEF n
  <1>7. ToSet(order) = Hashes
    <2>1. \A h \in Hashes : \E i \in D : order[i] = h
      BY <1>6 DEF Surjection
    <2>2. DOMAIN order = D
      BY <1>3
    <2> HIDE DEF D
    <2>3. \A i \in D : order[i] \in Hashes
      BY <1>3
    <2> QED BY <2>1, <2>2, <2>3 DEF ToSet
  <1> QED BY <1>4, <1>7

(* The best tracks are some of the tracks.                                 *)
LEMMA BestOfTracks ==
    ASSUME NEW tracks \in Seq(Hashes), NEW keepCount, NEW ranking, IsInjective(tracks)
    PROVE  /\ BestOf(tracks, keepCount, ranking) \in Seq(Hashes)
           /\ IsInjective(BestOf(tracks, keepCount, ranking))
           /\ ToSet(BestOf(tracks, keepCount, ranking)) \subseteq ToSet(tracks)
  <1> DEFINE ranked == InOrder(ToSet(tracks), ranking)
             best == {ranked[i] : i \in 1..keepCount}
  <1>1. BestOf(tracks, keepCount, ranking) \in {tracks, Selected(tracks, best)}
    BY DEF BestOf
  <1> HIDE DEF best
  <1> QED BY <1>1, SelectedOf

(* What a generator delivers of a list, and what remains of the list.      *)
LEMMA Delivered ==
    ASSUME NEW seq \in Seq(Hashes), NEW count, NEW good, IsInjective(seq),
           NEW d, d = Delivery(seq, count, good)
    PROVE  /\ d.tracks \in Seq(Hashes) /\ IsInjective(d.tracks)
           /\ ToSet(d.tracks) \subseteq d.taken \cap good
           /\ d.rest \in Seq(Hashes) /\ IsInjective(d.rest)
           /\ ToSet(seq) = d.taken \cup ToSet(d.rest)
           /\ d.taken \cap ToSet(d.rest) = {}
           /\ seq = << >> => d.tracks = << >>
  <1> DEFINE enough == {k \in 0..Len(seq) :
                           Len(Selected(SubSeq(seq, 1, k), good)) = count}
             n == IF enough = {} THEN Len(seq)
                  ELSE CHOOSE k \in enough : \A j \in enough : k <= j
             p == SubSeq(seq, 1, n)
             r == SubSeq(seq, n + 1, Len(seq))
  <1>1. d = [tracks |-> Selected(p, good), taken |-> ToSet(p), rest |-> r]
    BY Zenon DEF Delivery
  <1>2. n \in 0..Len(seq)
    <2>1. CASE enough = {}
      BY <2>1
    <2>2. CASE enough # {}
      <3>1. enough \subseteq 0..Len(seq)
        OBVIOUS
      <3>2. enough \in SUBSET Nat
        BY <3>1
      <3> HIDE DEF enough
      <3>3. \E k \in enough : \A j \in enough : k <= j
        BY <2>2, <3>2, LeastNumber
      <3>4. n \in enough
        BY <2>2, <3>3
      <3> HIDE DEF n
      <3> QED BY <3>1, <3>4
    <2> QED BY <2>1, <2>2
  <1> HIDE DEF n
  <1>3. /\ p \in Seq(Hashes) /\ r \in Seq(Hashes)
        /\ ToSet(seq) = ToSet(p) \cup ToSet(r)
        /\ IsInjective(p) /\ IsInjective(r) /\ ToSet(p) \cap ToSet(r) = {}
    BY <1>2, SplitList
  <1>4. seq = << >> => p = << >>
    BY <1>2
  <1> HIDE DEF p, r
  <1>5. /\ Selected(p, good) \in Seq(Hashes) /\ IsInjective(Selected(p, good))
        /\ ToSet(Selected(p, good)) = ToSet(p) \cap good
    BY <1>3, SelectedOf
  <1>6. p = << >> => Selected(p, good) = << >>
    <2> SUFFICES ASSUME p = << >> PROVE Selected(p, good) = << >>
      OBVIOUS
    <2>1. ToSet(p) = {}
      BY EmptyList
    <2>2. ToSet(Selected(p, good)) = {}
      BY <1>5, <2>1
    <2> DEFINE z == Selected(p, good)
    <2>3. z \in Seq(Hashes) /\ ToSet(z) = {}
      BY <1>5, <2>2
    <2> HIDE DEF z
    <2>4. Len(z) = 0
      <3>1. DOMAIN z = 1..Len(z) /\ Len(z) \in Nat
        BY <2>3
      <3>2. DOMAIN z = {}
        BY <2>3 DEF ToSet
      <3> QED BY <3>1, <3>2
    <2>5. z = << >>
      BY <2>3, <2>4
    <2> QED BY <2>5 DEF z
  <1>7. d.tracks = Selected(p, good) /\ d.taken = ToSet(p) /\ d.rest = r
    BY <1>1
  <1> QED BY <1>3, <1>4, <1>5, <1>6, <1>7

-----------------------------------------------------------------------------
(* The objects of dynamic mode, and what an operation may leave alone.     *)

Places == {"Unknown", "Unused", "Taken", "Used"}

Machine ==
    [unused : Seq(Hashes), status : [Hashes -> Places],
     notified : Nat, checkPending : BOOLEAN, requested : SUBSET (Users \X Hashes),
     upcoming : Seq(Hashes), desired : Nat, dynamicRefill : BOOLEAN, frozen : BOOLEAN,
     waveUpcoming : Seq(Hashes), buffer : Seq(Hashes), waveActive : BOOLEAN,
     completed : BOOLEAN, fails : Nat, generated : Nat, delivered : Nat,
     waveTimers : Nat, generatorWave : BOOLEAN, progress : Int, total : Int,
     enabled : BOOLEAN, refillPending : BOOLEAN, user : Users, avoid : BOOLEAN]

(* The lists of the generators.                                            *)
SameDynamicList(x, y) == y.upcoming = x.upcoming

SameWaveLists(x, y) ==
    /\ y.waveUpcoming = x.waveUpcoming /\ y.buffer = x.buffer
    /\ y.waveActive = x.waveActive

(* What their timers depend on.                                            *)
SameDynamicTimer(x, y) ==
    /\ y.desired = x.desired /\ y.dynamicRefill = x.dynamicRefill
    /\ y.frozen = x.frozen

SameWaveTimer(x, y) ==
    /\ y.completed = x.completed /\ y.waveTimers = x.waveTimers
    /\ y.generated = x.generated

(* What the user has chosen, and whether the queue gets refilled.          *)
SameSettings(x, y) ==
    /\ y.enabled = x.enabled /\ y.user = x.user /\ y.avoid = x.avoid
    /\ y.refillPending = x.refillPending

SameOutsideTheSource(x, y) ==
    /\ SameDynamicList(x, y) /\ SameWaveLists(x, y)
    /\ SameDynamicTimer(x, y) /\ SameWaveTimer(x, y) /\ SameSettings(x, y)

SameTracks(x, y) == y.unused = x.unused /\ y.status = x.status

(* The source knows that the tracks in T are taken.                        *)
SourceFits(x, T) ==
    /\ IsInjective(x.unused)
    /\ ToSet(x.unused) = {h \in Hashes : x.status[h] = "Unused"}
    /\ T = {h \in Hashes : x.status[h] = "Taken"}

LEMMA SameIsTransitive ==
    ASSUME NEW x, NEW y, NEW z,
           SameOutsideTheSource(x, y), SameOutsideTheSource(y, z)
    PROVE  SameOutsideTheSource(x, z)
  BY DEF SameOutsideTheSource, SameDynamicList, SameWaveLists, SameDynamicTimer,
         SameWaveTimer, SameSettings

LEMMA SameTracksFit ==
    ASSUME NEW x, NEW y, NEW T, SourceFits(x, T), SameTracks(x, y)
    PROVE  SourceFits(y, T)
  BY DEF SourceFits, SameTracks

-----------------------------------------------------------------------------
(* The source of random tracks.                                            *)

WithTracks(x, unused, status, notified) ==
    [x EXCEPT !.unused = unused, !.status = status, !.notified = notified]

WithStatus(x, status) == [x EXCEPT !.status = status]

(* The source can be given other tracks.                                   *)
LEMMA SourceChanged ==
    ASSUME NEW x \in Machine, NEW unused \in Seq(Hashes),
           NEW status \in [Hashes -> Places], NEW notified \in Nat,
           NEW y, y = WithTracks(x, unused, status, notified)
    PROVE  /\ y \in Machine /\ SameOutsideTheSource(x, y)
           /\ y.unused = unused /\ y.status = status /\ y.notified = notified
           /\ y.requested = x.requested
  <1> DEFINE z == [x EXCEPT !.unused = unused, !.status = status, !.notified = notified]
  <1>1. z \in Machine
    BY Zenon DEF Machine
  <1>2. /\ z.unused = unused /\ z.status = status /\ z.notified = notified
        /\ z.requested = x.requested
    BY Zenon DEF Machine
  <1>3. SameOutsideTheSource(x, z)
    BY Zenon DEF Machine, SameOutsideTheSource, SameDynamicList, SameWaveLists,
                 SameDynamicTimer, SameWaveTimer, SameSettings
  <1> HIDE DEF z
  <1>4. y = z
    BY DEF z, WithTracks
  <1> QED BY <1>1, <1>2, <1>3, <1>4

LEMMA CheckScheduled ==
    ASSUME NEW x \in Machine, NEW y, y = ScheduleNotificationsCheck(x)
    PROVE  /\ y \in Machine /\ SameOutsideTheSource(x, y) /\ SameTracks(x, y)
           /\ y.requested = x.requested
  <1> DEFINE z == [x EXCEPT !.checkPending = TRUE]
  <1>1. /\ z \in Machine /\ SameOutsideTheSource(x, z) /\ SameTracks(x, z)
        /\ z.requested = x.requested
    BY Zenon DEF Machine, SameOutsideTheSource, SameDynamicList, SameWaveLists,
                 SameDynamicTimer, SameWaveTimer, SameSettings, SameTracks
  <1> HIDE DEF z
  <1>2. y = z
    BY DEF ScheduleNotificationsCheck, z
  <1> QED BY <1>1, <1>2

LEMMA Notified ==
    ASSUME NEW x \in Machine, NEW hs \in SUBSET Hashes, NEW y, y = Notify(x, hs)
    PROVE  y \in Machine /\ SameOutsideTheSource(x, y) /\ SameTracks(x, y)
  <1> DEFINE requested == x.requested \cup {<<x.user, h>> : h \in hs}
             z == [x EXCEPT !.requested = requested]
  <1>1. requested \in SUBSET (Users \X Hashes)
    <2>1. x.user \in Users /\ x.requested \in SUBSET (Users \X Hashes)
      BY DEF Machine
    <2> QED BY <2>1
  <1>2. y = z
    BY Zenon DEF Notify
  <1> HIDE DEF requested
  <1>3. z \in Machine /\ SameOutsideTheSource(x, z) /\ SameTracks(x, z)
    BY <1>1, Zenon DEF Machine, SameOutsideTheSource, SameDynamicList, SameWaveLists,
                 SameDynamicTimer, SameWaveTimer, SameSettings, SameTracks
  <1> HIDE DEF z
  <1> QED BY <1>2, <1>3

LEMMA NotificationsReset ==
    ASSUME NEW x \in Machine, NEW y, y = ResetUpcomingTrackNotifications(x)
    PROVE  y \in Machine /\ SameOutsideTheSource(x, y) /\ SameTracks(x, y)
  <1> DEFINE z == [x EXCEPT !.notified = 0]
  <1>1. z \in Machine /\ SameOutsideTheSource(x, z) /\ SameTracks(x, z)
    <2>1. 0 \in Nat
      OBVIOUS
    <2> QED BY <2>1, Zenon DEF Machine, SameOutsideTheSource, SameDynamicList, SameWaveLists,
                 SameDynamicTimer, SameWaveTimer, SameSettings, SameTracks
  <1> HIDE DEF z
  <1>2. y = ScheduleNotificationsCheck(z)
    BY DEF ResetUpcomingTrackNotifications, z
  <1>3. y \in Machine /\ SameOutsideTheSource(z, y) /\ SameTracks(z, y)
    BY <1>1, <1>2, CheckScheduled
  <1> QED BY <1>1, <1>3, SameIsTransitive DEF SameTracks

(* A source without unused tracks starts over with those that were used.   *)
LEMMA StartsOver ==
    ASSUME NEW x \in Machine, NEW order \in Orders, NEW T, SourceFits(x, T),
           x.unused = << >>, NEW y, y = StartOver(x, order)
    PROVE  y \in Machine /\ SameOutsideTheSource(x, y) /\ SourceFits(y, T)
  <1> DEFINE used == {h \in Hashes : x.status[h] = "Used"}
             unused == InOrder(used, order)
             status == [h \in Hashes |->
                           IF x.status[h] = "Used" THEN "Unused" ELSE x.status[h]]
             z == WithTracks(x, unused, status, x.notified)
  <1>1. x.status \in [Hashes -> Places] /\ x.notified \in Nat
    BY DEF Machine
  <1>2. status \in [Hashes -> Places]
    BY <1>1 DEF Places
  <1>3. unused \in Seq(Hashes) /\ IsInjective(unused) /\ ToSet(unused) = used
    <2>1. ToSet(unused) = Hashes \cap used /\ unused \in Seq(Hashes) /\ IsInjective(unused)
      <3> HIDE DEF used
      <3> QED BY OrderOf, SelectedOf DEF InOrder
    <2> QED BY <2>1
  <1>4. ToSet(x.unused) = {}
    BY EmptyList
  <1>5. used = {h \in Hashes : status[h] = "Unused"}
    <2>1. \A h \in Hashes : x.status[h] # "Unused"
      BY <1>4 DEF SourceFits
    <2> QED BY <2>1
  <1>6. {h \in Hashes : status[h] = "Taken"} = T
    BY DEF SourceFits
  <1>7. y = ResetUpcomingTrackNotifications([x EXCEPT !.unused = unused, !.status = status])
    BY Zenon DEF StartOver
  <1> HIDE DEF status, unused, used
  <1>8. z = [x EXCEPT !.unused = unused, !.status = status]
    BY Zenon DEF Machine, WithTracks
  <1>9. z \in Machine /\ SameOutsideTheSource(x, z) /\ z.unused = unused /\ z.status = status
    BY <1>1, <1>2, <1>3, SourceChanged
  <1> HIDE DEF z
  <1>10. y \in Machine /\ SameOutsideTheSource(z, y) /\ SameTracks(z, y)
    BY <1>7, <1>8, <1>9, NotificationsReset
  <1>11. SourceFits(z, T)
    BY <1>3, <1>5, <1>6, <1>9 DEF SourceFits
  <1> QED BY <1>9, <1>10, <1>11, SameIsTransitive, SameTracksFit

(* A track that the source hands out was not taken, and is taken then.     *)
LEMMA TrackTaken ==
    ASSUME NEW x \in Machine, NEW order \in Orders, NEW T, SourceFits(x, T),
           NEW t, t = TakeTrack(x, order)
    PROVE  /\ t.next \in Machine /\ SameOutsideTheSource(x, t.next)
           /\ \/ t.hash = None /\ SourceFits(t.next, T)
              \/ /\ t.hash \in Hashes \ T
                 /\ SourceFits(t.next, T \cup {t.hash})
  <1> DEFINE y == IF x.unused = << >> THEN StartOver(x, order) ELSE x
             h == Last(y.unused)
             notified == IF y.notified > 0 THEN y.notified - 1 ELSE 0
             status == [y.status EXCEPT ![h] = "Taken"]
             unused == Front(y.unused)
             z == WithTracks(y, unused, status, notified)
             s == ScheduleNotificationsCheck(z)
  <1>1. y \in Machine /\ SameOutsideTheSource(x, y) /\ SourceFits(y, T)
    <2>1. CASE x.unused = << >>
      <3>1. y = StartOver(x, order)
        BY <2>1
      <3> HIDE DEF y
      <3> QED BY <2>1, <3>1, StartsOver
    <2>2. CASE x.unused # << >>
      BY <2>2 DEF SameOutsideTheSource, SameDynamicList, SameWaveLists, SameDynamicTimer,
                  SameWaveTimer, SameSettings
    <2> QED BY <2>1, <2>2
  <1>2. t = IF y.unused = << >> THEN [next |-> y, hash |-> None]
            ELSE [next |-> s, hash |-> h]
    BY Zenon DEF TakeTrack, WithTracks
  <1> HIDE DEF y
  <1>3. y.unused \in Seq(Hashes) /\ y.status \in [Hashes -> Places] /\ y.notified \in Nat
    BY <1>1 DEF Machine
  <1>4. CASE y.unused = << >>
    <2>1. t.next = y /\ t.hash = None
      BY <1>2, <1>4
    <2> QED BY <1>1, <2>1
  <1>5. CASE y.unused # << >>
    <2>1. t.next = s /\ t.hash = h
      <3> HIDE DEF s, h
      <3> QED BY <1>2, <1>5
    <2>2. /\ unused \in Seq(Hashes) /\ h \in Hashes /\ IsInjective(unused)
          /\ ToSet(y.unused) = ToSet(unused) \cup {h} /\ h \notin ToSet(unused)
      BY <1>1, <1>3, <1>5, LastOfList DEF SourceFits
    <2>3. status \in [Hashes -> Places] /\ notified \in Nat
          /\ status[h] = "Taken" /\ \A k \in Hashes : k # h => status[k] = y.status[k]
      <3> HIDE DEF h
      <3> QED BY <1>3, <2>2 DEF Places
    <2> HIDE DEF unused, status, notified
    <2>4. z \in Machine /\ SameOutsideTheSource(y, z) /\ z.unused = unused /\ z.status = status
      BY <1>1, <2>2, <2>3, SourceChanged
    <2> HIDE DEF h, z
    <2>5. s \in Machine /\ SameOutsideTheSource(z, s) /\ SameTracks(z, s)
      BY <2>4, CheckScheduled
    <2>6. y.status[h] = "Unused"
      BY <1>1, <2>2 DEF SourceFits
    <2>7. h \notin T
      BY <1>1, <2>6 DEF SourceFits
    <2>8. SourceFits(z, T \cup {h})
      <3>1. ToSet(unused) = {k \in Hashes : status[k] = "Unused"}
        BY <1>1, <2>2, <2>3 DEF SourceFits
      <3>2. T \cup {h} = {k \in Hashes : status[k] = "Taken"}
        BY <1>1, <2>2, <2>3 DEF SourceFits
      <3> QED BY <2>2, <2>4, <3>1, <3>2 DEF SourceFits
    <2> HIDE DEF s
    <2>9. SameOutsideTheSource(x, z)
      BY <1>1, <2>4, SameIsTransitive
    <2>10. SameOutsideTheSource(x, s)
      BY <2>5, <2>9, SameIsTransitive
    <2>11. SourceFits(s, T \cup {h})
      BY <2>5, <2>8, SameTracksFit
    <2> QED BY <2>1, <2>2, <2>5, <2>7, <2>10, <2>11
  <1> QED BY <1>4, <1>5

(* The statuses are all that changes when candidates go back as used.      *)
LEMMA StatusChanged ==
    ASSUME NEW x \in Machine, NEW status \in [Hashes -> Places],
           NEW y, y = WithStatus(x, status)
    PROVE  /\ y \in Machine /\ SameOutsideTheSource(x, y)
           /\ y.unused = x.unused /\ y.status = status
  <1> DEFINE z == [x EXCEPT !.status = status]
  <1>1. z \in Machine
    BY Zenon DEF Machine
  <1>2. z.unused = x.unused /\ z.status = status
    BY Zenon DEF Machine
  <1>3. SameOutsideTheSource(x, z)
    BY Zenon DEF Machine, SameOutsideTheSource, SameDynamicList, SameWaveLists,
                 SameDynamicTimer, SameWaveTimer, SameSettings
  <1> HIDE DEF z
  <1>4. y = z
    BY DEF z, WithStatus
  <1> QED BY <1>1, <1>2, <1>3, <1>4

LEMMA UsedPutBack ==
    ASSUME NEW x \in Machine, NEW hs, NEW T, SourceFits(x, T),
           NEW y, y = PutBackUsed(x, hs)
    PROVE  y \in Machine /\ SameOutsideTheSource(x, y) /\ SourceFits(y, T \ hs)
  <1> DEFINE status == [h \in Hashes |-> IF h \in hs /\ x.status[h] = "Taken"
                                         THEN "Used" ELSE x.status[h]]
  <1>1. x.status \in [Hashes -> Places]
    BY DEF Machine
  <1>2. status \in [Hashes -> Places]
    BY <1>1 DEF Places
  <1>3. /\ {h \in Hashes : status[h] = "Unused"} = {h \in Hashes : x.status[h] = "Unused"}
        /\ {h \in Hashes : status[h] = "Taken"} = {h \in Hashes : x.status[h] = "Taken"} \ hs
    OBVIOUS
  <1>4. y = WithStatus(x, status)
    BY Zenon DEF PutBackUsed, WithStatus
  <1> HIDE DEF status
  <1>5. y \in Machine /\ SameOutsideTheSource(x, y) /\ y.unused = x.unused /\ y.status = status
    BY <1>2, <1>4, StatusChanged
  <1> QED BY <1>3, <1>5 DEF SourceFits

LEMMA UnusedPutBack ==
    ASSUME NEW x \in Machine, NEW hs \in Seq(Hashes), IsInjective(hs),
           NEW T, SourceFits(x, T), ToSet(hs) \subseteq T,
           NEW y, y = PutBackUnused(x, hs)
    PROVE  y \in Machine /\ SameOutsideTheSource(x, y) /\ SourceFits(y, T \ ToSet(hs))
  <1> DEFINE S == ToSet(hs)
             status == [h \in Hashes |-> IF h \in S THEN "Unused" ELSE x.status[h]]
             unused == x.unused \o hs
             notified == x.notified + Len(hs)
  <1>1. x.status \in [Hashes -> Places] /\ x.unused \in Seq(Hashes) /\ x.notified \in Nat
    BY DEF Machine
  <1>2. y = [x EXCEPT !.unused = unused, !.notified = notified, !.status = status]
    BY Zenon DEF PutBackUnused
  <1>3. S \subseteq Hashes /\ \A h \in S : x.status[h] = "Taken"
    BY DEF SourceFits
  <1>4. S \cap ToSet(x.unused) = {}
    BY <1>3 DEF SourceFits
  <1>5. unused \in Seq(Hashes) /\ IsInjective(unused) /\ ToSet(unused) = ToSet(x.unused) \cup S
    BY <1>1, <1>4, JoinedLists DEF SourceFits
  <1>6. notified \in Nat
    BY <1>1
  <1> HIDE DEF S
  <1>7. status \in [Hashes -> Places]
    BY <1>1 DEF Places
  <1>8. /\ {h \in Hashes : status[h] = "Unused"} = {h \in Hashes : x.status[h] = "Unused"} \cup S
        /\ {h \in Hashes : status[h] = "Taken"} = {h \in Hashes : x.status[h] = "Taken"} \ S
    BY <1>3
  <1> HIDE DEF status, unused, notified
  <1>9. y \in Machine /\ SameOutsideTheSource(x, y) /\ y.unused = unused /\ y.status = status
    <2>1. y = WithTracks(x, unused, status, notified)
      BY <1>2, Zenon DEF WithTracks, Machine
    <2> QED BY <1>5, <1>6, <1>7, <2>1, SourceChanged
  <1>10. SourceFits(y, T \ S)
    BY <1>5, <1>8, <1>9 DEF SourceFits
  <1> QED BY <1>9, <1>10 DEF S

(* A new track is appended to a list, and changes places with another.     *)
LEMMA SwappedList ==
    ASSUME NEW seq \in Seq(Hashes), NEW h \in Hashes, h \notin ToSet(seq),
           IsInjective(seq), NEW index \in Nat, index < Len(seq),
           NEW swapped \in Seq(Hashes), Len(swapped) = Len(seq) + 1,
           swapped[index + 1] = h, swapped[Len(seq) + 1] = seq[index + 1],
           \A i \in 1..Len(seq) : i # index + 1 => swapped[i] = seq[i]
    PROVE  /\ swapped # << >> /\ IsInjective(swapped)
           /\ ToSet(swapped) = ToSet(seq) \cup {h}
  <1> DEFINE n == Len(seq)
             place == index + 1
  <1>1. n \in Nat /\ place \in 1..n /\ DOMAIN seq = 1..n /\ \A i \in 1..n : seq[i] \in Hashes
    OBVIOUS
  <1>2. /\ swapped[place] = h /\ swapped[n + 1] = seq[place]
        /\ \A i \in 1..n : i # place => swapped[i] = seq[i]
        /\ DOMAIN swapped = 1..n + 1
    BY <1>1
  <1> HIDE DEF n, place
  <1>4. \A i, j \in 1..n : seq[i] = seq[j] => i = j
    BY <1>1 DEF IsInjective
  <1>5. \A i \in 1..n : seq[i] # h
    BY <1>1 DEF ToSet
  <1>6. \A i \in 1..n + 1 : i \in 1..n \/ i = n + 1
    BY <1>1
  <1>7. n + 1 \notin 1..n
    BY <1>1
  <1>8. IsInjective(swapped)
    <2> SUFFICES ASSUME NEW i \in 1..n + 1, NEW j \in 1..n + 1, swapped[i] = swapped[j]
                 PROVE  i = j
      BY <1>2 DEF IsInjective
    <2> DEFINE origin(k) == IF k = n + 1 THEN place ELSE k
    <2>1. \A k \in 1..n + 1 : k # place => origin(k) \in 1..n /\ swapped[k] = seq[origin(k)]
      BY <1>1, <1>2, <1>6
    <2>2. CASE i = place \/ j = place
      BY <1>1, <1>2, <1>5, <2>1, <2>2
    <2>3. CASE i # place /\ j # place
      <3>1. origin(i) = origin(j)
        <4>1. /\ origin(i) \in 1..n /\ swapped[i] = seq[origin(i)]
              /\ origin(j) \in 1..n /\ swapped[j] = seq[origin(j)]
          BY <2>1, <2>3
        <4> HIDE DEF origin
        <4> QED BY <1>4, <4>1
      <3> QED BY <2>3, <3>1
    <2> QED BY <2>2, <2>3
  <1>9. ToSet(swapped) = ToSet(seq) \cup {h}
    <2>1. \A i \in 1..n + 1 : swapped[i] = h \/ \E j \in 1..n : swapped[i] = seq[j]
      BY <1>1, <1>2, <1>6
    <2>2. \A j \in 1..n : \E i \in 1..n + 1 : swapped[i] = seq[j]
      <3> SUFFICES ASSUME NEW j \in 1..n PROVE \E i \in 1..n + 1 : swapped[i] = seq[j]
        OBVIOUS
      <3>1. j \in 1..n + 1 /\ n + 1 \in 1..n + 1
        BY <1>1
      <3>2. CASE j = place
        BY <1>2, <3>1, <3>2
      <3>3. CASE j # place
        BY <1>2, <3>1, <3>3
      <3> QED BY <3>2, <3>3
    <2>3. place \in 1..n + 1
      BY <1>1
    <2>4. ToSet(swapped) \subseteq ToSet(seq) \cup {h}
      BY <1>1, <1>2, <2>1 DEF ToSet
    <2>5. ToSet(seq) \subseteq ToSet(swapped)
      BY <1>1, <1>2, <2>2 DEF ToSet
    <2>6. h \in ToSet(swapped)
      BY <1>2, <2>3 DEF ToSet
    <2> QED BY <2>4, <2>5, <2>6
  <1> QED BY <1>1, <1>2, <1>8, <1>9

LEMMA NewHashAdded ==
    ASSUME NEW x \in Machine, NEW h \in Hashes, x.status[h] = "Unknown",
           NEW index \in 0..Len(x.unused), NEW T, SourceFits(x, T),
           NEW y, y = AddNewHash(x, h, index)
    PROVE  y \in Machine /\ SameOutsideTheSource(x, y) /\ SourceFits(y, T)
  <1> DEFINE end == Len(x.unused)
             swapped == [i \in 1..end + 1 |->
                            IF i = index + 1 THEN h
                            ELSE IF i = end + 1 THEN x.unused[index + 1]
                            ELSE x.unused[i]]
             unused == IF index < end THEN swapped ELSE Append(x.unused, h)
             status == [x.status EXCEPT ![h] = "Unused"]
             notified == IF index < end
                         THEN IF x.notified <= end - index THEN x.notified ELSE end - index
                         ELSE x.notified + 1
             z == WithTracks(x, unused, status, notified)
             asked == Notify(z, {Last(unused)})
  <1>1. x.unused \in Seq(Hashes) /\ x.status \in [Hashes -> Places] /\ x.notified \in Nat
    BY DEF Machine
  <1>2. h \notin ToSet(x.unused)
    BY DEF SourceFits
  <1>3. IsInjective(x.unused)
    BY DEF SourceFits
  <1>4. unused \in Seq(Hashes) /\ unused # << >> /\ IsInjective(unused)
        /\ ToSet(unused) = ToSet(x.unused) \cup {h}
    <2>1. CASE index < end
      <3>1. index \in Nat
        OBVIOUS
      <3> DEFINE seq == x.unused
      <3>2. /\ seq \in Seq(Hashes) /\ h \notin ToSet(seq) /\ IsInjective(seq)
            /\ index < Len(seq) /\ swapped \in [1..Len(seq) + 1 -> Hashes]
            /\ Len(seq) + 1 \in Nat
            /\ swapped[index + 1] = h /\ swapped[Len(seq) + 1] = seq[index + 1]
            /\ \A i \in 1..Len(seq) : i # index + 1 => swapped[i] = seq[i]
        BY <1>1, <1>2, <1>3, <2>1, <3>1
      <3> HIDE DEF swapped, seq
      <3>3. swapped \in Seq(Hashes) /\ Len(swapped) = Len(seq) + 1
        BY <3>2
      <3>4. /\ swapped # << >> /\ IsInjective(swapped)
            /\ ToSet(swapped) = ToSet(seq) \cup {h}
        BY <3>1, <3>2, <3>3, SwappedList
      <3> USE DEF seq
      <3> QED BY <2>1, <3>3, <3>4
    <2>2. CASE ~ index < end
      <3>1. Append(x.unused, h) # << >>
        BY <1>1
      <3>2. /\ Append(x.unused, h) \in Seq(Hashes) /\ IsInjective(Append(x.unused, h))
            /\ ToSet(Append(x.unused, h)) = ToSet(x.unused) \cup {h}
        BY <1>1, <1>2, <1>3, AppendedList
      <3> QED BY <2>2, <3>1, <3>2
    <2> QED BY <2>1, <2>2
  <1>5. notified \in Nat
    BY <1>1
  <1>6. status \in [Hashes -> Places] /\ status[h] = "Unused"
        /\ \A k \in Hashes : k # h => status[k] = x.status[k]
    BY <1>1 DEF Places
  <1> HIDE DEF swapped
  <1>7. y = ScheduleNotificationsCheck(asked)
    <2> DEFINE w == [x EXCEPT !.status[h] = "Unused", !.unused = unused, !.notified = notified]
    <2>1. y = ScheduleNotificationsCheck(Notify(w, {Last(w.unused)}))
      BY Zenon DEF AddNewHash, swapped
    <2> HIDE DEF unused, notified
    <2>2. w.unused = unused
      BY Zenon DEF Machine
    <2>3. w = z
      BY Zenon DEF Machine, WithTracks
    <2> HIDE DEF w, z
    <2> QED BY <2>1, <2>2, <2>3
  <1> HIDE DEF unused, status, notified
  <1>8. z \in Machine /\ SameOutsideTheSource(x, z) /\ z.unused = unused /\ z.status = status
    BY <1>4, <1>5, <1>6, SourceChanged
  <1> HIDE DEF z
  <1>9. SourceFits(z, T)
    <2>1. ToSet(unused) = {k \in Hashes : status[k] = "Unused"}
      BY <1>4, <1>6 DEF SourceFits
    <2>2. T = {k \in Hashes : status[k] = "Taken"}
      BY <1>6 DEF SourceFits
    <2> QED BY <1>4, <1>8, <2>1, <2>2 DEF SourceFits
  <1>10. asked \in Machine /\ SameOutsideTheSource(z, asked) /\ SameTracks(z, asked)
    <2> DEFINE last == {Last(unused)}
    <2>1. last \in SUBSET Hashes
      BY <1>4, LastOfList
    <2> HIDE DEF last
    <2>2. asked = Notify(z, last)
      BY DEF last
    <2> HIDE DEF asked
    <2> QED BY <1>8, <2>1, <2>2, Notified
  <1> HIDE DEF asked
  <1>11. y \in Machine /\ SameOutsideTheSource(asked, y) /\ SameTracks(asked, y)
    BY <1>7, <1>10, CheckScheduled
  <1>12. SameOutsideTheSource(x, asked)
    BY <1>8, <1>10, SameIsTransitive
  <1>13. SourceFits(asked, T)
    BY <1>9, <1>10, SameTracksFit
  <1>14. SameOutsideTheSource(x, y)
    BY <1>11, <1>12, SameIsTransitive
  <1> QED BY <1>11, <1>13, <1>14, SameTracksFit

(* The history is asked for what is next in line, and nothing else.        *)
LEMMA NotificationsChecked ==
    ASSUME NEW x \in Machine, NEW y, y = CheckedNotifications(x)
    PROVE  y \in Machine /\ SameOutsideTheSource(x, y) /\ SameTracks(x, y)
  <1> DEFINE w == [x EXCEPT !.checkPending = FALSE]
             next == Len(x.unused) - x.notified
             count == IF next <= NotifyBatch THEN next ELSE NotifyBatch
             all == Len(x.unused)
             more == x.notified + count
             hs == {x.unused[i] : i \in next - count + 1..next}
             idle == [w EXCEPT !.notified = all]
             told == [w EXCEPT !.notified = more]
  <1>1. x.unused \in Seq(Hashes) /\ x.notified \in Nat /\ all \in Nat /\ next \in Int
    BY DEF Machine
  <1>2. w \in Machine /\ SameOutsideTheSource(x, w) /\ SameTracks(x, w)
        /\ w.unused = x.unused /\ w.notified = x.notified
    BY Zenon DEF Machine, SameOutsideTheSource, SameDynamicList, SameWaveLists,
                 SameDynamicTimer, SameWaveTimer, SameSettings, SameTracks
  <1>3. y \in {w, idle} \/ (next > 0 /\ y = ScheduleNotificationsCheck(Notify(told, hs)))
    <2>1. y = LET v == [x EXCEPT !.checkPending = FALSE]
              IN  IF x.notified >= NotifyTarget \/ next = 0 THEN v
                  ELSE IF next < 0 THEN [v EXCEPT !.notified = all]
                  ELSE ScheduleNotificationsCheck(Notify([v EXCEPT !.notified = @ + count], hs))
      BY Zenon DEF CheckedNotifications
    <2>2. [w EXCEPT !.notified = @ + count] = told
      BY <1>2, Zenon
    <2>3. y = IF x.notified >= NotifyTarget \/ next = 0 THEN w
              ELSE IF next < 0 THEN idle
              ELSE ScheduleNotificationsCheck(Notify(told, hs))
      BY <2>1, <2>2, Zenon
    <2> HIDE DEF w, idle, told, hs, count, next
    <2> QED BY <1>1, <2>3
  <1>4. idle \in Machine /\ SameOutsideTheSource(w, idle) /\ SameTracks(w, idle)
    <2> HIDE DEF w, all
    <2> QED BY <1>1, <1>2, Zenon
            DEF Machine, SameOutsideTheSource, SameDynamicList, SameWaveLists,
                SameDynamicTimer, SameWaveTimer, SameSettings, SameTracks
  <1>5. ASSUME next > 0
        PROVE  more \in Nat /\ hs \in SUBSET Hashes
    <2>1. NotifyBatch \in Nat
      BY DynamicModeConstants
    <2>2. count \in Nat /\ count <= next /\ next <= Len(x.unused)
      BY <1>1, <1>5, <2>1
    <2>3. next - count + 1..next \subseteq 1..Len(x.unused)
      BY <1>1, <2>2
    <2>4. hs \in SUBSET Hashes
      <3> HIDE DEF count, next
      <3>1. \A i \in next - count + 1..next : x.unused[i] \in Hashes
        BY <1>1, <2>3
      <3> QED BY <3>1
    <2>5. more \in Nat
      <3> HIDE DEF count
      <3> QED BY <1>1, <2>2
    <2> QED BY <2>4, <2>5
  <1>6. ASSUME next > 0
        PROVE  told \in Machine /\ SameOutsideTheSource(w, told) /\ SameTracks(w, told)
    <2> HIDE DEF w, more
    <2> QED BY <1>2, <1>5, <1>6, Zenon
            DEF Machine, SameOutsideTheSource, SameDynamicList, SameWaveLists,
                SameDynamicTimer, SameWaveTimer, SameSettings, SameTracks
  <1> HIDE DEF w, idle, told, hs, next
  <1>7. CASE y = w
    BY <1>2, <1>7
  <1>8. CASE y = idle
    BY <1>2, <1>4, <1>8, SameIsTransitive DEF SameTracks
  <1>9. CASE next > 0 /\ y = ScheduleNotificationsCheck(Notify(told, hs))
    <2> DEFINE v == Notify(told, hs)
    <2>1. v \in Machine /\ SameOutsideTheSource(told, v) /\ SameTracks(told, v)
      BY <1>5, <1>6, <1>9, Notified
    <2>2. y = ScheduleNotificationsCheck(v)
      BY <1>9
    <2> HIDE DEF v
    <2>3. y \in Machine /\ SameOutsideTheSource(v, y) /\ SameTracks(v, y)
      BY <2>1, <2>2, CheckScheduled
    <2>4. SameOutsideTheSource(x, told)
      BY <1>2, <1>6, <1>9, SameIsTransitive
    <2>5. SameOutsideTheSource(x, v)
      BY <2>1, <2>4, SameIsTransitive
    <2>6. SameOutsideTheSource(x, y)
      BY <2>3, <2>5, SameIsTransitive
    <2> QED BY <1>2, <1>6, <1>9, <2>1, <2>3, <2>6 DEF SameTracks
  <1> QED BY <1>3, <1>7, <1>8, <1>9

SourceFitsWith(x, T, tracks) == SourceFits(x, T \cup ToSet(tracks))

(* What taking candidates may lead to, from x and when the tracks in T are *)
(* taken already: nothing but the source changes, and the candidates are   *)
(* tracks that were not taken.                                             *)
Taking(x, T) ==
    {b \in [next : Machine, tracks : Seq(Hashes)] :
        /\ IsInjective(b.tracks) /\ ToSet(b.tracks) \cap T = {}
        /\ SourceFitsWith(b.next, T, b.tracks)
        /\ SameOutsideTheSource(x, b.next)}

LEMMA TakingOf ==
    ASSUME NEW x, NEW T, NEW next \in Machine, NEW tracks \in Seq(Hashes),
           IsInjective(tracks), ToSet(tracks) \cap T = {},
           SourceFits(next, T \cup ToSet(tracks)), SameOutsideTheSource(x, next)
    PROVE  [next |-> next, tracks |-> tracks] \in Taking(x, T)
  BY DEF Taking, SourceFitsWith

LEMMA TakenFromSource ==
    ASSUME NEW x \in Machine, NEW count, NEW tries \in Nat, NEW allOrNothing,
           NEW accepted \in SUBSET Hashes, NEW order \in Orders,
           NEW T, SourceFits(x, T),
           NEW r, r = TakeFromSource(x, count, tries, allOrNothing, accepted, order)
    PROVE  r \in Taking(x, T)
  <1> DEFINE S == Taking(x, T)
             Try(b) ==
                LET t == TakeTrack(b.next, order)
                IN  IF Len(b.tracks) >= count THEN b
                    ELSE IF t.hash \in accepted \ Unusable
                    THEN [next |-> t.next, tracks |-> Append(b.tracks, t.hash)]
                    ELSE [next |-> PutBackUsed(t.next, {t.hash}), tracks |-> b.tracks]
             start == [next |-> x, tracks |-> << >>]
             taken == Repeat(Try, tries, start)
  <1>1. start \in S
    <2>1. T \cup ToSet(<< >>) = T
      BY EmptyList
    <2>2. SameOutsideTheSource(x, x)
      BY DEF SameOutsideTheSource, SameDynamicList, SameWaveLists, SameDynamicTimer,
             SameWaveTimer, SameSettings
    <2>3. ToSet(<< >>) \cap T = {}
      BY EmptyList
    <2> DEFINE none == << >>
    <2>4. none \in Seq(Hashes) /\ IsInjective(none) /\ ToSet(none) \cap T = {}
          /\ SourceFits(x, T \cup ToSet(none))
      BY <2>1, <2>3, EmptyList
    <2> HIDE DEF none
    <2>5. [next |-> x, tracks |-> none] \in Taking(x, T)
      BY <2>2, <2>4, TakingOf
    <2> QED BY <2>5 DEF none
  <1>2. ASSUME NEW b \in S
        PROVE  Try(b) \in S
    <2> DEFINE t == TakeTrack(b.next, order)
               held == T \cup ToSet(b.tracks)
               next == t.next
               h == t.hash
               given == PutBackUsed(next, {h})
               longer == Append(b.tracks, h)
    <2>1. /\ b.next \in Machine /\ b.tracks \in Seq(Hashes) /\ IsInjective(b.tracks)
          /\ ToSet(b.tracks) \cap T = {} /\ SourceFits(b.next, held)
          /\ SameOutsideTheSource(x, b.next)
      BY DEF Taking, SourceFitsWith
    <2> HIDE DEF held
    <2>2. /\ next \in Machine /\ SameOutsideTheSource(b.next, next)
          /\ \/ h = None /\ SourceFits(next, held)
             \/ h \in Hashes \ held /\ SourceFits(next, held \cup {h})
      <3> DEFINE y == b.next
      <3>1. y \in Machine /\ SourceFits(y, held) /\ t = TakeTrack(y, order)
        BY <2>1
      <3> HIDE DEF y, t
      <3>2. /\ t.next \in Machine /\ SameOutsideTheSource(y, t.next)
            /\ \/ t.hash = None /\ SourceFits(t.next, held)
               \/ t.hash \in Hashes \ held /\ SourceFits(t.next, held \cup {t.hash})
        BY <3>1, TrackTaken
      <3> QED BY <3>2 DEF y
    <2>3. Try(b) = IF Len(b.tracks) >= count THEN b
                   ELSE IF h \in accepted \ Unusable
                   THEN [next |-> next, tracks |-> longer]
                   ELSE [next |-> given, tracks |-> b.tracks]
      BY Zenon
    <2> HIDE DEF Try, t
    <2>4. SameOutsideTheSource(x, next)
      BY <2>1, <2>2, SameIsTransitive
    <2>5. held \subseteq Hashes
      BY <2>1 DEF SourceFits
    <2>6. CASE h \in accepted
      <3>1. h # None
        BY <2>6, NoneIsNoHash
      <3>2. h \in Hashes /\ h \notin held /\ SourceFits(next, held \cup {h})
        BY <2>2, <3>1
      <3> HIDE DEF h, next
      <3>3. /\ longer \in Seq(Hashes) /\ IsInjective(longer)
            /\ ToSet(longer) = ToSet(b.tracks) \cup {h}
        BY <2>1, <3>2, AppendedList DEF held
      <3>4. ToSet(longer) \cap T = {} /\ SourceFits(next, T \cup ToSet(longer))
        <4>1. T \cup ToSet(longer) = held \cup {h}
          BY <3>3 DEF held
        <4>2. ToSet(longer) \cap T = {}
          BY <2>1, <3>2, <3>3 DEF held
        <4> QED BY <3>2, <4>1, <4>2
      <3> HIDE DEF longer
      <3>5. [next |-> next, tracks |-> longer] \in S
        BY <2>2, <2>4, <3>3, <3>4, TakingOf
      <3> DEFINE more == [next |-> next, tracks |-> longer]
                 less == [next |-> given, tracks |-> b.tracks]
      <3>6. SourceFits(given, (held \cup {h}) \ {h}) /\ given \in Machine
            /\ SameOutsideTheSource(next, given)
        BY <2>2, <3>2, UsedPutBack
      <3>7. (held \cup {h}) \ {h} = held
        BY <3>2
      <3> HIDE DEF given
      <3>8. SameOutsideTheSource(x, given)
        BY <2>4, <3>6, SameIsTransitive
      <3>9. less \in S
        BY <2>1, <3>6, <3>7, <3>8, TakingOf DEF held
      <3> QED BY <2>3, <3>5, <3>9
    <2>7. CASE h \notin accepted
      <3> DEFINE now == IF h = None THEN held ELSE held \cup {h}
                 less == [next |-> given, tracks |-> b.tracks]
      <3>1. SourceFits(next, now) /\ now \ {h} = held
        <4>1. CASE h = None
          BY <2>2, <2>5, <4>1, NoneIsNoHash
        <4>2. CASE h # None
          BY <2>2, <4>2
        <4> QED BY <4>1, <4>2
      <3> HIDE DEF h, next, now
      <3>2. SourceFits(given, now \ {h}) /\ given \in Machine
            /\ SameOutsideTheSource(next, given)
        BY <2>2, <3>1, UsedPutBack
      <3> HIDE DEF given
      <3>3. SameOutsideTheSource(x, given)
        BY <2>4, <3>2, SameIsTransitive
      <3>4. less \in S
        BY <2>1, <3>1, <3>2, <3>3, TakingOf DEF held
      <3> QED BY <2>3, <2>7, <3>4
    <2> QED BY <2>6, <2>7
  <1> HIDE DEF S, Try, start
  <1>3. taken \in S
    <2> DEFINE step == [k \in 1..tries |-> [s \in S |-> Try(s)]]
               Listed(f) == f = [k \in 0..tries |->
                   IF k = 0 THEN start ELSE CHOOSE b \in {Try(c) : c \in {f[k - 1]}} : TRUE]
               after == CHOOSE f : Listed(f)
    <2>1. step \in [1..tries -> [S -> S]]
      BY <1>2
    <2>2. PICK f \in [0..tries -> S] :
              f[0] = start /\ \A k \in 1..tries : f[k] = step[k][f[k - 1]]
      <3> HIDE DEF step
      <3> QED BY <1>1, <2>1, LoopExists
    <2>3. ASSUME NEW k \in 0..tries, k # 0
          PROVE  f[k] = CHOOSE b \in {Try(c) : c \in {f[k - 1]}} : TRUE
      <3>1. k \in 1..tries /\ k - 1 \in 0..tries
        BY <2>3
      <3>2. f[k] = step[k][f[k - 1]] /\ f[k - 1] \in S
        <4> HIDE DEF step
        <4> QED BY <2>2, <3>1
      <3>3. f[k] = Try(f[k - 1])
        BY <3>1, <3>2
      <3>4. {Try(c) : c \in {f[k - 1]}} = {Try(f[k - 1])}
        OBVIOUS
      <3> QED BY <3>3, <3>4
    <2>4. Listed(f)
      <3> HIDE DEF step
      <3> QED BY <2>2, <2>3
    <2> HIDE DEF Listed
    <2>5. Listed(after)
      BY <2>4, Zenon
    <2>6. taken = after[tries]
      BY Zenon DEF Repeat, Listed
    <2> HIDE DEF after
    <2>7. after[0] = start /\ \A k \in 1..tries :
              after[k] = CHOOSE b \in {Try(c) : c \in {after[k - 1]}} : TRUE
      BY <2>5 DEF Listed
    <2>8. \A k \in 1..tries : after[k - 1] \in S => after[k] \in S
      <3> SUFFICES ASSUME NEW k \in 1..tries, after[k - 1] \in S
                   PROVE  after[k] \in S
        OBVIOUS
      <3>1. {Try(c) : c \in {after[k - 1]}} = {Try(after[k - 1])}
        OBVIOUS
      <3>2. after[k] = Try(after[k - 1])
        BY <2>7, <3>1
      <3> QED BY <1>2, <3>2
    <2>9. after[0] \in S
      BY <1>1, <2>7
    <2>10. \A k \in 0..tries : after[k] \in S
      BY <2>8, <2>9, LoopStays
    <2> QED BY <2>6, <2>10
  <1>4. r = IF allOrNothing /\ Len(taken.tracks) # count
            THEN [next |-> PutBackUnused(taken.next, taken.tracks), tracks |-> << >>]
            ELSE taken
    BY Zenon DEF TakeFromSource, Try, start
  <1> HIDE DEF taken
  <1>5. /\ taken.next \in Machine /\ taken.tracks \in Seq(Hashes)
        /\ IsInjective(taken.tracks) /\ ToSet(taken.tracks) \cap T = {}
        /\ SourceFitsWith(taken.next, T, taken.tracks)
        /\ SameOutsideTheSource(x, taken.next)
    BY <1>3 DEF Taking, S
  <1>6. CASE allOrNothing /\ Len(taken.tracks) # count
    <2> DEFINE y == PutBackUnused(taken.next, taken.tracks)
               held == T \cup ToSet(taken.tracks)
    <2>1. ToSet(taken.tracks) \subseteq held /\ held \ ToSet(taken.tracks) = T
      BY <1>5
    <2> HIDE DEF held
    <2>2. SourceFits(taken.next, held)
      BY <1>5 DEF held, SourceFitsWith
    <2>3. y \in Machine /\ SameOutsideTheSource(taken.next, y)
          /\ SourceFits(y, held \ ToSet(taken.tracks))
      BY <1>5, <2>1, <2>2, UnusedPutBack
    <2> DEFINE none == << >>
    <2>4. r = [next |-> y, tracks |-> none]
      BY <1>4, <1>6
    <2> HIDE DEF y
    <2>5. SameOutsideTheSource(x, y)
      BY <1>5, <2>3, SameIsTransitive
    <2>6. /\ none \in Seq(Hashes) /\ IsInjective(none)
          /\ T \cup ToSet(none) = T /\ ToSet(none) \cap T = {}
      BY EmptyList
    <2>7. SourceFits(y, T)
      BY <2>1, <2>3
    <2> HIDE DEF none
    <2>8. [next |-> y, tracks |-> none] \in Taking(x, T)
      BY <2>3, <2>5, <2>6, <2>7, TakingOf
    <2> QED BY <2>4, <2>8
  <1>7. CASE ~ (allOrNothing /\ Len(taken.tracks) # count)
    <2>1. r = taken
      BY <1>4, <1>7
    <2> QED BY <1>3, <2>1 DEF S
  <1> QED BY <1>6, <1>7

-----------------------------------------------------------------------------
(* What holds of the objects between two events.                           *)

(* The tracks that the generators hold.                                    *)
Held(x) == ToSet(x.upcoming) \cup ToSet(x.waveUpcoming) \cup ToSet(x.buffer)

ListsFit(x) ==
    /\ IsInjective(x.upcoming) /\ IsInjective(x.waveUpcoming) /\ IsInjective(x.buffer)
    /\ ToSet(x.upcoming) \cap ToSet(x.waveUpcoming) = {}
    /\ ToSet(x.upcoming) \cap ToSet(x.buffer) = {}
    /\ ToSet(x.waveUpcoming) \cap ToSet(x.buffer) = {}

(* A wave that is over holds no tracks, and one that has generated enough  *)
(* has none in its buffer: it may end at any time.                         *)
WaveFits(x) ==
    /\ ~ x.waveActive => x.waveUpcoming = << >> /\ x.buffer = << >>
    /\ x.completed => x.generated >= WaveGoal
    /\ x.generated >= WaveGoal => x.buffer = << >>

TracksFit(x) == SourceFits(x, Held(x)) /\ ListsFit(x) /\ WaveFits(x)

DynamicTimer(x) == x.desired > Len(x.upcoming) => x.dynamicRefill \/ x.frozen

WaveTimer(x) ==
    /\ x.waveActive /\ ~ x.completed => x.waveTimers > 0
    /\ x.completed /\ x.waveActive => x.waveUpcoming # << >>

QueueTimer(x, q) ==
    x.enabled /\ Len(q) < DesiredQueueLength => x.refillPending

(* What the dynamic track generator may turn x into, and what the wave may *)
(* turn it into.                                                           *)
DynamicSteps(x) ==
    {y \in Machine : /\ TracksFit(y)
                     /\ SameWaveLists(x, y) /\ SameWaveTimer(x, y)
                     /\ SameSettings(x, y)}

WaveSteps(x) ==
    {y \in Machine : /\ TracksFit(y)
                     /\ SameDynamicList(x, y) /\ SameDynamicTimer(x, y)
                     /\ SameSettings(x, y)}

LEMMA SameListsFit ==
    ASSUME NEW x, NEW y, TracksFit(x), SameTracks(x, y), SameDynamicList(x, y),
           SameWaveLists(x, y), SameWaveTimer(x, y)
    PROVE  TracksFit(y)
  <1>1. Held(y) = Held(x)
    BY DEF Held, SameDynamicList, SameWaveLists
  <1>2. SourceFits(y, Held(x))
    BY SameTracksFit DEF TracksFit
  <1>3. ListsFit(y)
    BY DEF TracksFit, ListsFit, SameDynamicList, SameWaveLists
  <1>4. WaveFits(y)
    BY DEF TracksFit, WaveFits, SameWaveLists, SameWaveTimer
  <1> QED BY <1>1, <1>2, <1>3, <1>4 DEF TracksFit

LEMMA DynamicStepsOfSteps ==
    ASSUME NEW x, NEW y \in DynamicSteps(x), NEW z \in DynamicSteps(y)
    PROVE  z \in DynamicSteps(x)
  BY DEF DynamicSteps, SameWaveLists, SameWaveTimer, SameSettings

LEMMA WaveStepsOfSteps ==
    ASSUME NEW x, NEW y \in WaveSteps(x), NEW z \in WaveSteps(y)
    PROVE  z \in WaveSteps(x)
  BY DEF WaveSteps, SameDynamicList, SameDynamicTimer, SameSettings

-----------------------------------------------------------------------------
(* The dynamic track generator.                                            *)

LEMMA DynamicRefillSet ==
    ASSUME NEW x \in Machine, TracksFit(x), NEW refill \in BOOLEAN,
           NEW y, y = [x EXCEPT !.dynamicRefill = refill]
    PROVE  /\ y \in DynamicSteps(x) /\ SameDynamicList(x, y)
           /\ y.dynamicRefill = refill /\ y.desired = x.desired /\ y.frozen = x.frozen
  <1> DEFINE z == [x EXCEPT !.dynamicRefill = refill]
  <1>1. /\ z \in Machine /\ SameTracks(x, z) /\ SameDynamicList(x, z)
        /\ SameWaveLists(x, z) /\ SameWaveTimer(x, z) /\ SameSettings(x, z)
    BY Zenon DEF Machine, SameTracks, SameDynamicList, SameWaveLists, SameWaveTimer,
                 SameSettings
  <1>2. z.dynamicRefill = refill /\ z.desired = x.desired /\ z.frozen = x.frozen
    BY Zenon DEF Machine
  <1>3. y = z
    OBVIOUS
  <1> HIDE DEF z
  <1>4. TracksFit(z)
    BY <1>1, SameListsFit
  <1>5. z \in DynamicSteps(x)
    BY <1>1, <1>4 DEF DynamicSteps
  <1> QED BY <1>1, <1>2, <1>3, <1>5

LEMMA DynamicRefillChecked ==
    ASSUME NEW x \in Machine, TracksFit(x), NEW y, y = CheckDynamicRefill(x)
    PROVE  /\ y \in DynamicSteps(x) /\ SameDynamicList(x, y) /\ DynamicTimer(y)
           /\ y.desired = x.desired /\ y.frozen = x.frozen
  <1> DEFINE z == [x EXCEPT !.dynamicRefill = TRUE]
  <1>1. y = IF x.desired <= Len(x.upcoming) THEN x ELSE z
    BY Zenon DEF CheckDynamicRefill
  <1>2. /\ z \in DynamicSteps(x) /\ SameDynamicList(x, z)
        /\ z.dynamicRefill /\ z.desired = x.desired /\ z.frozen = x.frozen
    <2>1. TRUE \in BOOLEAN
      OBVIOUS
    <2> HIDE DEF z
    <2>2. z = [x EXCEPT !.dynamicRefill = TRUE]
      BY DEF z
    <2> QED BY <2>1, <2>2, DynamicRefillSet, Zenon
  <1> HIDE DEF z
  <1>3. x.upcoming \in Seq(Hashes) /\ x.desired \in Nat /\ Len(x.upcoming) \in Nat
    BY DEF Machine
  <1>4. CASE x.desired <= Len(x.upcoming)
    <2>1. y = x
      BY <1>1, <1>4
    <2>2. x \in DynamicSteps(x) /\ SameDynamicList(x, x)
      BY DEF DynamicSteps, SameDynamicList, SameWaveLists, SameWaveTimer, SameSettings
    <2>3. DynamicTimer(x)
      BY <1>3, <1>4 DEF DynamicTimer
    <2> QED BY <2>1, <2>2, <2>3
  <1>5. CASE ~ x.desired <= Len(x.upcoming)
    <2>1. y = z
      BY <1>1, <1>5
    <2> QED BY <1>2, <2>1 DEF DynamicTimer
  <1> QED BY <1>4, <1>5

WithUpcoming(x, upcoming) == [x EXCEPT !.upcoming = upcoming]

(* The list of upcoming tracks may change: what leaves it goes back to the *)
(* source, and what is new in it was taken.                                *)
LEMMA UpcomingChanged ==
    ASSUME NEW x \in Machine, NEW upcoming \in Seq(Hashes), IsInjective(upcoming),
           NEW T, SourceFits(x, T), NEW hs,
           T \ hs = ToSet(upcoming) \cup ToSet(x.waveUpcoming) \cup ToSet(x.buffer),
           ToSet(upcoming) \cap (ToSet(x.waveUpcoming) \cup ToSet(x.buffer)) = {},
           ListsFit(x), WaveFits(x),
           NEW y, y = PutBackUsed(WithUpcoming(x, upcoming), hs)
    PROVE  y \in DynamicSteps(x) /\ y.upcoming = upcoming /\ SameDynamicTimer(x, y)
  <1> DEFINE z == [x EXCEPT !.upcoming = upcoming]
  <1>1. /\ z \in Machine /\ SameTracks(x, z) /\ SameDynamicTimer(x, z)
        /\ SameWaveLists(x, z) /\ SameWaveTimer(x, z) /\ SameSettings(x, z)
        /\ z.upcoming = upcoming
    BY Zenon DEF Machine, SameTracks, SameDynamicTimer, SameWaveLists, SameWaveTimer,
                 SameSettings
  <1>2. y = PutBackUsed(z, hs)
    BY DEF WithUpcoming
  <1> HIDE DEF z
  <1>3. SourceFits(z, T)
    BY <1>1, SameTracksFit
  <1>4. y \in Machine /\ SameOutsideTheSource(z, y) /\ SourceFits(y, T \ hs)
    BY <1>1, <1>2, <1>3, UsedPutBack
  <1>5. /\ SameWaveLists(x, y) /\ SameWaveTimer(x, y) /\ SameSettings(x, y)
        /\ SameDynamicTimer(x, y) /\ y.upcoming = upcoming
    BY <1>1, <1>4 DEF SameOutsideTheSource, SameDynamicList, SameDynamicTimer, SameWaveLists,
                      SameWaveTimer, SameSettings
  <1>6. Held(y) = T \ hs
    BY <1>5 DEF Held, SameWaveLists
  <1>7. ListsFit(y)
    BY <1>5 DEF ListsFit, SameWaveLists
  <1>8. WaveFits(y)
    BY <1>5 DEF WaveFits, SameWaveLists, SameWaveTimer
  <1> QED BY <1>4, <1>5, <1>6, <1>7, <1>8 DEF DynamicSteps, TracksFit

LEMMA DynamicTracksGot ==
    ASSUME NEW x \in Machine, TracksFit(x), NEW count, NEW good,
           NEW r, r = DynamicGetTracks(x, count, good)
    PROVE  /\ r.next \in DynamicSteps(x) /\ DynamicTimer(r.next)
           /\ r.tracks \in Seq(Hashes) /\ IsInjective(r.tracks)
           /\ ToSet(r.tracks) \subseteq good
  <1> DEFINE d == Delivery(x.upcoming, count, good)
             rest == d.rest
             y == PutBackUsed(WithUpcoming(x, rest), d.taken)
             z == CheckDynamicRefill(y)
  <1>1. r.next = z /\ r.tracks = d.tracks
    <2>1. r = [next |-> z, tracks |-> d.tracks]
      BY Zenon DEF DynamicGetTracks, WithUpcoming
    <2> HIDE DEF z, d
    <2> QED BY <2>1
  <1>2. x.upcoming \in Seq(Hashes) /\ IsInjective(x.upcoming)
    BY DEF Machine, TracksFit, ListsFit
  <1>3. /\ d.tracks \in Seq(Hashes) /\ IsInjective(d.tracks)
        /\ ToSet(d.tracks) \subseteq d.taken \cap good
        /\ rest \in Seq(Hashes) /\ IsInjective(rest)
        /\ ToSet(x.upcoming) = d.taken \cup ToSet(rest)
        /\ d.taken \cap ToSet(rest) = {}
    BY <1>2, Delivered
  <1> HIDE DEF d, rest
  <1>4. y \in DynamicSteps(x)
    <2> DEFINE T == Held(x)
               hs == d.taken
    <2>1. SourceFits(x, T) /\ ListsFit(x) /\ WaveFits(x)
      BY DEF TracksFit
    <2>2. T \ hs = ToSet(rest) \cup ToSet(x.waveUpcoming) \cup ToSet(x.buffer)
      BY <1>3, <2>1 DEF Held, ListsFit
    <2>3. ToSet(rest) \cap (ToSet(x.waveUpcoming) \cup ToSet(x.buffer)) = {}
      BY <1>3, <2>1 DEF ListsFit
    <2>4. y = PutBackUsed(WithUpcoming(x, rest), hs)
      OBVIOUS
    <2> HIDE DEF T, hs, y
    <2> QED BY <1>3, <2>1, <2>2, <2>3, <2>4, UpcomingChanged
  <1> HIDE DEF y
  <1>5. y \in Machine /\ TracksFit(y)
    BY <1>4 DEF DynamicSteps
  <1>6. z \in DynamicSteps(y) /\ DynamicTimer(z)
    BY <1>5, DynamicRefillChecked
  <1> HIDE DEF z
  <1>7. z \in DynamicSteps(x)
    BY <1>4, <1>6, DynamicStepsOfSteps
  <1> QED BY <1>1, <1>3, <1>6, <1>7

(* Candidates are tracks that no generator holds.                          *)
LEMMA CandidatesTaken ==
    ASSUME NEW x \in Machine, TracksFit(x), NEW count, NEW tries \in Nat, NEW all,
           NEW accepted \in SUBSET Hashes, NEW order \in Orders,
           NEW t, t = TakeFromSource(x, count, tries, all, accepted, order)
    PROVE  /\ t.next \in Machine /\ SameOutsideTheSource(x, t.next)
           /\ t.tracks \in Seq(Hashes) /\ IsInjective(t.tracks)
           /\ ToSet(t.tracks) \cap Held(x) = {}
           /\ SourceFitsWith(t.next, Held(x), t.tracks)
  <1> DEFINE T == Held(x)
  <1>1. SourceFits(x, T)
    BY DEF TracksFit
  <1> HIDE DEF T
  <1>2. /\ t.next \in Machine /\ SameOutsideTheSource(x, t.next)
        /\ t.tracks \in Seq(Hashes) /\ IsInjective(t.tracks)
        /\ ToSet(t.tracks) \cap T = {}
        /\ SourceFitsWith(t.next, T, t.tracks)
    <2>1. t \in Taking(x, T)
      BY <1>1, TakenFromSource
    <2> QED BY <2>1 DEF Taking
  <1> QED BY <1>2 DEF T

(* One of the attempts to refill the list of upcoming tracks.              *)
LEMMA UpcomingAttempted ==
    ASSUME NEW x \in Machine, TracksFit(x), NEW filter \in SUBSET Hashes,
           NEW order \in Orders,
           NEW count, NEW tries \in Nat, NEW all,
           NEW t, t = TakeFromSource(x, count, tries, all, filter, order),
           NEW kept, kept = BestOf(t.tracks, DynamicKeep, order)
    PROVE  PutBackUsed([t.next EXCEPT !.upcoming = @ \o kept],
                       ToSet(t.tracks) \ ToSet(kept)) \in DynamicSteps(x)
  <1> DEFINE T == Held(x)
             next == t.next
             tracks == t.tracks
             upcoming == next.upcoming \o kept
             hs == ToSet(tracks) \ ToSet(kept)
             y == PutBackUsed(WithUpcoming(next, upcoming), hs)
  <1>1. SourceFits(x, T) /\ ListsFit(x) /\ WaveFits(x)
    BY DEF TracksFit
  <1>3. /\ next \in Machine /\ SameOutsideTheSource(x, next)
        /\ tracks \in Seq(Hashes) /\ IsInjective(tracks)
        /\ ToSet(tracks) \cap T = {}
        /\ SourceFits(next, T \cup ToSet(tracks))
    <2> HIDE DEF T, next, tracks
    <2>1. /\ t.next \in Machine /\ SameOutsideTheSource(x, t.next)
          /\ t.tracks \in Seq(Hashes) /\ IsInjective(t.tracks)
          /\ ToSet(t.tracks) \cap T = {}
          /\ SourceFitsWith(t.next, T, t.tracks)
      BY CandidatesTaken DEF T
    <2> QED BY <2>1 DEF next, tracks, SourceFitsWith
  <1> HIDE DEF next, tracks
  <1>4. /\ kept \in Seq(Hashes) /\ IsInjective(kept) /\ ToSet(kept) \subseteq ToSet(tracks)
    BY <1>3, BestOfTracks DEF tracks
  <1>5. /\ next.upcoming = x.upcoming /\ next.waveUpcoming = x.waveUpcoming
        /\ next.buffer = x.buffer /\ next.upcoming \in Seq(Hashes)
    BY <1>3 DEF SameOutsideTheSource, SameDynamicList, SameWaveLists, Machine
  <1>6. ListsFit(next) /\ WaveFits(next)
    BY <1>1, <1>3 DEF ListsFit, WaveFits, SameOutsideTheSource, SameDynamicList,
                      SameWaveLists, SameWaveTimer
  <1>7. ToSet(kept) \cap T = {}
    BY <1>3, <1>4
  <1>8. /\ upcoming \in Seq(Hashes) /\ IsInjective(upcoming)
        /\ ToSet(upcoming) = ToSet(x.upcoming) \cup ToSet(kept)
    <2>1. IsInjective(next.upcoming) /\ ToSet(next.upcoming) \cap ToSet(kept) = {}
      BY <1>5, <1>6, <1>7 DEF ListsFit, Held
    <2> DEFINE old == next.upcoming
    <2>2. /\ old \in Seq(Hashes) /\ IsInjective(old) /\ ToSet(old) \cap ToSet(kept) = {}
          /\ old = x.upcoming /\ upcoming = old \o kept
      BY <1>5, <2>1
    <2> HIDE DEF old, upcoming
    <2>3. /\ old \o kept \in Seq(Hashes) /\ IsInjective(old \o kept)
          /\ ToSet(old \o kept) = ToSet(old) \cup ToSet(kept)
      BY <1>4, <2>2, JoinedLists
    <2> QED BY <2>2, <2>3
  <1> HIDE DEF upcoming
  <1> DEFINE held == T \cup ToSet(tracks)
  <1>9. held \ hs = ToSet(upcoming) \cup ToSet(next.waveUpcoming) \cup ToSet(next.buffer)
    <2>1. held \ hs = T \cup ToSet(kept)
      BY <1>3, <1>4
    <2> QED BY <1>5, <1>8, <2>1 DEF Held
  <1>10. ToSet(upcoming) \cap (ToSet(next.waveUpcoming) \cup ToSet(next.buffer)) = {}
    BY <1>1, <1>5, <1>7, <1>8 DEF ListsFit, Held
  <1>11. SourceFits(next, held)
    BY <1>3
  <1> HIDE DEF held, hs
  <1>12. y \in DynamicSteps(next)
    BY <1>3, <1>6, <1>8, <1>9, <1>10, <1>11, UpcomingChanged
  <1> HIDE DEF y
  <1>13. y \in DynamicSteps(x)
    BY <1>3, <1>12 DEF DynamicSteps, SameOutsideTheSource, SameWaveLists, SameWaveTimer,
                       SameSettings
  <1>14. y = PutBackUsed([t.next EXCEPT !.upcoming = @ \o kept], ToSet(t.tracks) \ ToSet(kept))
    BY Zenon DEF y, upcoming, hs, tracks, next, WithUpcoming
  <1> QED BY <1>13, <1>14, Zenon

LEMMA UpcomingRefilled ==
    ASSUME NEW x \in Machine, TracksFit(x), NEW st \in [Users -> SUBSET Hashes],
           NEW order \in Orders, NEW y, y = RefillUpcoming(x, st, order)
    PROVE  y \in DynamicSteps(x) /\ DynamicTimer(y)
  <1> DEFINE filter == DynamicFilter(st, x.user)
             fired == [x EXCEPT !.dynamicRefill = FALSE]
             S == DynamicSteps(fired)
             Attempt(z) ==
                LET t == TakeFromSource(z, DynamicTake, DynamicTake * 2, TRUE,
                                        filter, order)
                    kept == BestOf(t.tracks, DynamicKeep, order)
                IN  IF Len(z.upcoming) >= z.desired THEN z
                    ELSE PutBackUsed([t.next EXCEPT !.upcoming = @ \o kept],
                                     ToSet(t.tracks) \ ToSet(kept))
             result == Repeat(Attempt, 3, fired)
  <1>1. y = IF x.frozen THEN fired ELSE CheckDynamicRefill(result)
    BY Zenon DEF RefillUpcoming
  <1>2. fired \in DynamicSteps(x) /\ fired.frozen = x.frozen
    BY DynamicRefillSet, Zenon
  <1>3. filter \in SUBSET Hashes
    BY DEF DynamicFilter, Machine
  <1> HIDE DEF fired, filter
  <1>4. fired \in Machine /\ TracksFit(fired)
    BY <1>2 DEF DynamicSteps
  <1>5. fired \in S
    BY <1>4 DEF DynamicSteps, SameWaveLists, SameWaveTimer, SameSettings
  <1>6. ASSUME NEW z \in S PROVE Attempt(z) \in S
    <2> DEFINE t == TakeFromSource(z, DynamicTake, DynamicTake * 2, TRUE, filter, order)
               kept == BestOf(t.tracks, DynamicKeep, order)
               w == PutBackUsed([t.next EXCEPT !.upcoming = @ \o kept],
                                ToSet(t.tracks) \ ToSet(kept))
    <2>1. z \in Machine /\ TracksFit(z)
      BY DEF DynamicSteps
    <2>2. w \in DynamicSteps(z)
      <3>1. DynamicTake * 2 \in Nat
        BY DynamicModeConstants
      <3> HIDE DEF S
      <3> QED BY <1>3, <2>1, <3>1, UpcomingAttempted, Zenon
    <2>3. Attempt(z) = IF Len(z.upcoming) >= z.desired THEN z ELSE w
      BY Zenon
    <2> HIDE DEF w, Attempt
    <2>4. w \in S
      BY <2>2, DynamicStepsOfSteps
    <2> QED BY <2>3, <2>4
  <1> HIDE DEF S, Attempt
  <1>7. result \in S
    <2> DEFINE step == [k \in 1..3 |-> [s \in S |-> Attempt(s)]]
               Listed(f) == f = [k \in 0..3 |->
                   IF k = 0 THEN fired
                   ELSE CHOOSE b \in {Attempt(c) : c \in {f[k - 1]}} : TRUE]
               after == CHOOSE f : Listed(f)
    <2>1. step \in [1..3 -> [S -> S]]
      BY <1>6
    <2>2. PICK f \in [0..3 -> S] :
              f[0] = fired /\ \A k \in 1..3 : f[k] = step[k][f[k - 1]]
      <3> DEFINE n == 3
      <3>1. n \in Nat /\ step \in [1..n -> [S -> S]]
        BY <2>1
      <3> HIDE DEF step, n
      <3>2. \E f \in [0..n -> S] :
                f[0] = fired /\ \A k \in 1..n : f[k] = step[k][f[k - 1]]
        BY <1>5, <3>1, LoopExists
      <3> QED BY <3>2 DEF n
    <2>3. ASSUME NEW k \in 0..3, k # 0
          PROVE  f[k] = CHOOSE b \in {Attempt(c) : c \in {f[k - 1]}} : TRUE
      <3>1. k \in 1..3 /\ k - 1 \in 0..3
        BY <2>3
      <3>2. f[k] = step[k][f[k - 1]] /\ f[k - 1] \in S
        <4> HIDE DEF step
        <4> QED BY <2>2, <3>1
      <3>3. f[k] = Attempt(f[k - 1])
        BY <3>1, <3>2
      <3>4. {Attempt(c) : c \in {f[k - 1]}} = {Attempt(f[k - 1])}
        OBVIOUS
      <3> QED BY <3>3, <3>4
    <2>4. Listed(f)
      <3> HIDE DEF step
      <3> QED BY <2>2, <2>3
    <2> HIDE DEF Listed
    <2>5. Listed(after)
      BY <2>4, Zenon
    <2>6. result = after[3]
      BY Zenon DEF Repeat, Listed
    <2> HIDE DEF after
    <2>7. after[0] = fired /\ \A k \in 1..3 :
              after[k] = CHOOSE b \in {Attempt(c) : c \in {after[k - 1]}} : TRUE
      BY <2>5 DEF Listed
    <2>8. \A k \in 1..3 : after[k - 1] \in S => after[k] \in S
      <3> SUFFICES ASSUME NEW k \in 1..3, after[k - 1] \in S
                   PROVE  after[k] \in S
        OBVIOUS
      <3>1. {Attempt(c) : c \in {after[k - 1]}} = {Attempt(after[k - 1])}
        OBVIOUS
      <3>2. after[k] = Attempt(after[k - 1])
        BY <2>7, <3>1
      <3> QED BY <1>6, <3>2
    <2>9. after[0] \in S
      BY <1>5, <2>7
    <2>10. \A k \in 0..3 : after[k] \in S
      BY <2>8, <2>9, LoopStays
    <2> QED BY <2>6, <2>10
  <1> HIDE DEF result
  <1>8. result \in Machine /\ TracksFit(result)
    BY <1>7 DEF S, DynamicSteps
  <1> DEFINE checked == CheckDynamicRefill(result)
  <1>9. checked \in DynamicSteps(result) /\ DynamicTimer(checked)
    BY <1>8, DynamicRefillChecked
  <1> HIDE DEF checked
  <1>10. result \in DynamicSteps(x)
    BY <1>2, <1>7, DynamicStepsOfSteps DEF S
  <1>11. checked \in DynamicSteps(x)
    BY <1>9, <1>10, DynamicStepsOfSteps
  <1>12. CASE x.frozen
    <2>1. y = fired
      BY <1>1, <1>12
    <2> QED BY <1>2, <1>12, <2>1 DEF DynamicTimer
  <1>13. CASE ~ x.frozen
    <2>1. y = checked
      BY <1>1, <1>13 DEF checked
    <2> QED BY <1>9, <1>11, <2>1
  <1> QED BY <1>12, <1>13

LEMMA DynamicCriteriaApplied ==
    ASSUME NEW x \in Machine, TracksFit(x), NEW st,
           NEW y, y = DynamicCriteriaChanged(x, st)
    PROVE  y \in DynamicSteps(x) /\ DynamicTimer(y)
  <1> DEFINE good == DynamicFilter(st, x.user)
             left == Selected(x.upcoming, good)
             hs == ToSet(x.upcoming) \ good
             T == Held(x)
             z == PutBackUsed(WithUpcoming(x, left), hs)
  <1>1. y = CheckDynamicRefill(z)
    BY Zenon DEF DynamicCriteriaChanged, WithUpcoming
  <1>2. SourceFits(x, T) /\ ListsFit(x) /\ WaveFits(x)
    BY DEF TracksFit
  <1>3. x.upcoming \in Seq(Hashes) /\ IsInjective(x.upcoming)
    BY <1>2 DEF Machine, ListsFit
  <1>4. /\ left \in Seq(Hashes) /\ IsInjective(left)
        /\ ToSet(left) = ToSet(x.upcoming) \cap good
    <2> HIDE DEF good
    <2> QED BY <1>3, SelectedOf
  <1>5. T \ hs = ToSet(left) \cup ToSet(x.waveUpcoming) \cup ToSet(x.buffer)
    <2> HIDE DEF left, good
    <2> QED BY <1>2, <1>4 DEF Held, ListsFit
  <1>6. ToSet(left) \cap (ToSet(x.waveUpcoming) \cup ToSet(x.buffer)) = {}
    <2> HIDE DEF left, good
    <2> QED BY <1>2, <1>4 DEF ListsFit
  <1> HIDE DEF T, hs, left, good
  <1>7. z \in DynamicSteps(x)
    BY <1>2, <1>4, <1>5, <1>6, UpcomingChanged
  <1> HIDE DEF z
  <1>8. z \in Machine /\ TracksFit(z)
    BY <1>7 DEF DynamicSteps
  <1>9. y \in DynamicSteps(z) /\ DynamicTimer(y)
    BY <1>1, <1>8, DynamicRefillChecked
  <1> QED BY <1>7, <1>9, DynamicStepsOfSteps

LEMMA DesiredCountSet ==
    ASSUME NEW x \in Machine, TracksFit(x), DynamicTimer(x),
           NEW y, y = SetDesiredUpcomingCount(x)
    PROVE  y \in DynamicSteps(x) /\ DynamicTimer(y)
  <1> DEFINE z == [x EXCEPT !.desired = DesiredUpcoming]
             checked == CheckDynamicRefill(z)
  <1>1. y = IF x.desired = DesiredUpcoming THEN x ELSE checked
    BY Zenon DEF SetDesiredUpcomingCount
  <1>2. DesiredUpcoming \in Nat
    BY DynamicModeConstants DEF DesiredUpcoming
  <1>3. /\ z \in Machine /\ SameTracks(x, z) /\ SameDynamicList(x, z)
        /\ SameWaveLists(x, z) /\ SameWaveTimer(x, z) /\ SameSettings(x, z)
    BY <1>2, Zenon DEF Machine, SameTracks, SameDynamicList, SameWaveLists, SameWaveTimer,
                       SameSettings
  <1> HIDE DEF z
  <1>4. TracksFit(z)
    BY <1>3, SameListsFit
  <1>5. z \in DynamicSteps(x)
    BY <1>3, <1>4 DEF DynamicSteps
  <1>6. checked \in DynamicSteps(z) /\ DynamicTimer(checked)
    BY <1>3, <1>4, DynamicRefillChecked
  <1> HIDE DEF checked
  <1>7. checked \in DynamicSteps(x)
    BY <1>5, <1>6, DynamicStepsOfSteps
  <1>8. x \in DynamicSteps(x)
    BY DEF DynamicSteps, SameWaveLists, SameWaveTimer, SameSettings
  <1> QED BY <1>1, <1>6, <1>7, <1>8

LEMMA FrozenSet ==
    ASSUME NEW x \in Machine, TracksFit(x), NEW frozen \in BOOLEAN,
           NEW y, y = [x EXCEPT !.frozen = frozen]
    PROVE  /\ y \in DynamicSteps(x) /\ SameDynamicList(x, y) /\ y.frozen = frozen
           /\ y.dynamicRefill = x.dynamicRefill /\ y.desired = x.desired
  <1> DEFINE z == [x EXCEPT !.frozen = frozen]
  <1>1. /\ z \in Machine /\ SameTracks(x, z) /\ SameDynamicList(x, z)
        /\ SameWaveLists(x, z) /\ SameWaveTimer(x, z) /\ SameSettings(x, z)
    BY Zenon DEF Machine, SameTracks, SameDynamicList, SameWaveLists, SameWaveTimer,
                 SameSettings
  <1>2. z.frozen = frozen /\ z.dynamicRefill = x.dynamicRefill /\ z.desired = x.desired
    BY Zenon DEF Machine
  <1>3. y = z
    OBVIOUS
  <1> HIDE DEF z
  <1>4. TracksFit(z)
    BY <1>1, SameListsFit
  <1>5. z \in DynamicSteps(x)
    BY <1>1, <1>4 DEF DynamicSteps
  <1> QED BY <1>1, <1>2, <1>3, <1>5

-----------------------------------------------------------------------------
(* The wave.                                                               *)

(* A wave that ends gives back all that it holds.                          *)
LEMMA WaveTerminated ==
    ASSUME NEW x \in Machine, TracksFit(x), NEW y, y = TerminateWave(x)
    PROVE  /\ y \in WaveSteps(x) /\ (WaveTimer(x) => WaveTimer(y))
           /\ y.waveTimers = x.waveTimers
           /\ x.waveActive => ~ y.waveActive
  <1> DEFINE hs == ToSet(x.waveUpcoming) \cup ToSet(x.buffer)
             z == [x EXCEPT !.waveActive = FALSE, !.generatorWave = FALSE,
                            !.waveUpcoming = << >>, !.buffer = << >>]
             w == PutBackUsed(z, hs)
             T == Held(x)
  <1>1. y = IF ~ x.waveActive THEN x ELSE w
    BY Zenon DEF TerminateWave
  <1>2. /\ z \in Machine /\ SameTracks(x, z) /\ SameDynamicList(x, z)
        /\ SameDynamicTimer(x, z) /\ SameWaveTimer(x, z) /\ SameSettings(x, z)
    <2>1. << >> \in Seq(Hashes)
      OBVIOUS
    <2> QED BY <2>1, Zenon DEF Machine, SameTracks, SameDynamicList, SameDynamicTimer,
                               SameWaveTimer, SameSettings
  <1>3. z.waveUpcoming = << >> /\ z.buffer = << >> /\ z.waveActive = FALSE
    BY Zenon DEF Machine
  <1> HIDE DEF z
  <1>4. SourceFits(x, T) /\ ListsFit(x) /\ WaveFits(x)
    BY DEF TracksFit
  <1>5. SourceFits(z, T)
    BY <1>2, <1>4, SameTracksFit
  <1>6. T \ hs = ToSet(x.upcoming)
    BY <1>4 DEF Held, ListsFit
  <1> HIDE DEF T, hs
  <1>7. w \in Machine /\ SameOutsideTheSource(z, w) /\ SourceFits(w, T \ hs)
    BY <1>2, <1>5, UsedPutBack
  <1> HIDE DEF w
  <1>8. /\ SameDynamicList(x, w) /\ SameDynamicTimer(x, w) /\ SameWaveTimer(x, w)
        /\ SameSettings(x, w) /\ w.waveUpcoming = << >> /\ w.buffer = << >>
        /\ ~ w.waveActive
    <2>1. w.waveActive = z.waveActive
      BY <1>7 DEF SameOutsideTheSource, SameWaveLists
    <2>2. ~ w.waveActive
      BY <1>3, <2>1, Zenon
    <2> QED BY <1>2, <1>3, <1>7, <2>2
            DEF SameOutsideTheSource, SameDynamicList, SameDynamicTimer, SameWaveTimer,
                SameSettings, SameWaveLists
  <1>9. Held(w) = T \ hs
    BY <1>6, <1>8, EmptyList DEF Held, SameDynamicList
  <1>10. ListsFit(w)
    BY <1>4, <1>8, EmptyList DEF ListsFit, SameDynamicList
  <1>11. WaveFits(w)
    BY <1>4, <1>8 DEF WaveFits, SameWaveTimer
  <1>12. w \in WaveSteps(x)
    BY <1>7, <1>8, <1>9, <1>10, <1>11 DEF WaveSteps, TracksFit
  <1>13. WaveTimer(w) /\ w.waveTimers = x.waveTimers
    BY <1>8 DEF WaveTimer, SameWaveTimer
  <1>14. x \in WaveSteps(x)
    BY DEF WaveSteps, SameDynamicList, SameDynamicTimer, SameSettings
  <1> QED BY <1>1, <1>8, <1>12, <1>13, <1>14

LEMMA WaveStarted ==
    ASSUME NEW x \in Machine, TracksFit(x), WaveTimer(x), NEW y, y = StartWave(x)
    PROVE  y \in WaveSteps(x) /\ WaveTimer(y)
  <1> DEFINE timers == x.waveTimers + 1
             z == [x EXCEPT !.waveActive = TRUE, !.generatorWave = TRUE,
                            !.completed = FALSE, !.fails = 0, !.generated = 0,
                            !.delivered = 0, !.progress = -1, !.total = 0,
                            !.waveTimers = timers]
  <1>1. y = IF x.user = Public \/ x.waveActive THEN x ELSE z
    BY Zenon DEF StartWave
  <1>2. timers \in Nat /\ timers > 0 /\ 0 \in Nat /\ 0 \in Int /\ -1 \in Int
    BY DEF Machine
  <1> HIDE DEF timers
  <1>3. z \in Machine
    BY <1>2, Zenon DEF Machine
  <1>4. /\ SameTracks(x, z) /\ SameDynamicList(x, z) /\ SameDynamicTimer(x, z)
        /\ SameSettings(x, z) /\ z.waveUpcoming = x.waveUpcoming /\ z.buffer = x.buffer
    BY Zenon DEF Machine, SameTracks, SameDynamicList, SameDynamicTimer, SameSettings
  <1>5. z.waveActive /\ ~ z.completed /\ z.waveTimers = timers
    BY Zenon DEF Machine
  <1> HIDE DEF z
  <1>6. SourceFits(x, Held(x)) /\ ListsFit(x) /\ WaveFits(x)
    BY DEF TracksFit
  <1>7. CASE ~ x.waveActive
    <2>1. Held(z) = Held(x) /\ ListsFit(z)
      BY <1>4, <1>6 DEF Held, ListsFit, SameDynamicList
    <2>2. SourceFits(z, Held(z))
      BY <1>4, <1>6, <2>1, SameTracksFit
    <2>3. WaveFits(z)
      BY <1>4, <1>5, <1>6, <1>7 DEF WaveFits
    <2>4. z \in WaveSteps(x)
      BY <1>3, <1>4, <2>1, <2>2, <2>3 DEF WaveSteps, TracksFit
    <2>5. WaveTimer(z)
      BY <1>2, <1>5 DEF WaveTimer
    <2>6. x \in WaveSteps(x)
      BY DEF WaveSteps, SameDynamicList, SameDynamicTimer, SameSettings
    <2> QED BY <1>1, <2>4, <2>5, <2>6
  <1>8. CASE x.waveActive
    <2>1. y = x
      BY <1>1, <1>8
    <2> QED BY <2>1 DEF WaveSteps, SameDynamicList, SameDynamicTimer, SameSettings
  <1> QED BY <1>7, <1>8

(* A wave with all of its tracks ends when the last one is delivered.      *)
LEMMA ProgressCalculated ==
    ASSUME NEW x \in Machine, TracksFit(x),
           x.waveActive /\ ~ x.completed => x.waveTimers > 0,
           NEW y, y = CalculateProgress(x)
    PROVE  y \in WaveSteps(x) /\ WaveTimer(y)
  <1> DEFINE progress == x.delivered
             total == x.delivered + Len(x.waveUpcoming)
             z == [x EXCEPT !.progress = progress, !.total = total]
             w == [z EXCEPT !.waveActive = FALSE, !.generatorWave = FALSE]
  <1>1. y = IF ~ x.completed THEN x ELSE IF x.waveUpcoming # << >> THEN z ELSE w
    BY Zenon DEF CalculateProgress
  <1>2. progress \in Int /\ total \in Int
    BY DEF Machine
  <1> HIDE DEF progress, total
  <1>3. /\ z \in Machine /\ SameTracks(x, z) /\ SameDynamicList(x, z)
        /\ SameDynamicTimer(x, z) /\ SameWaveLists(x, z) /\ SameWaveTimer(x, z)
        /\ SameSettings(x, z)
    BY <1>2, Zenon DEF Machine, SameTracks, SameDynamicList, SameDynamicTimer,
                       SameWaveLists, SameWaveTimer, SameSettings
  <1> HIDE DEF z
  <1>4. /\ w \in Machine /\ SameTracks(z, w) /\ SameDynamicList(z, w)
        /\ SameDynamicTimer(z, w) /\ SameWaveTimer(z, w) /\ SameSettings(z, w)
        /\ w.waveUpcoming = z.waveUpcoming /\ w.buffer = z.buffer
    BY <1>3, ZenonT(20) DEF Machine, SameTracks, SameDynamicList, SameDynamicTimer,
                       SameWaveTimer, SameSettings
  <1>5. ~ w.waveActive
    BY <1>3, Zenon DEF Machine
  <1> HIDE DEF w
  <1>6. TracksFit(z)
    BY <1>3, SameListsFit
  <1>7. z \in WaveSteps(x)
    BY <1>3, <1>6 DEF WaveSteps
  <1>8. CASE ~ x.completed
    <2>1. y = x
      BY <1>1, <1>8
    <2>2. x \in WaveSteps(x)
      BY DEF WaveSteps, SameDynamicList, SameDynamicTimer, SameSettings
    <2> QED BY <1>8, <2>1, <2>2 DEF WaveTimer
  <1>9. CASE x.completed /\ x.waveUpcoming # << >>
    <2>1. y = z
      BY <1>1, <1>9
    <2>2. WaveTimer(z)
      BY <1>3, <1>9 DEF WaveTimer, SameWaveLists, SameWaveTimer
    <2> QED BY <1>7, <2>1, <2>2
  <1>10. CASE x.completed /\ x.waveUpcoming = << >>
    <2>1. y = w
      BY <1>1, <1>10
    <2>2. z.waveUpcoming = << >> /\ z.buffer = << >>
      BY <1>3, <1>6, <1>10 DEF TracksFit, WaveFits, SameWaveLists, SameWaveTimer
    <2>3. Held(w) = Held(z) /\ ListsFit(w)
      BY <1>4, <1>6 DEF Held, ListsFit, TracksFit, SameDynamicList
    <2>4. SourceFits(w, Held(w))
      BY <1>4, <1>6, <2>3, SameTracksFit DEF TracksFit
    <2>5. WaveFits(w)
      BY <1>4, <1>6, <2>2 DEF TracksFit, WaveFits, SameWaveTimer
    <2>6. w \in WaveSteps(z)
      BY <1>4, <2>3, <2>4, <2>5 DEF WaveSteps, TracksFit
    <2>7. w \in WaveSteps(x)
      BY <1>7, <2>6, WaveStepsOfSteps
    <2>8. WaveTimer(w)
      BY <1>5 DEF WaveTimer
    <2> QED BY <2>1, <2>7, <2>8
  <1> QED BY <1>8, <1>9, <1>10

(* The lists of a wave may change: what leaves them goes back to the       *)
(* source, and what is new in them was taken.                              *)
LEMMA WaveGivenBack ==
    ASSUME NEW x \in Machine, NEW z \in Machine, SameTracks(x, z),
           SameDynamicList(x, z), SameDynamicTimer(x, z), SameSettings(x, z),
           NEW T, SourceFits(x, T), NEW hs, ListsFit(z), WaveFits(z),
           T \ hs = Held(z), NEW y, y = PutBackUsed(z, hs)
    PROVE  /\ y \in WaveSteps(x) /\ SameWaveLists(z, y) /\ SameWaveTimer(z, y)
  <1>1. SourceFits(z, T)
    BY SameTracksFit
  <1>2. y \in Machine /\ SameOutsideTheSource(z, y) /\ SourceFits(y, T \ hs)
    BY <1>1, UsedPutBack
  <1>3. /\ SameDynamicList(x, y) /\ SameDynamicTimer(x, y) /\ SameSettings(x, y)
        /\ SameWaveLists(z, y) /\ SameWaveTimer(z, y)
    BY <1>2 DEF SameOutsideTheSource, SameDynamicList, SameDynamicTimer, SameSettings,
                SameWaveLists, SameWaveTimer
  <1>4. Held(y) = Held(z) /\ ListsFit(y)
    BY <1>2 DEF Held, ListsFit, SameOutsideTheSource, SameDynamicList, SameWaveLists
  <1>5. WaveFits(y)
    BY <1>3 DEF WaveFits, SameWaveLists, SameWaveTimer
  <1>6. SourceFits(y, Held(y))
    BY <1>2, <1>4
  <1> QED BY <1>2, <1>3, <1>4, <1>5, <1>6 DEF WaveSteps, TracksFit

LEMMA WaveTracksGot ==
    ASSUME NEW x \in Machine, TracksFit(x), WaveTimer(x), NEW count, NEW good,
           NEW r, r = WaveGetTracks(x, count, good)
    PROVE  /\ r.next \in WaveSteps(x) /\ WaveTimer(r.next)
           /\ r.tracks \in Seq(Hashes) /\ IsInjective(r.tracks)
           /\ ToSet(r.tracks) \subseteq good
  <1> DEFINE d == Delivery(x.waveUpcoming, count, good)
             rest == d.rest
             delivered == x.delivered + Len(d.tracks)
             y == PutBackUsed([x EXCEPT !.waveUpcoming = rest, !.delivered = delivered],
                              d.taken)
             z == CalculateProgress(y)
             none == << >>
  <1>1. r = IF ~ x.waveActive THEN [next |-> x, tracks |-> none]
            ELSE [next |-> z, tracks |-> d.tracks]
    BY Zenon DEF WaveGetTracks
  <1>2. x.waveUpcoming \in Seq(Hashes) /\ IsInjective(x.waveUpcoming)
    BY DEF Machine, TracksFit, ListsFit
  <1>3. /\ d.tracks \in Seq(Hashes) /\ IsInjective(d.tracks)
        /\ ToSet(d.tracks) \subseteq d.taken \cap good
        /\ rest \in Seq(Hashes) /\ IsInjective(rest)
        /\ ToSet(x.waveUpcoming) = d.taken \cup ToSet(rest)
        /\ d.taken \cap ToSet(rest) = {}
    BY <1>2, Delivered
  <1>4. delivered \in Nat
    <2>1. x.delivered \in Nat
      BY DEF Machine
    <2> HIDE DEF d
    <2> QED BY <1>3, <2>1
  <1> HIDE DEF d, rest, delivered
  <1>5. CASE ~ x.waveActive
    <2>1. r.next = x /\ r.tracks = none
      <3> HIDE DEF none, z
      <3> QED BY <1>1, <1>5
    <2>2. none \in Seq(Hashes) /\ IsInjective(none) /\ ToSet(none) = {}
      BY EmptyList
    <2>3. x \in WaveSteps(x)
      BY DEF WaveSteps, SameDynamicList, SameDynamicTimer, SameSettings
    <2> HIDE DEF none
    <2> QED BY <2>1, <2>2, <2>3
  <1>6. CASE x.waveActive
    <2> DEFINE T == Held(x)
               hs == d.taken
               w == [x EXCEPT !.waveUpcoming = rest, !.delivered = delivered]
    <2>1. SourceFits(x, T) /\ ListsFit(x) /\ WaveFits(x)
      BY DEF TracksFit
    <2>3. y = PutBackUsed(w, hs)
      BY Zenon
    <2>4. /\ w \in Machine /\ SameTracks(x, w) /\ SameDynamicList(x, w)
          /\ SameDynamicTimer(x, w) /\ SameSettings(x, w) /\ SameWaveTimer(x, w)
          /\ w.waveUpcoming = rest /\ w.buffer = x.buffer
          /\ w.waveActive = x.waveActive
      BY <1>3, <1>4, Zenon DEF Machine, SameTracks, SameDynamicList, SameDynamicTimer,
                               SameSettings, SameWaveTimer
    <2> HIDE DEF w
    <2>5. T \ hs = Held(w)
      <3>1. T \ hs = ToSet(x.upcoming) \cup ToSet(rest) \cup ToSet(x.buffer)
        BY <1>3, <2>1 DEF Held, ListsFit
      <3> QED BY <2>4, <3>1 DEF Held, SameDynamicList
    <2>6. /\ y \in WaveSteps(x) /\ y.completed = x.completed
          /\ y.waveTimers = x.waveTimers /\ y.waveActive = x.waveActive
      <3>1. ListsFit(w)
        BY <1>3, <2>1, <2>4 DEF ListsFit, SameDynamicList
      <3>2. WaveFits(w)
        BY <1>6, <2>1, <2>4 DEF WaveFits, SameWaveTimer
      <3> HIDE DEF y, T, hs
      <3>3. y \in WaveSteps(x) /\ SameWaveLists(w, y) /\ SameWaveTimer(w, y)
        BY <2>1, <2>3, <2>4, <2>5, <3>1, <3>2, WaveGivenBack
      <3> QED BY <2>4, <3>3 DEF SameWaveLists, SameWaveTimer
    <2> HIDE DEF y, T, hs
    <2>7. y \in Machine /\ TracksFit(y)
      BY <2>6 DEF WaveSteps
    <2>8. y.waveActive /\ ~ y.completed => y.waveTimers > 0
      BY <2>6 DEF WaveTimer
    <2>9. z \in WaveSteps(y) /\ WaveTimer(z)
      BY <2>7, <2>8, ProgressCalculated
    <2> HIDE DEF z
    <2>10. z \in WaveSteps(x)
      BY <2>6, <2>9, WaveStepsOfSteps
    <2>11. r.next = z /\ r.tracks = d.tracks
      BY <1>1, <1>6
    <2> QED BY <1>3, <2>9, <2>10, <2>11
  <1> QED BY <1>5, <1>6

(* What is left of a step of the wave that goes on as before.              *)
SameWaveGoes(x, y) ==
    y.waveActive => /\ SameWaveTimer(x, y) /\ y.waveUpcoming = x.waveUpcoming
                    /\ x.waveActive

LEMMA BufferGrown ==
    ASSUME NEW x \in Machine, TracksFit(x), x.waveActive, x.generated < WaveGoal,
           NEW good \in SUBSET Hashes, NEW order \in Orders,
           NEW y, y = GrowBuffer(x, good, order)
    PROVE  y \in WaveSteps(x) /\ SameWaveGoes(x, y)
  <1> DEFINE wanted == WaveTake - Len(x.buffer)
             all == FALSE
             t == TakeFromSource(x, wanted, WaveTake, all, good, order)
             next == t.next
             tracks == t.tracks
             buffer == next.buffer \o tracks
             fails == next.fails + wanted
             grown == [next EXCEPT !.buffer = buffer]
             failed == [next EXCEPT !.fails = fails]
             ended == TerminateWave(next)
             T == Held(x)
  <1>1. \/ y = x \/ (tracks # << >> /\ y = grown)
        \/ (wanted > 0 /\ tracks = << >> /\ y = failed)
        \/ (tracks = << >> /\ y = ended)
    <2>1. y = IF wanted <= 0 THEN x ELSE IF tracks # << >> THEN grown
              ELSE IF x.fails < Cardinality(Known(x)) - wanted THEN failed ELSE ended
      BY Zenon DEF GrowBuffer
    <2>2. wanted \in Int
      <3>1. WaveTake \in Nat
        BY DynamicModeConstants
      <3>2. x.buffer \in Seq(Hashes)
        BY DEF Machine
      <3> QED BY <3>1, <3>2
    <2> HIDE DEF wanted, grown, failed, ended, tracks
    <2> QED BY <2>1, <2>2
  <1>2. SourceFits(x, T) /\ ListsFit(x) /\ WaveFits(x)
    BY DEF TracksFit
  <1>3. WaveTake \in Nat /\ wanted \in Int
    <2>1. WaveTake \in Nat
      BY DynamicModeConstants
    <2>2. x.buffer \in Seq(Hashes)
      BY DEF Machine
    <2> QED BY <2>1, <2>2
  <1>4. /\ next \in Machine /\ SameOutsideTheSource(x, next)
        /\ tracks \in Seq(Hashes) /\ IsInjective(tracks)
        /\ ToSet(tracks) \cap T = {}
        /\ SourceFitsWith(next, T, tracks)
    <2> DEFINE tries == WaveTake
    <2>1. t = TakeFromSource(x, wanted, tries, all, good, order) /\ tries \in Nat
      BY <1>3
    <2> HIDE DEF T, wanted, all, t, tries
    <2>2. /\ t.next \in Machine /\ SameOutsideTheSource(x, t.next)
          /\ t.tracks \in Seq(Hashes) /\ IsInjective(t.tracks)
          /\ ToSet(t.tracks) \cap T = {}
          /\ SourceFitsWith(t.next, T, t.tracks)
      <3> HIDE DEF next, tracks
      <3> QED BY <2>1, CandidatesTaken DEF T
    <2> QED BY <2>2
  <1> HIDE DEF next, tracks, wanted, t
  <1>5. /\ SameDynamicList(x, next) /\ SameWaveLists(x, next)
        /\ SameDynamicTimer(x, next) /\ SameWaveTimer(x, next) /\ SameSettings(x, next)
    BY <1>4 DEF SameOutsideTheSource
  <1>6. CASE y = x
    BY <1>6 DEF WaveSteps, SameDynamicList, SameDynamicTimer, SameSettings, SameWaveGoes,
                SameWaveTimer
  <1>7. CASE tracks # << >> /\ y = grown
    <2>1. next.buffer = x.buffer /\ next.buffer \in Seq(Hashes)
      BY <1>4, <1>5 DEF SameWaveLists, Machine
    <2>2. /\ buffer \in Seq(Hashes) /\ IsInjective(buffer)
          /\ ToSet(buffer) = ToSet(x.buffer) \cup ToSet(tracks)
      <3> DEFINE old == next.buffer
      <3>1. old \in Seq(Hashes) /\ IsInjective(old) /\ ToSet(old) \cap ToSet(tracks) = {}
        BY <1>2, <1>4, <2>1 DEF ListsFit, Held
      <3> HIDE DEF old
      <3>2. /\ old \o tracks \in Seq(Hashes) /\ IsInjective(old \o tracks)
            /\ ToSet(old \o tracks) = ToSet(old) \cup ToSet(tracks)
        BY <1>4, <3>1, JoinedLists
      <3> QED BY <2>1, <3>2 DEF old
    <2> HIDE DEF buffer
    <2>3. /\ grown \in Machine /\ SameTracks(next, grown) /\ SameDynamicList(next, grown)
          /\ SameDynamicTimer(next, grown) /\ SameSettings(next, grown)
          /\ SameWaveTimer(next, grown) /\ grown.waveUpcoming = next.waveUpcoming
          /\ grown.buffer = buffer /\ grown.waveActive = next.waveActive
      BY <1>4, <2>2, Zenon DEF Machine, SameTracks, SameDynamicList, SameDynamicTimer,
                               SameSettings, SameWaveTimer
    <2> HIDE DEF grown
    <2>4. Held(grown) = T \cup ToSet(tracks)
      BY <1>5, <2>2, <2>3 DEF Held, SameDynamicList, SameWaveLists
    <2>5. SourceFits(grown, Held(grown))
      BY <1>4, <2>3, <2>4, SameTracksFit DEF SourceFitsWith
    <2>6. ListsFit(grown)
      BY <1>2, <1>4, <1>5, <2>2, <2>3 DEF ListsFit, Held, SameDynamicList, SameWaveLists
    <2>7. WaveFits(grown)
      <3>1. grown.waveActive
        BY <1>5, <2>3 DEF SameWaveLists
      <3>2. ~ x.generated >= WaveGoal
        <4>1. WaveGoal \in Nat
          BY DynamicModeConstants
        <4>2. x.generated \in Nat
          BY DEF Machine
        <4> QED BY <4>1, <4>2
      <3>3. grown.generated = x.generated /\ grown.completed = x.completed
        BY <1>5, <2>3 DEF SameWaveTimer
      <3> QED BY <1>2, <3>1, <3>2, <3>3 DEF WaveFits
    <2>8. grown \in WaveSteps(x)
      BY <1>5, <2>3, <2>5, <2>6, <2>7 DEF WaveSteps, TracksFit, SameDynamicList,
                                          SameDynamicTimer, SameSettings
    <2>9. SameWaveGoes(x, grown)
      BY <1>5, <2>3 DEF SameWaveGoes, SameWaveTimer, SameWaveLists
    <2> QED BY <1>7, <2>8, <2>9
  <1>8. ASSUME tracks = << >>
        PROVE  next \in Machine /\ TracksFit(next) /\ next \in WaveSteps(x)
    <2>1. T \cup ToSet(tracks) = T
      BY <1>8, EmptyList
    <2>2. SourceFits(next, T)
      BY <1>4, <2>1 DEF SourceFitsWith
    <2>3. Held(next) = T /\ ListsFit(next)
      BY <1>2, <1>5 DEF Held, ListsFit, SameDynamicList, SameWaveLists
    <2>4. WaveFits(next)
      BY <1>2, <1>5 DEF WaveFits, SameWaveLists, SameWaveTimer
    <2> QED BY <1>4, <1>5, <2>2, <2>3, <2>4 DEF TracksFit, WaveSteps
  <1>9. CASE wanted > 0 /\ tracks = << >> /\ y = failed
    <2>1. fails \in Nat
      <3>1. next.fails \in Nat
        BY <1>4 DEF Machine
      <3> QED BY <1>3, <1>9, <3>1
    <2> HIDE DEF fails
    <2>2. /\ failed \in Machine /\ SameTracks(next, failed) /\ SameDynamicList(next, failed)
          /\ SameDynamicTimer(next, failed) /\ SameSettings(next, failed)
          /\ SameWaveTimer(next, failed) /\ SameWaveLists(next, failed)
      BY <1>4, <2>1, Zenon DEF Machine, SameTracks, SameDynamicList, SameDynamicTimer,
                               SameSettings, SameWaveTimer, SameWaveLists
    <2> HIDE DEF failed
    <2>3. TracksFit(failed)
      BY <1>8, <1>9, <2>2, SameListsFit
    <2>4. failed \in WaveSteps(x)
      BY <1>5, <2>2, <2>3 DEF WaveSteps, SameDynamicList, SameDynamicTimer, SameSettings
    <2>5. SameWaveGoes(x, failed)
      BY <1>5, <2>2 DEF SameWaveGoes, SameWaveTimer, SameWaveLists
    <2> QED BY <1>9, <2>4, <2>5
  <1>10. CASE tracks = << >> /\ y = ended
    <2>1. next \in Machine /\ TracksFit(next) /\ next \in WaveSteps(x)
      BY <1>8, <1>10
    <2>2. next.waveActive
      BY <1>5 DEF SameWaveLists
    <2>3. y \in WaveSteps(next) /\ ~ y.waveActive
      BY <1>10, <2>1, <2>2, WaveTerminated
    <2>4. y \in WaveSteps(x)
      BY <2>1, <2>3, WaveStepsOfSteps
    <2> QED BY <2>3, <2>4 DEF SameWaveGoes
  <1> QED BY <1>1, <1>6, <1>7, <1>9, <1>10

LEMMA BufferMoved ==
    ASSUME NEW x \in Machine, TracksFit(x), x.waveActive, NEW order,
           NEW y, y = BufferToUpcoming(x, order)
    PROVE  /\ y \in WaveSteps(x) /\ y.waveActive /\ y.completed = x.completed
           /\ y.waveTimers = x.waveTimers
  <1> DEFINE kept == BestOf(x.buffer, WaveKeep, order)
             waveUpcoming == x.waveUpcoming \o kept
             none == << >>
             generated == x.generated + Len(kept)
             w == [x EXCEPT !.waveUpcoming = waveUpcoming, !.buffer = none,
                            !.generated = generated]
             hs == ToSet(x.buffer) \ ToSet(kept)
             T == Held(x)
  <1>1. y = PutBackUsed(w, hs)
    BY Zenon DEF BufferToUpcoming
  <1>2. SourceFits(x, T) /\ ListsFit(x) /\ WaveFits(x)
    BY DEF TracksFit
  <1>3. x.buffer \in Seq(Hashes) /\ x.waveUpcoming \in Seq(Hashes) /\ x.generated \in Nat
    BY DEF Machine
  <1>4. kept \in Seq(Hashes) /\ IsInjective(kept) /\ ToSet(kept) \subseteq ToSet(x.buffer)
    BY <1>2, <1>3, BestOfTracks DEF ListsFit
  <1> HIDE DEF kept
  <1>5. /\ waveUpcoming \in Seq(Hashes) /\ IsInjective(waveUpcoming)
        /\ ToSet(waveUpcoming) = ToSet(x.waveUpcoming) \cup ToSet(kept)
    <2> DEFINE old == x.waveUpcoming
    <2>1. old \in Seq(Hashes) /\ IsInjective(old) /\ ToSet(old) \cap ToSet(kept) = {}
      BY <1>2, <1>3, <1>4 DEF ListsFit
    <2> HIDE DEF old
    <2>2. /\ old \o kept \in Seq(Hashes) /\ IsInjective(old \o kept)
          /\ ToSet(old \o kept) = ToSet(old) \cup ToSet(kept)
      BY <1>4, <2>1, JoinedLists
    <2> QED BY <2>2 DEF old
  <1>6. generated \in Nat /\ none \in Seq(Hashes)
    BY <1>3, <1>4
  <1>7. IsInjective(none) /\ ToSet(none) = {}
    BY EmptyList
  <1>8. WaveGoal \in Nat /\ generated >= x.generated
    BY <1>3, <1>4, DynamicModeConstants
  <1> HIDE DEF waveUpcoming, generated
  <1>9. /\ w \in Machine /\ SameTracks(x, w) /\ SameDynamicList(x, w)
        /\ SameDynamicTimer(x, w) /\ SameSettings(x, w)
        /\ w.waveUpcoming = waveUpcoming /\ w.buffer = none
        /\ w.generated = generated /\ w.completed = x.completed
        /\ w.waveTimers = x.waveTimers /\ w.waveActive = x.waveActive
    <2> HIDE DEF none
    <2> QED BY <1>5, <1>6, Zenon DEF Machine, SameTracks, SameDynamicList,
                                     SameDynamicTimer, SameSettings
  <1> HIDE DEF w
  <1>10. T \ hs = Held(w)
    <2>1. T \ hs = ToSet(x.upcoming) \cup ToSet(waveUpcoming)
      BY <1>2, <1>4, <1>5 DEF Held, ListsFit
    <2> QED BY <1>7, <1>9, <2>1 DEF Held, SameDynamicList
  <1>11. ListsFit(w)
    <2>1. ToSet(x.upcoming) \cap ToSet(waveUpcoming) = {}
      BY <1>2, <1>4, <1>5 DEF ListsFit
    <2> QED BY <1>2, <1>5, <1>7, <1>9, <2>1 DEF ListsFit, SameDynamicList
  <1>12. WaveFits(w)
    BY <1>2, <1>3, <1>6, <1>8, <1>9 DEF WaveFits
  <1> HIDE DEF T, hs
  <1>13. y \in WaveSteps(x) /\ SameWaveLists(w, y) /\ SameWaveTimer(w, y)
    BY <1>1, <1>2, <1>9, <1>10, <1>11, <1>12, WaveGivenBack
  <1> QED BY <1>9, <1>13 DEF SameWaveLists, SameWaveTimer

LEMMA WaveRefilled ==
    ASSUME NEW x \in Machine, TracksFit(x), WaveTimer(x), x.waveTimers > 0,
           NEW st \in [Users -> SUBSET Hashes], NEW q, NEW playing,
           NEW order \in Orders, NEW y, y = RefillWave(x, st, q, playing, order)
    PROVE  y \in WaveSteps(x) /\ WaveTimer(y)
  <1> DEFINE good == WaveFilter(st, x.user) \cap NotRepeated(x, q, playing)
             timers == x.waveTimers - 1
             fired == [x EXCEPT !.waveTimers = timers]
             grown == IF x.generated < WaveGoal THEN GrowBuffer(fired, good, order) ELSE fired
             z == IF Len(grown.buffer) >= WaveTake /\ x.generated < WaveGoal
                  THEN BufferToUpcoming(grown, order) ELSE grown
             last == [z EXCEPT !.completed = TRUE]
             more == z.waveTimers + 1
             again == [z EXCEPT !.waveTimers = more]
  <1>1. y = IF ~ x.waveActive THEN fired
            ELSE IF ~ grown.waveActive THEN grown
            ELSE IF z.generated >= WaveGoal THEN CalculateProgress(last) ELSE again
    BY Zenon DEF RefillWave
  <1>2. timers \in Nat /\ WaveGoal \in Nat /\ x.generated \in Nat
    <2>1. x.waveTimers \in Nat /\ x.generated \in Nat
      BY DEF Machine
    <2> QED BY <2>1, DynamicModeConstants
  <1> HIDE DEF timers
  <1>3. /\ fired \in Machine /\ SameTracks(x, fired) /\ SameDynamicList(x, fired)
        /\ SameWaveLists(x, fired) /\ SameDynamicTimer(x, fired) /\ SameSettings(x, fired)
        /\ fired.generated = x.generated /\ fired.completed = x.completed
    BY <1>2, Zenon DEF Machine, SameTracks, SameDynamicList, SameWaveLists,
                       SameDynamicTimer, SameSettings
  <1>4. good \in SUBSET Hashes
    <2>1. x.user \in Users
      BY DEF Machine
    <2>2. WaveFilter(st, x.user) \subseteq Hashes
      BY <2>1 DEF WaveFilter
    <2> QED BY <2>2
  <1> HIDE DEF fired, good
  <1>5. TracksFit(fired) /\ fired \in WaveSteps(x)
    <2>1. Held(fired) = Held(x) /\ ListsFit(fired)
      BY <1>3 DEF TracksFit, Held, ListsFit, SameDynamicList, SameWaveLists
    <2>2. SourceFits(fired, Held(fired))
      BY <1>3, <2>1, SameTracksFit DEF TracksFit
    <2>3. WaveFits(fired)
      BY <1>3 DEF TracksFit, WaveFits, SameWaveLists
    <2> QED BY <1>3, <2>1, <2>2, <2>3 DEF TracksFit, WaveSteps
  <1>6. CASE ~ x.waveActive
    <2>1. y = fired
      BY <1>1, <1>6
    <2>2. WaveTimer(fired)
      BY <1>3, <1>6 DEF WaveTimer, SameWaveLists
    <2> QED BY <1>5, <2>1, <2>2
  <1>7. CASE x.waveActive
    <2>1. fired.waveActive
      BY <1>3, <1>7 DEF SameWaveLists
    <2>2. grown \in WaveSteps(fired) /\ SameWaveGoes(fired, grown)
      <3>1. CASE x.generated < WaveGoal
        <4>1. grown = GrowBuffer(fired, good, order)
          BY <3>1
        <4> HIDE DEF grown
        <4>2. fired.generated < WaveGoal
          BY <1>3, <3>1
        <4> QED BY <1>3, <1>4, <1>5, <2>1, <4>1, <4>2, BufferGrown
      <3>2. CASE ~ x.generated < WaveGoal
        BY <1>3, <1>5, <2>1, <3>2
           DEF WaveSteps, SameDynamicList, SameDynamicTimer, SameSettings, SameWaveGoes,
               SameWaveTimer
      <3> QED BY <3>1, <3>2
    <2> HIDE DEF grown
    <2>3. grown \in Machine /\ TracksFit(grown) /\ grown \in WaveSteps(x)
      BY <1>5, <2>2, WaveStepsOfSteps DEF WaveSteps
    <2>4. CASE ~ grown.waveActive
      <3>1. y = grown
        BY <1>1, <1>7, <2>4
      <3> QED BY <2>3, <2>4, <3>1 DEF WaveTimer
    <2>5. CASE grown.waveActive
      <3>1. /\ grown.completed = x.completed /\ grown.generated = x.generated
        BY <1>3, <2>2, <2>5 DEF SameWaveGoes, SameWaveTimer
      <3>2. /\ z \in WaveSteps(grown) /\ z.waveActive /\ z.completed = x.completed
        <4>1. CASE Len(grown.buffer) >= WaveTake /\ x.generated < WaveGoal
          <5>1. z = BufferToUpcoming(grown, order)
            BY <4>1
          <5> HIDE DEF z
          <5> QED BY <2>3, <2>5, <3>1, <5>1, BufferMoved
        <4>2. CASE ~ (Len(grown.buffer) >= WaveTake /\ x.generated < WaveGoal)
          BY <2>3, <2>5, <3>1, <4>2
             DEF WaveSteps, SameDynamicList, SameDynamicTimer, SameSettings
        <4> QED BY <4>1, <4>2
      <3> HIDE DEF z
      <3>3. z \in Machine /\ TracksFit(z) /\ z \in WaveSteps(x) /\ z.waveTimers \in Nat
            /\ z.generated \in Nat
        BY <2>3, <3>2, WaveStepsOfSteps DEF WaveSteps, Machine
      <3>4. CASE z.generated >= WaveGoal
        <4>1. y = CalculateProgress(last)
          BY <1>1, <1>7, <2>5, <3>4
        <4>2. /\ last \in Machine /\ SameTracks(z, last) /\ SameDynamicList(z, last)
              /\ SameDynamicTimer(z, last) /\ SameWaveLists(z, last) /\ SameSettings(z, last)
              /\ last.completed /\ last.generated = z.generated
          BY <3>3, Zenon DEF Machine, SameTracks, SameDynamicList, SameDynamicTimer,
                             SameWaveLists, SameSettings
        <4> HIDE DEF last
        <4>3. Held(last) = Held(z) /\ ListsFit(last)
          BY <3>3, <4>2 DEF TracksFit, Held, ListsFit, SameDynamicList, SameWaveLists
        <4>4. SourceFits(last, Held(last))
          BY <3>3, <4>2, <4>3, SameTracksFit DEF TracksFit
        <4>5. WaveFits(last)
          BY <3>3, <3>4, <4>2 DEF TracksFit, WaveFits, SameWaveLists
        <4>6. TracksFit(last) /\ last \in WaveSteps(z)
          BY <4>2, <4>3, <4>4, <4>5 DEF TracksFit, WaveSteps
        <4>7. last.waveActive /\ ~ last.completed => last.waveTimers > 0
          BY <4>2
        <4>8. y \in WaveSteps(last) /\ WaveTimer(y)
          BY <4>1, <4>2, <4>6, <4>7, ProgressCalculated
        <4>9. last \in WaveSteps(x)
          BY <3>3, <4>6, WaveStepsOfSteps
        <4> QED BY <4>8, <4>9, WaveStepsOfSteps
      <3>5. CASE ~ z.generated >= WaveGoal
        <4>1. y = again
          BY <1>1, <1>7, <2>5, <3>5
        <4>2. more \in Nat /\ more > 0
          BY <3>3
        <4> HIDE DEF more
        <4>3. /\ again \in Machine /\ SameTracks(z, again) /\ SameDynamicList(z, again)
              /\ SameDynamicTimer(z, again) /\ SameWaveLists(z, again)
              /\ SameSettings(z, again) /\ again.waveTimers = more
              /\ again.completed = z.completed /\ again.generated = z.generated
          BY <3>3, <4>2, Zenon DEF Machine, SameTracks, SameDynamicList, SameDynamicTimer,
                                   SameWaveLists, SameSettings
        <4> HIDE DEF again
        <4>4. Held(again) = Held(z) /\ ListsFit(again)
          BY <3>3, <4>3 DEF TracksFit, Held, ListsFit, SameDynamicList, SameWaveLists
        <4>5. SourceFits(again, Held(again))
          BY <3>3, <4>3, <4>4, SameTracksFit DEF TracksFit
        <4>6. WaveFits(again)
          BY <3>3, <4>3 DEF TracksFit, WaveFits, SameWaveLists
        <4>7. again \in WaveSteps(z)
          BY <4>3, <4>4, <4>5, <4>6 DEF TracksFit, WaveSteps
        <4>8. WaveTimer(again)
          <5>1. ~ again.completed
            BY <3>3, <3>5, <4>3 DEF TracksFit, WaveFits
          <5> QED BY <4>2, <4>3, <5>1 DEF WaveTimer
        <4>9. again \in WaveSteps(x)
          BY <3>3, <4>7, WaveStepsOfSteps
        <4> QED BY <4>1, <4>8, <4>9
      <3> QED BY <3>4, <3>5
    <2> QED BY <2>4, <2>5
  <1> QED BY <1>6, <1>7

LEMMA WaveCriteriaApplied ==
    ASSUME NEW x \in Machine, TracksFit(x), WaveTimer(x), NEW st, NEW q, NEW playing,
           NEW y, y = WaveCriteriaChanged(x, st, q, playing)
    PROVE  y \in WaveSteps(x) /\ WaveTimer(y)
  <1> DEFINE good == WaveFilter(st, x.user) \cap NotRepeated(x, q, playing)
             left == Selected(x.waveUpcoming, good)
             hs == ToSet(x.waveUpcoming) \ good
             w == [x EXCEPT !.fails = 0, !.waveUpcoming = left]
             z == PutBackUsed(w, hs)
             T == Held(x)
  <1>1. y = IF ~ x.waveActive THEN x ELSE CalculateProgress(z)
    BY Zenon DEF WaveCriteriaChanged
  <1>2. SourceFits(x, T) /\ ListsFit(x) /\ WaveFits(x)
    BY DEF TracksFit
  <1>3. x.waveUpcoming \in Seq(Hashes) /\ IsInjective(x.waveUpcoming)
    BY <1>2 DEF Machine, ListsFit
  <1>4. /\ left \in Seq(Hashes) /\ IsInjective(left)
        /\ ToSet(left) = ToSet(x.waveUpcoming) \cap good
    <2> HIDE DEF good
    <2> QED BY <1>3, SelectedOf
  <1> HIDE DEF good, left
  <1>5. /\ w \in Machine /\ SameTracks(x, w) /\ SameDynamicList(x, w)
        /\ SameDynamicTimer(x, w) /\ SameSettings(x, w) /\ SameWaveTimer(x, w)
        /\ w.waveUpcoming = left /\ w.buffer = x.buffer /\ w.waveActive = x.waveActive
    <2>1. 0 \in Nat
      OBVIOUS
    <2> QED BY <1>4, <2>1, Zenon DEF Machine, SameTracks, SameDynamicList,
                                     SameDynamicTimer, SameSettings, SameWaveTimer
  <1> HIDE DEF w
  <1>6. CASE ~ x.waveActive
    <2>1. y = x
      BY <1>1, <1>6
    <2> QED BY <2>1 DEF WaveSteps, SameDynamicList, SameDynamicTimer, SameSettings
  <1>7. CASE x.waveActive
    <2>1. T \ hs = Held(w)
      <3>1. T \ hs = ToSet(x.upcoming) \cup ToSet(left) \cup ToSet(x.buffer)
        BY <1>2, <1>4 DEF Held, ListsFit
      <3> QED BY <1>5, <3>1 DEF Held, SameDynamicList
    <2>2. ListsFit(w)
      BY <1>2, <1>4, <1>5 DEF ListsFit, SameDynamicList
    <2>3. WaveFits(w)
      BY <1>2, <1>5, <1>7 DEF WaveFits, SameWaveTimer
    <2>4. z = PutBackUsed(w, hs)
      OBVIOUS
    <2> HIDE DEF z, T, hs
    <2>5. z \in WaveSteps(x) /\ SameWaveLists(w, z) /\ SameWaveTimer(w, z)
      BY <1>2, <1>5, <2>1, <2>2, <2>3, <2>4, WaveGivenBack
    <2>6. z \in Machine /\ TracksFit(z)
      BY <2>5 DEF WaveSteps
    <2>7. z.waveActive /\ ~ z.completed => z.waveTimers > 0
      BY <1>5, <2>5 DEF WaveTimer, SameWaveLists, SameWaveTimer
    <2>8. y = CalculateProgress(z)
      BY <1>1, <1>7
    <2>9. y \in WaveSteps(z) /\ WaveTimer(y)
      BY <2>6, <2>7, <2>8, ProgressCalculated
    <2> QED BY <2>5, <2>9, WaveStepsOfSteps
  <1> QED BY <1>6, <1>7

-----------------------------------------------------------------------------
(* The generator.                                                          *)

TimersFit(x, q) == DynamicTimer(x) /\ WaveTimer(x) /\ QueueTimer(x, q)

Fits(x, q) == x \in Machine /\ TracksFit(x) /\ TimersFit(x, q)

SameUser(x, y) == y.enabled = x.enabled /\ y.user = x.user /\ y.avoid = x.avoid

(* Each generator leaves the timers of the other one alone.                *)
LEMMA DynamicStepFits ==
    ASSUME NEW x, NEW q, Fits(x, q), NEW y \in DynamicSteps(x), DynamicTimer(y)
    PROVE  Fits(y, q) /\ SameUser(x, y)
  <1>1. y \in Machine /\ TracksFit(y)
    BY DEF DynamicSteps
  <1>2. SameWaveLists(x, y) /\ SameWaveTimer(x, y) /\ SameSettings(x, y)
    BY DEF DynamicSteps
  <1>3. WaveTimer(y)
    BY <1>2 DEF Fits, TimersFit, WaveTimer, SameWaveLists, SameWaveTimer
  <1>4. QueueTimer(y, q) /\ SameUser(x, y)
    BY <1>2 DEF Fits, TimersFit, QueueTimer, SameSettings, SameUser
  <1> QED BY <1>1, <1>3, <1>4 DEF Fits, TimersFit

LEMMA WaveStepFits ==
    ASSUME NEW x, NEW q, Fits(x, q), NEW y \in WaveSteps(x), WaveTimer(y)
    PROVE  Fits(y, q) /\ SameUser(x, y)
  <1>1. y \in Machine /\ TracksFit(y)
    BY DEF WaveSteps
  <1>2. SameDynamicList(x, y) /\ SameDynamicTimer(x, y) /\ SameSettings(x, y)
    BY DEF WaveSteps
  <1>3. DynamicTimer(y)
    BY <1>2 DEF Fits, TimersFit, DynamicTimer, SameDynamicList, SameDynamicTimer
  <1>4. QueueTimer(y, q) /\ SameUser(x, y)
    BY <1>2 DEF Fits, TimersFit, QueueTimer, SameSettings, SameUser
  <1> QED BY <1>1, <1>3, <1>4 DEF Fits, TimersFit

(* What the source does is of no consequence for the generators.           *)
LEMMA SourceStepFits ==
    ASSUME NEW x, NEW q, Fits(x, q), NEW y \in Machine, SameOutsideTheSource(x, y),
           SourceFits(y, Held(x))
    PROVE  Fits(y, q) /\ SameUser(x, y)
  <1>1. Held(y) = Held(x) /\ ListsFit(y) /\ WaveFits(y)
    BY DEF Held, ListsFit, WaveFits, Fits, TracksFit, SameOutsideTheSource,
           SameDynamicList, SameWaveLists, SameWaveTimer
  <1>2. TracksFit(y)
    BY <1>1 DEF TracksFit
  <1>3. DynamicTimer(y)
    BY DEF DynamicTimer, Fits, TimersFit, SameOutsideTheSource, SameDynamicList,
           SameDynamicTimer
  <1>4. WaveTimer(y)
    BY DEF WaveTimer, Fits, TimersFit, SameOutsideTheSource, SameWaveLists, SameWaveTimer
  <1>5. QueueTimer(y, q) /\ SameUser(x, y)
    BY DEF QueueTimer, Fits, TimersFit, SameOutsideTheSource, SameSettings, SameUser
  <1> QED BY <1>2, <1>3, <1>4, <1>5 DEF Fits, TimersFit

(* The settings can be changed.                                            *)
SameGenerators(x, y) ==
    /\ SameTracks(x, y) /\ SameDynamicList(x, y) /\ SameWaveLists(x, y)
    /\ SameDynamicTimer(x, y) /\ SameWaveTimer(x, y)

LEMMA SameGeneratorsFit ==
    ASSUME NEW x, NEW y \in Machine, TracksFit(x), DynamicTimer(x), WaveTimer(x),
           SameGenerators(x, y), NEW q, QueueTimer(y, q)
    PROVE  Fits(y, q)
  <1>1. TracksFit(y)
    BY SameListsFit DEF SameGenerators
  <1>2. DynamicTimer(y)
    BY DEF DynamicTimer, SameGenerators, SameDynamicList, SameDynamicTimer
  <1>3. WaveTimer(y)
    BY DEF WaveTimer, SameGenerators, SameWaveLists, SameWaveTimer
  <1> QED BY <1>1, <1>2, <1>3 DEF Fits, TimersFit

LEMMA QueueRefillChecked ==
    ASSUME NEW x \in Machine, TracksFit(x), DynamicTimer(x), WaveTimer(x),
           NEW q \in Seq(Hashes), NEW y, y = CheckQueueRefill(x, q)
    PROVE  Fits(y, q) /\ SameUser(x, y)
  <1> DEFINE z == [x EXCEPT !.refillPending = TRUE]
  <1>1. y = IF Len(q) >= DesiredQueueLength THEN x ELSE z
    BY Zenon DEF CheckQueueRefill
  <1>2. z \in Machine /\ SameGenerators(x, z) /\ SameUser(x, z)
    BY Zenon DEF Machine, SameGenerators, SameTracks, SameDynamicList, SameWaveLists,
                 SameDynamicTimer, SameWaveTimer, SameUser
  <1>3. z.refillPending
    BY Zenon DEF Machine
  <1> HIDE DEF z
  <1>4. Len(q) \in Nat /\ DesiredQueueLength \in Nat
    BY DynamicModeConstants
  <1>5. CASE Len(q) >= DesiredQueueLength
    <2>1. y = x
      BY <1>1, <1>5
    <2>2. QueueTimer(x, q)
      BY <1>4, <1>5 DEF QueueTimer
    <2> QED BY <2>1, <2>2 DEF Fits, TimersFit, SameUser
  <1>6. CASE ~ Len(q) >= DesiredQueueLength
    <2>1. y = z
      BY <1>1, <1>6
    <2>2. QueueTimer(z, q)
      BY <1>3 DEF QueueTimer
    <2>3. Fits(z, q)
      BY <1>2, <2>2, SameGeneratorsFit
    <2> QED BY <1>2, <2>1, <2>3
  <1> QED BY <1>5, <1>6

LEMMA GeneratorEnabled ==
    ASSUME NEW x, NEW q \in Seq(Hashes), Fits(x, q), NEW y, y = Enabled(x, q)
    PROVE  Fits(y, q) /\ y.enabled = TRUE /\ y.user = x.user /\ y.avoid = x.avoid
  <1> DEFINE on == [x EXCEPT !.enabled = TRUE]
             set == SetDesiredUpcomingCount(on)
             checked == CheckDynamicRefill(set)
             z == CheckQueueRefill(checked, q)
  <1>1. y = IF x.enabled THEN x ELSE z
    BY Zenon DEF Enabled
  <1>2. x \in Machine /\ TracksFit(x) /\ DynamicTimer(x) /\ WaveTimer(x)
    BY DEF Fits, TimersFit
  <1>3. on \in Machine /\ SameGenerators(x, on) /\ on.user = x.user /\ on.avoid = x.avoid
    BY <1>2, Zenon DEF Machine, SameGenerators, SameTracks, SameDynamicList, SameWaveLists,
                 SameDynamicTimer, SameWaveTimer
  <1>4. on.enabled = TRUE
    BY <1>2, Zenon DEF Machine
  <1> HIDE DEF on
  <1>5. TracksFit(on) /\ DynamicTimer(on) /\ WaveTimer(on)
    <2>1. TracksFit(on)
      BY <1>2, <1>3, SameListsFit DEF SameGenerators
    <2>2. DynamicTimer(on)
      BY <1>2, <1>3 DEF DynamicTimer, SameGenerators, SameDynamicList, SameDynamicTimer
    <2>3. WaveTimer(on)
      BY <1>2, <1>3 DEF WaveTimer, SameGenerators, SameWaveLists, SameWaveTimer
    <2> QED BY <2>1, <2>2, <2>3
  <1>6. set \in DynamicSteps(on) /\ DynamicTimer(set)
    BY <1>3, <1>5, DesiredCountSet
  <1> HIDE DEF set
  <1>7. set \in Machine /\ TracksFit(set)
    BY <1>6 DEF DynamicSteps
  <1>8. checked \in DynamicSteps(set) /\ DynamicTimer(checked)
    BY <1>7, DynamicRefillChecked
  <1> HIDE DEF checked
  <1>9. checked \in DynamicSteps(on)
    BY <1>6, <1>8, DynamicStepsOfSteps
  <1>10. checked \in Machine /\ TracksFit(checked)
    BY <1>9 DEF DynamicSteps
  <1>11. WaveTimer(checked)
    BY <1>5, <1>9 DEF DynamicSteps, WaveTimer, SameWaveLists, SameWaveTimer
  <1>12. Fits(z, q) /\ SameUser(checked, z)
    BY <1>8, <1>10, <1>11, QueueRefillChecked
  <1> HIDE DEF z
  <1>13. z.enabled = TRUE /\ z.user = x.user /\ z.avoid = x.avoid
    BY <1>3, <1>4, <1>9, <1>12 DEF DynamicSteps, SameSettings, SameUser
  <1>14. CASE x.enabled
    <2>1. y = x
      BY <1>1, <1>14
    <2>2. x.enabled = TRUE
      BY <1>2, <1>14 DEF Machine
    <2> QED BY <2>1, <2>2
  <1>15. CASE ~ x.enabled
    <2>1. y = z
      BY <1>1, <1>15
    <2> QED BY <1>12, <1>13, <2>1
  <1> QED BY <1>14, <1>15

LEMMA GeneratorDisabled ==
    ASSUME NEW x, NEW q, Fits(x, q), NEW y, y = Disabled(x)
    PROVE  Fits(y, q) /\ y.enabled = FALSE /\ y.user = x.user /\ y.avoid = x.avoid
  <1> DEFINE off == [x EXCEPT !.enabled = FALSE]
             z == TerminateWave(off)
  <1>1. y = IF ~ x.enabled THEN x ELSE z
    BY Zenon DEF Disabled
  <1>2. x \in Machine /\ TracksFit(x) /\ DynamicTimer(x) /\ WaveTimer(x)
    BY DEF Fits, TimersFit
  <1>3. off \in Machine /\ SameGenerators(x, off) /\ off.user = x.user /\ off.avoid = x.avoid
    BY <1>2, Zenon DEF Machine, SameGenerators, SameTracks, SameDynamicList, SameWaveLists,
                 SameDynamicTimer, SameWaveTimer
  <1>4. off.enabled = FALSE
    BY <1>2, Zenon DEF Machine
  <1> HIDE DEF off
  <1>5. QueueTimer(off, q)
    BY <1>4 DEF QueueTimer
  <1>6. Fits(off, q)
    BY <1>2, <1>3, <1>5, SameGeneratorsFit
  <1>7. z \in WaveSteps(off) /\ WaveTimer(z)
    BY <1>6, WaveTerminated DEF Fits, TimersFit
  <1> HIDE DEF z
  <1>8. Fits(z, q) /\ SameUser(off, z)
    BY <1>6, <1>7, WaveStepFits
  <1>9. CASE x.enabled
    <2>1. y = z
      BY <1>1, <1>9
    <2> QED BY <1>3, <1>4, <1>8, <2>1 DEF SameUser
  <1>10. CASE ~ x.enabled
    <2>1. y = x
      BY <1>1, <1>10
    <2>2. x.enabled = FALSE
      BY <1>2, <1>10 DEF Machine
    <2> QED BY <2>1, <2>2
  <1> QED BY <1>9, <1>10

LEMMA UserSet ==
    ASSUME NEW x, NEW q \in Seq(Hashes), Fits(x, q), NEW st, NEW playing,
           NEW user \in Users, NEW preferences \in Preferences,
           NEW y, y = WithUser(x, st, q, playing, user, preferences)
    PROVE  /\ Fits(y, q) /\ y.user = user
           /\ y.avoid = preferences.avoid /\ y.enabled = preferences.enabled
  <1> DEFINE ended == TerminateWave(x)
             avoid == preferences.avoid
             changed == [ended EXCEPT !.user = user, !.avoid = avoid]
             reset == ResetUpcomingTrackNotifications(changed)
             frozen == FreezeTemporarily(reset)
             z == DynamicCriteriaChanged(frozen, st)
  <1>1. y = IF preferences.enabled THEN Enabled(z, q) ELSE Disabled(z)
    BY Zenon DEF WithUser
  <1>2. avoid \in BOOLEAN /\ preferences.enabled \in BOOLEAN
    BY DEF Preferences
  <1>3. ended \in WaveSteps(x) /\ WaveTimer(ended)
    BY WaveTerminated DEF Fits, TimersFit
  <1> HIDE DEF ended, avoid
  <1>4. Fits(ended, q)
    BY <1>3, WaveStepFits
  <1>5. /\ changed \in Machine /\ SameGenerators(ended, changed)
        /\ changed.user = user /\ changed.avoid = avoid
        /\ changed.enabled = ended.enabled /\ changed.refillPending = ended.refillPending
    <2>1. ended \in Machine
      BY <1>4 DEF Fits
    <2> QED BY <1>2, <2>1, Zenon
            DEF Machine, SameGenerators, SameTracks, SameDynamicList, SameWaveLists,
                SameDynamicTimer, SameWaveTimer
  <1> HIDE DEF changed
  <1>6. Fits(changed, q)
    <2>1. QueueTimer(changed, q)
      BY <1>4, <1>5 DEF Fits, TimersFit, QueueTimer
    <2> QED BY <1>4, <1>5, <2>1, SameGeneratorsFit DEF Fits, TimersFit
  <1>7. reset \in Machine /\ SameOutsideTheSource(changed, reset) /\ SameTracks(changed, reset)
    BY <1>5, NotificationsReset
  <1> HIDE DEF reset
  <1>8. Fits(reset, q) /\ SameUser(changed, reset)
    <2>1. SourceFits(reset, Held(changed))
      BY <1>6, <1>7, SameTracksFit DEF Fits, TracksFit
    <2> QED BY <1>6, <1>7, <2>1, SourceStepFits
  <1>9. frozen \in DynamicSteps(reset) /\ DynamicTimer(frozen)
    <2>1. reset \in Machine /\ TracksFit(reset)
      BY <1>8 DEF Fits
    <2>2. frozen = [reset EXCEPT !.frozen = TRUE]
      BY Zenon DEF FreezeTemporarily
    <2> HIDE DEF frozen
    <2>3. frozen \in DynamicSteps(reset) /\ frozen.frozen = TRUE
      BY <2>1, <2>2, FrozenSet, Zenon
    <2> QED BY <2>3 DEF DynamicTimer
  <1> HIDE DEF frozen
  <1>10. Fits(frozen, q) /\ SameUser(reset, frozen)
    BY <1>8, <1>9, DynamicStepFits
  <1>11. z \in DynamicSteps(frozen) /\ DynamicTimer(z)
    BY <1>10, DynamicCriteriaApplied DEF Fits
  <1> HIDE DEF z
  <1>12. Fits(z, q) /\ SameUser(frozen, z)
    BY <1>10, <1>11, DynamicStepFits
  <1>13. z.user = user /\ z.avoid = avoid
    BY <1>5, <1>8, <1>10, <1>12 DEF SameUser
  <1>14. CASE preferences.enabled
    <2>1. y = Enabled(z, q)
      BY <1>1, <1>14
    <2>2. Fits(y, q) /\ y.enabled = TRUE /\ y.user = z.user /\ y.avoid = z.avoid
      BY <1>12, <2>1, GeneratorEnabled
    <2> QED BY <1>2, <1>13, <1>14, <2>2 DEF avoid
  <1>15. CASE ~ preferences.enabled
    <2>1. y = Disabled(z)
      BY <1>1, <1>15
    <2>2. Fits(y, q) /\ y.enabled = FALSE /\ y.user = z.user /\ y.avoid = z.avoid
      BY <1>12, <2>1, GeneratorDisabled
    <2> QED BY <1>2, <1>13, <1>15, <2>2 DEF avoid
  <1> QED BY <1>14, <1>15

-----------------------------------------------------------------------------
(* What gets added to the queue.                                           *)

(* Tracks that may be played: with their statistics in memory and, when    *)
(* repetitions are to be avoided, neither in the queue nor playing.        *)
Fresh(x, tracks) ==
    /\ tracks \in Seq(Hashes) /\ ToSet(tracks) \subseteq stats[x.user]
    /\ x.avoid => /\ IsInjective(tracks)
                  /\ ToSet(tracks) \cap (ToSet(queue) \cup {current}) = {}

LEMMA GoodTracks ==
    ASSUME NEW x, NEW q, NEW rejected
    PROVE  /\ GoodForWave(x, q, rejected) \subseteq stats[x.user]
           /\ GoodForDynamic(x, q, rejected) \subseteq stats[x.user]
           /\ x.avoid => /\ GoodForWave(x, q, rejected) \cap (ToSet(q) \cup {current}) = {}
                         /\ GoodForDynamic(x, q, rejected) \cap (ToSet(q) \cup {current}) = {}
  BY DEF GoodForWave, GoodForDynamic, WaveFilter, DynamicFilter, NotRepeated

(* The queue has its timer also when it has become longer.                 *)
LEMMA LongerQueueFits ==
    ASSUME NEW x, NEW q \in Seq(Hashes), Fits(x, q), NEW longer \in Seq(Hashes),
           Len(longer) >= Len(q)
    PROVE  Fits(x, longer)
  <1>1. DesiredQueueLength \in Nat
    BY DynamicModeConstants
  <1>2. QueueTimer(x, longer)
    BY <1>1 DEF Fits, TimersFit, QueueTimer
  <1> QED BY <1>2 DEF Fits, TimersFit

LEMMA Expanded ==
    ASSUME NEW x, Fits(x, queue), queue \in Seq(Hashes), NEW count, NEW rejected,
           NEW r, r = Expansion(x, count, rejected)
    PROVE  Fits(r.next, queue) /\ SameUser(x, r.next) /\ Fresh(x, r.tracks)
  <1> DEFINE goodWave == GoodForWave(x, queue, rejected)
             w == WaveGetTracks(x, count, goodWave)
             rest == count - Len(w.tracks)
             joined == queue \o w.tracks
             goodDynamic == GoodForDynamic(x, joined, rejected)
             d == DynamicGetTracks(w.next, rest, goodDynamic)
             both == w.tracks \o d.tracks
  <1>1. r = IF Len(w.tracks) >= count \/ w.next.generatorWave THEN w
            ELSE [next |-> d.next, tracks |-> both]
    BY Zenon DEF Expansion
  <1>2. /\ w.next \in WaveSteps(x) /\ WaveTimer(w.next)
        /\ w.tracks \in Seq(Hashes) /\ IsInjective(w.tracks)
        /\ ToSet(w.tracks) \subseteq goodWave
    <2> HIDE DEF goodWave
    <2> QED BY WaveTracksGot DEF Fits, TimersFit
  <1>3. Fits(w.next, queue) /\ SameUser(x, w.next)
    <2> DEFINE next == w.next
    <2>1. next \in WaveSteps(x) /\ WaveTimer(next)
      BY <1>2
    <2> HIDE DEF next
    <2>2. Fits(next, queue) /\ SameUser(x, next)
      BY <2>1, WaveStepFits
    <2> QED BY <2>2 DEF next
  <1> HIDE DEF w
  <1>4. /\ d.next \in DynamicSteps(w.next) /\ DynamicTimer(d.next)
        /\ d.tracks \in Seq(Hashes) /\ IsInjective(d.tracks)
        /\ ToSet(d.tracks) \subseteq goodDynamic
    <2> DEFINE next == w.next
    <2>1. next \in Machine /\ TracksFit(next)
      BY <1>3 DEF Fits
    <2>2. d = DynamicGetTracks(next, rest, goodDynamic)
      OBVIOUS
    <2> HIDE DEF goodDynamic, rest, next, d
    <2>3. /\ d.next \in DynamicSteps(next) /\ DynamicTimer(d.next)
          /\ d.tracks \in Seq(Hashes) /\ IsInjective(d.tracks)
          /\ ToSet(d.tracks) \subseteq goodDynamic
      BY <2>1, <2>2, DynamicTracksGot
    <2> QED BY <2>3 DEF next
  <1> HIDE DEF d
  <1>5. Fits(d.next, queue) /\ SameUser(w.next, d.next)
    <2> DEFINE next == w.next
               last == d.next
    <2>1. Fits(next, queue) /\ last \in DynamicSteps(next) /\ DynamicTimer(last)
      BY <1>3, <1>4
    <2> HIDE DEF next, last
    <2>2. Fits(last, queue) /\ SameUser(next, last)
      BY <2>1, DynamicStepFits
    <2> QED BY <2>2 DEF next, last
  <1>6. /\ joined \in Seq(Hashes) /\ ToSet(joined) = ToSet(queue) \cup ToSet(w.tracks)
    <2> DEFINE tracks == w.tracks
    <2>1. tracks \in Seq(Hashes)
      BY <1>2
    <2> HIDE DEF tracks
    <2>2. queue \o tracks \in Seq(Hashes) /\ ToSet(queue \o tracks) = ToSet(queue) \cup ToSet(tracks)
      BY <2>1, JoinedLists
    <2> QED BY <2>2 DEF tracks
  <1>7. /\ both \in Seq(Hashes) /\ ToSet(both) = ToSet(w.tracks) \cup ToSet(d.tracks)
        /\ ToSet(w.tracks) \cap ToSet(d.tracks) = {} => IsInjective(both)
    <2> DEFINE first == w.tracks
               second == d.tracks
    <2>1. /\ first \in Seq(Hashes) /\ IsInjective(first)
          /\ second \in Seq(Hashes) /\ IsInjective(second)
      BY <1>2, <1>4
    <2> HIDE DEF first, second
    <2>2. /\ first \o second \in Seq(Hashes)
          /\ ToSet(first \o second) = ToSet(first) \cup ToSet(second)
          /\ ToSet(first) \cap ToSet(second) = {} => IsInjective(first \o second)
      BY <2>1, JoinedLists
    <2> QED BY <2>2 DEF first, second
  <1>8. /\ goodWave \subseteq stats[x.user]
        /\ x.avoid => goodWave \cap (ToSet(queue) \cup {current}) = {}
    BY GoodTracks
  <1>9. /\ goodDynamic \subseteq stats[x.user]
        /\ x.avoid => goodDynamic \cap (ToSet(joined) \cup {current}) = {}
    <2> HIDE DEF joined
    <2> QED BY GoodTracks
  <1> HIDE DEF goodWave, goodDynamic, joined, both
  <1>10. Fresh(x, w.tracks)
    BY <1>2, <1>8 DEF Fresh
  <1>11. Fresh(x, both)
    <2>1. ToSet(both) \subseteq stats[x.user]
      BY <1>2, <1>4, <1>7, <1>8, <1>9
    <2>2. ASSUME x.avoid
          PROVE  IsInjective(both) /\ ToSet(both) \cap (ToSet(queue) \cup {current}) = {}
      BY <1>2, <1>4, <1>6, <1>7, <1>8, <1>9, <2>2
    <2> QED BY <1>7, <2>1, <2>2 DEF Fresh
  <1>12. CASE Len(w.tracks) >= count \/ w.next.generatorWave
    <2>1. r = w
      BY <1>1, <1>12
    <2> QED BY <1>3, <1>10, <2>1
  <1>13. CASE ~ (Len(w.tracks) >= count \/ w.next.generatorWave)
    <2>1. r.next = d.next /\ r.tracks = both
      BY <1>1, <1>13
    <2>2. SameUser(x, d.next)
      BY <1>3, <1>5 DEF SameUser
    <2> QED BY <1>5, <1>11, <2>1, <2>2
  <1> QED BY <1>12, <1>13

LEMMA Refilled ==
    ASSUME NEW x \in Machine, TracksFit(x), DynamicTimer(x), WaveTimer(x),
           NEW count, NEW rejected, NEW r, r = Refill(x, count, rejected)
    PROVE  /\ r.next \in Machine /\ TracksFit(r.next)
           /\ DynamicTimer(r.next) /\ WaveTimer(r.next)
           /\ SameUser(x, r.next) /\ Fresh(x, r.tracks)
  <1> DEFINE goodWave == GoodForWave(x, queue, rejected)
             w == WaveGetTracks(x, count, goodWave)
             goodDynamic == GoodForDynamic(x, queue, rejected)
             d == DynamicGetTracks(x, count, goodDynamic)
  <1>1. r = IF x.generatorWave THEN w ELSE d
    BY Zenon DEF Refill
  <1>2. /\ goodWave \subseteq stats[x.user] /\ goodDynamic \subseteq stats[x.user]
        /\ x.avoid => /\ goodWave \cap (ToSet(queue) \cup {current}) = {}
                      /\ goodDynamic \cap (ToSet(queue) \cup {current}) = {}
    BY GoodTracks
  <1> HIDE DEF goodWave, goodDynamic
  <1> DEFINE next == r.next
             tracks == r.tracks
  <1>4. CASE x.generatorWave
    <2>1. r = w
      BY <1>1, <1>4
    <2> HIDE DEF w
    <2>2. /\ r.next \in WaveSteps(x) /\ WaveTimer(r.next)
          /\ r.tracks \in Seq(Hashes) /\ IsInjective(r.tracks)
          /\ ToSet(r.tracks) \subseteq goodWave
      BY <2>1, WaveTracksGot DEF w
    <2>3. next \in WaveSteps(x) /\ WaveTimer(next)
      BY <2>2
    <2>4. Fresh(x, r.tracks)
      BY <1>2, <2>2 DEF Fresh
    <2> HIDE DEF next
    <2>5. /\ next \in Machine /\ TracksFit(next)
          /\ SameDynamicList(x, next) /\ SameDynamicTimer(x, next) /\ SameSettings(x, next)
      BY <2>3 DEF WaveSteps
    <2>6. DynamicTimer(next) /\ SameUser(x, next)
      BY <2>5 DEF DynamicTimer, SameDynamicList, SameDynamicTimer, SameSettings, SameUser
    <2> QED BY <2>3, <2>4, <2>5, <2>6 DEF next
  <1>5. CASE ~ x.generatorWave
    <2>1. r = d
      BY <1>1, <1>5
    <2> HIDE DEF d
    <2>2. /\ r.next \in DynamicSteps(x) /\ DynamicTimer(r.next)
          /\ r.tracks \in Seq(Hashes) /\ IsInjective(r.tracks)
          /\ ToSet(r.tracks) \subseteq goodDynamic
      BY <2>1, DynamicTracksGot DEF d
    <2>3. next \in DynamicSteps(x) /\ DynamicTimer(next)
      BY <2>2
    <2>4. Fresh(x, r.tracks)
      BY <1>2, <2>2 DEF Fresh
    <2> HIDE DEF next
    <2>5. /\ next \in Machine /\ TracksFit(next)
          /\ SameWaveLists(x, next) /\ SameWaveTimer(x, next) /\ SameSettings(x, next)
      BY <2>3 DEF DynamicSteps
    <2>6. WaveTimer(next) /\ SameUser(x, next)
      BY <2>5 DEF WaveTimer, SameWaveLists, SameWaveTimer, SameSettings, SameUser
    <2> QED BY <2>3, <2>4, <2>5, <2>6 DEF next
  <1> QED BY <1>4, <1>5

-----------------------------------------------------------------------------
(* The invariant: the objects fit together between two events.             *)

(* What the database has are the wishes of all whose settings are not      *)
(* lost, and the settings in use are the wishes of the current user.       *)
PreferencesFit ==
    /\ prefs \in [Users -> Preferences] /\ wishes \in [Users -> Preferences]
    /\ lost \subseteq Users
    /\ \A u \in Users \ ({Public} \cup lost) : prefs[u] = wishes[u]
    /\ g.user # Public => wishes[g.user] = Settings(g)

DynamicModeFits ==
    /\ Fits(g, queue) /\ queue \in Seq(Hashes) /\ current \in Hashes \cup {None}
    /\ stats \in [Users -> SUBSET Hashes] /\ PreferencesFit

(* At the start all tracks known then are unused.                          *)
LEMMA StartFits ==
    ASSUME NEW order \in Orders
    PROVE  Fits(AtStart(order), << >>)
  <1> DEFINE x == AtStart(order)
             unused == Selected(order, Hashes \ NewHashes)
             status == [h \in Hashes |-> IF h \in NewHashes THEN "Unknown" ELSE "Unused"]
  <1>1. /\ unused \in Seq(Hashes) /\ IsInjective(unused)
        /\ ToSet(unused) = Hashes \ NewHashes
    <2>1. order \in Seq(Hashes) /\ IsInjective(order) /\ ToSet(order) = Hashes
      BY OrderOf
    <2> DEFINE known == Hashes \ NewHashes
    <2> HIDE DEF known
    <2>2. /\ Selected(order, known) \in Seq(Hashes) /\ IsInjective(Selected(order, known))
          /\ ToSet(Selected(order, known)) = Hashes \cap known
      BY <2>1, SelectedOf
    <2> QED BY <2>2 DEF known
  <1>2. status \in [Hashes -> Places]
    BY DEF Places
  <1>3. \A h \in Hashes : /\ status[h] = "Unused" <=> h \notin NewHashes
                          /\ status[h] # "Taken"
    OBVIOUS
  <1>4. /\ << >> \in Seq(Hashes) /\ ToSet(<< >>) = {} /\ IsInjective(<< >>)
        /\ Len(<< >>) = 0
    BY EmptyList
  <1>5. Public \in Users /\ WaveGoal \in Nat /\ {} \subseteq Users \X Hashes
    BY DynamicModeConstants
  <1>6. 0 \in Nat /\ 0 \in Int /\ -1 \in Int /\ TRUE \in BOOLEAN /\ FALSE \in BOOLEAN
    OBVIOUS
  <1> HIDE DEF unused, status
  <1> DEFINE none == << >>
  <1>7. x = [unused |-> unused, status |-> status,
     notified |-> 0, checkPending |-> TRUE, requested |-> {},
     upcoming |-> none, desired |-> 0, dynamicRefill |-> FALSE, frozen |-> FALSE,
     waveUpcoming |-> none, buffer |-> none, waveActive |-> FALSE,
     completed |-> FALSE, fails |-> 0, generated |-> 0, delivered |-> 0,
     waveTimers |-> 0, generatorWave |-> FALSE, progress |-> -1, total |-> 0,
     enabled |-> FALSE, refillPending |-> FALSE, user |-> Public, avoid |-> TRUE]
    BY DEF AtStart, unused, status
  <1>8. none \in Seq(Hashes)
    BY <1>4
  <1> HIDE DEF x, none
  <1>9. x \in Machine
    BY <1>1, <1>2, <1>5, <1>6, <1>7, <1>8, Zenon DEF Machine
  <1>10. /\ x.unused = unused /\ x.status = status /\ x.upcoming = none
         /\ x.waveUpcoming = none /\ x.buffer = none /\ x.waveActive = FALSE
         /\ x.completed = FALSE /\ x.desired = 0 /\ x.enabled = FALSE
         /\ x.generated = 0
    BY <1>7
  <1>11. Held(x) = {}
    BY <1>4, <1>10 DEF Held, none
  <1>12. SourceFits(x, Held(x))
    BY <1>1, <1>3, <1>10, <1>11 DEF SourceFits
  <1>13. ListsFit(x) /\ WaveFits(x)
    BY <1>4, <1>10 DEF ListsFit, WaveFits, none
  <1>14. TimersFit(x, << >>)
    BY <1>4, <1>10 DEF TimersFit, DynamicTimer, WaveTimer, QueueTimer, none
  <1> QED BY <1>9, <1>12, <1>13, <1>14 DEF Fits, TracksFit, x

(* Settings with the fields of some preferences are those preferences.     *)
LEMMA SettingsOf ==
    ASSUME NEW preferences \in Preferences, NEW x,
           x.avoid = preferences.avoid, x.enabled = preferences.enabled
    PROVE  Settings(x) = preferences
  BY DEF Preferences, Settings

(* A generator that generates for a user, with some preferences.           *)
SetFor(y, user, preferences) ==
    y.user = user /\ y.avoid = preferences.avoid /\ y.enabled = preferences.enabled

LEMMA UserSetFor ==
    ASSUME NEW x, NEW q \in Seq(Hashes), Fits(x, q), NEW st, NEW playing,
           NEW user \in Users, NEW preferences \in Preferences,
           NEW y, y = WithUser(x, st, q, playing, user, preferences)
    PROVE  SetFor(y, user, preferences)
  BY UserSet DEF SetFor

LEMMA InitFits ==
    ASSUME Init
    PROVE  DynamicModeFits
  <1>1. queue = << >> /\ queue \in Seq(Hashes) /\ current \in Hashes \cup {None}
    BY EmptyList DEF Init
  <1>2. stats \in [Users -> SUBSET Hashes]
    BY DEF Init
  <1>3. prefs \in [Users -> Preferences]
    <2>1. prefs \in [Users -> {[enabled |-> TRUE, avoid |-> TRUE],
                               [enabled |-> FALSE, avoid |-> FALSE]}]
      BY DEF Init
    <2>2. {[enabled |-> TRUE, avoid |-> TRUE], [enabled |-> FALSE, avoid |-> FALSE]}
              \subseteq Preferences
      BY DEF Preferences
    <2> QED BY <2>1, <2>2
  <1>4. PICK order \in Orders, user \in Users :
          g = IF user = Public THEN AtStart(order)
              ELSE WithUser(AtStart(order), stats, queue, current, user, prefs[user])
    BY DEF Init
  <1> DEFINE x == AtStart(order)
             preferences == prefs[user]
  <1>5. Fits(x, queue)
    BY <1>1, StartFits
  <1>6. preferences \in Preferences
    BY <1>3
  <1>7. g = IF user = Public THEN x
            ELSE WithUser(x, stats, queue, current, user, preferences)
    BY <1>4
  <1> HIDE DEF x, preferences
  <1>8. wishes = prefs /\ lost = {}
    BY DEF Init
  <1>9. CASE user = Public
    <2>1. g.user = Public
      BY <1>7, <1>9 DEF AtStart, x
    <2>2. PreferencesFit
      BY <1>3, <1>8, <2>1 DEF PreferencesFit
    <2> QED BY <1>1, <1>2, <1>5, <1>7, <1>9, <2>2 DEF DynamicModeFits
  <1>10. CASE user # Public
    <2>1. g = WithUser(x, stats, queue, current, user, preferences)
      BY <1>7, <1>10
    <2>2. Fits(g, queue)
      BY <1>1, <1>5, <1>6, <2>1, UserSet
    <2>3. SetFor(g, user, preferences)
      BY <1>1, <1>5, <1>6, <2>1, UserSetFor
    <2>4. g.user = user
      BY <2>3 DEF SetFor
    <2>5. g.avoid = preferences.avoid /\ g.enabled = preferences.enabled
      BY <2>3 DEF SetFor
    <2>6. Settings(g) = preferences
      BY <1>6, <2>5, SettingsOf
    <2>7. PreferencesFit
      BY <1>3, <1>8, <2>4, <2>6 DEF PreferencesFit, preferences
    <2> QED BY <1>1, <1>2, <2>2, <2>7 DEF DynamicModeFits
  <1> QED BY <1>9, <1>10

-----------------------------------------------------------------------------
(* What a step leads to.                                                   *)

(* The bodies of OnlyFreshTracksAreAdded and PreferencesAreRestored.       *)
FreshAdded ==
    LET added == SubSeq(queue', Len(queue) + 1, Len(queue'))
    IN  Len(queue') > Len(queue) /\ ~ (\E h \in Hashes : InsertTrack(h))
        => /\ ToSet(added) \subseteq stats[g.user]
           /\ g.avoid => /\ IsInjective(added)
                         /\ ToSet(added) \cap (ToSet(queue) \cup {current}) = {}

PreferencesKept ==
    /\ \A u \in Users : prefs'[u] # prefs[u] => u = g'.user
    /\ \A u \in Users \ ({Public} \cup lost') : prefs'[u] = wishes'[u]
    /\ g'.user \notin {g.user, Public} \cup lost \cup lost' =>
          Settings(g') = wishes[g'.user]

StepFits == DynamicModeFits' /\ FreshAdded /\ PreferencesKept

LEMMA NothingAdded ==
    ASSUME queue \in Seq(Hashes), queue' \in Seq(Hashes), Len(queue') <= Len(queue)
    PROVE  FreshAdded
  BY DEF FreshAdded

LEMMA TracksAdded ==
    ASSUME queue \in Seq(Hashes), NEW tracks, Fresh(g, tracks),
           queue' = queue \o tracks
    PROVE  FreshAdded /\ queue' \in Seq(Hashes) /\ Len(queue') >= Len(queue)
  <1> DEFINE added == SubSeq(queue', Len(queue) + 1, Len(queue'))
  <1>1. tracks \in Seq(Hashes)
    BY DEF Fresh
  <1>2. queue' \in Seq(Hashes) /\ Len(queue') >= Len(queue)
    BY <1>1
  <1>3. added = tracks
    <2>1. Len(queue') = Len(queue) + Len(tracks)
      BY <1>1
    <2>2. added \in Seq(Hashes) /\ Len(added) = Len(tracks)
      BY <1>1, <1>2, <2>1
    <2>3. \A i \in 1..Len(tracks) : added[i] = tracks[i]
      BY <1>1, <1>2, <2>1
    <2> HIDE DEF added
    <2> QED BY <1>1, <2>2, <2>3, SeqEqual
  <1> HIDE DEF added
  <1>4. /\ ToSet(added) \subseteq stats[g.user]
        /\ g.avoid => /\ IsInjective(added)
                      /\ ToSet(added) \cap (ToSet(queue) \cup {current}) = {}
    BY <1>3 DEF Fresh
  <1> QED BY <1>2, <1>4 DEF FreshAdded, added

LEMMA SettingsKept ==
    ASSUME SameUser(g, g'), UNCHANGED prefVars, PreferencesFit
    PROVE  PreferencesKept /\ PreferencesFit'
  <1>1. prefs' = prefs /\ wishes' = wishes /\ lost' = lost
    BY DEF prefVars
  <1>2. g'.user = g.user /\ Settings(g') = Settings(g)
    BY DEF SameUser, Settings
  <1> QED BY <1>1, <1>2 DEF PreferencesKept, PreferencesFit

LEMMA SettingsType ==
    ASSUME NEW x \in Machine
    PROVE  Settings(x) \in Preferences
  <1>1. x.enabled \in BOOLEAN /\ x.avoid \in BOOLEAN
    BY DEF Machine
  <1> QED BY <1>1, Zenon DEF Preferences, Settings

(* What is saved are the settings of the user who is played for.           *)
LEMMA SavedSettings ==
    ASSUME NEW p \in [Users -> Preferences], NEW x \in Machine, x.user # Public
    PROVE  Saved(p, x)[x.user] = Settings(x)
  <1> DEFINE settings == Settings(x)
  <1>1. x.user \in Users
    BY DEF Machine
  <1>2. Saved(p, x) = [p EXCEPT ![x.user] = settings]
    BY DEF Saved
  <1> HIDE DEF settings
  <1>3. Saved(p, x)[x.user] = settings
    BY <1>1, <1>2
  <1> QED BY <1>3 DEF settings

LEMMA SavedPreferences ==
    ASSUME NEW p \in [Users -> Preferences], NEW x \in Machine
    PROVE  /\ Saved(p, x) \in [Users -> Preferences]
           /\ \A u \in Users : Saved(p, x)[u] # p[u] => u = x.user
  <1> DEFINE settings == Settings(x)
  <1>1. x.user \in Users
    BY DEF Machine
  <1>2. settings \in Preferences
    BY SettingsType
  <1>3. Saved(p, x) = IF x.user = Public THEN p ELSE [p EXCEPT ![x.user] = settings]
    BY DEF Saved
  <1> HIDE DEF settings
  <1> QED BY <1>1, <1>2, <1>3

(* A step of the objects by themselves.                                    *)
LEMMA QuietStep ==
    ASSUME DynamicModeFits, Fits(g', queue), SameUser(g, g'),
           UNCHANGED <<queue, current, prefVars>>, stats' \in [Users -> SUBSET Hashes]
    PROVE  StepFits
  <1>1. Fits(g', queue') /\ queue' = queue
    OBVIOUS
  <1>2. PreferencesKept /\ PreferencesFit'
    BY SettingsKept DEF DynamicModeFits
  <1>3. DynamicModeFits'
    BY <1>1, <1>2 DEF DynamicModeFits
  <1>4. FreshAdded
    BY <1>1, NothingAdded DEF DynamicModeFits
  <1> QED BY <1>2, <1>3, <1>4 DEF StepFits

-----------------------------------------------------------------------------
(* The timers.                                                             *)

LEMMA CheckNotificationsFits ==
    ASSUME DynamicModeFits, CheckNotifications
    PROVE  StepFits
  <1>1. Fits(g, queue) /\ g \in Machine /\ SourceFits(g, Held(g))
    BY DEF DynamicModeFits, Fits, TracksFit
  <1>2. g' = CheckedNotifications(g)
    BY DEF CheckNotifications
  <1>3. g' \in Machine /\ SameOutsideTheSource(g, g') /\ SameTracks(g, g')
    BY <1>1, <1>2, NotificationsChecked
  <1>4. SourceFits(g', Held(g))
    BY <1>1, <1>3, SameTracksFit
  <1>5. Fits(g', queue) /\ SameUser(g, g')
    BY <1>1, <1>3, <1>4, SourceStepFits
  <1> QED BY <1>5, QuietStep DEF CheckNotifications, DynamicModeFits

LEMMA StatsArriveFits ==
    ASSUME DynamicModeFits, NEW user \in Users, StatsArrive(user)
    PROVE  StepFits
  <1>1. Fits(g', queue) /\ SameUser(g, g')
    BY DEF DynamicModeFits, StatsArrive, SameUser
  <1>2. stats' \in [Users -> SUBSET Hashes]
    BY DEF StatsArrive, DynamicModeFits
  <1> QED BY <1>1, <1>2, QuietStep DEF StatsArrive

LEMMA UpcomingRefillTimerFits ==
    ASSUME DynamicModeFits, UpcomingRefillTimer
    PROVE  StepFits
  <1>1. Fits(g, queue) /\ g \in Machine /\ TracksFit(g) /\ stats \in [Users -> SUBSET Hashes]
    BY DEF DynamicModeFits, Fits
  <1>2. PICK order \in Orders : g' = RefillUpcoming(g, stats, order)
    BY DEF UpcomingRefillTimer
  <1>3. g' \in DynamicSteps(g) /\ DynamicTimer(g')
    BY <1>1, <1>2, UpcomingRefilled
  <1>4. Fits(g', queue) /\ SameUser(g, g')
    BY <1>1, <1>3, DynamicStepFits
  <1> QED BY <1>4, QuietStep DEF UpcomingRefillTimer, DynamicModeFits

LEMMA UnfreezeFits ==
    ASSUME DynamicModeFits, Unfreeze
    PROVE  StepFits
  <1> DEFINE x == [g EXCEPT !.frozen = FALSE]
  <1>1. Fits(g, queue) /\ g \in Machine /\ TracksFit(g)
    BY DEF DynamicModeFits, Fits
  <1>2. g' = CheckDynamicRefill(x)
    BY DEF Unfreeze
  <1>3. x \in DynamicSteps(g)
    BY <1>1, FrozenSet, Zenon
  <1> HIDE DEF x
  <1>4. x \in Machine /\ TracksFit(x)
    BY <1>3 DEF DynamicSteps
  <1>5. g' \in DynamicSteps(x) /\ DynamicTimer(g')
    BY <1>2, <1>4, DynamicRefillChecked
  <1>6. g' \in DynamicSteps(g)
    BY <1>3, <1>5, DynamicStepsOfSteps
  <1>7. Fits(g', queue) /\ SameUser(g, g')
    BY <1>1, <1>5, <1>6, DynamicStepFits
  <1> QED BY <1>7, QuietStep DEF Unfreeze, DynamicModeFits

LEMMA WaveRefillTimerFits ==
    ASSUME DynamicModeFits, WaveRefillTimer
    PROVE  StepFits
  <1>1. /\ Fits(g, queue) /\ g \in Machine /\ TracksFit(g) /\ WaveTimer(g)
        /\ stats \in [Users -> SUBSET Hashes]
    BY DEF DynamicModeFits, Fits, TimersFit
  <1>2. PICK order \in Orders : g' = RefillWave(g, stats, queue, current, order)
    BY DEF WaveRefillTimer
  <1>3. g.waveTimers > 0
    BY DEF WaveRefillTimer
  <1>4. g' \in WaveSteps(g) /\ WaveTimer(g')
    BY <1>1, <1>2, <1>3, WaveRefilled
  <1>5. Fits(g', queue) /\ SameUser(g, g')
    BY <1>1, <1>4, WaveStepFits
  <1> QED BY <1>5, QuietStep DEF WaveRefillTimer, DynamicModeFits

LEMMA QueueRefillTimerFits ==
    ASSUME DynamicModeFits, QueueRefillTimer
    PROVE  StepFits
  <1> DEFINE fired == [g EXCEPT !.refillPending = FALSE]
             count == IF Len(queue) < DesiredQueueLength
                      THEN DesiredQueueLength - Len(queue) ELSE 0
  <1>1. PICK rejected \in SUBSET ToSet(g.upcoming \o g.waveUpcoming) :
           IF g.enabled
           THEN /\ queue' = queue \o Refill(fired, count, rejected).tracks
                /\ g' = CheckQueueRefill(Refill(fired, count, rejected).next, queue')
           ELSE g' = fired /\ UNCHANGED queue
    BY Zenon DEF QueueRefillTimer
  <1>2. /\ g \in Machine /\ TracksFit(g) /\ DynamicTimer(g) /\ WaveTimer(g)
        /\ queue \in Seq(Hashes)
    BY DEF DynamicModeFits, Fits, TimersFit
  <1>3. /\ fired \in Machine /\ SameGenerators(g, fired) /\ SameUser(g, fired)
    BY <1>2, Zenon DEF Machine, SameGenerators, SameTracks, SameDynamicList, SameWaveLists,
       SameDynamicTimer, SameWaveTimer, SameUser
  <1> HIDE DEF fired, count
  <1>4. TracksFit(fired)
    BY <1>2, <1>3, SameListsFit DEF SameGenerators
  <1>5. DynamicTimer(fired) /\ WaveTimer(fired)
    BY <1>2, <1>3 DEF SameGenerators, SameDynamicList, SameWaveLists, SameDynamicTimer,
       SameWaveTimer, DynamicTimer, WaveTimer
  <1>6. CASE ~ g.enabled
    <2>1. g' = fired /\ queue' = queue
      BY <1>1, <1>6
    <2>2. QueueTimer(g', queue)
      BY <1>3, <1>6, <2>1 DEF QueueTimer, SameUser
    <2>3. Fits(g', queue) /\ SameUser(g, g')
      BY <1>3, <1>4, <1>5, <2>1, <2>2 DEF Fits, TimersFit
    <2> QED BY <2>1, <2>3, QuietStep DEF QueueRefillTimer, DynamicModeFits
  <1>7. CASE g.enabled
    <2> DEFINE r == Refill(fired, count, rejected)
               next == r.next
               tracks == r.tracks
    <2>1. queue' = queue \o tracks /\ g' = CheckQueueRefill(next, queue')
      BY <1>1, <1>7
    <2> HIDE DEF r
    <2>2. /\ r.next \in Machine /\ TracksFit(r.next)
          /\ DynamicTimer(r.next) /\ WaveTimer(r.next)
          /\ SameUser(fired, r.next) /\ Fresh(fired, r.tracks)
      BY <1>3, <1>4, <1>5, Refilled DEF r
    <2>3. Fresh(g, tracks) /\ SameUser(g, next)
      BY <1>3, <2>2 DEF Fresh, SameUser
    <2>4. next \in Machine /\ TracksFit(next) /\ DynamicTimer(next) /\ WaveTimer(next)
      BY <2>2
    <2> HIDE DEF next, tracks
    <2>5. FreshAdded /\ queue' \in Seq(Hashes)
      BY <1>2, <2>1, <2>3, TracksAdded
    <2>6. Fits(g', queue') /\ SameUser(next, g')
      BY <2>1, <2>4, <2>5, QueueRefillChecked
    <2>7. SameUser(g, g')
      BY <2>3, <2>6 DEF SameUser
    <2>8. PreferencesKept /\ PreferencesFit'
      BY <2>7, SettingsKept DEF QueueRefillTimer, DynamicModeFits
    <2>9. DynamicModeFits'
      BY <2>5, <2>6, <2>8 DEF DynamicModeFits, QueueRefillTimer
    <2> QED BY <2>5, <2>8, <2>9 DEF StepFits
  <1> QED BY <1>6, <1>7

-----------------------------------------------------------------------------
(* The player, new tracks, and what users do.                              *)

(* The queue has become shorter.                                           *)
LEMMA ShorterQueueFits ==
    ASSUME DynamicModeFits, queue' \in Seq(Hashes), Len(queue') <= Len(queue),
           g' = CheckQueueRefill(g, queue'), current' \in Hashes \cup {None},
           UNCHANGED <<stats, prefVars>>
    PROVE  StepFits
  <1>1. g \in Machine /\ TracksFit(g) /\ DynamicTimer(g) /\ WaveTimer(g)
    BY DEF DynamicModeFits, Fits, TimersFit
  <1>2. Fits(g', queue') /\ SameUser(g, g')
    BY <1>1, QueueRefillChecked
  <1>3. FreshAdded
    BY NothingAdded DEF DynamicModeFits
  <1>4. PreferencesKept /\ PreferencesFit'
    BY <1>2, SettingsKept DEF DynamicModeFits
  <1>5. DynamicModeFits'
    BY <1>2, <1>4 DEF DynamicModeFits
  <1> QED BY <1>3, <1>4, <1>5 DEF StepFits

LEMMA PlayNextFits ==
    ASSUME DynamicModeFits, PlayNext
    PROVE  StepFits
  <1>1. queue \in Seq(Hashes) /\ queue # << >>
    BY DEF DynamicModeFits, PlayNext
  <1>2. /\ Tail(queue) \in Seq(Hashes) /\ Len(Tail(queue)) <= Len(queue)
        /\ Head(queue) \in Hashes
    BY <1>1
  <1> QED BY <1>2, ShorterQueueFits DEF PlayNext

LEMMA RemoveTrackFits ==
    ASSUME DynamicModeFits, NEW i \in 1..Len(queue), RemoveTrack(i)
    PROVE  StepFits
  <1>1. queue \in Seq(Hashes)
    BY DEF DynamicModeFits
  <1>2. queue' = SubSeq(queue, 1, i - 1) \o SubSeq(queue, i + 1, Len(queue))
    BY DEF RemoveTrack, RemoveAt
  <1>3. /\ SubSeq(queue, 1, i - 1) \in Seq(Hashes)
        /\ Len(SubSeq(queue, 1, i - 1)) = i - 1
    BY <1>1
  <1>4. /\ SubSeq(queue, i + 1, Len(queue)) \in Seq(Hashes)
        /\ Len(SubSeq(queue, i + 1, Len(queue))) = Len(queue) - i
    BY <1>1
  <1>5. queue' \in Seq(Hashes) /\ Len(queue') <= Len(queue)
    <2> DEFINE before == SubSeq(queue, 1, i - 1)
               after == SubSeq(queue, i + 1, Len(queue))
    <2>1. queue' = before \o after /\ before \in Seq(Hashes) /\ after \in Seq(Hashes)
      BY <1>2, <1>3, <1>4, Zenon
    <2>2. Len(before) = i - 1 /\ Len(after) = Len(queue) - i
      BY <1>3, <1>4, Zenon
    <2>3. Len(queue) \in Nat
      BY <1>1
    <2> HIDE DEF before, after
    <2>4. queue' \in Seq(Hashes) /\ Len(queue') = Len(before) + Len(after)
      BY <2>1
    <2> QED BY <2>2, <2>3, <2>4
  <1> QED BY <1>5, ShorterQueueFits DEF RemoveTrack, Command, DynamicModeFits

LEMMA InsertTrackFits ==
    ASSUME DynamicModeFits, NEW h \in Hashes, InsertTrack(h)
    PROVE  StepFits
  <1>1. queue \in Seq(Hashes) /\ Fits(g, queue)
    BY DEF DynamicModeFits
  <1>2. queue' \in Seq(Hashes) /\ Len(queue') >= Len(queue)
    BY <1>1 DEF InsertTrack
  <1>3. Fits(g, queue')
    BY <1>1, <1>2, LongerQueueFits
  <1>4. PreferencesKept /\ PreferencesFit'
    <2>1. SameUser(g, g') /\ UNCHANGED prefVars
      BY DEF InsertTrack, SameUser
    <2> QED BY <2>1, SettingsKept DEF DynamicModeFits
  <1>5. FreshAdded
    BY DEF FreshAdded
  <1>6. DynamicModeFits'
    BY <1>2, <1>3, <1>4 DEF DynamicModeFits, InsertTrack, Command
  <1> QED BY <1>4, <1>5, <1>6 DEF StepFits

LEMMA HashBecameAvailableFits ==
    ASSUME DynamicModeFits, NEW h \in Hashes, NEW index, HashBecameAvailable(h, index)
    PROVE  StepFits
  <1> DEFINE T == Held(g)
  <1>1. Fits(g, queue) /\ g \in Machine /\ SourceFits(g, T)
    BY DEF DynamicModeFits, Fits, TracksFit
  <1>2. /\ g.status[h] = "Unknown" /\ index \in 0..Len(g.unused)
        /\ g' = AddNewHash(g, h, index)
    BY DEF HashBecameAvailable
  <1> HIDE DEF T
  <1>3. g' \in Machine /\ SameOutsideTheSource(g, g') /\ SourceFits(g', T)
    BY <1>1, <1>2, NewHashAdded
  <1>4. Fits(g', queue) /\ SameUser(g, g')
    BY <1>1, <1>3, SourceStepFits DEF T
  <1> QED BY <1>4, QuietStep DEF HashBecameAvailable, Command, DynamicModeFits

LEMMA RequestQueueExpansionFits ==
    ASSUME DynamicModeFits, RequestQueueExpansion
    PROVE  StepFits
  <1>1. PICK rejected \in SUBSET ToSet(g.upcoming \o g.waveUpcoming) :
           /\ queue' = queue \o Expansion(g, ExpandCount, rejected).tracks
           /\ g' = Expansion(g, ExpandCount, rejected).next
    BY DEF RequestQueueExpansion
  <1>2. Fits(g, queue) /\ queue \in Seq(Hashes)
    BY DEF DynamicModeFits
  <1> DEFINE r == Expansion(g, ExpandCount, rejected)
             tracks == r.tracks
  <1>3. queue' = queue \o tracks /\ g' = r.next
    BY <1>1
  <1> HIDE DEF r
  <1>4. Fits(r.next, queue) /\ SameUser(g, r.next) /\ Fresh(g, r.tracks)
    BY <1>2, Expanded DEF r
  <1>5. Fits(g', queue) /\ SameUser(g, g') /\ Fresh(g, tracks)
    BY <1>3, <1>4
  <1> HIDE DEF tracks
  <1>6. FreshAdded /\ queue' \in Seq(Hashes) /\ Len(queue') >= Len(queue)
    BY <1>2, <1>3, <1>5, TracksAdded
  <1>7. Fits(g', queue')
    BY <1>2, <1>5, <1>6, LongerQueueFits
  <1>8. PreferencesKept /\ PreferencesFit'
    BY <1>5, SettingsKept DEF RequestQueueExpansion, DynamicModeFits
  <1>9. DynamicModeFits'
    BY <1>6, <1>7, <1>8 DEF DynamicModeFits, RequestQueueExpansion, Command
  <1> QED BY <1>6, <1>8, <1>9 DEF StepFits

LEMMA StartTheWaveFits ==
    ASSUME DynamicModeFits, StartTheWave
    PROVE  StepFits
  <1>1. Fits(g, queue) /\ g \in Machine /\ TracksFit(g) /\ WaveTimer(g)
    BY DEF DynamicModeFits, Fits, TimersFit
  <1>2. g' = StartWave(g)
    BY DEF StartTheWave
  <1>3. g' \in WaveSteps(g) /\ WaveTimer(g')
    BY <1>1, <1>2, WaveStarted
  <1>4. Fits(g', queue) /\ SameUser(g, g')
    BY <1>1, <1>3, WaveStepFits
  <1> QED BY <1>4, QuietStep DEF StartTheWave, Command, DynamicModeFits

LEMMA TerminateTheWaveFits ==
    ASSUME DynamicModeFits, TerminateTheWave
    PROVE  StepFits
  <1>1. Fits(g, queue) /\ g \in Machine /\ TracksFit(g) /\ WaveTimer(g)
    BY DEF DynamicModeFits, Fits, TimersFit
  <1>2. g' = TerminateWave(g)
    BY DEF TerminateTheWave
  <1>3. g' \in WaveSteps(g) /\ WaveTimer(g')
    BY <1>1, <1>2, WaveTerminated
  <1>4. Fits(g', queue) /\ SameUser(g, g')
    BY <1>1, <1>3, WaveStepFits
  <1> QED BY <1>4, QuietStep DEF TerminateTheWave, Command, DynamicModeFits

(* The settings have changed, whether they could be saved or not.          *)
LEMMA SettingsSaved ==
    ASSUME PreferencesFit, g' \in Machine, g'.user = g.user, SaveUserPreferences
    PROVE  PreferencesKept /\ PreferencesFit'
  <1> DEFINE user == g'.user
             settings == Settings(g')
  <1>1. /\ prefs \in [Users -> Preferences] /\ wishes \in [Users -> Preferences]
        /\ lost \subseteq Users
        /\ \A u \in Users \ ({Public} \cup lost) : prefs[u] = wishes[u]
    BY DEF PreferencesFit
  <1>2. user \in Users /\ settings \in Preferences
    BY SettingsType DEF Machine
  <1>3. wishes' = [wishes EXCEPT ![user] = settings]
    BY DEF SaveUserPreferences
  <1>4. \/ prefs' = Saved(prefs, g') /\ lost' = lost \ {user}
        \/ prefs' = prefs /\ lost' = (lost \cup {user}) \ {Public}
    BY DEF SaveUserPreferences
  <1>5. Saved(prefs, g') = IF user = Public THEN prefs ELSE [prefs EXCEPT ![user] = settings]
    BY DEF Saved
  <1> HIDE DEF user, settings
  <1>6. /\ prefs' \in [Users -> Preferences] /\ wishes' \in [Users -> Preferences]
        /\ lost' \subseteq Users /\ wishes'[user] = settings
    BY <1>1, <1>2, <1>3, <1>4, <1>5
  <1>7. \A u \in Users : prefs'[u] # prefs[u] => u = user
    BY <1>1, <1>2, <1>4, <1>5
  <1>8. \A u \in Users \ ({Public} \cup lost') : prefs'[u] = wishes'[u]
    BY <1>1, <1>2, <1>3, <1>4, <1>5
  <1>9. user = g.user /\ user = g'.user /\ settings = Settings(g')
    BY DEF user, settings
  <1> QED BY <1>6, <1>7, <1>8, <1>9 DEF PreferencesKept, PreferencesFit

LEMMA SettingsStep ==
    ASSUME DynamicModeFits, Fits(g', queue), UNCHANGED <<queue, current, stats>>,
           PreferencesFit', PreferencesKept
    PROVE  StepFits
  <1>1. Fits(g', queue') /\ queue' = queue
    OBVIOUS
  <1>2. DynamicModeFits'
    BY <1>1 DEF DynamicModeFits
  <1>3. FreshAdded
    BY <1>1, NothingAdded DEF DynamicModeFits
  <1> QED BY <1>2, <1>3 DEF StepFits

LEMMA EnableFits ==
    ASSUME DynamicModeFits, Enable
    PROVE  StepFits
  <1>1. Fits(g, queue) /\ queue \in Seq(Hashes) /\ PreferencesFit /\ g' = Enabled(g, queue)
    BY DEF DynamicModeFits, Enable
  <1>2. Fits(g', queue) /\ g'.enabled = TRUE /\ g'.user = g.user /\ g'.avoid = g.avoid
    BY <1>1, GeneratorEnabled
  <1>3. PreferencesKept /\ PreferencesFit'
    <2>1. CASE g.enabled
      <3>1. g' = g
        BY <1>1, <2>1 DEF Enabled
      <3>2. SameUser(g, g') /\ UNCHANGED prefVars
        BY <2>1, <3>1 DEF Enable, SameUser
      <3> QED BY <1>1, <3>2, SettingsKept
    <2>2. CASE ~ g.enabled
      <3>1. SaveUserPreferences /\ g' \in Machine
        BY <1>2, <2>2 DEF Enable, Fits
      <3> QED BY <1>1, <1>2, <3>1, SettingsSaved
    <2> QED BY <2>1, <2>2
  <1> QED BY <1>2, <1>3, SettingsStep DEF Enable, Command

LEMMA DisableFits ==
    ASSUME DynamicModeFits, Disable
    PROVE  StepFits
  <1>1. Fits(g, queue) /\ PreferencesFit /\ g' = Disabled(g)
    BY DEF DynamicModeFits, Disable
  <1>2. Fits(g', queue) /\ g'.enabled = FALSE /\ g'.user = g.user /\ g'.avoid = g.avoid
    BY <1>1, GeneratorDisabled
  <1>3. PreferencesKept /\ PreferencesFit'
    <2>1. CASE ~ g.enabled
      <3>1. g' = g
        BY <1>1, <2>1 DEF Disabled
      <3>2. SameUser(g, g') /\ UNCHANGED prefVars
        BY <2>1, <3>1 DEF Disable, SameUser
      <3> QED BY <1>1, <3>2, SettingsKept
    <2>2. CASE g.enabled
      <3>1. SaveUserPreferences /\ g' \in Machine
        BY <1>2, <2>2 DEF Disable, Fits
      <3> QED BY <1>1, <1>2, <3>1, SettingsSaved
    <2> QED BY <2>1, <2>2
  <1> QED BY <1>2, <1>3, SettingsStep DEF Disable, Command

LEMMA SetNoRepetitionSpanFits ==
    ASSUME DynamicModeFits, SetNoRepetitionSpan
    PROVE  StepFits
  <1> DEFINE avoid == ~ g.avoid
             x == [g EXCEPT !.avoid = avoid]
             y == DynamicCriteriaChanged(x, stats)
  <1>1. /\ g \in Machine /\ TracksFit(g) /\ DynamicTimer(g) /\ WaveTimer(g)
        /\ QueueTimer(g, queue) /\ PreferencesFit
    BY DEF DynamicModeFits, Fits, TimersFit
  <1>2. g' = WaveCriteriaChanged(y, stats, queue, current) /\ SaveUserPreferences
    BY DEF SetNoRepetitionSpan
  <1>13. avoid \in BOOLEAN
    OBVIOUS
  <1> HIDE DEF avoid
  <1>3. /\ x \in Machine /\ SameGenerators(g, x)
        /\ x.enabled = g.enabled /\ x.user = g.user /\ x.refillPending = g.refillPending
    BY <1>1, <1>13, Zenon DEF Machine, SameGenerators, SameTracks, SameDynamicList, SameWaveLists,
       SameDynamicTimer, SameWaveTimer
  <1> HIDE DEF x
  <1>4. QueueTimer(x, queue)
    BY <1>1, <1>3 DEF QueueTimer
  <1>5. Fits(x, queue)
    BY <1>1, <1>3, <1>4, SameGeneratorsFit
  <1>6. y \in DynamicSteps(x) /\ DynamicTimer(y)
    BY <1>5, DynamicCriteriaApplied DEF Fits
  <1> HIDE DEF y
  <1>7. Fits(y, queue) /\ SameUser(x, y)
    BY <1>5, <1>6, DynamicStepFits
  <1>8. y \in Machine /\ TracksFit(y) /\ WaveTimer(y)
    BY <1>7 DEF Fits, TimersFit
  <1>9. g' \in WaveSteps(y) /\ WaveTimer(g')
    BY <1>2, <1>8, WaveCriteriaApplied
  <1>10. Fits(g', queue) /\ SameUser(y, g')
    BY <1>7, <1>9, WaveStepFits
  <1>11. g' \in Machine /\ g'.user = g.user
    BY <1>3, <1>7, <1>10 DEF Fits, SameUser
  <1>12. PreferencesKept /\ PreferencesFit'
    BY <1>1, <1>2, <1>11, SettingsSaved
  <1> QED BY <1>10, <1>12, SettingsStep DEF SetNoRepetitionSpan, Command

(* Another user's settings have been read, or those of the last user stay. *)
LEMMA SettingsRead ==
    ASSUME PreferencesFit, g' \in Machine, NEW user \in Users, user = g'.user,
           NEW found \in BOOLEAN, found => Settings(g') = prefs[user],
           ~ found => g'.enabled = g.enabled,
           lost' = IF found THEN lost \ {user} ELSE (lost \cup {user}) \ {Public},
           prefs' \in {prefs, IF g'.enabled # g.enabled THEN Saved(prefs, g') ELSE prefs},
           wishes' = [wishes EXCEPT ![user] = Settings(g')]
    PROVE  PreferencesKept /\ PreferencesFit'
  <1> DEFINE settings == Settings(g')
             saved == Saved(prefs, g')
  <1>1. /\ prefs \in [Users -> Preferences] /\ wishes \in [Users -> Preferences]
        /\ lost \subseteq Users
        /\ \A u \in Users \ ({Public} \cup lost) : prefs[u] = wishes[u]
    BY DEF PreferencesFit
  <1>2. settings \in Preferences
    BY SettingsType
  <1>3. saved = IF user = Public THEN prefs ELSE [prefs EXCEPT ![user] = settings]
    BY DEF Saved
  <1>4. prefs' = prefs \/ (found /\ prefs' = saved)
    OBVIOUS
  <1>5. wishes' = [wishes EXCEPT ![user] = settings] /\ (found => settings = prefs[user])
    OBVIOUS
  <1> HIDE DEF settings, saved
  <1>6. prefs' = prefs
    BY <1>1, <1>3, <1>4, <1>5
  <1>7. wishes' \in [Users -> Preferences] /\ wishes'[user] = settings /\ lost' \subseteq Users
    BY <1>1, <1>2, <1>5
  <1>8. \A u \in Users \ ({Public} \cup lost') : prefs'[u] = wishes'[u]
    BY <1>1, <1>2, <1>5, <1>6
  <1>9. user \notin {Public} \cup lost \cup lost' => settings = wishes[user]
    BY <1>1, <1>5
  <1>10. user = g'.user /\ settings = Settings(g')
    BY DEF settings
  <1> QED BY <1>1, <1>6, <1>7, <1>8, <1>9, <1>10 DEF PreferencesKept, PreferencesFit

LEMMA SetUserGeneratingForFits ==
    ASSUME DynamicModeFits, NEW user \in Users, SetUserGeneratingFor(user)
    PROVE  StepFits
  <1>1. /\ Fits(g, queue) /\ queue \in Seq(Hashes) /\ prefs \in [Users -> Preferences]
        /\ g \in Machine /\ PreferencesFit
    BY DEF DynamicModeFits, Fits, PreferencesFit
  <1>2. PICK found \in BOOLEAN :
          /\ g' = WithUser(g, stats, queue, current, user,
                       IF found THEN prefs[user] ELSE Settings(g))
          /\ lost' = IF found THEN lost \ {user} ELSE (lost \cup {user}) \ {Public}
    BY DEF SetUserGeneratingFor
  <1> DEFINE settings == Settings(g)
             preferences == IF found THEN prefs[user] ELSE settings
  <1>3. settings \in Preferences /\ settings.enabled = g.enabled
    BY <1>1, SettingsType DEF Settings
  <1> HIDE DEF settings
  <1>4. preferences \in Preferences
    BY <1>1, <1>3
  <1>5. g' = WithUser(g, stats, queue, current, user, preferences)
    BY <1>2 DEF settings
  <1>6. /\ found => preferences = prefs[user]
        /\ ~ found => preferences = settings
    OBVIOUS
  <1> HIDE DEF preferences
  <1>7. /\ Fits(g', queue) /\ g'.user = user
        /\ g'.avoid = preferences.avoid /\ g'.enabled = preferences.enabled
    BY <1>1, <1>4, <1>5, UserSet
  <1>8. Settings(g') = preferences
    BY <1>4, <1>7, SettingsOf
  <1>9. g' \in Machine
    BY <1>7 DEF Fits
  <1>10. /\ prefs' \in {prefs, IF g'.enabled # g.enabled THEN Saved(prefs, g') ELSE prefs}
         /\ wishes' = [wishes EXCEPT ![user] = Settings(g')]
    BY DEF SetUserGeneratingFor
  <1>11. PreferencesKept /\ PreferencesFit'
    <2>1. found => Settings(g') = prefs[user]
      BY <1>6, <1>8
    <2>2. ~ found => g'.enabled = g.enabled
      BY <1>3, <1>6, <1>7
    <2> QED BY <1>1, <1>2, <1>7, <1>9, <1>10, <2>1, <2>2, SettingsRead
  <1> QED BY <1>7, <1>11, SettingsStep DEF SetUserGeneratingFor, Command

-----------------------------------------------------------------------------
(* The theorems.                                                           *)

(* Each step keeps what fits together, and does what it is meant to do.    *)
LEMMA StepsFit ==
    ASSUME DynamicModeFits, [Next]_vars
    PROVE  DynamicModeFits' /\ (vars' = vars \/ (FreshAdded /\ PreferencesKept))
  <1>1. CASE Next
    <2> SUFFICES StepFits
      BY DEF StepFits
    <2>1. CASE Timers
      BY <2>1, CheckNotificationsFits, UpcomingRefillTimerFits, UnfreezeFits,
         WaveRefillTimerFits, QueueRefillTimerFits DEF Timers
    <2>2. CASE Enable \/ Disable \/ RequestQueueExpansion
      BY <2>2, EnableFits, DisableFits, RequestQueueExpansionFits
    <2>3. CASE StartTheWave \/ TerminateTheWave \/ SetNoRepetitionSpan
      BY <2>3, StartTheWaveFits, TerminateTheWaveFits, SetNoRepetitionSpanFits
    <2>4. CASE \E user \in Users : SetUserGeneratingFor(user)
      BY <2>4, SetUserGeneratingForFits
    <2>5. CASE \E h \in Hashes : InsertTrack(h)
      BY <2>5, InsertTrackFits
    <2>6. CASE \E i \in 1..Len(queue) : RemoveTrack(i)
      BY <2>6, RemoveTrackFits
    <2>7. CASE PlayNext
      BY <2>7, PlayNextFits
    <2>8. CASE \E user \in Users : StatsArrive(user)
      BY <2>8, StatsArriveFits
    <2>9. CASE \E h \in Hashes, index \in 0..Cardinality(Hashes) :
                  HashBecameAvailable(h, index)
      BY <2>9, HashBecameAvailableFits
    <2> QED
      BY <1>1, <2>1, <2>2, <2>3, <2>4, <2>5, <2>6, <2>7, <2>8, <2>9 DEF Next, Commands
  <1>2. CASE vars' = vars
    <2>1. /\ g' = g /\ queue' = queue /\ current' = current /\ stats' = stats
          /\ UNCHANGED prefVars
      BY <1>2 DEF vars
    <2>2. SameUser(g, g')
      BY <2>1 DEF SameUser
    <2>3. PreferencesFit'
      BY <2>1, <2>2, SettingsKept DEF DynamicModeFits
    <2>4. DynamicModeFits'
      BY <2>1, <2>3 DEF DynamicModeFits
    <2> QED BY <1>2, <2>4
  <1> QED BY <1>1, <1>2

(* What the objects of dynamic mode know of each other is right between    *)
(* any two events: the source knows which tracks are with a generator, the *)
(* lists of the generators have no track in common, a wave that has        *)
(* generated enough has emptied its buffer, and the timers run.            *)
THEOREM DynamicModeStaysConsistent == Spec => []DynamicModeFits
  <1>1. Init => DynamicModeFits
    BY InitFits
  <1>2. DynamicModeFits /\ [Next]_vars => DynamicModeFits'
    BY StepsFit
  <1> QED BY <1>1, <1>2, PTL DEF Spec

(* Every variable of dynamic mode keeps its type.                          *)
THEOREM DynamicModeTypes == Spec => []TypeOK
  <1>1. DynamicModeFits => TypeOK
    <2> SUFFICES ASSUME DynamicModeFits
                 PROVE  TypeOK
      OBVIOUS
    <2>1. g \in Machine /\ SourceFits(g, Held(g))
      BY DEF DynamicModeFits, Fits, TracksFit
    <2>2. ToSet(g.unused) \subseteq Hashes
      BY <2>1 DEF SourceFits
    <2>3. g.status \in [Hashes -> {"Unknown", "Unused", "Taken", "Used"}]
      BY <2>1 DEF Machine, Places
    <2>4. {g.notified, g.fails, g.generated, g.delivered, g.waveTimers} \subseteq Nat
      BY <2>1 DEF Machine
    <2>5. g.user \in Users
      BY <2>1 DEF Machine
    <2> QED BY <2>2, <2>3, <2>4, <2>5 DEF TypeOK, DynamicModeFits, PreferencesFit
  <1> QED BY <1>1, DynamicModeStaysConsistent, PTL

(* RandomTracksSource and the two generators never lose a track or hand    *)
(* one out twice, in whatever order the timers of the generators, new      *)
(* tracks and the commands of users come.                                  *)
THEOREM TracksAreNeverLost == Spec => []EachTrackIsInOnePlace
  <1>1. DynamicModeFits => EachTrackIsInOnePlace
    <2> SUFFICES ASSUME DynamicModeFits
                 PROVE  EachTrackIsInOnePlace
      OBVIOUS
    <2> DEFINE upcoming == g.upcoming
               waveUpcoming == g.waveUpcoming
               buffer == g.buffer
    <2>1. g \in Machine /\ SourceFits(g, Held(g)) /\ ListsFit(g) /\ WaveFits(g)
      BY DEF DynamicModeFits, Fits, TracksFit
    <2>2. upcoming \in Seq(Hashes) /\ waveUpcoming \in Seq(Hashes) /\ buffer \in Seq(Hashes)
      BY <2>1 DEF Machine
    <2>3. /\ IsInjective(upcoming) /\ IsInjective(waveUpcoming) /\ IsInjective(buffer)
          /\ ToSet(upcoming) \cap ToSet(waveUpcoming) = {}
          /\ ToSet(upcoming) \cap ToSet(buffer) = {}
          /\ ToSet(waveUpcoming) \cap ToSet(buffer) = {}
      BY <2>1 DEF ListsFit
    <2>4. Held(g) = ToSet(upcoming) \cup ToSet(waveUpcoming) \cup ToSet(buffer)
      BY DEF Held
    <2>5. Candidates = (upcoming \o waveUpcoming) \o buffer
      BY DEF Candidates
    <2>6. ~ g.waveActive => waveUpcoming \o buffer = << >>
      BY <2>1 DEF WaveFits
    <2> HIDE DEF upcoming, waveUpcoming, buffer
    <2> DEFINE both == upcoming \o waveUpcoming
    <2>7. /\ both \in Seq(Hashes) /\ IsInjective(both)
          /\ ToSet(both) = ToSet(upcoming) \cup ToSet(waveUpcoming)
      BY <2>2, <2>3, JoinedLists
    <2>8. Candidates = both \o buffer
      BY <2>5
    <2> HIDE DEF both
    <2>9. /\ IsInjective(Candidates)
          /\ ToSet(Candidates) = ToSet(both) \cup ToSet(buffer)
      <3>1. ToSet(both) \cap ToSet(buffer) = {}
        BY <2>3, <2>7
      <3> QED BY <2>2, <2>3, <2>7, <2>8, <3>1, JoinedLists
    <2>10. ToSet(Candidates) = Held(g)
      BY <2>4, <2>7, <2>9
    <2>11. ~ g.waveActive => g.waveUpcoming \o g.buffer = << >>
      BY <2>6 DEF waveUpcoming, buffer
    <2> QED BY <2>1, <2>9, <2>10, <2>11 DEF EachTrackIsInOnePlace, SourceFits
  <1> QED BY <1>1, DynamicModeStaysConsistent, PTL

(* Nothing in dynamic mode waits for a timer that nobody has started: a    *)
(* queue that is too short, a list of upcoming tracks that is too short,   *)
(* and a wave that has to go on all have theirs.                           *)
THEOREM TimersAreRunning == Spec => []NobodyWaitsInVain
  <1>1. DynamicModeFits => NobodyWaitsInVain
    <2> SUFFICES ASSUME DynamicModeFits
                 PROVE  NobodyWaitsInVain
      OBVIOUS
    <2>1. DynamicTimer(g) /\ WaveTimer(g) /\ QueueTimer(g, queue)
      BY DEF DynamicModeFits, Fits, TimersFit
    <2> QED BY <2>1 DEF NobodyWaitsInVain, DynamicTimer, WaveTimer, QueueTimer
  <1> QED BY <1>1, DynamicModeStaysConsistent, PTL

(* The filters are applied again when tracks are delivered: what changed   *)
(* since a generator chose them, the queue, the track that is playing, the *)
(* user or the span, cannot make it add a track that does not fit.         *)
THEOREM AddedTracksAreFresh == Spec => OnlyFreshTracksAreAdded
  <1>1. DynamicModeFits /\ [Next]_vars => [FreshAdded]_vars
    BY StepsFit
  <1>2. Spec => [][FreshAdded]_vars
    BY <1>1, DynamicModeStaysConsistent, PTL DEF Spec
  <1> QED BY <1>2 DEF OnlyFreshTracksAreAdded, FreshAdded

(* Unless saving or reading them has failed since, the preferences that a  *)
(* user had last are those in the database, and are used again when the    *)
(* generator plays for that user; and nobody else changes them.            *)
THEOREM PreferencesComeBack == Spec => PreferencesAreRestored
  <1>1. DynamicModeFits /\ [Next]_vars => [PreferencesKept]_vars
    BY StepsFit
  <1>2. Spec => [][PreferencesKept]_vars
    BY <1>1, DynamicModeStaysConsistent, PTL DEF Spec
  <1> QED BY <1>2 DEF PreferencesAreRestored, PreferencesKept
=============================================================================
