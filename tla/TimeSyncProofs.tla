--------------------------- MODULE TimeSyncProofs ---------------------------
(***************************************************************************)
(* Proofs about TimeSync.tla for any capacities, epochs and kinds of       *)
(* measurements: its type invariant, the order of the histories, that no   *)
(* measurement since the oldest checkpoint is forgotten, and that it       *)
(* implements InOrderFilter.tla: a late measurement that was accepted      *)
(* leaves the filter as if it had come in order.                           *)
(*                                                                         *)
(* The argument: every operation on a ring leaves a window of it, to which *)
(* at most one entry is appended (the first section); a window of an       *)
(* ordered history is ordered (the second).  The order of hist alone is    *)
(* not inductive: a restored state brings a saved history back, and a late *)
(* update builds a history of its own, step by step, which then replaces   *)
(* hist.  IInv says what holds of those two.  That nothing is forgotten    *)
(* needs more than order: a snapshot counts the measurements applied since *)
(* the one before it, and each measurement newer than the oldest checkpoint*)
(* has a checkpoint of its own behind it (KeptInv).                        *)
(*                                                                         *)
(* The refinement rests on InOrderInv: every checkpoint a search can find  *)
(* is a past of the filter (Chain), the retained measurements of an epoch  *)
(* are those the filter was corrected by there (Blocks), it was propagated *)
(* piece by piece from one measurement to the next (Tiled), and the pieces *)
(* are those of the retained samples (Sampled).  So a late measurement     *)
(* finds all it needs to replay, and the working copy is at each step a    *)
(* past of the filter with that measurement in its place (Underway).  It   *)
(* needs KeptInv: only because nothing since the oldest checkpoint is      *)
(* forgotten is the replay complete.  A filter restored from a snapshot    *)
(* that is no past of it (foreign) promises nothing.                       *)
(***************************************************************************)
EXTENDS TimeSync, TLAPS, FiniteSetTheorems, SequenceTheorems

-----------------------------------------------------------------------------
(* Windows of sequences *)

(* r is a part of q without gaps.                                           *)
Window(r, q) ==
    \E k \in Nat : /\ Len(r) + k <= Len(q)
                   /\ \A i \in 1 .. Len(r) : r[i] = q[i + k]

Sorted(q) == \A i, j \in 1 .. Len(q) : i < j => q[i].t <= q[j].t

(* A sequence found at some offset of another is a window of it.            *)
LEMMA WindowAt ==
    ASSUME NEW r, NEW q, NEW k \in Nat, Len(r) + k <= Len(q),
           \A i \in 1 .. Len(r) : r[i] = q[i + k]
    PROVE  Window(r, q)
  BY Zenon DEF Window

(* A set of indices has at most as many members as there are indices.       *)
LEMMA CountBound ==
    ASSUME NEW n \in Nat, NEW S \in SUBSET (1 .. n)
    PROVE  /\ IsFiniteSet(S)
           /\ Cardinality(S) \in 0 .. n
  <1>1. IsFiniteSet(1 .. n) /\ Cardinality(1 .. n) = n
    BY FS_Interval
  <1>2. IsFiniteSet(S) /\ Cardinality(S) <= n
    BY Zenon, <1>1, FS_Subset
  <1> QED BY <1>2, FS_CardinalityType

(* A set of indices that is closed downwards is the first so many.          *)
LEMMA CountPrefix ==
    ASSUME NEW n \in Nat, NEW S \in SUBSET (1 .. n),
           \A i \in S, j \in 1 .. n : j < i => j \in S
    PROVE  S = 1 .. Cardinality(S)
  <1>1. IsFiniteSet(S) /\ Cardinality(S) \in 0 .. n
    BY CountBound
  <1>2. ASSUME NEW i \in S PROVE i <= Cardinality(S)
    <2>1. i \in 1 .. n /\ (1 .. i) \in SUBSET S
      OBVIOUS
    <2>2. Cardinality(1 .. i) = i
      BY <2>1, FS_Interval
    <2> QED BY <1>1, <2>1, <2>2, FS_Subset
  <1>3. ASSUME NEW i \in 1 .. Cardinality(S), i \notin S PROVE FALSE
    <2>1. S \in SUBSET (1 .. (i - 1))
      BY <1>1, <1>3
    <2>2. IsFiniteSet(1 .. (i - 1)) /\ Cardinality(1 .. (i - 1)) = i - 1
      <3>1. i \in Int /\ i >= 1
        BY <1>1, <1>3
      <3>2. i - 1 \in Int /\ (1 > i - 1 => i - 1 = 0)
        BY <3>1
      <3> QED BY <3>1, <3>2, FS_Interval
    <2>3. Cardinality(S) <= i - 1
      BY ZenonT(30), <2>1, <2>2, FS_Subset
    <2> QED BY <1>1, <1>3, <2>3
  <1>4. \A i : i \in S => i \in 1 .. Cardinality(S)
    BY <1>1, <1>2
  <1>5. \A i : i \in 1 .. Cardinality(S) => i \in S
    BY <1>3
  <1> QED BY <1>4, <1>5, Zenon

(* UpTo and After leave windows, whatever the order.                        *)
LEMMA SplitWindows ==
    ASSUME NEW R, NEW q \in Seq(R), NEW t
    PROVE  /\ UpTo(q, t) \in Seq(R) /\ Window(UpTo(q, t), q) /\ Len(UpTo(q, t)) <= Len(q)
           /\ After(q, t) \in Seq(R) /\ Window(After(q, t), q)
  <1> DEFINE S == {i \in 1 .. Len(q) : q[i].t <= t}
             n == Cardinality(S)
  <1>1. n \in 0 .. Len(q)
    <2>1. Len(q) \in Nat /\ S \in SUBSET (1 .. Len(q))
      OBVIOUS
    <2> HIDE DEF S
    <2> QED BY <2>1, CountBound
  <1>2. UpTo(q, t) = SubSeq(q, 1, n) /\ After(q, t) = SubSeq(q, n + 1, Len(q))
    BY DEF UpTo, After
  <1> HIDE DEF n
  <1>3. /\ SubSeq(q, 1, n) \in Seq(R) /\ Len(SubSeq(q, 1, n)) = n
        /\ \A i \in 1 .. n : SubSeq(q, 1, n)[i] = q[i + 0]
    BY <1>1
  <1>4. /\ SubSeq(q, n + 1, Len(q)) \in Seq(R) /\ Len(SubSeq(q, n + 1, Len(q))) = Len(q) - n
        /\ \A i \in 1 .. (Len(q) - n) : SubSeq(q, n + 1, Len(q))[i] = q[i + n]
    BY <1>1
  <1>5. Window(SubSeq(q, 1, n), q)
    <2>1. /\ 0 \in Nat /\ Len(SubSeq(q, 1, n)) + 0 <= Len(q)
          /\ \A i \in 1 .. Len(SubSeq(q, 1, n)) : SubSeq(q, 1, n)[i] = q[i + 0]
      BY <1>1, <1>3
    <2> QED BY <2>1, WindowAt, Zenon
  <1>6. Window(SubSeq(q, n + 1, Len(q)), q)
    <2>1. /\ n \in Nat /\ Len(SubSeq(q, n + 1, Len(q))) + n <= Len(q)
          /\ \A i \in 1 .. Len(SubSeq(q, n + 1, Len(q))) :
                SubSeq(q, n + 1, Len(q))[i] = q[i + n]
      BY <1>1, <1>4
    <2> QED BY <2>1, WindowAt, Zenon
  <1> QED BY <1>1, <1>2, <1>3, <1>4, <1>5, <1>6

(* In an ordered history they part the entries at t.                        *)
LEMMA SplitOrdered ==
    ASSUME NEW R, NEW q \in Seq(R), NEW t \in Nat, Sorted(q),
           \A i \in 1 .. Len(q) : q[i].t \in Nat
    PROVE  /\ \A i \in 1 .. Len(UpTo(q, t)) : UpTo(q, t)[i].t <= t
           /\ \A i \in 1 .. Len(After(q, t)) : After(q, t)[i].t > t
           /\ (\E i \in 1 .. Len(q) : q[i].t <= t) => Len(UpTo(q, t)) >= 1
  <1> DEFINE S == {i \in 1 .. Len(q) : q[i].t <= t}
             n == Cardinality(S)
  <1>1. n \in 0 .. Len(q)
    <2>1. Len(q) \in Nat /\ S \in SUBSET (1 .. Len(q))
      OBVIOUS
    <2> HIDE DEF S
    <2> QED BY <2>1, CountBound
  <1>2. \A i \in S, j \in 1 .. Len(q) : j < i => j \in S
    BY DEF Sorted
  <1>3. S = 1 .. n
    <2>1. Len(q) \in Nat /\ S \in SUBSET (1 .. Len(q))
      OBVIOUS
    <2> HIDE DEF S
    <2> QED BY Zenon, <1>2, <2>1, CountPrefix
  <1>4. UpTo(q, t) = SubSeq(q, 1, n) /\ After(q, t) = SubSeq(q, n + 1, Len(q))
    BY DEF UpTo, After
  <1>5. \A i \in 1 .. Len(q) : q[i].t <= t <=> i \in 1 .. n
    BY <1>3
  <1> HIDE DEF n
  <1>6. /\ Len(SubSeq(q, 1, n)) = n
        /\ \A i \in 1 .. n : SubSeq(q, 1, n)[i] = q[i]
    BY <1>1
  <1>7. /\ Len(SubSeq(q, n + 1, Len(q))) = Len(q) - n
        /\ \A i \in 1 .. (Len(q) - n) : SubSeq(q, n + 1, Len(q))[i] = q[i + n]
    BY <1>1
  <1>8. \A i \in 1 .. Len(UpTo(q, t)) : UpTo(q, t)[i].t <= t
    BY <1>1, <1>4, <1>5, <1>6
  <1>9. \A i \in 1 .. Len(After(q, t)) : After(q, t)[i].t > t
    BY <1>1, <1>4, <1>5, <1>7
  <1>10. (\E i \in 1 .. Len(q) : q[i].t <= t) => Len(UpTo(q, t)) >= 1
    BY <1>1, <1>4, <1>5, <1>6
  <1> QED BY <1>8, <1>9, <1>10

(* bounded_push makes room in the ring and appends.                         *)
LEMMA PushWindow ==
    ASSUME NEW R, NEW q \in Seq(R), NEW cap \in Nat \ {0}, Len(q) <= cap, NEW x \in R
    PROVE  \E r \in Seq(R) : /\ Window(r, q) /\ Len(r) < cap
                             /\ BoundedPush(q, cap, x) = Append(r, x)
  <1>1. CASE Len(q) = cap
    <2>1. q # <<>>
      BY <1>1
    <2>2. /\ Tail(q) \in Seq(R) /\ Len(Tail(q)) = Len(q) - 1
          /\ \A i \in 1 .. Len(Tail(q)) : Tail(q)[i] = q[i + 1]
      BY <2>1, HeadTailProperties
    <2>3. Window(Tail(q), q)
      <3>1. 1 \in Nat /\ Len(Tail(q)) + 1 <= Len(q)
        BY <2>2
      <3> QED BY <2>2, <3>1, WindowAt, Zenon
    <2>4. BoundedPush(q, cap, x) = Append(Tail(q), x) /\ Len(Tail(q)) < cap
      BY <1>1, <2>2 DEF BoundedPush
    <2> QED BY <2>2, <2>3, <2>4, Zenon
  <1>2. CASE Len(q) # cap
    <2>1. Window(q, q)
      <3>1. 0 \in Nat /\ Len(q) + 0 <= Len(q) /\ \A i \in 1 .. Len(q) : q[i] = q[i + 0]
        OBVIOUS
      <3> QED BY <3>1 DEF Window
    <2> QED BY <1>2, <2>1 DEF BoundedPush
  <1> QED BY <1>1, <1>2

(* truncate_front leaves a window that fits, and never an empty one.        *)
LEMMA TruncateWindow ==
    ASSUME NEW R, NEW q \in Seq(R), NEW cap \in Nat \ {0}
    PROVE  /\ TruncateFront(q, cap) \in Seq(R) /\ Window(TruncateFront(q, cap), q)
           /\ Len(TruncateFront(q, cap)) <= cap
           /\ Len(q) >= 1 => Len(TruncateFront(q, cap)) >= 1
  <1>1. CASE Len(q) > cap
    <2> DEFINE r == SubSeq(q, Len(q) - cap + 1, Len(q))
    <2>1. /\ r \in Seq(R) /\ Len(r) = cap
          /\ \A i \in 1 .. cap : r[i] = q[i + (Len(q) - cap)]
      BY <1>1
    <2>2. TruncateFront(q, cap) = r
      BY <1>1 DEF TruncateFront
    <2>3. Window(r, q)
      <3>1. /\ Len(q) - cap \in Nat /\ Len(r) + (Len(q) - cap) <= Len(q)
            /\ \A i \in 1 .. Len(r) : r[i] = q[i + (Len(q) - cap)]
        BY <1>1, <2>1
      <3> HIDE DEF r
      <3> QED BY <3>1, WindowAt, Zenon
    <2> QED BY <2>1, <2>2, <2>3
  <1>2. CASE ~ (Len(q) > cap)
    <2>1. 0 \in Nat /\ Len(q) + 0 <= Len(q) /\ \A i \in 1 .. Len(q) : q[i] = q[i + 0]
      OBVIOUS
    <2> QED BY <1>2, <2>1 DEF TruncateFront, Window
  <1> QED BY <1>1, <1>2

-----------------------------------------------------------------------------
(* Ordered histories *)

Samples == [from : Epochs, t : Epochs, kind : SampleKinds, prior : BOOLEAN]
Checkpoints == [t : Epochs, snapshot : Filters]
Measurements == [t : Epochs, kind : GnssKinds]

(* The three parts of InEpochOrder                                          *)
Timed(q, now) == Sorted(q) /\ \A i \in 1 .. Len(q) : q[i].t <= now
Matched(q) == \A i \in 1 .. Len(q) : q[i].t = q[i].snapshot.t
Disjoint(q, now) ==
    /\ \A i, j \in 1 .. Len(q) : i < j => q[i].t <= q[j].from
    /\ \A i \in 1 .. Len(q) : q[i].from < q[i].t /\ q[i].t <= now

(* Epochs are numbers, so that they can be compared.                        *)
LEMMA EpochsAreNat == Epochs \subseteq Nat
  BY ConfigAssumption DEF Epochs

(* InEpochOrder, history by history.                                        *)
LEMMA OrderParts ==
    ASSUME NEW h, NEW now
    PROVE  InEpochOrder(h, now) <=> /\ Disjoint(h.imu, now)
                                    /\ Timed(h.cps, now) /\ Matched(h.cps)
                                    /\ Timed(h.meas, now)
  BY Zenon DEF InEpochOrder, Disjoint, Timed, Matched, Sorted

(* Windows *)
LEMMA TimedWindow ==
    ASSUME NEW R, \A x \in R : x.t \in Nat, NEW q \in Seq(R), NEW r \in Seq(R), Window(r, q),
           NEW now, Timed(q, now)
    PROVE  Timed(r, now)
  <1> PICK k \in Nat : Len(r) + k <= Len(q) /\ \A i \in 1 .. Len(r) : r[i] = q[i + k]
    BY Zenon DEF Window
  <1>1. \A i \in 1 .. Len(r) : i + k \in 1 .. Len(q)
    OBVIOUS
  <1>2. \A i, j \in 1 .. Len(r) : i < j => i + k < j + k
    OBVIOUS
  <1>3. Sorted(r)
    BY <1>1, <1>2 DEF Timed, Sorted
  <1> QED BY <1>1, <1>3 DEF Timed

(* A window of checkpoints that carry their snapshot's epoch still does.    *)
LEMMA MatchedWindow ==
    ASSUME NEW R, NEW q \in Seq(R), NEW r \in Seq(R), Window(r, q), Matched(q)
    PROVE  Matched(r)
  <1> PICK k \in Nat : Len(r) + k <= Len(q) /\ \A i \in 1 .. Len(r) : r[i] = q[i + k]
    BY Zenon DEF Window
  <1>1. \A i \in 1 .. Len(r) : i + k \in 1 .. Len(q)
    OBVIOUS
  <1> QED BY <1>1 DEF Matched

(* A window of samples that do not overlap does not either.                 *)
LEMMA DisjointWindow ==
    ASSUME NEW q \in Seq(Samples), NEW r \in Seq(Samples), Window(r, q), NEW now, Disjoint(q, now)
    PROVE  Disjoint(r, now)
  <1> PICK k \in Nat : Len(r) + k <= Len(q) /\ \A i \in 1 .. Len(r) : r[i] = q[i + k]
    BY Zenon DEF Window
  <1>1. \A i \in 1 .. Len(r) : i + k \in 1 .. Len(q)
    OBVIOUS
  <1>2. \A i, j \in 1 .. Len(r) : i < j => i + k < j + k
    OBVIOUS
  <1>3. \A i, j \in 1 .. Len(r) : i < j => r[i].t <= r[j].from
    BY Zenon, <1>1, <1>2 DEF Disjoint
  <1>4. \A i \in 1 .. Len(r) : r[i].from < r[i].t /\ r[i].t <= now
    BY <1>1 DEF Disjoint
  <1> QED BY <1>3, <1>4 DEF Disjoint

(* Samples that do not overlap are in order of their ends.                  *)
LEMMA DisjointSorted ==
    ASSUME NEW q \in Seq(Samples), NEW now, Disjoint(q, now)
    PROVE  Timed(q, now)
  <1>1. \A i \in 1 .. Len(q) : q[i].t \in Nat /\ q[i].from \in Nat
    <2>1. \A x \in Samples : x.t \in Nat /\ x.from \in Nat
      BY Zenon, EpochsAreNat DEF Samples
    <2> QED BY <2>1
  <1>2. ASSUME NEW i \in 1 .. Len(q), NEW j \in 1 .. Len(q), i < j
        PROVE  q[i].t <= q[j].t
    <2>1. q[i].t <= q[j].from /\ q[j].from < q[j].t
      BY <1>2 DEF Disjoint
    <2> QED BY <1>1, <2>1
  <1> QED BY <1>2 DEF Disjoint, Timed, Sorted

(* Cutting a history at an epoch *)
LEMMA TimedUpTo ==
    ASSUME NEW R, \A x \in R : x.t \in Nat, NEW q \in Seq(R), NEW now, Timed(q, now),
           NEW t \in Nat
    PROVE  Timed(UpTo(q, t), t)
  <1>1. UpTo(q, t) \in Seq(R) /\ Window(UpTo(q, t), q)
    BY SplitWindows
  <1>2. Timed(UpTo(q, t), now)
    BY <1>1, TimedWindow
  <1>3. Sorted(q) /\ \A i \in 1 .. Len(q) : q[i].t \in Nat
    BY DEF Timed
  <1> QED BY <1>2, <1>3, SplitOrdered DEF Timed

(* Samples cut at an epoch do not overlap and end by that epoch.            *)
LEMMA DisjointUpTo ==
    ASSUME NEW q \in Seq(Samples), NEW now, Disjoint(q, now), NEW t \in Nat
    PROVE  Disjoint(UpTo(q, t), t)
  <1>1. UpTo(q, t) \in Seq(Samples) /\ Window(UpTo(q, t), q)
    BY SplitWindows
  <1>2. Disjoint(UpTo(q, t), now)
    BY <1>1, DisjointWindow
  <1>3. \A x \in Samples : x.t \in Nat
    BY Zenon, EpochsAreNat DEF Samples
  <1>4. Timed(UpTo(q, t), t)
    BY <1>3, DisjointSorted, TimedUpTo
  <1> QED BY <1>2, <1>4 DEF Disjoint, Timed

(* Appending to a history *)
LEMMA TimedPush ==
    ASSUME NEW R, \A x \in R : x.t \in Nat, NEW q \in Seq(R), NEW cap \in Nat \ {0},
           Len(q) <= cap, NEW x \in R, Timed(q, x.t)
    PROVE  /\ BoundedPush(q, cap, x) \in Seq(R) /\ Len(BoundedPush(q, cap, x)) \in 1 .. cap
           /\ Timed(BoundedPush(q, cap, x), x.t)
  <1> PICK r \in Seq(R) : /\ Window(r, q) /\ Len(r) < cap
                          /\ BoundedPush(q, cap, x) = Append(r, x)
    BY PushWindow
  <1>1. Timed(r, x.t)
    BY TimedWindow
  <1>2. Timed(Append(r, x), x.t)
    BY <1>1 DEF Timed, Sorted
  <1> QED BY <1>2

(* bounded_push of a checkpoint that carries its snapshot's epoch.          *)
LEMMA MatchedPush ==
    ASSUME NEW R, NEW q \in Seq(R), NEW cap \in Nat \ {0}, Len(q) <= cap,
           NEW x \in R, Matched(q), x.t = x.snapshot.t
    PROVE  Matched(BoundedPush(q, cap, x))
  <1> PICK r \in Seq(R) : /\ Window(r, q) /\ Len(r) < cap
                          /\ BoundedPush(q, cap, x) = Append(r, x)
    BY PushWindow
  <1>1. Matched(r)
    BY MatchedWindow
  <1> QED BY <1>1 DEF Matched

(* bounded_push of a sample that begins where the filter is.                *)
LEMMA DisjointPush ==
    ASSUME NEW q \in Seq(Samples), NEW cap \in Nat \ {0}, Len(q) <= cap, NEW x \in Samples,
           Disjoint(q, x.from), x.from < x.t
    PROVE  /\ BoundedPush(q, cap, x) \in Seq(Samples) /\ Len(BoundedPush(q, cap, x)) \in 1 .. cap
           /\ Disjoint(BoundedPush(q, cap, x), x.t)
  <1> PICK r \in Seq(Samples) : /\ Window(r, q) /\ Len(r) < cap
                                /\ BoundedPush(q, cap, x) = Append(r, x)
    BY PushWindow
  <1>1. Disjoint(r, x.from)
    BY DisjointWindow
  <1>2. Disjoint(Append(r, x), x.t)
    <2>1. x.from \in Nat /\ x.t \in Nat
      BY Zenon, EpochsAreNat DEF Samples
    <2>2. \A i \in 1 .. Len(r) : r[i].t \in Nat
      <3>1. \A y \in Samples : y.t \in Nat
        BY Zenon, EpochsAreNat DEF Samples
      <3> QED BY <3>1
    <2>3. /\ Len(Append(r, x)) = Len(r) + 1 /\ Append(r, x)[Len(r) + 1] = x
          /\ \A i \in 1 .. Len(r) : Append(r, x)[i] = r[i]
      OBVIOUS
    <2>4. \A i, j \in 1 .. Len(Append(r, x)) : i < j => Append(r, x)[i].t <= Append(r, x)[j].from
      BY SMTT(20), <1>1, <2>3 DEF Disjoint
    <2>5. \A i \in 1 .. Len(Append(r, x)) :
            Append(r, x)[i].from < Append(r, x)[i].t /\ Append(r, x)[i].t <= x.t
      BY <1>1, <2>1, <2>2, <2>3 DEF Disjoint
    <2> QED BY <2>4, <2>5 DEF Disjoint
  <1> QED BY <1>2

-----------------------------------------------------------------------------
(* Filters *)

Pieces == [a : Epochs, b : Epochs, of : [from : Epochs, to : Epochs, kind : SampleKinds]]

(* A measurement update leaves the filter at its epoch.                     *)
LEMMA CorrectFilter ==
    ASSUME NEW f \in Filters, NEW k \in GnssKinds
    PROVE  Correct(f, k) \in Filters /\ Correct(f, k).t = f.t
  <1> DEFINE at == [f.at EXCEPT ![f.t] = Append(f.at[f.t], k)]
  <1>1. f.at \in [Epochs -> Seq(GnssKinds)] /\ f.t \in Epochs
    BY DEF Filters
  <1>2. Append(f.at[f.t], k) \in Seq(GnssKinds)
    BY <1>1
  <1>3. at \in [Epochs -> Seq(GnssKinds)]
    BY <1>1, <1>2
  <1>4. Correct(f, k) = [f EXCEPT !.at = at]
    BY DEF Correct, Filters
  <1> HIDE DEF at
  <1> QED BY Zenon, <1>3, <1>4 DEF Filters

(* replay_imu_to_epoch arrives at the epoch it was asked for.               *)
LEMMA ReplayFilter ==
    ASSUME NEW f \in Filters, NEW target \in Epochs, NEW imu \in Seq(Samples)
    PROVE  ReplayImu(f, target, imu) \in Filters /\ ReplayImu(f, target, imu).t = target
  <1>1. Stops(f, target, imu) \subseteq Epochs
    <2>1. f.t \in Epochs
      BY DEF Filters
    <2>2. \A i \in 1 .. Len(imu) : imu[i].t \in Epochs
      <3>1. \A x \in Samples : x.t \in Epochs
        BY DEF Samples
      <3> QED BY <3>1
    <2> QED BY <2>1, <2>2 DEF Stops
  <1>2. ASSUME NEW s \in Samples, NEW a \in Epochs PROVE Segment(s, a, target) \in Pieces
    BY DEF Segment, Samples, Pieces
  <1>3. \A x \in Segments(f, target, imu) : x[2] \in Pieces
    <2> SUFFICES ASSUME NEW y \in (1 .. Len(imu)) \X Stops(f, target, imu)
                 PROVE  Segment(imu[y[1]], y[2], target) \in Pieces
      BY DEF Segments
    <2>1. imu[y[1]] \in Samples /\ y[2] \in Epochs
      BY <1>1
    <2> QED BY <1>2, <2>1
  <1>4. {x[2] : x \in Segments(f, target, imu)} \subseteq Pieces
    BY <1>3
  <1>5. f.segs \subseteq Pieces
    BY DEF Filters, Pieces
  <1> QED BY Zenon, <1>4, <1>5 DEF ReplayImu, Filters, Pieces

(* with_config: a new filter is at the initial epoch.                       *)
LEMMA NewFilterType == NewFilter \in Filters /\ NewFilter.t = 0
  <1>1. 0 \in Epochs
    BY ConfigAssumption DEF Epochs
  <1> QED BY <1>1 DEF NewFilter, Filters

-----------------------------------------------------------------------------
(* Operations on the histories *)

LEMMA HistoryFields ==
    ASSUME NEW h \in Histories
    PROVE  /\ h.config \in Configs /\ h.config.imu \in Nat \ {0} /\ h.config.cp \in Nat \ {0}
           /\ h.imu \in Seq(Samples) /\ Len(h.imu) <= h.config.imu
           /\ h.cps \in Seq(Checkpoints) /\ Len(h.cps) \in 1 .. h.config.cp
           /\ h.meas \in Seq(Measurements) /\ Len(h.meas) <= h.config.cp
           /\ h = [config |-> h.config, imu |-> h.imu, cps |-> h.cps, meas |-> h.meas]
  BY ConfigAssumption DEF Histories, Samples, Checkpoints, Measurements

(* A history is made of a configuration and three sequences within it.      *)
LEMMA HistoryMade ==
    ASSUME NEW c \in Configs,
           NEW imu \in Seq(Samples), Len(imu) <= c.imu,
           NEW cps \in Seq(Checkpoints), Len(cps) \in 1 .. c.cp,
           NEW meas \in Seq(Measurements), Len(meas) <= c.cp
    PROVE  [config |-> c, imu |-> imu, cps |-> cps, meas |-> meas] \in Histories
  BY DEF Histories, Samples, Checkpoints, Measurements

(* Whatever is stored has a number for its epoch.                           *)
LEMMA Timestamps ==
    /\ \A x \in Samples : x.t \in Nat /\ x.from \in Nat
    /\ \A x \in Checkpoints : x.t \in Nat
    /\ \A x \in Measurements : x.t \in Nat
    /\ \A f \in Filters : f.t \in Nat
  BY Zenon, EpochsAreNat DEF Samples, Checkpoints, Measurements, Filters

(* push_checkpoint after any trimming of the checkpoints                    *)
LEMMA CheckpointPushed ==
    ASSUME NEW c \in Configs, NEW imu \in Seq(Samples), Len(imu) <= c.imu,
           NEW cps \in Seq(Checkpoints), Len(cps) <= c.cp,
           NEW meas \in Seq(Measurements), Len(meas) <= c.cp,
           NEW f \in Filters, Timed(cps, f.t), Matched(cps),
           NEW h, h = [config |-> c, imu |-> imu, cps |-> cps, meas |-> meas]
    PROVE  /\ PushCheckpoint(h, f) \in Histories
           /\ PushCheckpoint(h, f).imu = imu /\ PushCheckpoint(h, f).meas = meas
           /\ Timed(PushCheckpoint(h, f).cps, f.t) /\ Matched(PushCheckpoint(h, f).cps)
  <1> DEFINE x == [t |-> f.t, snapshot |-> f]
             new == BoundedPush(cps, c.cp, x)
  <1>1. x \in Checkpoints /\ x.t = f.t /\ x.t = x.snapshot.t
    BY DEF Filters, Checkpoints
  <1>2. c.cp \in Nat \ {0}
    BY ConfigAssumption
  <1>3. PushCheckpoint(h, f) = [config |-> c, imu |-> imu, cps |-> new, meas |-> meas]
    BY DEF PushCheckpoint
  <1> HIDE DEF x
  <1>4. new \in Seq(Checkpoints) /\ Len(new) \in 1 .. c.cp /\ Timed(new, f.t)
    BY <1>1, <1>2, Timestamps, TimedPush
  <1>5. Matched(new)
    BY <1>1, <1>2, MatchedPush
  <1> HIDE DEF new
  <1>6. [config |-> c, imu |-> imu, cps |-> new, meas |-> meas] \in Histories
    BY <1>4, HistoryMade
  <1> QED BY <1>3, <1>4, <1>5, <1>6

(* push_stored_measurement and the checkpoint that follows it               *)
LEMMA MeasurementPushed ==
    ASSUME NEW h \in Histories, NEW m \in Measurements, NEW f \in Filters, m.t = f.t,
           Timed(h.cps, f.t), Matched(h.cps), Timed(h.meas, f.t)
    PROVE  /\ PushMeasurement(h, m, f) \in Histories
           /\ PushMeasurement(h, m, f).imu = h.imu
           /\ Timed(PushMeasurement(h, m, f).meas, f.t)
           /\ Timed(PushMeasurement(h, m, f).cps, f.t) /\ Matched(PushMeasurement(h, m, f).cps)
  <1> DEFINE meas == BoundedPush(h.meas, h.config.cp, m)
             g == [config |-> h.config, imu |-> h.imu, cps |-> h.cps, meas |-> meas]
  <1>1. meas \in Seq(Measurements) /\ Len(meas) \in 1 .. h.config.cp /\ Timed(meas, f.t)
    BY HistoryFields, Timestamps, TimedPush
  <1>2. PushMeasurement(h, m, f) = PushCheckpoint(g, f)
    <2>1. h = [config |-> h.config, imu |-> h.imu, cps |-> h.cps, meas |-> h.meas]
      BY HistoryFields
    <2>2. [h EXCEPT !.meas = meas] = g
      BY <2>1
    <2> QED BY <2>2 DEF PushMeasurement
  <1> HIDE DEF meas
  <1>3. h.config.cp \in Nat \ {0} /\ Len(h.cps) <= h.config.cp /\ Len(meas) <= h.config.cp
    BY <1>1, HistoryFields
  <1>4. /\ PushCheckpoint(g, f) \in Histories
        /\ PushCheckpoint(g, f).imu = h.imu /\ PushCheckpoint(g, f).meas = meas
        /\ Timed(PushCheckpoint(g, f).cps, f.t) /\ Matched(PushCheckpoint(g, f).cps)
    BY <1>1, <1>3, HistoryFields, CheckpointPushed
  <1> QED BY <1>1, <1>2, <1>4

(* What both rebase_through_checkpoint and restore_to_snapshot leave        *)
LEMMA CutHistory ==
    ASSUME NEW h \in Histories, NEW now, InEpochOrder(h, now), NEW t \in Nat
    PROVE  /\ UpTo(h.imu, t) \in Seq(Samples) /\ Len(UpTo(h.imu, t)) <= h.config.imu
           /\ Disjoint(UpTo(h.imu, t), t)
           /\ UpTo(h.cps, t) \in Seq(Checkpoints) /\ Len(UpTo(h.cps, t)) <= h.config.cp
           /\ Timed(UpTo(h.cps, t), t) /\ Matched(UpTo(h.cps, t))
           /\ UpTo(h.meas, t) \in Seq(Measurements) /\ Len(UpTo(h.meas, t)) <= h.config.cp
           /\ Timed(UpTo(h.meas, t), t)
  <1>1. Disjoint(h.imu, now) /\ Timed(h.cps, now) /\ Matched(h.cps) /\ Timed(h.meas, now)
    BY OrderParts
  <1>2. h.imu \in Seq(Samples) /\ h.cps \in Seq(Checkpoints) /\ h.meas \in Seq(Measurements)
    BY HistoryFields
  <1>3. /\ UpTo(h.imu, t) \in Seq(Samples) /\ Len(UpTo(h.imu, t)) <= Len(h.imu)
        /\ UpTo(h.cps, t) \in Seq(Checkpoints) /\ Len(UpTo(h.cps, t)) <= Len(h.cps)
        /\ Window(UpTo(h.cps, t), h.cps)
        /\ UpTo(h.meas, t) \in Seq(Measurements) /\ Len(UpTo(h.meas, t)) <= Len(h.meas)
    BY <1>2, SplitWindows
  <1>4. Disjoint(UpTo(h.imu, t), t)
    BY <1>1, <1>2, DisjointUpTo
  <1>5. Timed(UpTo(h.cps, t), t)
    BY <1>1, <1>2, Timestamps, TimedUpTo
  <1>6. Timed(UpTo(h.meas, t), t)
    BY <1>1, <1>2, Timestamps, TimedUpTo
  <1>7. Matched(UpTo(h.cps, t))
    BY <1>1, <1>2, <1>3, MatchedWindow
  <1>8. /\ Len(UpTo(h.imu, t)) \in Nat /\ Len(h.imu) \in Nat
        /\ Len(UpTo(h.cps, t)) \in Nat /\ Len(h.cps) \in Nat
        /\ Len(UpTo(h.meas, t)) \in Nat /\ Len(h.meas) \in Nat
    BY <1>2, <1>3
  <1> QED BY <1>3, <1>4, <1>5, <1>6, <1>7, <1>8, HistoryFields

(* restore_to_snapshot gives a history in order up to the snapshot's epoch. *)
LEMMA Restored ==
    ASSUME NEW h \in Histories, NEW now, InEpochOrder(h, now), NEW s \in Filters
    PROVE  /\ RestoreToSnapshot(h, s) \in Histories
           /\ InEpochOrder(RestoreToSnapshot(h, s), s.t)
  <1> DEFINE cut == [config |-> h.config, imu |-> UpTo(h.imu, s.t), cps |-> UpTo(h.cps, s.t),
                     meas |-> UpTo(h.meas, s.t)]
             same == [cut EXCEPT !.cps[Len(cut.cps)].snapshot = s]
  <1>1. s.t \in Nat
    BY Timestamps
  <1>2. /\ cut.imu \in Seq(Samples) /\ Len(cut.imu) <= h.config.imu /\ Disjoint(cut.imu, s.t)
        /\ cut.cps \in Seq(Checkpoints) /\ Len(cut.cps) <= h.config.cp
        /\ Timed(cut.cps, s.t) /\ Matched(cut.cps)
        /\ cut.meas \in Seq(Measurements) /\ Len(cut.meas) <= h.config.cp
        /\ Timed(cut.meas, s.t)
    BY Zenon, <1>1, CutHistory
  <1>4. RestoreToSnapshot(h, s) = IF cut.cps # <<>> /\ Back(cut.cps).t = s.t THEN same
                                  ELSE PushCheckpoint(cut, s)
    BY DEF RestoreToSnapshot
  <1>5. CASE cut.cps # <<>> /\ Back(cut.cps).t = s.t
    <2> DEFINE n == Len(cut.cps)
               last == [cut.cps[n] EXCEPT !.snapshot = s]
               cps == [cut.cps EXCEPT ![n] = last]
    <2>1. n \in 1 .. h.config.cp /\ cut.cps[n] \in Checkpoints /\ cut.cps[n].t = s.t
      BY <1>2, <1>5, HistoryFields DEF Back
    <2>2. last \in Checkpoints /\ last.t = s.t /\ last.snapshot = s
      BY <2>1 DEF Checkpoints
    <2>3. /\ cps \in Seq(Checkpoints) /\ Len(cps) = n
          /\ \A i \in 1 .. n : cps[i] = IF i = n THEN last ELSE cut.cps[i]
      BY <1>2, <2>1, <2>2, ExceptSeq
    <2>4. \A i \in 1 .. n : cps[i].t = cut.cps[i].t
      BY <2>1, <2>2, <2>3
    <2>5. same = [config |-> h.config, imu |-> cut.imu, cps |-> cps, meas |-> cut.meas]
      OBVIOUS
    <2>6. Timed(cps, s.t)
      BY <1>2, <2>3, <2>4 DEF Timed, Sorted
    <2>7. Matched(cps)
      BY <1>2, <2>2, <2>3 DEF Matched
    <2> HIDE DEF cps, last, cut
    <2>8. same \in Histories
      BY <1>2, <2>1, <2>3, <2>5, HistoryFields, HistoryMade
    <2>9. InEpochOrder(same, s.t)
      BY <1>2, <2>5, <2>6, <2>7, OrderParts
    <2> QED BY <1>4, <1>5, <2>8, <2>9
  <1>6. CASE ~ (cut.cps # <<>> /\ Back(cut.cps).t = s.t)
    <2>1. cut = [config |-> h.config, imu |-> cut.imu, cps |-> cut.cps, meas |-> cut.meas]
      OBVIOUS
    <2> HIDE DEF cut
    <2>2. /\ PushCheckpoint(cut, s) \in Histories
          /\ PushCheckpoint(cut, s).imu = cut.imu /\ PushCheckpoint(cut, s).meas = cut.meas
          /\ Timed(PushCheckpoint(cut, s).cps, s.t) /\ Matched(PushCheckpoint(cut, s).cps)
      BY <1>2, <2>1, HistoryFields, CheckpointPushed
    <2>3. InEpochOrder(PushCheckpoint(cut, s), s.t)
      BY <1>2, <2>2, OrderParts
    <2> QED BY <1>4, <1>6, <2>2, <2>3
  <1> QED BY <1>5, <1>6

(* Two places before, at or after the place n + 1                           *)
LEMMA Places ==
    ASSUME NEW n \in Nat, NEW i \in Nat, NEW j \in Nat, i >= 1, j >= 1, i < j
    PROVE  /\ \/ i \in 1 .. n /\ j \in 1 .. n
              \/ i \in 1 .. n /\ j = n + 1
              \/ i \in 1 .. n /\ j > n + 1
              \/ i = n + 1 /\ j > n + 1
              \/ i > n + 1 /\ j > n + 1
           /\ i - n - 1 < j - n - 1
           /\ i > n + 1 => i \notin 1 .. n /\ i # n + 1
           /\ j > n + 1 => j \notin 1 .. n /\ j # n + 1
  OBVIOUS

(* The order in which a late update replays                                 *)
LEMMA Inserted ==
    ASSUME NEW q \in Seq(Measurements), Sorted(q), NEW m \in Measurements,
           NEW lo \in Nat, NEW hi \in Nat, lo <= m.t, m.t <= hi,
           \A i \in 1 .. Len(q) : lo <= q[i].t /\ q[i].t <= hi
    PROVE  /\ Insert(q, m) \in Seq(Measurements) /\ Sorted(Insert(q, m))
           /\ \A i \in 1 .. Len(Insert(q, m)) : lo <= Insert(q, m)[i].t /\ Insert(q, m)[i].t <= hi
  <1> DEFINE a == UpTo(q, m.t)
             b == After(q, m.t)
             s == a \o <<m>> \o b
  <1>1. m.t \in Nat /\ \A i \in 1 .. Len(q) : q[i].t \in Nat
    BY Timestamps
  <1>2. Timed(q, hi)
    BY DEF Timed
  <1>3. a \in Seq(Measurements) /\ Window(a, q) /\ b \in Seq(Measurements) /\ Window(b, q)
    BY SplitWindows
  <1>4. Timed(a, hi) /\ Timed(b, hi)
    BY <1>2, <1>3, Timestamps, TimedWindow
  <1>5. /\ \A i \in 1 .. Len(a) : a[i].t <= m.t /\ a[i].t \in Nat
        /\ \A i \in 1 .. Len(b) : b[i].t > m.t /\ b[i].t \in Nat
    <2>1. /\ \A i \in 1 .. Len(a) : a[i].t <= m.t
          /\ \A i \in 1 .. Len(b) : b[i].t > m.t
      BY <1>1, SplitOrdered
    <2>2. /\ \A i \in 1 .. Len(a) : a[i].t \in Nat
          /\ \A i \in 1 .. Len(b) : b[i].t \in Nat
      <3> HIDE DEF a, b
      <3> QED BY <1>3, Timestamps
    <2> HIDE DEF a, b
    <2> QED BY <2>1, <2>2
  <1>6. \A i \in 1 .. Len(a) : lo <= a[i].t
    <2> PICK k \in Nat : Len(a) + k <= Len(q) /\ \A i \in 1 .. Len(a) : a[i] = q[i + k]
      BY Zenon, <1>3 DEF Window
    <2>1. \A i \in 1 .. Len(a) : i + k \in 1 .. Len(q)
      BY <1>3
    <2> QED BY <2>1
  <1>7. Insert(q, m) = s
    BY DEF Insert
  <1> HIDE DEF a, b
  <1>8. /\ s \in Seq(Measurements) /\ Len(s) = Len(a) + 1 + Len(b)
        /\ \A i \in 1 .. Len(a) : s[i] = a[i]
        /\ s[Len(a) + 1] = m
        /\ \A i \in 1 .. Len(b) : s[Len(a) + 1 + i] = b[i]
    <2> DEFINE am == a \o <<m>>
    <2>1. /\ am \in Seq(Measurements) /\ Len(am) = Len(a) + 1
          /\ \A i \in 1 .. Len(a) : am[i] = a[i]
          /\ am[Len(a) + 1] = m
      BY <1>3
    <2> HIDE DEF am
    <2>2. /\ am \o b \in Seq(Measurements) /\ Len(am \o b) = Len(am) + Len(b)
          /\ \A i \in 1 .. Len(am) : (am \o b)[i] = am[i]
          /\ \A i \in 1 .. Len(b) : (am \o b)[Len(am) + i] = b[i]
      <3>1. /\ am \o b \in Seq(Measurements) /\ Len(am \o b) = Len(am) + Len(b)
            /\ \A i \in 1 .. Len(am) + Len(b) :
                  (am \o b)[i] = IF i <= Len(am) THEN am[i] ELSE b[i - Len(am)]
        BY Zenon, <1>3, <2>1, ConcatProperties
      <3>2. Len(am) \in Nat /\ Len(b) \in Nat
        BY <1>3, <2>1
      <3>3. \A i \in 1 .. Len(b) :
              /\ Len(am) + i \in 1 .. Len(am) + Len(b)
              /\ ~ (Len(am) + i <= Len(am))
              /\ Len(am) + i - Len(am) = i
        BY <3>2
      <3>4. \A i \in 1 .. Len(am) : i \in 1 .. Len(am) + Len(b) /\ i <= Len(am)
        BY <3>2
      <3> QED BY <3>1, <3>3, <3>4
    <2>3. s = am \o b
      BY DEF am
    <2> HIDE DEF s
    <2> QED BY SMTT(20), <1>3, <2>1, <2>2, <2>3
  <1> HIDE DEF s
  <1>9. \A i \in 1 .. Len(s) :
          \/ i \in 1 .. Len(a)
          \/ i = Len(a) + 1
          \/ i - Len(a) - 1 \in 1 .. Len(b) /\ s[i] = b[i - Len(a) - 1]
    <2>1. Len(a) \in Nat /\ Len(b) \in Nat /\ Len(s) = Len(a) + 1 + Len(b)
      BY <1>3, <1>8
    <2>2. ASSUME NEW i \in 1 .. Len(s), i \notin 1 .. Len(a), i # Len(a) + 1
          PROVE  i - Len(a) - 1 \in 1 .. Len(b) /\ s[i] = b[i - Len(a) - 1]
      <3> DEFINE k == i - Len(a) - 1
      <3>1. k \in 1 .. Len(b) /\ Len(a) + 1 + k = i
        BY <2>1, <2>2
      <3> HIDE DEF k
      <3>2. s[i] = b[k]
        BY <1>8, <3>1
      <3> QED BY <3>1, <3>2 DEF k
    <2> QED BY <2>2
  <1>10. \A i \in 1 .. Len(s) : lo <= s[i].t /\ s[i].t <= hi
    <2> SUFFICES ASSUME NEW i \in 1 .. Len(s) PROVE lo <= s[i].t /\ s[i].t <= hi
      OBVIOUS
    <2>1. CASE i \in 1 .. Len(a)
      BY <1>4, <1>6, <1>8, <2>1 DEF Timed
    <2>2. CASE i = Len(a) + 1
      BY <1>8, <2>2
    <2>3. CASE i - Len(a) - 1 \in 1 .. Len(b) /\ s[i] = b[i - Len(a) - 1]
      <3>1. s[i].t \in Nat /\ s[i].t > m.t /\ s[i].t <= hi
        BY <1>4, <1>5, <2>3 DEF Timed
      <3> QED BY <1>1, <3>1
    <2> QED BY <1>9, <2>1, <2>2, <2>3
  <1>11. Sorted(s)
    <2> SUFFICES ASSUME NEW i \in 1 .. Len(s), NEW j \in 1 .. Len(s), i < j
                 PROVE  s[i].t <= s[j].t
      BY DEF Sorted
    <2>1. /\ Len(a) \in Nat /\ Len(b) \in Nat /\ Len(s) \in Nat
          /\ i \in Nat /\ j \in Nat /\ i >= 1 /\ j >= 1
      BY <1>3, <1>8
    <2>2. j > Len(a) + 1 =>
            /\ j - Len(a) - 1 \in 1 .. Len(b) /\ s[j] = b[j - Len(a) - 1]
            /\ s[j].t \in Nat /\ s[j].t > m.t
      <3>1. j > Len(a) + 1 => j \notin 1 .. Len(a) /\ j # Len(a) + 1
        BY <2>1, Places
      <3>2. j > Len(a) + 1 => j - Len(a) - 1 \in 1 .. Len(b) /\ s[j] = b[j - Len(a) - 1]
        BY <1>9, <3>1
      <3> QED BY <1>5, <3>2
    <2>3. CASE i \in 1 .. Len(a) /\ j \in 1 .. Len(a)
      BY <1>4, <1>8, <2>3 DEF Timed, Sorted
    <2>4. CASE i \in 1 .. Len(a) /\ j = Len(a) + 1
      BY <1>5, <1>8, <2>4
    <2>5. CASE i \in 1 .. Len(a) /\ j > Len(a) + 1
      <3>1. s[i].t <= m.t /\ s[i].t \in Nat
        BY <1>5, <1>8, <2>5
      <3>2. s[j].t \in Nat /\ s[j].t > m.t
        BY <2>2, <2>5
      <3> QED BY <1>1, <3>1, <3>2
    <2>6. CASE i = Len(a) + 1 /\ j > Len(a) + 1
      BY <1>1, <1>8, <2>2, <2>6
    <2>7. CASE i > Len(a) + 1 /\ j > Len(a) + 1
      <3>1. /\ i - Len(a) - 1 \in 1 .. Len(b) /\ s[i] = b[i - Len(a) - 1]
            /\ j - Len(a) - 1 \in 1 .. Len(b) /\ s[j] = b[j - Len(a) - 1]
            /\ i - Len(a) - 1 < j - Len(a) - 1
        BY Zenon, <1>9, <2>1, <2>7, Places
      <3> QED BY Zenon, <1>4, <3>1 DEF Timed, Sorted
    <2>8. \/ i \in 1 .. Len(a) /\ j \in 1 .. Len(a)
          \/ i \in 1 .. Len(a) /\ j = Len(a) + 1
          \/ i \in 1 .. Len(a) /\ j > Len(a) + 1
          \/ i = Len(a) + 1 /\ j > Len(a) + 1
          \/ i > Len(a) + 1 /\ j > Len(a) + 1
      BY <2>1, Places
    <2> QED BY <2>3, <2>4, <2>5, <2>6, <2>7, <2>8
  <1> QED BY <1>7, <1>8, <1>10, <1>11

-----------------------------------------------------------------------------
(* The inductive invariant *)

WorkCopies == [filter : Filters, hist : Histories, todo : Seq(Measurements), kind : GnssKinds]

(* The working copy: its checkpoints and measurements are in order up to    *)
(* its own epoch, and what it has still to replay lies between that epoch   *)
(* and the epoch of the filter.                                             *)
CopyOrdered(w, now) ==
    /\ Disjoint(w.hist.imu, now)
    /\ Timed(w.hist.cps, w.filter.t) /\ Matched(w.hist.cps)
    /\ Timed(w.hist.meas, w.filter.t)
    /\ w.filter.t <= now
    /\ Sorted(w.todo)
    /\ \A i \in 1 .. Len(w.todo) : w.filter.t <= w.todo[i].t /\ w.todo[i].t <= now

IInv ==
    /\ TypeOK
    /\ HistoryOrdered
    /\ InEpochOrder(saved.hist, saved.filter.t)
    /\ work # {} => calls < MaxCalls
    /\ \A w \in work : CopyOrdered(w, filter.t)

(* The order survives a later epoch of the filter.                          *)
LEMMA LaterEpoch ==
    ASSUME NEW h \in Histories, NEW now \in Nat, NEW then \in Nat, now <= then,
           InEpochOrder(h, now)
    PROVE  Timed(h.cps, then) /\ Matched(h.cps) /\ Timed(h.meas, then)
  <1>1. Timed(h.cps, now) /\ Matched(h.cps) /\ Timed(h.meas, now)
    BY OrderParts
  <1>2. /\ \A i \in 1 .. Len(h.cps) : h.cps[i].t \in Nat
        /\ \A i \in 1 .. Len(h.meas) : h.meas[i].t \in Nat
    BY HistoryFields, Timestamps
  <1> QED BY <1>1, <1>2 DEF Timed

(* What TypeOK says, with the sets named above                              *)
LEMMA TypeParts ==
    TypeOK <=> /\ filter \in Filters
               /\ hist \in Histories
               /\ saved \in [filter : Filters, hist : Histories, foreign : BOOLEAN]
               /\ work \in SUBSET WorkCopies
               /\ \A v, w \in work : v = w
               /\ foreign \in BOOLEAN
               /\ calls \in 0 .. MaxCalls
  BY DEF TypeOK, WorkCopies, Measurements

(* A new filter and its history satisfy the invariant.                      *)
LEMMA InitIInv ==
    ASSUME Init PROVE IInv
  <1> PICK c \in Configs : hist = NewHistory(c)
    BY DEF Init
  <1>1. filter = NewFilter /\ saved = [filter |-> filter, hist |-> hist, foreign |-> FALSE]
        /\ work = {} /\ foreign = FALSE /\ calls = 0
    BY DEF Init
  <1> DEFINE cps == <<[t |-> 0, snapshot |-> NewFilter]>>
  <1>2. [t |-> 0, snapshot |-> NewFilter] \in Checkpoints
    BY NewFilterType, ConfigAssumption DEF Checkpoints, Epochs
  <1>3. cps \in Seq(Checkpoints) /\ Len(cps) = 1 /\ cps[1] = [t |-> 0, snapshot |-> NewFilter]
    BY <1>2
  <1>4. hist = [config |-> c, imu |-> <<>>, cps |-> cps, meas |-> <<>>]
    BY DEF NewHistory
  <1> HIDE DEF cps
  <1>5. c.imu \in Nat \ {0} /\ c.cp \in Nat \ {0}
    BY ConfigAssumption
  <1>6. hist \in Histories
    <2>1. <<>> \in Seq(Samples) /\ <<>> \in Seq(Measurements) /\ Len(<<>>) = 0
      OBVIOUS
    <2>2. Len(cps) \in 1 .. c.cp /\ 0 <= c.imu /\ 0 <= c.cp
      BY <1>3, <1>5
    <2> QED BY Zenon, <1>3, <1>4, <2>1, <2>2, HistoryMade
  <1>7. InEpochOrder(hist, 0)
    <2>1. Timed(cps, 0) /\ Matched(cps)
      BY <1>3, NewFilterType DEF Timed, Sorted, Matched
    <2>2. Disjoint(<<>>, 0) /\ Timed(<<>>, 0)
      BY DEF Disjoint, Timed, Sorted
    <2> QED BY <1>4, <2>1, <2>2, OrderParts
  <1>8. TypeOK
    <2>1. filter \in Filters
      BY <1>1, NewFilterType
    <2>2. saved \in [filter : Filters, hist : Histories, foreign : BOOLEAN]
      <3>1. saved = [filter |-> filter, hist |-> hist, foreign |-> FALSE]
        BY <1>1
      <3> QED BY <1>6, <2>1, <3>1
    <2>3. calls \in 0 .. MaxCalls
      BY <1>1, ConfigAssumption
    <2>4. foreign \in BOOLEAN
      BY <1>1, Zenon
    <2>5. work \in SUBSET WorkCopies /\ \A v, w \in work : v = w
      BY <1>1
    <2> QED BY <1>6, <2>1, <2>2, <2>3, <2>4, <2>5, TypeParts
  <1> QED BY <1>1, <1>7, <1>8, NewFilterType DEF IInv, HistoryOrdered

(* propagate keeps the order of the histories.                              *)
LEMMA PropagateIInv ==
    ASSUME IInv, NEW t \in Epochs, NEW k \in SampleKinds, Propagate(t, k)
    PROVE  IInv'
  <1> DEFINE x == [from |-> filter.t, t |-> t, kind |-> k,
                   prior |-> hist.imu # <<>> /\ Back(hist.imu).kind = "rate"]
             imu == BoundedPush(hist.imu, hist.config.imu, x)
  <1>1. filter \in Filters /\ hist \in Histories /\ filter.t \in Nat /\ t \in Nat /\ t > filter.t
    BY Timestamps, EpochsAreNat DEF IInv, TypeOK, Propagate
  <1>2. x \in Samples /\ x.from = filter.t /\ x.t = t /\ x.from < x.t
    BY <1>1 DEF Samples, Filters
  <1>3. InEpochOrder(hist, filter.t)
    BY DEF IInv, HistoryOrdered
  <1>4. Disjoint(hist.imu, x.from)
    BY <1>2, <1>3, OrderParts
  <1>5. hist' = [hist EXCEPT !.imu = imu]
    BY DEF Propagate, PushImu
  <1> HIDE DEF x
  <1>6. imu \in Seq(Samples) /\ Len(imu) \in 1 .. hist.config.imu /\ Disjoint(imu, t)
    BY <1>1, <1>2, <1>4, HistoryFields, DisjointPush
  <1> HIDE DEF imu
  <1>7. hist' = [config |-> hist.config, imu |-> imu, cps |-> hist.cps, meas |-> hist.meas]
    BY <1>1, <1>5 DEF Histories
  <1>8. hist' \in Histories
    BY <1>1, <1>6, <1>7, HistoryFields, HistoryMade
  <1>9. filter' \in Filters /\ filter'.t = t
    <2> DEFINE g == [a |-> filter.t, b |-> t, of |-> [from |-> filter.t, to |-> t, kind |-> k]]
    <2>1. g \in Pieces
      BY <1>1 DEF Pieces, Filters
    <2>2. filter' = [filter EXCEPT !.t = t, !.segs = @ \cup {g}]
      BY DEF Propagate
    <2> HIDE DEF g
    <2> QED BY Zenon, <1>1, <2>1, <2>2 DEF Filters, Pieces
  <1>10. InEpochOrder(hist', t)
    BY <1>1, <1>3, <1>6, <1>7, LaterEpoch, OrderParts
  <1>11. work = {} /\ UNCHANGED <<saved, work, foreign, calls>>
    BY DEF Propagate
  <1> QED BY <1>8, <1>9, <1>10, <1>11 DEF IInv, TypeOK, HistoryOrdered

(* An update at the current epoch keeps the order of the histories.         *)
LEMMA UpdateIInv ==
    ASSUME IInv, NEW k \in GnssKinds, Update(k)
    PROVE  IInv'
  <1> DEFINE m == [t |-> filter.t, kind |-> k]
             f == Correct(filter, k)
  <1>1. filter \in Filters /\ hist \in Histories
    BY DEF IInv, TypeOK
  <1>2. f \in Filters /\ f.t = filter.t
    BY <1>1, CorrectFilter
  <1>3. m \in Measurements /\ m.t = filter.t
    BY <1>1 DEF Measurements, Filters
  <1>4. InEpochOrder(hist, filter.t)
    BY DEF IInv, HistoryOrdered
  <1>5. filter' = f /\ hist' = PushMeasurement(hist, m, f)
    BY DEF Update
  <1> HIDE DEF f, m
  <1>6. Disjoint(hist.imu, f.t) /\ Timed(hist.cps, f.t) /\ Matched(hist.cps) /\ Timed(hist.meas, f.t)
    BY <1>2, <1>4, OrderParts
  <1>7. /\ hist' \in Histories /\ hist'.imu = hist.imu /\ Timed(hist'.meas, f.t)
        /\ Timed(hist'.cps, f.t) /\ Matched(hist'.cps)
    BY <1>1, <1>2, <1>3, <1>5, <1>6, MeasurementPushed
  <1>8. InEpochOrder(hist', f.t)
    BY <1>6, <1>7, OrderParts
  <1>9. work = {} /\ UNCHANGED <<saved, work, foreign>> /\ calls' \in 0 .. MaxCalls
    BY ConfigAssumption DEF Update, IInv, TypeOK
  <1> QED BY <1>2, <1>5, <1>7, <1>8, <1>9 DEF IInv, TypeOK, HistoryOrdered

(* The working copy of a late update starts in order, with its measurements *)
(* sorted.                                                                  *)
LEMMA LateBeginIInv ==
    ASSUME IInv, NEW e \in Epochs, NEW k \in GnssKinds, LateBegin(e, k)
    PROVE  IInv'
  <1> DEFINE early == UpTo(hist.cps, e)
             c == Back(early)
             later == After(hist.meas, c.t)
             m == [t |-> e, kind |-> k]
             w == [filter |-> c.snapshot, hist |-> RebaseThrough(hist, c.t),
                   todo |-> Insert(later, m), kind |-> k]
  <1>1. filter \in Filters /\ hist \in Histories /\ InEpochOrder(hist, filter.t)
    BY DEF IInv, TypeOK, HistoryOrdered
  <1>2. /\ hist.cps \in Seq(Checkpoints) /\ hist.meas \in Seq(Measurements)
        /\ Disjoint(hist.imu, filter.t) /\ Timed(hist.cps, filter.t) /\ Matched(hist.cps)
        /\ Timed(hist.meas, filter.t)
    BY <1>1, HistoryFields, OrderParts
  <1>3. filter.t \in Nat /\ e \in Nat /\ e < filter.t /\ early # <<>> /\ work' = {w}
    BY <1>1, Timestamps, EpochsAreNat DEF LateBegin
  <1>4. early \in Seq(Checkpoints) /\ Window(early, hist.cps) /\ Matched(early) /\ Timed(early, e)
    BY Zenon, <1>2, <1>3, SplitWindows, MatchedWindow, Timestamps, TimedUpTo
  <1> HIDE DEF early
  <1>5. Len(early) \in 1 .. Len(early) /\ c = early[Len(early)]
    BY <1>3, <1>4 DEF Back
  <1>6. c \in Checkpoints /\ c.t = c.snapshot.t /\ c.t <= e
    BY <1>4, <1>5 DEF Matched, Timed
  <1>7. c.t \in Nat /\ c.snapshot \in Filters
    BY Zenon, <1>6, EpochsAreNat DEF Checkpoints
  <1>8. \E i \in 1 .. Len(hist.cps) : hist.cps[i].t <= c.t
    <2> PICK n \in Nat : /\ Len(early) + n <= Len(hist.cps)
                         /\ \A i \in 1 .. Len(early) : early[i] = hist.cps[i + n]
      BY <1>4 DEF Window
    <2>1. Len(early) + n \in 1 .. Len(hist.cps) /\ hist.cps[Len(early) + n] = c
      BY <1>2, <1>4, <1>5
    <2> HIDE DEF c
    <2> QED BY <1>7, <2>1
  <1> HIDE DEF c
  <1>9. w.hist \in Histories /\ CopyOrdered([w EXCEPT !.todo = <<>>], filter.t)
    <2>1. /\ UpTo(hist.cps, c.t) \in Seq(Checkpoints) /\ Len(UpTo(hist.cps, c.t)) <= hist.config.cp
          /\ Timed(UpTo(hist.cps, c.t), c.t) /\ Matched(UpTo(hist.cps, c.t))
          /\ UpTo(hist.meas, c.t) \in Seq(Measurements)
          /\ Len(UpTo(hist.meas, c.t)) <= hist.config.cp /\ Timed(UpTo(hist.meas, c.t), c.t)
      BY Zenon, <1>1, <1>7, CutHistory
    <2>2. Len(UpTo(hist.cps, c.t)) >= 1
      <3>1. Sorted(hist.cps) /\ \A i \in 1 .. Len(hist.cps) : hist.cps[i].t \in Nat
        BY <1>2, Timestamps DEF Timed
      <3> QED BY <1>2, <1>7, <1>8, <3>1, SplitOrdered
    <2>3. RebaseThrough(hist, c.t) = [config |-> hist.config, imu |-> hist.imu,
                cps |-> UpTo(hist.cps, c.t), meas |-> UpTo(hist.meas, c.t)]
      BY DEF RebaseThrough
    <2>4. Len(UpTo(hist.cps, c.t)) \in 1 .. hist.config.cp
      BY <1>1, <2>1, <2>2, HistoryFields
    <2>5. RebaseThrough(hist, c.t) \in Histories
      BY <1>1, <2>1, <2>3, <2>4, HistoryFields, HistoryMade
    <2>6. c.snapshot.t <= filter.t
      BY <1>3, <1>6, <1>7
    <2>7. Sorted(<<>>) /\ \A i \in 1 .. Len(<<>>) : FALSE
      BY DEF Sorted
    <2> QED BY <1>2, <1>6, <2>1, <2>3, <2>5, <2>6, <2>7 DEF CopyOrdered
  <1>10. /\ w.todo \in Seq(Measurements) /\ Sorted(w.todo)
         /\ \A i \in 1 .. Len(w.todo) : c.t <= w.todo[i].t /\ w.todo[i].t <= filter.t
    <2>1. later \in Seq(Measurements) /\ Window(later, hist.meas)
      BY <1>2, SplitWindows
    <2>2. Timed(later, filter.t)
      BY <1>2, <2>1, Timestamps, TimedWindow
    <2>3. \A i \in 1 .. Len(later) : later[i].t > c.t
      <3>1. Sorted(hist.meas) /\ \A i \in 1 .. Len(hist.meas) : hist.meas[i].t \in Nat
        BY <1>2, Timestamps DEF Timed
      <3> QED BY <1>2, <1>7, <3>1, SplitOrdered
    <2>4. \A i \in 1 .. Len(later) : later[i].t \in Nat
      <3> HIDE DEF later
      <3> QED BY <2>1, Timestamps
    <2>5. m \in Measurements /\ m.t = e
      BY DEF Measurements
    <2> HIDE DEF later, m
    <2>6. Sorted(later) /\ \A i \in 1 .. Len(later) : c.t <= later[i].t /\ later[i].t <= filter.t
      BY <1>7, <2>2, <2>3, <2>4 DEF Timed
    <2>7. /\ Insert(later, m) \in Seq(Measurements) /\ Sorted(Insert(later, m))
          /\ \A i \in 1 .. Len(Insert(later, m)) :
                c.t <= Insert(later, m)[i].t /\ Insert(later, m)[i].t <= filter.t
      <3>1. c.t <= m.t /\ m.t <= filter.t
        BY <1>3, <1>6, <2>5
      <3> QED BY Zenon, <1>3, <1>7, <2>1, <2>5, <2>6, <3>1, Inserted
    <2> QED BY <2>7
  <1>11. w \in WorkCopies
    BY <1>7, <1>9, <1>10 DEF WorkCopies
  <1>12. CopyOrdered(w, filter.t)
    BY <1>6, <1>9, <1>10 DEF CopyOrdered
  <1> HIDE DEF w
  <1>13. calls < MaxCalls /\ UNCHANGED <<filter, hist, saved, foreign, calls>>
    BY DEF LateBegin
  <1> QED BY <1>3, <1>11, <1>12, <1>13, TypeParts DEF IInv, HistoryOrdered, TypeOK, WorkCopies, Measurements

(* One turn of the replay loop keeps the working copy in order.             *)
LEMMA LateReplayIInv ==
    ASSUME IInv, LateReplay
    PROVE  IInv'
  <1> PICK w \in work :
        /\ w.todo # <<>>
        /\ LET f == Correct(ReplayImu(w.filter, Head(w.todo).t, hist.imu), Head(w.todo).kind)
           IN  work' = {[filter |-> f, hist |-> PushMeasurement(w.hist, Head(w.todo), f),
                         todo |-> Tail(w.todo), kind |-> w.kind]}
        /\ UNCHANGED <<filter, hist, saved, foreign, calls>>
    BY DEF LateReplay
  <1> DEFINE m == Head(w.todo)
             f == Correct(ReplayImu(w.filter, m.t, hist.imu), m.kind)
             h == PushMeasurement(w.hist, m, f)
             x == [filter |-> f, hist |-> h, todo |-> Tail(w.todo), kind |-> w.kind]
  <1>1. /\ w \in WorkCopies /\ CopyOrdered(w, filter.t) /\ calls < MaxCalls
        /\ hist.imu \in Seq(Samples) /\ filter.t \in Nat
    BY TypeParts, HistoryFields, Timestamps DEF IInv
  <1>2. /\ w.filter \in Filters /\ w.hist \in Histories /\ w.todo \in Seq(Measurements)
        /\ w.kind \in GnssKinds
    BY <1>1 DEF WorkCopies
  <1>3. work' = {x}
    OBVIOUS
  <1>4. /\ m \in Measurements /\ m = w.todo[1] /\ Len(w.todo) >= 1
        /\ Tail(w.todo) \in Seq(Measurements) /\ Len(Tail(w.todo)) = Len(w.todo) - 1
        /\ \A i \in 1 .. Len(Tail(w.todo)) : Tail(w.todo)[i] = w.todo[i + 1]
    <2>1. w.todo \in Seq(Measurements) /\ w.todo # <<>>
      BY <1>2
    <2>2. /\ m \in Measurements /\ Tail(w.todo) \in Seq(Measurements)
          /\ Len(Tail(w.todo)) = Len(w.todo) - 1
          /\ \A i \in 1 .. Len(Tail(w.todo)) : Tail(w.todo)[i] = w.todo[i + 1]
      BY <2>1, HeadTailProperties
    <2>3. m = w.todo[1] /\ Len(w.todo) >= 1
      BY <2>1
    <2> QED BY <2>2, <2>3
  <1>5. /\ m.t \in Epochs /\ m.t \in Nat /\ m.kind \in GnssKinds
        /\ w.filter.t \in Nat /\ w.filter.t <= m.t /\ m.t <= filter.t
    <2>1. m.t \in Epochs /\ m.kind \in GnssKinds
      BY <1>4 DEF Measurements
    <2>2. w.filter.t <= w.todo[1].t /\ w.todo[1].t <= filter.t
      BY <1>1, <1>2, <1>4 DEF CopyOrdered
    <2> QED BY <1>2, <1>4, <2>1, <2>2, EpochsAreNat, Timestamps
  <1> HIDE DEF m
  <1>6. f \in Filters /\ f.t = m.t
    <2> DEFINE g == ReplayImu(w.filter, m.t, hist.imu)
    <2>1. g \in Filters /\ g.t = m.t
      BY <1>1, <1>2, <1>5, ReplayFilter
    <2> HIDE DEF g
    <2>2. Correct(g, m.kind) \in Filters /\ Correct(g, m.kind).t = g.t
      BY <1>5, <2>1, CorrectFilter
    <2> QED BY <2>1, <2>2 DEF g
  <1> HIDE DEF f
  <1>7. Timed(w.hist.cps, f.t) /\ Matched(w.hist.cps) /\ Timed(w.hist.meas, f.t)
    <2>1. Timed(w.hist.cps, w.filter.t) /\ Matched(w.hist.cps) /\ Timed(w.hist.meas, w.filter.t)
      BY <1>1 DEF CopyOrdered
    <2>2. /\ \A i \in 1 .. Len(w.hist.cps) : w.hist.cps[i].t \in Nat
          /\ \A i \in 1 .. Len(w.hist.meas) : w.hist.meas[i].t \in Nat
      BY <1>2, HistoryFields, Timestamps
    <2> QED BY <1>5, <1>6, <2>1, <2>2 DEF Timed
  <1>8. /\ h \in Histories /\ h.imu = w.hist.imu /\ Timed(h.meas, f.t)
        /\ Timed(h.cps, f.t) /\ Matched(h.cps)
    BY <1>2, <1>4, <1>6, <1>7, MeasurementPushed
  <1> HIDE DEF h
  <1>9. x \in WorkCopies
    BY <1>2, <1>4, <1>6, <1>8 DEF WorkCopies
  <1>10. CopyOrdered(x, filter.t)
    <2>1. Disjoint(h.imu, filter.t)
      BY <1>1, <1>8 DEF CopyOrdered
    <2>2. \A i \in 1 .. Len(Tail(w.todo)) : i + 1 \in 1 .. Len(w.todo) /\ 1 < i + 1
      BY <1>2, <1>4
    <2>3. Sorted(w.todo) /\ \A i \in 1 .. Len(w.todo) : w.todo[i].t <= filter.t
      BY <1>1 DEF CopyOrdered
    <2>4. \A i \in 1 .. Len(Tail(w.todo)) : f.t <= Tail(w.todo)[i].t /\ Tail(w.todo)[i].t <= filter.t
      BY <1>4, <1>6, <2>2, <2>3 DEF Sorted
    <2>5. Sorted(Tail(w.todo))
      BY <1>4, <2>2, <2>3 DEF Sorted
    <2> QED BY <1>5, <1>6, <1>8, <2>1, <2>4, <2>5 DEF CopyOrdered
  <1> HIDE DEF x
  <1> QED BY Zenon, <1>1, <1>3, <1>9, <1>10 DEF IInv, HistoryOrdered, TypeOK, WorkCopies, Measurements

(* *self = working: the copy that was in order becomes the filter.          *)
LEMMA LateCommitIInv ==
    ASSUME IInv, LateCommit
    PROVE  IInv'
  <1> PICK w \in work : /\ filter' = ReplayImu(w.filter, filter.t, hist.imu)
                        /\ hist' = w.hist
                        /\ work' = {}
                        /\ calls' = calls + 1
                        /\ UNCHANGED <<saved, foreign>>
    BY DEF LateCommit
  <1>1. /\ w \in WorkCopies /\ CopyOrdered(w, filter.t) /\ calls < MaxCalls
        /\ filter \in Filters /\ hist.imu \in Seq(Samples) /\ calls \in 0 .. MaxCalls
    BY TypeParts, HistoryFields DEF IInv
  <1>2. w.filter \in Filters /\ w.hist \in Histories
    BY <1>1 DEF WorkCopies
  <1>3. filter.t \in Epochs /\ filter.t \in Nat /\ w.filter.t \in Nat
    BY Zenon, <1>1, <1>2, Timestamps DEF Filters
  <1>4. filter' \in Filters /\ filter'.t = filter.t
    BY <1>1, <1>2, <1>3, ReplayFilter
  <1>5. InEpochOrder(hist', filter.t)
    <2>1. /\ Disjoint(w.hist.imu, filter.t) /\ Timed(w.hist.cps, w.filter.t) /\ Matched(w.hist.cps)
          /\ Timed(w.hist.meas, w.filter.t) /\ w.filter.t <= filter.t
      BY <1>1 DEF CopyOrdered
    <2>2. /\ \A i \in 1 .. Len(w.hist.cps) : w.hist.cps[i].t \in Nat
          /\ \A i \in 1 .. Len(w.hist.meas) : w.hist.meas[i].t \in Nat
      BY <1>2, HistoryFields, Timestamps
    <2>3. Timed(w.hist.cps, filter.t) /\ Timed(w.hist.meas, filter.t)
      BY <1>3, <2>1, <2>2 DEF Timed
    <2> QED BY <2>1, <2>3, OrderParts
  <1>6. calls' \in 0 .. MaxCalls
    BY <1>1, ConfigAssumption
  <1> QED BY <1>2, <1>4, <1>5, <1>6 DEF IInv, HistoryOrdered, TypeOK

(* set_config truncates from the front, which keeps the order.              *)
LEMMA ConfigureIInv ==
    ASSUME IInv, NEW c \in Configs, Configure(c)
    PROVE  IInv'
  <1>1. hist \in Histories /\ InEpochOrder(hist, filter.t) /\ work = {}
    BY DEF IInv, TypeOK, HistoryOrdered, Configure
  <1>2. c.imu \in Nat \ {0} /\ c.cp \in Nat \ {0}
    BY ConfigAssumption
  <1>3. /\ hist.imu \in Seq(Samples) /\ hist.cps \in Seq(Checkpoints) /\ Len(hist.cps) >= 1
        /\ hist.meas \in Seq(Measurements)
    BY <1>1, HistoryFields
  <1> DEFINE imu == TruncateFront(hist.imu, c.imu)
             cps == TruncateFront(hist.cps, c.cp)
             meas == TruncateFront(hist.meas, c.cp)
  <1>4. imu \in Seq(Samples) /\ Window(imu, hist.imu) /\ Len(imu) <= c.imu
    BY <1>2, <1>3, TruncateWindow
  <1>5. /\ cps \in Seq(Checkpoints) /\ Window(cps, hist.cps) /\ Len(cps) <= c.cp /\ Len(cps) >= 1
        /\ Len(cps) \in Nat
    BY <1>2, <1>3, TruncateWindow
  <1>6. meas \in Seq(Measurements) /\ Window(meas, hist.meas) /\ Len(meas) <= c.cp
    BY <1>2, <1>3, TruncateWindow
  <1>7. hist' = [config |-> c, imu |-> imu, cps |-> cps, meas |-> meas]
    BY DEF Configure
  <1> HIDE DEF imu, cps, meas
  <1>8. Len(cps) \in 1 .. c.cp
    BY <1>2, <1>5
  <1>9. hist' \in Histories
    BY <1>4, <1>5, <1>6, <1>7, <1>8, HistoryMade
  <1>10. /\ Disjoint(hist.imu, filter.t) /\ Timed(hist.cps, filter.t) /\ Matched(hist.cps)
         /\ Timed(hist.meas, filter.t)
    BY <1>1, OrderParts
  <1>11. Disjoint(imu, filter.t)
    BY <1>3, <1>4, <1>10, DisjointWindow
  <1>12. Timed(cps, filter.t) /\ Matched(cps)
    BY <1>3, <1>5, <1>10, TimedWindow, MatchedWindow, Timestamps
  <1>13. Timed(meas, filter.t)
    BY <1>3, <1>6, <1>10, TimedWindow, Timestamps
  <1>14. InEpochOrder(hist', filter.t)
    BY <1>7, <1>11, <1>12, <1>13, OrderParts
  <1>15. UNCHANGED <<filter, saved, work, foreign, calls>>
    BY DEF Configure
  <1> QED BY <1>1, <1>9, <1>14, <1>15 DEF IInv, HistoryOrdered, TypeOK

(* A pseudo-measurement touches no history.                                 *)
LEMMA PseudoUpdateIInv ==
    ASSUME IInv, NEW k \in PseudoKinds, PseudoUpdate(k)
    PROVE  IInv'
  <1>1. filter \in Filters /\ work = {} /\ UNCHANGED <<hist, saved, work, foreign>>
    BY DEF IInv, TypeOK, PseudoUpdate
  <1>2. filter' = [filter EXCEPT !.ps = @ \cup {[kind |-> k, t |-> filter.t]}]
    BY DEF PseudoUpdate
  <1>3. [kind |-> k, t |-> filter.t] \in [kind : PseudoKinds, t : Epochs]
    BY <1>1 DEF Filters
  <1>4. filter' \in Filters /\ filter'.t = filter.t
    BY Zenon, <1>1, <1>2, <1>3 DEF Filters
  <1>5. calls' \in 0 .. MaxCalls
    BY ConfigAssumption DEF PseudoUpdate, IInv, TypeOK
  <1> QED BY <1>1, <1>4, <1>5 DEF IInv, HistoryOrdered, TypeOK

(* What is saved is in order, for it is the filter that is.                 *)
LEMMA SaveStateIInv ==
    ASSUME IInv, SaveState
    PROVE  IInv'
  <1>1. /\ filter \in Filters /\ hist \in Histories /\ foreign \in BOOLEAN
        /\ InEpochOrder(hist, filter.t)
    BY DEF IInv, TypeOK, HistoryOrdered
  <1>2. saved' = [filter |-> filter, hist |-> hist, foreign |-> foreign]
    BY DEF SaveState
  <1>3. saved' \in [filter : Filters, hist : Histories, foreign : BOOLEAN]
    BY <1>1, <1>2
  <1>4. calls' \in 0 .. MaxCalls
    BY ConfigAssumption DEF SaveState, IInv, TypeOK
  <1>5. work = {} /\ UNCHANGED <<filter, hist, work, foreign>>
    BY DEF SaveState
  <1> QED BY <1>1, <1>2, <1>3, <1>4, <1>5 DEF IInv, HistoryOrdered, TypeOK

(* restore_snapshot cuts all three histories at the snapshot.               *)
LEMMA RestoreSnapshotIInv ==
    ASSUME IInv, RestoreSnapshot
    PROVE  IInv'
  <1>1. saved.filter \in Filters /\ hist \in Histories /\ InEpochOrder(hist, filter.t)
    BY DEF IInv, TypeOK, HistoryOrdered
  <1>2. hist' \in Histories /\ InEpochOrder(hist', saved.filter.t)
    BY <1>1, Restored DEF RestoreSnapshot
  <1>3. foreign' \in BOOLEAN
    BY DEF RestoreSnapshot
  <1>4. work = {} /\ filter' = saved.filter /\ UNCHANGED <<saved, work, calls>>
    BY DEF RestoreSnapshot
  <1> QED BY <1>1, <1>2, <1>3, <1>4 DEF IInv, HistoryOrdered, TypeOK

(* restore_encoded_state brings back a history that was in order when       *)
(* saved.                                                                   *)
LEMMA RestoreEncodedIInv ==
    ASSUME IInv, RestoreEncoded
    PROVE  IInv'
  <1>1. /\ saved.filter \in Filters /\ saved.hist \in Histories /\ saved.foreign \in BOOLEAN
        /\ InEpochOrder(saved.hist, saved.filter.t)
    BY DEF IInv, TypeOK
  <1>2. /\ work = {} /\ filter' = saved.filter /\ hist' = saved.hist /\ foreign' = saved.foreign
        /\ UNCHANGED <<saved, work, calls>>
    BY DEF RestoreEncoded
  <1> QED BY <1>1, <1>2 DEF IInv, HistoryOrdered, TypeOK

(* Every step keeps the order of the histories.                             *)
LEMMA NextIInv ==
    ASSUME IInv, [Next]_vars
    PROVE  IInv'
  <1>1. CASE LateFail
    <2>1. work' = {} /\ UNCHANGED <<filter, hist, saved, foreign, calls>>
      BY <1>1 DEF LateFail
    <2> QED BY <2>1 DEF IInv, HistoryOrdered, TypeOK
  <1>2. CASE UNCHANGED vars
    BY Zenon, <1>2 DEF vars, IInv, HistoryOrdered, TypeOK
  <1> QED BY <1>1, <1>2, PropagateIInv, UpdateIInv, LateBeginIInv, LateReplayIInv, LateCommitIInv,
             PseudoUpdateIInv, ConfigureIInv, SaveStateIInv, RestoreSnapshotIInv,
             RestoreEncodedIInv DEF Next

(* Every reachable state is well typed and no history outgrows its          *)
(* configured capacity: bounded_push and truncate_front keep the three      *)
(* rings within it, and never leave the filter without a checkpoint.        *)
THEOREM TypeCorrect == Spec => []TypeOK
  <1>1. IInv => TypeOK
    BY DEF IInv
  <1> QED BY <1>1, InitIInv, NextIInv, PTL DEF Spec

(* Whatever was evicted, trimmed, restored or replayed, the histories are   *)
(* in epoch order and hold nothing newer than the filter, as the searches   *)
(* from the back of checkpoint_at_or_before and measurements_after assume.  *)
THEOREM HistoryInOrder == Spec => []HistoryOrdered
  <1>1. IInv => HistoryOrdered
    BY DEF IInv
  <1> QED BY <1>1, InitIInv, NextIInv, PTL DEF Spec

-----------------------------------------------------------------------------
(* No replay forgets a measurement *)

(* How many measurements of a history are of epoch e                        *)
Count(q, e) == Cardinality({i \in 1 .. Len(q) : q[i].t = e})

(* The filter f has been corrected, after the oldest checkpoint, by as many *)
(* measurements of each epoch as are retained.                              *)
Counted(f, cps, meas) ==
    \A e \in Epochs : cps[1].t < e => Len(f.at[e]) = Count(meas, e)

(* So was every checkpoint up to its own epoch, if it is the last of that   *)
(* epoch: this is the one that checkpoint_at_or_before finds.               *)
LastAt(q, k) == \A j \in 1 .. Len(q) : k < j => q[k].t < q[j].t
Faithful(cps, meas) ==
    \A k \in 1 .. Len(cps) : LastAt(cps, k) =>
        \A e \in Epochs : cps[1].t < e /\ e <= cps[k].t =>
            Len(cps[k].snapshot.at[e]) = Count(meas, e)

(* Every measurement newer than the oldest checkpoint has a checkpoint of   *)
(* its own, of the same epoch: as both rings have the same capacity, the    *)
(* measurement is not evicted before the checkpoints older than it.         *)
Newer(cps, meas) == {i \in 1 .. Len(meas) : cps[1].t < meas[i].t}
Backing(g, cps, meas) ==
    /\ \A i \in Newer(cps, meas) : cps[g[i]].t = meas[i].t
    /\ \A i, j \in Newer(cps, meas) : g[i] = g[j] => i = j
Backed(cps, meas) ==
    \E g \in [Newer(cps, meas) -> 2 .. Len(cps)] : Backing(g, cps, meas)

Kept(f, cps, meas) ==
    Counted(f, cps, meas) /\ Faithful(cps, meas) /\ Backed(cps, meas)

(* A filter has no measurement of an epoch it has not reached.              *)
Timely(f) == \A e \in Epochs : f.t < e => f.at[e] = <<>>
AllTimely(f, cps) == Timely(f) /\ \A k \in 1 .. Len(cps) : Timely(cps[k].snapshot)

KeptInv ==
    /\ AllTimely(filter, hist.cps)
    /\ AllTimely(saved.filter, saved.hist.cps)
    /\ \A w \in work : AllTimely(w.filter, w.hist.cps)
    /\ ~ foreign => Kept(filter, hist.cps, hist.meas)
    /\ ~ saved.foreign => Kept(saved.filter, saved.hist.cps, saved.hist.meas)
    /\ ~ foreign => \A w \in work : Kept(w.filter, w.hist.cps, w.hist.meas)

(* r is what is left of q after k entries were dropped from its front.      *)
Suffix(r, q, k) ==
    /\ k \in Nat /\ Len(r) + k = Len(q)
    /\ \A i \in 1 .. Len(r) : r[i] = q[i + k]

(* bounded_push drops an entry only from a full ring.                       *)
LEMMA PushSuffix ==
    ASSUME NEW R, NEW q \in Seq(R), NEW cap \in Nat \ {0}, Len(q) <= cap, NEW x \in R
    PROVE  \E k \in Nat : /\ Suffix(BoundedPush(q, cap, x), Append(q, x), k)
                          /\ k > 0 => Len(BoundedPush(q, cap, x)) = cap
  <1> DEFINE p == BoundedPush(q, cap, x)
  <1>0. /\ Append(q, x) \in Seq(R) /\ Len(Append(q, x)) = Len(q) + 1 /\ Len(q) \in Nat
        /\ \A i \in 1 .. Len(q) : Append(q, x)[i] = q[i]
        /\ Append(q, x)[Len(q) + 1] = x
    OBVIOUS
  <1>1. CASE Len(q) = cap
    <2>1. q # <<>>
      BY <1>1
    <2>2. /\ Tail(q) \in Seq(R) /\ Len(Tail(q)) = Len(q) - 1
          /\ \A i \in 1 .. Len(Tail(q)) : Tail(q)[i] = q[i + 1]
      BY <2>1, HeadTailProperties
    <2>3. p = Append(Tail(q), x)
      BY <1>1 DEF BoundedPush
    <2>4. /\ Len(p) = cap /\ \A i \in 1 .. Len(Tail(q)) : p[i] = Tail(q)[i]
          /\ p[cap] = x
      BY <1>1, <2>2, <2>3
    <2> HIDE DEF p
    <2>5. ASSUME NEW i \in 1 .. Len(p) PROVE p[i] = Append(q, x)[i + 1]
      <3>1. CASE i = cap
        BY <1>0, <1>1, <2>4, <3>1
      <3>2. CASE i # cap
        <4>1. i \in 1 .. Len(Tail(q)) /\ i + 1 \in 1 .. Len(q)
          BY <1>0, <1>1, <2>2, <2>4, <3>2
        <4> QED BY <1>0, <2>2, <2>4, <4>1
      <3> QED BY Zenon, <3>1, <3>2
    <2>6. Suffix(p, Append(q, x), 1)
      BY <1>0, <1>1, <2>4, <2>5 DEF Suffix
    <2> QED BY <2>4, <2>6 DEF p
  <1>2. CASE Len(q) # cap
    <2>1. p = Append(q, x)
      BY <1>2 DEF BoundedPush
    <2>2. Suffix(Append(q, x), Append(q, x), 0)
      BY <1>0 DEF Suffix
    <2> HIDE DEF p
    <2>3. Suffix(p, Append(q, x), 0) /\ (0 > 0 => Len(p) = cap)
      BY <2>1, <2>2
    <2> QED BY <2>3 DEF p
  <1> QED BY <1>1, <1>2

(* truncate_front drops entries only down to a full ring.                   *)
LEMMA TruncateSuffix ==
    ASSUME NEW R, NEW q \in Seq(R), NEW cap \in Nat \ {0}
    PROVE  \E k \in Nat : /\ Suffix(TruncateFront(q, cap), q, k)
                          /\ k > 0 => Len(TruncateFront(q, cap)) = cap
  <1>1. CASE Len(q) > cap
    <2> DEFINE r == SubSeq(q, Len(q) - cap + 1, Len(q))
    <2>1. /\ r \in Seq(R) /\ Len(r) = cap
          /\ \A i \in 1 .. cap : r[i] = q[i + (Len(q) - cap)]
      BY <1>1
    <2>2. TruncateFront(q, cap) = r
      BY <1>1 DEF TruncateFront
    <2> HIDE DEF r
    <2>3. Len(q) - cap \in Nat /\ Suffix(r, q, Len(q) - cap)
      BY <1>1, <2>1 DEF Suffix
    <2> QED BY <2>1, <2>2, <2>3
  <1>2. CASE ~ (Len(q) > cap)
    <2>1. TruncateFront(q, cap) = q /\ Suffix(q, q, 0)
      BY <1>2 DEF TruncateFront, Suffix
    <2> QED BY <2>1
  <1> QED BY <1>1, <1>2

(* Counting in a part of a history that has all its entries of epoch e      *)
LEMMA CountPart ==
    ASSUME NEW R, NEW q \in Seq(R), NEW r \in Seq(R), NEW k \in Nat, Len(r) + k <= Len(q),
           \A i \in 1 .. Len(r) : r[i] = q[i + k],
           NEW e, \A i \in 1 .. Len(q) : q[i].t = e => k < i /\ i <= k + Len(r)
    PROVE  Count(r, e) = Count(q, e)
  <1> DEFINE S == {i \in 1 .. Len(r) : r[i].t = e}
             T == {i \in 1 .. Len(q) : q[i].t = e}
             f == [i \in S |-> i + k]
  <1>1. Len(r) \in Nat /\ Len(q) \in Nat
    OBVIOUS
  <1>2. IsFiniteSet(S)
    <2>1. S \in SUBSET (1 .. Len(r))
      OBVIOUS
    <2> HIDE DEF S
    <2> QED BY <1>1, <2>1, CountBound
  <1>3. f \in [S -> T]
    OBVIOUS
  <1>4. \A i, j \in S : f[i] = f[j] => i = j
    OBVIOUS
  <1>5. ASSUME NEW j \in T PROVE \E i \in S : f[i] = j
    <2>1. j - k \in 1 .. Len(r) /\ (j - k) + k = j
      BY <1>1
    <2>2. j - k \in S
      BY <2>1
    <2> QED BY <2>1, <2>2
  <1>6. f \in Bijection(S, T)
    <2> HIDE DEF S, T, f
    <2> QED BY <1>3, <1>4, <1>5 DEF Bijection, Injection, Surjection, IsInjective
  <1>7. Cardinality(T) = Cardinality(S)
    <2>1. ExistsBijection(S, T)
      BY <1>6 DEF ExistsBijection
    <2> HIDE DEF S, T
    <2> QED BY <1>2, <2>1, FS_Bijection
  <1> QED BY <1>7 DEF Count

(* How often an epoch occurs after one more element.                        *)
LEMMA CountAppended ==
    ASSUME NEW R, NEW q \in Seq(R), NEW x \in R, NEW e
    PROVE  /\ Count(q, e) \in Nat
           /\ Count(Append(q, x), e) = IF x.t = e THEN Count(q, e) + 1 ELSE Count(q, e)
  <1> DEFINE S == {i \in 1 .. Len(q) : q[i].t = e}
             T == {i \in 1 .. Len(Append(q, x)) : Append(q, x)[i].t = e}
             n == Len(q) + 1
  <1>1. Len(q) \in Nat /\ Len(Append(q, x)) = n /\ Append(q, x)[n] = x
        /\ \A i \in 1 .. Len(q) : Append(q, x)[i] = q[i]
    OBVIOUS
  <1>2. IsFiniteSet(S) /\ Cardinality(S) \in Nat
    <2>1. S \in SUBSET (1 .. Len(q))
      OBVIOUS
    <2> HIDE DEF S
    <2> QED BY <1>1, <2>1, CountBound
  <1>3. n \notin S
    BY <1>1
  <1>4. T = IF x.t = e THEN S \cup {n} ELSE S
    <2>1. \A i : i \in 1 .. n <=> i \in 1 .. Len(q) \/ i = n
      BY <1>1
    <2>2. T = {i \in 1 .. n : Append(q, x)[i].t = e}
      BY <1>1
    <2> HIDE DEF T, n
    <2>3. \A i : i \in T <=> (i \in 1 .. Len(q) /\ q[i].t = e) \/ (i = n /\ x.t = e)
      BY <1>1, <2>1, <2>2
    <2>4. \A i : i \in T <=> i \in S \/ (i = n /\ x.t = e)
      BY <2>3
    <2> HIDE DEF S
    <2> QED BY Zenon, <2>4
  <1>5. Cardinality(S \cup {n}) = Cardinality(S) + 1
    <2> HIDE DEF S, n
    <2> QED BY Zenon, <1>2, <1>3, FS_AddElement
  <1>6. Count(q, e) = Cardinality(S) /\ Count(Append(q, x), e) = Cardinality(T)
    BY DEF Count
  <1> HIDE DEF S, T, n
  <1> QED BY <1>2, <1>4, <1>5, <1>6

(* Dropping checkpoints, but none that a retained measurement needs         *)
LEMMA BackedPart ==
    ASSUME NEW cps \in Seq(Checkpoints), Sorted(cps), NEW meas \in Seq(Measurements),
           Backed(cps, meas),
           NEW c \in Seq(Checkpoints), Len(c) >= 1, NEW k \in Nat, Len(c) + k <= Len(cps),
           \A i \in 1 .. Len(c) : c[i] = cps[i + k],
           NEW m \in Seq(Measurements), NEW n \in Nat, Len(m) + n <= Len(meas),
           \A i \in 1 .. Len(m) : m[i] = meas[i + n],
           \A i \in 1 .. Len(m), j \in 1 .. Len(cps) :
              c[1].t < m[i].t /\ cps[j].t = m[i].t => j <= k + Len(c)
    PROVE  Backed(c, m)
  <1> PICK g \in [Newer(cps, meas) -> 2 .. Len(cps)] : Backing(g, cps, meas)
    BY DEF Backed
  <1> DEFINE h == [i \in Newer(c, m) |-> g[i + n] - k]
  <1>0. /\ Len(cps) \in Nat /\ Len(c) \in Nat /\ Len(m) \in Nat /\ Len(meas) \in Nat
        /\ \A j \in 1 .. Len(cps) : cps[j].t \in Nat
        /\ \A j \in 1 .. Len(meas) : meas[j].t \in Nat
    BY Timestamps
  <1>1. 1 \in 1 .. Len(c) /\ 1 + k \in 1 .. Len(cps) /\ c[1] = cps[1 + k] /\ 1 \in 1 .. Len(cps)
    BY <1>0
  <1>2. cps[1].t <= c[1].t /\ c[1].t \in Nat
    <2>1. CASE k = 0
      BY <1>0, <1>1, <2>1
    <2>2. CASE k # 0
      BY <1>0, <1>1, <2>2 DEF Sorted
    <2> QED BY <2>1, <2>2
  <1>3. ASSUME NEW i \in Newer(c, m)
        PROVE  /\ i \in 1 .. Len(m) /\ i + n \in Newer(cps, meas) /\ g[i + n] - k \in 2 .. Len(c)
               /\ c[g[i + n] - k].t = m[i].t
    <2>1. i \in 1 .. Len(m) /\ c[1].t < m[i].t
      BY DEF Newer
    <2>2. i + n \in 1 .. Len(meas) /\ m[i] = meas[i + n] /\ m[i].t \in Nat
      BY SMTT(20), <1>0, <2>1
    <2>3. i + n \in Newer(cps, meas)
      <3>1. cps[1].t \in Nat
        BY <1>0, <1>1
      <3>2. cps[1].t <= c[1].t /\ c[1].t \in Nat /\ c[1].t < m[i].t /\ m[i].t \in Nat
        BY <1>2, <2>1, <2>2
      <3>3. cps[1].t < m[i].t
        BY ONLY SMTT(20), <3>1, <3>2
      <3> QED BY <2>2, <3>3 DEF Newer
    <2> DEFINE j == g[i + n]
    <2>4. j \in 2 .. Len(cps) /\ cps[j].t = m[i].t
      BY <2>2, <2>3 DEF Backing
    <2> HIDE DEF j
    <2>5. j \in 1 .. Len(cps) /\ j <= k + Len(c)
      <3>1. Len(cps) \in Nat /\ j \in 2 .. Len(cps)
        BY <1>0, <2>4
      <3>2. j \in 1 .. Len(cps)
        BY ONLY <3>1
      <3>3. \A y \in 1 .. Len(cps) : cps[y].t = m[i].t => y <= k + Len(c)
        BY Zenon, <2>1
      <3> QED BY <2>4, <3>2, <3>3
    <2>6. ~ (j <= 1 + k)
      <3>1. ASSUME j <= 1 + k PROVE cps[j].t <= cps[1 + k].t
        <4>1. CASE j = 1 + k
          BY <1>0, <1>1, <4>1
        <4>2. CASE j # 1 + k
          BY <1>0, <1>1, <2>5, <3>1, <4>2 DEF Sorted
        <4> QED BY <4>1, <4>2
      <3> QED BY SMTT(20), <1>1, <1>2, <2>1, <2>2, <2>4, <3>1
    <2>7. j - k \in 2 .. Len(c) /\ j - k \in 1 .. Len(c) /\ (j - k) + k = j
      BY <1>0, <2>5, <2>6
    <2>8. c[j - k] = cps[j]
      BY <2>7
    <2> QED BY <2>1, <2>3, <2>4, <2>7, <2>8 DEF j
  <1>4. h \in [Newer(c, m) -> 2 .. Len(c)]
    BY <1>3
  <1>5. \A i \in Newer(c, m) : c[h[i]].t = m[i].t
    BY <1>3
  <1>6. ASSUME NEW i \in Newer(c, m), NEW j \in Newer(c, m), h[i] = h[j] PROVE i = j
    <2>1. g[i + n] - k = g[j + n] - k
      BY <1>6
    <2>2. g[i + n] \in 2 .. Len(cps) /\ g[j + n] \in 2 .. Len(cps)
      BY <1>3
    <2>3. g[i + n] = g[j + n]
      BY <2>1, <2>2
    <2>4. i + n = j + n
      BY <1>3, <2>3 DEF Backing
    <2> QED BY <1>3, <2>4
  <1> HIDE DEF h
  <1>7. Backing(h, c, m)
    BY <1>5, <1>6 DEF Backing
  <1> QED BY <1>4, <1>7 DEF Backed

(* A measurement that a full ring evicts is not newer than the oldest       *)
(* checkpoint: those newer than it have as many checkpoints of their own.   *)
LEMMA EvictedIsOld ==
    ASSUME NEW cps \in Seq(Checkpoints), Len(cps) >= 1,
           NEW meas \in Seq(Measurements), Sorted(meas), Backed(cps, meas),
           NEW m, NEW k, Suffix(m, meas, k), k > 0 => Len(m) >= Len(cps), Len(m) \in Nat,
           NEW i \in 1 .. k
    PROVE  meas[i].t <= cps[1].t
  <1> PICK g \in [Newer(cps, meas) -> 2 .. Len(cps)] : Backing(g, cps, meas)
    BY DEF Backed
  <1> SUFFICES ASSUME ~ (meas[i].t <= cps[1].t) PROVE FALSE
    OBVIOUS
  <1>0. /\ k \in Nat /\ k > 0 /\ Len(m) + k = Len(meas) /\ Len(m) >= Len(cps)
        /\ Len(cps) \in Nat /\ Len(meas) \in Nat
    BY DEF Suffix
  <1>1. \A j \in 1 .. Len(meas) : meas[j].t \in Nat
    BY Timestamps
  <1>2. cps[1].t \in Nat
    <2>1. cps[1] \in Checkpoints
      BY <1>0
    <2> QED BY <2>1, Timestamps
  <1> DEFINE S == i .. Len(meas)
             T == 2 .. Len(cps)
             f == [j \in S |-> g[j]]
  <1>3. S \subseteq Newer(cps, meas)
    <2> SUFFICES ASSUME NEW j \in S PROVE j \in Newer(cps, meas)
      OBVIOUS
    <2>1. i \in 1 .. Len(meas) /\ j \in 1 .. Len(meas) /\ (i = j \/ i < j)
      BY <1>0
    <2>2. meas[i].t <= meas[j].t
      BY <1>1, <2>1 DEF Sorted
    <2> QED BY <1>1, <1>2, <2>1, <2>2 DEF Newer
  <1>4. f \in [S -> T]
    BY <1>3
  <1>5. IsFiniteSet(S) /\ Cardinality(S) = Len(meas) - i + 1
    <2>1. i \in Int /\ Len(meas) \in Int /\ ~ (i > Len(meas))
      BY <1>0
    <2> QED BY <2>1, FS_Interval
  <1>6. IsFiniteSet(T) /\ Cardinality(T) = Len(cps) - 1
    <2>1. 2 \in Int /\ Len(cps) \in Int
      BY <1>0
    <2>2. IsFiniteSet(T) /\ Cardinality(T) = IF 2 > Len(cps) THEN 0 ELSE Len(cps) - 2 + 1
      BY Zenon, <2>1, FS_Interval
    <2> QED BY <1>0, <2>2
  <1>7. Cardinality(T) < Cardinality(S)
    BY <1>0, <1>5, <1>6
  <1>8. \A x, y \in S : f[x] = f[y] => x = y
    BY <1>3 DEF Backing
  <1> HIDE DEF S, T, f
  <1> QED BY <1>4, <1>5, <1>6, <1>7, <1>8, FS_PigeonHole

(* Both rings drop from the front.                                          *)
LEMMA KeptSuffix ==
    ASSUME NEW f, NEW cps \in Seq(Checkpoints), Sorted(cps),
           NEW meas \in Seq(Measurements), Sorted(meas), Kept(f, cps, meas),
           NEW c \in Seq(Checkpoints), Len(c) >= 1, NEW k \in Nat, Suffix(c, cps, k),
           NEW m \in Seq(Measurements), NEW n \in Nat, Suffix(m, meas, n),
           n > 0 => Len(m) >= Len(c)
    PROVE  Kept(f, c, m)
  <1>0. /\ Len(cps) \in Nat /\ Len(c) \in Nat /\ Len(m) \in Nat /\ Len(meas) \in Nat
        /\ \A j \in 1 .. Len(cps) : cps[j].t \in Nat
        /\ \A j \in 1 .. Len(meas) : meas[j].t \in Nat
    BY Timestamps
  <1>1. /\ Len(c) + k = Len(cps) /\ \A i \in 1 .. Len(c) : c[i] = cps[i + k]
        /\ Len(m) + n = Len(meas) /\ \A i \in 1 .. Len(m) : m[i] = meas[i + n]
    BY DEF Suffix
  <1>2. 1 \in 1 .. Len(c) /\ 1 + k \in 1 .. Len(cps) /\ c[1] = cps[1 + k] /\ 1 \in 1 .. Len(cps)
    BY <1>0, <1>1
  <1>3. cps[1].t <= c[1].t /\ c[1].t \in Nat
    <2>1. CASE k = 0
      BY <1>0, <1>2, <2>1
    <2>2. CASE k # 0
      BY <1>0, <1>2, <2>2 DEF Sorted
    <2> QED BY <2>1, <2>2
  <1>4. Backed(c, meas)
    <2>1. /\ 0 \in Nat /\ Len(meas) + 0 <= Len(meas) /\ Len(c) + k <= Len(cps)
          /\ \A i \in 1 .. Len(meas) : meas[i] = meas[i + 0]
          /\ \A i \in 1 .. Len(meas), j \in 1 .. Len(cps) :
                c[1].t < meas[i].t /\ cps[j].t = meas[i].t => j <= k + Len(c)
      BY <1>0, <1>1
    <2>2. Backed(cps, meas)
      BY DEF Kept
    <2> QED BY Zenon, <1>1, <2>1, <2>2, BackedPart
  <1>5. \A i \in 1 .. n : meas[i].t <= c[1].t
    BY <1>0, <1>4, EvictedIsOld
  <1>6. Backed(c, m)
    <2>1. /\ Len(m) + n <= Len(meas) /\ Len(c) + k <= Len(cps)
          /\ \A i \in 1 .. Len(m), j \in 1 .. Len(cps) :
                c[1].t < m[i].t /\ cps[j].t = m[i].t => j <= k + Len(c)
      BY <1>0, <1>1
    <2>2. Backed(cps, meas)
      BY DEF Kept
    <2> QED BY Zenon, <1>1, <2>1, <2>2, BackedPart
  <1>7. ASSUME NEW e \in Epochs, c[1].t < e PROVE Count(m, e) = Count(meas, e) /\ cps[1].t < e
    <2>1. e \in Nat
      BY EpochsAreNat
    <2>2. \A i \in 1 .. Len(meas) : meas[i].t = e => n < i /\ i <= n + Len(m)
      BY <1>0, <1>1, <1>3, <1>5, <1>7, <2>1
    <2>3. Len(m) + n <= Len(meas)
      BY <1>0, <1>1
    <2>4. Count(m, e) = Count(meas, e)
      BY ZenonT(30), <1>1, <2>2, <2>3, CountPart
    <2> QED BY <1>0, <1>2, <1>3, <1>7, <2>1, <2>4
  <1>8. Counted(f, c, m)
    BY <1>7 DEF Kept, Counted
  <1>9. Faithful(c, m)
    <2> SUFFICES ASSUME NEW i \in 1 .. Len(c), LastAt(c, i), NEW e \in Epochs,
                        c[1].t < e, e <= c[i].t
                 PROVE  Len(c[i].snapshot.at[e]) = Count(m, e)
      BY DEF Faithful
    <2>1. i + k \in 1 .. Len(cps) /\ c[i] = cps[i + k]
      BY <1>0, <1>1
    <2>2. ASSUME NEW j \in 1 .. Len(cps), i + k < j PROVE cps[i + k].t < cps[j].t
      <3>1. j - k \in 1 .. Len(c) /\ i < j - k /\ (j - k) + k = j
        BY <1>0, <1>1, <2>2
      <3>2. c[j - k] = cps[j]
        BY Zenon, <1>1, <3>1
      <3> QED BY <2>1, <3>1, <3>2 DEF LastAt
    <2>3. LastAt(cps, i + k)
      BY <2>2 DEF LastAt
    <2>4. Len(cps[i + k].snapshot.at[e]) = Count(meas, e)
      BY <1>7, <2>1, <2>3 DEF Kept, Faithful
    <2> QED BY <1>7, <2>1, <2>4
  <1> QED BY <1>6, <1>8, <1>9 DEF Kept

(* A measurement was applied: it and its checkpoint are appended.           *)
LEMMA KeptUpdate ==
    ASSUME NEW f \in Filters, NEW k \in GnssKinds, NEW f2 \in Filters, NEW m \in Measurements,
           f2.at = [f.at EXCEPT ![m.t] = Append(f.at[m.t], k)], f2.t = m.t,
           NEW cps \in Seq(Checkpoints), Len(cps) >= 1, Timed(cps, m.t),
           NEW meas \in Seq(Measurements), Kept(f, cps, meas),
           NEW x \in Checkpoints, x.t = m.t, x.snapshot = f2
    PROVE  Kept(f2, Append(cps, x), Append(meas, m))
  <1> DEFINE c == Append(cps, x)
             q == Append(meas, m)
  <1>0. /\ Len(cps) \in Nat /\ Len(meas) \in Nat /\ m.t \in Nat /\ m.t \in Epochs
        /\ \A j \in 1 .. Len(cps) : cps[j].t \in Nat /\ cps[j].t <= m.t
        /\ \A j \in 1 .. Len(meas) : meas[j].t \in Nat
        /\ f.at \in [Epochs -> Seq(GnssKinds)]
    <2>1. /\ \A j \in 1 .. Len(cps) : cps[j].t \in Nat
          /\ \A j \in 1 .. Len(meas) : meas[j].t \in Nat
          /\ Len(cps) \in Nat /\ Len(meas) \in Nat /\ m.t \in Nat
      BY Timestamps
    <2>2. \A j \in 1 .. Len(cps) : cps[j].t <= m.t
      BY DEF Timed
    <2>3. m.t \in Epochs /\ f.at \in [Epochs -> Seq(GnssKinds)]
      BY DEF Measurements, Filters
    <2> QED BY <2>1, <2>2, <2>3
  <1>1. /\ Len(c) = Len(cps) + 1 /\ \A i \in 1 .. Len(cps) : c[i] = cps[i]
        /\ c[Len(cps) + 1] = x
    OBVIOUS
  <1>2. /\ Len(q) = Len(meas) + 1 /\ \A i \in 1 .. Len(meas) : q[i] = meas[i]
        /\ q[Len(meas) + 1] = m
    OBVIOUS
  <1>3. \A e \in Epochs : /\ Count(meas, e) \in Nat
                          /\ Count(q, e) = IF m.t = e THEN Count(meas, e) + 1 ELSE Count(meas, e)
    BY CountAppended
  <1> HIDE DEF c, q
  <1>4. 1 \in 1 .. Len(cps) /\ c[1] = cps[1]
    BY <1>0, <1>1
  <1>5. Counted(f2, c, q)
    <2> SUFFICES ASSUME NEW e \in Epochs, cps[1].t < e PROVE Len(f2.at[e]) = Count(q, e)
      BY <1>4 DEF Counted
    <2>1. Len(f.at[e]) = Count(meas, e)
      BY DEF Kept, Counted
    <2>2. f2.at[e] = IF e = m.t THEN Append(f.at[m.t], k) ELSE f.at[e]
      BY <1>0
    <2>3. Len(Append(f.at[m.t], k)) = Len(f.at[m.t]) + 1
      BY <1>0
    <2> QED BY Zenon, <1>3, <2>1, <2>2, <2>3
  <1>6. Faithful(c, q)
    <2> SUFFICES ASSUME NEW i \in 1 .. Len(c), LastAt(c, i), NEW e \in Epochs,
                        c[1].t < e, e <= c[i].t
                 PROVE  Len(c[i].snapshot.at[e]) = Count(q, e)
      BY DEF Faithful
    <2>1. CASE i = Len(cps) + 1
      BY Zenon, <1>1, <1>5, <2>1 DEF Counted
    <2>2. CASE i # Len(cps) + 1
      <3>1. i \in 1 .. Len(cps) /\ c[i] = cps[i] /\ Len(cps) + 1 \in 1 .. Len(c) /\ i < Len(cps) + 1
        BY <1>0, <1>1, <2>2
      <3>2. cps[i].t < m.t
        BY <1>1, <3>1 DEF LastAt
      <3>3. ASSUME NEW j \in 1 .. Len(cps), i < j PROVE cps[i].t < cps[j].t
        <4>1. j \in 1 .. Len(c) /\ c[j] = cps[j]
          BY <1>0, <1>1
        <4> QED BY <3>1, <3>3, <4>1 DEF LastAt
      <3>4. LastAt(cps, i)
        BY <3>3 DEF LastAt
      <3>5. Len(cps[i].snapshot.at[e]) = Count(meas, e)
        BY <1>4, <3>1, <3>4 DEF Kept, Faithful
      <3>6. e # m.t
        BY <1>0, <3>1, <3>2, EpochsAreNat
      <3> QED BY <1>3, <3>1, <3>5, <3>6
    <2> QED BY <2>1, <2>2
  <1>7. Backed(c, q)
    <2> PICK g \in [Newer(cps, meas) -> 2 .. Len(cps)] : Backing(g, cps, meas)
      BY DEF Kept, Backed
    <2> DEFINE h == [i \in Newer(c, q) |-> IF i \in 1 .. Len(meas) THEN g[i] ELSE Len(cps) + 1]
    <2>1. ASSUME NEW i \in Newer(c, q)
          PROVE  \/ /\ i \in 1 .. Len(meas) /\ i \in Newer(cps, meas) /\ h[i] = g[i]
                    /\ g[i] \in 2 .. Len(cps) /\ q[i] = meas[i]
                 \/ i \notin 1 .. Len(meas) /\ i = Len(meas) + 1 /\ h[i] = Len(cps) + 1
      <3>1. i \in 1 .. Len(q) /\ cps[1].t < q[i].t
        BY <1>4 DEF Newer
      <3>2. CASE i \in 1 .. Len(meas)
        <4>1. i \in Newer(cps, meas)
          BY <1>2, <3>1, <3>2 DEF Newer
        <4> QED BY <1>2, <3>2, <4>1
      <3>3. CASE i \notin 1 .. Len(meas)
        BY <1>0, <1>2, <3>1, <3>3
      <3> QED BY <3>2, <3>3
    <2> HIDE DEF h
    <2>2. \A i \in Newer(c, q) : h[i] \in 2 .. Len(c) /\ c[h[i]].t = q[i].t
      <3> SUFFICES ASSUME NEW i \in Newer(c, q) PROVE h[i] \in 2 .. Len(c) /\ c[h[i]].t = q[i].t
        OBVIOUS
      <3>1. CASE /\ i \in 1 .. Len(meas) /\ i \in Newer(cps, meas) /\ h[i] = g[i]
                 /\ g[i] \in 2 .. Len(cps) /\ q[i] = meas[i]
        <4>1. g[i] \in 2 .. Len(c) /\ c[g[i]] = cps[g[i]]
          BY <1>0, <1>1, <3>1
        <4> QED BY <3>1, <4>1 DEF Backing
      <3>2. CASE i = Len(meas) + 1 /\ h[i] = Len(cps) + 1
        BY <1>0, <1>1, <1>2, <3>2
      <3> QED BY <2>1, <3>1, <3>2
    <2>3. h \in [Newer(c, q) -> 2 .. Len(c)]
      BY <2>2 DEF h
    <2>4. ASSUME NEW i \in Newer(c, q), NEW j \in Newer(c, q), h[i] = h[j] PROVE i = j
      <3>1. Len(cps) + 1 \notin 2 .. Len(cps)
        BY <1>0
      <3> QED BY <2>1, <2>4, <3>1 DEF Backing
    <2>5. Backing(h, c, q)
      BY <2>2, <2>4 DEF Backing
    <2> QED BY <2>3, <2>5 DEF Backed
  <1> QED BY <1>5, <1>6, <1>7 DEF Kept, c, q

(* A checkpoint of the filter itself is appended.                           *)
LEMMA KeptCheckpoint ==
    ASSUME NEW f \in Filters,
           NEW cps \in Seq(Checkpoints), Len(cps) >= 1,
           NEW meas \in Seq(Measurements), Kept(f, cps, meas),
           NEW x \in Checkpoints, x.snapshot = f
    PROVE  Kept(f, Append(cps, x), meas)
  <1> DEFINE c == Append(cps, x)
  <1>0. Len(cps) \in Nat
    OBVIOUS
  <1>1. /\ Len(c) = Len(cps) + 1 /\ \A i \in 1 .. Len(cps) : c[i] = cps[i]
        /\ c[Len(cps) + 1] = x
    OBVIOUS
  <1> HIDE DEF c
  <1>2. 1 \in 1 .. Len(cps) /\ c[1] = cps[1] /\ Newer(c, meas) = Newer(cps, meas)
    BY <1>0, <1>1 DEF Newer
  <1>3. Counted(f, c, meas)
    BY <1>2 DEF Kept, Counted
  <1>4. Faithful(c, meas)
    <2> SUFFICES ASSUME NEW i \in 1 .. Len(c), LastAt(c, i), NEW e \in Epochs,
                        c[1].t < e, e <= c[i].t
                 PROVE  Len(c[i].snapshot.at[e]) = Count(meas, e)
      BY DEF Faithful
    <2>1. CASE i = Len(cps) + 1
      BY <1>1, <1>3, <2>1 DEF Counted
    <2>2. CASE i # Len(cps) + 1
      <3>1. i \in 1 .. Len(cps) /\ c[i] = cps[i]
        BY <1>0, <1>1, <2>2
      <3>2. ASSUME NEW j \in 1 .. Len(cps), i < j PROVE cps[i].t < cps[j].t
        <4>1. j \in 1 .. Len(c) /\ c[j] = cps[j]
          BY <1>0, <1>1
        <4> QED BY <3>1, <3>2, <4>1 DEF LastAt
      <3>3. LastAt(cps, i)
        BY <3>2 DEF LastAt
      <3> QED BY <1>2, <3>1, <3>3 DEF Kept, Faithful
    <2> QED BY <2>1, <2>2
  <1>5. Backed(c, meas)
    <2> PICK g \in [Newer(cps, meas) -> 2 .. Len(cps)] : Backing(g, cps, meas)
      BY DEF Kept, Backed
    <2>1. \A i \in Newer(cps, meas) : /\ g[i] \in 2 .. Len(cps) /\ g[i] \in 2 .. Len(c)
                                      /\ c[g[i]] = cps[g[i]]
      BY <1>0, <1>1
    <2>2. g \in [Newer(c, meas) -> 2 .. Len(c)]
      BY <1>2, <2>1
    <2>3. Backing(g, c, meas)
      BY <1>2, <2>1 DEF Backing
    <2> QED BY <2>2, <2>3 DEF Backed
  <1> QED BY <1>3, <1>4, <1>5 DEF Kept, c

(* The snapshot of the last checkpoint is replaced by the filter.           *)
LEMMA KeptReplaced ==
    ASSUME NEW f \in Filters,
           NEW cps \in Seq(Checkpoints), Len(cps) >= 1,
           NEW meas \in Seq(Measurements), Kept(f, cps, meas),
           NEW c \in Seq(Checkpoints), Len(c) = Len(cps),
           \A i \in 1 .. Len(cps) : c[i].t = cps[i].t,
           \A i \in 1 .. Len(cps) : c[i].snapshot = IF i = Len(cps) THEN f ELSE cps[i].snapshot
    PROVE  Kept(f, c, meas)
  <1>1. 1 \in 1 .. Len(cps) /\ c[1].t = cps[1].t /\ Newer(c, meas) = Newer(cps, meas)
    BY DEF Newer
  <1>2. Counted(f, c, meas)
    BY <1>1 DEF Kept, Counted
  <1>3. Faithful(c, meas)
    <2> SUFFICES ASSUME NEW i \in 1 .. Len(cps), LastAt(c, i), NEW e \in Epochs,
                        c[1].t < e, e <= c[i].t
                 PROVE  Len(c[i].snapshot.at[e]) = Count(meas, e)
      BY DEF Faithful
    <2>1. CASE i = Len(cps)
      BY <1>2, <2>1 DEF Counted
    <2>2. CASE i # Len(cps)
      <3>1. LastAt(cps, i)
        BY DEF LastAt
      <3> QED BY <1>1, <2>2, <3>1 DEF Kept, Faithful
    <2> QED BY <2>1, <2>2
  <1>4. Backed(c, meas)
    <2> PICK g \in [Newer(cps, meas) -> 2 .. Len(cps)] : Backing(g, cps, meas)
      BY DEF Kept, Backed
    <2>1. \A i \in Newer(cps, meas) : g[i] \in 1 .. Len(cps)
      OBVIOUS
    <2>2. Backing(g, c, meas)
      BY <1>1, <2>1 DEF Backing
    <2>3. g \in [Newer(c, meas) -> 2 .. Len(c)]
      BY <1>1
    <2> QED BY <2>2, <2>3 DEF Backed
  <1> QED BY <1>2, <1>3, <1>4 DEF Kept

(* The indices that UpTo keeps of an ordered history                        *)
LEMMA CutIndices ==
    ASSUME NEW R, NEW q \in Seq(R), Sorted(q), \A i \in 1 .. Len(q) : q[i].t \in Nat, NEW t \in Nat
    PROVE  /\ UpTo(q, t) \in Seq(R) /\ Len(UpTo(q, t)) \in 0 .. Len(q)
           /\ \A i \in 1 .. Len(UpTo(q, t)) : UpTo(q, t)[i] = q[i] /\ q[i].t <= t
           /\ \A i \in 1 .. Len(q) : q[i].t <= t => i <= Len(UpTo(q, t))
  <1> DEFINE S == {i \in 1 .. Len(q) : q[i].t <= t}
             n == Cardinality(S)
  <1>1. n \in 0 .. Len(q)
    <2>1. Len(q) \in Nat /\ S \in SUBSET (1 .. Len(q))
      OBVIOUS
    <2> HIDE DEF S
    <2> QED BY <2>1, CountBound
  <1>2. \A i \in S, j \in 1 .. Len(q) : j < i => j \in S
    BY DEF Sorted
  <1>3. S = 1 .. n
    <2>1. Len(q) \in Nat /\ S \in SUBSET (1 .. Len(q))
      OBVIOUS
    <2> HIDE DEF S
    <2> QED BY Zenon, <1>2, <2>1, CountPrefix
  <1>4. UpTo(q, t) = SubSeq(q, 1, n)
    BY DEF UpTo
  <1>5. \A i \in 1 .. Len(q) : q[i].t <= t <=> i \in 1 .. n
    BY <1>3
  <1> HIDE DEF n
  <1>6. /\ SubSeq(q, 1, n) \in Seq(R) /\ Len(SubSeq(q, 1, n)) = n
        /\ \A i \in 1 .. n : SubSeq(q, 1, n)[i] = q[i]
    BY <1>1
  <1> QED BY <1>1, <1>4, <1>5, <1>6

(* Counting in the start of a history that has all its entries of epoch e   *)
LEMMA CountStart ==
    ASSUME NEW q \in Seq(Measurements), NEW r \in Seq(Measurements), Len(r) <= Len(q),
           \A i \in 1 .. Len(r) : r[i] = q[i],
           NEW e, \A i \in 1 .. Len(q) : q[i].t = e => i <= Len(r)
    PROVE  Count(r, e) = Count(q, e)
  <1>1. /\ 0 \in Nat /\ Len(r) + 0 <= Len(q) /\ \A i \in 1 .. Len(r) : r[i] = q[i + 0]
        /\ \A i \in 1 .. Len(q) : q[i].t = e => 0 < i /\ i <= 0 + Len(r)
    OBVIOUS
  <1>2. PICK k \in Nat :
            /\ Len(r) + k <= Len(q) /\ \A i \in 1 .. Len(r) : r[i] = q[i + k]
            /\ \A i \in 1 .. Len(q) : q[i].t = e => k < i /\ i <= k + Len(r)
    BY <1>1, Zenon
  <1> QED BY Zenon, <1>2, CountPart

(* Both histories are cut at t, and the filter is what it was then.         *)
LEMMA KeptCut ==
    ASSUME NEW f, NEW cps \in Seq(Checkpoints), Sorted(cps),
           NEW meas \in Seq(Measurements), Sorted(meas),
           Faithful(cps, meas), Backed(cps, meas),
           NEW t \in Nat, Len(UpTo(cps, t)) >= 1,
           \A e \in Epochs : t < e => Len(f.at[e]) = 0,
           \A e \in Epochs : cps[1].t < e /\ e <= t => Len(f.at[e]) = Count(meas, e)
    PROVE  Kept(f, UpTo(cps, t), UpTo(meas, t))
  <1> DEFINE c == UpTo(cps, t)
             m == UpTo(meas, t)
  <1>0. /\ Len(cps) \in Nat /\ Len(meas) \in Nat
        /\ \A j \in 1 .. Len(cps) : cps[j].t \in Nat
        /\ \A j \in 1 .. Len(meas) : meas[j].t \in Nat
    BY Timestamps
  <1>1. /\ c \in Seq(Checkpoints) /\ Len(c) \in 0 .. Len(cps)
        /\ \A i \in 1 .. Len(c) : c[i] = cps[i] /\ cps[i].t <= t
        /\ \A i \in 1 .. Len(cps) : cps[i].t <= t => i <= Len(c)
    BY <1>0, CutIndices
  <1>2. /\ m \in Seq(Measurements) /\ Len(m) \in 0 .. Len(meas)
        /\ \A i \in 1 .. Len(m) : m[i] = meas[i] /\ meas[i].t <= t
        /\ \A i \in 1 .. Len(meas) : meas[i].t <= t => i <= Len(m)
    BY <1>0, CutIndices
  <1>a. Len(c) >= 1
    OBVIOUS
  <1> HIDE DEF c, m
  <1>3. 1 \in 1 .. Len(c) /\ 1 \in 1 .. Len(cps) /\ c[1] = cps[1]
    BY <1>0, <1>1, <1>a
  <1>4. \A e \in Epochs : e <= t => Count(m, e) = Count(meas, e)
    <2> SUFFICES ASSUME NEW e \in Epochs, e <= t PROVE Count(m, e) = Count(meas, e)
      OBVIOUS
    <2>1. Len(m) <= Len(meas) /\ \A i \in 1 .. Len(meas) : meas[i].t = e => i <= Len(m)
      BY <1>0, <1>2
    <2>2. m \in Seq(Measurements) /\ \A i \in 1 .. Len(m) : m[i] = meas[i]
      BY <1>2
    <2> QED BY <2>1, <2>2, CountStart
  <1>5. \A e \in Epochs : t < e => Count(m, e) = 0
    <2> SUFFICES ASSUME NEW e \in Epochs, t < e PROVE Count(m, e) = 0
      OBVIOUS
    <2>1. e \in Nat /\ \A i \in 1 .. Len(m) : m[i].t \in Nat /\ m[i].t <= t
      BY <1>0, <1>2, EpochsAreNat
    <2>2. {i \in 1 .. Len(m) : m[i].t = e} = {}
      BY <2>1
    <2> QED BY Zenon, <2>2, FS_EmptySet DEF Count
  <1>6. Counted(f, c, m)
    <2> SUFFICES ASSUME NEW e \in Epochs, cps[1].t < e PROVE Len(f.at[e]) = Count(m, e)
      BY <1>3 DEF Counted
    <2>1. CASE e <= t
      BY <1>4, <2>1
    <2>2. CASE ~ (e <= t)
      <3>1. t < e
        BY <2>2, EpochsAreNat
      <3> QED BY <1>5, <3>1
    <2> QED BY <2>1, <2>2
  <1>7. Faithful(c, m)
    <2> SUFFICES ASSUME NEW i \in 1 .. Len(c), LastAt(c, i), NEW e \in Epochs,
                        c[1].t < e, e <= c[i].t
                 PROVE  Len(c[i].snapshot.at[e]) = Count(m, e)
      BY DEF Faithful
    <2>1. i \in 1 .. Len(cps) /\ c[i] = cps[i] /\ cps[i].t <= t /\ cps[i].t \in Nat
      BY <1>0, <1>1
    <2>2. ASSUME NEW j \in 1 .. Len(cps), i < j PROVE cps[i].t < cps[j].t
      <3>1. CASE cps[j].t <= t
        <4>1. j \in 1 .. Len(c) /\ c[j] = cps[j]
          BY <1>0, <1>1, <3>1
        <4> QED BY <2>1, <2>2, <4>1 DEF LastAt
      <3>2. CASE ~ (cps[j].t <= t)
        <4>1. cps[j].t \in Nat /\ cps[i].t \in Nat /\ cps[i].t <= t /\ t \in Nat
          BY <1>0, <2>1
        <4> QED BY ONLY <3>2, <4>1
      <3> QED BY <3>1, <3>2
    <2>3. LastAt(cps, i)
      BY <2>2 DEF LastAt
    <2>4. Len(cps[i].snapshot.at[e]) = Count(meas, e)
      BY <1>3, <2>1, <2>3 DEF Faithful
    <2>5. e <= t
      <3>1. \A a, b, d \in Nat : a <= b /\ b <= d => a <= d
        OBVIOUS
      <3> QED BY <2>1, <3>1, EpochsAreNat
    <2> QED BY <1>4, <2>1, <2>4, <2>5
  <1>8. Backed(c, m)
    <2>1. /\ 0 \in Nat /\ Len(m) + 0 <= Len(meas) /\ Len(c) + 0 <= Len(cps)
          /\ \A i \in 1 .. Len(m) : m[i] = meas[i + 0]
          /\ \A i \in 1 .. Len(c) : c[i] = cps[i + 0]
      BY <1>0, <1>1, <1>2
    <2>2. \A i \in 1 .. Len(m), j \in 1 .. Len(cps) :
             c[1].t < m[i].t /\ cps[j].t = m[i].t => j <= 0 + Len(c)
      BY SMTT(20), <1>0, <1>1, <1>2
    <2> QED BY Zenon, <1>1, <1>2, <1>a, <2>1, <2>2, BackedPart
  <1> QED BY <1>6, <1>7, <1>8 DEF Kept, c, m

(* push_stored_measurement and the checkpoint of the corrected filter       *)
LEMMA MeasurementKept ==
    ASSUME NEW h \in Histories, NEW f \in Filters, NEW m \in Measurements, f.t = m.t,
           NEW f2, f2 = Correct(f, m.kind),
           Timed(h.cps, f.t), Timed(h.meas, f.t), Kept(f, h.cps, h.meas)
    PROVE  Kept(f2, PushMeasurement(h, m, f2).cps, PushMeasurement(h, m, f2).meas)
  <1> DEFINE x == [t |-> f2.t, snapshot |-> f2]
             cap == h.config.cp
             c == BoundedPush(h.cps, cap, x)
             q == BoundedPush(h.meas, cap, m)
  <1>1. /\ cap \in Nat \ {0} /\ h.cps \in Seq(Checkpoints) /\ Len(h.cps) \in 1 .. cap
        /\ h.meas \in Seq(Measurements) /\ Len(h.meas) <= cap
        /\ h = [config |-> h.config, imu |-> h.imu, cps |-> h.cps, meas |-> h.meas]
    BY HistoryFields
  <1>2. /\ f2 \in Filters /\ f2.t = m.t /\ m.kind \in GnssKinds
        /\ f2.at = [f.at EXCEPT ![m.t] = Append(f.at[m.t], m.kind)]
    <2>1. m.kind \in GnssKinds
      BY DEF Measurements
    <2> QED BY Zenon, <2>1, CorrectFilter DEF Correct, Filters
  <1>3. x \in Checkpoints /\ x.t = m.t /\ x.snapshot = f2
    BY <1>2 DEF Checkpoints, Filters
  <1>4. PushMeasurement(h, m, f2).cps = c /\ PushMeasurement(h, m, f2).meas = q
    <2>1. [h EXCEPT !.meas = q] = [config |-> h.config, imu |-> h.imu, cps |-> h.cps, meas |-> q]
      BY <1>1
    <2> DEFINE g == [config |-> h.config, imu |-> h.imu, cps |-> h.cps, meas |-> q]
    <2>2. PushMeasurement(h, m, f2) = PushCheckpoint(g, f2)
      BY <2>1 DEF PushMeasurement
    <2> HIDE DEF q
    <2>3. PushCheckpoint(g, f2).cps = c /\ PushCheckpoint(g, f2).meas = q
      BY DEF PushCheckpoint
    <2> QED BY <2>2, <2>3
  <1> HIDE DEF x, cap
  <1>5. Kept(f2, Append(h.cps, x), Append(h.meas, m))
    BY <1>1, <1>2, <1>3, KeptUpdate
  <1>6. /\ Append(h.cps, x) \in Seq(Checkpoints) /\ Append(h.meas, m) \in Seq(Measurements)
        /\ Sorted(Append(h.cps, x)) /\ Sorted(Append(h.meas, m))
    <2>1. Timed(h.cps, x.t) /\ Timed(h.meas, m.t)
      BY <1>3
    <2> QED BY <1>1, <1>3, <2>1 DEF Timed, Sorted
  <1>7. c \in Seq(Checkpoints) /\ Len(c) \in 1 .. cap
    BY <1>1, <1>3, Timestamps, TimedPush
  <1>8. q \in Seq(Measurements) /\ Len(q) \in 1 .. cap
    BY <1>1, Timestamps, TimedPush
  <1>9. \E k \in Nat : Suffix(c, Append(h.cps, x), k)
    BY <1>1, <1>3, PushSuffix
  <1>10. \E k \in Nat : Suffix(q, Append(h.meas, m), k) /\ (k > 0 => Len(q) = cap)
    BY <1>1, PushSuffix
  <1> HIDE DEF c, q
  <1> PICK k \in Nat : Suffix(c, Append(h.cps, x), k)
    BY <1>9
  <1> PICK n \in Nat : Suffix(q, Append(h.meas, m), n) /\ (n > 0 => Len(q) = cap)
    BY <1>10
  <1>11. Len(c) >= 1 /\ (n > 0 => Len(q) >= Len(c))
    BY <1>1, <1>7, <1>8
  <1>12. Kept(f2, c, q)
    BY Zenon, <1>5, <1>6, <1>7, <1>8, <1>11, KeptSuffix
  <1> QED BY <1>4, <1>12

(* configure_time_sync: both rings are truncated to the same capacity.      *)
LEMMA TruncatedKept ==
    ASSUME NEW f, NEW cps \in Seq(Checkpoints), Len(cps) >= 1, Sorted(cps),
           NEW meas \in Seq(Measurements), Sorted(meas), Kept(f, cps, meas),
           NEW cap \in Nat \ {0}
    PROVE  Kept(f, TruncateFront(cps, cap), TruncateFront(meas, cap))
  <1> DEFINE c == TruncateFront(cps, cap)
             q == TruncateFront(meas, cap)
  <1>1. c \in Seq(Checkpoints) /\ Len(c) <= cap /\ Len(c) >= 1
    BY TruncateWindow
  <1>2. q \in Seq(Measurements)
    BY TruncateWindow
  <1>3. \E k \in Nat : Suffix(c, cps, k)
    BY TruncateSuffix
  <1>4. \E k \in Nat : Suffix(q, meas, k) /\ (k > 0 => Len(q) = cap)
    BY TruncateSuffix
  <1> HIDE DEF c, q
  <1> PICK k \in Nat : Suffix(c, cps, k)
    BY <1>3
  <1> PICK n \in Nat : Suffix(q, meas, n) /\ (n > 0 => Len(q) = cap)
    BY <1>4
  <1>5. n > 0 => Len(q) >= Len(c)
    BY <1>1, <1>2
  <1> QED BY <1>1, <1>2, <1>5, KeptSuffix DEF c, q

(* restore_to_snapshot, of a past state of the filter                       *)
LEMMA RestoredKept ==
    ASSUME NEW h \in Histories, NEW f \in Filters, InEpochOrder(h, f.t),
           Kept(f, h.cps, h.meas), NEW s \in Filters, IsPast(s, f)
    PROVE  Kept(s, RestoreToSnapshot(h, s).cps, RestoreToSnapshot(h, s).meas)
  <1> DEFINE cps == UpTo(h.cps, s.t)
             meas == UpTo(h.meas, s.t)
             cut == [config |-> h.config, imu |-> UpTo(h.imu, s.t), cps |-> cps, meas |-> meas]
             same == [cut EXCEPT !.cps[Len(cut.cps)].snapshot = s]
             x == [t |-> s.t, snapshot |-> s]
             cap == h.config.cp
  <1>1. /\ s.t \in Nat /\ s.t \in Epochs /\ cap \in Nat \ {0}
        /\ h.cps \in Seq(Checkpoints) /\ Sorted(h.cps) /\ Len(h.cps) >= 1
        /\ h.meas \in Seq(Measurements) /\ Sorted(h.meas)
    <2>1. s.t \in Nat /\ s.t \in Epochs
      BY Zenon, Timestamps DEF Filters
    <2>2. Timed(h.cps, f.t) /\ Timed(h.meas, f.t)
      BY OrderParts
    <2>3. /\ cap \in Nat \ {0} /\ h.cps \in Seq(Checkpoints) /\ Len(h.cps) >= 1
          /\ h.meas \in Seq(Measurements)
      BY HistoryFields
    <2> QED BY <2>1, <2>2, <2>3 DEF Timed
  <1>2. /\ cps \in Seq(Checkpoints) /\ Len(cps) <= cap /\ Timed(cps, s.t)
        /\ meas \in Seq(Measurements) /\ Timed(meas, s.t)
    BY Zenon, <1>1, CutHistory
  <1>3. x \in Checkpoints /\ x.t = s.t /\ x.snapshot = s
    BY <1>1 DEF Checkpoints
  <1>4. \A e \in Epochs : /\ s.t < e => Len(s.at[e]) = 0
                          /\ e <= s.t => s.at[e] = f.at[e]
    <2>1. \A e \in Epochs : s.at[e] = IF e <= s.t THEN f.at[e] ELSE <<>>
      BY DEF IsPast
    <2>2. \A e \in Epochs : s.t < e => ~ (e <= s.t)
      BY <1>1, EpochsAreNat
    <2> QED BY <2>1, <2>2
  <1>5. RestoreToSnapshot(h, s) = IF cps # <<>> /\ Back(cps).t = s.t THEN same
                                  ELSE PushCheckpoint(cut, s)
    BY DEF RestoreToSnapshot
  <1>6. ASSUME cps # <<>> PROVE Len(cps) >= 1 /\ Kept(s, cps, meas)
    <2>1. Len(cps) >= 1
      BY <1>2, <1>6
    <2>2. /\ Faithful(h.cps, h.meas) /\ Backed(h.cps, h.meas)
          /\ \A e \in Epochs : h.cps[1].t < e => Len(f.at[e]) = Count(h.meas, e)
      BY DEF Kept, Counted
    <2>3. \A e \in Epochs : h.cps[1].t < e /\ e <= s.t => Len(s.at[e]) = Count(h.meas, e)
      BY <1>4, <2>2
    <2> QED BY Zenon, <1>1, <1>4, <2>1, <2>2, <2>3, KeptCut
  <1>7. CASE cps # <<>> /\ Back(cps).t = s.t
    <2> DEFINE n == Len(cps)
               last == [cps[n] EXCEPT !.snapshot = s]
               new == [cps EXCEPT ![n] = last]
    <2>1. n >= 1 /\ Kept(s, cps, meas)
      BY <1>6, <1>7
    <2>2. n \in 1 .. n /\ cps[n] \in Checkpoints
      BY <1>2, <2>1
    <2>3. last \in Checkpoints /\ last.t = cps[n].t /\ last.snapshot = s
      BY <2>2 DEF Checkpoints
    <2>4. same.cps = new /\ same.meas = meas
      OBVIOUS
    <2> HIDE DEF cps, meas, last
    <2>5. /\ new \in Seq(Checkpoints) /\ Len(new) = n
          /\ \A i \in 1 .. n : new[i] = IF i = n THEN last ELSE cps[i]
      BY <1>2, <2>2, <2>3, ExceptSeq
    <2>6. /\ \A i \in 1 .. n : new[i].t = cps[i].t
          /\ \A i \in 1 .. n : new[i].snapshot = IF i = n THEN s ELSE cps[i].snapshot
      <3> HIDE DEF new, n
      <3> SUFFICES ASSUME NEW i \in 1 .. n
                   PROVE  /\ new[i].t = cps[i].t
                          /\ new[i].snapshot = IF i = n THEN s ELSE cps[i].snapshot
        OBVIOUS
      <3>1. CASE i = n
        BY <2>3, <2>5, <3>1
      <3>2. CASE i # n
        BY <2>5, <3>2
      <3> QED BY <3>1, <3>2
    <2> HIDE DEF new
    <2>7. Kept(s, new, meas)
      BY <1>2, <2>1, <2>5, <2>6, KeptReplaced
    <2> QED BY Zenon, <1>5, <1>7, <2>4, <2>7
  <1>8. CASE ~ (cps # <<>> /\ Back(cps).t = s.t)
    <2> DEFINE c == BoundedPush(cps, cap, x)
    <2>1. PushCheckpoint(cut, s) = [config |-> h.config, imu |-> UpTo(h.imu, s.t), cps |-> c,
                                    meas |-> meas]
      BY DEF PushCheckpoint
    <2>2. Kept(s, c, meas)
      <3>1. CASE cps = <<>>
        <4>1. Len(cps) # cap
          BY <1>1, <3>1
        <4>2. c = Append(cps, x)
          BY <4>1 DEF BoundedPush
        <4>3. Len(c) = 1 /\ c[1] = x
          BY <3>1, <4>2
        <4> HIDE DEF c, cps
        <4>4. \A i \in 1 .. Len(meas) : meas[i].t \in Nat /\ meas[i].t <= s.t
          BY <1>2, Timestamps DEF Timed
        <4> HIDE DEF meas, x
        <4>5. Counted(s, c, meas)
          <5> SUFFICES ASSUME NEW e \in Epochs, s.t < e PROVE Len(s.at[e]) = Count(meas, e)
            BY <1>3, <4>3 DEF Counted
          <5>1. {i \in 1 .. Len(meas) : meas[i].t = e} = {}
            BY <1>1, <4>4, EpochsAreNat
          <5> QED BY <1>4, <5>1, FS_EmptySet DEF Count
        <4>6. Faithful(c, meas)
          <5>1. \A k \in 1 .. Len(c) : c[k].t = s.t /\ c[1].t = s.t
            BY <1>3, <4>3
          <5>2. \A e \in Epochs : ~ (s.t < e /\ e <= s.t)
            BY <1>1, EpochsAreNat
          <5> QED BY <5>1, <5>2 DEF Faithful
        <4>7. Newer(c, meas) = {}
          BY <1>1, <1>3, <4>3, <4>4 DEF Newer
        <4>8. Backed(c, meas)
          <5> DEFINE g == [i \in {} |-> 2]
          <5>1. g \in [Newer(c, meas) -> 2 .. Len(c)] /\ Backing(g, c, meas)
            BY <4>7 DEF Backing
          <5> QED BY Zenon, <5>1 DEF Backed
        <4> QED BY <4>5, <4>6, <4>8 DEF Kept
      <3>2. CASE cps # <<>>
        <4>1. Len(cps) >= 1 /\ Kept(s, cps, meas)
          BY <1>6, <3>2
        <4> HIDE DEF cps, meas, x, cap
        <4>2. Kept(s, Append(cps, x), meas)
          BY <1>2, <1>3, <4>1, KeptCheckpoint
        <4>3. /\ Append(cps, x) \in Seq(Checkpoints) /\ Sorted(Append(cps, x))
              /\ Sorted(meas)
          <5>1. Timed(cps, x.t) /\ Timed(meas, x.t)
            BY <1>2, <1>3
          <5>2. /\ Append(cps, x) \in Seq(Checkpoints) /\ Len(Append(cps, x)) = Len(cps) + 1
                /\ \A i \in 1 .. Len(cps) : Append(cps, x)[i] = cps[i]
                /\ Append(cps, x)[Len(cps) + 1] = x /\ Len(cps) \in Nat
            BY <1>2, <1>3
          <5>3. Sorted(Append(cps, x))
            <6> SUFFICES ASSUME NEW i \in 1 .. Len(cps) + 1, NEW j \in 1 .. Len(cps) + 1, i < j
                         PROVE  Append(cps, x)[i].t <= Append(cps, x)[j].t
              BY <5>2 DEF Sorted
            <6>1. i \in 1 .. Len(cps)
              BY <5>2
            <6>2. CASE j = Len(cps) + 1
              BY <5>1, <5>2, <6>1, <6>2 DEF Timed
            <6>3. CASE j # Len(cps) + 1
              <7>1. j \in 1 .. Len(cps)
                BY <5>2, <6>3
              <7> QED BY <5>1, <5>2, <6>1, <7>1 DEF Timed, Sorted
            <6> QED BY <6>2, <6>3
          <5> QED BY <5>1, <5>2, <5>3 DEF Timed
        <4>4. c \in Seq(Checkpoints) /\ Len(c) \in 1 .. cap
          BY <1>1, <1>2, <1>3, Timestamps, TimedPush
        <4>5. \E k \in Nat : Suffix(c, Append(cps, x), k)
          BY <1>1, <1>2, <1>3, PushSuffix
        <4> HIDE DEF c
        <4> PICK k \in Nat : Suffix(c, Append(cps, x), k)
          BY <4>5
        <4> PICK n \in Nat : n = 0
          OBVIOUS
        <4>6. Suffix(meas, meas, n) /\ (n > 0 => Len(meas) >= Len(c)) /\ Len(c) >= 1
          BY <1>1, <1>2, <4>4 DEF Suffix
        <4> QED BY Zenon, <1>2, <4>2, <4>3, <4>4, <4>6, KeptSuffix
      <3> QED BY <3>1, <3>2
    <2> QED BY <1>5, <1>8, <2>1, <2>2
  <1> QED BY <1>7, <1>8

-----------------------------------------------------------------------------
(* Filters know no measurement of the future *)

(* A checkpoint that is pushed is as timely as its filter.                  *)
LEMMA PushTimely ==
    ASSUME NEW q \in Seq(Checkpoints), NEW cap \in Nat \ {0}, Len(q) <= cap,
           NEW x \in Checkpoints, Timely(x.snapshot),
           \A k \in 1 .. Len(q) : Timely(q[k].snapshot)
    PROVE  \A k \in 1 .. Len(BoundedPush(q, cap, x)) : Timely(BoundedPush(q, cap, x)[k].snapshot)
  <1> PICK r \in Seq(Checkpoints) : /\ Window(r, q) /\ Len(r) < cap
                                    /\ BoundedPush(q, cap, x) = Append(r, x)
    BY PushWindow
  <1> PICK n \in Nat : Len(r) + n <= Len(q) /\ \A i \in 1 .. Len(r) : r[i] = q[i + n]
    BY Zenon DEF Window
  <1>1. \A i \in 1 .. Len(r) : i + n \in 1 .. Len(q)
    OBVIOUS
  <1>2. \A i \in 1 .. Len(r) : Timely(r[i].snapshot)
    BY <1>1
  <1>3. /\ Len(Append(r, x)) = Len(r) + 1 /\ Append(r, x)[Len(r) + 1] = x
        /\ \A i \in 1 .. Len(r) : Append(r, x)[i] = r[i]
    OBVIOUS
  <1>4. \A i \in 1 .. Len(r) + 1 : i \in 1 .. Len(r) \/ i = Len(r) + 1
    OBVIOUS
  <1> QED BY <1>2, <1>3, <1>4

(* A window of checkpoints has no snapshot ahead of its own epoch.          *)
LEMMA WindowTimely ==
    ASSUME NEW q \in Seq(Checkpoints), NEW r \in Seq(Checkpoints), Window(r, q),
           \A k \in 1 .. Len(q) : Timely(q[k].snapshot)
    PROVE  \A k \in 1 .. Len(r) : Timely(r[k].snapshot)
  <1> PICK n \in Nat : Len(r) + n <= Len(q) /\ \A i \in 1 .. Len(r) : r[i] = q[i + n]
    BY Zenon DEF Window
  <1>1. \A i \in 1 .. Len(r) : i + n \in 1 .. Len(q)
    OBVIOUS
  <1> QED BY <1>1

(* A correction is of the filter's own epoch, a replay only goes forward.   *)
LEMMA CorrectTimely ==
    ASSUME NEW f \in Filters, Timely(f), NEW k \in GnssKinds
    PROVE  Timely(Correct(f, k))
  <1>1. f.t \in Nat /\ f.at \in [Epochs -> Seq(GnssKinds)]
    BY Timestamps DEF Filters
  <1>2. /\ Correct(f, k).t = f.t
        /\ Correct(f, k).at = [f.at EXCEPT ![f.t] = Append(f.at[f.t], k)]
    BY DEF Correct, Filters
  <1>3. \A e \in Epochs : f.t < e => e # f.t
    BY <1>1, EpochsAreNat
  <1> QED BY <1>1, <1>2, <1>3 DEF Timely

(* A replay changes no measurement the filter has applied.                  *)
LEMMA ReplayTimely ==
    ASSUME NEW f \in Filters, Timely(f), NEW target \in Epochs, NEW imu, f.t <= target
    PROVE  Timely(ReplayImu(f, target, imu)) /\ ReplayImu(f, target, imu).at = f.at
  <1>1. f.t \in Nat /\ target \in Nat
    BY Timestamps, EpochsAreNat
  <1>2. ReplayImu(f, target, imu).at = f.at /\ ReplayImu(f, target, imu).t = target
    BY DEF ReplayImu, Filters
  <1>3. \A e \in Epochs : target < e => f.t < e
    BY <1>1, EpochsAreNat
  <1> QED BY <1>2, <1>3 DEF Timely

(* push_stored_measurement and the checkpoint of the corrected filter       *)
LEMMA MeasurementTimely ==
    ASSUME NEW h \in Histories, NEW m \in Measurements, NEW f \in Filters,
           AllTimely(f, h.cps)
    PROVE  AllTimely(f, PushMeasurement(h, m, f).cps)
  <1> DEFINE x == [t |-> f.t, snapshot |-> f]
             q == BoundedPush(h.meas, h.config.cp, m)
             g == [config |-> h.config, imu |-> h.imu, cps |-> h.cps, meas |-> q]
  <1>1. /\ h.config.cp \in Nat \ {0} /\ h.cps \in Seq(Checkpoints) /\ Len(h.cps) <= h.config.cp
        /\ h = [config |-> h.config, imu |-> h.imu, cps |-> h.cps, meas |-> h.meas]
    BY HistoryFields
  <1>2. x \in Checkpoints /\ x.snapshot = f
    BY DEF Checkpoints, Filters
  <1>3. PushMeasurement(h, m, f).cps = BoundedPush(h.cps, h.config.cp, x)
    <2>1. [h EXCEPT !.meas = q] = g
      BY <1>1
    <2>2. PushMeasurement(h, m, f) = PushCheckpoint(g, f)
      BY <2>1 DEF PushMeasurement
    <2> HIDE DEF q
    <2>3. PushCheckpoint(g, f).cps = BoundedPush(h.cps, h.config.cp, x)
      BY DEF PushCheckpoint
    <2> QED BY <2>2, <2>3
  <1> HIDE DEF x
  <1> QED BY <1>1, <1>2, <1>3, PushTimely DEF AllTimely

(* restore_to_snapshot keeps the checkpoints' snapshots timely.             *)
LEMMA RestoredTimely ==
    ASSUME NEW h \in Histories, NEW s \in Filters, Timely(s),
           \A k \in 1 .. Len(h.cps) : Timely(h.cps[k].snapshot)
    PROVE  AllTimely(s, RestoreToSnapshot(h, s).cps)
  <1> DEFINE cps == UpTo(h.cps, s.t)
             cut == [config |-> h.config, imu |-> UpTo(h.imu, s.t), cps |-> cps,
                     meas |-> UpTo(h.meas, s.t)]
             same == [cut EXCEPT !.cps[Len(cut.cps)].snapshot = s]
             x == [t |-> s.t, snapshot |-> s]
             n == Len(cps)
             last == [cps[n] EXCEPT !.snapshot = s]
             new == [cps EXCEPT ![n] = last]
  <1>1. h.cps \in Seq(Checkpoints) /\ Len(h.cps) <= h.config.cp /\ h.config.cp \in Nat \ {0}
    BY HistoryFields
  <1>2. cps \in Seq(Checkpoints) /\ Window(cps, h.cps) /\ Len(cps) <= Len(h.cps)
    BY <1>1, SplitWindows
  <1>3. \A k \in 1 .. Len(cps) : Timely(cps[k].snapshot)
    <2> HIDE DEF cps
    <2> QED BY <1>1, <1>2, WindowTimely
  <1>4. RestoreToSnapshot(h, s) = IF cps # <<>> /\ Back(cps).t = s.t THEN same
                                  ELSE PushCheckpoint(cut, s)
    BY DEF RestoreToSnapshot
  <1>5. PushCheckpoint(cut, s).cps = BoundedPush(cps, h.config.cp, x)
    BY DEF PushCheckpoint
  <1>6. x \in Checkpoints /\ x.snapshot = s
    BY DEF Checkpoints, Filters
  <1>7. same.cps = new
    OBVIOUS
  <1>8. Len(cps) <= h.config.cp
    BY <1>1, <1>2
  <1> HIDE DEF x, cps
  <1>9. \A k \in 1 .. Len(BoundedPush(cps, h.config.cp, x)) :
           Timely(BoundedPush(cps, h.config.cp, x)[k].snapshot)
    BY <1>1, <1>2, <1>3, <1>6, <1>8, PushTimely
  <1>10. ASSUME cps # <<>> PROVE \A k \in 1 .. Len(new) : Timely(new[k].snapshot)
    <2>1. n \in 1 .. Len(cps) /\ cps[n] \in Checkpoints
      BY <1>2, <1>10
    <2>2. last \in Checkpoints /\ last.snapshot = s
      BY <2>1 DEF Checkpoints
    <2> HIDE DEF last, n
    <2>3. /\ Len(new) = Len(cps)
          /\ \A i \in 1 .. Len(cps) : new[i] = IF i = n THEN last ELSE cps[i]
      BY <1>2, <2>1, <2>2, ExceptSeq
    <2> HIDE DEF new
    <2> QED BY <1>3, <2>2, <2>3
  <1> QED BY <1>4, <1>5, <1>7, <1>9, <1>10 DEF AllTimely

-----------------------------------------------------------------------------
(* KeptInv is inductive *)

LEMMA InitKept ==
    ASSUME Init PROVE KeptInv
  <1> PICK c \in Configs : hist = NewHistory(c)
    BY DEF Init
  <1>1. /\ filter = NewFilter /\ saved = [filter |-> filter, hist |-> hist, foreign |-> FALSE]
        /\ work = {} /\ foreign = FALSE
    BY DEF Init
  <1>2. /\ Len(hist.cps) = 1 /\ hist.cps[1].snapshot = NewFilter /\ hist.cps[1].t = 0
        /\ hist.meas = <<>>
    BY DEF NewHistory
  <1>3. Timely(NewFilter) /\ \A e \in Epochs : Len(NewFilter.at[e]) = 0
    BY DEF Timely, NewFilter
  <1>4. \A e : Count(<<>>, e) = 0
    <2>1. \A e : {i \in 1 .. Len(<<>>) : <<>>[i].t = e} = {}
      OBVIOUS
    <2> QED BY <2>1, FS_EmptySet DEF Count
  <1>5. Kept(filter, hist.cps, hist.meas)
    <2>1. Counted(filter, hist.cps, hist.meas)
      BY <1>1, <1>2, <1>3, <1>4 DEF Counted
    <2>2. Faithful(hist.cps, hist.meas)
      BY <1>2, <1>3, <1>4 DEF Faithful
    <2>3. Newer(hist.cps, hist.meas) = {}
      BY <1>2 DEF Newer
    <2>4. Backed(hist.cps, hist.meas)
      <3> DEFINE g == [i \in {} |-> 2]
      <3>1. g \in [Newer(hist.cps, hist.meas) -> 2 .. Len(hist.cps)] /\ Backing(g, hist.cps, hist.meas)
        BY <2>3 DEF Backing
      <3> QED BY Zenon, <3>1 DEF Backed
    <2> QED BY <2>1, <2>2, <2>4 DEF Kept
  <1>6. AllTimely(filter, hist.cps)
    BY <1>1, <1>2, <1>3 DEF AllTimely
  <1> QED BY <1>1, <1>5, <1>6 DEF KeptInv

(* Kept looks only at the measurements of the filter.                       *)
LEMMA KeptSame ==
    ASSUME NEW f, NEW g, f.at = g.at, NEW cps, NEW meas, Kept(f, cps, meas)
    PROVE  Kept(g, cps, meas)
  BY DEF Kept, Counted

(* propagate forgets no measurement.                                        *)
LEMMA PropagateKept ==
    ASSUME IInv, KeptInv, NEW t \in Epochs, NEW k \in SampleKinds, Propagate(t, k)
    PROVE  KeptInv'
  <1>1. filter \in Filters /\ filter.t \in Nat /\ t \in Nat /\ t > filter.t /\ hist \in Histories
    BY Timestamps, EpochsAreNat DEF IInv, TypeOK, Propagate
  <1>2. filter'.at = filter.at /\ filter'.t = t
    BY <1>1 DEF Propagate, Filters
  <1>3. hist'.cps = hist.cps /\ hist'.meas = hist.meas
    BY <1>1 DEF Propagate, PushImu, Histories
  <1>4. work = {} /\ UNCHANGED <<saved, work, foreign>>
    BY DEF Propagate
  <1>5. Timely(filter')
    <2>1. \A e \in Epochs : t < e => filter.t < e
      BY <1>1, EpochsAreNat
    <2> QED BY <1>2, <2>1 DEF KeptInv, AllTimely, Timely
  <1>6. AllTimely(filter', hist'.cps)
    BY <1>3, <1>5 DEF KeptInv, AllTimely
  <1>7. ~ foreign => Kept(filter', hist'.cps, hist'.meas)
    BY <1>2, <1>3, KeptSame DEF KeptInv
  <1> QED BY <1>4, <1>6, <1>7 DEF KeptInv

(* An update at the current epoch is retained with its checkpoint.          *)
LEMMA UpdateKept ==
    ASSUME IInv, KeptInv, NEW k \in GnssKinds, Update(k)
    PROVE  KeptInv'
  <1> DEFINE m == [t |-> filter.t, kind |-> k]
  <1>1. filter \in Filters /\ hist \in Histories /\ InEpochOrder(hist, filter.t)
    BY DEF IInv, TypeOK, HistoryOrdered
  <1>2. m \in Measurements /\ m.t = filter.t /\ m.kind = k
    BY <1>1 DEF Measurements, Filters
  <1>3. /\ filter' = Correct(filter, m.kind) /\ hist' = PushMeasurement(hist, m, filter')
        /\ work = {} /\ UNCHANGED <<saved, work, foreign>>
    BY DEF Update
  <1> HIDE DEF m
  <1>4. filter' \in Filters /\ Timely(filter')
    BY <1>1, <1>2, <1>3, CorrectFilter, CorrectTimely DEF KeptInv, AllTimely
  <1>5. AllTimely(filter', hist'.cps)
    <2>1. AllTimely(filter', hist.cps)
      BY <1>4 DEF KeptInv, AllTimely
    <2> QED BY <1>1, <1>2, <1>3, <1>4, <2>1, MeasurementTimely
  <1>6. Timed(hist.cps, filter.t) /\ Timed(hist.meas, filter.t)
    BY <1>1, OrderParts
  <1>7. ~ foreign => Kept(filter', hist'.cps, hist'.meas)
    BY <1>1, <1>2, <1>3, <1>6, MeasurementKept DEF KeptInv
  <1> QED BY <1>3, <1>5, <1>7 DEF KeptInv

(* The working copy and what it has to replay hold together what was        *)
(* retained.                                                                *)
LEMMA LateBeginKept ==
    ASSUME IInv, KeptInv, NEW e \in Epochs, NEW k \in GnssKinds, LateBegin(e, k)
    PROVE  KeptInv'
  <1> DEFINE early == UpTo(hist.cps, e)
             c == Back(early)
             later == After(hist.meas, c.t)
             w == [filter |-> c.snapshot, hist |-> RebaseThrough(hist, c.t),
                   todo |-> Insert(later, [t |-> e, kind |-> k]), kind |-> k]
             n == Len(early)
  <1>1. filter \in Filters /\ hist \in Histories /\ InEpochOrder(hist, filter.t)
    BY DEF IInv, TypeOK, HistoryOrdered
  <1>2. /\ hist.cps \in Seq(Checkpoints) /\ hist.meas \in Seq(Measurements)
        /\ Sorted(hist.cps) /\ Matched(hist.cps) /\ Sorted(hist.meas)
        /\ \A i \in 1 .. Len(hist.cps) : hist.cps[i].t \in Nat
    <2>1. hist.cps \in Seq(Checkpoints) /\ hist.meas \in Seq(Measurements)
      BY <1>1, HistoryFields
    <2>2. Timed(hist.cps, filter.t) /\ Matched(hist.cps) /\ Timed(hist.meas, filter.t)
      BY <1>1, OrderParts
    <2> QED BY <2>1, <2>2, Timestamps DEF Timed
  <1>3. e \in Nat /\ early # <<>> /\ work' = {w} /\ UNCHANGED <<filter, hist, saved, foreign>>
    BY EpochsAreNat DEF LateBegin
  <1>4. w.filter = c.snapshot /\ w.hist.cps = UpTo(hist.cps, c.t) /\ w.hist.meas = UpTo(hist.meas, c.t)
    BY DEF RebaseThrough
  <1>5. /\ early \in Seq(Checkpoints) /\ n \in 0 .. Len(hist.cps)
        /\ \A i \in 1 .. n : early[i] = hist.cps[i] /\ hist.cps[i].t <= e
        /\ \A i \in 1 .. Len(hist.cps) : hist.cps[i].t <= e => i <= n
    BY <1>2, <1>3, CutIndices
  <1>c. c = early[n]
    BY DEF Back
  <1> HIDE DEF w, early
  <1>6. n \in 1 .. Len(hist.cps) /\ c = hist.cps[n] /\ c.t \in Nat /\ c.t <= e
    <2>1. n \in 1 .. n /\ n \in 1 .. Len(hist.cps)
      BY <1>3, <1>5
    <2>2. early[n] = hist.cps[n] /\ hist.cps[n].t <= e /\ hist.cps[n].t \in Nat
      BY <1>2, <1>5, <2>1
    <2> QED BY <1>c, <2>1, <2>2
  <1> HIDE DEF n, c
  <1>7. c \in Checkpoints /\ c.t = c.snapshot.t /\ Timely(c.snapshot)
    <2>1. c \in Checkpoints /\ c.t = c.snapshot.t
      BY <1>2, <1>6 DEF Matched
    <2>2. Timely(hist.cps[n].snapshot)
      BY <1>6 DEF KeptInv, AllTimely
    <2> QED BY <1>6, <2>1, <2>2
  <1>8. LastAt(hist.cps, n)
    <2> SUFFICES ASSUME NEW j \in 1 .. Len(hist.cps), n < j PROVE hist.cps[n].t < hist.cps[j].t
      BY DEF LastAt
    <2>1. ~ (hist.cps[j].t <= e)
      BY <1>5, <1>6
    <2>2. hist.cps[j].t \in Nat /\ hist.cps[n].t \in Nat /\ hist.cps[n].t <= e
      BY <1>2, <1>6
    <2> QED BY ONLY <1>3, <2>1, <2>2
  <1>9. Len(UpTo(hist.cps, c.t)) >= 1
    <2>1. hist.cps[n].t <= c.t
      BY <1>6
    <2> QED BY <1>2, <1>6, <2>1, SplitOrdered
  <1>10. \A d \in Epochs : c.t < d => Len(c.snapshot.at[d]) = 0
    BY <1>7 DEF Timely
  <1>11. AllTimely(w.filter, w.hist.cps)
    <2>1. UpTo(hist.cps, c.t) \in Seq(Checkpoints) /\ Window(UpTo(hist.cps, c.t), hist.cps)
      BY <1>2, SplitWindows
    <2>2. \A i \in 1 .. Len(UpTo(hist.cps, c.t)) : Timely(UpTo(hist.cps, c.t)[i].snapshot)
      BY <1>2, <2>1, WindowTimely DEF KeptInv, AllTimely
    <2> QED BY <1>4, <1>7, <2>2 DEF AllTimely
  <1>12. ASSUME ~ foreign PROVE Kept(w.filter, w.hist.cps, w.hist.meas)
    <2>1. Faithful(hist.cps, hist.meas) /\ Backed(hist.cps, hist.meas)
      BY <1>12 DEF KeptInv, Kept
    <2>2. \A d \in Epochs : hist.cps[1].t < d /\ d <= c.t =>
             Len(c.snapshot.at[d]) = Count(hist.meas, d)
      BY <1>6, <1>8, <2>1 DEF Faithful
    <2>3. Kept(c.snapshot, UpTo(hist.cps, c.t), UpTo(hist.meas, c.t))
      BY Zenon, <1>2, <1>6, <1>9, <1>10, <2>1, <2>2, KeptCut
    <2> QED BY <1>4, <2>3
  <1> QED BY <1>3, <1>11, <1>12 DEF KeptInv

(* One turn of the replay loop applies a measurement and retains it.        *)
LEMMA LateReplayKept ==
    ASSUME IInv, KeptInv, LateReplay
    PROVE  KeptInv'
  <1> PICK w \in work :
        /\ w.todo # <<>>
        /\ CanReplay(w.filter, Head(w.todo).t, hist.imu)
        /\ LET f == Correct(ReplayImu(w.filter, Head(w.todo).t, hist.imu), Head(w.todo).kind)
           IN  work' = {[filter |-> f, hist |-> PushMeasurement(w.hist, Head(w.todo), f),
                         todo |-> Tail(w.todo), kind |-> w.kind]}
        /\ UNCHANGED <<filter, hist, saved, foreign, calls>>
    BY DEF LateReplay
  <1> DEFINE m == Head(w.todo)
             g == ReplayImu(w.filter, m.t, hist.imu)
             f == Correct(g, m.kind)
             h == PushMeasurement(w.hist, m, f)
             x == [filter |-> f, hist |-> h, todo |-> Tail(w.todo), kind |-> w.kind]
  <1>1. /\ w \in WorkCopies /\ CopyOrdered(w, filter.t) /\ hist.imu \in Seq(Samples)
    BY TypeParts, HistoryFields DEF IInv
  <1>2. w.filter \in Filters /\ w.hist \in Histories /\ w.todo \in Seq(Measurements)
    BY <1>1 DEF WorkCopies
  <1>3. work' = {x}
    OBVIOUS
  <1>4. m \in Measurements /\ m.t \in Epochs /\ m.t \in Nat /\ m.kind \in GnssKinds
    <2>1. m \in Measurements
      BY <1>2, HeadTailProperties
    <2> HIDE DEF m
    <2> QED BY Zenon, <2>1, EpochsAreNat DEF Measurements
  <1>5. w.filter.t <= m.t
    BY DEF CanReplay
  <1> HIDE DEF m
  <1>6. /\ g \in Filters /\ g.t = m.t /\ Timely(g) /\ g.at = w.filter.at
    BY <1>1, <1>2, <1>4, <1>5, ReplayFilter, ReplayTimely DEF KeptInv, AllTimely
  <1> HIDE DEF g
  <1>7. f \in Filters /\ Timely(f)
    BY <1>4, <1>6, CorrectFilter, CorrectTimely
  <1>8. AllTimely(f, h.cps)
    <2>1. AllTimely(f, w.hist.cps)
      BY <1>7 DEF KeptInv, AllTimely
    <2> HIDE DEF f
    <2> QED BY <1>2, <1>4, <1>7, <2>1, MeasurementTimely
  <1>9. Timed(w.hist.cps, g.t) /\ Timed(w.hist.meas, g.t)
    <2>1. Timed(w.hist.cps, w.filter.t) /\ Timed(w.hist.meas, w.filter.t) /\ w.filter.t \in Nat
      BY <1>1, <1>2, Timestamps DEF CopyOrdered
    <2>2. /\ \A i \in 1 .. Len(w.hist.cps) : w.hist.cps[i].t \in Nat
          /\ \A i \in 1 .. Len(w.hist.meas) : w.hist.meas[i].t \in Nat
      BY <1>2, HistoryFields, Timestamps
    <2> QED BY <1>4, <1>5, <1>6, <2>1, <2>2 DEF Timed
  <1>10. ASSUME ~ foreign PROVE Kept(f, h.cps, h.meas)
    <2>1. Kept(g, w.hist.cps, w.hist.meas)
      BY <1>6, <1>10, KeptSame DEF KeptInv
    <2> QED BY <1>2, <1>4, <1>6, <1>9, <2>1, MeasurementKept
  <1>11. x.filter = f /\ x.hist = h
    OBVIOUS
  <1> HIDE DEF x, f, h
  <1> QED BY <1>3, <1>8, <1>10, <1>11 DEF KeptInv

(* After the last replay nothing is left to be applied.                     *)
LEMMA LateCommitKept ==
    ASSUME IInv, KeptInv, LateCommit
    PROVE  KeptInv'
  <1> PICK w \in work : /\ CanReplay(w.filter, filter.t, hist.imu)
                        /\ filter' = ReplayImu(w.filter, filter.t, hist.imu)
                        /\ hist' = w.hist
                        /\ work' = {}
                        /\ UNCHANGED <<saved, foreign>>
    BY DEF LateCommit
  <1>1. w.filter \in Filters /\ filter.t \in Epochs
    BY TypeParts DEF IInv, WorkCopies, Filters
  <1>2. w.filter.t <= filter.t
    BY DEF CanReplay
  <1>3. Timely(filter') /\ filter'.at = w.filter.at
    BY <1>1, <1>2, ReplayTimely DEF KeptInv, AllTimely
  <1>4. AllTimely(filter', hist'.cps)
    BY <1>3 DEF KeptInv, AllTimely
  <1>5. ~ foreign => Kept(filter', hist'.cps, hist'.meas)
    BY <1>3, KeptSame DEF KeptInv
  <1> QED BY <1>4, <1>5 DEF KeptInv

(* set_config drops a measurement only with the checkpoint before it.       *)
LEMMA ConfigureKept ==
    ASSUME IInv, KeptInv, NEW c \in Configs, Configure(c)
    PROVE  KeptInv'
  <1>1. hist \in Histories /\ InEpochOrder(hist, filter.t) /\ c.cp \in Nat \ {0}
    BY ConfigAssumption DEF IInv, TypeOK, HistoryOrdered
  <1>2. /\ hist'.cps = TruncateFront(hist.cps, c.cp) /\ hist'.meas = TruncateFront(hist.meas, c.cp)
        /\ work = {} /\ UNCHANGED <<filter, saved, work, foreign>>
    BY DEF Configure
  <1>3. /\ hist.cps \in Seq(Checkpoints) /\ Len(hist.cps) >= 1 /\ hist.meas \in Seq(Measurements)
    BY <1>1, HistoryFields
  <1>4. Sorted(hist.cps) /\ Sorted(hist.meas)
    BY <1>1, OrderParts DEF Timed
  <1>5. AllTimely(filter, hist'.cps)
    <2>1. TruncateFront(hist.cps, c.cp) \in Seq(Checkpoints) /\ Window(TruncateFront(hist.cps, c.cp), hist.cps)
      BY <1>1, <1>3, TruncateWindow
    <2>2. \A k \in 1 .. Len(hist'.cps) : Timely(hist'.cps[k].snapshot)
      BY Zenon, <1>2, <1>3, <2>1, WindowTimely DEF KeptInv, AllTimely
    <2> QED BY <2>2 DEF KeptInv, AllTimely
  <1>6. ~ foreign => Kept(filter, hist'.cps, hist'.meas)
    BY <1>1, <1>2, <1>3, <1>4, TruncatedKept DEF KeptInv
  <1> QED BY <1>2, <1>5, <1>6 DEF KeptInv

(* restore_snapshot forgets only what is newer than the snapshot.           *)
LEMMA RestoreSnapshotKept ==
    ASSUME IInv, KeptInv, RestoreSnapshot
    PROVE  KeptInv'
  <1>1. /\ filter \in Filters /\ saved.filter \in Filters /\ hist \in Histories
        /\ InEpochOrder(hist, filter.t) /\ foreign \in BOOLEAN
    BY DEF IInv, TypeOK, HistoryOrdered
  <1>2. /\ filter' = saved.filter /\ hist' = RestoreToSnapshot(hist, saved.filter)
        /\ foreign' = (foreign \/ ~ IsPast(saved.filter, filter))
        /\ work = {} /\ UNCHANGED <<saved, work>>
    BY DEF RestoreSnapshot
  <1>3. AllTimely(filter', hist'.cps)
    BY <1>1, <1>2, RestoredTimely DEF KeptInv, AllTimely
  <1>4. ASSUME ~ foreign' PROVE Kept(filter', hist'.cps, hist'.meas)
    <2>1. ~ foreign /\ IsPast(saved.filter, filter)
      BY Zenon, <1>2, <1>4
    <2>2. Kept(filter, hist.cps, hist.meas)
      BY <2>1 DEF KeptInv
    <2> QED BY <1>1, <1>2, <2>1, <2>2, RestoredKept
  <1> QED BY <1>2, <1>3, <1>4 DEF KeptInv

(* Every step of the filter preserves KeptInv.                              *)
LEMMA NextKept ==
    ASSUME IInv, KeptInv, [Next]_vars
    PROVE  KeptInv'
  <1>1. CASE LateFail
    BY <1>1 DEF LateFail, KeptInv
  <1>2. CASE UNCHANGED vars
    BY <1>2 DEF vars, KeptInv
  <1>3. ASSUME NEW k \in PseudoKinds, PseudoUpdate(k) PROVE KeptInv'
    <2>1. filter \in Filters /\ UNCHANGED <<hist, saved, work, foreign>>
      BY <1>3 DEF IInv, TypeOK, PseudoUpdate
    <2>2. filter'.at = filter.at /\ filter'.t = filter.t
      BY <1>3, <2>1 DEF PseudoUpdate, Filters
    <2>3. AllTimely(filter', hist.cps)
      BY <2>2 DEF KeptInv, AllTimely, Timely
    <2>4. ~ foreign => Kept(filter', hist.cps, hist.meas)
      BY <2>2, KeptSame DEF KeptInv
    <2> QED BY <2>1, <2>3, <2>4 DEF KeptInv
  <1>4. CASE SaveState
    <2>1. /\ saved' = [filter |-> filter, hist |-> hist, foreign |-> foreign]
          /\ UNCHANGED <<filter, hist, work, foreign>>
      BY <1>4 DEF SaveState
    <2> QED BY <2>1 DEF KeptInv
  <1>5. CASE RestoreEncoded
    <2>1. /\ work = {} /\ filter' = saved.filter /\ hist' = saved.hist /\ foreign' = saved.foreign
          /\ UNCHANGED <<saved, work>>
      BY <1>5 DEF RestoreEncoded
    <2> QED BY <2>1 DEF KeptInv
  <1> QED BY <1>1, <1>2, <1>3, <1>4, <1>5, PropagateKept, UpdateKept, LateBeginKept,
             LateReplayKept, LateCommitKept, ConfigureKept, RestoreSnapshotKept DEF Next

(* Whatever the capacities, however often the histories are trimmed, cut,   *)
(* restored or rebuilt by a late update, and unless the caller restored a   *)
(* foreign snapshot: every measurement the filter has seen since its oldest *)
(* checkpoint is still retained, so going back to any checkpoint and        *)
(* replaying loses none.                                                    *)
THEOREM NoMeasurementLost == Spec => []NothingForgotten
  <1>1. KeptInv => NothingForgotten
    BY DEF KeptInv, Kept, Counted, Count, NothingForgotten
  <1> QED BY <1>1, InitIInv, NextIInv, InitKept, NextKept, PTL DEF Spec

-----------------------------------------------------------------------------
(* Late measurements as if in order *)

(* No piece of segs contains t in its inside.                               *)
Unsplit(segs, t) == \A g \in segs : ~ (g.a < t /\ t < g.b)

(* The pseudo-measurements p are those of q up to some point.               *)
Earlier(p, q) == p \subseteq q /\ \A x \in p, y \in q : y.t < x.t => y \in p

(* s is what f was at the epoch s.t, but for pseudo-measurements that f     *)
(* may have seen since at that epoch.                                       *)
PastOf(s, f) ==
    /\ s.t <= f.t
    /\ s.segs = {g \in f.segs : g.b <= s.t} /\ Unsplit(f.segs, s.t)
    /\ \A u \in Epochs : u <= s.t => s.at[u] = f.at[u]
    /\ Earlier(s.ps, f.ps)

(* A filter was propagated over every epoch up to its own, and stopped at   *)
(* each that has a measurement.                                             *)
Tiled(f) ==
    /\ \A g \in f.segs : g.a < g.b /\ g.b <= f.t
    /\ \A p \in Epochs : p < f.t => \E g \in f.segs : g.a <= p /\ p < g.b
    /\ \A g \in f.segs, u \in Epochs : g.a < u /\ u < g.b => f.at[u] = <<>>
    /\ \A x \in f.ps : x.t <= f.t

(* What the filter was propagated over where a sample is retained are the   *)
(* pieces of that sample between its ends and the measurements inside it.   *)
SampleOf(x) == [from |-> x.from, to |-> x.t, kind |-> x.kind]
PieceOf(g, x, at) ==
    /\ x.from <= g.a /\ g.b <= x.t /\ g.of = SampleOf(x)
    /\ g.a = x.from \/ at[g.a] # <<>>
    /\ g.b = x.t \/ at[g.b] # <<>>
Sampled(f, imu) ==
    \A i \in 1 .. Len(imu), g \in f.segs :
        g.a < imu[i].t /\ imu[i].from < g.b => PieceOf(g, imu[i], f.at)

(* The measurements of epoch u in q are those of s after the first d, one   *)
(* after the other.                                                         *)
BlockAt(p, q, u, s, d) ==
    /\ p + Len(s) <= Len(q) + d
    /\ \A n \in (d + 1) .. Len(s) : q[p + n - d].t = u /\ q[p + n - d].kind = s[n]
    /\ \A i \in 1 .. Len(q) : q[i].t = u => p < i /\ i + d <= p + Len(s)
Block(q, u, s, d) == \E p \in 0 .. Len(q) : BlockAt(p, q, u, s, d)

(* The retained measurements are those the filter was corrected by.         *)
Blocks(f, cps, meas) == \A u \in Epochs : cps[1].t < u => Block(meas, u, f.at[u], 0)

(* Every checkpoint a search can find is a past of the filter, and has seen *)
(* no pseudo-measurements but those the checkpoints after it have seen.     *)
Chain(f, cps) ==
    \A k \in 1 .. Len(cps) : LastAt(cps, k) =>
        /\ PastOf(cps[k].snapshot, f)
        /\ \A j \in 1 .. Len(cps) : k < j /\ LastAt(cps, j) =>
              Earlier(cps[k].snapshot.ps, cps[j].snapshot.ps)

(* A filter and its histories agree.                                        *)
Agree(f, h) == Chain(f, h.cps) /\ Blocks(f, h.cps, h.meas)

(* f with a measurement of epoch e processed in order                       *)
Late(f, e, k) == [f EXCEPT !.at[e] = Append(f.at[e], k), !.segs = InOrder!Cut(f.segs, e)]

(* The working copy is on the way to z: it is a past of z but for the       *)
(* measurements it has still to replay.                                     *)
Underway(f, todo, z) ==
    /\ f.t <= z.t
    /\ f.segs = {g \in z.segs : g.b <= f.t} /\ Unsplit(z.segs, f.t)
    /\ \A u \in Epochs :
         /\ Len(f.at[u]) <= Len(z.at[u])
         /\ \A n \in 1 .. Len(f.at[u]) : f.at[u][n] = z.at[u][n]
         /\ Block(todo, u, z.at[u], Len(f.at[u]))
    /\ Earlier(f.ps, z.ps)

(* The pseudo-measurements of a checkpoint older than the saved filter are  *)
(* among its own: a restored snapshot may need no others.                   *)
SavedSince(s, t, ps) == t < s.t => Earlier(ps, s.ps)
AllSavedSince(s, cps) ==
    \A k \in 1 .. Len(cps) : LastAt(cps, k) => SavedSince(s, cps[k].t, cps[k].snapshot.ps)

WorkInOrder(w) ==
    /\ Agree(w.filter, w.hist)
    /\ w.hist.imu = hist.imu
    /\ \E e \in Epochs : e < filter.t /\ Underway(w.filter, w.todo, Late(filter, e, w.kind))
    /\ SavedSince(saved.filter, w.filter.t, w.filter.ps)
    /\ AllSavedSince(saved.filter, w.hist.cps)

InOrderInv ==
    /\ saved.filter.t <= filter.t
    /\ saved.foreign => foreign
    /\ ~ foreign =>
         /\ Tiled(filter) /\ Sampled(filter, hist.imu) /\ Agree(filter, hist)
         /\ AllSavedSince(saved.filter, hist.cps)
         /\ \A w \in work : WorkInOrder(w)
    /\ ~ saved.foreign =>
         /\ Tiled(saved.filter) /\ Sampled(saved.filter, saved.hist.imu)
         /\ Agree(saved.filter, saved.hist)

(* A filter's parts, with the sets named above                              *)
LEMMA FilterFields ==
    ASSUME NEW f \in Filters
    PROVE  /\ f.t \in Epochs /\ f.t \in Nat
           /\ f.at \in [Epochs -> Seq(GnssKinds)]
           /\ \A u \in Epochs : f.at[u] \in Seq(GnssKinds) /\ Len(f.at[u]) \in Nat
           /\ f.segs \in SUBSET Pieces /\ f.ps \in SUBSET [kind : PseudoKinds, t : Epochs]
           /\ f = [t |-> f.t, at |-> f.at, segs |-> f.segs, ps |-> f.ps]
  <1>1. /\ f.t \in Epochs /\ f.at \in [Epochs -> Seq(GnssKinds)]
        /\ f.segs \in SUBSET Pieces /\ f.ps \in SUBSET [kind : PseudoKinds, t : Epochs]
        /\ f = [t |-> f.t, at |-> f.at, segs |-> f.segs, ps |-> f.ps]
    BY DEF Filters, Pieces
  <1>2. \A u \in Epochs : f.at[u] \in Seq(GnssKinds)
    BY <1>1
  <1>3. \A u \in Epochs : Len(f.at[u]) \in Nat
    BY <1>2, LenProperties
  <1> QED BY <1>1, <1>2, <1>3, EpochsAreNat

(* The ends of a piece are epochs.                                          *)
LEMMA PieceEnds ==
    \A g \in Pieces : g.a \in Nat /\ g.b \in Nat /\ g.a \in Epochs /\ g.b \in Epochs
  BY Zenon, EpochsAreNat DEF Pieces

(* The parts of a checkpoint                                                *)
LEMMA CheckpointFields ==
    ASSUME NEW q \in Seq(Checkpoints)
    PROVE  /\ Len(q) \in Nat
           /\ \A k \in 1 .. Len(q) : /\ q[k] \in Checkpoints /\ q[k].t \in Nat
                                     /\ q[k].t \in Epochs /\ q[k].snapshot \in Filters
  <1>1. Len(q) \in Nat /\ \A k \in 1 .. Len(q) : q[k] \in Checkpoints
    OBVIOUS
  <1>2. \A x \in Checkpoints : x.t \in Epochs /\ x.t \in Nat /\ x.snapshot \in Filters
    BY Zenon, EpochsAreNat DEF Checkpoints
  <1> QED BY <1>1, <1>2

(* The entries of a history and their epochs                                *)
LEMMA Entries ==
    ASSUME NEW q \in Seq(Measurements)
    PROVE  /\ Len(q) \in Nat
           /\ \A i \in 1 .. Len(q) : /\ q[i] \in Measurements /\ q[i].t \in Nat
                                     /\ q[i].t \in Epochs /\ q[i].kind \in GnssKinds
  <1>1. Len(q) \in Nat /\ \A i \in 1 .. Len(q) : q[i] \in Measurements
    OBVIOUS
  <1> QED BY Zenon, <1>1, EpochsAreNat DEF Measurements

-----------------------------------------------------------------------------
(* Blocks of measurements *)

(* Nothing of s is left: the history has no entry of that epoch.            *)
LEMMA BlockNone ==
    ASSUME NEW q \in Seq(Measurements), NEW u, NEW s \in Seq(GnssKinds), NEW d, d = Len(s)
    PROVE  Block(q, u, s, d) <=> \A i \in 1 .. Len(q) : q[i].t # u
  <1>1. Len(q) \in Nat /\ d \in Nat
    BY Entries
  <1>2. ASSUME NEW p \in 0 .. Len(q), NEW i \in 1 .. Len(q), p < i /\ i + d <= p + Len(s)
        PROVE  FALSE
    BY <1>1, <1>2
  <1>3. Block(q, u, s, d) => \A i \in 1 .. Len(q) : q[i].t # u
    BY <1>2 DEF Block, BlockAt
  <1>4. ASSUME \A i \in 1 .. Len(q) : q[i].t # u PROVE Block(q, u, s, d)
    <2>1. 0 \in 0 .. Len(q) /\ 0 + Len(s) <= Len(q) + d /\ (d + 1) .. Len(s) = {}
      BY <1>1
    <2>2. /\ 0 + Len(s) <= Len(q) + d
          /\ \A n \in (d + 1) .. Len(s) : q[0 + n - d].t = u /\ q[0 + n - d].kind = s[n]
          /\ \A i \in 1 .. Len(q) : q[i].t = u => 0 < i /\ i + d <= 0 + Len(s)
      BY <1>4, <2>1
    <2> QED BY <2>1, <2>2 DEF Block, BlockAt
  <1> QED BY <1>3, <1>4

(* An entry is left: the history has one of that epoch.                     *)
LEMMA BlockSome ==
    ASSUME NEW q \in Seq(Measurements), NEW u, NEW s \in Seq(GnssKinds),
           NEW d \in Nat, d < Len(s), NEW p \in 0 .. Len(q), BlockAt(p, q, u, s, d)
    PROVE  /\ p + 1 \in 1 .. Len(q) /\ q[p + 1].t = u
           /\ p + Len(s) - d \in 1 .. Len(q) /\ q[p + Len(s) - d].t = u
  <1>1. Len(q) \in Nat /\ Len(s) \in Nat
    BY Entries
  <1>2. d + 1 \in (d + 1) .. Len(s) /\ Len(s) \in (d + 1) .. Len(s) /\ p + (d + 1) - d = p + 1
    BY <1>1
  <1>3. p + 1 \in 1 .. Len(q) /\ p + Len(s) - d \in 1 .. Len(q)
    BY <1>1 DEF BlockAt
  <1>4. q[p + (d + 1) - d].t = u /\ q[p + Len(s) - d].t = u
    BY <1>2 DEF BlockAt
  <1> QED BY <1>2, <1>3, <1>4

(* A part without gaps that keeps every entry of that epoch keeps the block.*)
LEMMA BlockPart ==
    ASSUME NEW q \in Seq(Measurements), NEW r \in Seq(Measurements), NEW k \in Nat,
           Len(r) + k <= Len(q), \A i \in 1 .. Len(r) : r[i] = q[i + k],
           NEW u, \A i \in 1 .. Len(q) : q[i].t = u => k < i /\ i <= k + Len(r),
           NEW s \in Seq(GnssKinds), NEW d \in Nat, d <= Len(s), Block(q, u, s, d)
    PROVE  Block(r, u, s, d)
  <1>1. Len(q) \in Nat /\ Len(r) \in Nat /\ Len(s) \in Nat
    BY Entries
  <1>2. CASE d = Len(s)
    <2>1. \A i \in 1 .. Len(q) : q[i].t # u
      BY <1>2, BlockNone
    <2>2. \A i \in 1 .. Len(r) : i + k \in 1 .. Len(q)
      BY <1>1
    <2>3. \A i \in 1 .. Len(r) : r[i].t # u
      BY <2>1, <2>2
    <2> QED BY <1>2, <2>3, BlockNone
  <1>3. CASE d < Len(s)
    <2> PICK p \in 0 .. Len(q) : BlockAt(p, q, u, s, d)
      BY DEF Block
    <2>1. /\ p + 1 \in 1 .. Len(q) /\ q[p + 1].t = u
          /\ p + Len(s) - d \in 1 .. Len(q) /\ q[p + Len(s) - d].t = u
      BY ONLY <1>3, BlockSome, q \in Seq(Measurements), s \in Seq(GnssKinds), d \in Nat,
              p \in 0 .. Len(q), BlockAt(p, q, u, s, d)
    <2>2. k < p + 1 /\ p + Len(s) - d <= k + Len(r)
      BY <2>1
    <2>3. p - k \in 0 .. Len(r) /\ (p - k) + Len(s) <= Len(r) + d
      BY <1>1, <1>3, <2>2
    <2>4. ASSUME NEW n \in (d + 1) .. Len(s)
          PROVE  r[(p - k) + n - d].t = u /\ r[(p - k) + n - d].kind = s[n]
      <3>1. (p - k) + n - d \in 1 .. Len(r) /\ ((p - k) + n - d) + k = p + n - d
        BY SMTT(20), <1>1, <2>2, <2>3
      <3>2. q[p + n - d].t = u /\ q[p + n - d].kind = s[n]
        BY DEF BlockAt
      <3> QED BY Zenon, <3>1, <3>2
    <2>5. ASSUME NEW i \in 1 .. Len(r), r[i].t = u
          PROVE  p - k < i /\ i + d <= (p - k) + Len(s)
      <3>1. i + k \in 1 .. Len(q) /\ q[i + k].t = u
        BY <1>1, <2>5
      <3>2. p < i + k /\ (i + k) + d <= p + Len(s)
        BY <3>1 DEF BlockAt
      <3> QED BY <1>1, <3>2
    <2> QED BY Zenon, <2>3, <2>4, <2>5 DEF Block, BlockAt
  <1> QED BY <1>1, <1>2, <1>3

(* An entry of another epoch is appended.                                   *)
LEMMA BlockOther ==
    ASSUME NEW q \in Seq(Measurements), NEW m \in Measurements, NEW u, m.t # u,
           NEW s \in Seq(GnssKinds), NEW d \in Nat, Block(q, u, s, d)
    PROVE  Block(Append(q, m), u, s, d)
  <1>1. Len(q) \in Nat /\ Len(s) \in Nat
    BY Entries
  <1>2. /\ Len(Append(q, m)) = Len(q) + 1 /\ Append(q, m)[Len(q) + 1] = m
        /\ \A i \in 1 .. Len(q) : Append(q, m)[i] = q[i]
    OBVIOUS
  <1> DEFINE r == Append(q, m)
  <1> HIDE DEF r
  <1>3. Len(r) = Len(q) + 1 /\ r[Len(q) + 1] = m /\ \A i \in 1 .. Len(q) : r[i] = q[i]
    BY <1>2 DEF r
  <1> PICK p \in 0 .. Len(q) : BlockAt(p, q, u, s, d)
    BY DEF Block
  <1>4. p + Len(s) <= Len(q) + d /\ p \in 0 .. Len(r) /\ p + Len(s) <= Len(r) + d
    BY <1>1, <1>3 DEF BlockAt
  <1>5. ASSUME NEW n \in (d + 1) .. Len(s)
        PROVE  r[p + n - d].t = u /\ r[p + n - d].kind = s[n]
    <2>1. p + n - d \in 1 .. Len(q)
      BY <1>1, <1>4
    <2>2. q[p + n - d].t = u /\ q[p + n - d].kind = s[n]
      BY DEF BlockAt
    <2> QED BY <1>3, <2>1, <2>2
  <1>6. ASSUME NEW i \in 1 .. Len(r), r[i].t = u PROVE p < i /\ i + d <= p + Len(s)
    <2>1. i \in 1 .. Len(q)
      BY <1>1, <1>3, <1>6
    <2> QED BY Zenon, <1>3, <1>6, <2>1 DEF BlockAt
  <1>7. Block(r, u, s, d)
    BY Zenon, <1>4, <1>5, <1>6 DEF Block, BlockAt
  <1> QED BY <1>7 DEF r

(* A measurement that is not older than the others is appended.             *)
LEMMA BlockAppend ==
    ASSUME NEW q \in Seq(Measurements), Sorted(q), NEW m \in Measurements,
           \A i \in 1 .. Len(q) : q[i].t <= m.t,
           NEW s \in Seq(GnssKinds), Block(q, m.t, s, 0)
    PROVE  Block(Append(q, m), m.t, Append(s, m.kind), 0)
  <1>1. /\ Len(q) \in Nat /\ Len(s) \in Nat /\ m.t \in Nat /\ m.kind \in GnssKinds
        /\ \A i \in 1 .. Len(q) : q[i].t \in Nat
    <2>1. m.t \in Nat /\ m.kind \in GnssKinds
      BY Timestamps DEF Measurements
    <2>2. Len(q) \in Nat /\ Len(s) \in Nat /\ \A i \in 1 .. Len(q) : q[i].t \in Nat
      BY Entries
    <2> QED BY <2>1, <2>2
  <1>2. /\ Len(Append(q, m)) = Len(q) + 1 /\ Append(q, m)[Len(q) + 1] = m
        /\ \A i \in 1 .. Len(q) : Append(q, m)[i] = q[i]
    OBVIOUS
  <1>3. /\ Len(Append(s, m.kind)) = Len(s) + 1 /\ Append(s, m.kind)[Len(s) + 1] = m.kind
        /\ \A i \in 1 .. Len(s) : Append(s, m.kind)[i] = s[i]
    BY <1>1
  <1> DEFINE r == Append(q, m)
             z == Append(s, m.kind)
  <1> HIDE DEF r, z
  <1>4. Len(r) = Len(q) + 1 /\ r[Len(q) + 1] = m /\ \A i \in 1 .. Len(q) : r[i] = q[i]
    BY <1>2 DEF r
  <1>5. Len(z) = Len(s) + 1 /\ z[Len(s) + 1] = m.kind /\ \A i \in 1 .. Len(s) : z[i] = s[i]
    BY <1>3 DEF z
  <1> PICK p \in 0 .. Len(q) : BlockAt(p, q, m.t, s, 0)
    BY DEF Block
  <1>6. \A n \in 1 .. Len(s) : p + n \in 1 .. Len(q) /\ q[p + n].t = m.t /\ q[p + n].kind = s[n]
    <2> SUFFICES ASSUME NEW n \in 1 .. Len(s)
                 PROVE  p + n \in 1 .. Len(q) /\ q[p + n].t = m.t /\ q[p + n].kind = s[n]
      OBVIOUS
    <2>1. n \in (0 + 1) .. Len(s) /\ p + n - 0 = p + n /\ p + n \in 1 .. Len(q)
      BY <1>1 DEF BlockAt
    <2>2. q[p + n - 0].t = m.t /\ q[p + n - 0].kind = s[n]
      BY <2>1 DEF BlockAt
    <2> QED BY <2>1, <2>2
  <1> DEFINE a == Len(q) - Len(s)
  <1>7. Len(s) > 0 => p = a
    <2> SUFFICES ASSUME Len(s) > 0, p # a PROVE FALSE
      OBVIOUS
    <2>1. Len(s) \in 1 .. Len(s) /\ p + Len(s) + 1 \in 1 .. Len(q) /\ p + Len(s) < p + Len(s) + 1
      BY <1>1 DEF BlockAt
    <2>2. p + Len(s) \in 1 .. Len(q) /\ q[p + Len(s)].t = m.t
      BY <1>6, <2>1
    <2>3. q[p + Len(s)].t <= q[p + Len(s) + 1].t
      BY <2>1, <2>2 DEF Sorted
    <2>4. q[p + Len(s) + 1].t <= m.t /\ q[p + Len(s) + 1].t \in Nat
      BY <1>1, <2>1
    <2>5. q[p + Len(s) + 1].t = m.t
      BY <1>1, <2>2, <2>3, <2>4
    <2>6. p + Len(s) + 1 + 0 <= p + Len(s)
      BY <2>1, <2>5 DEF BlockAt
    <2> QED BY <1>1, <2>6
  <1>8. a \in 0 .. Len(r) /\ a + Len(z) <= Len(r) + 0
    BY <1>1, <1>4, <1>5 DEF BlockAt
  <1>9. ASSUME NEW n \in (0 + 1) .. Len(z)
        PROVE  r[a + n - 0].t = m.t /\ r[a + n - 0].kind = z[n]
    <2>1. CASE n = Len(s) + 1
      <3>1. a + n - 0 = Len(q) + 1
        BY <1>1, <2>1
      <3> QED BY <1>4, <1>5, <2>1, <3>1
    <2>2. CASE n # Len(s) + 1
      <3>1. n \in 1 .. Len(s) /\ Len(s) > 0
        BY <1>1, <1>5, <2>2
      <3>2. p + n \in 1 .. Len(q) /\ q[p + n].t = m.t /\ q[p + n].kind = s[n]
        BY <1>6, <3>1
      <3>3. p = a /\ n \in Nat /\ p \in Nat
        BY <1>7, <3>1
      <3>4. a + n - 0 = p + n
        BY ONLY <3>3
      <3>5. r[a + n - 0] = q[p + n] /\ z[n] = s[n]
        BY <1>4, <1>5, <3>1, <3>2, <3>4
      <3> QED BY <3>2, <3>5
    <2> QED BY <2>1, <2>2
  <1>10. ASSUME NEW i \in 1 .. Len(r), r[i].t = m.t PROVE a < i /\ i + 0 <= a + Len(z)
    <2>1. i + 0 <= a + Len(z)
      BY <1>1, <1>4, <1>5
    <2>2. CASE i = Len(q) + 1
      BY <1>1, <2>1, <2>2
    <2>3. CASE i # Len(q) + 1
      <3>1. i \in 1 .. Len(q) /\ q[i].t = m.t
        BY <1>1, <1>4, <1>10, <2>3
      <3>2. p < i /\ i + 0 <= p + Len(s)
        BY <3>1 DEF BlockAt
      <3>3. Len(s) > 0
        BY <1>1, <3>2
      <3> QED BY <1>7, <2>1, <3>2, <3>3
    <2> QED BY <2>2, <2>3
  <1>11. Block(r, m.t, z, 0)
    BY Zenon, <1>8, <1>9, <1>10 DEF Block, BlockAt
  <1> QED BY <1>11 DEF r, z

(* The first entry is replayed.                                             *)
LEMMA BlockHead ==
    ASSUME NEW q \in Seq(Measurements), q # <<>>,
           NEW s \in Seq(GnssKinds), NEW d \in Nat, d <= Len(s), Block(q, q[1].t, s, d)
    PROVE  d < Len(s) /\ s[d + 1] = q[1].kind /\ Block(Tail(q), q[1].t, s, d + 1)
  <1>1. Len(q) \in Nat /\ Len(s) \in Nat /\ Len(q) >= 1
    BY Entries
  <1> DEFINE r == Tail(q)
             u == q[1].t
  <1>2. Len(r) = Len(q) - 1 /\ \A i \in 1 .. Len(r) : r[i] = q[i + 1]
    BY <1>1
  <1> HIDE DEF r
  <1> PICK p \in 0 .. Len(q) : BlockAt(p, q, u, s, d)
    BY DEF Block
  <1>3. p < 1 /\ 1 + d <= p + Len(s) /\ p + Len(s) <= Len(q) + d
    BY <1>1 DEF BlockAt
  <1>4. p = 0 /\ d < Len(s) /\ d + 1 \in (d + 1) .. Len(s) /\ 0 + (d + 1) - d = 1
    BY <1>1, <1>3
  <1>5. q[0 + (d + 1) - d].kind = s[d + 1]
    BY <1>4 DEF BlockAt
  <1>6. 0 \in 0 .. Len(r) /\ 0 + Len(s) <= Len(r) + (d + 1)
    BY <1>1, <1>2, <1>3, <1>4
  <1>7. ASSUME NEW n \in ((d + 1) + 1) .. Len(s)
        PROVE  r[0 + n - (d + 1)].t = u /\ r[0 + n - (d + 1)].kind = s[n]
    <2>1. /\ n \in (d + 1) .. Len(s) /\ 0 + n - (d + 1) \in 1 .. Len(r)
          /\ (0 + n - (d + 1)) + 1 = p + n - d
      BY <1>1, <1>2, <1>3, <1>4
    <2>2. r[0 + n - (d + 1)] = q[p + n - d]
      BY <1>2, <2>1
    <2>3. q[p + n - d].t = u /\ q[p + n - d].kind = s[n]
      BY <2>1 DEF BlockAt
    <2> QED BY <2>2, <2>3
  <1>8. ASSUME NEW i \in 1 .. Len(r), r[i].t = u PROVE 0 < i /\ i + (d + 1) <= 0 + Len(s)
    <2>1. i + 1 \in 1 .. Len(q) /\ q[i + 1].t = u
      BY <1>1, <1>2, <1>8
    <2>2. (i + 1) + d <= p + Len(s)
      BY <2>1 DEF BlockAt
    <2> QED BY <1>1, <1>4, <2>2
  <1>9. Block(r, u, s, d + 1)
    BY Zenon, <1>6, <1>7, <1>8 DEF Block, BlockAt
  <1> QED BY <1>4, <1>5, <1>9 DEF r

(* What the ring keeps is still what the filter was corrected by.           *)
LEMMA BlocksDropped ==
    ASSUME NEW f \in Filters, NEW cps \in Seq(Checkpoints), Sorted(cps),
           NEW meas \in Seq(Measurements), Sorted(meas), Backed(cps, meas), Blocks(f, cps, meas),
           NEW c \in Seq(Checkpoints), Len(c) >= 1, NEW k \in Nat, Suffix(c, cps, k),
           NEW m \in Seq(Measurements), NEW n \in Nat, Suffix(m, meas, n),
           n > 0 => Len(m) >= Len(c)
    PROVE  Blocks(f, c, m)
  <1>0. /\ Len(cps) \in Nat /\ Len(c) \in Nat /\ Len(m) \in Nat /\ Len(meas) \in Nat
        /\ \A j \in 1 .. Len(cps) : cps[j].t \in Nat
        /\ \A j \in 1 .. Len(meas) : meas[j].t \in Nat
    BY Timestamps
  <1>1. /\ Len(c) + k = Len(cps) /\ \A i \in 1 .. Len(c) : c[i] = cps[i + k]
        /\ Len(m) + n = Len(meas) /\ \A i \in 1 .. Len(m) : m[i] = meas[i + n]
    BY DEF Suffix
  <1>2. 1 \in 1 .. Len(c) /\ 1 + k \in 1 .. Len(cps) /\ c[1] = cps[1 + k] /\ 1 \in 1 .. Len(cps)
    BY <1>0, <1>1
  <1>3. cps[1].t <= c[1].t /\ c[1].t \in Nat /\ cps[1].t \in Nat
    <2>1. CASE k = 0
      BY <1>0, <1>2, <2>1
    <2>2. CASE k # 0
      BY <1>0, <1>2, <2>2 DEF Sorted
    <2> QED BY <2>1, <2>2
  <1>4. Backed(c, meas)
    <2>1. /\ 0 \in Nat /\ Len(meas) + 0 <= Len(meas) /\ Len(c) + k <= Len(cps)
          /\ \A i \in 1 .. Len(meas) : meas[i] = meas[i + 0]
          /\ \A i \in 1 .. Len(meas), j \in 1 .. Len(cps) :
                c[1].t < meas[i].t /\ cps[j].t = meas[i].t => j <= k + Len(c)
      BY <1>0, <1>1
    <2> QED BY Zenon, <1>1, <2>1, BackedPart
  <1>5. \A i \in 1 .. n : meas[i].t <= c[1].t
    BY <1>0, <1>4, EvictedIsOld
  <1> SUFFICES ASSUME NEW u \in Epochs, c[1].t < u PROVE Block(m, u, f.at[u], 0)
    BY DEF Blocks
  <1>6. u \in Nat /\ cps[1].t < u
    BY <1>3, EpochsAreNat
  <1>7. f.at[u] \in Seq(GnssKinds) /\ 0 \in Nat /\ 0 <= Len(f.at[u])
    BY FilterFields
  <1>8. Block(meas, u, f.at[u], 0)
    BY <1>6 DEF Blocks
  <1>9. ASSUME NEW i \in 1 .. Len(meas), meas[i].t = u PROVE n < i /\ i <= n + Len(m)
    <2>1. ~ (u <= c[1].t)
      BY <1>3, <1>6
    <2>2. i \notin 1 .. n
      BY <1>5, <1>9, <2>1
    <2> QED BY <1>0, <1>1, <2>2
  <1>10. Len(m) + n <= Len(meas)
    BY <1>0, <1>1
  <1> HIDE DEF Block
  <1> QED BY Zenon, <1>1, <1>7, <1>8, <1>9, <1>10, BlockPart

(* A measurement was applied and is appended.                               *)
LEMMA BlocksUpdate ==
    ASSUME NEW f \in Filters, NEW m \in Measurements, NEW f2 \in Filters,
           f2.at = [f.at EXCEPT ![m.t] = Append(f.at[m.t], m.kind)],
           NEW cps \in Seq(Checkpoints), Len(cps) >= 1, NEW x,
           NEW meas \in Seq(Measurements), Timed(meas, m.t), Blocks(f, cps, meas)
    PROVE  Blocks(f2, Append(cps, x), Append(meas, m))
  <1>1. Append(cps, x)[1] = cps[1]
    BY DEF Checkpoints
  <1> SUFFICES ASSUME NEW u \in Epochs, cps[1].t < u PROVE Block(Append(meas, m), u, f2.at[u], 0)
    BY <1>1 DEF Blocks
  <1>2. Block(meas, u, f.at[u], 0) /\ 0 \in Nat
    BY DEF Blocks
  <1>3. f.at[u] \in Seq(GnssKinds) /\ f.at \in [Epochs -> Seq(GnssKinds)]
    BY FilterFields
  <1>4. CASE u = m.t
    <2>1. f2.at[u] = Append(f.at[u], m.kind)
      BY <1>3, <1>4
    <2>2. Sorted(meas) /\ \A i \in 1 .. Len(meas) : meas[i].t <= m.t
      BY DEF Timed
    <2>3. Block(Append(meas, m), m.t, Append(f.at[u], m.kind), 0)
      BY Zenon, <1>2, <1>3, <1>4, <2>2, BlockAppend
    <2> QED BY <1>4, <2>1, <2>3
  <1>5. CASE u # m.t
    <2>1. f2.at[u] = f.at[u]
      BY <1>3, <1>5
    <2> QED BY <1>2, <1>3, <1>5, <2>1, BlockOther
  <1> QED BY <1>4, <1>5

(* The measurements up to epoch t are those of a filter of that epoch.      *)
LEMMA BlocksCut ==
    ASSUME NEW f \in Filters, NEW cps, NEW meas \in Seq(Measurements), Sorted(meas),
           Blocks(f, cps, meas),
           NEW s \in Filters, Timely(s), \A u \in Epochs : u <= s.t => s.at[u] = f.at[u],
           NEW c, c[1].t \in Nat, cps[1].t \in Nat, cps[1].t <= c[1].t \/ s.t <= c[1].t
    PROVE  Blocks(s, c, UpTo(meas, s.t))
  <1> DEFINE r == UpTo(meas, s.t)
  <1>1. s.t \in Nat /\ Len(meas) \in Nat /\ \A i \in 1 .. Len(meas) : meas[i].t \in Nat
    BY FilterFields, Entries
  <1>2. /\ r \in Seq(Measurements) /\ Len(r) \in 0 .. Len(meas)
        /\ \A i \in 1 .. Len(r) : r[i] = meas[i] /\ meas[i].t <= s.t
        /\ \A i \in 1 .. Len(meas) : meas[i].t <= s.t => i <= Len(r)
    BY <1>1, CutIndices
  <1> HIDE DEF r
  <1> SUFFICES ASSUME NEW u \in Epochs, c[1].t < u PROVE Block(r, u, s.at[u], 0)
    BY DEF Blocks, r
  <1>3. u \in Nat /\ (u <= s.t => cps[1].t < u) /\ s.at[u] \in Seq(GnssKinds)
    <2>1. u \in Nat /\ s.at[u] \in Seq(GnssKinds)
      BY EpochsAreNat, FilterFields
    <2> QED BY <1>1, <2>1
  <1>4. CASE u <= s.t
    <2>1. s.at[u] = f.at[u] /\ Block(meas, u, s.at[u], 0)
      BY <1>3, <1>4 DEF Blocks
    <2>2. /\ 0 \in Nat /\ Len(r) + 0 <= Len(meas)
          /\ \A i \in 1 .. Len(r) : r[i] = meas[i + 0]
          /\ \A i \in 1 .. Len(meas) : meas[i].t = u => 0 < i /\ i <= 0 + Len(r)
      BY <1>1, <1>2, <1>3, <1>4
    <2>3. 0 <= Len(s.at[u])
      BY FilterFields
    <2> QED BY Zenon, <1>2, <1>3, <2>1, <2>2, <2>3, BlockPart
  <1>5. CASE ~ (u <= s.t)
    <2>1. s.at[u] = <<>>
      BY <1>1, <1>3, <1>5 DEF Timely
    <2>2. \A i \in 1 .. Len(r) : r[i].t # u
      BY <1>1, <1>2, <1>3, <1>5
    <2>3. 0 = Len(s.at[u])
      BY <2>1
    <2> QED BY <1>2, <1>3, <2>2, <2>3, BlockNone
  <1> QED BY <1>4, <1>5

-----------------------------------------------------------------------------
(* Chains of checkpoints *)

(* r is a part of cps with x on top, which replaces what is as new as x.    *)
ToppedAt(d, r, cps, x) ==
    /\ Len(r) >= 1 /\ Len(r) + d <= Len(cps) + 1
    /\ r[Len(r)] = x
    /\ \A k \in 1 .. Len(r) - 1 : r[k] = cps[k + d]
    /\ \A j \in 1 .. Len(cps) : d + Len(r) <= j => x.t <= cps[j].t
Topped(r, cps, x) == \E d \in Nat : ToppedAt(d, r, cps, x)

(* What is last of its epoch in r, and not x, was so in cps, and is older.  *)
LEMMA LastTopped ==
    ASSUME NEW r \in Seq(Checkpoints), NEW cps \in Seq(Checkpoints), NEW x \in Checkpoints,
           NEW d \in Nat, ToppedAt(d, r, cps, x), NEW k \in 1 .. Len(r) - 1, LastAt(r, k)
    PROVE  /\ k + d \in 1 .. Len(cps) /\ r[k] = cps[k + d]
           /\ LastAt(cps, k + d) /\ cps[k + d].t < x.t
  <1>1. /\ Len(r) \in Nat /\ Len(cps) \in Nat /\ x.t \in Nat
        /\ \A j \in 1 .. Len(cps) : cps[j].t \in Nat
    BY Timestamps
  <1>2. k + d \in 1 .. Len(cps) /\ r[k] = cps[k + d]
    BY <1>1 DEF ToppedAt
  <1>3. cps[k + d].t < x.t
    <2>1. Len(r) \in 1 .. Len(r) /\ k < Len(r) /\ k \in 1 .. Len(r) /\ r[Len(r)] = x
      BY <1>1 DEF ToppedAt
    <2>2. r[k].t < r[Len(r)].t
      BY <2>1 DEF LastAt
    <2> QED BY <1>2, <2>1, <2>2
  <1>4. ASSUME NEW j \in 1 .. Len(cps), k + d < j PROVE cps[k + d].t < cps[j].t
    <2>1. CASE d + Len(r) <= j
      <3>1. x.t <= cps[j].t
        BY <2>1 DEF ToppedAt
      <3> QED BY <1>1, <1>2, <1>3, <3>1
    <2>2. CASE ~ (d + Len(r) <= j)
      <3>1. j - d \in 1 .. Len(r) - 1 /\ (j - d) + d = j /\ k < j - d /\ j - d \in 1 .. Len(r)
        BY <1>1, <1>4, <2>2
      <3>2. r[j - d] = cps[j]
        BY Zenon, <3>1 DEF ToppedAt
      <3> QED BY <1>2, <3>1, <3>2 DEF LastAt
    <2> QED BY <2>1, <2>2
  <1> QED BY <1>2, <1>3, <1>4 DEF LastAt

(* What is left after dropping old checkpoints keeps who is last.           *)
LEMMA LastSuffix ==
    ASSUME NEW cps \in Seq(Checkpoints), NEW c \in Seq(Checkpoints), NEW k \in Nat,
           Suffix(c, cps, k), NEW i \in 1 .. Len(c), LastAt(c, i)
    PROVE  i + k \in 1 .. Len(cps) /\ c[i] = cps[i + k] /\ LastAt(cps, i + k)
  <1>1. Len(c) + k = Len(cps) /\ \A j \in 1 .. Len(c) : c[j] = cps[j + k]
    BY DEF Suffix
  <1>2. i + k \in 1 .. Len(cps) /\ c[i] = cps[i + k] /\ Len(c) \in Nat
    BY <1>1
  <1>3. ASSUME NEW j \in 1 .. Len(cps), i + k < j PROVE cps[i + k].t < cps[j].t
    <2>1. j - k \in 1 .. Len(c) /\ i < j - k /\ (j - k) + k = j
      BY <1>1, <1>2, <1>3
    <2>2. c[j - k] = cps[j]
      BY <1>1, <2>1
    <2> QED BY <1>2, <2>1, <2>2 DEF LastAt
  <1> QED BY <1>2, <1>3 DEF LastAt

(* A chain topped by a filter that the older checkpoints are pasts of       *)
LEMMA ChainTopped ==
    ASSUME NEW f, NEW f2, NEW cps \in Seq(Checkpoints), NEW r \in Seq(Checkpoints),
           NEW x \in Checkpoints, x.snapshot = f2, Topped(r, cps, x),
           Chain(f, cps), PastOf(f2, f2),
           \A k \in 1 .. Len(cps) :
              LastAt(cps, k) /\ cps[k].t < x.t => PastOf(cps[k].snapshot, f2)
    PROVE  Chain(f2, r)
  <1> PICK d \in Nat : ToppedAt(d, r, cps, x)
    BY DEF Topped
  <1>1. Len(r) \in Nat /\ Len(r) >= 1 /\ r[Len(r)].snapshot = f2
    BY DEF ToppedAt
  <1> SUFFICES ASSUME NEW k \in 1 .. Len(r), LastAt(r, k)
               PROVE  /\ PastOf(r[k].snapshot, f2)
                      /\ \A j \in 1 .. Len(r) : k < j /\ LastAt(r, j) =>
                            Earlier(r[k].snapshot.ps, r[j].snapshot.ps)
    BY DEF Chain
  <1>2. CASE k = Len(r)
    BY <1>1, <1>2
  <1>3. CASE k # Len(r)
    <2>1. k \in 1 .. Len(r) - 1
      BY <1>1, <1>3
    <2>2. /\ k + d \in 1 .. Len(cps) /\ r[k] = cps[k + d]
          /\ LastAt(cps, k + d) /\ cps[k + d].t < x.t
      BY <2>1, LastTopped
    <2>3. PastOf(r[k].snapshot, f2)
      BY <2>2
    <2>4. ASSUME NEW j \in 1 .. Len(r), k < j, LastAt(r, j)
          PROVE  Earlier(r[k].snapshot.ps, r[j].snapshot.ps)
      <3>1. CASE j = Len(r)
        BY <1>1, <2>3, <3>1 DEF PastOf
      <3>2. CASE j # Len(r)
        <4>1. j \in 1 .. Len(r) - 1
          BY <1>1, <3>2
        <4>2. j + d \in 1 .. Len(cps) /\ r[j] = cps[j + d] /\ LastAt(cps, j + d)
          BY <2>4, <4>1, LastTopped
        <4>3. k + d < j + d
          BY <2>4
        <4> QED BY <2>2, <4>2, <4>3 DEF Chain
      <3> QED BY <3>1, <3>2
    <2> QED BY <2>3, <2>4
  <1> QED BY <1>2, <1>3

(* Dropping the oldest checkpoints leaves a chain.                          *)
LEMMA ChainSuffix ==
    ASSUME NEW f, NEW cps \in Seq(Checkpoints), NEW c \in Seq(Checkpoints), NEW d \in Nat,
           Suffix(c, cps, d), Chain(f, cps)
    PROVE  Chain(f, c)
  <1> SUFFICES ASSUME NEW k \in 1 .. Len(c), LastAt(c, k)
               PROVE  /\ PastOf(c[k].snapshot, f)
                      /\ \A j \in 1 .. Len(c) : k < j /\ LastAt(c, j) =>
                            Earlier(c[k].snapshot.ps, c[j].snapshot.ps)
    BY DEF Chain
  <1>1. k + d \in 1 .. Len(cps) /\ c[k] = cps[k + d] /\ LastAt(cps, k + d)
    BY LastSuffix
  <1>2. ASSUME NEW j \in 1 .. Len(c), k < j, LastAt(c, j)
        PROVE  Earlier(c[k].snapshot.ps, c[j].snapshot.ps)
    <2>1. j + d \in 1 .. Len(cps) /\ c[j] = cps[j + d] /\ LastAt(cps, j + d)
      BY <1>2, LastSuffix
    <2>2. k + d < j + d
      BY <1>2
    <2> QED BY <1>1, <2>1, <2>2 DEF Chain
  <1> QED BY <1>1, <1>2 DEF Chain

(* The same for what the saved filter has seen                              *)
LEMMA SinceTopped ==
    ASSUME NEW s, NEW cps \in Seq(Checkpoints), NEW r \in Seq(Checkpoints), NEW x \in Checkpoints,
           Topped(r, cps, x), AllSavedSince(s, cps), SavedSince(s, x.t, x.snapshot.ps)
    PROVE  AllSavedSince(s, r)
  <1> PICK d \in Nat : ToppedAt(d, r, cps, x)
    BY DEF Topped
  <1> SUFFICES ASSUME NEW k \in 1 .. Len(r), LastAt(r, k)
               PROVE  SavedSince(s, r[k].t, r[k].snapshot.ps)
    BY DEF AllSavedSince
  <1>1. CASE k = Len(r)
    BY <1>1 DEF ToppedAt
  <1>2. CASE k # Len(r)
    <2>1. k \in 1 .. Len(r) - 1
      BY <1>2
    <2>2. k + d \in 1 .. Len(cps) /\ r[k] = cps[k + d] /\ LastAt(cps, k + d)
      BY <2>1, LastTopped
    <2> QED BY <2>2 DEF AllSavedSince
  <1> QED BY <1>1, <1>2

(* The same after checkpoints were dropped in front                         *)
LEMMA SinceSuffix ==
    ASSUME NEW s, NEW cps \in Seq(Checkpoints), NEW c \in Seq(Checkpoints), NEW d \in Nat,
           Suffix(c, cps, d), AllSavedSince(s, cps)
    PROVE  AllSavedSince(s, c)
  <1> SUFFICES ASSUME NEW k \in 1 .. Len(c), LastAt(c, k)
               PROVE  SavedSince(s, c[k].t, c[k].snapshot.ps)
    BY DEF AllSavedSince
  <1>1. k + d \in 1 .. Len(cps) /\ c[k] = cps[k + d] /\ LastAt(cps, k + d)
    BY LastSuffix
  <1> QED BY <1>1 DEF AllSavedSince

-----------------------------------------------------------------------------
(* Pasts of a filter *)

(* f2 has gone on from f.                                                   *)
Extends(f, f2) ==
    /\ f.t <= f2.t
    /\ f.segs \subseteq f2.segs
    /\ \A g \in f2.segs : g \in f.segs \/ (f.t <= g.a /\ g.a < g.b)
    /\ f.ps \subseteq f2.ps
    /\ \A y \in f2.ps : y \in f.ps \/ \A x \in f.ps : x.t <= y.t

(* A filter is a past of itself.                                            *)
LEMMA PastSelf ==
    ASSUME NEW f \in Filters, \A g \in f.segs : g.b <= f.t
    PROVE  PastOf(f, f)
  <1>1. f.t \in Nat /\ \A g \in f.segs : g.a \in Nat /\ g.b \in Nat
    BY FilterFields, PieceEnds
  <1> QED BY <1>1 DEF PastOf, Unsplit, Earlier

(* A past stays one when the filter goes on.                                *)
LEMMA PastExtends ==
    ASSUME NEW s \in Filters, NEW f \in Filters, NEW f2 \in Filters,
           PastOf(s, f), Extends(f, f2),
           \A u \in Epochs : u <= s.t => f2.at[u] = f.at[u]
    PROVE  PastOf(s, f2)
  <1>1. /\ s.t \in Nat /\ f.t \in Nat /\ f2.t \in Nat
        /\ \A g \in f2.segs : g.a \in Nat /\ g.b \in Nat
        /\ \A y \in f2.ps : y.t \in Nat
    BY FilterFields, PieceEnds, EpochsAreNat
  <1>2. \A g \in f2.segs : g \notin f.segs => s.t <= g.a /\ s.t < g.b
    BY <1>1 DEF PastOf, Extends
  <1>3. s.t <= f2.t
    BY <1>1 DEF PastOf, Extends
  <1>4. s.segs = {g \in f2.segs : g.b <= s.t}
    BY <1>1, <1>2 DEF PastOf, Extends
  <1>5. Unsplit(f2.segs, s.t)
    BY <1>1, <1>2 DEF PastOf, Unsplit
  <1>6. Earlier(s.ps, f2.ps)
    <2>1. s.ps \subseteq f.ps /\ f.ps \subseteq f2.ps
      BY DEF PastOf, Earlier, Extends
    <2>2. ASSUME NEW x \in s.ps, NEW y \in f2.ps, y.t < x.t PROVE y \in s.ps
      <3>1. x.t \in Nat /\ y.t \in Nat
        BY <1>1, <2>1
      <3>2. y \in f.ps
        BY <2>1, <2>2, <3>1 DEF Extends
      <3> QED BY <2>2, <3>2 DEF PastOf, Earlier
    <2> QED BY <2>1, <2>2 DEF Earlier
  <1> QED BY <1>3, <1>4, <1>5, <1>6 DEF PastOf

(* A past that is not newer than another is a past of that one.             *)
LEMMA PastPast ==
    ASSUME NEW r \in Filters, NEW s \in Filters, NEW f \in Filters,
           PastOf(r, f), r.t <= s.t, s.segs = {g \in f.segs : g.b <= s.t},
           \A u \in Epochs : u <= s.t => s.at[u] = f.at[u],
           Earlier(r.ps, s.ps)
    PROVE  PastOf(r, s)
  <1>1. /\ r.t \in Nat /\ s.t \in Nat
        /\ \A g \in f.segs : g.a \in Nat /\ g.b \in Nat
    BY FilterFields, PieceEnds
  <1>2. r.segs = {g \in s.segs : g.b <= r.t}
    BY <1>1 DEF PastOf
  <1>3. Unsplit(s.segs, r.t)
    BY DEF PastOf, Unsplit
  <1>4. \A u \in Epochs : u <= r.t => r.at[u] = s.at[u]
    BY <1>1, EpochsAreNat DEF PastOf
  <1> QED BY <1>2, <1>3, <1>4 DEF PastOf

(* A chain stays one when the filter goes on and nothing is appended.       *)
LEMMA ChainExtends ==
    ASSUME NEW f \in Filters, NEW f2 \in Filters, NEW cps \in Seq(Checkpoints),
           Chain(f, cps), Extends(f, f2),
           \A u \in Epochs : u <= f.t => f2.at[u] = f.at[u]
    PROVE  Chain(f2, cps)
  <1> SUFFICES ASSUME NEW k \in 1 .. Len(cps), LastAt(cps, k)
               PROVE  PastOf(cps[k].snapshot, f2)
    BY DEF Chain
  <1>1. cps[k].snapshot \in Filters /\ PastOf(cps[k].snapshot, f)
    BY CheckpointFields DEF Chain
  <1>2. cps[k].snapshot.t <= f.t /\ cps[k].snapshot.t \in Nat /\ f.t \in Nat
    BY <1>1, FilterFields DEF PastOf
  <1>3. \A u \in Epochs : u <= cps[k].snapshot.t => f2.at[u] = f.at[u]
    BY <1>2, EpochsAreNat
  <1> QED BY <1>1, <1>3, PastExtends

-----------------------------------------------------------------------------
(* Pushed checkpoints *)

(* bounded_push leaves the entry on top.                                    *)
LEMMA PushTopped ==
    ASSUME NEW cps \in Seq(Checkpoints), NEW cap \in Nat \ {0}, Len(cps) <= cap,
           NEW x \in Checkpoints
    PROVE  /\ BoundedPush(cps, cap, x) \in Seq(Checkpoints)
           /\ Len(BoundedPush(cps, cap, x)) \in 1 .. cap
           /\ Topped(BoundedPush(cps, cap, x), cps, x)
  <1> DEFINE r == BoundedPush(cps, cap, x)
             a == Append(cps, x)
  <1>1. /\ Len(a) = Len(cps) + 1 /\ a[Len(cps) + 1] = x /\ Len(cps) \in Nat
        /\ \A i \in 1 .. Len(cps) : a[i] = cps[i]
    OBVIOUS
  <1>2. r \in Seq(Checkpoints) /\ Len(r) \in 1 .. cap
    <2>1. \E q \in Seq(Checkpoints) :
             Window(q, cps) /\ Len(q) < cap /\ BoundedPush(cps, cap, x) = Append(q, x)
      BY PushWindow
    <2> PICK q \in Seq(Checkpoints) : Len(q) < cap /\ r = Append(q, x)
      BY <2>1
    <2>2. Append(q, x) \in Seq(Checkpoints) /\ Len(Append(q, x)) = Len(q) + 1 /\ Len(q) \in Nat
      OBVIOUS
    <2> HIDE DEF r
    <2> QED BY <2>2
  <1>3. \E k \in Nat : Suffix(r, a, k)
    BY PushSuffix
  <1> HIDE DEF r, a
  <1> PICK d \in Nat : Suffix(r, a, d)
    BY <1>3
  <1>4. Len(r) + d = Len(cps) + 1 /\ \A i \in 1 .. Len(r) : r[i] = a[i + d]
    BY <1>1 DEF Suffix
  <1>5. r[Len(r)] = x
    BY <1>1, <1>2, <1>4
  <1>6. ASSUME NEW k \in 1 .. Len(r) - 1 PROVE r[k] = cps[k + d]
    <2>1. k \in 1 .. Len(r) /\ k + d \in 1 .. Len(cps)
      BY <1>1, <1>2, <1>4
    <2> QED BY <1>1, <1>4, <2>1
  <1>7. \A j \in 1 .. Len(cps) : ~ (d + Len(r) <= j)
    BY <1>1, <1>2, <1>4
  <1>8. ToppedAt(d, r, cps, x)
    BY <1>1, <1>2, <1>4, <1>5, <1>6, <1>7 DEF ToppedAt
  <1>9. Topped(r, cps, x)
    BY <1>8 DEF Topped
  <1> QED BY <1>2, <1>9 DEF r

(* The histories after a measurement and its checkpoint were pushed         *)
LEMMA PushMade ==
    ASSUME NEW h \in Histories, NEW m \in Measurements, NEW f \in Filters, f.t = m.t,
           Timed(h.cps, f.t), Timed(h.meas, f.t),
           NEW x, x = [t |-> f.t, snapshot |-> f],
           NEW c, c = PushMeasurement(h, m, f).cps, NEW q, q = PushMeasurement(h, m, f).meas
    PROVE  /\ x \in Checkpoints /\ c \in Seq(Checkpoints) /\ Len(c) >= 1
           /\ Append(h.cps, x) \in Seq(Checkpoints) /\ Sorted(Append(h.cps, x))
           /\ q \in Seq(Measurements)
           /\ Append(h.meas, m) \in Seq(Measurements) /\ Sorted(Append(h.meas, m))
           /\ \E k \in Nat : Suffix(c, Append(h.cps, x), k)
           /\ \E n \in Nat : Suffix(q, Append(h.meas, m), n) /\ (n > 0 => Len(q) >= Len(c))
           /\ Topped(c, h.cps, x)
           /\ PushMeasurement(h, m, f).imu = h.imu
  <1> DEFINE cap == h.config.cp
             p == BoundedPush(h.meas, cap, m)
             g == [config |-> h.config, imu |-> h.imu, cps |-> h.cps, meas |-> p]
  <1>1. /\ cap \in Nat \ {0} /\ h.cps \in Seq(Checkpoints) /\ Len(h.cps) \in 1 .. cap
        /\ h.meas \in Seq(Measurements) /\ Len(h.meas) <= cap
        /\ h = [config |-> h.config, imu |-> h.imu, cps |-> h.cps, meas |-> h.meas]
    BY HistoryFields
  <1>2. x \in Checkpoints /\ x.t = m.t /\ x.snapshot = f
    BY DEF Checkpoints, Filters
  <1>3. c = BoundedPush(h.cps, cap, x) /\ q = p /\ PushMeasurement(h, m, f).imu = h.imu
    <2>1. [h EXCEPT !.meas = p] = g
      BY <1>1
    <2>2. PushMeasurement(h, m, f) = PushCheckpoint(g, f)
      BY <2>1 DEF PushMeasurement
    <2> HIDE DEF p
    <2>3. /\ PushCheckpoint(g, f).cps = BoundedPush(h.cps, cap, x) /\ PushCheckpoint(g, f).meas = p
          /\ PushCheckpoint(g, f).imu = h.imu
      BY DEF PushCheckpoint
    <2> QED BY <2>2, <2>3
  <1> HIDE DEF cap
  <1>4. /\ Append(h.cps, x) \in Seq(Checkpoints) /\ Append(h.meas, m) \in Seq(Measurements)
        /\ Sorted(Append(h.cps, x)) /\ Sorted(Append(h.meas, m))
    <2>1. Timed(h.cps, x.t) /\ Timed(h.meas, m.t)
      BY <1>2
    <2> QED BY <1>1, <1>2, <2>1 DEF Timed, Sorted
  <1>5. c \in Seq(Checkpoints) /\ Len(c) \in 1 .. cap
    BY SMTT(20), <1>1, <1>2, <1>3, Timestamps, TimedPush
  <1>6. q \in Seq(Measurements) /\ Len(q) \in 1 .. cap
    BY <1>1, <1>3, Timestamps, TimedPush
  <1>7. \E k \in Nat : Suffix(c, Append(h.cps, x), k)
    BY <1>1, <1>2, <1>3, PushSuffix
  <1>8. \E n \in Nat : Suffix(q, Append(h.meas, m), n) /\ (n > 0 => Len(q) >= Len(c))
    <2>1. \E n \in Nat : Suffix(q, Append(h.meas, m), n) /\ (n > 0 => Len(q) = cap)
      BY <1>1, <1>3, PushSuffix
    <2> QED BY <1>1, <1>5, <2>1
  <1>9. Topped(c, h.cps, x)
    BY <1>1, <1>2, <1>3, PushTopped
  <1> QED BY <1>2, <1>3, <1>4, <1>5, <1>6, <1>7, <1>8, <1>9

(* A filter that was corrected agrees with its histories, if it has gone    *)
(* on from one that does.                                                   *)
LEMMA MeasurementAgrees ==
    ASSUME NEW h \in Histories, NEW f \in Filters, NEW m \in Measurements,
           NEW f2 \in Filters, f2.t = m.t,
           f2.at = [f.at EXCEPT ![m.t] = Append(f.at[m.t], m.kind)],
           Extends(f, f2), \A g \in f2.segs : g.b <= f2.t,
           Timed(h.cps, f2.t), Matched(h.cps), Timed(h.meas, f2.t),
           Kept(f, h.cps, h.meas), Agree(f, h),
           NEW s, AllSavedSince(s, h.cps), SavedSince(s, f2.t, f2.ps)
    PROVE  /\ Agree(f2, PushMeasurement(h, m, f2))
           /\ AllSavedSince(s, PushMeasurement(h, m, f2).cps)
  <1> DEFINE x == [t |-> f2.t, snapshot |-> f2]
             c == PushMeasurement(h, m, f2).cps
             q == PushMeasurement(h, m, f2).meas
  <1>1. x.t = f2.t /\ x.snapshot = f2
    OBVIOUS
  <1>2. /\ x \in Checkpoints /\ c \in Seq(Checkpoints) /\ Len(c) >= 1
        /\ Append(h.cps, x) \in Seq(Checkpoints) /\ Sorted(Append(h.cps, x))
        /\ q \in Seq(Measurements)
        /\ Append(h.meas, m) \in Seq(Measurements) /\ Sorted(Append(h.meas, m))
        /\ \E k \in Nat : Suffix(c, Append(h.cps, x), k)
        /\ \E n \in Nat : Suffix(q, Append(h.meas, m), n) /\ (n > 0 => Len(q) >= Len(c))
        /\ Topped(c, h.cps, x)
    BY PushMade
  <1>3. h.cps \in Seq(Checkpoints) /\ Len(h.cps) >= 1 /\ h.meas \in Seq(Measurements)
    BY HistoryFields
  <1>4. m.kind \in GnssKinds
    BY DEF Measurements
  <1> HIDE DEF x, c, q
  <1>5. Chain(f2, c)
    <2>1. PastOf(f2, f2)
      BY PastSelf
    <2>2. Chain(f, h.cps)
      BY DEF Agree
    <2>3. ASSUME NEW k \in 1 .. Len(h.cps), LastAt(h.cps, k), h.cps[k].t < x.t
          PROVE  PastOf(h.cps[k].snapshot, f2)
      <3>1. h.cps[k].snapshot \in Filters /\ h.cps[k].snapshot.t = h.cps[k].t
        BY <1>3, CheckpointFields DEF Matched
      <3>2. PastOf(h.cps[k].snapshot, f)
        BY <2>2, <2>3 DEF Chain
      <3>3. ASSUME NEW u \in Epochs, u <= h.cps[k].snapshot.t PROVE f2.at[u] = f.at[u]
        <4>1. u \in Nat /\ h.cps[k].t \in Nat /\ m.t \in Nat
          BY <1>3, CheckpointFields, EpochsAreNat, Timestamps
        <4>2. u # m.t
          BY <1>1, <2>3, <3>1, <3>3, <4>1
        <4>3. f.at \in [Epochs -> Seq(GnssKinds)]
          BY FilterFields
        <4> QED BY <4>2, <4>3
      <3> QED BY Zenon, <3>1, <3>2, <3>3, PastExtends
    <2> QED BY Zenon, <1>1, <1>2, <1>3, <2>1, <2>2, <2>3, ChainTopped
  <1>6. Blocks(f2, c, q)
    <2>1. Blocks(f2, Append(h.cps, x), Append(h.meas, m))
      BY <1>3, BlocksUpdate DEF Agree
    <2>2. Backed(Append(h.cps, x), Append(h.meas, m))
      BY Zenon, <1>1, <1>2, <1>3, <1>4, KeptUpdate DEF Kept
    <2> PICK k \in Nat : Suffix(c, Append(h.cps, x), k)
      BY <1>2
    <2> PICK n \in Nat : Suffix(q, Append(h.meas, m), n) /\ (n > 0 => Len(q) >= Len(c))
      BY <1>2
    <2> QED BY Zenon, <1>2, <2>1, <2>2, BlocksDropped
  <1>7. AllSavedSince(s, c)
    BY <1>1, <1>2, <1>3, SinceTopped
  <1> QED BY <1>5, <1>6, <1>7 DEF Agree, c, q

(* restore_to_snapshot puts the snapshot on top of the older checkpoints.   *)
LEMMA RestoreTopped ==
    ASSUME NEW h \in Histories, NEW now, InEpochOrder(h, now), NEW s \in Filters,
           NEW x, x = [t |-> s.t, snapshot |-> s]
    PROVE  Topped(RestoreToSnapshot(h, s).cps, h.cps, x)
  <1> DEFINE p == UpTo(h.cps, s.t)
             n == Len(p)
             cap == h.config.cp
             same == [[config |-> h.config, imu |-> UpTo(h.imu, s.t),
                       cps |-> p, meas |-> UpTo(h.meas, s.t)] EXCEPT !.cps[n].snapshot = s]
             r == RestoreToSnapshot(h, s).cps
  <1>1. /\ h.cps \in Seq(Checkpoints) /\ cap \in Nat \ {0} /\ Len(h.cps) <= cap
        /\ s.t \in Nat /\ Sorted(h.cps) /\ Len(h.cps) \in Nat
        /\ \A i \in 1 .. Len(h.cps) : h.cps[i].t \in Nat
    <2>1. h.cps \in Seq(Checkpoints) /\ cap \in Nat \ {0} /\ Len(h.cps) <= cap /\ Sorted(h.cps)
      BY HistoryFields, OrderParts DEF Timed
    <2> QED BY <2>1, Timestamps
  <1>2. /\ p \in Seq(Checkpoints) /\ n \in 0 .. Len(h.cps)
        /\ \A i \in 1 .. n : p[i] = h.cps[i] /\ h.cps[i].t <= s.t
        /\ \A i \in 1 .. Len(h.cps) : h.cps[i].t <= s.t => i <= n
    BY Zenon, <1>1, CutIndices
  <1>3. x \in Checkpoints /\ x.t = s.t /\ x.snapshot = s
    BY DEF Checkpoints, Filters
  <1>4. r = IF p # <<>> /\ Back(p).t = s.t THEN same.cps ELSE BoundedPush(p, cap, x)
    BY DEF RestoreToSnapshot, PushCheckpoint
  <1> HIDE DEF p, n, r, cap
  <1>5. CASE p # <<>> /\ Back(p).t = s.t
    <2>1. n \in 1 .. n /\ n \in 1 .. Len(p) /\ p[n] \in Checkpoints /\ p[n].t = s.t
      BY <1>2, <1>5 DEF Back, n
    <2> DEFINE last == [p[n] EXCEPT !.snapshot = s]
    <2>2. last = x
      BY <2>1 DEF Checkpoints
    <2>3. r = [p EXCEPT ![n] = last]
      BY <1>4, <1>5
    <2> HIDE DEF last
    <2>4. Len(r) = n /\ \A i \in 1 .. n : r[i] = IF i = n THEN x ELSE p[i]
      BY <1>2, <1>3, <2>1, <2>2, <2>3, ExceptSeq DEF n
    <2>5. r[Len(r)] = x
      BY <2>1, <2>4
    <2>6. \A k \in 1 .. Len(r) - 1 : r[k] = h.cps[k + 0]
      BY <1>2, <2>1, <2>4
    <2>7. ASSUME NEW j \in 1 .. Len(h.cps), 0 + Len(r) <= j PROVE x.t <= h.cps[j].t
      <3>1. CASE j = n
        BY <1>2, <1>3, <2>1, <3>1
      <3>2. CASE j # n
        <4>1. ~ (h.cps[j].t <= s.t)
          BY <1>2, <2>1, <2>4, <2>7, <3>2
        <4> QED BY <1>1, <1>3, <4>1
      <3> QED BY <3>1, <3>2
    <2>8. 0 \in Nat /\ Len(r) >= 1 /\ Len(r) + 0 <= Len(h.cps) + 1
      BY <1>1, <1>2, <2>1, <2>4
    <2>9. ToppedAt(0, r, h.cps, x)
      BY <2>5, <2>6, <2>7, <2>8 DEF ToppedAt
    <2> QED BY <2>8, <2>9 DEF Topped, r
  <1>6. CASE ~ (p # <<>> /\ Back(p).t = s.t)
    <2>1. r = BoundedPush(p, cap, x) /\ Len(p) <= cap
      BY <1>1, <1>2, <1>4, <1>6 DEF n
    <2>2. Topped(r, p, x) /\ r \in Seq(Checkpoints) /\ Len(r) >= 1
      BY <1>1, <1>2, <1>3, <2>1, PushTopped
    <2> PICK d \in Nat : ToppedAt(d, r, p, x)
      BY <2>2 DEF Topped
    <2>3. Len(r) >= 1 /\ Len(r) + d <= n + 1 /\ Len(r) \in Nat /\ r[Len(r)] = x
      BY <2>2 DEF ToppedAt, n
    <2>4. \A k \in 1 .. Len(r) - 1 : r[k] = h.cps[k + d]
      <3> SUFFICES ASSUME NEW k \in 1 .. Len(r) - 1 PROVE r[k] = h.cps[k + d]
        OBVIOUS
      <3>1. k + d \in 1 .. n
        BY <1>2, <2>3
      <3>2. r[k] = p[k + d]
        BY DEF ToppedAt
      <3> QED BY <1>2, <3>1, <3>2
    <2>5. ASSUME NEW j \in 1 .. Len(h.cps), d + Len(r) <= j PROVE x.t <= h.cps[j].t
      <3>1. CASE j \in 1 .. n
        <4>1. x.t <= p[j].t
          BY <2>5, <3>1 DEF ToppedAt, n
        <4> QED BY <1>2, <3>1, <4>1
      <3>2. CASE j \notin 1 .. n
        <4>1. ~ (h.cps[j].t <= s.t)
          BY <1>2, <3>2
        <4> QED BY <1>1, <1>3, <4>1
      <3> QED BY <3>1, <3>2
    <2>6. Len(r) + d <= Len(h.cps) + 1
      BY <1>1, <1>2, <2>3
    <2>7. ToppedAt(d, r, h.cps, x)
      BY <2>3, <2>4, <2>5, <2>6 DEF ToppedAt
    <2> QED BY <2>7 DEF Topped, r
  <1> QED BY <1>5, <1>6

-----------------------------------------------------------------------------
(* A late measurement cuts a piece *)

(* g is h, or the part of it on one side of e.                              *)
PartOf(g, h, e) ==
    /\ g.of = h.of
    /\ IF h.a < e /\ e < h.b
         THEN (g.a = h.a /\ g.b = e) \/ (g.a = e /\ g.b = h.b)
         ELSE g.a = h.a /\ g.b = h.b

(* Pieces that agree in all their fields are the same.                      *)
LEMMA SamePiece ==
    ASSUME NEW g \in Pieces, NEW h \in Pieces, g.a = h.a, g.b = h.b, g.of = h.of
    PROVE  g = h
  BY DEF Pieces

(* What Cut makes of a set of pieces                                        *)
LEMMA CutPieces ==
    ASSUME NEW segs \in SUBSET Pieces, NEW e \in Epochs
    PROVE  /\ InOrder!Cut(segs, e) \in SUBSET Pieces
           /\ \A g \in Pieces : g \in InOrder!Cut(segs, e) <=> \E h \in segs : PartOf(g, h, e)
  <1> DEFINE Of(h) == IF h.a < e /\ e < h.b
                        THEN {[h EXCEPT !.b = e], [h EXCEPT !.a = e]} ELSE {h}
  <1>1. InOrder!Cut(segs, e) = UNION {Of(h) : h \in segs}
    BY DEF InOrder!Cut
  <1>2. ASSUME NEW h \in segs
        PROVE  /\ Of(h) \subseteq Pieces
               /\ \A g \in Pieces : g \in Of(h) <=> PartOf(g, h, e)
    <2>0. h \in Pieces
      OBVIOUS
    <2>1. /\ [h EXCEPT !.b = e] \in Pieces /\ [h EXCEPT !.b = e].a = h.a
          /\ [h EXCEPT !.b = e].b = e /\ [h EXCEPT !.b = e].of = h.of
      BY <2>0 DEF Pieces
    <2>2. /\ [h EXCEPT !.a = e] \in Pieces /\ [h EXCEPT !.a = e].a = e
          /\ [h EXCEPT !.a = e].b = h.b /\ [h EXCEPT !.a = e].of = h.of
      BY <2>0 DEF Pieces
    <2> DEFINE lo == [h EXCEPT !.b = e]
               hi == [h EXCEPT !.a = e]
    <2>3. Of(h) = IF h.a < e /\ e < h.b THEN {lo, hi} ELSE {h}
      OBVIOUS
    <2> HIDE DEF lo, hi, Of
    <2>4. /\ lo \in Pieces /\ lo.a = h.a /\ lo.b = e /\ lo.of = h.of
          /\ hi \in Pieces /\ hi.a = e /\ hi.b = h.b /\ hi.of = h.of
      BY <2>1, <2>2 DEF lo, hi
    <2>5. CASE h.a < e /\ e < h.b
      <3>1. \A g \in Pieces : PartOf(g, h, e) <=> g = lo \/ g = hi
        BY <2>4, <2>5, SamePiece DEF PartOf
      <3> QED BY <2>3, <2>4, <2>5, <3>1
    <2>6. CASE ~ (h.a < e /\ e < h.b)
      <3>1. \A g \in Pieces : PartOf(g, h, e) <=> g = h
        BY <2>0, <2>6, SamePiece DEF PartOf
      <3> QED BY <2>0, <2>3, <2>6, <3>1
    <2> QED BY <2>5, <2>6
  <1> HIDE DEF Of
  <1> QED BY <1>1, <1>2

(* Nothing is cut where no piece goes on.                                   *)
LEMMA CutNothing ==
    ASSUME NEW segs \in SUBSET Pieces, NEW e \in Epochs, Unsplit(segs, e)
    PROVE  InOrder!Cut(segs, e) = segs
  <1>1. \A h \in segs, g \in Pieces : PartOf(g, h, e) <=> g = h
    BY SamePiece DEF PartOf, Unsplit
  <1> QED BY <1>1, CutPieces

(* A filter with a late measurement is a filter, propagated over the same   *)
(* samples as before, and stopped at the measurement.                       *)
LEMMA LateFilter ==
    ASSUME NEW f \in Filters, NEW e \in Epochs, NEW k \in GnssKinds, Tiled(f),
           NEW z, z = Late(f, e, k)
    PROVE  /\ z \in Filters /\ z.t = f.t /\ z.ps = f.ps
           /\ z.at = [f.at EXCEPT ![e] = Append(f.at[e], k)]
           /\ z.segs = InOrder!Cut(f.segs, e)
           /\ \A g \in z.segs : g \in Pieces /\ \E h \in f.segs : PartOf(g, h, e)
           /\ Tiled(z)
  <1> DEFINE at == [f.at EXCEPT ![e] = Append(f.at[e], k)]
             segs == InOrder!Cut(f.segs, e)
  <1>1. /\ f.segs \in SUBSET Pieces /\ f.t \in Epochs /\ f.t \in Nat /\ e \in Nat
        /\ f.at \in [Epochs -> Seq(GnssKinds)] /\ f.at[e] \in Seq(GnssKinds)
        /\ f.ps \in SUBSET [kind : PseudoKinds, t : Epochs]
        /\ f = [t |-> f.t, at |-> f.at, segs |-> f.segs, ps |-> f.ps]
    BY FilterFields, EpochsAreNat
  <1>2. segs \in SUBSET Pieces /\ \A g \in Pieces : g \in segs <=> \E h \in f.segs : PartOf(g, h, e)
    BY Zenon, <1>1, CutPieces
  <1>3. Append(f.at[e], k) \in Seq(GnssKinds) /\ Append(f.at[e], k) # <<>>
    BY <1>1
  <1>4. /\ at \in [Epochs -> Seq(GnssKinds)] /\ at[e] # <<>>
        /\ \A u \in Epochs : u # e => at[u] = f.at[u]
    BY <1>1, <1>3
  <1>5. z = [t |-> f.t, at |-> at, segs |-> segs, ps |-> f.ps]
    BY Zenon, <1>1 DEF Late
  <1> HIDE DEF at, segs
  <1>6. z.t = f.t /\ z.ps = f.ps /\ z.at = at /\ z.segs = segs
    BY <1>5
  <1>7. z \in Filters
    BY <1>1, <1>2, <1>4, <1>5 DEF Filters, Pieces
  <1>8. \A g \in z.segs : g \in Pieces /\ \E h \in f.segs : PartOf(g, h, e)
    BY <1>2, <1>6
  <1>9. Tiled(z)
    <2>1. \A h \in f.segs : /\ h \in Pieces /\ h.a \in Nat /\ h.b \in Nat
                            /\ h.a < h.b /\ h.b <= f.t
      BY <1>1, PieceEnds DEF Tiled
    <2>2. ASSUME NEW g \in z.segs PROVE g.a < g.b /\ g.b <= z.t
      <3> PICK h \in f.segs : PartOf(g, h, e)
        BY <1>8
      <3> QED BY <1>1, <1>6, <2>1 DEF PartOf
    <2>3. ASSUME NEW p \in Epochs, p < z.t PROVE \E g \in z.segs : g.a <= p /\ p < g.b
      <3> PICK h \in f.segs : h.a <= p /\ p < h.b
        BY <1>6, <2>3 DEF Tiled
      <3>1. p \in Nat /\ h \in Pieces /\ h.a \in Nat /\ h.b \in Nat
        BY <2>1, EpochsAreNat
      <3>2. CASE ~ (h.a < e /\ e < h.b)
        <4>1. PartOf(h, h, e)
          BY <3>2 DEF PartOf
        <4> QED BY <1>2, <1>6, <3>1, <4>1
      <3>3. CASE h.a < e /\ e < h.b /\ p < e
        <4> DEFINE g == [a |-> h.a, b |-> e, of |-> h.of]
        <4>1. g \in Pieces /\ g.a = h.a /\ g.b = e /\ g.of = h.of
          BY <3>1 DEF Pieces
        <4> HIDE DEF g
        <4>2. PartOf(g, h, e)
          BY <3>3, <4>1 DEF PartOf
        <4> QED BY <1>2, <1>6, <3>3, <4>1, <4>2
      <3>4. CASE h.a < e /\ e < h.b /\ ~ (p < e)
        <4> DEFINE g == [a |-> e, b |-> h.b, of |-> h.of]
        <4>1. g \in Pieces /\ g.a = e /\ g.b = h.b /\ g.of = h.of
          BY <3>1 DEF Pieces
        <4> HIDE DEF g
        <4>2. PartOf(g, h, e)
          BY <3>4, <4>1 DEF PartOf
        <4>3. e <= p
          BY <1>1, <3>1, <3>4
        <4> QED BY <1>2, <1>6, <4>1, <4>2, <4>3
      <3> QED BY <3>2, <3>3, <3>4
    <2>4. ASSUME NEW g \in z.segs, NEW u \in Epochs, g.a < u, u < g.b PROVE z.at[u] = <<>>
      <3> PICK h \in f.segs : PartOf(g, h, e)
        BY <1>8
      <3>1. u \in Nat /\ h.a \in Nat /\ h.b \in Nat
        BY <2>1, EpochsAreNat
      <3>2. h.a < u /\ u < h.b /\ u # e
        BY <1>1, <2>4, <3>1 DEF PartOf
      <3> QED BY <1>4, <1>6, <3>2 DEF Tiled
    <2> QED BY <1>6, <2>2, <2>3, <2>4 DEF Tiled
  <1> QED BY <1>6, <1>7, <1>8, <1>9 DEF at, segs

(* The pieces where a sample is retained are still those of that sample.    *)
LEMMA LateSampled ==
    ASSUME NEW f \in Filters, NEW e \in Epochs, NEW k \in GnssKinds, Tiled(f),
           NEW imu \in Seq(Samples), Sampled(f, imu)
    PROVE  Sampled(Late(f, e, k), imu)
  <1> DEFINE z == Late(f, e, k)
  <1>1. /\ z.at = [f.at EXCEPT ![e] = Append(f.at[e], k)]
        /\ \A g \in z.segs : g \in Pieces /\ \E h \in f.segs : PartOf(g, h, e)
    BY LateFilter
  <1> HIDE DEF z
  <1>2. /\ f.at \in [Epochs -> Seq(GnssKinds)] /\ f.at[e] \in Seq(GnssKinds) /\ e \in Nat
        /\ f.segs \in SUBSET Pieces
    BY FilterFields, EpochsAreNat
  <1>3. Append(f.at[e], k) # <<>>
    BY <1>2
  <1>4. z.at[e] # <<>> /\ \A u \in Epochs : f.at[u] # <<>> => z.at[u] # <<>>
    BY <1>1, <1>2, <1>3
  <1> SUFFICES ASSUME NEW i \in 1 .. Len(imu), NEW g \in z.segs,
                      g.a < imu[i].t, imu[i].from < g.b
               PROVE  PieceOf(g, imu[i], z.at)
    BY DEF Sampled, z
  <1> PICK h \in f.segs : PartOf(g, h, e)
    BY <1>1
  <1>5. /\ g.a \in Nat /\ g.b \in Nat /\ h.a \in Nat /\ h.b \in Nat
        /\ h.a \in Epochs /\ h.b \in Epochs /\ h.a < h.b
    BY <1>1, <1>2, PieceEnds DEF Tiled
  <1>6. imu[i].t \in Nat /\ imu[i].from \in Nat
    <2>1. imu[i] \in Samples
      OBVIOUS
    <2> QED BY <2>1, Timestamps
  <1>7. h.a <= g.a /\ g.b <= h.b /\ (g.a = h.a \/ g.a = e) /\ (g.b = h.b \/ g.b = e) /\ g.of = h.of
    BY <1>2, <1>5 DEF PartOf
  <1>8. h.a < imu[i].t /\ imu[i].from < h.b
    BY <1>5, <1>6, <1>7
  <1>9. PieceOf(h, imu[i], f.at)
    BY <1>8 DEF Sampled
  <1>10. imu[i].from <= g.a /\ g.b <= imu[i].t /\ g.of = SampleOf(imu[i])
    BY <1>5, <1>6, <1>7, <1>9 DEF PieceOf
  <1>11. g.a = imu[i].from \/ z.at[g.a] # <<>>
    BY <1>4, <1>5, <1>7, <1>9 DEF PieceOf
  <1>12. g.b = imu[i].t \/ z.at[g.b] # <<>>
    BY <1>4, <1>5, <1>7, <1>9 DEF PieceOf
  <1> QED BY <1>10, <1>11, <1>12 DEF PieceOf

(* Before the late measurement nothing changes.                             *)
LEMMA LateBelow ==
    ASSUME NEW f \in Filters, NEW e \in Epochs, NEW k \in GnssKinds, Tiled(f),
           NEW t \in Nat, t <= e, Unsplit(f.segs, t),
           NEW z, z = Late(f, e, k)
    PROVE  /\ {g \in z.segs : g.b <= t} = {g \in f.segs : g.b <= t}
           /\ Unsplit(z.segs, t)
  <1>0. z.segs = InOrder!Cut(f.segs, e)
    BY Zenon, LateFilter DEF InOrder!Cut
  <1>1. \A g \in z.segs : g \in Pieces /\ \E h \in f.segs : PartOf(g, h, e)
    BY Zenon, LateFilter
  <1>2. f.segs \in SUBSET Pieces /\ e \in Nat
    BY FilterFields, EpochsAreNat
  <1>3. \A h \in f.segs : h \in Pieces /\ h.a \in Nat /\ h.b \in Nat /\ h.a < h.b
    BY <1>2, PieceEnds DEF Tiled
  <1>4. ASSUME NEW g \in z.segs, g.b <= t PROVE g \in f.segs
    <2> PICK h \in f.segs : PartOf(g, h, e)
      BY <1>1
    <2>1. ~ (h.a < e /\ e < h.b)
      <3> SUFFICES ASSUME h.a < e, e < h.b PROVE FALSE
        OBVIOUS
      <3>1. g.b = e \/ g.b = h.b
        BY DEF PartOf
      <3>2. t = e
        BY <1>2, <1>3, <1>4, <3>1
      <3> QED BY <3>2 DEF Unsplit
    <2>2. g = h
      BY <1>1, <1>3, <2>1, SamePiece DEF PartOf
    <2> QED BY <2>2
  <1>5. ASSUME NEW g \in f.segs, g.b <= t PROVE g \in z.segs
    <2>1. ~ (g.a < e /\ e < g.b)
      BY <1>2, <1>3, <1>5
    <2>2. PartOf(g, g, e)
      BY <2>1 DEF PartOf
    <2> QED BY <1>0, <1>2, <1>3, <2>2, CutPieces
  <1>6. Unsplit(z.segs, t)
    <2> SUFFICES ASSUME NEW g \in z.segs, g.a < t, t < g.b PROVE FALSE
      BY DEF Unsplit
    <2> PICK h \in f.segs : PartOf(g, h, e)
      BY <1>1
    <2>1. h.a < t /\ t < h.b
      BY <1>2, <1>3 DEF PartOf
    <2> QED BY <2>1 DEF Unsplit
  <1> QED BY <1>4, <1>5, <1>6

-----------------------------------------------------------------------------
(* A replay goes over the pieces of the filter *)

(* The piece that starts where a replayed segment does is that segment:     *)
(* both end at the end of the sample or at the next measurement.            *)
LEMMA PieceReplayed ==
    ASSUME NEW z \in Filters, NEW imu \in Seq(Samples), Tiled(z), Sampled(z, imu),
           NEW from \in Nat, NEW target \in Epochs, Unsplit(z.segs, target),
           \A u \in Epochs : from < u /\ u < target => z.at[u] = <<>>,
           NEW g \in z.segs, from <= g.a, g.a < target,
           NEW i \in 1 .. Len(imu), Covers(imu[i], g.a)
    PROVE  g = Segment(imu[i], g.a, target)
  <1>1. /\ g \in Pieces /\ g.a \in Nat /\ g.b \in Nat /\ g.b \in Epochs /\ g.a < g.b
        /\ target \in Nat
    BY FilterFields, PieceEnds, EpochsAreNat DEF Tiled
  <1>2. imu[i] \in Samples /\ imu[i].t \in Nat /\ imu[i].from \in Nat
    <2>1. imu[i] \in Samples
      OBVIOUS
    <2> QED BY <2>1, Timestamps
  <1>3. imu[i].from <= g.a /\ g.a < imu[i].t
    BY DEF Covers
  <1>4. PieceOf(g, imu[i], z.at)
    <2>1. g.a < imu[i].t /\ imu[i].from < g.b
      BY <1>1, <1>2, <1>3
    <2> QED BY <2>1 DEF Sampled
  <1>5. g.b <= imu[i].t /\ g.of = SampleOf(imu[i])
    BY <1>4 DEF PieceOf
  <1>6. g.b <= target
    BY <1>1 DEF Unsplit
  <1>7. ASSUME g.b # imu[i].t, g.b # target PROVE FALSE
    <2>1. z.at[g.b] # <<>>
      BY <1>4, <1>7 DEF PieceOf
    <2>2. from < g.b /\ g.b < target
      BY <1>1, <1>6, <1>7
    <2> QED BY <1>1, <2>1, <2>2
  <1>8. g.b = IF imu[i].t < target THEN imu[i].t ELSE target
    BY <1>1, <1>2, <1>5, <1>6, <1>7
  <1>9. g = [a |-> g.a, b |-> g.b, of |-> g.of]
    BY <1>1 DEF Pieces
  <1> QED BY <1>5, <1>8, <1>9 DEF Segment, SampleOf

(* What holds when the filter f, on the way to z, is replayed to target     *)
Replaying(f, target, imu, z) ==
    /\ f.t < target /\ target <= z.t
    /\ Tiled(z) /\ Sampled(z, imu)
    /\ Unsplit(z.segs, f.t) /\ Unsplit(z.segs, target)
    /\ \A u \in Epochs : f.t < u /\ u < target => z.at[u] = <<>>
    /\ CanReplay(f, target, imu)

(* A stop is an epoch between the two, and no piece of z goes over it, if a *)
(* sample starts there.                                                     *)
LEMMA StopSplits ==
    ASSUME NEW f \in Filters, NEW z \in Filters, NEW imu \in Seq(Samples),
           NEW now, Disjoint(imu, now), NEW target \in Epochs, Replaying(f, target, imu, z),
           NEW a \in Stops(f, target, imu), NEW i \in 1 .. Len(imu), Covers(imu[i], a)
    PROVE  a \in Nat /\ f.t <= a /\ a < target /\ \E g \in z.segs : g.a = a
  <1>1. /\ f.t \in Nat /\ f.t \in Epochs /\ z.t \in Nat /\ target \in Nat
        /\ f.t < target /\ target <= z.t
    BY FilterFields, EpochsAreNat DEF Replaying
  <1>2. \A j \in 1 .. Len(imu) : /\ imu[j] \in Samples /\ imu[j].t \in Nat
                                 /\ imu[j].from \in Nat /\ imu[j].t \in Epochs
    <2>1. \A j \in 1 .. Len(imu) : imu[j] \in Samples
      OBVIOUS
    <2> QED BY <2>1, Timestamps DEF Samples
  <1>3. \/ a = f.t
        \/ \E j \in 1 .. Len(imu) : a = imu[j].t /\ f.t < imu[j].t /\ imu[j].t < target
    BY DEF Stops
  <1>4. a \in Nat /\ a \in Epochs /\ f.t <= a /\ a < target
    BY <1>1, <1>2, <1>3
  <1> PICK g \in z.segs : g.a <= a /\ a < g.b
    BY <1>1, <1>4 DEF Replaying, Tiled
  <1>5. g.a \in Nat /\ g.b \in Nat
    BY FilterFields, PieceEnds
  <1>6. ASSUME g.a # a PROVE FALSE
    <2>1. g.a < a
      BY <1>4, <1>5, <1>6
    <2>2. a # f.t
      BY <2>1 DEF Replaying, Unsplit
    <2> PICK j \in 1 .. Len(imu) : a = imu[j].t
      BY <1>3, <2>2
    <2>3. imu[i].from <= a /\ a < imu[i].t
      BY DEF Covers
    <2>4. imu[i].from <= g.a
      <3>1. g.a < imu[i].t /\ imu[i].from < g.b
        BY <1>2, <1>4, <1>5, <2>1, <2>3
      <3> QED BY <3>1 DEF Replaying, Sampled, PieceOf
    <2>5. imu[j].from < imu[j].t /\ imu[j].t = a
      BY DEF Disjoint
    <2>6. CASE i = j
      BY <1>2, <2>3, <2>5, <2>6
    <2>7. CASE i < j
      <3>1. imu[i].t <= imu[j].from
        BY <2>7 DEF Disjoint
      <3> QED BY <1>2, <2>3, <2>5, <3>1
    <2>8. CASE j < i
      <3>1. imu[j].t <= imu[i].from
        BY <2>8 DEF Disjoint
      <3> QED BY <1>2, <1>5, <2>1, <2>4, <2>5, <3>1
    <2> QED BY <2>6, <2>7, <2>8
  <1> QED BY <1>4, <1>6

(* A piece of z between the two starts at a stop: the newest stop that is   *)
(* not newer than the piece is covered by a sample, and the piece is of it. *)
LEMMA PieceAtStop ==
    ASSUME NEW f \in Filters, NEW z \in Filters, NEW imu \in Seq(Samples),
           NEW now, Disjoint(imu, now), NEW target \in Epochs, Replaying(f, target, imu, z),
           NEW g \in z.segs, f.t <= g.a, g.b <= target
    PROVE  g.a \in Stops(f, target, imu) /\ \E i \in 1 .. Len(imu) : Covers(imu[i], g.a)
  <1>1. f.t \in Nat /\ z.t \in Nat /\ target \in Nat /\ f.t < target /\ target <= z.t
    BY FilterFields, EpochsAreNat DEF Replaying
  <1>2. \A j \in 1 .. Len(imu) : imu[j].t \in Nat /\ imu[j].from \in Nat
    <2>1. \A j \in 1 .. Len(imu) : imu[j] \in Samples
      OBVIOUS
    <2> QED BY <2>1, Timestamps
  <1>3. /\ g \in Pieces /\ g.a \in Nat /\ g.b \in Nat /\ g.a \in Epochs
        /\ g.a < g.b /\ g.a < target
    <2>1. g \in Pieces /\ g.a \in Nat /\ g.b \in Nat /\ g.a \in Epochs
      BY FilterFields, PieceEnds
    <2>2. g.a < g.b
      BY DEF Replaying, Tiled
    <2> QED BY <1>1, <2>1, <2>2
  <1>4. Sorted(imu)
    BY DisjointSorted DEF Timed
  <1> DEFINE n == Len(UpTo(imu, g.a))
             last == IF n >= 1 /\ f.t < imu[n].t THEN imu[n].t ELSE f.t
  <1>5. /\ n \in 0 .. Len(imu)
        /\ \A i \in 1 .. n : imu[i].t <= g.a
        /\ \A i \in 1 .. Len(imu) : imu[i].t <= g.a => i <= n
    BY <1>2, <1>3, <1>4, CutIndices
  <1> HIDE DEF n
  <1>6. last \in Stops(f, target, imu) /\ last <= g.a /\ last \in Nat /\ f.t <= last
    <2>1. CASE n >= 1 /\ f.t < imu[n].t
      <3>1. n \in 1 .. Len(imu) /\ imu[n].t <= g.a /\ imu[n].t \in Nat
        BY <1>2, <1>5, <2>1
      <3>2. imu[n].t < target
        BY <1>1, <1>3, <3>1
      <3>3. imu[n].t \in Stops(f, target, imu)
        BY <2>1, <3>1, <3>2 DEF Stops
      <3> QED BY <1>1, <2>1, <3>1, <3>3
    <2>2. CASE ~ (n >= 1 /\ f.t < imu[n].t)
      BY <1>1, <1>3, <2>2 DEF Stops
    <2> QED BY <2>1, <2>2
  <1> PICK i \in 1 .. Len(imu) : Covers(imu[i], last)
    BY <1>6 DEF Replaying, CanReplay
  <1>7. imu[i].from <= last /\ last < imu[i].t
    BY DEF Covers
  <1>8. g.a < imu[i].t
    <2> SUFFICES ASSUME ~ (g.a < imu[i].t) PROVE FALSE
      OBVIOUS
    <2>1. i <= n /\ n >= 1 /\ n \in 1 .. Len(imu) /\ imu[i].t \in Nat /\ imu[n].t \in Nat
      BY <1>2, <1>3, <1>5
    <2>2. imu[i].t <= imu[n].t
      <3>1. CASE i = n
        BY <2>1, <3>1
      <3>2. CASE i # n
        BY <1>4, <2>1, <3>2 DEF Sorted
      <3> QED BY <3>1, <3>2
    <2> QED BY <1>1, <1>6, <1>7, <2>1, <2>2
  <1>9. Covers(imu[i], g.a)
    BY <1>2, <1>3, <1>6, <1>7, <1>8 DEF Covers
  <1>10. g.a = last
    <2> SUFFICES ASSUME g.a # last PROVE FALSE
      OBVIOUS
    <2>1. f.t < g.a /\ imu[i].from < g.a
      BY <1>1, <1>2, <1>3, <1>6, <1>7
    <2>2. PieceOf(g, imu[i], z.at)
      <3>1. imu[i].from < g.b
        BY <1>2, <1>3, <2>1
      <3> QED BY <1>8, <3>1 DEF Replaying, Sampled
    <2>3. z.at[g.a] # <<>>
      BY <1>2, <1>3, <2>1, <2>2 DEF PieceOf
    <2> QED BY <1>3, <2>1, <2>3 DEF Replaying
  <1> HIDE DEF last
  <1> QED BY <1>6, <1>9, <1>10

(* So the segments of a replay are the pieces of z between the two.         *)
LEMMA SegmentsReplayed ==
    ASSUME NEW f \in Filters, NEW z \in Filters, NEW imu \in Seq(Samples),
           NEW now, Disjoint(imu, now), NEW target \in Epochs, Replaying(f, target, imu, z)
    PROVE  {x[2] : x \in Segments(f, target, imu)} = {g \in z.segs : f.t <= g.a /\ g.b <= target}
  <1> DEFINE made == {x[2] : x \in Segments(f, target, imu)}
             pieces == {g \in z.segs : f.t <= g.a /\ g.b <= target}
  <1>0. /\ f.t \in Nat /\ target \in Nat /\ f.t < target
        /\ \A g \in z.segs : g \in Pieces /\ g.a \in Nat /\ g.b \in Nat /\ g.a < g.b
    BY FilterFields, PieceEnds, EpochsAreNat DEF Replaying, Tiled
  <1>r. /\ Tiled(z) /\ Sampled(z, imu) /\ Unsplit(z.segs, target)
        /\ \A u \in Epochs : f.t < u /\ u < target => z.at[u] = <<>>
    BY DEF Replaying
  <1>p. ASSUME NEW g \in z.segs, NEW i \in 1 .. Len(imu),
               f.t <= g.a, g.a < target, Covers(imu[i], g.a)
        PROVE  g = Segment(imu[i], g.a, target)
    <2> HIDE DEF made, pieces
    <2> DEFINE from == f.t
    <2>1. /\ from \in Nat /\ from <= g.a
          /\ \A u \in Epochs : from < u /\ u < target => z.at[u] = <<>>
      BY <1>0, <1>r, <1>p
    <2> HIDE DEF from
    <2> QED BY ONLY <2>1, <1>r, <1>p, PieceReplayed, z \in Filters, imu \in Seq(Samples),
                    target \in Epochs, g \in z.segs, i \in 1 .. Len(imu)
  <1>1. \A s : s \in made <=>
          \E i \in 1 .. Len(imu), a \in Stops(f, target, imu) :
             Covers(imu[i], a) /\ s = Segment(imu[i], a, target)
    <2>1. ASSUME NEW s \in made
          PROVE  \E i \in 1 .. Len(imu), a \in Stops(f, target, imu) :
                    Covers(imu[i], a) /\ s = Segment(imu[i], a, target)
      <3> PICK y \in (1 .. Len(imu)) \X Stops(f, target, imu) :
             /\ Covers(imu[y[1]], y[2])
             /\ s = <<imu[y[1]], Segment(imu[y[1]], y[2], target)>>[2]
        BY DEF Segments
      <3>1. y[1] \in 1 .. Len(imu) /\ y[2] \in Stops(f, target, imu)
        OBVIOUS
      <3>2. s = Segment(imu[y[1]], y[2], target)
        OBVIOUS
      <3> QED BY <3>1, <3>2
    <2>2. ASSUME NEW i \in 1 .. Len(imu), NEW a \in Stops(f, target, imu), Covers(imu[i], a)
          PROVE  Segment(imu[i], a, target) \in made
      <3> DEFINE y == <<i, a>>
                 x == <<imu[i], Segment(imu[i], a, target)>>
      <3>1. y \in (1 .. Len(imu)) \X Stops(f, target, imu) /\ y[1] = i /\ y[2] = a
        OBVIOUS
      <3>2. x = <<imu[y[1]], Segment(imu[y[1]], y[2], target)>> /\ Covers(imu[y[1]], y[2])
        BY <2>2, <3>1
      <3>3. x[2] = Segment(imu[i], a, target)
        OBVIOUS
      <3> HIDE DEF y, x
      <3>4. x \in Segments(f, target, imu)
        BY <3>1, <3>2 DEF Segments
      <3> QED BY <3>3, <3>4
    <2> HIDE DEF made
    <2> QED BY <2>1, <2>2
  <1> HIDE DEF made
  <1>2. ASSUME NEW s \in made PROVE s \in pieces
    <2> PICK i \in 1 .. Len(imu), a \in Stops(f, target, imu) :
           Covers(imu[i], a) /\ s = Segment(imu[i], a, target)
      BY <1>1, <1>2
    <2>1. a \in Nat /\ f.t <= a /\ a < target /\ \E g \in z.segs : g.a = a
      BY StopSplits
    <2> PICK g \in z.segs : g.a = a
      BY <2>1
    <2>2. g = Segment(imu[i], g.a, target)
      <3>1. f.t <= g.a /\ g.a < target /\ Covers(imu[i], g.a)
        BY <2>1
      <3> QED BY ONLY <1>p, <3>1, g \in z.segs, i \in 1 .. Len(imu)
    <2>3. g.b <= target
      BY <1>0, <2>1 DEF Replaying, Unsplit
    <2> QED BY <2>1, <2>2, <2>3
  <1>3. ASSUME NEW g \in pieces PROVE g \in made
    <2>0. g \in z.segs /\ f.t <= g.a /\ g.b <= target
      OBVIOUS
    <2>1. g.a \in Stops(f, target, imu) /\ \E i \in 1 .. Len(imu) : Covers(imu[i], g.a)
      BY <2>0, PieceAtStop
    <2> PICK i \in 1 .. Len(imu) : Covers(imu[i], g.a)
      BY <2>1
    <2>2. g.a < target
      BY <1>0, <2>0
    <2>3. g = Segment(imu[i], g.a, target)
      <3>1. g \in z.segs /\ f.t <= g.a /\ g.a < target /\ Covers(imu[i], g.a)
        BY <2>0, <2>2
      <3> QED BY ONLY <1>p, <3>1, i \in 1 .. Len(imu)
    <2> QED BY <1>1, <2>1, <2>3
  <1> HIDE DEF pieces
  <1>4. made = pieces
    BY Zenon, <1>2, <1>3
  <1> QED BY <1>4 DEF made, pieces

(* A replay brings the filter on its way to z to another of its epochs.     *)
LEMMA ReplayDone ==
    ASSUME NEW f \in Filters, NEW z \in Filters, NEW imu \in Seq(Samples),
           NEW now, Disjoint(imu, now), NEW target \in Epochs, f.t <= target, target <= z.t,
           f.segs = {g \in z.segs : g.b <= f.t}, Unsplit(z.segs, f.t), Unsplit(z.segs, target),
           Tiled(z), Sampled(z, imu),
           \A u \in Epochs : f.t < u /\ u < target => z.at[u] = <<>>,
           CanReplay(f, target, imu), NEW r, r = ReplayImu(f, target, imu)
    PROVE  /\ r \in Filters /\ r.t = target /\ r.at = f.at /\ r.ps = f.ps
           /\ r.segs = {g \in z.segs : g.b <= target}
           /\ Extends(f, r)
  <1>1. /\ f.t \in Nat /\ target \in Nat
        /\ \A g \in z.segs : g.a \in Nat /\ g.b \in Nat /\ g.a < g.b
    BY FilterFields, PieceEnds, EpochsAreNat DEF Tiled
  <1>2. CASE f.t = target
    <2>1. r = f
      BY <1>2 DEF ReplayImu
    <2>2. Extends(f, f)
      BY <1>1 DEF Extends
    <2> QED BY <1>2, <2>1, <2>2
  <1>3. CASE f.t # target
    <2>1. f.t < target
      BY <1>1, <1>3
    <2>2. Replaying(f, target, imu, z)
      BY <2>1 DEF Replaying
    <2> DEFINE made == {x[2] : x \in Segments(f, target, imu)}
    <2>3. made = {g \in z.segs : f.t <= g.a /\ g.b <= target}
      BY <2>2, SegmentsReplayed
    <2>4. r = [f EXCEPT !.t = target, !.segs = f.segs \cup made]
      BY <1>3 DEF ReplayImu
    <2>5. r \in Filters
      BY ReplayFilter
    <2> HIDE DEF made
    <2>6. r.t = target /\ r.at = f.at /\ r.ps = f.ps /\ r.segs = f.segs \cup made
      <3>1. f = [t |-> f.t, at |-> f.at, segs |-> f.segs, ps |-> f.ps]
        BY FilterFields
      <3> QED BY <2>4, <3>1
    <2>7. \A g \in z.segs : g.b <= target => g.b <= f.t \/ f.t <= g.a
      BY <1>1 DEF Unsplit
    <2>8. \A g \in z.segs : g.b <= f.t => g.b <= target
      BY <1>1
    <2>9. r.segs = {g \in z.segs : g.b <= target}
      BY <2>3, <2>6, <2>7, <2>8
    <2>10. Extends(f, r)
      BY <1>1, <2>3, <2>6 DEF Extends
    <2> QED BY <2>5, <2>6, <2>9, <2>10
  <1> QED BY <1>2, <1>3

(* A measurement that the filter lacks is still to be replayed.             *)
LEMMA BlockGone ==
    ASSUME NEW q \in Seq(Measurements), NEW u, \A i \in 1 .. Len(q) : q[i].t # u,
           NEW s \in Seq(GnssKinds), NEW d \in Nat, d <= Len(s), Block(q, u, s, d)
    PROVE  d = Len(s)
  <1> SUFFICES ASSUME d # Len(s) PROVE FALSE
    OBVIOUS
  <1>1. Len(s) \in Nat /\ d < Len(s)
    OBVIOUS
  <1> PICK p \in 0 .. Len(q) : BlockAt(p, q, u, s, d)
    BY DEF Block
  <1>2. p + 1 \in 1 .. Len(q) /\ q[p + 1].t = u
    BY <1>1, BlockSome
  <1> QED BY <1>2

(* What Append leaves and adds                                              *)
LEMMA Appended ==
    ASSUME NEW R, NEW q \in Seq(R), NEW x \in R
    PROVE  /\ Len(Append(q, x)) = Len(q) + 1
           /\ \A n \in 1 .. Len(q) : Append(q, x)[n] = q[n]
           /\ Append(q, x)[Len(q) + 1] = x
  OBVIOUS

(* r is f, propagated to measurement m and corrected by it.                 *)
Applied(f, r, m) ==
    /\ r \in Filters /\ r.t = m.t /\ r.ps = f.ps
    /\ r.at = [f.at EXCEPT ![m.t] = Append(f.at[m.t], m.kind)]
    /\ Extends(f, r) /\ \A g \in r.segs : g.b <= r.t

(* One turn of the replay loop goes on towards z.                           *)
LEMMA UnderwayReplay ==
    ASSUME NEW f \in Filters, NEW z \in Filters, NEW imu \in Seq(Samples),
           NEW now, Disjoint(imu, now), Tiled(z), Sampled(z, imu), Timely(f),
           NEW todo \in Seq(Measurements), todo # <<>>, Sorted(todo),
           \A i \in 1 .. Len(todo) : f.t <= todo[i].t /\ todo[i].t <= z.t,
           NEW m, m = Head(todo), CanReplay(f, m.t, imu), Underway(f, todo, z),
           NEW r, r = Correct(ReplayImu(f, m.t, imu), m.kind)
    PROVE  Applied(f, r, m) /\ Underway(r, Tail(todo), z)
  <1>1. /\ Len(todo) \in Nat /\ Len(todo) >= 1 /\ m = todo[1] /\ m.t \in Epochs /\ m.t \in Nat
        /\ m.kind \in GnssKinds /\ m \in Measurements
        /\ \A i \in 1 .. Len(todo) : todo[i].t \in Nat
    <2>1. Len(todo) >= 1 /\ m = todo[1]
      OBVIOUS
    <2> QED BY <2>1, Entries
  <1>2. /\ f.t \in Nat /\ z.t \in Nat /\ f.at \in [Epochs -> Seq(GnssKinds)]
        /\ \A u \in Epochs : f.at[u] \in Seq(GnssKinds) /\ Len(f.at[u]) \in Nat
        /\ \A u \in Epochs : z.at[u] \in Seq(GnssKinds) /\ Len(z.at[u]) \in Nat
    BY FilterFields
  <1>3. \A u \in Epochs :
          /\ Len(f.at[u]) <= Len(z.at[u])
          /\ \A n \in 1 .. Len(f.at[u]) : f.at[u][n] = z.at[u][n]
          /\ Block(todo, u, z.at[u], Len(f.at[u]))
    BY DEF Underway
  <1> DEFINE d == Len(f.at[m.t])
  <1>4. d < Len(z.at[m.t]) /\ z.at[m.t][d + 1] = m.kind /\ Block(Tail(todo), m.t, z.at[m.t], d + 1)
    <2>1. /\ d \in Nat /\ z.at[m.t] \in Seq(GnssKinds) /\ d <= Len(z.at[m.t])
          /\ Block(todo, todo[1].t, z.at[m.t], d)
      BY <1>1, <1>2, <1>3
    <2> HIDE DEF d
    <2>2. d < Len(z.at[todo[1].t]) /\ z.at[todo[1].t][d + 1] = todo[1].kind
          /\ Block(Tail(todo), todo[1].t, z.at[todo[1].t], d + 1)
      <3>1. z.at[todo[1].t] = z.at[m.t]
        BY <1>1
      <3> QED BY <2>1, <3>1, BlockHead
    <2> QED BY <1>1, <2>2
  <1>5. Unsplit(z.segs, m.t)
    <2>1. z.at[m.t] # <<>>
      BY <1>2, <1>4
    <2> QED BY <1>1, <2>1 DEF Tiled, Unsplit
  <1>6. ASSUME NEW u \in Epochs, f.t < u, u < m.t PROVE z.at[u] = <<>>
    <2>1. u \in Nat /\ f.at[u] = <<>>
      BY <1>6, EpochsAreNat DEF Timely
    <2>2. \A i \in 1 .. Len(todo) : todo[i].t # u
      <3> SUFFICES ASSUME NEW i \in 1 .. Len(todo) PROVE todo[i].t # u
        OBVIOUS
      <3>1. m.t <= todo[i].t
        <4>1. CASE i = 1
          BY <1>1, <4>1
        <4>2. CASE i # 1
          <5>1. 1 \in 1 .. Len(todo) /\ 1 < i
            BY <1>1, <4>2
          <5> QED BY <1>1, <5>1 DEF Sorted
        <4> QED BY <4>1, <4>2
      <3> QED BY <1>1, <1>6, <2>1, <3>1
    <2>3. Len(f.at[u]) = Len(z.at[u])
      BY <1>2, <1>3, <2>2, BlockGone
    <2>4. Len(z.at[u]) = 0
      BY <2>1, <2>3
    <2> QED BY <1>2, <2>4
  <1> DEFINE y == ReplayImu(f, m.t, imu)
  <1>7. /\ y \in Filters /\ y.t = m.t /\ y.at = f.at /\ y.ps = f.ps
        /\ y.segs = {g \in z.segs : g.b <= m.t} /\ Extends(f, y)
    <2>1. f.t <= m.t /\ m.t <= z.t
      BY <1>1
    <2>2. f.segs = {g \in z.segs : g.b <= f.t} /\ Unsplit(z.segs, f.t)
      BY DEF Underway
    <2> QED BY <1>1, <1>5, <1>6, <2>1, <2>2, ReplayDone
  <1> HIDE DEF y
  <1>8. /\ r \in Filters /\ r.t = m.t /\ r.ps = f.ps /\ r.segs = y.segs
        /\ r.at = [f.at EXCEPT ![m.t] = Append(f.at[m.t], m.kind)]
    <2>1. y = [t |-> y.t, at |-> y.at, segs |-> y.segs, ps |-> y.ps]
      BY <1>7, FilterFields
    <2>2. r = Correct(y, m.kind)
      BY DEF y
    <2>3. r \in Filters
      BY <1>1, <1>7, <2>2, CorrectFilter
    <2>4. r = [y EXCEPT !.at[y.t] = Append(y.at[y.t], m.kind)]
      BY Zenon, <2>2 DEF Correct
    <2>5. /\ r.t = y.t /\ r.ps = y.ps /\ r.segs = y.segs
          /\ r.at = [y.at EXCEPT ![y.t] = Append(y.at[y.t], m.kind)]
      BY Zenon, <2>1, <2>4
    <2> QED BY <1>7, <2>3, <2>5
  <1>9. Extends(f, r)
    BY <1>7, <1>8 DEF Extends
  <1>10. ASSUME NEW u \in Epochs
         PROVE  /\ Len(r.at[u]) <= Len(z.at[u])
                /\ \A n \in 1 .. Len(r.at[u]) : r.at[u][n] = z.at[u][n]
                /\ Block(Tail(todo), u, z.at[u], Len(r.at[u]))
    <2>1. CASE u = m.t
      <3>1. r.at[u] = Append(f.at[u], m.kind)
        BY Zenon, <1>1, <1>2, <1>8, <2>1
      <3>2. f.at[u] \in Seq(GnssKinds) /\ Len(f.at[u]) = d /\ d \in Nat /\ Len(z.at[u]) \in Nat
        BY <1>1, <1>2, <2>1
      <3>3. /\ Len(r.at[u]) = d + 1 /\ r.at[u][d + 1] = m.kind
            /\ \A n \in 1 .. d : r.at[u][n] = f.at[u][n]
        <4>1. /\ Len(Append(f.at[u], m.kind)) = Len(f.at[u]) + 1
              /\ \A n \in 1 .. Len(f.at[u]) : Append(f.at[u], m.kind)[n] = f.at[u][n]
              /\ Append(f.at[u], m.kind)[Len(f.at[u]) + 1] = m.kind
          <5>1. m.kind \in GnssKinds /\ f.at[u] \in Seq(GnssKinds)
            BY <1>1, <3>2
          <5> QED BY <5>1, Appended
        <4> QED BY Zenon, <3>1, <3>2, <4>1
      <3>4. d < Len(z.at[u]) /\ z.at[u][d + 1] = m.kind /\ Block(Tail(todo), u, z.at[u], d + 1)
        BY <1>4, <2>1
      <3>5. \A n \in 1 .. d : f.at[u][n] = z.at[u][n]
        BY <1>3, <3>2
      <3> HIDE DEF d
      <3>6. \A n \in 1 .. Len(r.at[u]) : n \in 1 .. d \/ n = d + 1
        BY <3>2, <3>3
      <3>7. \A n \in 1 .. Len(r.at[u]) : r.at[u][n] = z.at[u][n]
        BY <3>3, <3>4, <3>5, <3>6
      <3>8. Len(r.at[u]) <= Len(z.at[u])
        BY <3>2, <3>3, <3>4
      <3>9. Block(Tail(todo), u, z.at[u], Len(r.at[u]))
        BY ONLY <3>3, <3>4
      <3> QED BY ONLY <3>7, <3>8, <3>9
    <2>2. CASE u # m.t
      <3>1. r.at[u] = f.at[u]
        BY <1>2, <1>8, <2>2
      <3>2. /\ Tail(todo) \in Seq(Measurements) /\ Len(Tail(todo)) = Len(todo) - 1
            /\ \A i \in 1 .. Len(Tail(todo)) : Tail(todo)[i] = todo[i + 1]
        BY <1>1
      <3>3. /\ 1 \in Nat /\ Len(Tail(todo)) + 1 <= Len(todo)
            /\ \A i \in 1 .. Len(todo) : todo[i].t = u => 1 < i /\ i <= 1 + Len(Tail(todo))
        BY <1>1, <2>2, <3>2
      <3>4. Block(Tail(todo), u, z.at[u], Len(f.at[u]))
        BY Zenon, <1>2, <1>3, <3>2, <3>3, BlockPart
      <3> QED BY <1>3, <3>1, <3>4
    <2> QED BY <2>1, <2>2
  <1>11. Underway(r, Tail(todo), z)
    <2>1. /\ r.t <= z.t /\ r.segs = {g \in z.segs : g.b <= r.t} /\ Unsplit(z.segs, r.t)
      BY <1>1, <1>5, <1>7, <1>8
    <2>2. Earlier(r.ps, z.ps)
      BY <1>8 DEF Underway
    <2> QED BY ONLY <1>10, <2>1, <2>2 DEF Underway
  <1>12. Applied(f, r, m)
    BY <1>7, <1>8, <1>9 DEF Applied
  <1> QED BY <1>11, <1>12

-----------------------------------------------------------------------------
(* The measurements a late one is inserted among *)

(* UpTo and After part a history at an index.                               *)
LEMMA SplitIndices ==
    ASSUME NEW q \in Seq(Measurements), Sorted(q), NEW t \in Nat
    PROVE  \E n \in 0 .. Len(q) : /\ UpTo(q, t) = SubSeq(q, 1, n)
                                  /\ After(q, t) = SubSeq(q, n + 1, Len(q))
                                  /\ \A i \in 1 .. Len(q) : q[i].t <= t <=> i <= n
  <1> DEFINE S == {i \in 1 .. Len(q) : q[i].t <= t}
             n == Cardinality(S)
  <1>0. Len(q) \in Nat /\ \A i \in 1 .. Len(q) : q[i].t \in Nat
    BY Entries
  <1>1. \A i \in S, j \in 1 .. Len(q) : j < i => j \in S
    BY <1>0 DEF Sorted
  <1>2. S \in SUBSET (1 .. Len(q))
    OBVIOUS
  <1>3. UpTo(q, t) = SubSeq(q, 1, n) /\ After(q, t) = SubSeq(q, n + 1, Len(q))
    BY DEF UpTo, After
  <1>4. \A i \in 1 .. Len(q) : q[i].t <= t <=> i \in S
    OBVIOUS
  <1> HIDE DEF S
  <1>5. n \in 0 .. Len(q) /\ S = 1 .. n
    BY Zenon, <1>0, <1>1, <1>2, CountBound, CountPrefix
  <1> HIDE DEF n
  <1>6. \A i \in 1 .. Len(q) : q[i].t <= t <=> i <= n
    BY <1>4, <1>5
  <1> QED BY <1>3, <1>5, <1>6

(* Insert puts the measurement behind those that are not newer.             *)
LEMMA InsertIndices ==
    ASSUME NEW q \in Seq(Measurements), Sorted(q), NEW m \in Measurements
    PROVE  /\ Insert(q, m) \in Seq(Measurements) /\ Len(Insert(q, m)) = Len(q) + 1
           /\ \E n \in 0 .. Len(q) :
                /\ \A i \in 1 .. n : Insert(q, m)[i] = q[i]
                /\ Insert(q, m)[n + 1] = m
                /\ \A i \in (n + 1) .. Len(q) : Insert(q, m)[i + 1] = q[i]
                /\ \A i \in 1 .. Len(q) : q[i].t <= m.t <=> i <= n
  <1>1. m.t \in Nat /\ Len(q) \in Nat
    BY Timestamps, Entries
  <1> PICK n \in 0 .. Len(q) : /\ UpTo(q, m.t) = SubSeq(q, 1, n)
                               /\ After(q, m.t) = SubSeq(q, n + 1, Len(q))
                               /\ \A i \in 1 .. Len(q) : q[i].t <= m.t <=> i <= n
    BY Zenon, <1>1, SplitIndices
  <1> DEFINE a == SubSeq(q, 1, n)
             b == SubSeq(q, n + 1, Len(q))
             am == a \o <<m>>
             s == am \o b
  <1>2. a \in Seq(Measurements) /\ Len(a) = n /\ \A i \in 1 .. n : a[i] = q[i]
    BY <1>1
  <1>3. /\ b \in Seq(Measurements) /\ Len(b) = Len(q) - n
        /\ \A i \in 1 .. (Len(q) - n) : b[i] = q[i + n]
    BY <1>1
  <1>4. Insert(q, m) = s
    BY DEF Insert
  <1> HIDE DEF a, b
  <1>5. /\ am \in Seq(Measurements) /\ Len(am) = n + 1
        /\ \A i \in 1 .. n : am[i] = a[i]
        /\ am[n + 1] = m
    <2>1. <<m>> \in Seq(Measurements) /\ Len(<<m>>) = 1 /\ <<m>>[1] = m
      OBVIOUS
    <2>2. /\ am \in Seq(Measurements) /\ Len(am) = Len(a) + Len(<<m>>)
          /\ \A i \in 1 .. Len(a) + Len(<<m>>) :
                am[i] = IF i <= Len(a) THEN a[i] ELSE <<m>>[i - Len(a)]
      BY <1>2, <2>1, ConcatProperties
    <2>3. \A i \in 1 .. n : am[i] = a[i]
      BY <1>2, <2>1, <2>2
    <2>4. n + 1 \in 1 .. Len(a) + Len(<<m>>) /\ ~ (n + 1 <= Len(a)) /\ (n + 1) - Len(a) = 1
      BY <1>2, <2>1
    <2>5. am[n + 1] = <<m>>[(n + 1) - Len(a)]
      BY <2>2, <2>4
    <2> QED BY <1>2, <2>1, <2>2, <2>3, <2>4, <2>5
  <1> HIDE DEF am
  <1>6. /\ s \in Seq(Measurements) /\ Len(s) = Len(am) + Len(b)
        /\ \A i \in 1 .. Len(am) + Len(b) : s[i] = IF i <= Len(am) THEN am[i] ELSE b[i - Len(am)]
    BY Zenon, <1>3, <1>5, ConcatProperties
  <1> HIDE DEF s
  <1>7. Len(s) = Len(q) + 1
    BY <1>1, <1>3, <1>5, <1>6
  <1>8. ASSUME NEW i \in 1 .. n PROVE s[i] = q[i]
    <2>1. i \in 1 .. Len(am) + Len(b) /\ i <= Len(am)
      BY <1>1, <1>3, <1>5
    <2> QED BY <1>2, <1>5, <1>6, <2>1
  <1>9. s[n + 1] = m
    <2>1. n + 1 \in 1 .. Len(am) + Len(b) /\ n + 1 <= Len(am)
      BY <1>1, <1>3, <1>5
    <2> QED BY <1>5, <1>6, <2>1
  <1>10. ASSUME NEW i \in (n + 1) .. Len(q) PROVE s[i + 1] = q[i]
    <2>1. /\ i + 1 \in 1 .. Len(am) + Len(b) /\ ~ (i + 1 <= Len(am))
          /\ i + 1 - Len(am) \in 1 .. (Len(q) - n) /\ (i + 1 - Len(am)) + n = i
      BY <1>1, <1>3, <1>5
    <2>2. s[i + 1] = b[i + 1 - Len(am)]
      BY <1>6, <2>1
    <2>3. b[i + 1 - Len(am)] = q[(i + 1 - Len(am)) + n]
      BY Zenon, <1>3, <2>1
    <2> QED BY Zenon, <2>1, <2>2, <2>3
  <1> QED BY Zenon, <1>4, <1>6, <1>7, <1>8, <1>9, <1>10

(* What is to be replayed of other epochs does not change.                  *)
LEMMA BlockInserted ==
    ASSUME NEW q \in Seq(Measurements), Sorted(q), NEW m \in Measurements,
           NEW u \in Nat, u # m.t, NEW s \in Seq(GnssKinds), NEW d \in Nat, d <= Len(s),
           Block(q, u, s, d)
    PROVE  Block(Insert(q, m), u, s, d)
  <1> DEFINE r == Insert(q, m)
  <1>1. /\ r \in Seq(Measurements) /\ Len(r) = Len(q) + 1 /\ Len(q) \in Nat /\ Len(s) \in Nat
        /\ m.t \in Nat /\ \A i \in 1 .. Len(q) : q[i].t \in Nat
    <2>1. r \in Seq(Measurements) /\ Len(r) = Len(q) + 1
      BY InsertIndices
    <2> HIDE DEF r
    <2> QED BY <2>1, Entries, Timestamps
  <1>2. \E n \in 0 .. Len(q) :
          /\ \A i \in 1 .. n : r[i] = q[i]
          /\ r[n + 1] = m
          /\ \A i \in (n + 1) .. Len(q) : r[i + 1] = q[i]
          /\ \A i \in 1 .. Len(q) : q[i].t <= m.t <=> i <= n
    BY Zenon, InsertIndices
  <1> HIDE DEF r
  <1> PICK n \in 0 .. Len(q) :
          /\ \A i \in 1 .. n : r[i] = q[i]
          /\ r[n + 1] = m
          /\ \A i \in (n + 1) .. Len(q) : r[i + 1] = q[i]
          /\ \A i \in 1 .. Len(q) : q[i].t <= m.t <=> i <= n
    BY <1>2
  <1>3. \A i \in 1 .. Len(r) : \/ i \in 1 .. n /\ r[i] = q[i]
                               \/ i = n + 1
                               \/ i > n + 1 /\ i - 1 \in 1 .. Len(q) /\ r[i] = q[i - 1]
    <2> SUFFICES ASSUME NEW i \in 1 .. Len(r)
                 PROVE  \/ i \in 1 .. n /\ r[i] = q[i]
                        \/ i = n + 1
                        \/ i > n + 1 /\ i - 1 \in 1 .. Len(q) /\ r[i] = q[i - 1]
      OBVIOUS
    <2>1. CASE i \in 1 .. n
      BY <2>1
    <2>2. CASE i > n + 1
      <3>1. i - 1 \in (n + 1) .. Len(q) /\ (i - 1) + 1 = i /\ i - 1 \in 1 .. Len(q)
        BY <1>1, <2>2
      <3> QED BY <2>2, <3>1
    <2>3. i \in 1 .. n \/ i = n + 1 \/ i > n + 1
      BY <1>1
    <2> QED BY <2>1, <2>2, <2>3
  <1>4. CASE d = Len(s)
    <2>1. \A i \in 1 .. Len(q) : q[i].t # u
      BY <1>4, BlockNone
    <2>2. ASSUME NEW i \in 1 .. Len(r) PROVE r[i].t # u
      <3>1. CASE i \in 1 .. n /\ r[i] = q[i]
        BY <1>1, <2>1, <3>1
      <3>2. CASE i = n + 1
        BY <3>2
      <3>3. CASE i > n + 1 /\ i - 1 \in 1 .. Len(q) /\ r[i] = q[i - 1]
        BY <2>1, <3>3
      <3> QED BY <1>3, <3>1, <3>2, <3>3
    <2>3. Block(r, u, s, d)
      BY <1>1, <1>4, <2>2, BlockNone
    <2> QED BY <2>3 DEF r
  <1>5. CASE d < Len(s)
    <2> PICK p \in 0 .. Len(q) : BlockAt(p, q, u, s, d)
      BY DEF Block
    <2>1. /\ p + 1 \in 1 .. Len(q) /\ q[p + 1].t = u
          /\ p + Len(s) - d \in 1 .. Len(q) /\ q[p + Len(s) - d].t = u
      BY <1>5, BlockSome
    <2>2. /\ \A x \in (d + 1) .. Len(s) : q[p + x - d].t = u /\ q[p + x - d].kind = s[x]
          /\ \A i \in 1 .. Len(q) : q[i].t = u => p < i /\ i + d <= p + Len(s)
      BY DEF BlockAt
    <2>3. CASE u <= m.t
      <3>1. p + Len(s) - d <= n
        BY <2>1, <2>3
      <3>2. ASSUME NEW x \in (d + 1) .. Len(s) PROVE r[p + x - d].t = u /\ r[p + x - d].kind = s[x]
        <4>1. p + x - d \in 1 .. n
          BY <1>1, <3>1
        <4> QED BY <2>2, <4>1
      <3>3. ASSUME NEW i \in 1 .. Len(r), r[i].t = u PROVE p < i /\ i + d <= p + Len(s)
        <4>1. CASE i \in 1 .. n /\ r[i] = q[i]
          <5>1. i \in 1 .. Len(q)
            BY <1>1, <4>1
          <5> QED BY <2>2, <3>3, <4>1, <5>1
        <4>2. CASE i = n + 1
          BY <3>3, <4>2
        <4>3. CASE i > n + 1 /\ i - 1 \in 1 .. Len(q) /\ r[i] = q[i - 1]
          <5>1. q[i - 1].t = u /\ ~ (i - 1 <= n)
            BY <1>1, <3>3, <4>3
          <5> QED BY Zenon, <2>3, <4>3, <5>1
        <4> QED BY <1>3, <4>1, <4>2, <4>3
      <3>4. p \in 0 .. Len(r) /\ p + Len(s) <= Len(r) + d
        BY SMTT(20), <1>1, <2>1
      <3>5. Block(r, u, s, d)
        BY Zenon, <3>2, <3>3, <3>4 DEF Block, BlockAt
      <3> QED BY <3>5 DEF r
    <2>4. CASE ~ (u <= m.t)
      <3>1. n < p + 1
        BY SMTT(20), <1>1, <2>1, <2>4
      <3>2. ASSUME NEW x \in (d + 1) .. Len(s)
            PROVE  r[(p + 1) + x - d].t = u /\ r[(p + 1) + x - d].kind = s[x]
        <4>1. p + x - d \in (n + 1) .. Len(q) /\ (p + x - d) + 1 = (p + 1) + x - d
          <5>1. /\ p \in Nat /\ x \in Int /\ d + 1 <= x /\ x <= Len(s) /\ n \in Nat /\ n < p + 1
                /\ p + Len(s) - d <= Len(q)
            BY <1>1, <2>1, <3>1
          <5>2. d \in Nat /\ Len(s) \in Nat /\ Len(q) \in Nat
            BY <1>1
          <5> QED BY ONLY <5>1, <5>2
        <4>2. r[(p + 1) + x - d] = q[p + x - d]
          BY <4>1
        <4> QED BY <2>2, <4>2
      <3>3. ASSUME NEW i \in 1 .. Len(r), r[i].t = u PROVE p + 1 < i /\ i + d <= (p + 1) + Len(s)
        <4>1. CASE i \in 1 .. n /\ r[i] = q[i]
          <5>1. i \in 1 .. Len(q) /\ q[i].t <= m.t
            BY <1>1, <4>1
          <5> QED BY <2>4, <3>3, <4>1, <5>1
        <4>2. CASE i = n + 1
          BY <3>3, <4>2
        <4>3. CASE i > n + 1 /\ i - 1 \in 1 .. Len(q) /\ r[i] = q[i - 1]
          <5>1. p < i - 1 /\ (i - 1) + d <= p + Len(s)
            BY Zenon, <2>2, <3>3, <4>3
          <5> QED BY <1>1, <5>1
        <4> QED BY <1>3, <4>1, <4>2, <4>3
      <3>4. p + 1 \in 0 .. Len(r) /\ (p + 1) + Len(s) <= Len(r) + d
        BY SMTT(20), <1>1, <2>1
      <3>5. Block(r, u, s, d)
        BY Zenon, <3>2, <3>3, <3>4 DEF Block, BlockAt
      <3> QED BY <3>5 DEF r
    <2> QED BY <2>3, <2>4
  <1> QED BY <1>1, <1>4, <1>5

(* The measurement itself is what is to be replayed of its epoch.           *)
LEMMA BlockInsertedNew ==
    ASSUME NEW q \in Seq(Measurements), Sorted(q), NEW m \in Measurements,
           \A i \in 1 .. Len(q) : q[i].t # m.t,
           NEW s \in Seq(GnssKinds), NEW d \in Nat, Len(s) = d + 1, s[d + 1] = m.kind
    PROVE  Block(Insert(q, m), m.t, s, d)
  <1> DEFINE r == Insert(q, m)
  <1>1. r \in Seq(Measurements) /\ Len(r) = Len(q) + 1 /\ Len(q) \in Nat
    BY InsertIndices, Entries
  <1>2. \E n \in 0 .. Len(q) :
          /\ \A i \in 1 .. n : r[i] = q[i]
          /\ r[n + 1] = m
          /\ \A i \in (n + 1) .. Len(q) : r[i + 1] = q[i]
    BY Zenon, InsertIndices
  <1> HIDE DEF r
  <1> PICK n \in 0 .. Len(q) :
          /\ \A i \in 1 .. n : r[i] = q[i]
          /\ r[n + 1] = m
          /\ \A i \in (n + 1) .. Len(q) : r[i + 1] = q[i]
    BY <1>2
  <1>3. n \in 0 .. Len(r) /\ n + Len(s) <= Len(r) + d
    BY <1>1
  <1>4. ASSUME NEW x \in (d + 1) .. Len(s) PROVE r[n + x - d].t = m.t /\ r[n + x - d].kind = s[x]
    <2>1. x = d + 1 /\ n + x - d = n + 1
      OBVIOUS
    <2> QED BY <2>1
  <1>5. ASSUME NEW i \in 1 .. Len(r), r[i].t = m.t PROVE n < i /\ i + d <= n + Len(s)
    <2>1. i = n + 1
      <3> SUFFICES ASSUME i # n + 1 PROVE FALSE
        OBVIOUS
      <3>1. CASE i \in 1 .. n
        <4>1. i \in 1 .. Len(q) /\ r[i] = q[i]
          BY <1>1, <3>1
        <4> QED BY <1>5, <4>1
      <3>2. CASE i \notin 1 .. n
        <4>1. i - 1 \in (n + 1) .. Len(q) /\ i - 1 \in 1 .. Len(q) /\ (i - 1) + 1 = i
          BY <1>1, <3>2
        <4>2. r[i] = q[i - 1]
          BY <4>1
        <4> QED BY <1>5, <4>1, <4>2
      <3> QED BY <3>1, <3>2
    <2> QED BY <2>1
  <1>6. Block(r, m.t, s, d)
    BY <1>3, <1>4, <1>5 DEF Block, BlockAt
  <1> QED BY <1>6 DEF r

-----------------------------------------------------------------------------
(* InOrderInv is inductive, given IInv and KeptInv *)

(* What a correction changes                                                *)
LEMMA CorrectFields ==
    ASSUME NEW f \in Filters, NEW k
    PROVE  /\ Correct(f, k).t = f.t /\ Correct(f, k).ps = f.ps /\ Correct(f, k).segs = f.segs
           /\ Correct(f, k).at = [f.at EXCEPT ![f.t] = Append(f.at[f.t], k)]
  <1>1. f = [t |-> f.t, at |-> f.at, segs |-> f.segs, ps |-> f.ps]
    BY FilterFields
  <1>2. Correct(f, k) = [f EXCEPT !.at[f.t] = Append(f.at[f.t], k)]
    BY DEF Correct
  <1> QED BY <1>1, <1>2

(* A correction at the epoch of the filter moves no piece.                  *)
LEMMA CorrectStays ==
    ASSUME NEW f \in Filters, Tiled(f), NEW imu \in Seq(Samples), Sampled(f, imu),
           NEW k \in GnssKinds, NEW z, z = Correct(f, k)
    PROVE  /\ z \in Filters /\ z.t = f.t /\ z.ps = f.ps /\ z.segs = f.segs
           /\ z.at = [f.at EXCEPT ![f.t] = Append(f.at[f.t], k)]
           /\ Tiled(z) /\ Sampled(z, imu)
           /\ Extends(f, z) /\ \A g \in z.segs : g.b <= z.t
  <1>1. z \in Filters
    BY CorrectFilter
  <1>2. /\ z.t = f.t /\ z.ps = f.ps /\ z.segs = f.segs
        /\ z.at = [f.at EXCEPT ![f.t] = Append(f.at[f.t], k)]
    BY CorrectFields
  <1>3. /\ f.t \in Nat /\ f.t \in Epochs /\ f.at \in [Epochs -> Seq(GnssKinds)]
        /\ \A g \in f.segs : g.a \in Epochs /\ g.b \in Epochs /\ g.a \in Nat /\ g.b \in Nat
        /\ f.at[f.t] \in Seq(GnssKinds)
    BY FilterFields, PieceEnds
  <1>4. \A u \in Epochs : u # f.t => z.at[u] = f.at[u]
    BY <1>2, <1>3
  <1>5. \A u \in Epochs : f.at[u] # <<>> => z.at[u] # <<>>
    <2>1. z.at[f.t] = Append(f.at[f.t], k)
      BY <1>2, <1>3
    <2>2. Len(z.at[f.t]) = Len(f.at[f.t]) + 1 /\ Len(f.at[f.t]) \in Nat
      BY <1>3, <2>1, Appended
    <2>3. z.at[f.t] # <<>>
      BY <2>2
    <2> QED BY <1>4, <2>3
  <1>6. Tiled(z)
    <2>1. \A g \in f.segs, u \in Epochs : g.a < u /\ u < g.b => f.at[u] = <<>> /\ u # f.t
      BY <1>3, EpochsAreNat DEF Tiled
    <2>2. \A g \in z.segs, u \in Epochs : g.a < u /\ u < g.b => z.at[u] = <<>>
      BY <1>2, <1>4, <2>1
    <2> QED BY <1>2, <2>2 DEF Tiled
  <1>7. Sampled(z, imu)
    <2> SUFFICES ASSUME NEW i \in 1 .. Len(imu), NEW g \in f.segs,
                        g.a < imu[i].t, imu[i].from < g.b
                 PROVE  PieceOf(g, imu[i], z.at)
      BY Zenon, <1>2 DEF Sampled
    <2>1. PieceOf(g, imu[i], f.at)
      BY DEF Sampled
    <2> QED BY <1>3, <1>5, <2>1 DEF PieceOf
  <1>8. Extends(f, z)
    BY <1>2, <1>3 DEF Extends
  <1> QED BY <1>1, <1>2, <1>6, <1>7, <1>8 DEF Tiled

(* Nothing was retained yet.                                                *)
LEMMA InitInOrder ==
    ASSUME Init PROVE InOrderInv
  <1> PICK c \in Configs : hist = NewHistory(c)
    BY DEF Init
  <1>1. /\ filter = NewFilter /\ work = {} /\ foreign = FALSE
        /\ saved = [filter |-> filter, hist |-> hist, foreign |-> FALSE]
    BY DEF Init
  <1>2. /\ hist.imu = <<>> /\ hist.meas = <<>> /\ hist.cps = <<[t |-> 0, snapshot |-> NewFilter]>>
    BY DEF NewHistory
  <1>3. /\ NewFilter \in Filters /\ NewFilter.t = 0 /\ NewFilter.segs = {} /\ NewFilter.ps = {}
        /\ \A u \in Epochs : NewFilter.at[u] = <<>>
    BY NewFilterType DEF NewFilter
  <1>4. /\ Len(hist.cps) = 1 /\ hist.cps[1].snapshot = NewFilter /\ hist.cps[1].t = 0
        /\ \A k \in 1 .. Len(hist.cps) : k = 1
    BY <1>2
  <1> HIDE DEF NewFilter
  <1>5. Tiled(filter)
    <2>1. \A p \in Epochs : ~ (p < 0)
      BY EpochsAreNat
    <2> QED BY <1>1, <1>3, <2>1 DEF Tiled
  <1>6. Sampled(filter, hist.imu)
    BY <1>1, <1>3 DEF Sampled
  <1>7. Agree(filter, hist)
    <2>1. PastOf(NewFilter, NewFilter)
      BY <1>3, PastSelf
    <2>2. Chain(filter, hist.cps)
      <3>1. \A j, k \in 1 .. Len(hist.cps) : ~ (k < j)
        BY <1>4
      <3> QED BY <1>1, <1>4, <2>1, <3>1 DEF Chain
    <2>3. ASSUME NEW u \in Epochs PROVE Block(hist.meas, u, filter.at[u], 0)
      <3>1. <<>> \in Seq(Measurements) /\ <<>> \in Seq(GnssKinds) /\ Len(<<>>) = 0
        OBVIOUS
      <3>2. \A i \in 1 .. Len(<<>>) : <<>>[i].t # u
        OBVIOUS
      <3>3. Block(<<>>, u, <<>>, 0)
        BY Zenon, <3>1, <3>2, BlockNone
      <3> QED BY <1>1, <1>2, <1>3, <3>3
    <2> QED BY <2>2, <2>3 DEF Agree, Blocks
  <1>8. AllSavedSince(saved.filter, hist.cps)
    <2>1. saved.filter.t = 0
      BY <1>1, <1>3
    <2>2. SavedSince(saved.filter, 0, NewFilter.ps)
      BY <2>1 DEF SavedSince
    <2> QED BY <1>4, <2>2 DEF AllSavedSince
  <1>9. saved.filter.t <= filter.t
    BY <1>1, <1>3
  <1>10. saved.filter = filter /\ saved.hist = hist /\ saved.foreign = FALSE
    BY <1>1
  <1> QED BY <1>1, <1>5, <1>6, <1>7, <1>8, <1>9, <1>10 DEF InOrderInv

(* bounded_push of a sample drops some, and adds only that one.             *)
LEMMA SamplePushed ==
    ASSUME NEW q \in Seq(Samples), NEW cap \in Nat \ {0}, Len(q) <= cap, NEW x \in Samples,
           NEW p, p = BoundedPush(q, cap, x), NEW i \in 1 .. Len(p)
    PROVE  p[i] = x \/ \E j \in 1 .. Len(q) : p[i] = q[j]
  <1> PICK r \in Seq(Samples) : Window(r, q) /\ BoundedPush(q, cap, x) = Append(r, x)
    BY ZenonT(30), PushWindow
  <1> PICK n \in Nat : Len(r) + n <= Len(q) /\ \A j \in 1 .. Len(r) : r[j] = q[j + n]
    BY Zenon DEF Window
  <1>1. CASE i \in 1 .. Len(r)
    <2>1. i + n \in 1 .. Len(q) /\ p[i] = q[i + n]
      BY <1>1
    <2> QED BY <2>1
  <1>2. CASE i \notin 1 .. Len(r)
    BY <1>2
  <1> QED BY <1>1, <1>2

(* propagate appends a piece, which is the whole of its sample.             *)
LEMMA PropagateInOrder ==
    ASSUME IInv, KeptInv, InOrderInv, NEW t \in Epochs, NEW k \in SampleKinds, Propagate(t, k)
    PROVE  InOrderInv'
  <1> DEFINE x == [from |-> filter.t, t |-> t, kind |-> k,
                   prior |-> hist.imu # <<>> /\ Back(hist.imu).kind = "rate"]
             g0 == [a |-> filter.t, b |-> t, of |-> [from |-> filter.t, to |-> t, kind |-> k]]
  <1>1. /\ filter \in Filters /\ filter.t \in Nat /\ filter.t \in Epochs /\ t \in Nat /\ filter.t < t
        /\ hist \in Histories /\ saved.filter.t \in Nat
        /\ filter.at \in [Epochs -> Seq(GnssKinds)]
    <2>1. saved.filter \in Filters /\ filter \in Filters /\ hist \in Histories
      BY DEF IInv, TypeOK
    <2>2. t \in Nat /\ t > filter.t
      BY EpochsAreNat DEF Propagate
    <2> QED BY <2>1, <2>2, FilterFields
  <1>2. work = {} /\ UNCHANGED <<saved, work, foreign>>
    BY DEF Propagate
  <1>3. /\ filter'.t = t /\ filter'.at = filter.at /\ filter'.ps = filter.ps
        /\ filter'.segs = filter.segs \cup {g0}
    <2>1. filter = [t |-> filter.t, at |-> filter.at, segs |-> filter.segs, ps |-> filter.ps]
      BY <1>1, FilterFields
    <2>2. filter' = [filter EXCEPT !.t = t, !.segs = filter.segs \cup {g0}]
      BY DEF Propagate
    <2> HIDE DEF g0
    <2> QED BY <2>1, <2>2
  <1>4. /\ g0 \in Pieces /\ g0.a = filter.t /\ g0.b = t
        /\ g0.of = [from |-> filter.t, to |-> t, kind |-> k]
    BY <1>1 DEF Pieces
  <1>5. x \in Samples /\ x.from = filter.t /\ x.t = t /\ x.kind = k
    BY <1>1 DEF Samples
  <1>6. /\ hist'.imu = BoundedPush(hist.imu, hist.config.imu, x)
        /\ hist'.cps = hist.cps /\ hist'.meas = hist.meas
    <2>1. hist = [config |-> hist.config, imu |-> hist.imu, cps |-> hist.cps, meas |-> hist.meas]
      BY <1>1, HistoryFields
    <2>2. hist' = [hist EXCEPT !.imu = BoundedPush(hist.imu, hist.config.imu, x)]
      BY DEF Propagate, PushImu
    <2> HIDE DEF x
    <2> QED BY <2>1, <2>2
  <1> HIDE DEF g0, x
  <1>7. filter' \in Filters
    <2>1. IInv'
      BY PropagateIInv
    <2> QED BY <2>1 DEF IInv, TypeOK
  <1>8. saved.filter.t <= filter'.t
    BY <1>1, <1>3 DEF InOrderInv
  <1>9. ASSUME ~ foreign
        PROVE  /\ Tiled(filter') /\ Sampled(filter', hist'.imu) /\ Agree(filter', hist')
               /\ AllSavedSince(saved.filter, hist'.cps)
    <2>1. /\ Tiled(filter) /\ Sampled(filter, hist.imu) /\ Agree(filter, hist)
          /\ AllSavedSince(saved.filter, hist.cps)
      BY <1>9 DEF InOrderInv
    <2>2. \A g \in filter.segs : g \in Pieces /\ g.a \in Nat /\ g.b \in Nat /\ g.a < g.b /\ g.b <= filter.t
      BY <1>1, <2>1, FilterFields, PieceEnds DEF Tiled
    <2>3. Tiled(filter')
      <3>1. \A g \in filter'.segs : g.a < g.b /\ g.b <= t
        <4>1. \A g \in filter.segs : g.a < g.b /\ g.b <= t
          BY <1>1, <2>2
        <4> QED BY <1>1, <1>3, <1>4, <4>1
      <3>2. ASSUME NEW p \in Epochs, p < t PROVE \E g \in filter'.segs : g.a <= p /\ p < g.b
        <4>1. CASE p < filter.t
          <5>1. \E g \in filter.segs : g.a <= p /\ p < g.b
            BY <2>1, <4>1 DEF Tiled
          <5> QED BY <1>3, <5>1
        <4>2. CASE ~ (p < filter.t)
          <5>1. g0 \in filter'.segs /\ g0.a <= p /\ p < g0.b
            BY <1>1, <1>3, <1>4, <3>2, <4>2, EpochsAreNat
          <5> QED BY <5>1
        <4> QED BY <4>1, <4>2
      <3>3. ASSUME NEW g \in filter'.segs, NEW u \in Epochs, g.a < u, u < g.b
            PROVE  filter.at[u] = <<>>
        <4>1. CASE g \in filter.segs
          BY <2>1, <3>3, <4>1 DEF Tiled
        <4>2. CASE g = g0
          BY <1>4, <3>3, <4>2 DEF KeptInv, AllTimely, Timely
        <4> QED BY <1>3, <4>1, <4>2
      <3>4. ASSUME NEW y \in filter.ps PROVE y.t <= t
        <4>1. y.t \in Nat /\ y.t <= filter.t
          BY <1>1, <2>1, FilterFields, EpochsAreNat DEF Tiled
        <4> QED BY <1>1, <4>1
      <3> QED BY <1>3, <3>1, <3>2, <3>3, <3>4 DEF Tiled
    <2>4. Sampled(filter', hist'.imu)
      <3>1. /\ hist.imu \in Seq(Samples) /\ hist.config.imu \in Nat \ {0}
            /\ Len(hist.imu) <= hist.config.imu
        BY <1>1, HistoryFields
      <3>2. Disjoint(hist.imu, filter.t)
        BY OrderParts DEF IInv, HistoryOrdered
      <3> SUFFICES ASSUME NEW i \in 1 .. Len(hist'.imu), NEW g \in filter'.segs,
                          g.a < hist'.imu[i].t, hist'.imu[i].from < g.b
                   PROVE  PieceOf(g, hist'.imu[i], filter.at)
        BY <1>3 DEF Sampled
      <3>3. hist'.imu[i] = x \/ \E j \in 1 .. Len(hist.imu) : hist'.imu[i] = hist.imu[j]
        BY <1>5, <1>6, <3>1, SamplePushed
      <3>4. ASSUME NEW j \in 1 .. Len(hist.imu), hist'.imu[i] = hist.imu[j]
            PROVE  PieceOf(g, hist'.imu[i], filter.at)
        <4>1. CASE g \in filter.segs
          BY <2>1, <3>4, <4>1 DEF Sampled
        <4>2. CASE g = g0
          <5>1. hist.imu[j].t <= filter.t /\ hist.imu[j].t \in Nat
            BY <3>1, <3>2, Timestamps DEF Disjoint
          <5> QED BY <1>1, <1>4, <3>4, <4>2, <5>1
        <4> QED BY <1>3, <4>1, <4>2
      <3>5. CASE hist'.imu[i] = x
        <4>1. CASE g \in filter.segs
          BY <1>1, <1>5, <2>2, <3>5, <4>1
        <4>2. CASE g = g0
          BY <1>1, <1>4, <1>5, <3>5, <4>2 DEF PieceOf, SampleOf
        <4> QED BY <1>3, <4>1, <4>2
      <3> QED BY <3>3, <3>4, <3>5
    <2>5. Agree(filter', hist')
      <3>1. Extends(filter, filter')
        BY <1>1, <1>3, <1>4 DEF Extends
      <3>2. hist.cps \in Seq(Checkpoints)
        BY <1>1, HistoryFields
      <3>3. Chain(filter', hist.cps)
        BY <1>1, <1>3, <1>7, <2>1, <3>1, <3>2, ChainExtends DEF Agree
      <3>4. Blocks(filter', hist.cps, hist.meas)
        BY <1>3, <2>1 DEF Agree, Blocks
      <3> QED BY <1>6, <3>3, <3>4 DEF Agree
    <2> QED BY <1>6, <2>1, <2>3, <2>4, <2>5
  <1> QED BY <1>2, <1>8, <1>9 DEF InOrderInv

(* An update at the current epoch                                           *)
LEMMA UpdateInOrder ==
    ASSUME IInv, KeptInv, InOrderInv, NEW k \in GnssKinds, Update(k)
    PROVE  InOrderInv'
  <1> DEFINE m == [t |-> filter.t, kind |-> k]
  <1>1. /\ filter \in Filters /\ hist \in Histories /\ saved.filter \in Filters
        /\ filter.t \in Nat /\ saved.filter.t \in Nat
    <2>1. filter \in Filters /\ hist \in Histories /\ saved.filter \in Filters
      BY DEF IInv, TypeOK
    <2> QED BY <2>1, FilterFields
  <1>2. m \in Measurements /\ m.t = filter.t /\ m.kind = k
    BY <1>1, FilterFields DEF Measurements
  <1>3. /\ filter' = Correct(filter, k) /\ hist' = PushMeasurement(hist, m, filter')
        /\ work = {} /\ UNCHANGED <<saved, work, foreign>>
    BY DEF Update
  <1> HIDE DEF m
  <1>4. hist.imu \in Seq(Samples)
    BY <1>1, HistoryFields
  <1>5. filter' \in Filters /\ filter'.t = filter.t
    BY <1>1, <1>3, CorrectFilter
  <1>6. saved.filter.t <= filter.t
    BY DEF InOrderInv
  <1>7. Timed(hist.cps, filter.t) /\ Matched(hist.cps) /\ Timed(hist.meas, filter.t)
    BY OrderParts DEF IInv, HistoryOrdered
  <1>8. hist'.imu = hist.imu
    BY <1>1, <1>2, <1>3, <1>5, <1>7, MeasurementPushed
  <1>9. ASSUME ~ foreign
        PROVE  /\ Tiled(filter') /\ Sampled(filter', hist'.imu) /\ Agree(filter', hist')
               /\ AllSavedSince(saved.filter, hist'.cps)
    <2>1. /\ Tiled(filter) /\ Sampled(filter, hist.imu) /\ Agree(filter, hist)
          /\ AllSavedSince(saved.filter, hist.cps)
      BY <1>9 DEF InOrderInv
    <2>2. /\ filter'.at = [filter.at EXCEPT ![filter.t] = Append(filter.at[filter.t], k)]
          /\ Tiled(filter') /\ Sampled(filter', hist.imu)
          /\ Extends(filter, filter') /\ \A g \in filter'.segs : g.b <= filter'.t
      <3>1. /\ filter \in Filters /\ Tiled(filter) /\ Sampled(filter, hist.imu)
            /\ filter' = Correct(filter, k)
        BY <1>1, <1>3, <2>1
      <3>2. Tiled(filter') /\ Sampled(filter', hist.imu) /\ Extends(filter, filter')
        BY <1>4, <3>1, CorrectStays, Zenon
      <3>3. \A g \in filter'.segs : g.b <= filter'.t
        BY <3>2 DEF Tiled
      <3>4. filter'.at = [filter.at EXCEPT ![filter.t] = Append(filter.at[filter.t], k)]
        BY <1>4, <3>1, CorrectStays
      <3> QED BY <3>2, <3>3, <3>4
    <2>3. Kept(filter, hist.cps, hist.meas)
      BY <1>9 DEF KeptInv
    <2>4. SavedSince(saved.filter, filter'.t, filter'.ps)
      BY <1>1, <1>5, <1>6 DEF SavedSince
    <2>5. Agree(filter', hist') /\ AllSavedSince(saved.filter, hist'.cps)
      BY Zenon, <1>1, <1>2, <1>3, <1>5, <1>7, <2>1, <2>2, <2>3, <2>4, MeasurementAgrees
    <2> QED BY <1>8, <2>2, <2>5
  <1> QED BY <1>3, <1>5, <1>6, <1>9 DEF InOrderInv

(* A history cut at one of its checkpoints agrees with that checkpoint.     *)
LEMMA RebasedAgrees ==
    ASSUME NEW f \in Filters, NEW cps \in Seq(Checkpoints), Sorted(cps), Matched(cps),
           NEW meas \in Seq(Measurements), Sorted(meas), Chain(f, cps), Blocks(f, cps, meas),
           NEW n \in 1 .. Len(cps), LastAt(cps, n), NEW c, c = cps[n], Timely(c.snapshot),
           NEW s, AllSavedSince(s, cps)
    PROVE  /\ Chain(c.snapshot, UpTo(cps, c.t))
           /\ Blocks(c.snapshot, UpTo(cps, c.t), UpTo(meas, c.t))
           /\ AllSavedSince(s, UpTo(cps, c.t))
           /\ PastOf(c.snapshot, f) /\ SavedSince(s, c.t, c.snapshot.ps)
  <1> DEFINE r == UpTo(cps, c.t)
  <1>1. /\ Len(cps) \in Nat /\ \A k \in 1 .. Len(cps) : /\ cps[k].t \in Nat /\ cps[k] \in Checkpoints
                                                        /\ cps[k].snapshot \in Filters
    BY CheckpointFields
  <1>2. /\ c \in Checkpoints /\ c.t \in Nat /\ c.snapshot \in Filters /\ c.t = c.snapshot.t
    BY <1>1 DEF Matched
  <1>3. /\ r \in Seq(Checkpoints) /\ Len(r) \in 0 .. Len(cps)
        /\ \A i \in 1 .. Len(r) : r[i] = cps[i] /\ cps[i].t <= c.t
        /\ \A i \in 1 .. Len(cps) : cps[i].t <= c.t => i <= Len(r)
    BY <1>1, <1>2, CutIndices
  <1> HIDE DEF r
  <1>4. Len(r) = n
    <2>1. n <= Len(r)
      BY <1>1, <1>2, <1>3
    <2>2. ~ (n < Len(r))
      <3> SUFFICES ASSUME n < Len(r) PROVE FALSE
        OBVIOUS
      <3>1. Len(r) \in 1 .. Len(r) /\ Len(r) \in 1 .. Len(cps)
        BY <1>3
      <3>2. cps[Len(r)].t <= c.t /\ c.t < cps[Len(r)].t
        BY <1>3, <3>1 DEF LastAt
      <3> QED BY <1>1, <1>2, <3>1, <3>2
    <2> QED BY <1>3, <2>1, <2>2
  <1>5. Topped(r, cps, c)
    <2>1. r[Len(r)] = c /\ \A k \in 1 .. Len(r) - 1 : r[k] = cps[k + 0]
      BY <1>3, <1>4
    <2>2. \A j \in 1 .. Len(cps) : 0 + Len(r) <= j => c.t <= cps[j].t
      <3> SUFFICES ASSUME NEW j \in 1 .. Len(cps), n <= j PROVE c.t <= cps[j].t
        BY <1>4
      <3>1. CASE n = j
        BY <1>2, <3>1
      <3>2. CASE n # j
        <4>1. n < j
          BY <3>2
        <4> QED BY <4>1 DEF Sorted
      <3> QED BY <3>1, <3>2
    <2>3. 0 \in Nat /\ ToppedAt(0, r, cps, c)
      BY <1>1, <1>3, <1>4, <2>1, <2>2 DEF ToppedAt
    <2> QED BY <2>3 DEF Topped
  <1>6. PastOf(c.snapshot, f)
    BY DEF Chain
  <1>7. /\ c.snapshot.segs = {g \in f.segs : g.b <= c.snapshot.t}
        /\ \A u \in Epochs : u <= c.snapshot.t => c.snapshot.at[u] = f.at[u]
    BY <1>6 DEF PastOf
  <1>8. PastOf(c.snapshot, c.snapshot)
    <2>1. \A g \in c.snapshot.segs : g.b <= c.snapshot.t
      BY <1>7
    <2> QED BY <1>2, <2>1, PastSelf
  <1>9. ASSUME NEW k \in 1 .. Len(cps), LastAt(cps, k), cps[k].t < c.t
        PROVE  PastOf(cps[k].snapshot, c.snapshot)
    <2>1. k < n
      <3>1. k = n => FALSE
        BY <1>2, <1>9
      <3>2. n < k => FALSE
        BY <1>1, <1>2, <1>9 DEF Sorted
      <3> QED BY <3>1, <3>2
    <2>2. PastOf(cps[k].snapshot, f) /\ Earlier(cps[k].snapshot.ps, c.snapshot.ps)
      BY <1>9, <2>1 DEF Chain
    <2>3. cps[k].snapshot.t <= c.snapshot.t
      BY <1>1, <1>2, <1>9 DEF Matched
    <2> QED BY SMTT(20), <1>1, <1>2, <1>7, <2>2, <2>3, PastPast
  <1>10. Chain(c.snapshot, r)
    BY <1>2, <1>3, <1>5, <1>8, <1>9, ChainTopped
  <1>11. Blocks(c.snapshot, r, UpTo(meas, c.t))
    <2>1. 1 \in 1 .. Len(r) /\ 1 \in 1 .. Len(cps)
      BY <1>1, <1>4
    <2>2. r[1].t = cps[1].t /\ cps[1].t \in Nat /\ r[1].t \in Nat /\ cps[1].t <= r[1].t
      BY <1>1, <1>3, <2>1
    <2>3. Blocks(c.snapshot, r, UpTo(meas, c.snapshot.t))
      BY <1>2, <1>7, <2>2, BlocksCut
    <2> QED BY <1>2, <2>3
  <1>12. SavedSince(s, c.t, c.snapshot.ps)
    BY DEF AllSavedSince
  <1>13. AllSavedSince(s, r)
    BY <1>2, <1>3, <1>5, <1>12, SinceTopped
  <1> QED BY <1>6, <1>10, <1>11, <1>12, <1>13 DEF r

(* What is to be replayed from a checkpoint brings its snapshot to what     *)
(* the filter had been with the late measurement in its place.              *)
LEMMA RebasedUnderway ==
    ASSUME NEW f \in Filters, Tiled(f), NEW meas \in Seq(Measurements), Sorted(meas),
           NEW c, c \in Filters, PastOf(c, f), Timely(c),
           \A u \in Epochs : c.t < u => Block(meas, u, f.at[u], 0),
           NEW e \in Epochs, c.t <= e, e < f.t, NEW k \in GnssKinds,
           NEW later, later = After(meas, c.t), \A i \in 1 .. Len(later) : later[i].t # e,
           NEW z, z = Late(f, e, k)
    PROVE  Underway(c, Insert(later, [t |-> e, kind |-> k]), z)
  <1> DEFINE m == [t |-> e, kind |-> k]
             todo == Insert(later, m)
  <1>1. /\ c.t \in Nat /\ f.t \in Nat /\ e \in Nat
        /\ \A u \in Epochs : u \in Nat /\ c.at[u] \in Seq(GnssKinds) /\ Len(c.at[u]) \in Nat
        /\ \A u \in Epochs : f.at[u] \in Seq(GnssKinds) /\ Len(f.at[u]) \in Nat
        /\ f.at \in [Epochs -> Seq(GnssKinds)]
    BY FilterFields, EpochsAreNat
  <1>2. m \in Measurements /\ m.t = e /\ m.kind = k
    BY DEF Measurements
  <1> HIDE DEF m
  <1>3. z.t = f.t /\ z.ps = f.ps /\ z.at = [f.at EXCEPT ![e] = Append(f.at[e], k)]
    BY LateFilter
  <1>4. /\ c.segs = {g \in f.segs : g.b <= c.t} /\ Unsplit(f.segs, c.t)
        /\ \A u \in Epochs : u <= c.t => c.at[u] = f.at[u]
        /\ Earlier(c.ps, f.ps)
    BY DEF PastOf
  <1>5. {g \in z.segs : g.b <= c.t} = {g \in f.segs : g.b <= c.t} /\ Unsplit(z.segs, c.t)
    BY <1>1, <1>4, LateBelow
  <1>6. /\ later \in Seq(Measurements) /\ Sorted(later)
        /\ \A i \in 1 .. Len(later) : later[i].t \in Nat /\ c.t < later[i].t
    <2>1. \A i \in 1 .. Len(meas) : meas[i].t \in Nat /\ meas[i].t <= MaxTime
      BY Entries, ConfigAssumption DEF Epochs
    <2>2. Timed(meas, MaxTime)
      BY <2>1 DEF Timed
    <2>3. later \in Seq(Measurements) /\ Window(later, meas)
      BY SplitWindows
    <2>4. Timed(later, MaxTime)
      BY <2>2, <2>3, TimedWindow, Timestamps
    <2>5. \A i \in 1 .. Len(later) : later[i].t > c.t /\ later[i].t \in Nat
      BY <1>1, <2>1, <2>3, SplitOrdered, Entries
    <2> QED BY <1>1, <2>3, <2>4, <2>5 DEF Timed
  <1>7. ASSUME NEW u \in Epochs, c.t < u PROVE Block(later, u, f.at[u], 0)
    <2> PICK n \in 0 .. Len(meas) : /\ After(meas, c.t) = SubSeq(meas, n + 1, Len(meas))
                                    /\ \A i \in 1 .. Len(meas) : meas[i].t <= c.t <=> i <= n
      BY Zenon, <1>1, SplitIndices
    <2>1. Len(meas) \in Nat /\ \A i \in 1 .. Len(meas) : meas[i].t \in Nat
      BY Entries
    <2>2. /\ Len(SubSeq(meas, n + 1, Len(meas))) = Len(meas) - n
          /\ \A i \in 1 .. (Len(meas) - n) : SubSeq(meas, n + 1, Len(meas))[i] = meas[i + n]
      BY <2>1
    <2>3. /\ n \in Nat /\ Len(later) + n <= Len(meas)
          /\ \A i \in 1 .. Len(later) : later[i] = meas[i + n]
      BY <2>1, <2>2
    <2>4. Len(later) + n = Len(meas)
      BY <2>1, <2>2
    <2>5. \A i \in 1 .. Len(meas) : meas[i].t = u => n < i /\ i <= n + Len(later)
      BY <1>1, <1>7, <2>1, <2>4
    <2>6. Block(meas, u, f.at[u], 0) /\ 0 <= Len(f.at[u])
      BY <1>1, <1>7
    <2> QED BY Zenon, <1>1, <1>6, <2>3, <2>5, <2>6, BlockPart
  <1>8. \A u \in Epochs : c.t < u => c.at[u] = <<>>
    BY DEF Timely
  <1>9. ASSUME NEW u \in Epochs
        PROVE  /\ Len(c.at[u]) <= Len(z.at[u])
               /\ \A n \in 1 .. Len(c.at[u]) : c.at[u][n] = z.at[u][n]
               /\ Block(todo, u, z.at[u], Len(c.at[u]))
    <2>1. CASE u # e
      <3>1. z.at[u] = f.at[u]
        BY <1>1, <1>3, <2>1
      <3>2. CASE c.t < u
        <4>1. c.at[u] = <<>> /\ Len(c.at[u]) = 0
          BY <1>8, <3>2
        <4>2. Block(todo, u, f.at[u], 0)
          BY SMTT(20), <1>1, <1>2, <1>6, <1>7, <2>1, <3>2, BlockInserted
        <4> QED BY <1>1, <3>1, <4>1, <4>2
      <3>3. CASE ~ (c.t < u)
        <4>0. u <= c.t
          BY ONLY <1>1, <3>3, u \in Epochs
        <4>1. c.at[u] = f.at[u]
          BY ONLY <1>4, <4>0, u \in Epochs
        <4>2. \A i \in 1 .. Len(later) : later[i].t # u
          BY <1>1, <1>6, <3>3
        <4>3. Block(later, u, f.at[u], Len(f.at[u]))
          BY Zenon, <1>1, <1>6, <4>2, BlockNone
        <4>4. Block(todo, u, f.at[u], Len(f.at[u]))
          <5>1. /\ u \in Nat /\ u # m.t /\ f.at[u] \in Seq(GnssKinds)
                /\ Len(f.at[u]) \in Nat /\ Len(f.at[u]) <= Len(f.at[u])
            <6>1. f.at[u] \in Seq(GnssKinds) /\ Len(f.at[u]) \in Nat /\ u \in Nat
              BY <1>1
            <6> QED BY <1>2, <2>1, <6>1
          <5> QED BY <1>2, <1>6, <4>3, <5>1, BlockInserted
        <4> QED BY <1>1, <3>1, <4>1, <4>4
      <3> QED BY <3>2, <3>3
    <2>2. CASE u = e
      <3>1. c.at[e] = f.at[e]
        <4>1. CASE c.t < e
          <5>1. Block(later, e, f.at[e], 0)
            BY <1>7, <4>1
          <5>2. 0 = Len(f.at[e])
            BY <1>1, <1>6, <5>1, BlockGone
          <5>3. f.at[e] = <<>>
            BY <1>1, <5>2
          <5> QED BY <1>8, <4>1, <5>3
        <4>2. CASE ~ (c.t < e)
          BY <1>1, <1>4, <4>2
        <4> QED BY <4>1, <4>2
      <3>2. z.at[e] = Append(f.at[e], k)
        BY <1>1, <1>3
      <3>3. /\ Len(z.at[e]) = Len(c.at[e]) + 1 /\ z.at[e][Len(c.at[e]) + 1] = k
            /\ \A n \in 1 .. Len(c.at[e]) : z.at[e][n] = c.at[e][n]
        BY <1>1, <3>1, <3>2, Appended
      <3>4. z.at[e] \in Seq(GnssKinds)
        BY <1>1, <3>2
      <3>5. Block(todo, e, z.at[e], Len(c.at[e]))
        <4>1. \A i \in 1 .. Len(later) : later[i].t # m.t
          BY <1>2
        <4>2. Block(todo, m.t, z.at[e], Len(c.at[e]))
          BY Zenon, <1>1, <1>2, <1>6, <3>3, <3>4, <4>1, BlockInsertedNew
        <4> QED BY <1>2, <4>2
      <3> QED BY <1>1, <2>2, <3>3, <3>5
    <2> QED BY <2>1, <2>2
  <1> HIDE DEF todo
  <1>10. Underway(c, todo, z)
    BY SMTT(20), <1>1, <1>3, <1>4, <1>5, <1>9 DEF Underway
  <1> QED BY <1>10 DEF todo, m

(* The working copy starts as a past of what the filter is to become.       *)
LEMMA LateBeginInOrder ==
    ASSUME IInv, KeptInv, InOrderInv, NEW e \in Epochs, NEW k \in GnssKinds, LateBegin(e, k)
    PROVE  InOrderInv'
  <1> DEFINE early == UpTo(hist.cps, e)
             c == Back(early)
             later == After(hist.meas, c.t)
             m == [t |-> e, kind |-> k]
             w == [filter |-> c.snapshot, hist |-> RebaseThrough(hist, c.t),
                   todo |-> Insert(later, m), kind |-> k]
             n == Len(early)
  <1>1. filter \in Filters /\ hist \in Histories /\ InEpochOrder(hist, filter.t)
    BY DEF IInv, TypeOK, HistoryOrdered
  <1>2. /\ hist.cps \in Seq(Checkpoints) /\ hist.meas \in Seq(Measurements)
        /\ Sorted(hist.cps) /\ Matched(hist.cps) /\ Sorted(hist.meas)
        /\ \A i \in 1 .. Len(hist.cps) : hist.cps[i].t \in Nat /\ hist.cps[i].snapshot \in Filters
    <2>1. hist.cps \in Seq(Checkpoints) /\ hist.meas \in Seq(Measurements)
      BY <1>1, HistoryFields
    <2>2. Timed(hist.cps, filter.t) /\ Matched(hist.cps) /\ Timed(hist.meas, filter.t)
      BY <1>1, OrderParts
    <2> QED BY <2>1, <2>2, CheckpointFields DEF Timed
  <1>3. /\ e \in Nat /\ early # <<>> /\ work' = {w} /\ UNCHANGED <<filter, hist, saved, foreign>>
        /\ e < filter.t /\ \A i \in 1 .. Len(later) : later[i].t # e
    BY EpochsAreNat DEF LateBegin
  <1>4. /\ w.filter = c.snapshot /\ w.hist.cps = UpTo(hist.cps, c.t)
        /\ w.hist.meas = UpTo(hist.meas, c.t) /\ w.hist.imu = hist.imu
        /\ w.todo = Insert(later, m) /\ w.kind = k
    BY DEF RebaseThrough
  <1>5. /\ early \in Seq(Checkpoints) /\ n \in 0 .. Len(hist.cps)
        /\ \A i \in 1 .. n : early[i] = hist.cps[i] /\ hist.cps[i].t <= e
        /\ \A i \in 1 .. Len(hist.cps) : hist.cps[i].t <= e => i <= n
    BY Zenon, <1>2, <1>3, CutIndices
  <1>c. c = early[n]
    BY DEF Back
  <1>l. later = After(hist.meas, c.t)
    OBVIOUS
  <1> HIDE DEF w, early, later
  <1>6. n \in 1 .. Len(hist.cps) /\ c = hist.cps[n] /\ c.t \in Nat /\ c.t <= e
    <2>1. n \in 1 .. n /\ n \in 1 .. Len(hist.cps)
      BY <1>3, <1>5
    <2>2. early[n] = hist.cps[n] /\ hist.cps[n].t <= e /\ hist.cps[n].t \in Nat
      BY <1>2, <1>5, <2>1
    <2> QED BY <1>c, <2>1, <2>2
  <1> HIDE DEF n, c
  <1>7. c.snapshot \in Filters /\ c.t = c.snapshot.t /\ Timely(c.snapshot)
    <2>1. c.snapshot \in Filters /\ c.t = c.snapshot.t
      BY <1>2, <1>6 DEF Matched
    <2>2. Timely(hist.cps[n].snapshot)
      BY <1>6 DEF KeptInv, AllTimely
    <2> QED BY <1>6, <2>1, <2>2
  <1>8. LastAt(hist.cps, n)
    <2> SUFFICES ASSUME NEW j \in 1 .. Len(hist.cps), n < j PROVE hist.cps[n].t < hist.cps[j].t
      BY DEF LastAt
    <2>1. ~ (hist.cps[j].t <= e)
      BY <1>5, <1>6
    <2>2. hist.cps[j].t \in Nat /\ hist.cps[n].t \in Nat /\ hist.cps[n].t <= e
      BY <1>2, <1>6
    <2> QED BY ONLY <1>3, <2>1, <2>2
  <1>9. ASSUME ~ foreign PROVE WorkInOrder(w)
    <2>1. /\ Tiled(filter) /\ Chain(filter, hist.cps) /\ Blocks(filter, hist.cps, hist.meas)
          /\ AllSavedSince(saved.filter, hist.cps)
      BY <1>9 DEF InOrderInv, Agree
    <2>2. /\ Chain(c.snapshot, UpTo(hist.cps, c.t))
          /\ Blocks(c.snapshot, UpTo(hist.cps, c.t), UpTo(hist.meas, c.t))
          /\ AllSavedSince(saved.filter, UpTo(hist.cps, c.t))
          /\ PastOf(c.snapshot, filter) /\ SavedSince(saved.filter, c.t, c.snapshot.ps)
      BY <1>1, <1>2, <1>6, <1>7, <1>8, <2>1, RebasedAgrees
    <2>3. Agree(w.filter, w.hist)
      BY <1>4, <2>2 DEF Agree
    <2>4. hist.cps[1].t <= c.t /\ hist.cps[1].t \in Nat
      <3>1. 1 \in 1 .. Len(hist.cps) /\ (n = 1 \/ 1 < n)
        BY <1>6
      <3> QED BY <1>2, <1>6, <3>1 DEF Sorted
    <2>5. ASSUME NEW u \in Epochs, c.snapshot.t < u PROVE Block(hist.meas, u, filter.at[u], 0)
      <3>1. hist.cps[1].t < u
        BY <1>6, <1>7, <2>4, <2>5, EpochsAreNat
      <3> QED BY <2>1, <3>1 DEF Blocks
    <2>6. Underway(c.snapshot, Insert(later, m), Late(filter, e, k))
      <3>1. c.snapshot.t <= e /\ later = After(hist.meas, c.snapshot.t)
        BY <1>6, <1>7, <1>l
      <3> QED BY Zenon, <1>1, <1>2, <1>3, <1>7, <2>1, <2>2, <2>5, <3>1, RebasedUnderway
    <2>7. \E d \in Epochs : d < filter.t /\ Underway(w.filter, w.todo, Late(filter, d, w.kind))
      BY <1>3, <1>4, <2>6
    <2>8. SavedSince(saved.filter, w.filter.t, w.filter.ps)
      BY <1>4, <1>7, <2>2
    <2>9. AllSavedSince(saved.filter, w.hist.cps)
      BY <1>4, <2>2
    <2> QED BY <1>4, <2>3, <2>7, <2>8, <2>9 DEF WorkInOrder
  <1>10. ASSUME ~ foreign PROVE \A x \in work' : WorkInOrder(x)'
    <2>1. WorkInOrder(w)
      BY <1>9, <1>10
    <2>2. \A x \in work' : x = w
      BY <1>3
    <2>3. filter' = filter /\ hist' = hist /\ saved' = saved
      BY <1>3
    <2>4. ASSUME NEW x \in work' PROVE WorkInOrder(x)'
      <3>1. x = w
        BY <2>2
      <3> QED BY <2>1, <2>3, <3>1 DEF WorkInOrder
    <2> QED BY <2>4
  <1> QED BY <1>3, <1>10 DEF InOrderInv

(* The late measurement in its place disturbs neither the epoch nor the     *)
(* pieces' order.                                                           *)
LEMMA LateType ==
    ASSUME NEW f \in Filters, NEW e \in Epochs, NEW k \in GnssKinds, Tiled(f)
    PROVE  /\ Late(f, e, k) \in Filters /\ Late(f, e, k).t = f.t /\ Late(f, e, k).ps = f.ps
           /\ Late(f, e, k).at = [f.at EXCEPT ![e] = Append(f.at[e], k)]
           /\ Tiled(Late(f, e, k))
  <1> DEFINE z == Late(f, e, k)
  <1>1. z = Late(f, e, k)
    OBVIOUS
  <1> HIDE DEF z
  <1>2. /\ z \in Filters /\ z.t = f.t /\ z.ps = f.ps /\ Tiled(z)
        /\ z.at = [f.at EXCEPT ![e] = Append(f.at[e], k)]
    <2>1. z.t = f.t /\ z.ps = f.ps /\ z.at = [f.at EXCEPT ![e] = Append(f.at[e], k)]
      BY <1>1, LateFilter
    <2>2. z \in Filters
      BY Zenon, <1>1, LateFilter
    <2>3. Tiled(z)
      BY Zenon, <1>1, LateFilter
    <2> QED BY <2>1, <2>2, <2>3
  <1> QED BY <1>1, <1>2

(* One turn of the replay loop on a working copy that is on its way         *)
LEMMA ReplayedInOrder ==
    ASSUME IInv, KeptInv, InOrderInv, ~ foreign, NEW w \in work, w.todo # <<>>,
           NEW m, m = Head(w.todo), CanReplay(w.filter, m.t, hist.imu),
           NEW f, f = Correct(ReplayImu(w.filter, m.t, hist.imu), m.kind),
           NEW h, h = PushMeasurement(w.hist, m, f)
    PROVE  /\ Agree(f, h) /\ h.imu = hist.imu
           /\ \E e \in Epochs : e < filter.t /\ Underway(f, Tail(w.todo), Late(filter, e, w.kind))
           /\ SavedSince(saved.filter, f.t, f.ps) /\ AllSavedSince(saved.filter, h.cps)
  <1>1. /\ w \in WorkCopies /\ CopyOrdered(w, filter.t) /\ hist.imu \in Seq(Samples)
        /\ filter \in Filters /\ saved.filter \in Filters
        /\ Disjoint(hist.imu, filter.t)
    BY TypeParts, HistoryFields, OrderParts DEF IInv, HistoryOrdered
  <1>2. /\ w.filter \in Filters /\ w.hist \in Histories /\ w.todo \in Seq(Measurements)
        /\ w.kind \in GnssKinds
    BY <1>1 DEF WorkCopies
  <1>3. /\ Tiled(filter) /\ Sampled(filter, hist.imu) /\ WorkInOrder(w)
        /\ Kept(w.filter, w.hist.cps, w.hist.meas) /\ Timely(w.filter)
    BY DEF InOrderInv, KeptInv, AllTimely
  <1>4. /\ Agree(w.filter, w.hist) /\ w.hist.imu = hist.imu
        /\ SavedSince(saved.filter, w.filter.t, w.filter.ps)
        /\ AllSavedSince(saved.filter, w.hist.cps)
    BY <1>3 DEF WorkInOrder
  <1>5. m \in Measurements /\ m.t \in Epochs /\ m.t \in Nat /\ m.kind \in GnssKinds
    <2>1. m \in Measurements
      BY <1>2, HeadTailProperties
    <2> QED BY <2>1, EpochsAreNat DEF Measurements
  <1>6. w.filter.t <= m.t
    BY DEF CanReplay
  <1> PICK e \in Epochs : e < filter.t /\ Underway(w.filter, w.todo, Late(filter, e, w.kind))
    BY <1>3 DEF WorkInOrder
  <1> DEFINE z == Late(filter, e, w.kind)
  <1>7. z \in Filters /\ z.t = filter.t /\ Tiled(z)
    BY Zenon, <1>1, <1>2, <1>3, LateType
  <1>8. Sampled(z, hist.imu)
    BY <1>1, <1>2, <1>3, LateSampled
  <1>9. Underway(w.filter, w.todo, z)
    OBVIOUS
  <1> HIDE DEF z
  <1>10. Sorted(w.todo) /\ \A i \in 1 .. Len(w.todo) : w.filter.t <= w.todo[i].t /\ w.todo[i].t <= z.t
    BY <1>1, <1>7 DEF CopyOrdered
  <1>11. Applied(w.filter, f, m) /\ Underway(f, Tail(w.todo), z)
    <2>1. /\ w.filter \in Filters /\ z \in Filters /\ hist.imu \in Seq(Samples)
          /\ Disjoint(hist.imu, filter.t) /\ Tiled(z) /\ Sampled(z, hist.imu) /\ Timely(w.filter)
      BY <1>1, <1>2, <1>3, <1>7, <1>8
    <2>2. w.todo \in Seq(Measurements)
      BY <1>2
    <2>3. /\ w.todo # <<>> /\ m = Head(w.todo) /\ CanReplay(w.filter, m.t, hist.imu)
          /\ f = Correct(ReplayImu(w.filter, m.t, hist.imu), m.kind)
      OBVIOUS
    <2> QED BY ONLY <1>9, <1>10, <2>1, <2>2, <2>3, UnderwayReplay
  <1>12. /\ f \in Filters /\ f.t = m.t /\ f.ps = w.filter.ps
         /\ f.at = [w.filter.at EXCEPT ![m.t] = Append(w.filter.at[m.t], m.kind)]
         /\ Extends(w.filter, f) /\ \A g \in f.segs : g.b <= f.t
    BY Zenon, <1>11 DEF Applied
  <1>13. Timed(w.hist.cps, f.t) /\ Matched(w.hist.cps) /\ Timed(w.hist.meas, f.t)
    <2>1. /\ Timed(w.hist.cps, w.filter.t) /\ Timed(w.hist.meas, w.filter.t)
          /\ Matched(w.hist.cps) /\ w.filter.t \in Nat
      BY <1>1, <1>2, Timestamps DEF CopyOrdered
    <2>2. /\ \A i \in 1 .. Len(w.hist.cps) : w.hist.cps[i].t \in Nat
          /\ \A i \in 1 .. Len(w.hist.meas) : w.hist.meas[i].t \in Nat
      BY <1>2, HistoryFields, Timestamps
    <2>3. /\ \A i \in 1 .. Len(w.hist.cps) : w.hist.cps[i].t <= m.t
          /\ \A i \in 1 .. Len(w.hist.meas) : w.hist.meas[i].t <= m.t
      BY <1>5, <1>6, <2>1, <2>2 DEF Timed
    <2> QED BY Zenon, <1>12, <2>1, <2>3 DEF Timed
  <1>14. SavedSince(saved.filter, f.t, f.ps)
    <2>1. w.filter.t \in Nat /\ saved.filter.t \in Nat
      BY <1>1, <1>2, FilterFields
    <2>2. f.t < saved.filter.t => w.filter.t < saved.filter.t
      <3>1. f.t = m.t
        BY <1>12
      <3> QED BY ONLY <1>5, <1>6, <2>1, <3>1
    <2>3. f.ps = w.filter.ps
      BY <1>12
    <2> QED BY ONLY <1>4, <2>2, <2>3 DEF SavedSince
  <1>15. Agree(f, h) /\ AllSavedSince(saved.filter, h.cps)
    BY Zenon, <1>2, <1>3, <1>4, <1>5, <1>12, <1>13, <1>14, MeasurementAgrees
  <1>16. h.imu = hist.imu
    <2>1. h.imu = w.hist.imu
      <3>1. w.hist \in Histories /\ m \in Measurements /\ f \in Filters /\ m.t = f.t
        BY <1>2, <1>5, <1>12
      <3> QED BY <1>13, <3>1, MeasurementPushed, Zenon
    <2> QED BY <1>4, <2>1
  <1> QED BY <1>11, <1>14, <1>15, <1>16 DEF z

(* A turn of the replay loop leaves the copy on its way.                    *)
LEMMA LateReplayInOrder ==
    ASSUME IInv, KeptInv, InOrderInv, LateReplay
    PROVE  InOrderInv'
  <1> DEFINE F(w) == Correct(ReplayImu(w.filter, Head(w.todo).t, hist.imu), Head(w.todo).kind)
             X(w) == [filter |-> F(w), hist |-> PushMeasurement(w.hist, Head(w.todo), F(w)),
                      todo |-> Tail(w.todo), kind |-> w.kind]
  <1>1. UNCHANGED <<filter, hist, saved, foreign>>
    BY DEF LateReplay
  <1>2. \E w \in work : w.todo # <<>> /\ CanReplay(w.filter, Head(w.todo).t, hist.imu) /\ work' = {X(w)}
    BY DEF LateReplay
  <1> HIDE DEF F, X
  <1> PICK w \in work : w.todo # <<>> /\ CanReplay(w.filter, Head(w.todo).t, hist.imu) /\ work' = {X(w)}
    BY <1>2
  <1>3. ASSUME ~ foreign PROVE WorkInOrder(X(w))
    <2> DEFINE m == Head(w.todo)
               h == PushMeasurement(w.hist, m, F(w))
    <2>1. X(w).filter = F(w) /\ X(w).hist = h /\ X(w).todo = Tail(w.todo) /\ X(w).kind = w.kind
      BY DEF X
    <2>2. F(w) = Correct(ReplayImu(w.filter, m.t, hist.imu), m.kind)
      BY DEF F
    <2>3. /\ Agree(F(w), h) /\ h.imu = hist.imu
          /\ \E e \in Epochs : e < filter.t /\ Underway(F(w), Tail(w.todo), Late(filter, e, w.kind))
          /\ SavedSince(saved.filter, F(w).t, F(w).ps) /\ AllSavedSince(saved.filter, h.cps)
      BY <1>3, <2>2, ReplayedInOrder
    <2> HIDE DEF h
    <2> QED BY <2>1, <2>3 DEF WorkInOrder
  <1>4. ASSUME ~ foreign, NEW y \in work' PROVE WorkInOrder(y)'
    <2>1. y = X(w) /\ WorkInOrder(y)
      BY <1>3, <1>4
    <2>2. filter' = filter /\ hist' = hist /\ saved' = saved
      BY <1>1
    <2> QED BY <2>1, <2>2 DEF WorkInOrder
  <1> QED BY <1>1, <1>4 DEF InOrderInv

(* The working copy that is done is the filter with the late measurement    *)
(* in its place, but for pseudo-measurements.                               *)
LEMMA CommitDone ==
    ASSUME NEW f \in Filters, Tiled(f), NEW imu \in Seq(Samples), Sampled(f, imu),
           NEW now, Disjoint(imu, now), NEW e \in Epochs, NEW k \in GnssKinds,
           NEW z, z = Late(f, e, k), NEW c \in Filters, Timely(c), Underway(c, <<>>, z),
           CanReplay(c, f.t, imu), NEW r, r = ReplayImu(c, f.t, imu)
    PROVE  /\ r \in Filters /\ r.t = f.t /\ r.at = z.at /\ r.segs = z.segs /\ r.ps = c.ps
           /\ r.at = c.at /\ Earlier(c.ps, f.ps)
           /\ Tiled(r) /\ Sampled(r, imu) /\ Extends(c, r)
  <1>1. /\ f.t \in Nat /\ f.t \in Epochs /\ c.t \in Nat
        /\ c.at \in [Epochs -> Seq(GnssKinds)]
        /\ \A u \in Epochs : u \in Nat /\ c.at[u] \in Seq(GnssKinds) /\ Len(c.at[u]) \in Nat
    BY FilterFields, EpochsAreNat
  <1>2. z \in Filters /\ z.t = f.t /\ z.ps = f.ps /\ Tiled(z)
    BY Zenon, LateType
  <1>3. Sampled(z, imu)
    BY LateSampled
  <1>4. /\ c.t <= z.t /\ c.segs = {g \in z.segs : g.b <= c.t} /\ Unsplit(z.segs, c.t)
        /\ Earlier(c.ps, z.ps)
        /\ \A u \in Epochs : /\ Len(c.at[u]) <= Len(z.at[u])
                             /\ \A n \in 1 .. Len(c.at[u]) : c.at[u][n] = z.at[u][n]
                             /\ Block(<<>>, u, z.at[u], Len(c.at[u]))
    BY DEF Underway
  <1>5. /\ z.at \in [Epochs -> Seq(GnssKinds)]
        /\ \A u \in Epochs : z.at[u] \in Seq(GnssKinds) /\ Len(z.at[u]) \in Nat
        /\ \A g \in z.segs : g.a \in Nat /\ g.b \in Nat
    BY <1>2, FilterFields, PieceEnds
  <1>6. ASSUME NEW u \in Epochs PROVE c.at[u] = z.at[u]
    <2>1. <<>> \in Seq(Measurements) /\ \A i \in 1 .. Len(<<>>) : <<>>[i].t # u
      OBVIOUS
    <2>2. Len(c.at[u]) = Len(z.at[u])
      BY Zenon, <1>1, <1>4, <1>5, <2>1, BlockGone
    <2>3. c.at[u] \in Seq(GnssKinds) /\ z.at[u] \in Seq(GnssKinds)
      BY <1>1, <1>5
    <2>4. \A n \in 1 .. Len(c.at[u]) : c.at[u][n] = z.at[u][n]
      BY <1>4
    <2> QED BY <2>2, <2>3, <2>4, SeqEqual, Zenon
  <1>7. c.at = z.at
    BY <1>1, <1>5, <1>6
  <1>8. Unsplit(z.segs, f.t) /\ {g \in z.segs : g.b <= f.t} = z.segs
    <2>1. \A g \in z.segs : g.b <= f.t
      BY <1>2 DEF Tiled
    <2> QED BY <1>1, <1>5, <2>1 DEF Unsplit
  <1>9. \A u \in Epochs : c.t < u /\ u < f.t => z.at[u] = <<>>
    BY <1>6 DEF Timely
  <1>10. /\ r \in Filters /\ r.t = f.t /\ r.at = c.at /\ r.ps = c.ps
         /\ r.segs = {g \in z.segs : g.b <= f.t} /\ Extends(c, r)
    BY <1>1, <1>2, <1>3, <1>4, <1>8, <1>9, ReplayDone
  <1>11. r.segs = z.segs /\ r.at = z.at /\ r.t = z.t
    BY <1>2, <1>7, <1>8, <1>10
  <1>12. Tiled(r)
    <2>1. \A y \in r.ps : y.t <= r.t
      BY <1>2, <1>4, <1>10, <1>11 DEF Earlier, Tiled
    <2> QED BY <1>2, <1>11, <2>1 DEF Tiled
  <1>13. Sampled(r, imu)
    BY <1>3, <1>11 DEF Sampled
  <1> QED BY <1>2, <1>4, <1>7, <1>10, <1>11, <1>12, <1>13

(* What a commit makes of the filter                                        *)
LEMMA CommittedInOrder ==
    ASSUME IInv, KeptInv, InOrderInv, ~ foreign, NEW w \in work, w.todo = <<>>,
           CanReplay(w.filter, filter.t, hist.imu),
           NEW r, r = ReplayImu(w.filter, filter.t, hist.imu)
    PROVE  /\ r \in Filters /\ r.t = filter.t /\ Tiled(r) /\ Sampled(r, hist.imu)
           /\ Agree(r, w.hist) /\ w.hist.imu = hist.imu
           /\ AllSavedSince(saved.filter, w.hist.cps)
           /\ Earlier(r.ps, filter.ps)
           /\ \E e \in Epochs : /\ e < filter.t /\ w.kind \in GnssKinds
                                /\ r.at = Late(filter, e, w.kind).at
                                /\ r.segs = Late(filter, e, w.kind).segs
  <1>1. /\ w \in WorkCopies /\ hist.imu \in Seq(Samples)
        /\ filter \in Filters /\ Disjoint(hist.imu, filter.t)
    BY TypeParts, HistoryFields, OrderParts DEF IInv, HistoryOrdered
  <1>2. w.filter \in Filters /\ w.hist \in Histories /\ w.kind \in GnssKinds
    BY <1>1 DEF WorkCopies
  <1>3. /\ Tiled(filter) /\ Sampled(filter, hist.imu) /\ WorkInOrder(w) /\ Timely(w.filter)
    BY DEF InOrderInv, KeptInv, AllTimely
  <1>4. /\ Agree(w.filter, w.hist) /\ w.hist.imu = hist.imu
        /\ AllSavedSince(saved.filter, w.hist.cps)
    BY <1>3 DEF WorkInOrder
  <1> PICK e \in Epochs : e < filter.t /\ Underway(w.filter, w.todo, Late(filter, e, w.kind))
    BY <1>3 DEF WorkInOrder
  <1> DEFINE z == Late(filter, e, w.kind)
  <1>5. Underway(w.filter, <<>>, z)
    OBVIOUS
  <1>z. z = Late(filter, e, w.kind)
    OBVIOUS
  <1> HIDE DEF z
  <1>6. /\ r \in Filters /\ r.t = filter.t /\ r.at = z.at /\ r.segs = z.segs /\ r.ps = w.filter.ps
        /\ r.at = w.filter.at /\ Earlier(w.filter.ps, filter.ps)
        /\ Tiled(r) /\ Sampled(r, hist.imu) /\ Extends(w.filter, r)
    BY <1>1, <1>2, <1>3, <1>5, <1>z, CommitDone
  <1>7. Agree(r, w.hist)
    <2>1. w.hist.cps \in Seq(Checkpoints)
      BY <1>2, HistoryFields
    <2>2. Chain(r, w.hist.cps)
      BY <1>2, <1>4, <1>6, <2>1, ChainExtends DEF Agree
    <2>3. Blocks(r, w.hist.cps, w.hist.meas)
      BY <1>4, <1>6 DEF Agree, Blocks
    <2> QED BY <2>2, <2>3 DEF Agree
  <1> QED BY Zenon, <1>2, <1>3, <1>4, <1>6, <1>7, <1>z

(* The copy replaces the filter.                                            *)
LEMMA LateCommitInOrder ==
    ASSUME IInv, KeptInv, InOrderInv, LateCommit
    PROVE  InOrderInv'
  <1> PICK w \in work : /\ w.todo = <<>>
                        /\ CanReplay(w.filter, filter.t, hist.imu)
                        /\ filter' = ReplayImu(w.filter, filter.t, hist.imu)
                        /\ hist' = w.hist
                        /\ work' = {}
                        /\ UNCHANGED <<saved, foreign>>
    BY DEF LateCommit
  <1>1. saved.filter.t <= filter'.t
    <2>1. w.filter \in Filters /\ filter.t \in Epochs /\ hist.imu \in Seq(Samples)
      BY Zenon, TypeParts, HistoryFields DEF IInv, WorkCopies, Filters
    <2>2. filter'.t = filter.t
      BY <2>1, ReplayFilter
    <2> QED BY <2>2 DEF InOrderInv
  <1>2. ASSUME ~ foreign
        PROVE  /\ Tiled(filter') /\ Sampled(filter', hist'.imu) /\ Agree(filter', hist')
               /\ AllSavedSince(saved.filter, hist'.cps)
    <2>1. /\ Tiled(filter') /\ Sampled(filter', hist.imu)
          /\ Agree(filter', w.hist) /\ w.hist.imu = hist.imu
          /\ AllSavedSince(saved.filter, w.hist.cps)
      BY <1>2, CommittedInOrder
    <2> QED BY <2>1
  <1> QED BY <1>1, <1>2 DEF InOrderInv

(* set_config drops checkpoints and what they would need replayed.          *)
LEMMA ConfigureInOrder ==
    ASSUME IInv, KeptInv, InOrderInv, NEW c \in Configs, Configure(c)
    PROVE  InOrderInv'
  <1>1. /\ hist \in Histories /\ filter \in Filters /\ InEpochOrder(hist, filter.t)
        /\ c.cp \in Nat \ {0} /\ c.imu \in Nat \ {0}
    BY ConfigAssumption DEF IInv, TypeOK, HistoryOrdered
  <1>2. /\ hist'.cps = TruncateFront(hist.cps, c.cp) /\ hist'.meas = TruncateFront(hist.meas, c.cp)
        /\ hist'.imu = TruncateFront(hist.imu, c.imu)
        /\ work = {} /\ UNCHANGED <<filter, saved, work, foreign>>
    BY DEF Configure
  <1>3. /\ hist.cps \in Seq(Checkpoints) /\ Len(hist.cps) >= 1 /\ hist.meas \in Seq(Measurements)
        /\ hist.imu \in Seq(Samples)
    BY <1>1, HistoryFields
  <1>4. Sorted(hist.cps) /\ Sorted(hist.meas)
    BY <1>1, OrderParts DEF Timed
  <1>5. /\ hist'.cps \in Seq(Checkpoints) /\ Len(hist'.cps) >= 1 /\ Len(hist'.cps) <= c.cp
        /\ hist'.meas \in Seq(Measurements)
        /\ hist'.imu \in Seq(Samples) /\ Window(hist'.imu, hist.imu)
    <2>1. /\ TruncateFront(hist.cps, c.cp) \in Seq(Checkpoints)
          /\ Len(TruncateFront(hist.cps, c.cp)) >= 1 /\ Len(TruncateFront(hist.cps, c.cp)) <= c.cp
      BY <1>1, <1>3, TruncateWindow
    <2>2. TruncateFront(hist.meas, c.cp) \in Seq(Measurements)
      BY <1>1, <1>3, TruncateWindow
    <2>3. /\ TruncateFront(hist.imu, c.imu) \in Seq(Samples)
          /\ Window(TruncateFront(hist.imu, c.imu), hist.imu)
      BY <1>1, <1>3, TruncateWindow
    <2> QED BY <1>2, <2>1, <2>2, <2>3
  <1>6. \E k \in Nat : Suffix(hist'.cps, hist.cps, k)
    BY Zenon, <1>1, <1>2, <1>3, TruncateSuffix
  <1>7. \E n \in Nat : Suffix(hist'.meas, hist.meas, n) /\ (n > 0 => Len(hist'.meas) = c.cp)
    BY Zenon, <1>1, <1>2, <1>3, TruncateSuffix
  <1>8. ASSUME ~ foreign
        PROVE  /\ Tiled(filter) /\ Sampled(filter, hist'.imu) /\ Agree(filter, hist')
               /\ AllSavedSince(saved.filter, hist'.cps)
    <2>1. /\ Tiled(filter) /\ Sampled(filter, hist.imu)
          /\ Chain(filter, hist.cps) /\ Blocks(filter, hist.cps, hist.meas)
          /\ AllSavedSince(saved.filter, hist.cps) /\ Backed(hist.cps, hist.meas)
      BY <1>8 DEF InOrderInv, Agree, KeptInv, Kept
    <2> PICK k \in Nat : Suffix(hist'.cps, hist.cps, k)
      BY <1>6
    <2> PICK n \in Nat : Suffix(hist'.meas, hist.meas, n) /\ (n > 0 => Len(hist'.meas) = c.cp)
      BY <1>7
    <2>2. Chain(filter, hist'.cps)
      BY <1>3, <1>5, <2>1, ChainSuffix
    <2>3. AllSavedSince(saved.filter, hist'.cps)
      BY <1>3, <1>5, <2>1, SinceSuffix
    <2>4. n > 0 => Len(hist'.meas) >= Len(hist'.cps)
      BY <1>5
    <2>5. Blocks(filter, hist'.cps, hist'.meas)
      BY <1>1, <1>3, <1>4, <1>5, <2>1, <2>4, BlocksDropped
    <2>6. Sampled(filter, hist'.imu)
      <3> PICK d \in Nat : /\ Len(hist'.imu) + d <= Len(hist.imu)
                           /\ \A i \in 1 .. Len(hist'.imu) : hist'.imu[i] = hist.imu[i + d]
        BY Zenon, <1>5 DEF Window
      <3>1. Len(hist'.imu) \in Nat /\ Len(hist.imu) \in Nat
        BY <1>3, <1>5
      <3>2. \A i \in 1 .. Len(hist'.imu) : i + d \in 1 .. Len(hist.imu)
        BY <3>1
      <3> QED BY Zenon, <2>1, <3>2 DEF Sampled
    <2> QED BY <2>1, <2>2, <2>3, <2>5, <2>6 DEF Agree
  <1> QED BY <1>2, <1>8 DEF InOrderInv

(* A pseudo-measurement is newer than those before it.                      *)
LEMMA PseudoUpdateInOrder ==
    ASSUME IInv, InOrderInv, NEW k \in PseudoKinds, PseudoUpdate(k)
    PROVE  InOrderInv'
  <1> DEFINE p == [kind |-> k, t |-> filter.t]
  <1>1. filter \in Filters /\ hist \in Histories /\ filter.t \in Nat /\ p.t = filter.t
    <2>1. filter \in Filters /\ hist \in Histories
      BY DEF IInv, TypeOK
    <2> QED BY <2>1, FilterFields
  <1>2. work = {} /\ UNCHANGED <<hist, saved, work, foreign>>
    BY DEF PseudoUpdate
  <1>3. /\ filter'.t = filter.t /\ filter'.at = filter.at /\ filter'.segs = filter.segs
        /\ filter'.ps = filter.ps \cup {p}
    <2>1. filter = [t |-> filter.t, at |-> filter.at, segs |-> filter.segs, ps |-> filter.ps]
      BY <1>1, FilterFields
    <2>2. filter' = [filter EXCEPT !.ps = filter.ps \cup {p}]
      BY DEF PseudoUpdate
    <2> HIDE DEF p
    <2> QED BY <2>1, <2>2
  <1> HIDE DEF p
  <1>4. filter' \in Filters
    <2>1. IInv'
      BY PseudoUpdateIInv
    <2> QED BY <2>1 DEF IInv, TypeOK
  <1>5. ASSUME ~ foreign
        PROVE  Tiled(filter') /\ Sampled(filter', hist.imu) /\ Agree(filter', hist)
    <2>1. Tiled(filter) /\ Sampled(filter, hist.imu) /\ Agree(filter, hist)
      BY <1>5 DEF InOrderInv
    <2>2. Tiled(filter')
      <3>1. \A x \in filter'.ps : x.t <= filter.t
        BY <1>1, <1>3, <2>1 DEF Tiled
      <3> QED BY <1>3, <2>1, <3>1 DEF Tiled
    <2>3. Sampled(filter', hist.imu)
      BY <1>3, <2>1 DEF Sampled
    <2>4. Extends(filter, filter')
      <3>1. \A x \in filter.ps : x.t <= p.t
        BY <1>1, <2>1 DEF Tiled
      <3> QED BY <1>1, <1>3, <3>1 DEF Extends
    <2>5. Chain(filter', hist.cps)
      <3>1. hist.cps \in Seq(Checkpoints) /\ Chain(filter, hist.cps)
        BY <1>1, <2>1, HistoryFields DEF Agree
      <3>2. \A u \in Epochs : u <= filter.t => filter'.at[u] = filter.at[u]
        BY <1>3
      <3> QED BY <1>1, <1>4, <2>4, <3>1, <3>2, ChainExtends
    <2>6. Blocks(filter', hist.cps, hist.meas)
      BY <1>3, <2>1 DEF Agree, Blocks
    <2> QED BY <2>2, <2>3, <2>5, <2>6 DEF Agree
  <1> QED BY <1>2, <1>3, <1>5 DEF InOrderInv

(* The checkpoints of a filter have seen what it has seen.                  *)
LEMMA OwnSavedSince ==
    ASSUME NEW f, NEW cps, Chain(f, cps)
    PROVE  AllSavedSince(f, cps)
  BY DEF Chain, PastOf, AllSavedSince, SavedSince

(* What is saved agrees with its histories as the filter did.               *)
LEMMA SaveStateInOrder ==
    ASSUME IInv, InOrderInv, SaveState
    PROVE  InOrderInv'
  <1>1. /\ saved' = [filter |-> filter, hist |-> hist, foreign |-> foreign]
        /\ work = {} /\ UNCHANGED <<filter, hist, work, foreign>>
    BY DEF SaveState
  <1>2. saved'.filter = filter /\ saved'.hist = hist /\ saved'.foreign = foreign
    BY <1>1
  <1>3. filter.t \in Nat
    BY Timestamps DEF IInv, TypeOK
  <1>4. ~ foreign => AllSavedSince(filter, hist.cps)
    BY OwnSavedSince DEF InOrderInv, Agree
  <1> QED BY <1>1, <1>2, <1>3, <1>4 DEF InOrderInv

(* restore_encoded_state brings a saved filter back with its histories.     *)
LEMMA RestoreEncodedInOrder ==
    ASSUME IInv, InOrderInv, RestoreEncoded
    PROVE  InOrderInv'
  <1>1. /\ work = {} /\ filter' = saved.filter /\ hist' = saved.hist /\ foreign' = saved.foreign
        /\ UNCHANGED <<saved, work>>
    BY DEF RestoreEncoded
  <1>2. saved.filter.t \in Nat
    BY Timestamps DEF IInv, TypeOK
  <1>3. ~ saved.foreign => AllSavedSince(saved.filter, saved.hist.cps)
    BY OwnSavedSince DEF InOrderInv, Agree
  <1> QED BY <1>1, <1>2, <1>3 DEF InOrderInv

(* A filter that went back to one of its past states agrees with what is    *)
(* kept of its histories.                                                   *)
LEMMA RestoredAgrees ==
    ASSUME NEW h \in Histories, NEW f \in Filters, InEpochOrder(h, f.t), Agree(f, h),
           Sampled(f, h.imu), NEW s \in Filters, Tiled(s), Timely(s), IsPast(s, f),
           AllSavedSince(s, h.cps), NEW r, r = RestoreToSnapshot(h, s)
    PROVE  Agree(s, r) /\ Sampled(s, r.imu) /\ AllSavedSince(s, r.cps)
  <1> DEFINE x == [t |-> s.t, snapshot |-> s]
  <1>1. /\ h.cps \in Seq(Checkpoints) /\ h.meas \in Seq(Measurements) /\ h.imu \in Seq(Samples)
        /\ Len(h.cps) \in Nat /\ Len(h.cps) >= 1
        /\ \A k \in 1 .. Len(h.cps) : h.cps[k].t \in Nat /\ h.cps[k].snapshot \in Filters
    BY HistoryFields, CheckpointFields
  <1>2. Sorted(h.cps) /\ Matched(h.cps) /\ Sorted(h.meas)
    BY OrderParts DEF Timed
  <1>3. s.t \in Nat /\ s.t \in Epochs
    BY FilterFields
  <1>4. x \in Checkpoints /\ x.t = s.t /\ x.snapshot = s
    BY <1>3 DEF Checkpoints
  <1>5. Topped(r.cps, h.cps, x)
    BY RestoreTopped
  <1> HIDE DEF x
  <1>6. r \in Histories /\ r.cps \in Seq(Checkpoints) /\ Len(r.cps) \in Nat /\ Len(r.cps) >= 1
    <2>1. r \in Histories
      BY Restored
    <2> QED BY <2>1, HistoryFields, CheckpointFields
  <1>7. r.imu = UpTo(h.imu, s.t) /\ r.meas = UpTo(h.meas, s.t)
    BY DEF RestoreToSnapshot, PushCheckpoint
  <1>8. /\ s.t <= f.t /\ s.segs = {g \in f.segs : g.b <= s.t}
        /\ \A u \in Epochs : u <= s.t => s.at[u] = f.at[u]
    BY DEF IsPast
  <1>9. Chain(f, h.cps) /\ Blocks(f, h.cps, h.meas)
    BY DEF Agree
  <1>10. PastOf(s, s)
    <2>1. \A g \in s.segs : g.b <= s.t
      BY <1>8
    <2> QED BY <2>1, PastSelf
  <1>11. ASSUME NEW k \in 1 .. Len(h.cps), LastAt(h.cps, k), h.cps[k].t < x.t
         PROVE  PastOf(h.cps[k].snapshot, s)
    <2>1. PastOf(h.cps[k].snapshot, f)
      BY <1>9, <1>11 DEF Chain
    <2>2. Earlier(h.cps[k].snapshot.ps, s.ps)
      BY <1>4, <1>11 DEF AllSavedSince, SavedSince
    <2>3. h.cps[k].snapshot.t <= s.t
      <3>1. h.cps[k].snapshot.t = h.cps[k].t
        BY <1>2 DEF Matched
      <3> QED BY <1>1, <1>3, <1>4, <1>11, <3>1
    <2> QED BY SMTT(20), <1>1, <1>8, <2>1, <2>2, <2>3, PastPast
  <1>12. Chain(s, r.cps)
    BY Zenon, <1>1, <1>4, <1>5, <1>6, <1>9, <1>10, <1>11, ChainTopped
  <1>13. AllSavedSince(s, r.cps)
    <2>1. SavedSince(s, x.t, x.snapshot.ps)
      BY <1>3, <1>4 DEF SavedSince
    <2> QED BY <1>1, <1>4, <1>5, <1>6, <2>1, SinceTopped
  <1>14. /\ r.cps[1].t \in Nat /\ h.cps[1].t \in Nat
         /\ h.cps[1].t <= r.cps[1].t \/ s.t <= r.cps[1].t
    <2> PICK d \in Nat : ToppedAt(d, r.cps, h.cps, x)
      BY <1>5 DEF Topped
    <2>1. 1 \in 1 .. Len(h.cps) /\ 1 \in 1 .. Len(r.cps)
      BY <1>1, <1>6
    <2>2. r.cps[1].t \in Nat /\ h.cps[1].t \in Nat
      BY <1>1, <1>6, <2>1, CheckpointFields
    <2>3. CASE Len(r.cps) = 1
      <3>1. r.cps[1] = x
        BY <2>3 DEF ToppedAt
      <3> QED BY <1>3, <1>4, <2>2, <3>1
    <2>4. CASE Len(r.cps) # 1
      <3>1. 1 \in 1 .. Len(r.cps) - 1 /\ Len(r.cps) + d <= Len(h.cps) + 1
        <4>1. Len(r.cps) + d <= Len(h.cps) + 1
          BY DEF ToppedAt
        <4>2. Len(r.cps) \in Nat /\ Len(r.cps) >= 2
          <5> DEFINE n == Len(r.cps)
          <5>1. n \in Nat /\ n >= 1 /\ n # 1
            BY <1>6, <2>4
          <5> HIDE DEF n
          <5>2. n \in Nat /\ n >= 2
            BY ONLY <5>1
          <5> QED BY <5>2 DEF n
        <4> QED BY <4>1, <4>2
      <3>2. r.cps[1] = h.cps[1 + d] /\ 1 + d \in 1 .. Len(h.cps)
        BY <1>1, <1>6, <3>1 DEF ToppedAt
      <3>3. d = 0 \/ 1 < 1 + d
        OBVIOUS
      <3>4. h.cps[1].t <= h.cps[1 + d].t
        BY <1>1, <1>2, <2>1, <2>2, <3>2, <3>3 DEF Sorted
      <3> QED BY <2>2, <3>2, <3>4
    <2> QED BY <2>2, <2>3, <2>4
  <1>15. Blocks(s, r.cps, r.meas)
    BY <1>1, <1>2, <1>7, <1>8, <1>9, <1>14, BlocksCut
  <1>16. Sampled(s, r.imu)
    <2>1. r.imu \in Seq(Samples) /\ Window(r.imu, h.imu)
      BY <1>1, <1>7, SplitWindows
    <2> PICK d \in Nat : /\ Len(r.imu) + d <= Len(h.imu)
                         /\ \A i \in 1 .. Len(r.imu) : r.imu[i] = h.imu[i + d]
      BY Zenon, <2>1 DEF Window
    <2> SUFFICES ASSUME NEW i \in 1 .. Len(r.imu), NEW g \in s.segs,
                        g.a < r.imu[i].t, r.imu[i].from < g.b
                 PROVE  PieceOf(g, r.imu[i], s.at)
      BY DEF Sampled
    <2>2. i + d \in 1 .. Len(h.imu) /\ r.imu[i] = h.imu[i + d]
      BY <1>1, <2>1
    <2>3. g \in f.segs /\ g.b <= s.t
      BY <1>8
    <2>4. PieceOf(g, r.imu[i], f.at)
      BY Zenon, <2>2, <2>3 DEF Sampled
    <2>5. g.a \in Epochs /\ g.b \in Epochs /\ g.a \in Nat /\ g.b \in Nat /\ g.a < g.b
      BY <2>3, FilterFields, PieceEnds DEF Tiled
    <2>6. s.at[g.a] = f.at[g.a] /\ s.at[g.b] = f.at[g.b]
      BY <1>3, <1>8, <2>3, <2>5
    <2> QED BY <2>4, <2>6 DEF PieceOf
  <1> QED BY <1>12, <1>13, <1>15, <1>16 DEF Agree

(* restore_snapshot, when the snapshot is a past state of the filter        *)
LEMMA RestoreSnapshotInOrder ==
    ASSUME IInv, KeptInv, InOrderInv, RestoreSnapshot
    PROVE  InOrderInv'
  <1>1. /\ filter \in Filters /\ saved.filter \in Filters /\ hist \in Histories
        /\ InEpochOrder(hist, filter.t) /\ foreign \in BOOLEAN
    BY DEF IInv, TypeOK, HistoryOrdered
  <1>2. /\ filter' = saved.filter /\ hist' = RestoreToSnapshot(hist, saved.filter)
        /\ foreign' = (foreign \/ ~ IsPast(saved.filter, filter))
        /\ work = {} /\ UNCHANGED <<saved, work>>
    BY DEF RestoreSnapshot
  <1>3. saved.filter.t \in Nat
    BY <1>1, Timestamps
  <1>4. saved.foreign => foreign'
    BY Zenon, <1>2 DEF InOrderInv
  <1>5. ASSUME ~ foreign'
        PROVE  /\ Tiled(filter') /\ Sampled(filter', hist'.imu) /\ Agree(filter', hist')
               /\ AllSavedSince(saved.filter, hist'.cps)
    <2>1. ~ foreign /\ IsPast(saved.filter, filter) /\ ~ saved.foreign
      BY Zenon, <1>2, <1>5 DEF InOrderInv
    <2>2. /\ Agree(filter, hist) /\ Sampled(filter, hist.imu) /\ Tiled(saved.filter)
          /\ AllSavedSince(saved.filter, hist.cps)
      BY <2>1 DEF InOrderInv
    <2>3. Timely(saved.filter)
      BY DEF KeptInv, AllTimely
    <2> QED BY <1>1, <1>2, <2>1, <2>2, <2>3, RestoredAgrees
  <1> QED BY <1>2, <1>3, <1>4, <1>5 DEF InOrderInv

(* Every step preserves InOrderInv.                                         *)
LEMMA NextInOrder ==
    ASSUME IInv, KeptInv, InOrderInv, [Next]_vars
    PROVE  InOrderInv'
  <1>1. CASE LateFail
    BY <1>1 DEF LateFail, InOrderInv
  <1>2. CASE UNCHANGED vars
    BY <1>2 DEF vars, InOrderInv, WorkInOrder
  <1> QED BY <1>1, <1>2, PropagateInOrder, UpdateInOrder, LateBeginInOrder, LateReplayInOrder,
             LateCommitInOrder, PseudoUpdateInOrder, ConfigureInOrder, SaveStateInOrder,
             RestoreSnapshotInOrder, RestoreEncodedInOrder DEF Next

-----------------------------------------------------------------------------
(* Every step is a step of InOrderFilter *)

(* The two modules begin in the same state.                                 *)
LEMMA InitRefines ==
    ASSUME Init PROVE InOrder!Init
  <1>1. filter = NewFilter /\ foreign = FALSE /\ saved.filter = filter /\ saved.foreign = FALSE
    BY DEF Init
  <1>2. NewFilter = InOrder!Start
    BY DEF NewFilter, Epochs, InOrder!Start, InOrder!Epochs
  <1> QED BY Zenon, <1>1, <1>2 DEF InOrder!Init

(* Two filters that agree field by field are the same.                      *)
LEMMA SameFilter ==
    ASSUME NEW f \in Filters, NEW g \in Filters,
           f.t = g.t, f.at = g.at, f.segs = g.segs, f.ps = g.ps
    PROVE  f = g
  <1>1. f = [t |-> f.t, at |-> f.at, segs |-> f.segs, ps |-> f.ps]
    BY FilterFields
  <1>2. g = [t |-> g.t, at |-> g.at, segs |-> g.segs, ps |-> g.ps]
    BY FilterFields
  <1> QED BY <1>1, <1>2

(* What InOrderFilter's Fix makes of a filter                               *)
Fixed(f, e, k, kept) ==
    [f EXCEPT !.at[e] = Append(@, k), !.segs = InOrder!Cut(@, e), !.ps = kept]

(* What it is, field by field                                                *)
LEMMA FixedFields ==
    ASSUME NEW f \in Filters, NEW e \in Epochs, NEW k \in GnssKinds,
           NEW r \in Filters, r.t = f.t,
           r.at = [f.at EXCEPT ![e] = Append(f.at[e], k)],
           r.segs = InOrder!Cut(f.segs, e)
    PROVE  r = Fixed(f, e, k, r.ps)
  <1>1. f = [t |-> f.t, at |-> f.at, segs |-> f.segs, ps |-> f.ps]
    BY FilterFields
  <1>2. r = [t |-> r.t, at |-> r.at, segs |-> r.segs, ps |-> r.ps]
    BY FilterFields
  <1> DEFINE x == InOrder!Cut(f.segs, e)
             y == [f.at EXCEPT ![e] = Append(f.at[e], k)]
  <1>3. r = [t |-> f.t, at |-> y, segs |-> x, ps |-> r.ps]
    BY <1>2
  <1>4. Fixed(f, e, k, r.ps) = [f EXCEPT !.at = y, !.segs = x, !.ps = r.ps]
    BY <1>1 DEF Fixed
  <1> HIDE DEF x, y
  <1>5. [f EXCEPT !.at = y, !.segs = x, !.ps = r.ps] = [t |-> f.t, at |-> y, segs |-> x, ps |-> r.ps]
    <2> DEFINE g == [f EXCEPT !.at = y, !.segs = x, !.ps = r.ps]
               d == {"t", "at", "segs", "ps"}
    <2>1. f = [n \in d |-> f[n]] /\ DOMAIN f = d
      BY DEF Filters
    <2>2. g = [n \in d |-> IF n = "ps" THEN r.ps ELSE IF n = "segs" THEN x
                           ELSE IF n = "at" THEN y ELSE f[n]]
      BY Zenon, <2>1
    <2> QED BY <2>2
  <1> QED BY <1>3, <1>4, <1>5

(* propagate feeds the filter.                                              *)
LEMMA PropagateRefines ==
    ASSUME NEW t \in Epochs, NEW k \in SampleKinds, Propagate(t, k)
    PROVE  InOrder!Feed(t, k)
  BY DEF Propagate, InOrder!Feed

(* An update at the current epoch is a fix there.                           *)
LEMMA UpdateRefines ==
    ASSUME IInv, InOrderInv, ~ foreign, NEW k \in GnssKinds, Update(k)
    PROVE  InOrder!Fix(filter.t, k)
  <1>1. /\ filter \in Filters /\ filter.t \in Nat /\ filter.t \in Epochs /\ filter.segs \in SUBSET Pieces
        /\ hist.imu \in Seq(Samples)
    <2>1. filter \in Filters /\ hist \in Histories
      BY DEF IInv, TypeOK
    <2> QED BY <2>1, FilterFields, HistoryFields
  <1>2. filter' = Correct(filter, k) /\ UNCHANGED <<saved, foreign>>
    BY DEF Update
  <1>3. Tiled(filter) /\ Sampled(filter, hist.imu)
    BY DEF InOrderInv
  <1>4. /\ filter' \in Filters /\ filter'.t = filter.t /\ filter'.ps = filter.ps
        /\ filter'.segs = filter.segs
        /\ filter'.at = [filter.at EXCEPT ![filter.t] = Append(filter.at[filter.t], k)]
    BY Zenon, <1>1, <1>2, CorrectFields, CorrectFilter
  <1>5. InOrder!Cut(filter.segs, filter.t) = filter.segs
    <2>1. \A g \in filter.segs : g.b <= filter.t /\ g.b \in Nat
      BY <1>1, <1>3, PieceEnds DEF Tiled
    <2>2. Unsplit(filter.segs, filter.t)
      BY <1>1, <2>1 DEF Unsplit
    <2> QED BY <1>1, <2>2, CutNothing
  <1>6. filter' = Fixed(filter, filter.t, k, filter.ps)
    <2>1. filter' = Fixed(filter, filter.t, k, filter'.ps)
      BY <1>1, <1>4, <1>5, FixedFields
    <2> QED BY <1>4, <2>1
  <1>7. UNCHANGED <<foreign, [content |-> saved.filter, free |-> saved.foreign]>>
    BY <1>2
  <1>8. filter.t <= filter.t /\ filter.ps \in SUBSET filter.ps
    BY <1>1
  <1> QED BY Zenon, <1>6, <1>7, <1>8 DEF InOrder!Fix, Fixed

(* A commit is a fix at the epoch of the late measurement, and what was     *)
(* done since the checkpoint is as if it had come in order.                 *)
LEMMA LateCommitRefines ==
    ASSUME IInv, KeptInv, InOrderInv, ~ foreign, LateCommit
    PROVE  \E e \in Epochs, k \in GnssKinds : InOrder!Fix(e, k)
  <1> PICK w \in work : /\ w.todo = <<>>
                        /\ CanReplay(w.filter, filter.t, hist.imu)
                        /\ filter' = ReplayImu(w.filter, filter.t, hist.imu)
                        /\ UNCHANGED <<saved, foreign>>
    BY DEF LateCommit
  <1>1. /\ filter' \in Filters /\ filter'.t = filter.t
        /\ Earlier(filter'.ps, filter.ps)
        /\ \E e \in Epochs : /\ e < filter.t /\ w.kind \in GnssKinds
                             /\ filter'.at = Late(filter, e, w.kind).at
                             /\ filter'.segs = Late(filter, e, w.kind).segs
    BY CommittedInOrder
  <1> PICK e \in Epochs : /\ e < filter.t /\ w.kind \in GnssKinds
                          /\ filter'.at = Late(filter, e, w.kind).at
                          /\ filter'.segs = Late(filter, e, w.kind).segs
    BY <1>1
  <1>2. filter \in Filters /\ filter.t \in Nat /\ e \in Nat /\ Tiled(filter)
    <2>1. filter \in Filters /\ Tiled(filter)
      BY DEF IInv, TypeOK, InOrderInv
    <2> QED BY <2>1, FilterFields, EpochsAreNat
  <1>3. filter'.at = [filter.at EXCEPT ![e] = Append(filter.at[e], w.kind)]
    BY ZenonT(30), <1>2, LateType
  <1>4. filter'.segs = InOrder!Cut(filter.segs, e)
    BY ZenonT(30), <1>2, LateFilter DEF InOrder!Cut
  <1>5. filter' = Fixed(filter, e, w.kind, filter'.ps)
    BY ZenonT(30), <1>1, <1>2, <1>3, <1>4, FixedFields
  <1>6. /\ filter'.ps \in SUBSET filter.ps
        /\ \A x \in filter'.ps, y \in filter.ps : y.t < x.t => y \in filter'.ps
    BY <1>1 DEF Earlier
  <1>7. UNCHANGED <<foreign, [content |-> saved.filter, free |-> saved.foreign]>>
    OBVIOUS
  <1>8. e <= filter.t /\ e # filter.t
    BY <1>2
  <1>9. InOrder!Fix(e, w.kind)
    BY Zenon, <1>5, <1>6, <1>7, <1>8 DEF InOrder!Fix, Fixed
  <1> QED BY <1>9

(* restore_snapshot goes back to a past state of the filter, or leaves the  *)
(* promise.                                                                 *)
LEMMA RestoreSnapshotRefines ==
    ASSUME IInv, InOrderInv, RestoreSnapshot
    PROVE  InOrder!Rewind \/ InOrder!Foreign
  <1>1. /\ filter' = saved.filter /\ foreign' = (foreign \/ ~ IsPast(saved.filter, filter))
        /\ UNCHANGED saved
    BY DEF RestoreSnapshot
  <1>2. UNCHANGED [content |-> saved.filter, free |-> saved.foreign]
    BY <1>1
  <1>3. CASE foreign'
    BY <1>2, <1>3 DEF InOrder!Foreign
  <1>4. CASE ~ foreign'
    <2> DEFINE s == saved.filter
    <2>1. ~ foreign /\ IsPast(s, filter) /\ ~ saved.foreign
      BY Zenon, <1>1, <1>4 DEF InOrderInv
    <2>2. Tiled(s)
      BY <2>1 DEF InOrderInv
    <2>3. s \in Filters /\ s.t \in Nat /\ s.ps \in SUBSET [kind : PseudoKinds, t : Epochs]
      <3>1. s \in Filters
        BY DEF IInv, TypeOK
      <3> HIDE DEF s
      <3> QED BY <3>1, FilterFields
    <2>4. filter' = s
      BY <1>1
    <2> HIDE DEF s
    <2>5. /\ s.t <= filter.t /\ s.segs = {g \in filter.segs : g.b <= s.t}
          /\ \A u \in Epochs : s.at[u] = IF u <= s.t THEN filter.at[u] ELSE <<>>
      BY <2>1 DEF IsPast
    <2>6. InOrder!Past(s, s.t) = InOrder!Past(filter, s.t)
      <3>1. {g \in s.segs : g.b <= s.t} = {g \in filter.segs : g.b <= s.t}
        BY <2>5
      <3>2. [u \in Epochs |-> IF u <= s.t THEN s.at[u] ELSE <<>>]
            = [u \in Epochs |-> IF u <= s.t THEN filter.at[u] ELSE <<>>]
        BY <2>5
      <3>3. InOrder!Epochs = Epochs
        BY DEF Epochs, InOrder!Epochs
      <3> QED BY Zenon, <3>1, <3>2, <3>3 DEF InOrder!Past
    <2>7. s.ps \subseteq [kind : PseudoKinds, t : 0 .. s.t]
      <3> SUFFICES ASSUME NEW y \in s.ps PROVE y \in [kind : PseudoKinds, t : 0 .. s.t]
        OBVIOUS
      <3>1. y \in [kind : PseudoKinds, t : Epochs] /\ y.t <= s.t
        BY <2>2, <2>3 DEF Tiled
      <3>2. y.t \in Nat
        BY <3>1, EpochsAreNat
      <3>3. y.t \in 0 .. s.t
        BY <2>3, <3>1, <3>2
      <3> QED BY <3>1, <3>3
    <2>8. foreign' = foreign
      BY Zenon, <1>1, <1>4, <2>1 DEF IInv, TypeOK
    <2>9. InOrder!Rewind
      BY <1>2, <2>4, <2>5, <2>6, <2>7, <2>8 DEF InOrder!Rewind
    <2> QED BY <2>9
  <1> QED BY <1>3, <1>4

(* Every step of the synchronized filter is a step of InOrderFilter or      *)
(* changes nothing there.                                                   *)
LEMMA StepRefines ==
    ASSUME IInv, KeptInv, InOrderInv, [Next]_vars
    PROVE  [InOrder!Next]_InOrder!ovars
  <1> DEFINE st == [content |-> saved.filter, free |-> saved.foreign]
  <1>1. InOrder!Epochs = Epochs
    BY DEF Epochs, InOrder!Epochs
  <1>2. ASSUME NEW t \in Epochs, NEW k \in SampleKinds, Propagate(t, k) PROVE InOrder!Next
    <2>1. InOrder!Feed(t, k)
      BY <1>2, PropagateRefines
    <2> QED BY <1>1, <2>1 DEF InOrder!Next
  <1>3. ASSUME foreign, foreign' = foreign, saved' = saved PROVE InOrder!Next
    <2>1. InOrder!Foreign
      BY <1>3 DEF InOrder!Foreign
    <2> QED BY <2>1 DEF InOrder!Next
  <1>4. ASSUME NEW k \in GnssKinds, Update(k) PROVE InOrder!Next
    <2>1. UNCHANGED <<saved, foreign>> /\ filter.t \in Epochs
      BY <1>4, FilterFields DEF Update, IInv, TypeOK
    <2>2. CASE ~ foreign
      <3>1. InOrder!Fix(filter.t, k)
        BY <1>4, <2>2, UpdateRefines
      <3> QED BY <1>1, <2>1, <3>1 DEF InOrder!Next
    <2> QED BY <1>3, <2>1, <2>2
  <1>5. CASE LateCommit
    <2>1. UNCHANGED <<saved, foreign>>
      BY <1>5 DEF LateCommit
    <2>2. CASE ~ foreign
      <3>1. \E e \in Epochs, k \in GnssKinds : InOrder!Fix(e, k)
        BY <1>5, <2>2, LateCommitRefines
      <3> QED BY <1>1, <3>1 DEF InOrder!Next
    <2> QED BY <1>3, <2>1, <2>2
  <1>6. ASSUME NEW k \in PseudoKinds, PseudoUpdate(k) PROVE InOrder!Next
    <2>1. InOrder!Pseudo(k)
      BY <1>6 DEF PseudoUpdate, InOrder!Pseudo
    <2> QED BY <2>1 DEF InOrder!Next
  <1>7. CASE SaveState
    <2>1. /\ saved' = [filter |-> filter, hist |-> hist, foreign |-> foreign]
          /\ UNCHANGED <<filter, foreign>>
      BY <1>7 DEF SaveState
    <2>2. saved'.filter = filter /\ saved'.foreign = foreign
      BY <2>1
    <2>3. InOrder!Save
      BY <2>1, <2>2 DEF InOrder!Save
    <2> QED BY <2>3 DEF InOrder!Next
  <1>8. CASE RestoreSnapshot
    <2>1. InOrder!Rewind \/ InOrder!Foreign
      BY <1>8, RestoreSnapshotRefines
    <2> QED BY <2>1 DEF InOrder!Next
  <1>9. CASE RestoreEncoded
    <2>1. filter' = saved.filter /\ foreign' = saved.foreign /\ UNCHANGED saved
      BY <1>9 DEF RestoreEncoded
    <2>2. InOrder!Load
      BY <2>1 DEF InOrder!Load
    <2> QED BY <2>2 DEF InOrder!Next
  <1>10. ASSUME UNCHANGED <<filter, foreign, saved>> PROVE UNCHANGED InOrder!ovars
    BY <1>10 DEF InOrder!ovars
  <1>11. ASSUME NEW e \in Epochs, NEW k \in GnssKinds, LateBegin(e, k) PROVE UNCHANGED InOrder!ovars
    BY <1>10, <1>11 DEF LateBegin
  <1>12. CASE LateReplay
    BY <1>10, <1>12 DEF LateReplay
  <1>13. CASE LateFail
    BY <1>10, <1>13 DEF LateFail
  <1>14. ASSUME NEW c \in Configs, Configure(c) PROVE UNCHANGED InOrder!ovars
    BY <1>10, <1>14 DEF Configure
  <1>15. CASE UNCHANGED vars
    BY <1>10, <1>15 DEF vars
  <1> QED BY <1>2, <1>4, <1>5, <1>6, <1>7, <1>8, <1>9, <1>11, <1>12, <1>13, <1>14, <1>15 DEF Next

(* Whatever the capacities, however measurements arrive late, fail, are     *)
(* interleaved with saves and restores, and whatever was evicted: a late    *)
(* measurement that is accepted leaves the filter with exactly the pieces   *)
(* of IMU samples and exactly the corrections that processing everything in *)
(* the order of its epoch would have given.                                 *)
THEOREM InOrderRefined == Spec => ImplementsInOrder
  <1>1. Init => InOrder!Init
    BY InitRefines
  <1>2. IInv /\ KeptInv /\ InOrderInv /\ [Next]_vars => [InOrder!Next]_InOrder!ovars
    BY StepRefines
  <1>3. Init => IInv /\ KeptInv /\ InOrderInv
    BY InitIInv, InitKept, InitInOrder
  <1>4. IInv /\ KeptInv /\ InOrderInv /\ [Next]_vars => IInv' /\ KeptInv' /\ InOrderInv'
    BY NextIInv, NextKept, NextInOrder
  <1> QED BY <1>1, <1>2, <1>3, <1>4, PTL DEF Spec, ImplementsInOrder, InOrder!Spec
=============================================================================
