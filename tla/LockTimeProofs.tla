--------------------------- MODULE LockTimeProofs ---------------------------
(***************************************************************************)
(* Proofs about LockTime.tla for any cells, kinds, steps of time and any   *)
(* losses, repetitions and delays of reports: the tracker's state is that  *)
(* of the epoch it last observed, as far as epochs can be told apart, no   *)
(* loss of lock is missed, and none is reported of a lock that is kept.    *)
(*                                                                         *)
(* The argument: a receiver never claims a lock time it does not have      *)
(* (HonestReport), elapsed time is right modulo the week or the day        *)
(* (ElapsedModulo); so the claimed lock time is below the time elapsed     *)
(* since the last report when lock was lost after it.  And a bound is at   *)
(* least half of the lock time it was chosen for, so that a lock of twice  *)
(* the gap raises no alarm (AlarmInv).                                     *)
(***************************************************************************)
EXTENDS LockTime, TLAPS

-----------------------------------------------------------------------------
(* Arithmetic *)

(* The lower end of the bucket of a number                                  *)
LEMMA BucketFloor ==
    ASSUME NEW n \in Nat, NEW s \in Nat \ {0}
    PROVE  /\ n \div s \in Nat
           /\ s * (n \div s) <= n
  BY SMT

(* What the code computes for value j of a segment that starts at 32(k + 1) *)
LEMMA SegmentValue ==
    ASSUME NEW k \in Int, NEW j \in Int, NEW s \in Int
    PROVE  s * (32 * (k + 1)) - s * 32 * k + s * (j - 32) = s * j
  <1>1. s * (32 * (k + 1)) = 32 * (s * k) + 32 * s
    BY SMT
  <1>2. s * 32 * k = 32 * (s * k)
    BY SMT
  <1>3. s * (j - 32) = s * j - 32 * s
    BY SMT
  <1> QED BY <1>1, <1>2, <1>3, SMT

(* Every lock time between 64 ms and the largest bucket is in a segment.    *)
LEMMA InSegment ==
    ASSUME NEW lock \in Nat, 64 <= lock, lock < 2 ^ 26
    PROVE  \E k \in 1 .. 20 : 32 * 2 ^ k <= lock /\ lock < 64 * 2 ^ k
  <1> DEFINE In(k) == 32 * 2 ^ k <= lock /\ lock < 64 * 2 ^ k
  <1>1. \/ In(1) \/ In(2) \/ In(3) \/ In(4) \/ In(5) \/ In(6) \/ In(7) \/ In(8) \/ In(9) \/ In(10)
        \/ In(11) \/ In(12) \/ In(13) \/ In(14) \/ In(15) \/ In(16) \/ In(17) \/ In(18) \/ In(19)
        \/ In(20)
    BY SMT
  <1> QED BY <1>1, SMT

(* The bucket of a number between 32 and 64 times the scale                 *)
LEMMA BucketNumber ==
    ASSUME NEW n \in Nat, NEW s \in Nat \ {0}, 32 * s <= n, n < 64 * s
    PROVE  n \div s \in 32 .. 63
  BY SMT

(* What the code computes for an indicator of segment q                     *)
LEMMA Df407Segment ==
    ASSUME NEW n \in 64 .. 703, NEW q, NEW p, (n - 64) \div 32 = q, 2 ^ (q + 1) = p
    PROVE  Df407(n) = p * (64 + q * 32) - p * 32 * (q + 1) + p * (n - (64 + q * 32))
  BY SMTT(30) DEF Df407

(* What DF407 keeps of a lock time: its multiple of the scale of its        *)
(* segment.                                                                 *)
LEMMA Value407 ==
    ASSUME NEW lock \in Nat, 64 <= lock, lock < 2 ^ 26
    PROVE  \E k \in 1 .. 20 :
             /\ 32 * 2 ^ k <= lock /\ lock < 64 * 2 ^ k
             /\ Df407(Encode407(lock)) = 2 ^ k * (lock \div 2 ^ k)
  <1> DEFINE k == CHOOSE k \in 1 .. 20 : 32 * 2 ^ k <= lock /\ lock < 64 * 2 ^ k
             s == 2 ^ k
             j == lock \div s
  <1>1. k \in 1 .. 20 /\ 32 * 2 ^ k <= lock /\ lock < 64 * 2 ^ k
    BY InSegment, Zenon
  <1>2. Encode407(lock) = j + 32 * k
    BY SMT DEF Encode407
  <1> HIDE DEF k
  <1>3. s \in Nat \ {0}
    BY <1>1, SMT
  <1>4. 2 ^ k = s
    OBVIOUS
  <1>5. 32 * s <= lock /\ lock < 64 * s
    BY <1>1
  <1> HIDE DEF s
  <1>6. j \in 32 .. 63
    BY <1>3, <1>5, BucketNumber, SMT
  <1>0. j = lock \div s
    OBVIOUS
  <1> HIDE DEF j
  <1> DEFINE n == j + 32 * k
             q == k - 1
  <1>7. n \in 64 .. 703 /\ (n - 64) \div 32 = q
    BY <1>1, <1>6, SMT
  <1>8. q + 1 = k /\ 64 + q * 32 = 32 * (k + 1) /\ n - (32 * (k + 1)) = j - 32
    BY <1>1, <1>6, SMT
  <1>9. k \in Int /\ j \in Int /\ s \in Int
    BY <1>1, <1>3, <1>6, SMT
  <1> HIDE DEF n, q
  <1>10. 2 ^ (q + 1) = s
    BY <1>4, <1>8, Zenon
  <1>11. Df407(n) = s * (64 + q * 32) - s * 32 * (q + 1) + s * (n - (64 + q * 32))
    BY <1>7, <1>10, Df407Segment, ZenonT(60)
  <1>12. Df407(n) = s * (32 * (k + 1)) - s * 32 * k + s * (j - 32)
    BY <1>8, <1>11, ZenonT(60)
  <1>13. Df407(n) = s * j
    BY <1>9, <1>12, SegmentValue, Zenon
  <1>14. Encode407(lock) = n
    BY <1>2 DEF n
  <1>15. Df407(Encode407(lock)) = 2 ^ k * (lock \div 2 ^ k)
    BY <1>0, <1>4, <1>13, <1>14, Zenon
  <1> QED BY <1>1, <1>15, Zenon

(* Below the segments DF407 is exact, above them it is constant.            *)
LEMMA Ends407 ==
    ASSUME NEW lock \in Nat
    PROVE  /\ lock < 64 => Df407(Encode407(lock)) = lock
           /\ lock >= 2 ^ 26 => Df407(Encode407(lock)) = 2 ^ 26
  <1>1. ASSUME lock < 64 PROVE Df407(Encode407(lock)) = lock
    BY <1>1, SMT DEF Df407, Encode407
  <1>2. ASSUME lock >= 2 ^ 26 PROVE Encode407(lock) = 704
    BY <1>2, SMT DEF Encode407
  <1>3. Df407(704) = 2 ^ 26
    BY SMT DEF Df407
  <1> QED BY <1>1, <1>2, <1>3, Zenon

(* The scales of the segments and of the buckets                            *)
LEMMA Powers ==
    ASSUME NEW n
    PROVE
      /\ (n = 1 => 2 ^ n = 2) /\ (n = 2 => 2 ^ n = 4) /\ (n = 3 => 2 ^ n = 8)
      /\ (n = 4 => 2 ^ n = 16) /\ (n = 5 => 2 ^ n = 32) /\ (n = 6 => 2 ^ n = 64)
      /\ (n = 7 => 2 ^ n = 128) /\ (n = 8 => 2 ^ n = 256) /\ (n = 9 => 2 ^ n = 512)
      /\ (n = 10 => 2 ^ n = 1024) /\ (n = 11 => 2 ^ n = 2048) /\ (n = 12 => 2 ^ n = 4096)
      /\ (n = 13 => 2 ^ n = 8192) /\ (n = 14 => 2 ^ n = 16384) /\ (n = 15 => 2 ^ n = 32768)
      /\ (n = 16 => 2 ^ n = 65536) /\ (n = 17 => 2 ^ n = 131072) /\ (n = 18 => 2 ^ n = 262144)
      /\ (n = 19 => 2 ^ n = 524288) /\ (n = 20 => 2 ^ n = 1048576)
  <1>1. n = 1 => 2 ^ n = 2
    BY SMT
  <1>2. n = 2 => 2 ^ n = 4
    BY SMT
  <1>3. n = 3 => 2 ^ n = 8
    BY SMT
  <1>4. n = 4 => 2 ^ n = 16
    BY SMT
  <1>5. n = 5 => 2 ^ n = 32
    BY SMT
  <1>6. n = 6 => 2 ^ n = 64
    BY SMT
  <1>7. n = 7 => 2 ^ n = 128
    BY SMT
  <1>8. n = 8 => 2 ^ n = 256
    BY SMT
  <1>9. n = 9 => 2 ^ n = 512
    BY SMT
  <1>10. n = 10 => 2 ^ n = 1024
    BY SMT
  <1>11. n = 11 => 2 ^ n = 2048
    BY SMT
  <1>12. n = 12 => 2 ^ n = 4096
    BY SMT
  <1>13. n = 13 => 2 ^ n = 8192
    BY SMT
  <1>14. n = 14 => 2 ^ n = 16384
    BY SMT
  <1>15. n = 15 => 2 ^ n = 32768
    BY SMT
  <1>16. n = 16 => 2 ^ n = 65536
    BY SMT
  <1>17. n = 17 => 2 ^ n = 131072
    BY SMT
  <1>18. n = 18 => 2 ^ n = 262144
    BY SMT
  <1>19. n = 19 => 2 ^ n = 524288
    BY SMT
  <1>20. n = 20 => 2 ^ n = 1048576
    BY SMT
  <1> QED
    BY <1>1, <1>2, <1>3, <1>4, <1>5, <1>6, <1>7, <1>8, <1>9, <1>10, <1>11, <1>12, <1>13, <1>14, <1>15,
       <1>16, <1>17, <1>18, <1>19, <1>20, SMT

(* The bucket widths of DF407 are powers of two; the provers know them by   *)
(* value.                                                                   *)
LEMMA Scale ==
    ASSUME NEW k \in 1 .. 20
    PROVE  2 ^ k \in Nat \ {0}
  <1> DEFINE a == 2 ^ k
  <1>1.
        /\ (k = 1 => a = 2) /\ (k = 2 => a = 4) /\ (k = 3 => a = 8)
        /\ (k = 4 => a = 16) /\ (k = 5 => a = 32) /\ (k = 6 => a = 64)
        /\ (k = 7 => a = 128) /\ (k = 8 => a = 256) /\ (k = 9 => a = 512)
        /\ (k = 10 => a = 1024) /\ (k = 11 => a = 2048) /\ (k = 12 => a = 4096)
        /\ (k = 13 => a = 8192) /\ (k = 14 => a = 16384) /\ (k = 15 => a = 32768)
        /\ (k = 16 => a = 65536) /\ (k = 17 => a = 131072) /\ (k = 18 => a = 262144)
        /\ (k = 19 => a = 524288) /\ (k = 20 => a = 1048576)
    BY Powers
  <1> HIDE DEF a
  <1>2. a \in Nat \ {0}
    BY <1>1, SMT
  <1> QED BY <1>2 DEF a

(* A wider bucket of DF407 is at least twice as wide.                       *)
LEMMA LargerScale ==
    ASSUME NEW k \in 1 .. 20, NEW l \in 1 .. 20, k < l
    PROVE  2 * 2 ^ k <= 2 ^ l
  <1> DEFINE a == 2 ^ k
             b == 2 ^ l
  <1>1.
        /\ (k = 1 => a = 2) /\ (k = 2 => a = 4) /\ (k = 3 => a = 8)
        /\ (k = 4 => a = 16) /\ (k = 5 => a = 32) /\ (k = 6 => a = 64)
        /\ (k = 7 => a = 128) /\ (k = 8 => a = 256) /\ (k = 9 => a = 512)
        /\ (k = 10 => a = 1024) /\ (k = 11 => a = 2048) /\ (k = 12 => a = 4096)
        /\ (k = 13 => a = 8192) /\ (k = 14 => a = 16384) /\ (k = 15 => a = 32768)
        /\ (k = 16 => a = 65536) /\ (k = 17 => a = 131072) /\ (k = 18 => a = 262144)
        /\ (k = 19 => a = 524288) /\ (k = 20 => a = 1048576)
    BY Powers
  <1>2.
        /\ (l = 1 => b = 2) /\ (l = 2 => b = 4) /\ (l = 3 => b = 8)
        /\ (l = 4 => b = 16) /\ (l = 5 => b = 32) /\ (l = 6 => b = 64)
        /\ (l = 7 => b = 128) /\ (l = 8 => b = 256) /\ (l = 9 => b = 512)
        /\ (l = 10 => b = 1024) /\ (l = 11 => b = 2048) /\ (l = 12 => b = 4096)
        /\ (l = 13 => b = 8192) /\ (l = 14 => b = 16384) /\ (l = 15 => b = 32768)
        /\ (l = 16 => b = 65536) /\ (l = 17 => b = 131072) /\ (l = 18 => b = 262144)
        /\ (l = 19 => b = 524288) /\ (l = 20 => b = 1048576)
    BY Powers
  <1> HIDE DEF a, b
  <1>3. 2 * a <= b
    BY <1>1, <1>2, SMT
  <1> QED BY <1>3 DEF a, b

(* Rounding down to a multiple of s                                         *)
LEMMA BucketMonotone ==
    ASSUME NEW s \in Nat \ {0}, NEW a \in Nat, NEW b \in Nat, a <= b
    PROVE  s * (a \div s) <= s * (b \div s)
  <1>1. a \div s <= b \div s /\ a \div s \in Nat /\ b \div s \in Nat
    BY SMT
  <1> QED BY <1>1, SMT

(* Rounding a lock time down to a bucket loses less than the bucket's       *)
(* width.                                                                   *)
LEMMA BucketAbove ==
    ASSUME NEW s \in Nat \ {0}, NEW a \in Nat, 32 * s <= a
    PROVE  32 * s <= s * (a \div s) /\ a - s < s * (a \div s)
  <1>1. a \div s \in Nat /\ 32 <= a \div s
    BY SMT
  <1>2. a < s * (a \div s) + s
    BY SMT
  <1> DEFINE j == a \div s
  <1>3. j \in Nat /\ 32 <= j /\ a < s * j + s
    BY <1>1, <1>2
  <1> HIDE DEF j
  <1>4. s * j \in Nat /\ 32 * s <= s * j
    BY <1>3, SMT
  <1>5. a - s < s * j
    BY <1>3, <1>4, SMT
  <1> QED BY <1>4, <1>5 DEF j

(* DF407 decoded is never more than the lock time that was encoded.         *)
LEMMA Honest407 ==
    ASSUME NEW lock \in Nat
    PROVE  Df407(Encode407(lock)) \in 0 .. lock
  <1>1. CASE lock < 64
    BY <1>1, Ends407, SMT
  <1>2. CASE lock >= 2 ^ 26
    BY <1>2, Ends407, SMT
  <1>3. CASE 64 <= lock /\ lock < 2 ^ 26
    <2>1. PICK k \in 1 .. 20 : Df407(Encode407(lock)) = 2 ^ k * (lock \div 2 ^ k)
      BY <1>3, Value407, Zenon
    <2> DEFINE s == 2 ^ k
    <2>2. s \in Nat \ {0} /\ Df407(Encode407(lock)) = s * (lock \div s)
      BY <2>1, Scale
    <2> HIDE DEF s
    <2>3. lock \div s \in Nat /\ s * (lock \div s) <= lock
      BY <2>2, BucketFloor
    <2>4. s * (lock \div s) \in Nat
      BY <2>2, <2>3, SMT
    <2> QED BY <2>2, <2>3, <2>4, SMT
  <1> QED BY <1>1, <1>2, <1>3, SMT

(* What DF407 reports grows with the lock time ...                          *)
LEMMA Monotone407 ==
    ASSUME NEW a \in Nat, NEW b \in Nat, a <= b
    PROVE  Df407(Encode407(a)) <= Df407(Encode407(b))
  <1> DEFINE fa == Df407(Encode407(a))
             fb == Df407(Encode407(b))
  <1>1. fa \in 0 .. a /\ fb \in 0 .. b
    BY Honest407
  <1>2. /\ a < 64 => fa = a
        /\ b < 64 => fb = b
        /\ a >= 2 ^ 26 => fa = 2 ^ 26
        /\ b >= 2 ^ 26 => fb = 2 ^ 26
    BY Ends407
  <1>3. ASSUME 64 <= b, b < 2 ^ 26
        PROVE  \E l \in 1 .. 20, t \in Nat \ {0} :
                 t = 2 ^ l /\ 32 * t <= b /\ b < 64 * t /\ fb = t * (b \div t)
    <2>1. PICK l \in 1 .. 20 :
            /\ 32 * 2 ^ l <= b /\ b < 64 * 2 ^ l
            /\ fb = 2 ^ l * (b \div 2 ^ l)
      BY <1>3, Value407
    <2> QED BY <2>1, Scale, Zenon
  <1>4. ASSUME 64 <= a, a < 2 ^ 26
        PROVE  \E k \in 1 .. 20, s \in Nat \ {0} :
                 s = 2 ^ k /\ 32 * s <= a /\ a < 64 * s /\ fa = s * (a \div s)
    <2>1. PICK k \in 1 .. 20 :
            /\ 32 * 2 ^ k <= a /\ a < 64 * 2 ^ k
            /\ fa = 2 ^ k * (a \div 2 ^ k)
      BY <1>4, Value407
    <2> QED BY <2>1, Scale, Zenon
  <1> SUFFICES fa <= fb
    OBVIOUS
  <1> HIDE DEF fa, fb
  <1>5. CASE b < 64
    BY <1>1, <1>2, <1>5, SMT
  <1>6. CASE b >= 2 ^ 26 /\ a >= 2 ^ 26
    BY <1>2, <1>6, SMT
  <1>7. CASE b >= 2 ^ 26 /\ a < 2 ^ 26
    BY <1>1, <1>2, <1>7, SMT
  <1>8. CASE 64 <= b /\ b < 2 ^ 26
    <2>1. PICK l \in 1 .. 20, t \in Nat \ {0} :
                 t = 2 ^ l /\ 32 * t <= b /\ b < 64 * t /\ fb = t * (b \div t)
      BY <1>3, <1>8, Zenon
    <2>2. 32 * t <= fb
      BY <2>1, BucketAbove, Zenon
    <2>3. CASE a < 64
      BY <1>1, <2>1, <2>2, <2>3, SMT
    <2>4. CASE 64 <= a
      <3>1. a < 2 ^ 26
        BY <1>8, SMT
      <3>2. PICK k \in 1 .. 20, s \in Nat \ {0} :
                 s = 2 ^ k /\ 32 * s <= a /\ a < 64 * s /\ fa = s * (a \div s)
        BY <1>4, <2>4, <3>1, Zenon
      <3>3. CASE k = l
        BY <2>1, <3>2, <3>3, BucketMonotone, Zenon
      <3>4. CASE k < l
        <4>1. 2 * s <= t
          BY <2>1, <3>2, <3>4, LargerScale, Zenon
        <4> QED BY <1>1, <2>1, <2>2, <3>2, <4>1, SMT
      <3>5. CASE l < k
        <4>1. 2 * t <= s
          BY <2>1, <3>2, <3>5, LargerScale, Zenon
        <4> QED BY <2>1, <3>2, <4>1, SMT
      <3> QED BY <3>3, <3>4, <3>5, SMT
    <2> QED BY <2>3, <2>4, SMT
  <1> QED BY <1>5, <1>6, <1>7, <1>8, SMT

(* ... and is more than half of it, as long as there is a segment for it.   *)
LEMMA Half407 ==
    ASSUME NEW lock \in Nat, NEW g \in 0 .. 2 ^ 18, 2 * g <= lock
    PROVE  Df407(Encode407(lock)) >= g
  <1>1. CASE lock < 64
    BY <1>1, Ends407, SMT
  <1>2. CASE lock >= 2 ^ 26
    BY <1>2, Ends407, SMT
  <1>3. CASE 64 <= lock /\ lock < 2 ^ 26
    <2>1. PICK k \in 1 .. 20 :
            32 * 2 ^ k <= lock /\ Df407(Encode407(lock)) = 2 ^ k * (lock \div 2 ^ k)
      BY <1>3, Value407, Zenon
    <2> DEFINE s == 2 ^ k
    <2>2. s \in Nat \ {0} /\ 32 * s <= lock /\ Df407(Encode407(lock)) = s * (lock \div s)
      BY <2>1, Scale
    <2> HIDE DEF s
    <2> DEFINE v == s * (lock \div s)
    <2>3. lock - s < v
      BY <2>2, BucketAbove
    <2>4. v \in Int /\ Df407(Encode407(lock)) = v
      BY <2>2, Honest407, SMT
    <2> HIDE DEF v
    <2> QED BY <2>2, <2>3, <2>4, SMT
  <1> QED BY <1>1, <1>2, <1>3, SMT

(* What DF402 keeps of a lock time, written out                             *)
Bucket402(lock) ==
    IF lock < 32 THEN 0 ELSE IF lock < 64 THEN 32 ELSE IF lock < 128 THEN 64
    ELSE IF lock < 256 THEN 128 ELSE IF lock < 512 THEN 256 ELSE IF lock < 1024 THEN 512
    ELSE IF lock < 2048 THEN 1024 ELSE IF lock < 4096 THEN 2048 ELSE IF lock < 8192 THEN 4096
    ELSE IF lock < 16384 THEN 8192 ELSE IF lock < 32768 THEN 16384
    ELSE IF lock < 65536 THEN 32768 ELSE IF lock < 131072 THEN 65536
    ELSE IF lock < 262144 THEN 131072 ELSE IF lock < 524288 THEN 262144 ELSE 524288

(* DF402 decoded is the largest bucket not above the lock time.             *)
LEMMA Value402 ==
    ASSUME NEW lock \in Nat
    PROVE  Df402(Encode402(lock)) = Bucket402(lock)
  <1>1. CASE lock < 32
    BY <1>1, SMT DEF Df402, Encode402, Bucket402
  <1>2. CASE lock >= 32
    <2> DEFINE In(i) == 2 ^ (i + 4) <= lock /\ (i < 15 => lock < 2 ^ (i + 5))
               i == CHOOSE i \in 1 .. 15 : In(i)
    <2>1. \/ In(1) \/ In(2) \/ In(3) \/ In(4) \/ In(5) \/ In(6) \/ In(7) \/ In(8) \/ In(9)
          \/ In(10) \/ In(11) \/ In(12) \/ In(13) \/ In(14) \/ In(15)
      BY <1>2, SMT
    <2>2. \E x \in 1 .. 15 : In(x)
      BY <2>1, SMT
    <2>3. i \in 1 .. 15 /\ In(i)
      BY <2>2, Zenon
    <2>4. Encode402(lock) = i
      BY <1>2, SMT DEF Encode402
    <2> HIDE DEF i
    <2>5. i # 0
      BY <2>3, SMT
    <2>6. Df402(i) = 2 ^ (i + 4)
      BY <2>3, <2>5, Zenon DEF Df402
    <2> DEFINE n == i + 4
               next == i + 5
               v == 2 ^ n
               w == 2 ^ next
    <2>7. n \in 5 .. 19 /\ next = n + 1 /\ n \in 1 .. 20 /\ next \in 1 .. 20
      BY <2>3, SMT
    <2>8. v <= lock /\ (n < 19 => lock < w)
      BY <2>3, SMT
    <2>9.
          /\ (n = 1 => v = 2) /\ (n = 2 => v = 4) /\ (n = 3 => v = 8)
          /\ (n = 4 => v = 16) /\ (n = 5 => v = 32) /\ (n = 6 => v = 64)
          /\ (n = 7 => v = 128) /\ (n = 8 => v = 256) /\ (n = 9 => v = 512)
          /\ (n = 10 => v = 1024) /\ (n = 11 => v = 2048) /\ (n = 12 => v = 4096)
          /\ (n = 13 => v = 8192) /\ (n = 14 => v = 16384) /\ (n = 15 => v = 32768)
          /\ (n = 16 => v = 65536) /\ (n = 17 => v = 131072) /\ (n = 18 => v = 262144)
          /\ (n = 19 => v = 524288) /\ (n = 20 => v = 1048576)
      BY <2>7, Powers
    <2>10.
          /\ (next = 1 => w = 2) /\ (next = 2 => w = 4) /\ (next = 3 => w = 8)
          /\ (next = 4 => w = 16) /\ (next = 5 => w = 32) /\ (next = 6 => w = 64)
          /\ (next = 7 => w = 128) /\ (next = 8 => w = 256) /\ (next = 9 => w = 512)
          /\ (next = 10 => w = 1024) /\ (next = 11 => w = 2048) /\ (next = 12 => w = 4096)
          /\ (next = 13 => w = 8192) /\ (next = 14 => w = 16384) /\ (next = 15 => w = 32768)
          /\ (next = 16 => w = 65536) /\ (next = 17 => w = 131072) /\ (next = 18 => w = 262144)
          /\ (next = 19 => w = 524288) /\ (next = 20 => w = 1048576)
      BY <2>7, Powers
    <2> HIDE DEF n, v, w, next
    <2>11. v = Bucket402(lock)
      BY <1>2, <2>7, <2>8, <2>9, <2>10, SMTT(60) DEF Bucket402
    <2> QED BY <2>4, <2>6, <2>11, Zenon DEF v, n
  <1> QED BY <1>1, <1>2, SMT

(* DF402 is honest and monotone too, and more than half of the lock time    *)
(* within the range of its buckets.                                         *)
LEMMA Honest402 ==
    ASSUME NEW lock \in Nat
    PROVE  Df402(Encode402(lock)) \in Int /\ Df402(Encode402(lock)) <= lock
  <1>1. Bucket402(lock) \in Int /\ Bucket402(lock) <= lock
    BY SMT DEF Bucket402
  <1> QED BY <1>1, Value402, Zenon

(* df402_minimum_lock_time_ms: a longer lock never gets a smaller bound.    *)
LEMMA Monotone402 ==
    ASSUME NEW a \in Nat, NEW b \in Nat, a <= b
    PROVE  Df402(Encode402(a)) <= Df402(Encode402(b))
  <1>1. Bucket402(a) <= Bucket402(b)
    BY SMT DEF Bucket402
  <1> QED BY <1>1, Value402, Zenon

(* df402_minimum_lock_time_ms: the bound is at least half of the lock time  *)
(* it stands for, from 16 ms to the largest bucket.                         *)
LEMMA Half402 ==
    ASSUME NEW lock \in Nat, NEW g \in 16 .. 2 ^ 18, 2 * g <= lock
    PROVE  Df402(Encode402(lock)) >= g
  <1>1. Bucket402(lock) >= g
    BY SMT DEF Bucket402
  <1> QED BY <1>1, Value402, Zenon

-----------------------------------------------------------------------------
(* Reports *)

(* The lock time read from a report is not larger than the receiver's.      *)
LEMMA HonestReport ==
    ASSUME NEW kind \in 2 .. 7, NEW lock \in Nat, NEW i \in Indicators(kind, lock)
    PROVE  /\ MinimumLockTime(kind, i) \in Int
           /\ MinimumLockTime(kind, i) <= lock
  <1>1. CASE kind \in 2 .. 5
    <2>1. i = Encode402(lock) /\ MinimumLockTime(kind, i) = Df402(i)
      BY <1>1, SMT DEF Indicators, MinimumLockTime
    <2> QED BY <2>1, Honest402, Zenon
  <1>2. CASE kind \in 6 .. 7
    <2>1. i \in {Encode407(lock), Reserved} /\ MinimumLockTime(kind, i) = Df407(i)
      BY <1>2, SMT DEF Indicators, MinimumLockTime
    <2>2. Df407(Reserved) = -1
      BY SMT DEF Df407, Reserved, NoMin
    <2>3. Df407(Encode407(lock)) \in 0 .. lock
      BY Honest407
    <2> QED BY <2>1, <2>2, <2>3, SMT
  <1> QED BY <1>1, <1>2, SMT

(* Day of week and time of day make the time of week.                       *)
LEMMA TimeOfWeek ==
    ASSUME NEW s \in Nat, NEW d, NEW m, d = (s \div 86400000) % 7, m = s % 86400000
    PROVE  d * 86400000 + m = s % 604800000
  BY SMT

(* Elapsed time modulo a week, of two times of week                         *)
LEMMA WeekElapsed ==
    ASSUME NEW s \in Nat, NEW t \in Nat, NEW p, NEW n,
           p = s % 604800000, n = t % 604800000
    PROVE  /\ (n + 604800000 - (p % 604800000)) % 604800000 \in Nat
           /\ (n + 604800000 - (p % 604800000)) % 604800000 = (t - s) % 604800000
  BY SMT

(* What is right modulo a week is right modulo a day.                       *)
LEMMA DayOfWeek ==
    ASSUME NEW d \in Int
    PROVE  (d % 604800000) % 86400000 = d % 86400000
  BY SMT

(* Times that agree modulo a day or a week are as far from a third one.     *)
LEMMA DayDistance ==
    ASSUME NEW e \in Nat, NEW s \in Nat, NEW t \in Nat, NEW l \in Nat,
           e % 86400000 = (t - s) % 86400000, l % 86400000 = s % 86400000,
           l <= t, t - l < 86400000
    PROVE  e >= t - l
  <1>1. (t - l) % 86400000 = t - l
    BY SMT
  <1>2. (t - l) % 86400000 = (t - s) % 86400000
    BY SMT
  <1>3. e % 86400000 <= e
    BY SMT
  <1> QED BY <1>1, <1>2, <1>3, SMT

(* modulo_elapsed_ms over a week: an elapsed time that is right modulo the  *)
(* week is no less than a distance shorter than the week.                   *)
LEMMA WeekDistance ==
    ASSUME NEW e \in Nat, NEW s \in Nat, NEW t \in Nat, NEW l \in Nat,
           e % 604800000 = (t - s) % 604800000, l % 604800000 = s % 604800000,
           l <= t, t - l < 604800000
    PROVE  e >= t - l
  <1>1. (t - l) % 604800000 = t - l
    BY SMT
  <1>2. (t - l) % 604800000 = (t - s) % 604800000
    BY SMT
  <1>3. e % 604800000 <= e
    BY SMT
  <1> QED BY <1>1, <1>2, <1>3, SMT

(* Time elapsed between two epochs is right modulo the modulus of the cell. *)
LEMMA ElapsedModulo ==
    ASSUME NEW c, NEW s \in Nat, NEW t \in Nat,
           NEW p \in RawEpochs({c}, s), NEW n \in RawEpochs({c}, t)
    PROVE  /\ EpochDt(c, p, n) \in Nat
           /\ EpochDt(c, p, n) % Modulus(c) = (t - s) % Modulus(c)
  <1>1. CASE c \in Glonass
    <2>1. /\ p.day = (s \div 86400000) % 7 \/ p.day = 7
          /\ n.day = (t \div 86400000) % 7 \/ n.day = 7
          /\ p.ms = s % 86400000 /\ n.ms = t % 86400000
      BY <1>1, SMT DEF RawEpochs, DAY_MS, GLONASS_DAY_UNKNOWN
    <2>2. CASE p.day = 7 \/ n.day = 7
      <3>1. EpochDt(c, p, n) = (n.ms + 86400000 - (p.ms % 86400000)) % 86400000
        BY <1>1, <2>2, SMT DEF EpochDt, ModuloElapsed, DAY_MS, GLONASS_DAY_UNKNOWN
      <3> QED BY <1>1, <2>1, <3>1, SMT DEF Modulus, DAY_MS
    <2>3. CASE p.day # 7 /\ n.day # 7
      <3> DEFINE a == p.day * 86400000 + p.ms
                 b == n.day * 86400000 + n.ms
      <3>1. EpochDt(c, p, n) = (b + 604800000 - (a % 604800000)) % 604800000
        BY <1>1, <2>3, SMT DEF EpochDt, ModuloElapsed, DAY_MS, WEEK_MS, GLONASS_DAY_UNKNOWN
      <3>2. a = s % 604800000
        BY <2>1, <2>3, TimeOfWeek, SMT
      <3>3. b = t % 604800000
        BY <2>1, <2>3, TimeOfWeek, SMT
      <3> HIDE DEF a, b
      <3>4. EpochDt(c, p, n) \in Nat /\ EpochDt(c, p, n) = (t - s) % 604800000
        BY <3>1, <3>2, <3>3, WeekElapsed, SMT
      <3> QED BY <1>1, <3>4, DayOfWeek, SMT DEF Modulus, DAY_MS
    <2> QED BY <2>2, <2>3, Zenon
  <1>2. CASE c \notin Glonass
    <2>1. p.ms = s % 604800000 /\ n.ms = t % 604800000
      BY <1>2, SMT DEF RawEpochs, WEEK_MS
    <2>2. EpochDt(c, p, n) = (n.ms + 604800000 - (p.ms % 604800000)) % 604800000
      BY <1>2, SMT DEF EpochDt, ModuloElapsed, WEEK_MS
    <2> QED BY <1>2, <2>1, <2>2, SMT DEF Modulus, WEEK_MS
  <1> QED BY <1>1, <1>2, Zenon

(* So it is at least the distance, when that is below the modulus.          *)
LEMMA ElapsedAtLeast ==
    ASSUME NEW c, NEW s \in Nat, NEW t \in Nat, NEW l \in Nat,
           NEW p \in RawEpochs({c}, s), NEW n \in RawEpochs({c}, t),
           l % Modulus(c) = s % Modulus(c), l <= t, t - l < Modulus(c)
    PROVE  EpochDt(c, p, n) >= t - l
  <1> DEFINE e == EpochDt(c, p, n)
  <1>1. e \in Nat /\ e % Modulus(c) = (t - s) % Modulus(c)
    BY ElapsedModulo
  <1> HIDE DEF e
  <1>2. Modulus(c) = 86400000 \/ Modulus(c) = 604800000
    BY SMT DEF Modulus, DAY_MS, WEEK_MS
  <1>3. Modulus(c) = 86400000 => e >= t - l
    BY <1>1, DayDistance, SMT
  <1>4. Modulus(c) = 604800000 => e >= t - l
    BY <1>1, WeekDistance, SMT
  <1>5. e >= t - l
    BY <1>2, <1>3, <1>4, SMT
  <1> QED BY <1>5 DEF e

(* Two epochs without time between them agree modulo that.                  *)
LEMMA SameEpoch ==
    ASSUME NEW c, NEW s \in Nat, NEW t \in Nat,
           NEW p \in RawEpochs({c}, s), NEW n \in RawEpochs({c}, t),
           EpochDt(c, p, n) = 0
    PROVE  t % Modulus(c) = s % Modulus(c)
  <1>1. 0 % Modulus(c) = (t - s) % Modulus(c)
    BY ElapsedModulo, SMT
  <1>2. Modulus(c) = 86400000 \/ Modulus(c) = 604800000
    BY SMT DEF Modulus, DAY_MS, WEEK_MS
  <1>3. CASE Modulus(c) = 86400000
    BY <1>1, <1>3, SMT
  <1>4. CASE Modulus(c) = 604800000
    BY <1>1, <1>4, SMT
  <1> QED BY <1>2, <1>3, <1>4, SMT

(* Less than a day is told exactly.                                         *)
LEMMA ElapsedExact ==
    ASSUME NEW c, NEW s \in Nat, NEW t \in Nat, s <= t, t - s < DAY_MS,
           NEW p \in RawEpochs({c}, s), NEW n \in RawEpochs({c}, t)
    PROVE  EpochDt(c, p, n) = t - s
  <1>0. (t - s) % 604800000 = t - s /\ t - s < 86400000
    BY SMT DEF DAY_MS
  <1>1. CASE c \in Glonass
    <2>1. /\ p.day = (s \div 86400000) % 7 \/ p.day = 7
          /\ n.day = (t \div 86400000) % 7 \/ n.day = 7
          /\ p.ms = s % 86400000 /\ n.ms = t % 86400000
      BY <1>1, SMT DEF RawEpochs, DAY_MS, GLONASS_DAY_UNKNOWN
    <2>2. CASE p.day = 7 \/ n.day = 7
      <3>1. EpochDt(c, p, n) = (n.ms + 86400000 - (p.ms % 86400000)) % 86400000
        BY <1>1, <2>2, SMT DEF EpochDt, ModuloElapsed, DAY_MS, GLONASS_DAY_UNKNOWN
      <3> QED BY <1>0, <2>1, <3>1, SMT
    <2>3. CASE p.day # 7 /\ n.day # 7
      <3> DEFINE a == p.day * 86400000 + p.ms
                 b == n.day * 86400000 + n.ms
      <3>1. EpochDt(c, p, n) = (b + 604800000 - (a % 604800000)) % 604800000
        BY <1>1, <2>3, SMT DEF EpochDt, ModuloElapsed, DAY_MS, WEEK_MS, GLONASS_DAY_UNKNOWN
      <3>2. a = s % 604800000
        BY <2>1, <2>3, TimeOfWeek, SMT
      <3>3. b = t % 604800000
        BY <2>1, <2>3, TimeOfWeek, SMT
      <3> HIDE DEF a, b
      <3>4. EpochDt(c, p, n) = (t - s) % 604800000
        BY <3>1, <3>2, <3>3, WeekElapsed, SMT
      <3> QED BY <1>0, <3>4, SMT
    <2> QED BY <2>2, <2>3, Zenon
  <1>2. CASE c \notin Glonass
    <2>1. p.ms = s % 604800000 /\ n.ms = t % 604800000
      BY <1>2, SMT DEF RawEpochs, WEEK_MS
    <2>2. EpochDt(c, p, n) = (n.ms + 604800000 - (p.ms % 604800000)) % 604800000
      BY <1>2, SMT DEF EpochDt, ModuloElapsed, WEEK_MS
    <2>3. EpochDt(c, p, n) = (t - s) % 604800000
      BY <2>1, <2>2, WeekElapsed, SMT
    <2> QED BY <1>0, <2>3, SMT
  <1> QED BY <1>1, <1>2, Zenon

(* Of two reports of the same resolution the one with the longer lock       *)
(* claims at least as much ...                                              *)
LEMMA LongerLock ==
    ASSUME NEW k \in 2 .. 7, NEW l \in 2 .. 7, SameTable(k, l),
           NEW a \in Nat, NEW b \in Nat, a <= b,
           NEW i \in Indicators(k, a), NEW j \in Indicators(l, b),
           MinimumLockTime(l, j) # NoMin
    PROVE  MinimumLockTime(k, i) <= MinimumLockTime(l, j)
  <1>1. CASE k \in 2 .. 5
    <2>1. l \in 2 .. 5
      BY <1>1 DEF SameTable
    <2>2. /\ i = Encode402(a) /\ MinimumLockTime(k, i) = Df402(i)
          /\ j = Encode402(b) /\ MinimumLockTime(l, j) = Df402(j)
      BY <1>1, <2>1, SMT DEF Indicators, MinimumLockTime
    <2> QED BY <2>2, Monotone402, Zenon
  <1>2. CASE k \in 6 .. 7
    <2>1. l \in 6 .. 7
      BY <1>2, SMT DEF SameTable
    <2>2. /\ i \in {Encode407(a), Reserved} /\ MinimumLockTime(k, i) = Df407(i)
          /\ j \in {Encode407(b), Reserved} /\ MinimumLockTime(l, j) = Df407(j)
      BY <1>2, <2>1, SMT DEF Indicators, MinimumLockTime
    <2>3. Df407(Reserved) = -1 /\ NoMin = -1
      BY SMT DEF Df407, Reserved, NoMin
    <2>4. j = Encode407(b) /\ Df407(Encode407(b)) \in 0 .. b
      BY <2>2, <2>3, Honest407, Zenon
    <2>5. Df407(Encode407(a)) <= Df407(Encode407(b))
      BY Monotone407
    <2>6. CASE i = Encode407(a)
      BY <2>2, <2>4, <2>5, <2>6, Zenon
    <2>7. CASE i = Reserved
      BY <2>2, <2>3, <2>4, <2>7, SMT
    <2> QED BY <2>2, <2>6, <2>7, Zenon
  <1> QED BY <1>1, <1>2, SMT

(* ... and each claims half of its lock, as far as both tables reach.       *)
LEMMA HalfLock ==
    ASSUME NEW kind \in 2 .. 7, NEW lock \in Nat, NEW i \in Indicators(kind, lock),
           NEW g \in 16 .. 2 ^ 18, 2 * g <= lock, MinimumLockTime(kind, i) # NoMin
    PROVE  MinimumLockTime(kind, i) >= g
  <1>1. CASE kind \in 2 .. 5
    <2>1. i = Encode402(lock) /\ MinimumLockTime(kind, i) = Df402(i)
      BY <1>1, SMT DEF Indicators, MinimumLockTime
    <2> QED BY <2>1, Half402
  <1>2. CASE kind \in 6 .. 7
    <2>1. i \in {Encode407(lock), Reserved} /\ MinimumLockTime(kind, i) = Df407(i)
      BY <1>2, SMT DEF Indicators, MinimumLockTime
    <2>2. Df407(Reserved) = NoMin
      BY SMT DEF Df407, Reserved, NoMin
    <2>3. i = Encode407(lock)
      BY <2>1, <2>2, Zenon
    <2>4. g \in 0 .. 2 ^ 18
      BY SMT
    <2> QED BY <2>1, <2>3, <2>4, Half407
  <1> QED BY <1>1, <1>2, SMT

-----------------------------------------------------------------------------
(* The inductive invariant: every report is an honest one of its epoch.     *)
ReportOK(m) ==
    /\ m.kind \in Kinds
    /\ m.at \in 0 .. now
    /\ DOMAIN m.signals \in SUBSET Cells
    /\ m.raw \in RawEpochs(DOMAIN m.signals, m.at)
    /\ DOMAIN m.signals \subseteq Glonass \/ DOMAIN m.signals \subseteq Others
    /\ \A c \in DOMAIN m.signals :
         /\ m.since[c] \in 0 .. m.at
         /\ m.signals[c] \in Indicators(m.kind, m.at - m.since[c])

IInv == TypeOK /\ (\A m \in link : ReportOK(m)) /\ NoMissedSlip

(* A report of one system has the epoch of each of its cells.               *)
LEMMA EpochOfCell ==
    ASSUME NEW cs, NEW c \in cs, cs \subseteq Glonass \/ cs \subseteq Others, NEW t
    PROVE  RawEpochs(cs, t) = RawEpochs({c}, t)
  BY LockTimeAssumption, Zenon DEF RawEpochs

(* The invariant holds of a receiver with a fresh tracker.                  *)
LEMMA InitInv == Init => IInv
  <1> SUFFICES ASSUME Init PROVE IInv
    OBVIOUS
  <1>1. PICK cs \in Tracked : since = [c \in cs |-> 0]
    BY DEF Init
  <1>2. now \in Nat
    BY LockTimeAssumption DEF Init
  <1>3. TypeOK
    BY <1>1, <1>2 DEF Init, TypeOK, Cells
  <1> QED BY <1>3 DEF Init, IInv, NoMissedSlip

(* What an observed report says of a cell                                   *)
LEMMA ObservedReport ==
    ASSUME IInv, NEW m \in link, NEW c \in Observed(m)
    PROVE  /\ m.kind \in Kinds \ {1} /\ m.kind \in 2 .. 7
           /\ c \in Cells
           /\ m.at \in 0 .. now /\ m.at \in Nat
           /\ m.since[c] \in 0 .. m.at
           /\ m.raw \in RawEpochs({c}, m.at)
           /\ Min(c, m) \in Int /\ Min(c, m) <= m.at - m.since[c]
  <1>1. ReportOK(m) /\ m.kind # 1 /\ c \in DOMAIN m.signals /\ now \in Nat
    BY DEF IInv, TypeOK, Observed
  <1>2. m.kind \in 2 .. 7 /\ m.kind \in Kinds \ {1}
    <2>1. m.kind \in Kinds \ {1} /\ m.kind \in 1 .. 7 /\ m.kind # 1
      BY <1>1, LockTimeAssumption, Zenon DEF ReportOK
    <2> QED BY <2>1, SMT
  <1>3. m.at \in 0 .. now /\ m.since[c] \in 0 .. m.at /\ m.at - m.since[c] \in Nat
    BY <1>1, SMT DEF ReportOK
  <1>4. m.raw \in RawEpochs({c}, m.at)
    <2> DEFINE cs == DOMAIN m.signals
    <2>1. c \in cs /\ (cs \subseteq Glonass \/ cs \subseteq Others)
          /\ m.raw \in RawEpochs(cs, m.at)
      BY <1>1, Zenon DEF ReportOK
    <2> HIDE DEF cs
    <2> QED BY <2>1, EpochOfCell, Zenon
  <1>5. m.signals[c] \in Indicators(m.kind, m.at - m.since[c])
    BY <1>1, Zenon DEF ReportOK
  <1>6. Min(c, m) \in Int /\ Min(c, m) <= m.at - m.since[c]
    BY <1>2, <1>3, <1>5, HonestReport, Zenon DEF Min
  <1> QED BY <1>1, <1>2, <1>3, <1>4, <1>6, SMT DEF ReportOK

(* observe misses no slip.                                                  *)
LEMMA ObserveReports ==
    ASSUME IInv, NEW m \in link, Observe(m)
    PROVE  NoMissedSlip'
  <1> SUFFICES ASSUME NEW o \in out',
                      o.prev.last < o.since, o.at - o.prev.last < Modulus(o.cell)
               PROVE  o.loss
    BY Zenon DEF NoMissedSlip
  <1>0. PICK c \in Observed(m) \cap DOMAIN cells :
          o = [cell |-> c, at |-> m.at, since |-> m.since[c], kind |-> m.kind,
               min |-> Min(c, m), prev |-> seen[c],
               loss |-> DeriveLli(cells[c].min, Elapsed(c, m), Min(c, m))]
    BY Zenon DEF Observe
  <1>1. /\ m.at \in Nat /\ m.since[c] \in 0 .. m.at /\ m.raw \in RawEpochs({c}, m.at)
        /\ Min(c, m) \in Int /\ Min(c, m) <= m.at - m.since[c]
    BY ObservedReport
  <1>2. /\ seen[c].at \in Nat /\ seen[c].last \in Nat
        /\ cells[c].raw \in RawEpochs({c}, seen[c].at)
        /\ seen[c].last % Modulus(c) = seen[c].at % Modulus(c)
    <2>1. /\ seen[c] \in [at : 0 .. now, kind : Kinds \ {1}, last : 0 .. now]
          /\ cells[c].raw \in RawEpochs({c}, seen[c].at)
          /\ seen[c].last % Modulus(c) = seen[c].at % Modulus(c)
          /\ now \in Nat
      BY Zenon DEF IInv, TypeOK
    <2> QED BY <2>1, SMT
  <1>3. /\ seen[c].last <= m.at /\ seen[c].last < m.since[c]
        /\ m.at - seen[c].last < Modulus(c)
    BY <1>0, <1>1, <1>2, SMT
  <1>4. Elapsed(c, m) >= m.at - seen[c].last
    BY <1>1, <1>2, <1>3, ElapsedAtLeast, Zenon DEF Elapsed
  <1>5. Elapsed(c, m) \in Nat
    BY <1>1, <1>2, ElapsedModulo, Zenon DEF Elapsed
  <1>6. Min(c, m) < Elapsed(c, m)
    BY <1>1, <1>2, <1>3, <1>4, <1>5, SMT
  <1> QED BY <1>0, <1>6, Zenon DEF DeriveLli

(* observe keeps the state that of an epoch observed.                       *)
LEMMA ObserveTyped ==
    ASSUME IInv, NEW m \in link, Observe(m)
    PROVE  TypeOK'
  <1> DEFINE new == {c \in Observed(m) : Advances(c, m)}
  <1>1. UNCHANGED <<now, since>> /\ Cells' = Cells
    BY Zenon DEF Observe, Cells
  <1>2. /\ DOMAIN cells' = DOMAIN cells \cup new
        /\ DOMAIN seen' = DOMAIN seen \cup new
        /\ \A c \in DOMAIN cells \cup new :
             cells'[c] = IF c \in new THEN [raw |-> m.raw, min |-> Min(c, m)] ELSE cells[c]
        /\ \A c \in DOMAIN seen \cup new :
             seen'[c] = IF c \in new THEN [at |-> m.at, kind |-> m.kind, last |-> m.at]
                        ELSE IF c \in Observed(m) THEN [seen[c] EXCEPT !.last = m.at]
                        ELSE seen[c]
    BY Zenon DEF Observe
  <1>3. new \subseteq Cells
    BY ObservedReport
  <1>4. ASSUME NEW c \in DOMAIN cells'
        PROVE  /\ seen'[c] \in [at : 0 .. now, kind : Kinds \ {1}, last : 0 .. now]
               /\ cells'[c].raw \in RawEpochs({c}, seen'[c].at)
               /\ cells'[c].min \in Int
               /\ seen'[c].last % Modulus(c) = seen'[c].at % Modulus(c)
    <2>1. CASE c \in new
      <3>1. /\ cells'[c] = [raw |-> m.raw, min |-> Min(c, m)]
            /\ seen'[c] = [at |-> m.at, kind |-> m.kind, last |-> m.at]
        BY <1>2, <2>1, Zenon
      <3>2. /\ m.kind \in Kinds \ {1} /\ m.at \in 0 .. now
            /\ m.raw \in RawEpochs({c}, m.at) /\ Min(c, m) \in Int
        BY <2>1, ObservedReport
      <3> QED BY <3>1, <3>2
    <2>2. CASE c \notin new /\ c \in Observed(m)
      <3> DEFINE o == seen[c]
      <3>1. c \in DOMAIN cells /\ c \in DOMAIN seen
        BY <1>2, <2>2, Zenon DEF IInv, TypeOK
      <3>2. cells'[c] = cells[c] /\ seen'[c] = [o EXCEPT !.last = m.at]
        BY <1>2, <2>2, <3>1, Zenon
      <3>3. /\ o \in [at : 0 .. now, kind : Kinds \ {1}, last : 0 .. now]
            /\ cells[c].raw \in RawEpochs({c}, o.at) /\ cells[c].min \in Int
            /\ now \in Nat
        BY <3>1, Zenon DEF IInv, TypeOK
      <3>4. m.at \in 0 .. now /\ m.at \in Nat /\ m.raw \in RawEpochs({c}, m.at)
        BY <2>2, ObservedReport
      <3>5. EpochDt(c, cells[c].raw, m.raw) = 0
        BY <2>2, <3>1, Zenon DEF Advances, Elapsed
      <3>6. m.at % Modulus(c) = o.at % Modulus(c)
        <4>1. o.at \in Nat
          BY <3>3, SMT
        <4> QED BY <3>3, <3>4, <3>5, <4>1, SameEpoch, Zenon
      <3> HIDE DEF o
      <3>7. /\ seen'[c].last = m.at /\ seen'[c].at = o.at
            /\ seen'[c] \in [at : 0 .. now, kind : Kinds \ {1}, last : 0 .. now]
        BY <3>2, <3>3, <3>4
      <3> QED BY <3>2, <3>3, <3>6, <3>7, Zenon
    <2>3. CASE c \notin Observed(m)
      <3>1. c \in DOMAIN cells /\ c \in DOMAIN seen /\ c \notin new
        BY <1>2, <2>3, Zenon DEF IInv, TypeOK
      <3>2. cells'[c] = cells[c] /\ seen'[c] = seen[c]
        BY <1>2, <2>3, <3>1, Zenon
      <3> QED BY <3>1, <3>2, Zenon DEF IInv, TypeOK
    <2> QED BY <2>1, <2>2, <2>3, Zenon
  <1> HIDE DEF new
  <1>5. DOMAIN cells' = DOMAIN seen' /\ DOMAIN cells' \subseteq Cells
    BY <1>2, <1>3, Zenon DEF IInv, TypeOK
  <1>6. now \in Nat /\ Cells \in Tracked /\ since \in [Cells -> 0 .. now]
    BY Zenon DEF IInv, TypeOK
  <1>7. Cells' \in Tracked /\ since' \in [Cells' -> 0 .. now'] /\ now' \in Nat
    BY <1>1, <1>6, Zenon
  <1> QED BY <1>1, <1>4, <1>5, <1>7, Zenon DEF TypeOK, Modulus, RawEpochs

(* Every step of the receiver, the link or the tracker keeps the invariant. *)
LEMMA StepInv ==
    ASSUME IInv, [Next]_vars
    PROVE  IInv'
  <1>1. ASSUME NEW d \in Steps, NEW slipped \in SUBSET Cells, Advance(d, slipped)
        PROVE  IInv'
    <2>1. PICK s \in {now + 1, now + d} :
            since' = [c \in Cells |-> IF c \in slipped THEN s ELSE since[c]]
      BY <1>1, Zenon DEF Advance
    <2>2. /\ now \in Nat /\ d \in Nat \ {0} /\ now' = now + d
          /\ out' = {} /\ link' = link /\ cells' = cells /\ seen' = seen
      BY <1>1, LockTimeAssumption DEF Advance, IInv, TypeOK
    <2>3. now' \in Nat /\ now <= now' /\ s \in 0 .. now'
      BY <2>2, SMT
    <2>4. 0 .. now \subseteq 0 .. now'
      BY <2>2, <2>3, SMT
    <2>5. Cells' = Cells
      BY <2>1, Zenon DEF Cells
    <2>6. since' \in [Cells' -> 0 .. now']
      BY <2>1, <2>3, <2>4, <2>5 DEF IInv, TypeOK
    <2>7. TypeOK'
      <3>1. ASSUME NEW c \in DOMAIN cells
            PROVE  /\ seen[c] \in [at : 0 .. now', kind : Kinds \ {1}, last : 0 .. now']
                   /\ cells[c].raw \in RawEpochs({c}, seen[c].at)
                   /\ cells[c].min \in Int
                   /\ seen[c].last % Modulus(c) = seen[c].at % Modulus(c)
        <4>1. seen[c] \in [at : 0 .. now, kind : Kinds \ {1}, last : 0 .. now]
          BY Zenon DEF IInv, TypeOK
        <4>2. seen[c] \in [at : 0 .. now', kind : Kinds \ {1}, last : 0 .. now']
          BY <2>4, <4>1
        <4> QED BY <4>2, Zenon DEF IInv, TypeOK
      <3>2. DOMAIN cells = DOMAIN seen /\ DOMAIN cells \subseteq Cells /\ Cells \in Tracked
        BY Zenon DEF IInv, TypeOK
      <3> QED BY <2>2, <2>3, <2>5, <2>6, <3>1, <3>2, Zenon DEF TypeOK
    <2>8. ASSUME NEW m \in link PROVE ReportOK(m)'
      <3>1. ReportOK(m)
        BY DEF IInv
      <3>2. m.at \in 0 .. now'
        BY <2>4, <3>1, Zenon DEF ReportOK
      <3> QED BY <2>5, <3>1, <3>2, Zenon DEF ReportOK
    <2> QED BY <2>2, <2>7, <2>8, Zenon DEF IInv, NoMissedSlip
  <1>2. ASSUME NEW cs \in SUBSET Cells \ {{}}, NEW kind \in Kinds, Send(cs, kind)
        PROVE  IInv'
    <2>1. /\ now' = now /\ since' = since /\ cells' = cells /\ seen' = seen /\ out' = {}
          /\ Cells' = Cells /\ now \in Nat
      BY <1>2, Zenon DEF Send, Cells, IInv, TypeOK
    <2>2. PICK raw \in RawEpochs(cs, now),
               i \in [cs -> UNION {Indicators(kind, now - since[c]) : c \in cs}] :
            /\ \A c \in cs : i[c] \in Indicators(kind, now - since[c])
            /\ link' = link \cup {[kind |-> kind, raw |-> raw, signals |-> i,
                                   at |-> now, since |-> [c \in cs |-> since[c]]]}
      BY <1>2, Zenon DEF Send
    <2> DEFINE new == [kind |-> kind, raw |-> raw, signals |-> i,
                       at |-> now, since |-> [c \in cs |-> since[c]]]
    <2>3. /\ new.kind = kind /\ new.raw = raw /\ new.signals = i /\ new.at = now
          /\ new.since = [c \in cs |-> since[c]]
          /\ DOMAIN i = cs
      OBVIOUS
    <2>4. link' = link \cup {new}
      BY <2>2
    <2> HIDE DEF new
    <2>5. ReportOK(new)
      <3>1. cs \subseteq Glonass \/ cs \subseteq Others
        BY <1>2, Zenon DEF Send
      <3>2. now \in 0 .. now
        BY <2>1, SMT
      <3>3. \A c \in cs : new.since[c] = since[c] /\ since[c] \in 0 .. now
        BY <2>3, Zenon DEF IInv, TypeOK
      <3> QED BY <2>2, <2>3, <3>1, <3>2, <3>3, Zenon DEF ReportOK
    <2>6. \A m \in link' : ReportOK(m)'
      <3>1. \A m \in link' : ReportOK(m)
        BY <2>4, <2>5, Zenon DEF IInv
      <3> QED BY <2>1, <3>1, Zenon DEF ReportOK
    <2>7. TypeOK'
      BY <2>1, Zenon DEF IInv, TypeOK
    <2> QED BY <2>1, <2>6, <2>7, Zenon DEF IInv, NoMissedSlip
  <1>3. ASSUME NEW m \in link, Observe(m)
        PROVE  IInv'
    <2>1. TypeOK' /\ NoMissedSlip'
      BY <1>3, ObserveTyped, ObserveReports
    <2>2. now' = now /\ link' = link /\ Cells' = Cells
      BY <1>3, Zenon DEF Observe, Cells
    <2>3. \A r \in link' : ReportOK(r)'
      BY <2>2, Zenon DEF IInv, ReportOK
    <2> QED BY <2>1, <2>3, Zenon DEF IInv
  <1>4. CASE Reset
    <2>1. /\ now' = now /\ since' = since /\ link' = link /\ Cells' = Cells
          /\ cells' = <<>> /\ seen' = <<>> /\ out' = {}
      BY <1>4, Zenon DEF Reset, Cells
    <2>2. TypeOK'
      BY <2>1 DEF IInv, TypeOK
    <2> QED BY <2>1, <2>2, Zenon DEF IInv, ReportOK, NoMissedSlip
  <1>5. CASE UNCHANGED vars
    BY <1>5, Zenon DEF vars, IInv, TypeOK, ReportOK, NoMissedSlip, Cells
  <1> QED BY <1>1, <1>2, <1>3, <1>4, <1>5 DEF Next

(* The tracker's state is always that of a report whose epoch cannot be     *)
(* told from that of the last report observed, whatever the link does.      *)
THEOREM TypeCorrect == Spec => []TypeOK
  <1>1. IInv => TypeOK
    BY DEF IInv
  <1> QED BY <1>1, InitInv, StepInv, PTL DEF Spec

(* No loss of lock is missed: for any cells, any mix of MSM kinds, any      *)
(* losses, repetitions and delays, observe sets the bit when lock was lost  *)
(* after the last report observed, within a week (GLONASS: a day).          *)
THEOREM SlipReported == Spec => []NoMissedSlip
  <1>1. IInv => NoMissedSlip
    BY DEF IInv
  <1> QED BY <1>1, InitInv, StepInv, PTL DEF Spec

-----------------------------------------------------------------------------
(* No false alarm *)

(* The state of a cell is what a report on the link said of it.             *)
Traced ==
    \A c \in DOMAIN cells : \E m \in link :
        /\ c \in Observed(m)
        /\ m.at = seen[c].at /\ m.kind = seen[c].kind
        /\ cells[c].min = Min(c, m)

(* A lock that is older than a report was already there at that report.     *)
Continuous ==
    \A m \in link : \A c \in DOMAIN m.signals :
        /\ since[c] <= m.at => since[c] <= m.since[c]
        /\ \A n \in link :
             c \in DOMAIN n.signals /\ m.at < n.at /\ n.since[c] <= m.at
               => n.since[c] <= m.since[c]

AlarmInv == IInv /\ Traced /\ Continuous /\ NoFalseAlarm

(* observe raises no alarm when the lock is old enough.                     *)
LEMMA ObserveQuiet ==
    ASSUME AlarmInv, NEW m \in link, Observe(m)
    PROVE  NoFalseAlarm'
  <1> SUFFICES ASSUME NEW o \in out',
                      o.since <= o.prev.at, o.at - o.prev.at \in 16 .. 2 ^ 18,
                      2 * (o.at - o.prev.at) <= o.at - o.since,
                      o.min # NoMin, SameTable(o.kind, o.prev.kind)
               PROVE  ~ o.loss
    BY Zenon DEF NoFalseAlarm
  <1>0. PICK c \in Observed(m) \cap DOMAIN cells :
          o = [cell |-> c, at |-> m.at, since |-> m.since[c], kind |-> m.kind,
               min |-> Min(c, m), prev |-> seen[c],
               loss |-> DeriveLli(cells[c].min, Elapsed(c, m), Min(c, m))]
    BY Zenon DEF Observe
  <1>1. PICK r \in link :
          /\ c \in Observed(r)
          /\ r.at = seen[c].at /\ r.kind = seen[c].kind
          /\ cells[c].min = Min(c, r)
    BY Zenon DEF AlarmInv, Traced
  <1>i. IInv /\ Continuous
    BY DEF AlarmInv
  <1>2. /\ m.at \in Nat /\ m.since[c] \in 0 .. m.at /\ m.raw \in RawEpochs({c}, m.at)
        /\ Min(c, m) \in Int /\ m.kind \in 2 .. 7
    BY <1>i, ObservedReport
  <1>3. /\ r.at \in Nat /\ r.since[c] \in 0 .. r.at /\ r.kind \in 2 .. 7
        /\ Min(c, r) \in Int
    BY <1>i, <1>1, ObservedReport
  <1> DEFINE g == m.at - r.at
  <1>4. /\ m.since[c] <= r.at /\ g \in 16 .. 2 ^ 18 /\ 2 * g <= m.at - m.since[c]
        /\ Min(c, m) # NoMin /\ SameTable(m.kind, r.kind)
        /\ o.loss = DeriveLli(cells[c].min, Elapsed(c, m), Min(c, m))
    BY <1>0, <1>1, Zenon
  <1>5. r.at < m.at /\ m.at - r.at < DAY_MS
    BY <1>2, <1>3, <1>4, SMT DEF DAY_MS
  <1>6. m.since[c] <= r.since[c]
    <2>1. c \in DOMAIN m.signals /\ c \in DOMAIN r.signals
      BY <1>1, Zenon DEF Observed
    <2> QED BY <1>i, <1>4, <1>5, <2>1, Zenon DEF Continuous
  <1> DEFINE a == r.at - r.since[c]
             b == m.at - m.since[c]
  <1>7. a \in Nat /\ b \in Nat /\ a <= b
    BY <1>2, <1>3, <1>5, <1>6, SMT
  <1>8. r.signals[c] \in Indicators(r.kind, a) /\ m.signals[c] \in Indicators(m.kind, b)
    BY <1>i, <1>1, Zenon DEF IInv, ReportOK, Observed
  <1>9. Elapsed(c, m) = g
    <2>1. cells[c].raw \in RawEpochs({c}, r.at)
      BY <1>i, <1>1, Zenon DEF IInv, TypeOK
    <2>2. r.at <= m.at
      BY <1>2, <1>3, <1>5, SMT
    <2> QED BY <1>2, <1>3, <1>5, <2>1, <2>2, ElapsedExact, Zenon DEF Elapsed
  <1> HIDE DEF a, b, g
  <1>10. SameTable(r.kind, m.kind)
    BY <1>4, Zenon DEF SameTable
  <1>11. Min(c, r) <= Min(c, m)
    BY <1>2, <1>3, <1>4, <1>7, <1>8, <1>10, LongerLock, Zenon DEF Min
  <1>12. 2 * g <= b
    BY <1>4 DEF b
  <1>13. Min(c, m) >= g
    BY <1>2, <1>4, <1>7, <1>8, <1>12, HalfLock, Zenon DEF Min
  <1>14. ~ (Min(c, m) < Min(c, r)) /\ ~ (Min(c, m) < g)
    BY <1>2, <1>3, <1>4, <1>11, <1>13, SMT
  <1> QED BY <1>1, <1>4, <1>9, <1>14, Zenon DEF DeriveLli

(* observe takes its state from the report it observes.                     *)
LEMMA ObserveTraced ==
    ASSUME AlarmInv, NEW m \in link, Observe(m)
    PROVE  Traced'
  <1> DEFINE new == {c \in Observed(m) : Advances(c, m)}
  <1>1. /\ DOMAIN cells' = DOMAIN cells \cup new
        /\ \A c \in DOMAIN cells \cup new :
             cells'[c] = IF c \in new THEN [raw |-> m.raw, min |-> Min(c, m)] ELSE cells[c]
        /\ \A c \in DOMAIN seen \cup new :
             seen'[c] = IF c \in new THEN [at |-> m.at, kind |-> m.kind, last |-> m.at]
                        ELSE IF c \in Observed(m) THEN [seen[c] EXCEPT !.last = m.at]
                        ELSE seen[c]
        /\ link' = link
    BY Zenon DEF Observe
  <1>2. DOMAIN cells = DOMAIN seen
    BY Zenon DEF AlarmInv, IInv, TypeOK
  <1> SUFFICES ASSUME NEW c \in DOMAIN cells'
               PROVE  \E r \in link : /\ c \in Observed(r)
                                      /\ r.at = seen'[c].at /\ r.kind = seen'[c].kind
                                      /\ cells'[c].min = Min(c, r)
    BY <1>1, Zenon DEF Traced, Observed, Min
  <1>3. CASE c \in new
    <2>1. /\ cells'[c] = [raw |-> m.raw, min |-> Min(c, m)]
          /\ seen'[c] = [at |-> m.at, kind |-> m.kind, last |-> m.at]
          /\ c \in Observed(m)
      BY <1>1, <1>3, Zenon
    <2>2. cells'[c].min = Min(c, m) /\ seen'[c].at = m.at /\ seen'[c].kind = m.kind
      BY <2>1
    <2> QED BY <2>1, <2>2, Zenon
  <1>4. CASE c \notin new
    <2>1. c \in DOMAIN cells /\ c \in DOMAIN seen
      BY <1>1, <1>2, <1>4, Zenon
    <2>2. cells'[c] = cells[c]
      BY <1>1, <1>4, <2>1, Zenon
    <2>3. seen'[c] = [seen[c] EXCEPT !.last = m.at] \/ seen'[c] = seen[c]
      BY <1>1, <1>4, <2>1, Zenon
    <2>4. seen[c] \in [at : 0 .. now, kind : Kinds \ {1}, last : 0 .. now]
      BY <2>1, Zenon DEF AlarmInv, IInv, TypeOK
    <2>5. seen'[c].at = seen[c].at /\ seen'[c].kind = seen[c].kind
      <3> DEFINE x == seen[c]
                 y == seen'[c]
      <3>1. y = [x EXCEPT !.last = m.at] \/ y = x
        BY <2>3
      <3>2. x \in [at : 0 .. now, kind : Kinds \ {1}, last : 0 .. now]
        BY <2>4
      <3> HIDE DEF x, y
      <3>3. y.at = x.at /\ y.kind = x.kind
        BY <3>1, <3>2
      <3> QED BY <3>3 DEF x, y
    <2>6. PICK r \in link : /\ c \in Observed(r)
                            /\ r.at = seen[c].at /\ r.kind = seen[c].kind
                            /\ cells[c].min = Min(c, r)
      BY <2>1, Zenon DEF AlarmInv, Traced
    <2> QED BY <2>2, <2>5, <2>6, Zenon
  <1> QED BY <1>3, <1>4, Zenon

(* Every step keeps what observed reports say of continuous tracking.       *)
LEMMA StepAlarm ==
    ASSUME AlarmInv, [Next]_vars
    PROVE  AlarmInv'
  <1>i. IInv'
    BY StepInv DEF AlarmInv
  <1>n. now \in Nat /\ since \in [Cells -> 0 .. now]
    BY DEF AlarmInv, IInv, TypeOK
  <1>r. ASSUME NEW m \in link, NEW c \in DOMAIN m.signals
        PROVE  c \in Cells /\ m.at \in 0 .. now /\ m.since[c] \in 0 .. m.at
    BY Zenon DEF AlarmInv, IInv, ReportOK
  <1>1. ASSUME NEW d \in Steps, NEW slipped \in SUBSET Cells, Advance(d, slipped)
        PROVE  AlarmInv'
    <2>1. PICK s \in {now + 1, now + d} :
            since' = [c \in Cells |-> IF c \in slipped THEN s ELSE since[c]]
      BY <1>1, Zenon DEF Advance
    <2>2. out' = {} /\ link' = link /\ cells' = cells /\ seen' = seen
      BY <1>1, Zenon DEF Advance
    <2>3. d \in Nat \ {0}
      BY LockTimeAssumption
    <2>4. ASSUME NEW m \in link, NEW c \in DOMAIN m.signals, since'[c] <= m.at
          PROVE  since'[c] <= m.since[c]
      <3>1. c \in Cells /\ m.at \in 0 .. now
        BY <1>r
      <3>2. since'[c] = IF c \in slipped THEN s ELSE since[c]
        BY <2>1, <3>1, Zenon
      <3>3. c \notin slipped
        BY <1>n, <2>1, <2>3, <2>4, <3>1, <3>2, SMT
      <3> QED BY <2>4, <3>2, <3>3, Zenon DEF AlarmInv, Continuous
    <2>5. Continuous'
      BY <2>2, <2>4, Zenon DEF AlarmInv, Continuous
    <2>6. Traced'
      BY <2>2, Zenon DEF AlarmInv, Traced, Observed, Min
    <2> QED BY <1>i, <2>2, <2>5, <2>6, Zenon DEF AlarmInv, NoFalseAlarm
  <1>2. ASSUME NEW cs \in SUBSET Cells \ {{}}, NEW kind \in Kinds, Send(cs, kind)
        PROVE  AlarmInv'
    <2>1. now' = now /\ since' = since /\ cells' = cells /\ seen' = seen /\ out' = {}
      BY <1>2, Zenon DEF Send
    <2>2. PICK raw \in RawEpochs(cs, now),
               i \in [cs -> UNION {Indicators(kind, now - since[c]) : c \in cs}] :
            link' = link \cup {[kind |-> kind, raw |-> raw, signals |-> i,
                                at |-> now, since |-> [c \in cs |-> since[c]]]}
      BY <1>2, Zenon DEF Send
    <2> DEFINE new == [kind |-> kind, raw |-> raw, signals |-> i,
                       at |-> now, since |-> [c \in cs |-> since[c]]]
    <2>3. /\ new.signals = i /\ new.at = now /\ DOMAIN i = cs
          /\ \A c \in cs : new.since[c] = since[c] /\ since[c] \in 0 .. now
      BY <1>n
    <2>4. link' = link \cup {new}
      BY <2>2
    <2> HIDE DEF new
    <2>5. ASSUME NEW m \in link', NEW c \in DOMAIN m.signals, since[c] <= m.at
          PROVE  since[c] <= m.since[c]
      <3>1. CASE m \in link
        BY <2>5, <3>1, Zenon DEF AlarmInv, Continuous
      <3>2. CASE m = new
        <4>1. m.since[c] = since[c] /\ since[c] \in 0 .. now
          BY <2>3, <3>2, Zenon
        <4> QED BY <1>n, <4>1, SMT
      <3> QED BY <2>4, <3>1, <3>2, Zenon
    <2>6. ASSUME NEW m \in link', NEW c \in DOMAIN m.signals, NEW n \in link',
                 c \in DOMAIN n.signals, m.at < n.at, n.since[c] <= m.at
          PROVE  n.since[c] <= m.since[c]
      <3>1. CASE m \in link /\ n \in link
        BY <2>6, <3>1, Zenon DEF AlarmInv, Continuous
      <3>2. CASE m \in link /\ n = new
        <4>1. n.since[c] = since[c]
          BY <2>3, <2>6, <3>2, Zenon
        <4> QED BY <2>5, <2>6, <4>1, Zenon
      <3>3. CASE m = new
        <4>1. m.at = now
          BY <2>3, <3>3, Zenon
        <4>2. n.at \in 0 .. now
          <5>1. CASE n \in link
            BY <1>r, <2>6, <5>1
          <5>2. CASE n = new
            BY <1>n, <2>3, <5>2
          <5> QED BY <2>4, <5>1, <5>2, Zenon
        <4> QED BY <1>n, <2>6, <4>1, <4>2, SMT
      <3> QED BY <2>4, <3>1, <3>2, <3>3, Zenon
    <2>7. Continuous'
      BY <2>1, <2>5, <2>6, Zenon DEF Continuous
    <2>8. Traced'
      BY <2>1, <2>4, Zenon DEF AlarmInv, Traced, Observed, Min
    <2> QED BY <1>i, <2>1, <2>7, <2>8, Zenon DEF AlarmInv, NoFalseAlarm
  <1>3. ASSUME NEW m \in link, Observe(m)
        PROVE  AlarmInv'
    <2>1. NoFalseAlarm' /\ Traced'
      BY <1>3, ObserveQuiet, ObserveTraced
    <2>2. since' = since /\ link' = link
      BY <1>3, Zenon DEF Observe
    <2>3. Continuous'
      BY <2>2, Zenon DEF AlarmInv, Continuous
    <2> QED BY <1>i, <2>1, <2>3, Zenon DEF AlarmInv
  <1>4. CASE Reset
    <2>1. since' = since /\ link' = link /\ cells' = <<>> /\ out' = {}
      BY <1>4, Zenon DEF Reset
    <2>2. Traced'
      BY <2>1 DEF Traced
    <2> QED BY <1>i, <2>1, <2>2, Zenon DEF AlarmInv, Continuous, NoFalseAlarm
  <1>5. CASE UNCHANGED vars
    <2>1. now' = now /\ since' = since /\ link' = link /\ cells' = cells /\ seen' = seen /\ out' = out
      BY <1>5, Zenon DEF vars
    <2>2. Traced' /\ Continuous'
      BY <2>1, Zenon DEF AlarmInv, Traced, Continuous, Observed, Min
    <2>3. NoFalseAlarm'
      BY <2>1, Zenon DEF AlarmInv, NoFalseAlarm
    <2> QED BY <1>i, <2>2, <2>3, Zenon DEF AlarmInv
  <1> QED BY <1>1, <1>2, <1>3, <1>4, <1>5 DEF Next

(* Continuous tracking is not reported as a loss: for any cells, kinds and  *)
(* gaps, and whatever the link does, the bit is clear once the lock is      *)
(* twice as old as the gap to a report of the same resolution.              *)
THEOREM QuietWhenLocked == Spec => []NoFalseAlarm
  <1>1. Init => AlarmInv
    <2>1. Init => IInv
      BY InitInv
    <2> QED BY <2>1 DEF Init, AlarmInv, Traced, Continuous, NoFalseAlarm
  <1>2. AlarmInv => NoFalseAlarm
    BY DEF AlarmInv
  <1> QED BY <1>1, <1>2, StepAlarm, PTL DEF Spec
=============================================================================
