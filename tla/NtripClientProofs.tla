--------------------------- MODULE NtripClientProofs ---------------------------
(***************************************************************************)
(* What NtripClient.tla keeps between two reads, what it finds in the      *)
(* payload, and that a client is told the same however a response was      *)
(* split, for every script of a caster, every way its responses are split  *)
(* into reads, and every bound.                                            *)
(***************************************************************************)
EXTENDS RtcmReference, NtripMachineProofs

-----------------------------------------------------------------------------
(* The payload of a call *)

(* A payload is added to those before it.                                    *)
Joining(bytes, e) == IF e[1] = "Payload" THEN bytes \o e[2] ELSE bytes
(* PayloadOf, event by event.                                                *)
LEMMA PayloadSteps ==
    ASSUME NEW t \in Seq(Events)
    PROVE  \E f : /\ f[0] = <<>> /\ PayloadOf(t) = f[Len(t)]
                  /\ \A i \in 1..Len(t) : f[i] = Joining(f[i - 1], t[i])
  <1> DEFINE Val(g, s) == IF s = {} THEN <<>> ELSE Joining(g[s \ {Max(s)}], t[Max(s)])
             Good(g, k) == g = [s \in SUBSET (1..k) |-> Val(g, s)]
             S == {k \in Nat : \E g : Good(g, k)}
  <1>1. Len(t) \in Nat /\ DOMAIN t = 1..Len(t) OBVIOUS
  <1>2. 0 \in S
    <2> DEFINE g == [s \in SUBSET (1..0) |-> <<>>]
    <2>1. \A s \in SUBSET (1..0) : s = {} OBVIOUS
    <2>2. \A s \in SUBSET (1..0) : Val(g, s) = <<>> BY <2>1
    <2>3. Good(g, 0) BY <2>2
    <2>4. \E x : Good(x, 0)
      <3> HIDE DEF Good, g
      <3> QED BY <2>3
    <2> QED BY <2>4
  <1>3. ASSUME NEW k \in Nat, k \in S PROVE k + 1 \in S
    <2>1. PICK g : Good(g, k) BY <1>3
    <2> DEFINE h == [s \in SUBSET (1..(k + 1)) |->
                        IF k + 1 \in s THEN Joining(g[s \ {k + 1}], t[k + 1]) ELSE g[s]]
    <2>2. ASSUME NEW s \in SUBSET (1..(k + 1)) PROVE h[s] = Val(h, s)
      <3>1. CASE k + 1 \in s
        <4>1. Max(s) = k + 1
          <5>1. s \subseteq 0..(k + 1) /\ s # {} /\ k + 1 \in Nat BY <3>1
          <5>2. Max(s) \in s /\ \A y \in s : y <= Max(s) BY <5>1, MaxIsGreatest
          <5>3. Max(s) \in 0..(k + 1) BY <5>1, <5>2
          <5>4. k + 1 <= Max(s) BY <3>1, <5>2
          <5> QED BY <5>3, <5>4
        <4>2. s \ {k + 1} \in SUBSET (1..(k + 1)) /\ k + 1 \notin s \ {k + 1} OBVIOUS
        <4>3. h[s \ {k + 1}] = g[s \ {k + 1}] BY <4>2
        <4>4. h[s] = Joining(g[s \ {k + 1}], t[k + 1]) BY <3>1
        <4>5. Val(h, s) = Joining(h[s \ {k + 1}], t[k + 1]) BY <3>1, <4>1
        <4> HIDE DEF h, Val, Good
        <4> QED BY <4>3, <4>4, <4>5
      <3>2. CASE k + 1 \notin s
        <4>1. s \in SUBSET (1..k)
          <5>1. \A x \in s : x \in 1..(k + 1) /\ x # k + 1 BY <3>2
          <5> QED BY <5>1
        <4>2. h[s] = g[s] BY <3>2
        <4>3. g[s] = Val(g, s) BY <2>1, <4>1
        <4>4. CASE s = {} BY <4>2, <4>3, <4>4
        <4>5. CASE s # {}
          <5>1. s \ {Max(s)} \in SUBSET (1..(k + 1)) /\ k + 1 \notin s \ {Max(s)} BY <3>2
          <5>2. h[s \ {Max(s)}] = g[s \ {Max(s)}] BY <5>1
          <5>3. Val(h, s) = Val(g, s) BY <4>5, <5>2
          <5> HIDE DEF h, Val, Good
          <5> QED BY <4>2, <4>3, <5>3
        <4> QED BY <4>4, <4>5
      <3> QED BY <3>1, <3>2
    <2>3. Good(h, k + 1) BY <2>2
    <2> HIDE DEF h, Val, Good
    <2> QED BY <2>3
  <1>4. Len(t) \in S BY <1>1, <1>2, <1>3, SetInduction
  <1> DEFINE g == CHOOSE g : g = [s \in SUBSET (DOMAIN t) |-> Val(g, s)]
             f == [i \in 0..Len(t) |-> g[1..i]]
  <1>5. Good(g, Len(t)) BY <1>1, <1>4
  <1>6. PayloadOf(t) = g[DOMAIN t] BY DEF PayloadOf, Joining, FoldLeft, MapThenFoldSet
  <1> HIDE DEF g
  <1>7. f[Len(t)] = PayloadOf(t) BY <1>1, <1>6
  <1>8. f[0] = <<>>
    <2>1. 1..0 = {} /\ 1..0 \in SUBSET (1..Len(t)) OBVIOUS
    <2> QED BY <1>1, <1>5, <2>1
  <1>9. ASSUME NEW i \in 1..Len(t) PROVE f[i] = Joining(f[i - 1], t[i])
    <2>1. 1..i \in SUBSET (1..Len(t)) /\ i \in 1..i /\ i \in Nat BY <1>1
    <2>2. Max(1..i) = i BY <2>1, MaxUpTo
    <2>3. (1..i) \ {i} = 1..(i - 1) BY <2>1
    <2>4. g[1..i] = Val(g, 1..i) BY <1>5, <2>1
    <2>5. Val(g, 1..i) = Joining(g[1..(i - 1)], t[i]) BY <2>1, <2>2, <2>3
    <2>6. i - 1 \in 0..Len(t) /\ i \in 0..Len(t) BY <1>1
    <2>7. f[i] = g[1..i] /\ f[i - 1] = g[1..(i - 1)] BY <2>6
    <2> QED BY <2>4, <2>5, <2>7
  <1> HIDE DEF f
  <1> QED BY <1>7, <1>8, <1>9

(* The payload of a call is something that was read.                         *)
LEMMA PayloadFacts ==
    ASSUME NEW t \in Seq(Events)
    PROVE  PayloadOf(t) \in Bytes
  <1>1. PICK f : /\ f[0] = <<>> /\ PayloadOf(t) = f[Len(t)]
                 /\ \A i \in 1..Len(t) : f[i] = Joining(f[i - 1], t[i])
    BY PayloadSteps
  <1> DEFINE S == {i \in Nat : i <= Len(t) => f[i] \in Bytes}
  <1>2. Len(t) \in Nat OBVIOUS
  <1>3. 0 \in S BY <1>1, EmptyBytes
  <1>4. ASSUME NEW i \in Nat, i \in S PROVE i + 1 \in S
    <2> SUFFICES ASSUME i + 1 <= Len(t) PROVE f[i + 1] \in Bytes
      OBVIOUS
    <2>1. i <= Len(t) /\ i + 1 \in 1..Len(t) /\ (i + 1) - 1 = i BY <1>2
    <2>2. f[i] \in Bytes BY <1>4, <2>1
    <2>3. t[i + 1] \in Events BY <2>1
    <2>4. f[i + 1] = Joining(f[i], t[i + 1]) BY <1>1, <2>1
    <2>5. CASE t[i + 1][1] = "Payload"
      <3>1. t[i + 1][2] \in Bytes BY <2>3, <2>5 DEF Events, Ends
      <3>2. f[i + 1] = f[i] \o t[i + 1][2] BY <2>4, <2>5 DEF Joining
      <3> QED BY <2>2, <3>1, <3>2, ConcatProperties DEF Bytes
    <2>6. CASE t[i + 1][1] # "Payload" BY <2>2, <2>4, <2>6 DEF Joining
    <2> QED BY <2>5, <2>6
  <1>5. Nat \subseteq S BY <1>3, <1>4, SetInduction
  <1> QED BY <1>1, <1>2, <1>5

-----------------------------------------------------------------------------
(* The assembler *)

Readings == [offset : Nat, body : Bytes, kind : {"error", "departed", "message"}]
AsmType ==
    [buf : Bytes, policy : {"Strict", "Lenient"}, drained : Nat, resync : Nat,
     crcFailures : Nat, out : Seq(Readings), pos : Nat, go : BOOLEAN]
AsmInv(a) == a \in AsmType /\ a.pos <= Len(a.buf)

(* Between two calls: less than a frame is kept.                             *)
AsmRest(a) == AsmInv(a) /\ a.pos = 0 /\ ~ a.go /\ Len(a.buf) < MaxFrame

(* What is ahead of the position.                                            *)
LEMMA AheadFacts ==
    ASSUME NEW a, AsmInv(a)
    PROVE  /\ a.buf \in Bytes /\ Len(a.buf) \in Nat /\ a.pos \in Nat
           /\ Ahead(a) \in Bytes /\ Len(Ahead(a)) = Len(a.buf) - a.pos
           /\ \A i \in 1..(Len(a.buf) - a.pos) : Ahead(a)[i] = a.buf[a.pos + i]
  <1>1. a.buf \in Bytes /\ Len(a.buf) \in Nat /\ a.pos \in Nat /\ a.pos <= Len(a.buf)
    BY DEF AsmInv, AsmType, Bytes
  <1>2. PICK b \in Bytes : b = a.buf BY <1>1
  <1>3. PICK p \in Nat : p = a.pos BY <1>1
  <1>4. PICK k \in Nat : k = Len(b) BY <1>1, <1>2
  <1>5. p <= k BY <1>1, <1>2, <1>3, <1>4
  <1>6. /\ SubSeq(b, p + 1, k) \in Bytes
        /\ Len(SubSeq(b, p + 1, k)) = IF p + 1 <= k THEN k - (p + 1) + 1 ELSE 0
    BY <1>4, PartOfBytes
  <1>7. Len(SubSeq(b, p + 1, k)) = k - p BY <1>5, <1>6
  <1>8. \A i \in 1..(k - p) : SubSeq(b, p + 1, k)[i] = b[p + i]
    <2>1. \A i \in (p + 1)..k : b[i] \in Symbols BY <1>4, ElementOfSeq DEF Bytes
    <2>2. \A i \in 1..(k - (p + 1) + 1) : SubSeq(b, p + 1, k)[i] = b[(p + 1) + i - 1]
      BY <2>1, SubSeqProperties DEF Bytes
    <2>3. \A i \in 1..(k - p) : i \in 1..(k - (p + 1) + 1) /\ (p + 1) + i - 1 = p + i
      BY <1>5
    <2> QED BY <2>2, <2>3
  <1>9. Ahead(a) = SubSeq(b, p + 1, k) BY <1>2, <1>3, <1>4 DEF Ahead
  <1> QED BY <1>1, <1>2, <1>3, <1>4, <1>6, <1>7, <1>8, <1>9

(* Passing over n symbols.                                                   *)
LEMMA SkipFacts ==
    ASSUME NEW a, AsmInv(a), NEW n \in Nat, n <= Len(a.buf) - a.pos
    PROVE  LET b == Skip(a, n)
           IN  AsmInv(b) /\ b.buf = a.buf /\ b.pos = a.pos + n /\ b.go = a.go
  <1> DEFINE b == Skip(a, n)
  <1>1. a \in AsmType /\ Len(a.buf) \in Nat /\ a.pos \in Nat /\ a.resync \in Nat
    BY AheadFacts DEF AsmInv, AsmType
  <1>2. b = [a EXCEPT !.resync = a.resync + n, !.pos = a.pos + n] BY DEF Skip
  <1>3. a.resync + n \in Nat /\ a.pos + n \in Nat /\ a.pos + n <= Len(a.buf) BY <1>1
  <1> HIDE DEF b
  <1>4. b \in AsmType BY <1>1, <1>2, <1>3 DEF AsmType
  <1>5. b.buf = a.buf /\ b.pos = a.pos + n /\ b.go = a.go BY <1>1, <1>2 DEF AsmType
  <1> QED BY <1>3, <1>4, <1>5 DEF AsmInv, b

(* The search stops at a preamble, or at the end of what has arrived.        *)
LEMMA SeekFacts ==
    ASSUME NEW a, AsmInv(a)
    PROVE  LET b == Seek(a)
           IN  /\ AsmInv(b) /\ b.buf = a.buf /\ a.pos <= b.pos
               /\ b.go => a.go /\ Len(Ahead(b)) > 0 /\ Ahead(b)[1] = Preamble
               /\ a.go /\ ~ b.go => Len(Ahead(b)) = 0
  <1> DEFINE b == Seek(a)
             s == Ahead(a)
             I == {i \in 1..Len(s) : s[i] = Preamble}
  <1>1. /\ a.buf \in Bytes /\ Len(a.buf) \in Nat /\ a.pos \in Nat
        /\ s \in Bytes /\ Len(s) = Len(a.buf) - a.pos
        /\ \A i \in 1..(Len(a.buf) - a.pos) : s[i] = a.buf[a.pos + i]
    BY AheadFacts
  <1>2. Len(s) \in Nat BY <1>1 DEF Bytes
  <1>3. PICK rel : rel = SelectInSeq(s, LAMBDA x : x = Preamble) OBVIOUS
  <1>4. b = IF rel = 0 THEN Stop(Skip(a, Len(s))) ELSE Skip(a, rel - 1)
    BY <1>3 DEF Seek
  <1>5. rel = IF I # {} THEN Min(I) ELSE 0 BY <1>3 DEF SelectInSeq
  <1> HIDE DEF s, b
  <1>6. CASE I = {}
    <2> DEFINE c == Skip(a, Len(s))
    <2>1. b = [c EXCEPT !.go = FALSE] BY <1>4, <1>5, <1>6 DEF Stop
    <2>2. AsmInv(c) /\ c.buf = a.buf /\ c.pos = a.pos + Len(s) /\ c.go = a.go
      BY <1>1, <1>2, SkipFacts
    <2> HIDE DEF c
    <2>3. b \in AsmType BY <2>1, <2>2 DEF AsmInv, AsmType
    <2>4. b.buf = c.buf /\ b.pos = c.pos /\ b.go = FALSE BY <2>1, <2>2 DEF AsmInv, AsmType
    <2>5. AsmInv(b) BY <2>2, <2>3, <2>4 DEF AsmInv
    <2>6. Len(Ahead(b)) = Len(b.buf) - b.pos BY <2>5, AheadFacts
    <2>7. b.pos = Len(a.buf) /\ a.pos <= b.pos BY <1>1, <1>2, <2>2, <2>4
    <2>8. Len(Ahead(b)) = 0 BY <1>1, <2>2, <2>4, <2>6, <2>7
    <2> QED BY <2>2, <2>4, <2>5, <2>7, <2>8 DEF b
  <1>7. CASE I # {}
    <2>1. I \subseteq Nat /\ rel = Min(I) BY <1>2, <1>5, <1>7
    <2>2. rel \in 1..Len(s) /\ s[rel] = Preamble BY <1>7, <2>1, MinIsLeast
    <2>3. rel - 1 \in Nat /\ rel - 1 <= Len(a.buf) - a.pos BY <1>1, <1>2, <2>2
    <2>4. b = Skip(a, rel - 1) BY <1>2, <1>4, <2>2
    <2>5. AsmInv(b) /\ b.buf = a.buf /\ b.pos = a.pos + (rel - 1) /\ b.go = a.go
      BY <2>3, <2>4, SkipFacts
    <2>6. /\ Len(Ahead(b)) = Len(b.buf) - b.pos
          /\ \A i \in 1..(Len(b.buf) - b.pos) : Ahead(b)[i] = b.buf[b.pos + i]
      BY <2>5, AheadFacts
    <2>7. /\ Len(b.buf) - b.pos > 0 /\ 1 \in 1..(Len(b.buf) - b.pos)
          /\ b.pos + 1 = a.pos + rel /\ a.pos <= b.pos
          /\ rel \in 1..(Len(a.buf) - a.pos)
      BY <1>1, <1>2, <2>2, <2>5
    <2>8. Ahead(b)[1] = b.buf[b.pos + 1] BY <2>6, <2>7
    <2>9. Ahead(b)[1] = Preamble BY <1>1, <2>2, <2>5, <2>7, <2>8
    <2> QED BY <2>5, <2>6, <2>7, <2>9 DEF b
  <1> QED BY <1>6, <1>7

(* A frame declares its length in its second symbol.                         *)
LEMMA FrameFacts ==
    ASSUME NEW s
    PROVE  FrameLen(s) \in FrameOverhead..MaxFrame /\ FrameOverhead = 3 /\ MaxFrame \in Nat
  <1>1. MaxBodyLen \in Nat /\ MaxBodyLen >= 2 BY AssemblerAssumption
  <1>2. \A x : BodyLen(x) \in 0..MaxBodyLen
    <2> TAKE x
    <2>1. CASE x \in DOMAIN Digit
      <3>1. x \in {"D0", "D1", "D2"} BY <2>1 DEF Digit
      <3>2. Digit[x] \in 0..2 BY <3>1 DEF Digit
      <3>3. BodyLen(x) = Digit[x] BY <2>1 DEF BodyLen
      <3> QED BY <1>1, <3>2, <3>3
    <2>2. CASE x \notin DOMAIN Digit
      <3>1. BodyLen(x) \in {0, 1, MaxBodyLen} BY <2>2 DEF BodyLen
      <3> QED BY <1>1, <3>1
    <2> QED BY <2>1, <2>2
  <1>3. BodyLen(s[2]) \in 0..MaxBodyLen BY <1>2
  <1> QED BY <1>1, <1>3 DEF FrameLen, MaxFrame, FrameOverhead

(* What read_frame says of a whole frame.                                    *)
LEMMA ReadingFacts ==
    ASSUME NEW s \in Bytes, Whole(s), NEW offset \in Nat, NEW policy
    PROVE  Reading(s, offset, policy) \in Readings
  <1>1. PICK n : n = FrameLen(s) OBVIOUS
  <1>2. PICK body : body = SubSeq(s, 3, n - 1) OBVIOUS
  <1>3. body \in Bytes
    <2>1. Len(s) \in Nat /\ Len(s) >= n BY <1>1 DEF Whole, Bytes
    <2>2. n \in Nat /\ n >= 3 BY <1>1, FrameFacts
    <2>3. 3 \in Nat \ {0} /\ n - 1 \in Int /\ n - 1 <= Len(s) BY <2>1, <2>2
    <2> QED BY <1>2, <2>3, PartOfBytes
  <1>4. PICK kind : /\ Reading(s, offset, policy) = [offset |-> offset, body |-> body, kind |-> kind]
                    /\ kind \in {"error", "departed", "message"}
    BY <1>1, <1>2 DEF Reading
  <1> QED BY <1>3, <1>4 DEF Readings

(* decode_frame on a whole frame.                                            *)
LEMMA TakeFrameFacts ==
    ASSUME NEW a, AsmInv(a), Whole(Ahead(a))
    PROVE  LET b == TakeFrame(a)
           IN  AsmInv(b) /\ b.buf = a.buf /\ b.pos > a.pos /\ b.go = a.go
  <1> DEFINE b == TakeFrame(a)
  <1>1. PICK s : s = Ahead(a) OBVIOUS
  <1>2. /\ a \in AsmType /\ a.pos \in Nat /\ Len(a.buf) \in Nat /\ a.drained \in Nat
        /\ s \in Bytes /\ Len(s) = Len(a.buf) - a.pos
    BY <1>1, AheadFacts DEF AsmInv, AsmType
  <1>3. PICK n : n = FrameLen(s) OBVIOUS
  <1>4. n \in Nat /\ n >= 3 /\ n <= Len(s)
    <2>1. FrameLen(s) \in FrameOverhead..MaxFrame /\ FrameOverhead = 3 /\ MaxFrame \in Nat
      BY FrameFacts
    <2>2. Len(s) >= FrameLen(s) BY <1>1 DEF Whole
    <2>3. Len(s) \in Nat BY <1>2 DEF Bytes
    <2> QED BY <1>3, <2>1, <2>2, <2>3
  <1>5. PICK r : r = Reading(s, a.drained + a.pos, a.policy) OBVIOUS
  <1>6. r \in Readings
    <2>1. a.drained + a.pos \in Nat BY <1>2
    <2> QED BY <1>1, <1>2, <1>5, <2>1, ReadingFacts
  <1>7. b = [a EXCEPT !.out = Append(a.out, r), !.pos = a.pos + n]
    BY <1>1, <1>3, <1>5 DEF TakeFrame
  <1> HIDE DEF b
  <1>8. Append(a.out, r) \in Seq(Readings) BY <1>2, <1>6, AppendProperties DEF AsmType
  <1>9. a.pos + n \in Nat /\ a.pos + n <= Len(a.buf) /\ a.pos + n > a.pos BY <1>2, <1>4
  <1>10. b \in AsmType BY <1>2, <1>7, <1>8, <1>9 DEF AsmType
  <1>11. b.buf = a.buf /\ b.pos = a.pos + n /\ b.go = a.go BY <1>2, <1>7 DEF AsmType
  <1> QED BY <1>9, <1>10, <1>11 DEF AsmInv, b

(* A preamble that begins no frame is passed over.                           *)
LEMMA SkipPreambleFacts ==
    ASSUME NEW a, AsmInv(a), Len(Ahead(a)) > 0
    PROVE  LET b == SkipPreamble(a)
           IN  AsmInv(b) /\ b.buf = a.buf /\ b.pos > a.pos /\ b.go = a.go
  <1> DEFINE b == SkipPreamble(a)
             c == Skip(a, 1)
  <1>1. Len(Ahead(a)) = Len(a.buf) - a.pos /\ Len(a.buf) \in Nat /\ a.pos \in Nat BY AheadFacts
  <1>2. 1 \in Nat /\ 1 <= Len(a.buf) - a.pos BY <1>1
  <1>3. AsmInv(c) /\ c.buf = a.buf /\ c.pos = a.pos + 1 /\ c.go = a.go BY <1>2, SkipFacts
  <1>4. b = [c EXCEPT !.crcFailures = c.crcFailures + 1] BY DEF SkipPreamble
  <1> HIDE DEF b, c
  <1>5. c \in AsmType /\ c.crcFailures + 1 \in Nat BY <1>3 DEF AsmInv, AsmType
  <1>6. b \in AsmType BY <1>4, <1>5 DEF AsmType
  <1>7. b.buf = c.buf /\ b.pos = c.pos /\ b.go = c.go BY <1>4, <1>5 DEF AsmType
  <1>8. AsmInv(b) BY <1>3, <1>6, <1>7 DEF AsmInv
  <1> QED BY <1>1, <1>3, <1>7, <1>8 DEF b

(* A round of push advances or stops with less than a frame ahead.           *)
LEMMA RoundFacts ==
    ASSUME NEW a, AsmInv(a), a.go
    PROVE  LET n == PushRound(a)
           IN  /\ AsmInv(n) /\ n.buf = a.buf
               /\ n.go => n.pos > a.pos
               /\ ~ n.go => Len(Ahead(n)) < MaxFrame
  <1> DEFINE n == PushRound(a)
  <1>1. PICK b : b = Seek(a) OBVIOUS
  <1>2. PICK s : s = Ahead(b) OBVIOUS
  <1>3. /\ AsmInv(b) /\ b.buf = a.buf /\ a.pos <= b.pos
        /\ b.go => a.go /\ Len(s) > 0 /\ s[1] = Preamble
        /\ ~ b.go => Len(s) = 0
    BY <1>1, <1>2, SeekFacts
  <1>4. n = IF ~ b.go THEN b
            ELSE IF ~ Whole(s) THEN Stop(b)
            ELSE IF ChecksumHolds(s) THEN TakeFrame(b) ELSE SkipPreamble(b)
    BY <1>1, <1>2 DEF PushRound
  <1> HIDE DEF n
  <1>5. FrameLen(s) \in FrameOverhead..MaxFrame /\ FrameOverhead = 3 /\ MaxFrame \in Nat
    BY FrameFacts
  <1>6. Len(s) \in Nat /\ a.pos \in Nat /\ b.pos \in Nat BY <1>2, <1>3, AheadFacts DEF Bytes
  <1>7. CASE ~ b.go
    <2>1. n = b BY <1>4, <1>7
    <2>2. 0 < MaxFrame BY <1>5
    <2> QED BY <1>2, <1>3, <1>7, <2>1, <2>2 DEF n
  <1>8. CASE b.go /\ ~ Whole(s)
    <2>1. n = [b EXCEPT !.go = FALSE] BY <1>4, <1>8 DEF Stop
    <2>2. n \in AsmType /\ n.buf = b.buf /\ n.pos = b.pos /\ n.go = FALSE
      BY <1>3, <2>1 DEF AsmInv, AsmType
    <2>3. AsmInv(n) BY <1>3, <2>2 DEF AsmInv
    <2>4. Ahead(n) = s BY <1>2, <2>2 DEF Ahead
    <2>5. Len(s) < MaxFrame
      <3>1. ~ (Len(s) >= FrameOverhead) \/ ~ (Len(s) >= FrameLen(s))
        BY <1>3, <1>8 DEF Whole
      <3> QED BY <1>5, <1>6, <3>1
    <2> QED BY <1>3, <2>2, <2>3, <2>4, <2>5 DEF n
  <1>9. CASE b.go /\ Whole(s)
    <2>1. n = TakeFrame(b) \/ n = SkipPreamble(b) BY <1>4, <1>9
    <2>2. AsmInv(n) /\ n.buf = b.buf /\ n.pos > b.pos /\ n.go = b.go
      BY <1>2, <1>3, <1>9, <2>1, TakeFrameFacts, SkipPreambleFacts
    <2>3. n.pos \in Nat BY <2>2, AheadFacts
    <2>4. n.pos > a.pos BY <1>3, <1>6, <2>2, <2>3
    <2> QED BY <1>3, <1>9, <2>2, <2>4 DEF n
  <1> QED BY <1>7, <1>8, <1>9

(* A round of finish advances, or stops with nothing ahead.                  *)
LEMMA FinishRoundFacts ==
    ASSUME NEW a, AsmInv(a)
    PROVE  LET n == FinishRound(a)
           IN  /\ AsmInv(n) /\ n.buf = a.buf
               /\ a.go /\ n.go => n.pos > a.pos
               /\ a.go /\ ~ n.go => Len(Ahead(n)) = 0
  <1> DEFINE n == FinishRound(a)
  <1>1. PICK b : b = Seek(a) OBVIOUS
  <1>2. PICK s : s = Ahead(b) OBVIOUS
  <1>3. /\ AsmInv(b) /\ b.buf = a.buf /\ a.pos <= b.pos
        /\ b.go => Len(s) > 0
        /\ a.go /\ ~ b.go => Len(s) = 0
    BY <1>1, <1>2, SeekFacts
  <1>4. n = IF ~ a.go THEN a ELSE IF ~ b.go THEN b
            ELSE IF IsFrame(s) THEN TakeFrame(b)
            ELSE IF FrameFailsCrc(s) THEN SkipPreamble(b) ELSE Skip(b, 1)
    BY <1>1, <1>2 DEF FinishRound
  <1> HIDE DEF n
  <1>5. CASE ~ a.go /\ n = a BY <1>5 DEF n
  <1>6. CASE a.go /\ ~ b.go /\ n = b BY <1>2, <1>3, <1>6 DEF n
  <1>7. CASE /\ b.go
             /\ \/ n = TakeFrame(b) /\ IsFrame(s)
                \/ n = SkipPreamble(b)
                \/ n = Skip(b, 1)
    <2>1. AsmInv(n) /\ n.buf = b.buf /\ n.pos > b.pos /\ n.go = b.go
      <3>1. CASE n = TakeFrame(b) /\ IsFrame(s)
        <4>1. Whole(Ahead(b)) BY <1>2, <3>1 DEF IsFrame
        <4> QED BY <1>3, <3>1, <4>1, TakeFrameFacts
      <3>2. CASE n = SkipPreamble(b) BY <1>2, <1>3, <1>7, <3>2, SkipPreambleFacts
      <3>3. CASE n = Skip(b, 1)
        <4>1. Len(s) = Len(b.buf) - b.pos /\ Len(b.buf) \in Nat /\ b.pos \in Nat
          BY <1>2, <1>3, AheadFacts
        <4>2. 1 \in Nat /\ 1 <= Len(b.buf) - b.pos /\ b.pos + 1 > b.pos BY <1>3, <1>7, <4>1
        <4>3. AsmInv(n) /\ n.buf = b.buf /\ n.pos = b.pos + 1 /\ n.go = b.go
          BY <1>3, <3>3, <4>2, SkipFacts
        <4> QED BY <4>2, <4>3
      <3> QED BY <1>7, <3>1, <3>2, <3>3
    <2>2. a.pos \in Nat /\ b.pos \in Nat /\ n.pos \in Nat BY <1>3, <2>1, AheadFacts
    <2>3. n.pos > a.pos BY <1>3, <2>1, <2>2
    <2> QED BY <1>3, <1>7, <2>1, <2>3 DEF n
  <1> QED BY <1>4, <1>5, <1>6, <1>7

(* What remains after a call.                                                *)
LEMMA AsmDrainFacts ==
    ASSUME NEW a, AsmInv(a), Len(Ahead(a)) < MaxFrame
    PROVE  AsmRest(Drain(a))
  <1> DEFINE b == Drain(a)
  <1>1. /\ a \in AsmType /\ Ahead(a) \in Bytes /\ Len(Ahead(a)) \in Nat
        /\ a.pos \in Nat /\ a.drained \in Nat
    BY AheadFacts DEF AsmInv, AsmType, Bytes
  <1>2. b = [a EXCEPT !.buf = Ahead(a), !.drained = a.drained + a.pos, !.pos = 0, !.go = FALSE]
    BY DEF Drain
  <1>3. a.drained + a.pos \in Nat BY <1>1
  <1> HIDE DEF b
  <1>4. b \in AsmType BY <1>1, <1>2, <1>3 DEF AsmType
  <1>5. b.buf = Ahead(a) /\ b.pos = 0 /\ b.go = FALSE BY <1>1, <1>2 DEF AsmType
  <1>6. 0 <= Len(Ahead(a)) BY <1>1
  <1> QED BY <1>4, <1>5, <1>6 DEF AsmRest, AsmInv, b

(* The assembler after i rounds of push.                                    *)
AssemblerAfter(a, n) == Iterate(PushRound, a, n)
(* The loop of the assembler's push, unrolled: the states after 0 to N      *)
(* rounds.                                                                  *)
LEMMA AssemblerSteps ==
    ASSUME NEW m, NEW N \in Nat
    PROVE  \E f : /\ f[0] = m /\ f[N] = AssemblerAfter(m, N)
                  /\ \A i \in 1..N : f[i] = PushRound(f[i - 1])
  <1> DEFINE Good(g, k) == g = [i \in 0..k |-> IF i = 0 THEN m ELSE PushRound(g[i - 1])]
             S == {k \in Nat : \E g : Good(g, k)}
  <1>1. 0 \in S
    <2> DEFINE g == [i \in 0..0 |-> m]
    <2>1. Good(g, 0) OBVIOUS
    <2> QED BY <2>1
  <1>2. ASSUME NEW n \in Nat, n \in S PROVE n + 1 \in S
    <2>1. PICK g : Good(g, n) BY <1>2
    <2> DEFINE h == [i \in 0..(n + 1) |-> IF i = n + 1 THEN PushRound(g[n]) ELSE g[i]]
    <2>2. ASSUME NEW i \in 0..(n + 1)
          PROVE  h[i] = IF i = 0 THEN m ELSE PushRound(h[i - 1])
      <3>1. CASE i = n + 1 BY <3>1
      <3>2. CASE i # n + 1
        <4>1. i \in 0..n BY <3>2
        <4>2. g[i] = IF i = 0 THEN m ELSE PushRound(g[i - 1]) BY <2>1, <4>1
        <4>3. h[i] = g[i] BY <3>2
        <4>4. CASE i = 0 BY <4>2, <4>3, <4>4
        <4>5. CASE i # 0
          <5>1. i - 1 \in 0..(n + 1) /\ i - 1 # n + 1 BY <4>1, <4>5
          <5>2. h[i - 1] = g[i - 1] BY <5>1
          <5> QED BY <4>2, <4>3, <4>5, <5>2
        <4> QED BY <4>4, <4>5
      <3> QED BY <3>1, <3>2
    <2>3. Good(h, n + 1) BY <2>2
    <2> HIDE DEF h
    <2> QED BY <2>3
  <1>3. N \in S BY <1>1, <1>2, SetInduction
  <1> DEFINE f == CHOOSE f : Good(f, N)
  <1>4. Good(f, N) BY <1>3
  <1>5. AssemblerAfter(m, N) = f[N] BY DEF AssemblerAfter, Iterate
  <1> HIDE DEF f
  <1>6. f[0] = m BY <1>4
  <1>7. \A i \in 1..N : f[i] = PushRound(f[i - 1]) BY <1>4
  <1> QED BY <1>5, <1>6, <1>7

(* And after i rounds of finish.                                            *)
FinishedAfter(a, n) == Iterate(FinishRound, a, n)
(* The loop of the assembler's finish, unrolled in the same way.            *)
LEMMA FinishSteps ==
    ASSUME NEW m, NEW N \in Nat
    PROVE  \E f : /\ f[0] = m /\ f[N] = FinishedAfter(m, N)
                  /\ \A i \in 1..N : f[i] = FinishRound(f[i - 1])
  <1> DEFINE Good(g, k) == g = [i \in 0..k |-> IF i = 0 THEN m ELSE FinishRound(g[i - 1])]
             S == {k \in Nat : \E g : Good(g, k)}
  <1>1. 0 \in S
    <2> DEFINE g == [i \in 0..0 |-> m]
    <2>1. Good(g, 0) OBVIOUS
    <2> QED BY <2>1
  <1>2. ASSUME NEW n \in Nat, n \in S PROVE n + 1 \in S
    <2>1. PICK g : Good(g, n) BY <1>2
    <2> DEFINE h == [i \in 0..(n + 1) |-> IF i = n + 1 THEN FinishRound(g[n]) ELSE g[i]]
    <2>2. ASSUME NEW i \in 0..(n + 1)
          PROVE  h[i] = IF i = 0 THEN m ELSE FinishRound(h[i - 1])
      <3>1. CASE i = n + 1 BY <3>1
      <3>2. CASE i # n + 1
        <4>1. i \in 0..n BY <3>2
        <4>2. g[i] = IF i = 0 THEN m ELSE FinishRound(g[i - 1]) BY <2>1, <4>1
        <4>3. h[i] = g[i] BY <3>2
        <4>4. CASE i = 0 BY <4>2, <4>3, <4>4
        <4>5. CASE i # 0
          <5>1. i - 1 \in 0..(n + 1) /\ i - 1 # n + 1 BY <4>1, <4>5
          <5>2. h[i - 1] = g[i - 1] BY <5>1
          <5> QED BY <4>2, <4>3, <4>5, <5>2
        <4> QED BY <4>4, <4>5
      <3> QED BY <3>1, <3>2
    <2>3. Good(h, n + 1) BY <2>2
    <2> HIDE DEF h
    <2> QED BY <2>3
  <1>3. N \in S BY <1>1, <1>2, SetInduction
  <1> DEFINE f == CHOOSE f : Good(f, N)
  <1>4. Good(f, N) BY <1>3
  <1>5. FinishedAfter(m, N) = f[N] BY DEF FinishedAfter, Iterate
  <1> HIDE DEF f
  <1>6. f[0] = m BY <1>4
  <1>7. \A i \in 1..N : f[i] = FinishRound(f[i - 1]) BY <1>4
  <1> QED BY <1>5, <1>6, <1>7

(* push of the assembler leaves less than a frame.                           *)
LEMMA AssembleFacts ==
    ASSUME NEW a, AsmRest(a), NEW bytes \in Bytes
    PROVE  AsmRest(Assemble(a, bytes))
  <1> DEFINE L == Len(a.buf \o bytes)
  <1>1. PICK n : n = [a EXCEPT !.buf = a.buf \o bytes, !.go = TRUE] OBVIOUS
  <1>2. a \in AsmType /\ a.buf \in Bytes /\ a.pos = 0
    BY DEF AsmRest, AsmInv, AsmType
  <1>3. a.buf \o bytes \in Bytes /\ L \in Nat BY <1>2, ConcatProperties DEF Bytes
  <1>4. n \in AsmType /\ n.buf = a.buf \o bytes /\ n.pos = 0 /\ n.go = TRUE
    BY <1>1, <1>2, <1>3 DEF AsmType
  <1>5. PICK e : e = AssemblerAfter(n, L + 1) OBVIOUS
  <1>6. Assemble(a, bytes) = Drain(e) BY <1>1, <1>4, <1>5 DEF Assemble, AssemblerAfter
  <1>7. Len(n.buf) = L BY <1>4
  <1> HIDE DEF L
  <1>8. L \in Nat /\ L + 1 \in Nat BY <1>3
  <1>9. AsmInv(n) BY <1>3, <1>4, <1>7 DEF AsmInv
  <1>10. PICK f : /\ f[0] = n /\ f[L + 1] = AssemblerAfter(n, L + 1)
                  /\ \A i \in 1..(L + 1) : f[i] = PushRound(f[i - 1])
    <2>1. \A N \in Nat : \E f : /\ f[0] = n /\ f[N] = AssemblerAfter(n, N)
                                 /\ \A i \in 1..N : f[i] = PushRound(f[i - 1])
      BY AssemblerSteps
    <2> QED BY <1>8, <2>1
  <1> DEFINE Good(x, i) == /\ AsmInv(x) /\ x.buf = n.buf
                           /\ x.go => i <= x.pos
                           /\ ~ x.go => Len(Ahead(x)) < MaxFrame
             S == {i \in Nat : i <= L + 1 => Good(f[i], i)}
  <1>11. 0 \in S
    <2>1. Good(n, 0) BY <1>4, <1>9
    <2> QED BY <1>10, <2>1
  <1>12. ASSUME NEW i \in Nat, i \in S PROVE i + 1 \in S
    <2> SUFFICES ASSUME i + 1 <= L + 1 PROVE Good(f[i + 1], i + 1)
      OBVIOUS
    <2>1. i <= L + 1 /\ i + 1 \in 1..(L + 1) /\ (i + 1) - 1 = i BY <1>8
    <2>2. Good(f[i], i) BY <1>12, <2>1
    <2>3. f[i + 1] = PushRound(f[i]) BY <1>10, <2>1
    <2>4. PICK x : x = f[i] OBVIOUS
    <2>5. PICK y : y = f[i + 1] OBVIOUS
    <2>6. Good(x, i) /\ y = PushRound(x) BY <2>2, <2>3, <2>4, <2>5
    <2>7. CASE x.go
      <3>1. /\ AsmInv(y) /\ y.buf = x.buf
            /\ y.go => y.pos > x.pos
            /\ ~ y.go => Len(Ahead(y)) < MaxFrame
        BY <2>6, <2>7, RoundFacts
      <3>2. x.pos \in Nat /\ y.pos \in Nat BY <2>6, <3>1, AheadFacts
      <3>3. i <= x.pos BY <2>6, <2>7
      <3>4. y.pos > x.pos => i + 1 <= y.pos BY <3>2, <3>3
      <3>5. Good(y, i + 1) BY <2>6, <3>1, <3>4
      <3> QED BY <2>5, <3>5
    <2>8. CASE ~ x.go
      <3>1. y = x BY <2>6, <2>8 DEF PushRound
      <3>2. Good(y, i + 1) BY <2>6, <2>8, <3>1
      <3> QED BY <2>5, <3>2
    <2> QED BY <2>7, <2>8
  <1>13. Nat \subseteq S BY <1>11, <1>12, SetInduction
  <1>14. Good(e, L + 1)
    <2>1. L + 1 \in S /\ L + 1 <= L + 1 BY <1>8, <1>13
    <2>2. Good(f[L + 1], L + 1) BY <2>1
    <2> QED BY <1>5, <1>10, <2>2
  <1>15. ~ e.go
    <2>1. e.pos \in Nat /\ e.pos <= Len(e.buf) /\ Len(e.buf) = L
      BY <1>7, <1>14, AheadFacts DEF AsmInv
    <2>2. ~ (L + 1 <= e.pos) BY <1>3, <2>1
    <2> QED BY <1>14, <2>2
  <1> QED BY <1>6, <1>14, <1>15, AsmDrainFacts

(* finish of the assembler leaves nothing.                                   *)
LEMMA AssemblerFinishFacts ==
    ASSUME NEW a, AsmRest(a)
    PROVE  AsmRest(AssemblerFinish(a)) /\ AssemblerFinish(a).buf = <<>>
  <1> DEFINE L == Len(a.buf)
  <1>1. PICK n : n = [a EXCEPT !.go = TRUE] OBVIOUS
  <1>2. a \in AsmType /\ a.buf \in Bytes /\ a.pos = 0 /\ L \in Nat
    BY DEF AsmRest, AsmInv, AsmType, Bytes
  <1>3. n \in AsmType /\ n.buf = a.buf /\ n.pos = 0 /\ n.go BY <1>1, <1>2 DEF AsmType
  <1>4. PICK e : e = FinishedAfter(n, L + 1) OBVIOUS
  <1>5. AssemblerFinish(a) = Drain(e) BY <1>1, <1>4 DEF AssemblerFinish, FinishedAfter
  <1>6. AsmInv(n) BY <1>2, <1>3 DEF AsmInv
  <1>7. Len(n.buf) = L BY <1>3
  <1> HIDE DEF L
  <1>8. L \in Nat /\ L + 1 \in Nat BY <1>2
  <1>9. PICK f : /\ f[0] = n /\ f[L + 1] = FinishedAfter(n, L + 1)
                 /\ \A i \in 1..(L + 1) : f[i] = FinishRound(f[i - 1])
    <2>1. \A N \in Nat : \E f : /\ f[0] = n /\ f[N] = FinishedAfter(n, N)
                                 /\ \A i \in 1..N : f[i] = FinishRound(f[i - 1])
      BY FinishSteps
    <2> QED BY <1>8, <2>1
  <1> DEFINE Good(x, i) == /\ AsmInv(x) /\ x.buf = n.buf
                           /\ x.go => i <= x.pos
                           /\ ~ x.go => Len(Ahead(x)) = 0
             S == {i \in Nat : i <= L + 1 => Good(f[i], i)}
  <1>10. 0 \in S
    <2>1. Good(n, 0) BY <1>3, <1>6
    <2> QED BY <1>9, <2>1
  <1>11. ASSUME NEW i \in Nat, i \in S PROVE i + 1 \in S
    <2> SUFFICES ASSUME i + 1 <= L + 1 PROVE Good(f[i + 1], i + 1)
      OBVIOUS
    <2>1. i <= L + 1 /\ i + 1 \in 1..(L + 1) /\ (i + 1) - 1 = i BY <1>8
    <2>2. PICK x : x = f[i] OBVIOUS
    <2>3. PICK y : y = f[i + 1] OBVIOUS
    <2>4. Good(x, i) /\ y = FinishRound(x) BY <1>9, <1>11, <2>1, <2>2, <2>3
    <2>5. AsmInv(y) /\ y.buf = x.buf BY <2>4, FinishRoundFacts
    <2>6. CASE x.go
      <3>1. /\ y.go => y.pos > x.pos
            /\ ~ y.go => Len(Ahead(y)) = 0
        BY <2>4, <2>6, FinishRoundFacts
      <3>2. x.pos \in Nat /\ y.pos \in Nat BY <2>4, <2>5, AheadFacts
      <3>3. i <= x.pos BY <2>4, <2>6
      <3>4. y.pos > x.pos => i + 1 <= y.pos BY <3>2, <3>3
      <3>5. Good(y, i + 1) BY <2>4, <2>5, <3>1, <3>4
      <3> QED BY <2>3, <3>5
    <2>7. CASE ~ x.go
      <3>1. y = x BY <2>4, <2>7 DEF FinishRound
      <3>2. Good(y, i + 1) BY <2>4, <2>7, <3>1
      <3> QED BY <2>3, <3>2
    <2> QED BY <2>6, <2>7
  <1>12. Nat \subseteq S BY <1>10, <1>11, SetInduction
  <1>13. Good(e, L + 1)
    <2>1. L + 1 \in S /\ L + 1 <= L + 1 BY <1>8, <1>12
    <2>2. Good(f[L + 1], L + 1) BY <2>1
    <2> QED BY <1>4, <1>9, <2>2
  <1>14. Len(Ahead(e)) = 0
    <2>1. e.pos \in Nat /\ e.pos <= Len(e.buf) /\ Len(e.buf) = L
      BY <1>7, <1>13, AheadFacts DEF AsmInv
    <2>2. ~ (L + 1 <= e.pos) BY <1>8, <2>1
    <2> QED BY <1>13, <2>2
  <1>15. Ahead(e) \in Bytes BY <1>13, AheadFacts
  <1>16. Ahead(e) = <<>> BY <1>14, <1>15 DEF Bytes
  <1>17. Len(Ahead(e)) < MaxFrame
    <2>1. MaxFrame \in Nat /\ FrameLen(<<>>) \in FrameOverhead..MaxFrame /\ FrameOverhead = 3
      BY FrameFacts
    <2> QED BY <1>14, <2>1
  <1>18. AsmRest(Drain(e)) BY <1>13, <1>17, AsmDrainFacts
  <1>19. Drain(e).buf = <<>>
    <2>1. e \in AsmType BY <1>13 DEF AsmInv
    <2>2. PICK d : d = Drain(e) OBVIOUS
    <2>3. d = [e EXCEPT !.buf = <<>>, !.drained = e.drained + e.pos, !.pos = 0, !.go = FALSE]
      BY <1>16, <2>2 DEF Drain
    <2>4. d.buf = <<>> BY <2>1, <2>3 DEF AsmType
    <2> QED BY <2>2, <2>4
  <1> QED BY <1>5, <1>18, <1>19

(* Payload goes to the assembler, other events do not.                       *)
Assembling(a, e) == IF e[1] = "Payload" THEN Assemble(a, e[2]) ELSE a
(* AssembleEvents, event by event.                                           *)
LEMMA AssembleEventsSteps ==
    ASSUME NEW a, NEW t \in Seq(Events)
    PROVE  \E f : /\ f[0] = a /\ AssembleEvents(a, t) = f[Len(t)]
                  /\ \A i \in 1..Len(t) : f[i] = Assembling(f[i - 1], t[i])
  <1> DEFINE Val(g, s) == IF s = {} THEN a ELSE Assembling(g[s \ {Max(s)}], t[Max(s)])
             Good(g, k) == g = [s \in SUBSET (1..k) |-> Val(g, s)]
             S == {k \in Nat : \E g : Good(g, k)}
  <1>1. Len(t) \in Nat /\ DOMAIN t = 1..Len(t) OBVIOUS
  <1>2. 0 \in S
    <2> DEFINE g == [s \in SUBSET (1..0) |-> a]
    <2>1. \A s \in SUBSET (1..0) : s = {} OBVIOUS
    <2>2. \A s \in SUBSET (1..0) : Val(g, s) = a BY <2>1
    <2>3. Good(g, 0) BY <2>2
    <2>4. \E x : Good(x, 0)
      <3> HIDE DEF Good, g
      <3> QED BY <2>3
    <2> QED BY <2>4
  <1>3. ASSUME NEW k \in Nat, k \in S PROVE k + 1 \in S
    <2>1. PICK g : Good(g, k) BY <1>3
    <2> DEFINE h == [s \in SUBSET (1..(k + 1)) |->
                        IF k + 1 \in s THEN Assembling(g[s \ {k + 1}], t[k + 1]) ELSE g[s]]
    <2>2. ASSUME NEW s \in SUBSET (1..(k + 1)) PROVE h[s] = Val(h, s)
      <3>1. CASE k + 1 \in s
        <4>1. Max(s) = k + 1
          <5>1. s \subseteq 0..(k + 1) /\ s # {} /\ k + 1 \in Nat BY <3>1
          <5>2. Max(s) \in s /\ \A y \in s : y <= Max(s) BY <5>1, MaxIsGreatest
          <5>3. Max(s) \in 0..(k + 1) BY <5>1, <5>2
          <5>4. k + 1 <= Max(s) BY <3>1, <5>2
          <5> QED BY <5>3, <5>4
        <4>2. s \ {k + 1} \in SUBSET (1..(k + 1)) /\ k + 1 \notin s \ {k + 1} OBVIOUS
        <4>3. h[s \ {k + 1}] = g[s \ {k + 1}] BY <4>2
        <4>4. h[s] = Assembling(g[s \ {k + 1}], t[k + 1]) BY <3>1
        <4>5. Val(h, s) = Assembling(h[s \ {k + 1}], t[k + 1]) BY <3>1, <4>1
        <4> HIDE DEF h, Val, Good
        <4> QED BY <4>3, <4>4, <4>5
      <3>2. CASE k + 1 \notin s
        <4>1. s \in SUBSET (1..k)
          <5>1. \A x \in s : x \in 1..(k + 1) /\ x # k + 1 BY <3>2
          <5> QED BY <5>1
        <4>2. h[s] = g[s] BY <3>2
        <4>3. g[s] = Val(g, s) BY <2>1, <4>1
        <4>4. CASE s = {} BY <4>2, <4>3, <4>4
        <4>5. CASE s # {}
          <5>1. s \ {Max(s)} \in SUBSET (1..(k + 1)) /\ k + 1 \notin s \ {Max(s)} BY <3>2
          <5>2. h[s \ {Max(s)}] = g[s \ {Max(s)}] BY <5>1
          <5>3. Val(h, s) = Val(g, s) BY <4>5, <5>2
          <5> HIDE DEF h, Val, Good
          <5> QED BY <4>2, <4>3, <5>3
        <4> QED BY <4>4, <4>5
      <3> QED BY <3>1, <3>2
    <2>3. Good(h, k + 1) BY <2>2
    <2> HIDE DEF h, Val, Good
    <2> QED BY <2>3
  <1>4. Len(t) \in S BY <1>1, <1>2, <1>3, SetInduction
  <1> DEFINE g == CHOOSE g : g = [s \in SUBSET (DOMAIN t) |-> Val(g, s)]
             f == [i \in 0..Len(t) |-> g[1..i]]
  <1>5. Good(g, Len(t)) BY <1>1, <1>4
  <1>6. AssembleEvents(a, t) = g[DOMAIN t] BY DEF AssembleEvents, Assembling, FoldLeft, MapThenFoldSet
  <1> HIDE DEF g
  <1>7. f[Len(t)] = AssembleEvents(a, t) BY <1>1, <1>6
  <1>8. f[0] = a
    <2>1. 1..0 = {} /\ 1..0 \in SUBSET (1..Len(t)) OBVIOUS
    <2> QED BY <1>1, <1>5, <2>1
  <1>9. ASSUME NEW i \in 1..Len(t) PROVE f[i] = Assembling(f[i - 1], t[i])
    <2>1. 1..i \in SUBSET (1..Len(t)) /\ i \in 1..i /\ i \in Nat BY <1>1
    <2>2. Max(1..i) = i BY <2>1, MaxUpTo
    <2>3. (1..i) \ {i} = 1..(i - 1) BY <2>1
    <2>4. g[1..i] = Val(g, 1..i) BY <1>5, <2>1
    <2>5. Val(g, 1..i) = Assembling(g[1..(i - 1)], t[i]) BY <2>1, <2>2, <2>3
    <2>6. i - 1 \in 0..Len(t) /\ i \in 0..Len(t) BY <1>1
    <2>7. f[i] = g[1..i] /\ f[i - 1] = g[1..(i - 1)] BY <2>6
    <2> QED BY <2>4, <2>5, <2>7
  <1> HIDE DEF f
  <1> QED BY <1>7, <1>8, <1>9

(* The assembler after a call of push of the machine.                        *)
LEMMA AssembleEventsFacts ==
    ASSUME NEW a, AsmRest(a), NEW t \in Seq(Events)
    PROVE  AsmRest(AssembleEvents(a, t))
  <1>1. PICK f : /\ f[0] = a /\ AssembleEvents(a, t) = f[Len(t)]
                 /\ \A i \in 1..Len(t) : f[i] = Assembling(f[i - 1], t[i])
    BY AssembleEventsSteps
  <1> DEFINE S == {i \in Nat : i <= Len(t) => AsmRest(f[i])}
  <1>2. Len(t) \in Nat OBVIOUS
  <1>3. 0 \in S BY <1>1
  <1>4. ASSUME NEW i \in Nat, i \in S PROVE i + 1 \in S
    <2> SUFFICES ASSUME i + 1 <= Len(t) PROVE AsmRest(f[i + 1])
      OBVIOUS
    <2>1. i <= Len(t) /\ i + 1 \in 1..Len(t) /\ (i + 1) - 1 = i BY <1>2
    <2>2. AsmRest(f[i]) BY <1>4, <2>1
    <2>3. t[i + 1] \in Events BY <2>1
    <2>4. f[i + 1] = Assembling(f[i], t[i + 1]) BY <1>1, <2>1
    <2>5. CASE t[i + 1][1] = "Payload"
      <3>1. t[i + 1][2] \in Bytes BY <2>3, <2>5 DEF Events, Ends
      <3>2. f[i + 1] = Assemble(f[i], t[i + 1][2]) BY <2>4, <2>5 DEF Assembling
      <3> QED BY <2>2, <3>1, <3>2, AssembleFacts
    <2>6. CASE t[i + 1][1] # "Payload" BY <2>2, <2>4, <2>6 DEF Assembling
    <2> QED BY <2>5, <2>6
  <1>5. Nat \subseteq S BY <1>3, <1>4, SetInduction
  <1> QED BY <1>1, <1>2, <1>5

(* SsrStreamAssembler::new: an empty assembler is at rest.                  *)
LEMMA NewAssemblerFacts ==
    ASSUME NEW policy \in {"Strict", "Lenient"}
    PROVE  AsmRest(NewAssembler(policy))
  <1>1. <<>> \in Seq(Readings) OBVIOUS
  <1>2. MaxFrame > 0 /\ 0 \in Nat
    <2>1. MaxFrame \in Nat /\ FrameLen(<<>>) \in FrameOverhead..MaxFrame /\ FrameOverhead = 3
      BY FrameFacts
    <2> QED BY <2>1
  <1> QED BY <1>1, <1>2, EmptyBytes DEF NewAssembler, AsmRest, AsmInv, AsmType

-----------------------------------------------------------------------------
(* A payload read in the whole *)

(* decode_stream_with_policy, byte by byte: what it has found after n + 1    *)
(* bytes follows from what it had found after n.                             *)
LEMMA StreamLaw ==
    ASSUME NEW s, NEW policy
    PROVE  /\ DecodeStream(s, 0, policy) = NothingRead
           /\ \A n \in Nat : DecodeStream(s, n + 1, policy)
                                = ReadByte(DecodeStream(s, n, policy), s, n + 1, policy)
  <1> DEFINE Good(g, k) ==
                 g = [i \in 0..k |-> IF i = 0 THEN NothingRead ELSE ReadByte(g[i - 1], s, i, policy)]
             S == {k \in Nat : \E g : Good(g, k)}
             F(k) == CHOOSE g : Good(g, k)
  <1>1. 0 \in S
    <2> DEFINE g == [i \in 0..0 |-> NothingRead]
    <2>1. Good(g, 0) OBVIOUS
    <2> QED BY <2>1
  <1>2. ASSUME NEW n \in Nat, n \in S PROVE n + 1 \in S
    <2>1. PICK g : Good(g, n) BY <1>2
    <2> DEFINE h == [i \in 0..(n + 1) |->
                        IF i = n + 1 THEN ReadByte(g[n], s, n + 1, policy) ELSE g[i]]
    <2>2. ASSUME NEW i \in 0..(n + 1)
          PROVE  h[i] = IF i = 0 THEN NothingRead ELSE ReadByte(h[i - 1], s, i, policy)
      <3>1. CASE i = n + 1 BY <3>1
      <3>2. CASE i # n + 1
        <4>1. i \in 0..n BY <3>2
        <4>2. g[i] = IF i = 0 THEN NothingRead ELSE ReadByte(g[i - 1], s, i, policy)
          BY <2>1, <4>1
        <4>3. h[i] = g[i] BY <3>2
        <4>4. CASE i = 0 BY <4>2, <4>3, <4>4
        <4>5. CASE i # 0
          <5>1. i - 1 \in 0..(n + 1) /\ i - 1 # n + 1 BY <4>1, <4>5
          <5>2. h[i - 1] = g[i - 1] BY <5>1
          <5> QED BY <4>2, <4>3, <4>5, <5>2
        <4> QED BY <4>4, <4>5
      <3> QED BY <3>1, <3>2
    <2>3. Good(h, n + 1) BY <2>2
    <2> HIDE DEF h
    <2> QED BY <2>3
  <1>3. Nat \subseteq S BY <1>1, <1>2, SetInduction
  <1>4. ASSUME NEW n \in Nat
        PROVE  /\ F(n)[0] = NothingRead
               /\ \A i \in 1..n : F(n)[i] = ReadByte(F(n)[i - 1], s, i, policy)
    <2>1. \E g : Good(g, n) BY <1>3
    <2>2. PICK g : g = F(n) OBVIOUS
    <2>3. Good(g, n) BY <2>1, <2>2
    <2>4. g[0] = NothingRead BY <2>3
    <2>5. \A i \in 1..n : g[i] = ReadByte(g[i - 1], s, i, policy) BY <2>3
    <2> HIDE DEF F
    <2> QED BY <2>2, <2>4, <2>5
  <1>5. \A n \in Nat : DecodeStream(s, n, policy) = F(n)[n] BY DEF DecodeStream
  <1> HIDE DEF F, Good
  <1>6. ASSUME NEW n \in Nat PROVE F(n + 1)[n] = F(n)[n]
    <2> DEFINE T == {i \in Nat : i <= n => F(n + 1)[i] = F(n)[i]}
    <2>1. 0 \in T BY <1>4
    <2>2. ASSUME NEW i \in Nat, i \in T PROVE i + 1 \in T
      <3> SUFFICES ASSUME i + 1 <= n PROVE F(n + 1)[i + 1] = F(n)[i + 1]
        OBVIOUS
      <3>1. i + 1 \in 1..n /\ i + 1 \in 1..(n + 1) /\ (i + 1) - 1 = i /\ i <= n OBVIOUS
      <3>2. F(n)[i + 1] = ReadByte(F(n)[i], s, i + 1, policy) BY <1>4, <3>1
      <3>3. F(n + 1)[i + 1] = ReadByte(F(n + 1)[i], s, i + 1, policy)
        <4>1. n + 1 \in Nat OBVIOUS
        <4>2. \A j \in 1..(n + 1) : F(n + 1)[j] = ReadByte(F(n + 1)[j - 1], s, j, policy)
          BY <1>4, <4>1
        <4> QED BY <3>1, <4>2
      <3> QED BY <2>2, <3>1, <3>2, <3>3
    <2>3. Nat \subseteq T BY <2>1, <2>2, SetInduction
    <2> QED BY <2>3
  <1>7. ASSUME NEW n \in Nat
        PROVE  F(n + 1)[n + 1] = ReadByte(F(n + 1)[n], s, n + 1, policy)
    <2>1. n + 1 \in Nat /\ n + 1 \in 1..(n + 1) /\ (n + 1) - 1 = n OBVIOUS
    <2>2. \A j \in 1..(n + 1) : F(n + 1)[j] = ReadByte(F(n + 1)[j - 1], s, j, policy)
      BY <1>4, <2>1
    <2> QED BY <2>1, <2>2
  <1>8. DecodeStream(s, 0, policy) = NothingRead BY <1>4, <1>5
  <1>9. ASSUME NEW n \in Nat
        PROVE  DecodeStream(s, n + 1, policy)
                 = ReadByte(DecodeStream(s, n, policy), s, n + 1, policy)
    <2>1. n + 1 \in Nat OBVIOUS
    <2>2. DecodeStream(s, n + 1, policy) = F(n + 1)[n + 1] BY <1>5, <2>1
    <2>3. DecodeStream(s, n, policy) = F(n)[n] BY <1>5
    <2> QED BY <1>6, <1>7, <2>2, <2>3
  <1> QED BY <1>8, <1>9

(* What is left of a payload.                                                *)
LEMMA FromFacts ==
    ASSUME NEW s \in Bytes, NEW i \in 1..(Len(s) + 1)
    PROVE  /\ From(s, i) \in Bytes /\ Len(From(s, i)) = (Len(s) - i) + 1
           /\ \A j \in 1..((Len(s) - i) + 1) : From(s, i)[j] = s[(i + j) - 1]
  <1>1. PICK k \in Nat : k = Len(s) BY DEF Bytes
  <1>2. i \in Nat \ {0} /\ i <= k + 1 /\ i \in Int /\ k \in Int BY <1>1
  <1>3. \A j \in i..k : s[j] \in Symbols BY <1>1, <1>2, ElementOfSeq DEF Bytes
  <1>4. /\ SubSeq(s, i, k) \in Seq(Symbols)
        /\ Len(SubSeq(s, i, k)) = IF i <= k THEN k - i + 1 ELSE 0
        /\ \A j \in 1..(k - i + 1) : SubSeq(s, i, k)[j] = s[i + j - 1]
    BY <1>2, <1>3, SubSeqProperties
  <1> QED BY <1>1, <1>2, <1>4 DEF From, Bytes

(* More payload after it makes it longer, and changes nothing else of it.    *)
LEMMA FromMore ==
    ASSUME NEW s \in Bytes, NEW t \in Bytes, NEW i \in 1..(Len(s) + 1)
    PROVE  /\ s \o t \in Bytes /\ Len(s \o t) = Len(s) + Len(t)
           /\ From(s \o t, i) = From(s, i) \o t
  <1>1. PICK k \in Nat : k = Len(s) BY DEF Bytes
  <1>2. PICK l \in Nat : l = Len(t) BY DEF Bytes
  <1>3. PICK w : w = s \o t OBVIOUS
  <1>4. /\ w \in Bytes /\ Len(w) = k + l
        /\ \A j \in 1..(k + l) : w[j] = IF j <= k THEN s[j] ELSE t[j - k]
    BY <1>1, <1>2, <1>3, ConcatProperties DEF Bytes
  <1>5. i \in Nat /\ 1 <= i /\ i <= k + 1 /\ i \in 1..(Len(w) + 1) BY <1>1, <1>4
  <1>6. PICK u : u = From(s, i) OBVIOUS
  <1>7. u \in Bytes /\ Len(u) = (k - i) + 1 /\ \A j \in 1..((k - i) + 1) : u[j] = s[(i + j) - 1]
    BY <1>1, <1>6, FromFacts
  <1>8. PICK v : v = From(w, i) OBVIOUS
  <1>9. /\ v \in Bytes /\ Len(v) = ((k + l) - i) + 1
        /\ \A j \in 1..(((k + l) - i) + 1) : v[j] = w[(i + j) - 1]
    <2>1. w \in Bytes /\ Len(w) = k + l BY ONLY <1>4
    <2>2. i \in 1..(Len(w) + 1) BY ONLY <1>5
    <2>3. /\ From(w, i) \in Bytes /\ Len(From(w, i)) = (Len(w) - i) + 1
          /\ \A j \in 1..((Len(w) - i) + 1) : From(w, i)[j] = w[(i + j) - 1]
      BY ONLY <2>1, <2>2, FromFacts
    <2> QED BY ONLY <1>8, <2>1, <2>3
  <1>10. PICK x : x = u \o t OBVIOUS
  <1>11. /\ x \in Bytes /\ Len(x) = ((k - i) + 1) + l
         /\ \A j \in 1..(((k - i) + 1) + l) :
               x[j] = IF j <= (k - i) + 1 THEN u[j] ELSE t[j - ((k - i) + 1)]
    <2>1. PICK m \in Nat : m = (k - i) + 1 BY <1>5
    <2>2. Len(u) = m BY <1>7, <2>1
    <2>3. /\ u \o t \in Bytes /\ Len(u \o t) = m + l
          /\ \A j \in 1..(m + l) : (u \o t)[j] = IF j <= m THEN u[j] ELSE t[j - m]
      BY <1>2, <1>7, <2>2, ConcatProperties DEF Bytes
    <2> QED BY ONLY <1>10, <2>1, <2>3
  <1>12. Len(v) = Len(x) BY <1>5, <1>9, <1>11
  <1>13. ASSUME NEW j \in 1..Len(v) PROVE v[j] = x[j]
    <2>1. j \in 1..(((k + l) - i) + 1) /\ j \in 1..(((k - i) + 1) + l) /\ j \in Nat
      BY <1>5, <1>9
    <2>2. v[j] = w[(i + j) - 1] BY <1>9, <2>1
    <2>3. (i + j) - 1 \in 1..(k + l) BY <1>5, <2>1
    <2>4. CASE j <= (k - i) + 1
      <3>1. (i + j) - 1 <= k /\ j \in 1..((k - i) + 1) BY <1>5, <2>1, <2>4
      <3> QED BY <1>4, <1>7, <1>11, <2>1, <2>2, <2>3, <2>4, <3>1
    <2>5. CASE ~ (j <= (k - i) + 1)
      <3>1. ~ ((i + j) - 1 <= k) /\ ((i + j) - 1) - k = j - ((k - i) + 1) BY <1>5, <2>1, <2>5
      <3> QED BY <1>4, <1>11, <2>1, <2>2, <2>3, <2>5, <3>1
    <2> QED BY <2>4, <2>5
  <1>14. v = x BY <1>9, <1>11, <1>12, <1>13, SeqEqual DEF Bytes
  <1> QED BY <1>1, <1>2, <1>3, <1>4, <1>6, <1>8, <1>10, <1>14

(* A frame that has arrived whole is the same frame whatever follows it, and *)
(* what begins with another symbol will not become one.                      *)
LEMMA FrameStays ==
    ASSUME NEW s \in Bytes, NEW t \in Bytes, Whole(s) \/ (Len(s) > 0 /\ s[1] # Preamble),
           NEW offset, NEW policy
    PROVE  /\ IsFrame(s \o t) = IsFrame(s) /\ FrameFailsCrc(s \o t) = FrameFailsCrc(s)
           /\ IsFrame(s) => /\ FrameLen(s \o t) = FrameLen(s)
                            /\ Reading(s \o t, offset, policy) = Reading(s, offset, policy)
  <1>1. PICK k \in Nat : k = Len(s) BY DEF Bytes
  <1>2. PICK l \in Nat : l = Len(t) BY DEF Bytes
  <1>3. PICK w : w = s \o t OBVIOUS
  <1>4. /\ w \in Bytes /\ Len(w) = k + l
        /\ \A j \in 1..(k + l) : w[j] = IF j <= k THEN s[j] ELSE t[j - k]
    BY <1>1, <1>2, <1>3, ConcatProperties DEF Bytes
  <1>5. \A j \in 1..k : w[j] = s[j] BY <1>4
  <1>6. CASE Whole(s)
    <2>1. k >= 3 /\ s[1] = Preamble /\ k >= FrameLen(s)
      BY <1>1, <1>6 DEF Whole, FrameOverhead
    <2>2. w[1] = s[1] /\ w[2] = s[2] BY <1>5, <2>1
    <2>3. FrameLen(w) = FrameLen(s) BY <2>2 DEF FrameLen
    <2>4. PICK n : n = FrameLen(s) OBVIOUS
    <2>5. n \in Nat /\ n >= 3 /\ n <= k BY <2>1, <2>4, FrameFacts
    <2>6. Whole(w) BY <1>1, <1>4, <2>1, <2>2, <2>3, <2>4, <2>5 DEF Whole, FrameOverhead
    <2>7. ASSUME NEW a \in {1, 3} PROVE SubSeq(w, a, n - 1) = SubSeq(s, a, n - 1)
      <3> DEFINE m == n - 1
                 x == SubSeq(w, a, m)
                 y == SubSeq(s, a, m)
      <3>1. m \in Int /\ a \in Int /\ m <= k /\ a..m \subseteq 1..k BY <2>5
      <3>2. \A j \in a..m : s[j] \in Symbols BY <1>1, <3>1, ElementOfSeq DEF Bytes
      <3>3. \A j \in a..m : w[j] \in Symbols BY <1>5, <3>1, <3>2
      <3> HIDE DEF m
      <3>4. /\ x \in Seq(Symbols) /\ Len(x) = IF a <= m THEN m - a + 1 ELSE 0
            /\ \A j \in 1..(m - a + 1) : x[j] = w[a + j - 1]
        BY <3>1, <3>3, SubSeqProperties
      <3>5. /\ y \in Seq(Symbols) /\ Len(y) = IF a <= m THEN m - a + 1 ELSE 0
            /\ \A j \in 1..(m - a + 1) : y[j] = s[a + j - 1]
        BY <3>1, <3>2, SubSeqProperties
      <3> HIDE DEF x, y
      <3>6. \A j \in 1..Len(x) : x[j] = y[j]
        <4> TAKE j \in 1..Len(x)
        <4>1. j \in 1..(m - a + 1) /\ a + j - 1 \in a..m BY <3>1, <3>4
        <4>2. a + j - 1 \in 1..k BY <3>1, <4>1
        <4> QED BY <1>5, <3>4, <3>5, <4>1, <4>2
      <3>7. x = y BY <3>4, <3>5, <3>6, SeqEqual
      <3> QED BY <3>7 DEF x, y, m
    <2>8. w[n] = s[n] BY <1>5, <2>5
    <2>9. ChecksumHolds(w) = ChecksumHolds(s)
      <3>1. SubSeq(w, 1, n - 1) = SubSeq(s, 1, n - 1) BY <2>7
      <3> QED BY <2>3, <2>4, <2>8, <3>1 DEF ChecksumHolds
    <2>10. Reading(w, offset, policy) = Reading(s, offset, policy)
      <3>1. SubSeq(w, 3, n - 1) = SubSeq(s, 3, n - 1) BY <2>7
      <3> QED BY <2>2, <2>3, <2>4, <3>1 DEF Reading
    <2> QED BY <1>3, <1>6, <2>3, <2>6, <2>9, <2>10 DEF IsFrame, FrameFailsCrc
  <1>7. CASE Len(s) > 0 /\ s[1] # Preamble
    <2>1. w[1] = s[1] BY <1>1, <1>5, <1>7
    <2>2. ~ Whole(w) /\ ~ Whole(s) BY <1>7, <2>1 DEF Whole
    <2> QED BY <1>3, <2>2 DEF IsFrame, FrameFailsCrc
  <1> QED BY <1>6, <1>7

(* What has been found in a payload.                                         *)
Tallies == [upTo : Nat, out : Seq(Readings), resync : Nat, crcFailures : Nat]
(* What one byte adds to it.                                                 *)
LEMMA ReadByteFacts ==
    ASSUME NEW c \in Tallies, NEW s \in Bytes, NEW i \in 1..Len(s), NEW policy
    PROVE  LET d == ReadByte(c, s, i, policy)
               rest == From(s, i)
           IN  /\ d \in Tallies
               /\ i <= c.upTo => d = c
               /\ i > c.upTo /\ IsFrame(rest) =>
                      /\ d.upTo = i + FrameLen(rest) - 1
                      /\ d.out = Append(c.out, Reading(rest, i - 1, policy))
                      /\ d.resync = c.resync /\ d.crcFailures = c.crcFailures
               /\ i > c.upTo /\ ~ IsFrame(rest) =>
                      /\ d.upTo = c.upTo /\ d.out = c.out /\ d.resync = c.resync + 1
                      /\ d.crcFailures = c.crcFailures + (IF FrameFailsCrc(rest) THEN 1 ELSE 0)
  <1> DEFINE d == ReadByte(c, s, i, policy)
  <1>1. PICK rest : rest = From(s, i) OBVIOUS
  <1>2. i \in Nat \ {0} /\ i - 1 \in Nat /\ c.upTo \in Nat BY DEF Bytes, Tallies
  <1>3. d = IF i <= c.upTo THEN c
            ELSE IF IsFrame(rest) THEN ReadFrame(c, rest, i, policy) ELSE PassByte(c, rest)
    BY <1>1 DEF ReadByte
  <1> HIDE DEF d
  <1>4. CASE i <= c.upTo BY <1>1, <1>2, <1>3, <1>4 DEF d
  <1>5. CASE i > c.upTo /\ IsFrame(rest)
    <2>1. PICK x : x = Reading(rest, i - 1, policy) OBVIOUS
    <2>2. x \in Readings
      <3>1. Len(s) \in Nat /\ i \in 1..(Len(s) + 1) BY DEF Bytes
      <3>2. rest \in Bytes BY <1>1, <3>1, FromFacts
      <3> QED BY <1>2, <1>5, <2>1, <3>2, ReadingFacts DEF IsFrame
    <2>3. PICK n : n = i + FrameLen(rest) - 1 OBVIOUS
    <2>4. n \in Nat
      <3>1. FrameLen(rest) \in FrameOverhead..MaxFrame /\ FrameOverhead = 3 /\ MaxFrame \in Nat
        BY FrameFacts
      <3> QED BY <1>2, <2>3, <3>1
    <2>5. d = [c EXCEPT !.upTo = n, !.out = Append(c.out, x)]
      BY <1>2, <1>3, <1>5, <2>1, <2>3 DEF ReadFrame
    <2>6. Append(c.out, x) \in Seq(Readings) BY <2>2, AppendProperties DEF Tallies
    <2>7. d \in Tallies BY <2>4, <2>5, <2>6 DEF Tallies
    <2>8. /\ d.upTo = n /\ d.out = Append(c.out, x)
          /\ d.resync = c.resync /\ d.crcFailures = c.crcFailures
      BY <2>5 DEF Tallies
    <2> QED BY <1>1, <1>2, <1>5, <2>1, <2>3, <2>7, <2>8 DEF d
  <1>6. CASE i > c.upTo /\ ~ IsFrame(rest)
    <2>1. PICK n : n = c.resync + 1 OBVIOUS
    <2>2. PICK k : k = c.crcFailures + (IF FrameFailsCrc(rest) THEN 1 ELSE 0) OBVIOUS
    <2>3. n \in Nat /\ k \in Nat BY <2>1, <2>2 DEF Tallies
    <2>4. d = [c EXCEPT !.resync = n, !.crcFailures = k]
      BY <1>2, <1>3, <1>6, <2>1, <2>2 DEF PassByte
    <2>5. d \in Tallies BY <2>3, <2>4 DEF Tallies
    <2>6. d.upTo = c.upTo /\ d.out = c.out /\ d.resync = n /\ d.crcFailures = k
      BY <2>4 DEF Tallies
    <2> QED BY <1>1, <1>2, <1>6, <2>1, <2>2, <2>5, <2>6 DEF d
  <1> QED BY <1>1, <1>2, <1>4, <1>5, <1>6

(* What has been found after any number of bytes.                            *)
LEMMA StreamFacts ==
    ASSUME NEW s \in Bytes, NEW policy, NEW n \in 0..Len(s)
    PROVE  DecodeStream(s, n, policy) \in Tallies
  <1> DEFINE S == {k \in Nat : k <= Len(s) => DecodeStream(s, k, policy) \in Tallies}
  <1>1. Len(s) \in Nat BY DEF Bytes
  <1>2. 0 \in S
    <2>1. <<>> \in Seq(Readings) OBVIOUS
    <2>2. NothingRead \in Tallies BY <2>1 DEF NothingRead, Tallies
    <2>3. DecodeStream(s, 0, policy) = NothingRead BY StreamLaw
    <2> QED BY <2>2, <2>3
  <1>3. ASSUME NEW k \in Nat, k \in S PROVE k + 1 \in S
    <2> SUFFICES ASSUME k + 1 <= Len(s) PROVE DecodeStream(s, k + 1, policy) \in Tallies
      OBVIOUS
    <2>1. k <= Len(s) /\ k + 1 \in 1..Len(s) BY <1>1
    <2>2. DecodeStream(s, k, policy) \in Tallies BY <1>3, <2>1
    <2>3. DecodeStream(s, k + 1, policy)
             = ReadByte(DecodeStream(s, k, policy), s, k + 1, policy)
      BY StreamLaw
    <2> QED BY <2>1, <2>2, <2>3, ReadByteFacts
  <1>4. Nat \subseteq S BY <1>2, <1>3, SetInduction
  <1> QED BY <1>1, <1>4

(* The bytes of a frame are read with it.                                    *)
LEMMA FrameRun ==
    ASSUME NEW s \in Bytes, NEW policy, NEW n \in Nat, n < Len(s),
           DecodeStream(s, n, policy).upTo <= n, IsFrame(From(s, n + 1))
    PROVE  LET rest == From(s, n + 1)
               c == DecodeStream(s, n, policy)
               d == DecodeStream(s, n + FrameLen(rest), policy)
           IN  /\ n + FrameLen(rest) <= Len(s)
               /\ d.upTo = n + FrameLen(rest)
               /\ d.out = Append(c.out, Reading(rest, n, policy))
               /\ d.resync = c.resync /\ d.crcFailures = c.crcFailures
               /\ \A k \in 1..FrameLen(rest) :
                      DecodeStream(s, n + k, policy).upTo = n + FrameLen(rest)
  <1>1. PICK l \in Nat : l = Len(s) BY DEF Bytes
  <1>2. PICK rest : rest = From(s, n + 1) OBVIOUS
  <1>3. PICK c : c = DecodeStream(s, n, policy) OBVIOUS
  <1>4. PICK d : d = DecodeStream(s, n + 1, policy) OBVIOUS
  <1>5. n + 1 \in 1..l /\ n + 1 \in 1..(l + 1) /\ n \in 0..l BY <1>1
  <1>6. rest \in Bytes /\ Len(rest) = (l - (n + 1)) + 1 BY <1>1, <1>2, <1>5, FromFacts
  <1>7. PICK m \in Nat : m = FrameLen(rest) /\ m >= 3 BY FrameFacts
  <1>8. m <= Len(rest) BY <1>2, <1>7 DEF IsFrame, Whole
  <1>9. n + m <= l BY <1>1, <1>5, <1>6, <1>7, <1>8
  <1>10. c \in Tallies BY <1>1, <1>3, <1>5, StreamFacts
  <1>11. d = ReadByte(c, s, n + 1, policy) BY <1>3, <1>4, StreamLaw
  <1>12. c.upTo \in Nat /\ n + 1 > c.upTo BY <1>3, <1>10 DEF Tallies
  <1>13. /\ d \in Tallies /\ d.upTo = (n + 1) + FrameLen(rest) - 1
         /\ d.out = Append(c.out, Reading(rest, (n + 1) - 1, policy))
         /\ d.resync = c.resync /\ d.crcFailures = c.crcFailures
    BY <1>1, <1>2, <1>5, <1>10, <1>11, <1>12, ReadByteFacts
  <1>14. d.upTo = n + m /\ (n + 1) - 1 = n BY <1>7, <1>13
  <1> DEFINE S == {k \in Nat : k + 1 <= m => DecodeStream(s, n + (k + 1), policy) = d}
  <1>15. 0 \in S
    <2>1. n + (0 + 1) = n + 1 OBVIOUS
    <2> QED BY <1>4, <2>1
  <1>16. ASSUME NEW k \in Nat, k \in S PROVE k + 1 \in S
    <2> SUFFICES ASSUME (k + 1) + 1 <= m PROVE DecodeStream(s, n + ((k + 1) + 1), policy) = d
      OBVIOUS
    <2>1. k + 1 <= m /\ n + (k + 1) \in Nat /\ n + ((k + 1) + 1) = (n + (k + 1)) + 1
          /\ (n + (k + 1)) + 1 \in 1..l /\ (n + (k + 1)) + 1 <= n + m
      BY <1>9
    <2>2. DecodeStream(s, n + (k + 1), policy) = d BY <1>16, <2>1
    <2>3. DecodeStream(s, (n + (k + 1)) + 1, policy) = ReadByte(d, s, (n + (k + 1)) + 1, policy)
      BY <2>1, <2>2, StreamLaw
    <2>4. ReadByte(d, s, (n + (k + 1)) + 1, policy) = d
      BY <1>14, <2>1 DEF ReadByte
    <2> QED BY <2>1, <2>3, <2>4
  <1>17. Nat \subseteq S BY <1>15, <1>16, SetInduction
  <1>18. \A k \in 1..m : DecodeStream(s, n + k, policy) = d
    <2> TAKE k \in 1..m
    <2>1. k - 1 \in Nat /\ (k - 1) + 1 = k OBVIOUS
    <2>2. k - 1 \in S BY <1>17, <2>1
    <2> QED BY <2>1, <2>2
  <1>19. m \in 1..m BY <1>7
  <1> HIDE DEF S
  <1>20. DecodeStream(s, n + m, policy) = d BY <1>18, <1>19
  <1> QED BY <1>1, <1>2, <1>3, <1>7, <1>9, <1>13, <1>14, <1>18, <1>20

(* Bytes at which no frame begins that is there in the whole are passed over.*)
LEMMA SkipRun ==
    ASSUME NEW s \in Bytes, NEW policy, NEW n \in Nat, NEW k \in Nat, n + k <= Len(s),
           DecodeStream(s, n, policy).upTo <= n,
           \A j \in 1..k : ~ Whole(From(s, n + j))
    PROVE  LET c == DecodeStream(s, n, policy)
               d == DecodeStream(s, n + k, policy)
           IN  /\ d.upTo = c.upTo /\ d.out = c.out
               /\ d.resync = c.resync + k /\ d.crcFailures = c.crcFailures
  <1>1. PICK l \in Nat : l = Len(s) BY DEF Bytes
  <1>2. PICK c : c = DecodeStream(s, n, policy) OBVIOUS
  <1>3. n \in 0..l BY <1>1
  <1>4. c \in Tallies BY <1>1, <1>2, <1>3, StreamFacts
  <1>5. c.upTo \in Nat /\ c.resync \in Nat /\ c.crcFailures \in Nat /\ c.upTo <= n
    BY <1>2, <1>4 DEF Tallies
  <1> DEFINE Same(d, j) == /\ d.upTo = c.upTo /\ d.out = c.out
                           /\ d.resync = c.resync + j /\ d.crcFailures = c.crcFailures
             S == {j \in Nat : j <= k => Same(DecodeStream(s, n + j, policy), j)}
  <1>6. 0 \in S
    <2>1. n + 0 = n /\ c.resync + 0 = c.resync BY <1>5
    <2> QED BY <1>2, <2>1
  <1>7. ASSUME NEW j \in Nat, j \in S PROVE j + 1 \in S
    <2> SUFFICES ASSUME j + 1 <= k PROVE Same(DecodeStream(s, n + (j + 1), policy), j + 1)
      OBVIOUS
    <2>1. PICK i \in Nat : i = n + (j + 1) OBVIOUS
    <2>2. PICK h \in Nat : h = n + j OBVIOUS
    <2>3. j <= k /\ j + 1 \in 1..k /\ i = h + 1 /\ i \in 1..l /\ h \in 0..l /\ i > c.upTo
      BY <1>1, <1>5, <2>1, <2>2
    <2>4. PICK x : x = DecodeStream(s, h, policy) OBVIOUS
    <2>5. PICK y : y = DecodeStream(s, i, policy) OBVIOUS
    <2>6. Same(x, j) BY <1>7, <2>2, <2>3, <2>4
    <2>7. x \in Tallies BY <1>1, <2>3, <2>4, StreamFacts
    <2>8. y = ReadByte(x, s, i, policy) BY <2>3, <2>4, <2>5, StreamLaw
    <2>9. ~ IsFrame(From(s, i)) /\ ~ FrameFailsCrc(From(s, i))
      BY <2>1, <2>3 DEF IsFrame, FrameFailsCrc
    <2>10. i > x.upTo BY <2>3, <2>6
    <2>11. /\ y.upTo = x.upTo /\ y.out = x.out /\ y.resync = x.resync + 1
           /\ y.crcFailures = x.crcFailures + 0
      BY <1>1, <2>3, <2>7, <2>8, <2>9, <2>10, ReadByteFacts
    <2>12. y.resync = c.resync + (j + 1) /\ y.crcFailures = x.crcFailures
      <3>1. x.resync = c.resync + j /\ x.crcFailures \in Nat BY <2>6, <2>7 DEF Tallies
      <3>2. (c.resync + j) + 1 = c.resync + (j + 1) BY <1>5
      <3>3. y.resync = c.resync + (j + 1) BY <2>11, <3>1, <3>2
      <3>4. y.crcFailures = x.crcFailures BY <2>11, <3>1
      <3> QED BY <3>3, <3>4
    <2>13. Same(y, j + 1) BY <2>6, <2>11, <2>12
    <2> QED BY <2>1, <2>5, <2>13
  <1>8. Nat \subseteq S BY <1>6, <1>7, SetInduction
  <1>9. Same(DecodeStream(s, n + k, policy), k)
    <2>1. k \in S /\ k <= k BY <1>8
    <2> QED BY <2>1
  <1> QED BY <1>2, <1>9

-----------------------------------------------------------------------------
(* The assembler and the payload in the whole *)

(* No frame that has not arrived whole has been passed over.                 *)
Settled(s, n, policy) ==
    \A i \in 1..n : i > DecodeStream(s, i - 1, policy).upTo =>
                       s[i] # Preamble \/ Whole(From(s, i))
(* What the assembler keeps is the end of what it was given, and up to its   *)
(* position it has found what decode_stream finds; while it is open, a       *)
(* partial frame is kept.                                                    *)
Found(a, s, n) ==
    LET c == DecodeStream(s, n, a.policy)
    IN  c.upTo <= n /\ a.out = c.out /\ a.resync = c.resync /\ a.crcFailures = c.crcFailures
Agrees(a, s, open) ==
    /\ AsmInv(a) /\ s \in Bytes
    /\ a.drained + Len(a.buf) = Len(s) /\ a.buf = From(s, a.drained + 1)
    /\ Found(a, s, a.drained + a.pos)
    /\ open => Settled(s, a.drained + a.pos, a.policy)

(* Where the assembler is in the payload.                                    *)
LEMMA AgreesFacts ==
    ASSUME NEW a, NEW s, NEW open, Agrees(a, s, open)
    PROVE  /\ a \in AsmType /\ s \in Bytes /\ Len(s) \in Nat
           /\ a.drained \in Nat /\ a.pos \in Nat /\ a.drained + a.pos \in 0..Len(s)
           /\ Ahead(a) = From(s, (a.drained + a.pos) + 1)
           /\ Len(Ahead(a)) = Len(s) - (a.drained + a.pos)
           /\ Len(a.buf) - a.pos = Len(s) - (a.drained + a.pos)
  <1>1. a \in AsmType /\ s \in Bytes /\ AsmInv(a) BY DEF Agrees, AsmInv
  <1>2. PICK l \in Nat : l = Len(s) BY <1>1 DEF Bytes
  <1>3. PICK d \in Nat : d = a.drained BY <1>1 DEF AsmType
  <1>4. PICK p \in Nat : p = a.pos BY <1>1 DEF AsmType
  <1>5. PICK m \in Nat : m = Len(a.buf) BY <1>1 DEF AsmType, Bytes
  <1>6. p <= m /\ d + m = l BY <1>1, <1>2, <1>3, <1>4, <1>5 DEF Agrees, AsmInv
  <1>7. d + p \in 0..l /\ m - p = l - (d + p) BY <1>6
  <1>8. PICK h : h = Ahead(a) OBVIOUS
  <1>9. h \in Bytes /\ Len(h) = m - p /\ \A i \in 1..(m - p) : h[i] = a.buf[p + i]
    BY <1>1, <1>4, <1>5, <1>8, AheadFacts
  <1>10. PICK f : f = From(s, (d + p) + 1) OBVIOUS
  <1>11. /\ f \in Bytes /\ Len(f) = (l - ((d + p) + 1)) + 1
         /\ \A j \in 1..((l - ((d + p) + 1)) + 1) : f[j] = s[(((d + p) + 1) + j) - 1]
    <2>1. (d + p) + 1 \in 1..(l + 1) BY <1>7
    <2> QED BY <1>1, <1>2, <1>10, <2>1, FromFacts
  <1>12. \A j \in 1..((l - (d + 1)) + 1) : a.buf[j] = s[((d + 1) + j) - 1]
    <2>1. d + 1 \in 1..(l + 1) BY <1>6
    <2>2. a.buf = From(s, d + 1) BY <1>3 DEF Agrees
    <2> QED BY <1>1, <1>2, <2>1, <2>2, FromFacts
  <1>13. ASSUME NEW i \in 1..Len(h) PROVE h[i] = f[i]
    <2>1. /\ i \in 1..(m - p) /\ i \in 1..((l - ((d + p) + 1)) + 1)
          /\ p + i \in 1..((l - (d + 1)) + 1)
          /\ ((d + 1) + (p + i)) - 1 = (((d + p) + 1) + i) - 1
      BY <1>6, <1>9
    <2> QED BY <1>9, <1>11, <1>12, <2>1
  <1>14. Len(h) = Len(f) BY <1>6, <1>9, <1>11
  <1>15. h = f BY <1>9, <1>11, <1>13, <1>14, SeqEqual DEF Bytes
  <1> QED BY <1>1, <1>2, <1>3, <1>4, <1>5, <1>7, <1>8, <1>9, <1>10, <1>15

(* The assembler k bytes further on.                                         *)
LEMMA AgreesStep ==
    ASSUME NEW a, NEW s, NEW open, Agrees(a, s, open), NEW k \in Nat,
           NEW b, AsmInv(b), b.buf = a.buf, b.drained = a.drained, b.policy = a.policy,
           b.pos = a.pos + k, Found(b, s, (a.drained + a.pos) + k),
           open => \A j \in 1..k :
                      (a.drained + a.pos) + j
                          > DecodeStream(s, ((a.drained + a.pos) + j) - 1, a.policy).upTo =>
                         \/ s[(a.drained + a.pos) + j] # Preamble
                         \/ Whole(From(s, (a.drained + a.pos) + j))
    PROVE  Agrees(b, s, open)
  <1>1. PICK n : n = a.drained + a.pos OBVIOUS
  <1>2. n \in Nat /\ a.drained \in Nat /\ a.pos \in Nat BY <1>1, AgreesFacts
  <1>3. b.drained + b.pos = n + k BY <1>1, <1>2
  <1>4. ASSUME open PROVE Settled(s, n + k, a.policy)
    <2>1. Settled(s, n, a.policy) BY <1>1, <1>4 DEF Agrees
    <2> SUFFICES ASSUME NEW i \in 1..(n + k), i > DecodeStream(s, i - 1, a.policy).upTo
                 PROVE  s[i] # Preamble \/ Whole(From(s, i))
      BY DEF Settled
    <2>2. CASE i <= n
      <3>1. i \in 1..n BY <1>2, <2>2
      <3> QED BY <2>1, <3>1 DEF Settled
    <2>3. CASE ~ (i <= n)
      <3>1. PICK j : j = i - n OBVIOUS
      <3>2. j \in 1..k /\ n + j = i BY <1>2, <2>3, <3>1
      <3> QED BY <1>1, <1>4, <3>2
    <2> QED BY <2>2, <2>3
  <1>5. s \in Bytes /\ a.drained + Len(a.buf) = Len(s) /\ a.buf = From(s, a.drained + 1)
    BY DEF Agrees
  <1> QED BY <1>1, <1>3, <1>4, <1>5 DEF Agrees

(* Passing over bytes at which no frame begins.                              *)
LEMMA SkipAgrees ==
    ASSUME NEW a, NEW s, NEW open, Agrees(a, s, open),
           NEW k \in Nat, k <= Len(Ahead(a)),
           \A j \in 1..k : /\ ~ Whole(From(s, (a.drained + a.pos) + j))
                           /\ open => s[(a.drained + a.pos) + j] # Preamble
    PROVE  Agrees(Skip(a, k), s, open)
  <1> DEFINE b == Skip(a, k)
  <1>1. PICK n : n = a.drained + a.pos OBVIOUS
  <1>2. /\ a \in AsmType /\ s \in Bytes /\ Len(s) \in Nat /\ n \in Nat
        /\ Len(Ahead(a)) = Len(s) - n /\ Len(a.buf) - a.pos = Len(s) - n
    BY <1>1, AgreesFacts
  <1>3. n + k <= Len(s) /\ k <= Len(a.buf) - a.pos BY <1>2
  <1>4. AsmInv(b) /\ b.buf = a.buf /\ b.pos = a.pos + k BY <1>3, SkipFacts DEF Agrees
  <1>5. /\ b.drained = a.drained /\ b.policy = a.policy /\ b.out = a.out
        /\ b.resync = a.resync + k /\ b.crcFailures = a.crcFailures
    <2>1. b = [a EXCEPT !.resync = a.resync + k, !.pos = a.pos + k] BY DEF Skip
    <2> QED BY <1>2, <2>1 DEF AsmType
  <1> HIDE DEF b
  <1>6. Found(b, s, n + k)
    <2>1. Found(a, s, n) BY <1>1 DEF Agrees
    <2>2. PICK c : c = DecodeStream(s, n, a.policy) OBVIOUS
    <2>3. PICK d : d = DecodeStream(s, n + k, a.policy) OBVIOUS
    <2>4. /\ c.upTo <= n /\ a.out = c.out /\ a.resync = c.resync
          /\ a.crcFailures = c.crcFailures
      BY <2>1, <2>2 DEF Found
    <2>5. \A j \in 1..k : ~ Whole(From(s, n + j)) BY <1>1
    <2>6. d.upTo = c.upTo /\ d.out = c.out /\ d.resync = c.resync + k /\ d.crcFailures = c.crcFailures
      BY <1>2, <1>3, <2>2, <2>3, <2>4, <2>5, SkipRun, ZenonT(60)
    <2>7. c.upTo \in Nat
      <3>1. n \in 0..Len(s) BY <1>2, <1>3
      <3>2. c \in Tallies BY <1>2, <2>2, <3>1, StreamFacts
      <3> QED BY <3>2 DEF Tallies
    <2>8. d.upTo <= n + k BY <1>2, <2>4, <2>6, <2>7
    <2>9. b.out = d.out /\ b.resync = d.resync /\ b.crcFailures = d.crcFailures
      BY <1>5, <2>4, <2>6
    <2>10. b.policy = a.policy BY <1>5
    <2> QED BY <2>3, <2>8, <2>9, <2>10 DEF Found
  <1>7. Agrees(b, s, open)
    <2>1. Found(b, s, (a.drained + a.pos) + k) BY <1>1, <1>6
    <2>2. open => \A j \in 1..k : s[(a.drained + a.pos) + j] # Preamble OBVIOUS
    <2> QED BY <1>4, <1>5, <2>1, <2>2, AgreesStep
  <1> QED BY <1>7 DEF b

(* The search for the next preamble.                                         *)
LEMMA SeekAgrees ==
    ASSUME NEW a, NEW s, NEW open, Agrees(a, s, open)
    PROVE  Agrees(Seek(a), s, open)
  <1> DEFINE I == {i \in 1..Len(Ahead(a)) : Ahead(a)[i] = Preamble}
  <1>1. PICK n : n = a.drained + a.pos OBVIOUS
  <1>2. PICK h : h = Ahead(a) OBVIOUS
  <1>3. PICK l \in Nat : l = Len(s) BY AgreesFacts
  <1>4. /\ a \in AsmType /\ s \in Bytes /\ n \in 0..l /\ h = From(s, n + 1) /\ Len(h) = l - n
    BY <1>1, <1>2, <1>3, AgreesFacts
  <1>5. Len(h) \in Nat /\ n \in Nat BY <1>3, <1>4
  <1>6. PICK rel : rel = SelectInSeq(h, LAMBDA x : x = Preamble) OBVIOUS
  <1>7. Seek(a) = IF rel = 0 THEN Stop(Skip(a, Len(h))) ELSE Skip(a, rel - 1)
    BY <1>2, <1>6 DEF Seek
  <1>8. rel = IF I # {} THEN Min(I) ELSE 0 BY <1>2, <1>6 DEF SelectInSeq
  <1>9. ASSUME NEW j \in 1..Len(h), h[j] # Preamble
        PROVE  s[n + j] # Preamble /\ ~ Whole(From(s, n + j))
    <2>1. /\ n + 1 \in 1..(l + 1) /\ j \in 1..((l - (n + 1)) + 1) /\ ((n + 1) + j) - 1 = n + j
          /\ n + j \in 1..(l + 1) /\ 1 \in 1..((l - (n + j)) + 1) /\ ((n + j) + 1) - 1 = n + j
      BY <1>3, <1>4
    <2>2. h[j] = s[((n + 1) + j) - 1] BY <1>3, <1>4, <2>1, FromFacts
    <2>3. From(s, n + j)[1] = s[((n + j) + 1) - 1] BY <1>3, <1>4, <2>1, FromFacts
    <2>4. From(s, n + j)[1] # Preamble BY <1>9, <2>1, <2>2, <2>3
    <2> QED BY <1>9, <2>1, <2>2, <2>4 DEF Whole
  <1>10. ASSUME NEW k \in Nat, k <= Len(h), \A j \in 1..k : h[j] # Preamble
         PROVE  Agrees(Skip(a, k), s, open)
    <2>1. \A j \in 1..k : j \in 1..Len(h) BY <1>5, <1>10
    <2>2. \A j \in 1..k : ~ Whole(From(s, n + j)) /\ s[n + j] # Preamble
      BY <1>9, <1>10, <2>1
    <2> QED BY <1>1, <1>2, <1>10, <2>2, SkipAgrees
  <1>11. CASE I = {}
    <2>1. \A j \in 1..Len(h) : h[j] # Preamble BY <1>2, <1>11
    <2>2. PICK c : c = Skip(a, Len(h)) OBVIOUS
    <2>3. Agrees(c, s, open) BY <1>5, <1>10, <2>1, <2>2
    <2>4. PICK b : b = Seek(a) OBVIOUS
    <2>5. b = [c EXCEPT !.go = FALSE] BY <1>7, <1>8, <1>11, <2>2, <2>4 DEF Stop
    <2>6. c \in AsmType /\ AsmInv(c) /\ c.pos \in Nat BY <2>3, AgreesFacts DEF Agrees
    <2>7. /\ b \in AsmType /\ b.buf = c.buf /\ b.pos = c.pos /\ b.drained = c.drained
          /\ b.policy = c.policy /\ b.out = c.out /\ b.resync = c.resync
          /\ b.crcFailures = c.crcFailures
      BY <2>5, <2>6 DEF AsmType
    <2>8. AsmInv(b) BY <2>6, <2>7 DEF AsmInv
    <2>9. Agrees(b, s, open) BY <2>3, <2>7, <2>8 DEF Agrees, Found
    <2> QED BY <2>4, <2>9
  <1>12. CASE I # {}
    <2>1. I \subseteq Nat /\ rel = Min(I) BY <1>2, <1>5, <1>8, <1>12
    <2>2. rel \in I /\ \A y \in I : rel <= y BY <1>12, <2>1, MinIsLeast
    <2>3. rel \in 1..Len(h) /\ rel - 1 \in Nat /\ rel - 1 <= Len(h) /\ rel # 0
      BY <1>2, <1>5, <2>2
    <2>4. \A j \in 1..(rel - 1) : h[j] # Preamble
      <3> TAKE j \in 1..(rel - 1)
      <3>1. j \in 1..Len(h) /\ ~ (rel <= j) BY <1>5, <2>3
      <3> QED BY <1>2, <2>2, <3>1
    <2> QED BY <1>7, <1>10, <2>3, <2>4
  <1> QED BY <1>11, <1>12

(* A frame is read.                                                          *)
LEMMA TakeAgrees ==
    ASSUME NEW a, NEW s, NEW open, Agrees(a, s, open), IsFrame(Ahead(a))
    PROVE  Agrees(TakeFrame(a), s, open)
  <1> DEFINE b == TakeFrame(a)
  <1>1. PICK n : n = a.drained + a.pos OBVIOUS
  <1>2. PICK rest : rest = From(s, n + 1) OBVIOUS
  <1>3. PICK l \in Nat : l = Len(s) BY AgreesFacts
  <1>4. /\ a \in AsmType /\ s \in Bytes /\ n \in 0..l /\ Ahead(a) = rest /\ Len(rest) = l - n
        /\ n \in Nat /\ a.pos \in Nat /\ a.drained \in Nat
    BY <1>1, <1>2, <1>3, AgreesFacts
  <1>5. PICK m \in Nat : m = FrameLen(rest) /\ m >= 3 BY FrameFacts
  <1>6. IsFrame(rest) /\ Whole(rest) /\ n < l
    <2>1. IsFrame(rest) /\ Whole(rest) BY <1>4 DEF IsFrame
    <2>2. l - n >= 3 BY <1>4, <2>1 DEF Whole, FrameOverhead
    <2> QED BY <1>3, <1>4, <2>1, <2>2
  <1>7. PICK x : x = Reading(rest, n, a.policy) OBVIOUS
  <1>8. b = [a EXCEPT !.out = Append(a.out, x), !.pos = a.pos + m]
    BY <1>1, <1>4, <1>5, <1>7 DEF TakeFrame
  <1>9. AsmInv(b) /\ b.buf = a.buf
    BY <1>4, <1>6, TakeFrameFacts DEF Agrees
  <1>10. /\ b.drained = a.drained /\ b.policy = a.policy /\ b.out = Append(a.out, x)
         /\ b.resync = a.resync /\ b.crcFailures = a.crcFailures /\ b.pos = a.pos + m
    BY <1>4, <1>8 DEF AsmType
  <1> HIDE DEF b
  <1>11. PICK c : c = DecodeStream(s, n, a.policy) OBVIOUS
  <1>12. PICK d : d = DecodeStream(s, n + m, a.policy) OBVIOUS
  <1>13. /\ c.upTo <= n /\ a.out = c.out /\ a.resync = c.resync
         /\ a.crcFailures = c.crcFailures
    BY <1>1, <1>11 DEF Agrees, Found
  <1>14. /\ d.upTo = n + m /\ d.out = Append(c.out, x)
         /\ d.resync = c.resync /\ d.crcFailures = c.crcFailures
         /\ \A k \in 1..m : DecodeStream(s, n + k, a.policy).upTo = n + m
    <2>1. /\ s \in Bytes /\ n \in Nat /\ n < Len(s) /\ IsFrame(From(s, n + 1))
          /\ DecodeStream(s, n, a.policy).upTo <= n
      BY <1>2, <1>3, <1>4, <1>6, <1>11, <1>13
    <2>2. /\ DecodeStream(s, n + FrameLen(rest), a.policy).upTo = n + FrameLen(rest)
          /\ DecodeStream(s, n + FrameLen(rest), a.policy).out
                = Append(DecodeStream(s, n, a.policy).out, Reading(rest, n, a.policy))
          /\ DecodeStream(s, n + FrameLen(rest), a.policy).resync
                = DecodeStream(s, n, a.policy).resync
          /\ DecodeStream(s, n + FrameLen(rest), a.policy).crcFailures
                = DecodeStream(s, n, a.policy).crcFailures
          /\ \A k \in 1..FrameLen(rest) :
                 DecodeStream(s, n + k, a.policy).upTo = n + FrameLen(rest)
      BY Zenon, <1>2, <2>1, FrameRun
    <2> QED BY <1>5, <1>7, <1>11, <1>12, <2>2
  <1>15. Found(b, s, n + m)
    <2>1. d.upTo <= n + m BY <1>4, <1>14
    <2>2. b.out = d.out /\ b.resync = d.resync /\ b.crcFailures = d.crcFailures
      BY <1>10, <1>13, <1>14
    <2> QED BY <1>10, <1>12, <2>1, <2>2 DEF Found
  <1>16. ASSUME NEW j \in 1..m, n + j > DecodeStream(s, (n + j) - 1, a.policy).upTo
         PROVE  s[n + j] # Preamble \/ Whole(From(s, n + j))
    <2>1. CASE j = 1 BY <1>2, <1>6, <2>1
    <2>2. CASE j # 1
      <3>1. j - 1 \in 1..m /\ n + (j - 1) = (n + j) - 1 /\ ~ (n + j > n + m) BY <1>4, <2>2
      <3> QED BY <1>14, <1>16, <3>1
    <2> QED BY <2>1, <2>2
  <1>17. Agrees(b, s, open) BY <1>1, <1>9, <1>10, <1>15, <1>16, AgreesStep
  <1> QED BY <1>17 DEF b

(* A preamble whose frame fails its checksum is passed over.                 *)
LEMMA PreambleAgrees ==
    ASSUME NEW a, NEW s, NEW open, Agrees(a, s, open), FrameFailsCrc(Ahead(a))
    PROVE  Agrees(SkipPreamble(a), s, open)
  <1> DEFINE b == SkipPreamble(a)
  <1>1. PICK n : n = a.drained + a.pos OBVIOUS
  <1>2. PICK rest : rest = From(s, n + 1) OBVIOUS
  <1>3. PICK l \in Nat : l = Len(s) BY AgreesFacts
  <1>4. /\ a \in AsmType /\ s \in Bytes /\ n \in 0..l /\ Ahead(a) = rest /\ Len(rest) = l - n
        /\ n \in Nat /\ a.pos \in Nat /\ a.drained \in Nat
    BY <1>1, <1>2, <1>3, AgreesFacts
  <1>5. Whole(rest) /\ ~ IsFrame(rest) /\ FrameFailsCrc(rest) /\ n < l /\ Len(Ahead(a)) > 0
    <2>1. Whole(rest) /\ ~ IsFrame(rest) /\ FrameFailsCrc(rest)
      BY <1>4 DEF IsFrame, FrameFailsCrc
    <2>2. l - n >= 3 BY <1>4, <2>1 DEF Whole, FrameOverhead
    <2> QED BY <1>3, <1>4, <2>1, <2>2
  <1>6. b = [a EXCEPT !.resync = a.resync + 1, !.pos = a.pos + 1,
                      !.crcFailures = a.crcFailures + 1]
    <2>1. PICK e : e = [a EXCEPT !.resync = a.resync + 1, !.pos = a.pos + 1] OBVIOUS
    <2>2. b = [e EXCEPT !.crcFailures = e.crcFailures + 1] BY <2>1 DEF SkipPreamble, Skip
    <2>3. e.crcFailures = a.crcFailures BY <1>4, <2>1 DEF AsmType
    <2> QED BY <1>4, <2>1, <2>2, <2>3 DEF AsmType
  <1>7. AsmInv(b) /\ b.buf = a.buf BY <1>5, SkipPreambleFacts DEF Agrees
  <1>8. /\ b.drained = a.drained /\ b.policy = a.policy /\ b.out = a.out
        /\ b.resync = a.resync + 1 /\ b.crcFailures = a.crcFailures + 1 /\ b.pos = a.pos + 1
    BY <1>4, <1>6 DEF AsmType
  <1> HIDE DEF b
  <1>9. PICK c : c = DecodeStream(s, n, a.policy) OBVIOUS
  <1>10. PICK d : d = DecodeStream(s, n + 1, a.policy) OBVIOUS
  <1>11. /\ c.upTo <= n /\ a.out = c.out /\ a.resync = c.resync
         /\ a.crcFailures = c.crcFailures
    BY <1>1, <1>9 DEF Agrees, Found
  <1>12. c \in Tallies /\ c.upTo \in Nat
    <2>1. c \in Tallies BY <1>3, <1>4, <1>9, StreamFacts
    <2> QED BY <2>1 DEF Tallies
  <1>13. d = ReadByte(c, s, n + 1, a.policy) BY <1>4, <1>9, <1>10, StreamLaw
  <1>14. n + 1 > c.upTo /\ n + 1 \in 1..l BY <1>3, <1>4, <1>5, <1>11, <1>12
  <1>15. /\ d.upTo = c.upTo /\ d.out = c.out /\ d.resync = c.resync + 1
         /\ d.crcFailures = c.crcFailures + 1
    BY <1>2, <1>3, <1>4, <1>5, <1>12, <1>13, <1>14, ReadByteFacts
  <1>16. Found(b, s, n + 1)
    <2>1. d.upTo <= n + 1 BY <1>4, <1>11, <1>12, <1>15
    <2>2. b.out = d.out /\ b.resync = d.resync /\ b.crcFailures = d.crcFailures
      BY <1>8, <1>11, <1>15
    <2> QED BY <1>8, <1>10, <2>1, <2>2 DEF Found
  <1>17. Agrees(b, s, open)
    <2>1. 1 \in Nat /\ \A j \in 1..1 : j = 1 OBVIOUS
    <2>2. \A j \in 1..1 : Whole(From(s, (a.drained + a.pos) + j)) BY <1>1, <1>2, <1>5, <2>1
    <2> QED BY <1>1, <1>7, <1>8, <1>16, <2>1, <2>2, AgreesStep
  <1> QED BY <1>17 DEF b

(* More payload changes nothing of what has been found.                      *)
LEMMA StreamStays ==
    ASSUME NEW s \in Bytes, NEW t \in Bytes, NEW policy, NEW n \in 0..Len(s),
           Settled(s, n, policy)
    PROVE  /\ Settled(s \o t, n, policy)
           /\ DecodeStream(s \o t, n, policy) = DecodeStream(s, n, policy)
  <1>1. PICK l \in Nat : l = Len(s) BY DEF Bytes
  <1>2. PICK w : w = s \o t OBVIOUS
  <1>3. n \in Nat /\ n <= l BY <1>1
  <1>4. ASSUME NEW i \in 1..n PROVE w[i] = s[i] /\ From(w, i) = From(s, i) \o t
    <2>1. i \in 1..l /\ i \in 1..(Len(s) + 1) /\ Len(t) \in Nat /\ i \in 1..(l + Len(t)) /\ i <= l
      BY <1>1, <1>3 DEF Bytes
    <2>2. w[i] = s[i] BY <1>1, <1>2, <2>1, ConcatProperties DEF Bytes
    <2> QED BY <1>2, <2>1, <2>2, FromMore
  <1>5. ASSUME NEW i \in 1..n, s[i] # Preamble \/ Whole(From(s, i)), NEW c
        PROVE  /\ w[i] # Preamble \/ Whole(From(w, i))
               /\ ReadByte(c, w, i, policy) = ReadByte(c, s, i, policy)
    <2>1. PICK x : x = From(s, i) OBVIOUS
    <2>2. PICK y : y = From(w, i) OBVIOUS
    <2>3. i \in 1..(l + 1) /\ 1 \in 1..((l - i) + 1) /\ (i + 1) - 1 = i BY <1>3
    <2>4. x \in Bytes /\ Len(x) = (l - i) + 1 /\ x[1] = s[i]
      BY <1>1, <2>1, <2>3, FromFacts
    <2>5. y = x \o t BY <1>4, <2>1, <2>2
    <2>6. Whole(x) \/ (Len(x) > 0 /\ x[1] # Preamble)
      BY <1>3, <1>5, <2>1, <2>4
    <2>7. /\ IsFrame(y) = IsFrame(x) /\ FrameFailsCrc(y) = FrameFailsCrc(x)
          /\ IsFrame(x) => /\ FrameLen(y) = FrameLen(x)
                           /\ Reading(y, i - 1, policy) = Reading(x, i - 1, policy)
      BY <2>4, <2>5, <2>6, FrameStays
    <2>8. Whole(x) => Whole(y) BY <2>7 DEF IsFrame, FrameFailsCrc
    <2>9. w[i] # Preamble \/ Whole(y) BY <1>4, <1>5, <2>1, <2>8
    <2>10. ReadByte(c, w, i, policy)
             = IF i <= c.upTo THEN c
               ELSE IF IsFrame(y) THEN ReadFrame(c, y, i, policy) ELSE PassByte(c, y)
      BY <2>2 DEF ReadByte
    <2>11. ReadByte(c, s, i, policy)
             = IF i <= c.upTo THEN c
               ELSE IF IsFrame(x) THEN ReadFrame(c, x, i, policy) ELSE PassByte(c, x)
      BY <2>1 DEF ReadByte
    <2>12. IsFrame(x) => ReadFrame(c, y, i, policy) = ReadFrame(c, x, i, policy)
      BY <2>7 DEF ReadFrame
    <2>13. PassByte(c, y) = PassByte(c, x) BY <2>7 DEF PassByte
    <2> QED BY <2>2, <2>7, <2>9, <2>10, <2>11, <2>12, <2>13
  <1> DEFINE S == {k \in Nat : k <= n => DecodeStream(w, k, policy) = DecodeStream(s, k, policy)}
  <1>6. 0 \in S BY StreamLaw
  <1>7. ASSUME NEW k \in Nat, k \in S PROVE k + 1 \in S
    <2> SUFFICES ASSUME k + 1 <= n
                 PROVE  DecodeStream(w, k + 1, policy) = DecodeStream(s, k + 1, policy)
      OBVIOUS
    <2>1. k <= n /\ k + 1 \in 1..n /\ (k + 1) - 1 = k /\ k \in 0..Len(s) BY <1>1, <1>3
    <2>2. PICK c : c = DecodeStream(s, k, policy) OBVIOUS
    <2>3. DecodeStream(w, k, policy) = c BY <1>7, <2>1, <2>2
    <2>4. DecodeStream(s, k + 1, policy) = ReadByte(c, s, k + 1, policy) BY <2>2, StreamLaw
    <2>5. DecodeStream(w, k + 1, policy) = ReadByte(c, w, k + 1, policy) BY <2>3, StreamLaw
    <2>6. c.upTo \in Nat
      <3>1. c \in Tallies BY <2>1, <2>2, StreamFacts
      <3> QED BY <3>1 DEF Tallies
    <2>7. CASE k + 1 <= c.upTo BY <2>4, <2>5, <2>7 DEF ReadByte
    <2>8. CASE ~ (k + 1 <= c.upTo)
      <3>1. k + 1 > DecodeStream(s, (k + 1) - 1, policy).upTo BY <2>1, <2>2, <2>6, <2>8
      <3>2. s[k + 1] # Preamble \/ Whole(From(s, k + 1)) BY <2>1, <3>1 DEF Settled
      <3>3. ReadByte(c, w, k + 1, policy) = ReadByte(c, s, k + 1, policy) BY <1>5, <2>1, <3>2
      <3> QED BY <2>4, <2>5, <3>3
    <2> QED BY <2>7, <2>8
  <1>8. Nat \subseteq S BY <1>6, <1>7, SetInduction
  <1>9. \A k \in 0..n : DecodeStream(w, k, policy) = DecodeStream(s, k, policy)
    <2> TAKE k \in 0..n
    <2>1. k \in Nat /\ k <= n BY <1>3
    <2> QED BY <1>8, <2>1
  <1> HIDE DEF S
  <1>10. Settled(w, n, policy)
    <2> SUFFICES ASSUME NEW i \in 1..n, i > DecodeStream(w, i - 1, policy).upTo
                 PROVE  w[i] # Preamble \/ Whole(From(w, i))
      BY DEF Settled
    <2>1. i - 1 \in 0..n BY <1>3
    <2>2. i > DecodeStream(s, i - 1, policy).upTo BY <1>9, <2>1
    <2>3. s[i] # Preamble \/ Whole(From(s, i)) BY <2>2 DEF Settled
    <2> QED BY <1>5, <2>3
  <1>11. n \in 0..n BY <1>3
  <1> QED BY <1>2, <1>9, <1>10, <1>11

(* A round of push.                                                          *)
LEMMA PushRoundAgrees ==
    ASSUME NEW a, NEW s, Agrees(a, s, TRUE)
    PROVE  Agrees(PushRound(a), s, TRUE)
  <1>1. PICK b : b = Seek(a) OBVIOUS
  <1>2. PICK rest : rest = Ahead(b) OBVIOUS
  <1>3. Agrees(b, s, TRUE) BY <1>1, SeekAgrees
  <1>4. PushRound(a) = IF ~ a.go THEN a
                       ELSE IF ~ b.go THEN b
                       ELSE IF ~ Whole(rest) THEN Stop(b)
                       ELSE IF ChecksumHolds(rest) THEN TakeFrame(b) ELSE SkipPreamble(b)
    BY <1>1, <1>2 DEF PushRound
  <1>5. Agrees(Stop(b), s, TRUE)
    <2>1. PICK e : e = Stop(b) OBVIOUS
    <2>2. e = [b EXCEPT !.go = FALSE] BY <2>1 DEF Stop
    <2>3. b \in AsmType /\ AsmInv(b) BY <1>3, AgreesFacts DEF Agrees
    <2>4. /\ e \in AsmType /\ e.buf = b.buf /\ e.pos = b.pos /\ e.drained = b.drained
          /\ e.policy = b.policy /\ e.out = b.out /\ e.resync = b.resync
          /\ e.crcFailures = b.crcFailures
      BY <2>2, <2>3 DEF AsmType
    <2>5. AsmInv(e) BY <2>3, <2>4 DEF AsmInv
    <2>6. Agrees(e, s, TRUE) BY <1>3, <2>4, <2>5 DEF Agrees, Found
    <2> QED BY <2>1, <2>6
  <1>6. Whole(rest) /\ ChecksumHolds(rest) => Agrees(TakeFrame(b), s, TRUE)
    BY <1>2, <1>3, TakeAgrees DEF IsFrame
  <1>7. Whole(rest) /\ ~ ChecksumHolds(rest) => Agrees(SkipPreamble(b), s, TRUE)
    BY <1>2, <1>3, PreambleAgrees DEF FrameFailsCrc
  <1> QED BY <1>3, <1>4, <1>5, <1>6, <1>7

(* A round of finish.                                                        *)
LEMMA FinishRoundAgrees ==
    ASSUME NEW a, NEW s, Agrees(a, s, FALSE)
    PROVE  Agrees(FinishRound(a), s, FALSE)
  <1>1. PICK b : b = Seek(a) OBVIOUS
  <1>2. PICK rest : rest = Ahead(b) OBVIOUS
  <1>3. Agrees(b, s, FALSE) BY <1>1, SeekAgrees
  <1>4. FinishRound(a) = IF ~ a.go THEN a
                         ELSE IF ~ b.go THEN b
                         ELSE IF IsFrame(rest) THEN TakeFrame(b)
                         ELSE IF FrameFailsCrc(rest) THEN SkipPreamble(b) ELSE Skip(b, 1)
    BY <1>1, <1>2 DEF FinishRound
  <1>5. IsFrame(rest) => Agrees(TakeFrame(b), s, FALSE) BY <1>2, <1>3, TakeAgrees
  <1>6. FrameFailsCrc(rest) => Agrees(SkipPreamble(b), s, FALSE) BY <1>2, <1>3, PreambleAgrees
  <1>7. b.go /\ ~ IsFrame(rest) /\ ~ FrameFailsCrc(rest) => Agrees(Skip(b, 1), s, FALSE)
    <2> SUFFICES ASSUME b.go, ~ IsFrame(rest), ~ FrameFailsCrc(rest)
                 PROVE  Agrees(Skip(b, 1), s, FALSE)
      OBVIOUS
    <2>1. AsmInv(a) BY DEF Agrees
    <2>2. Len(rest) > 0 BY <1>1, <1>2, <2>1, SeekFacts
    <2>3. rest = From(s, (b.drained + b.pos) + 1) BY <1>2, <1>3, AgreesFacts
    <2>4. ~ Whole(rest) BY DEF IsFrame, FrameFailsCrc
    <2>5. rest \in Bytes /\ Len(rest) \in Nat
      <3>1. AsmInv(b) BY <1>3 DEF Agrees
      <3> QED BY <1>2, <3>1, AheadFacts DEF Bytes
    <2>6. 1 \in Nat /\ 1 <= Len(Ahead(b)) /\ \A j \in 1..1 : j = 1 BY <1>2, <2>2, <2>5
    <2>7. \A j \in 1..1 : ~ Whole(From(s, (b.drained + b.pos) + j)) BY <2>3, <2>4, <2>6
    <2> QED BY <1>3, <2>6, <2>7, SkipAgrees
  <1> QED BY <1>3, <1>4, <1>5, <1>6, <1>7

(* What has been passed is drained.                                          *)
LEMMA DrainAgrees ==
    ASSUME NEW a, NEW s, NEW open, Agrees(a, s, open)
    PROVE  Agrees(Drain(a), s, open)
  <1>1. PICK b : b = Drain(a) OBVIOUS
  <1>2. PICK n : n = a.drained + a.pos OBVIOUS
  <1>3. /\ a \in AsmType /\ s \in Bytes /\ Len(s) \in Nat /\ n \in 0..Len(s) /\ n \in Nat
        /\ Ahead(a) = From(s, n + 1) /\ Len(Ahead(a)) = Len(s) - n
    BY <1>2, AgreesFacts
  <1>4. PICK h : h = Ahead(a) OBVIOUS
  <1>5. h \in Bytes BY <1>4, AheadFacts DEF Agrees
  <1>6. b = [a EXCEPT !.buf = h, !.drained = n, !.pos = 0, !.go = FALSE]
    BY <1>1, <1>2, <1>4 DEF Drain
  <1>7. /\ b \in AsmType /\ b.buf = h /\ b.pos = 0 /\ b.drained = n
        /\ b.policy = a.policy /\ b.out = a.out /\ b.resync = a.resync
        /\ b.crcFailures = a.crcFailures
    BY <1>3, <1>5, <1>6 DEF AsmType
  <1>8. AsmInv(b) BY <1>5, <1>7 DEF AsmInv, Bytes
  <1>9. b.drained + b.pos = n /\ b.drained + Len(b.buf) = Len(s) BY <1>3, <1>4, <1>7
  <1>10. b.buf = From(s, b.drained + 1) BY <1>3, <1>4, <1>7
  <1>11. Found(b, s, n) BY <1>2, <1>7 DEF Agrees, Found
  <1>12. open => Settled(s, n, b.policy) BY <1>2, <1>7 DEF Agrees
  <1>13. Agrees(b, s, open) BY <1>3, <1>8, <1>9, <1>10, <1>11, <1>12 DEF Agrees
  <1> QED BY <1>1, <1>13

(* A chunk arrives.                                                          *)
LEMMA ArrivalAgrees ==
    ASSUME NEW a, NEW s, Agrees(a, s, TRUE), a.pos = 0, NEW bytes \in Bytes
    PROVE  Agrees([a EXCEPT !.buf = a.buf \o bytes, !.go = TRUE], s \o bytes, TRUE)
  <1>1. PICK b : b = [a EXCEPT !.buf = a.buf \o bytes, !.go = TRUE] OBVIOUS
  <1>2. PICK n : n = a.drained OBVIOUS
  <1>3. /\ a \in AsmType /\ s \in Bytes /\ Len(s) \in Nat /\ n \in Nat
        /\ a.drained + a.pos = n /\ n \in 0..Len(s)
    <2>1. /\ a \in AsmType /\ s \in Bytes /\ Len(s) \in Nat /\ a.drained \in Nat
          /\ a.drained + a.pos \in 0..Len(s)
      BY AgreesFacts
    <2>2. a.drained + a.pos = n BY <1>2, <2>1
    <2> QED BY <1>2, <2>1, <2>2
  <1>4. a.buf \in Bytes /\ a.buf = From(s, n + 1) /\ n + Len(a.buf) = Len(s)
    BY <1>2, <1>3 DEF Agrees, AsmType
  <1>5. PICK w : w = s \o bytes OBVIOUS
  <1>6. n + 1 \in 1..(Len(s) + 1) BY <1>3
  <1>7. w \in Bytes /\ Len(w) = Len(s) + Len(bytes) /\ From(w, n + 1) = a.buf \o bytes
    BY <1>3, <1>4, <1>5, <1>6, FromMore
  <1>8. PICK u : u = a.buf \o bytes OBVIOUS
  <1>9. u \in Bytes /\ Len(u) = Len(a.buf) + Len(bytes) /\ Len(u) \in Nat
    BY <1>4, <1>8, ConcatProperties DEF Bytes
  <1>10. b = [a EXCEPT !.buf = u, !.go = TRUE] BY <1>1, <1>8
  <1>11. /\ b \in AsmType /\ b.buf = u /\ b.pos = 0 /\ b.drained = n
         /\ b.policy = a.policy /\ b.out = a.out /\ b.resync = a.resync
         /\ b.crcFailures = a.crcFailures
    BY <1>2, <1>3, <1>9, <1>10 DEF AsmType
  <1>12. AsmInv(b) BY <1>9, <1>11 DEF AsmInv
  <1>13. b.drained + b.pos = n BY <1>3, <1>11
  <1>14. b.drained + Len(b.buf) = Len(w)
    <2>1. Len(a.buf) \in Nat /\ Len(bytes) \in Nat BY <1>4 DEF Bytes
    <2> QED BY <1>3, <1>4, <1>7, <1>9, <1>11, <2>1
  <1>15. b.buf = From(w, b.drained + 1) BY <1>7, <1>8, <1>11
  <1>16. Settled(s, n, a.policy) BY <1>3 DEF Agrees
  <1>17. Settled(w, n, a.policy) /\ DecodeStream(w, n, a.policy) = DecodeStream(s, n, a.policy)
    BY <1>3, <1>5, <1>16, StreamStays
  <1>18. Found(b, w, n) BY <1>3, <1>11, <1>17 DEF Agrees, Found
  <1>19. Agrees(b, w, TRUE) BY <1>7, <1>11, <1>12, <1>13, <1>14, <1>15, <1>17, <1>18 DEF Agrees
  <1> QED BY <1>1, <1>5, <1>19

(* push of the assembler.                                                    *)
LEMMA AssembleAgrees ==
    ASSUME NEW a, NEW s, AsmRest(a), Agrees(a, s, TRUE), NEW bytes \in Bytes
    PROVE  Agrees(Assemble(a, bytes), s \o bytes, TRUE)
  <1>1. PICK n : n = [a EXCEPT !.buf = a.buf \o bytes, !.go = TRUE] OBVIOUS
  <1>2. Agrees(n, s \o bytes, TRUE) BY <1>1, ArrivalAgrees DEF AsmRest
  <1>3. PICK N : N = Len(n.buf) + 1 OBVIOUS
  <1>4. N \in Nat
    <2>1. n.buf \in Bytes BY <1>2, AgreesFacts DEF AsmType
    <2> QED BY <1>3, <2>1 DEF Bytes
  <1>5. PICK f : /\ f[0] = n /\ f[N] = AssemblerAfter(n, N)
                 /\ \A i \in 1..N : f[i] = PushRound(f[i - 1])
    BY <1>4, AssemblerSteps
  <1>6. Assemble(a, bytes) = Drain(f[N]) BY <1>1, <1>3, <1>5 DEF Assemble, AssemblerAfter
  <1> DEFINE Good(x) == Agrees(x, s \o bytes, TRUE)
             S == {i \in Nat : i <= N => Good(f[i])}
  <1>7. Good(f[0]) BY <1>2, <1>5
  <1> HIDE DEF Good
  <1>8. 0 \in S BY <1>7
  <1>9. ASSUME NEW i \in Nat, i \in S PROVE i + 1 \in S
    <2> SUFFICES ASSUME i + 1 <= N PROVE Good(f[i + 1])
      OBVIOUS
    <2>1. i <= N /\ i + 1 \in 1..N /\ (i + 1) - 1 = i BY <1>4
    <2>2. Good(f[i]) BY <1>9, <2>1
    <2>3. f[i + 1] = PushRound(f[i]) BY <1>5, <2>1
    <2> QED BY <2>2, <2>3, PushRoundAgrees DEF Good
  <1>10. Nat \subseteq S BY <1>8, <1>9, SetInduction
  <1>11. Good(f[N])
    <2>1. N \in S /\ N <= N BY <1>4, <1>10
    <2> QED BY <2>1
  <1> QED BY <1>6, <1>11, DrainAgrees DEF Good

(* finish of the assembler.                                                  *)
LEMMA AssemblerFinishAgrees ==
    ASSUME NEW a, NEW s, Agrees(a, s, TRUE)
    PROVE  Agrees(AssemblerFinish(a), s, FALSE)
  <1>1. PICK n : n = [a EXCEPT !.go = TRUE] OBVIOUS
  <1>2. a \in AsmType /\ AsmInv(a) BY AgreesFacts DEF Agrees
  <1>3. /\ n \in AsmType /\ n.buf = a.buf /\ n.pos = a.pos /\ n.drained = a.drained
        /\ n.policy = a.policy /\ n.out = a.out /\ n.resync = a.resync
        /\ n.crcFailures = a.crcFailures
    BY <1>1, <1>2 DEF AsmType
  <1>4. AsmInv(n) BY <1>2, <1>3 DEF AsmInv
  <1>5. Agrees(n, s, FALSE) BY <1>3, <1>4 DEF Agrees, Found
  <1>6. PICK N : N = Len(a.buf) + 1 OBVIOUS
  <1>7. N \in Nat BY <1>2, <1>6, AheadFacts
  <1>8. PICK f : /\ f[0] = n /\ f[N] = FinishedAfter(n, N)
                 /\ \A i \in 1..N : f[i] = FinishRound(f[i - 1])
    BY <1>7, FinishSteps
  <1>9. AssemblerFinish(a) = Drain(f[N])
    BY <1>1, <1>6, <1>8 DEF AssemblerFinish, FinishedAfter
  <1> DEFINE Good(x) == Agrees(x, s, FALSE)
             S == {i \in Nat : i <= N => Good(f[i])}
  <1>10. Good(f[0]) BY <1>5, <1>8
  <1> HIDE DEF Good
  <1>11. 0 \in S BY <1>10
  <1>12. ASSUME NEW i \in Nat, i \in S PROVE i + 1 \in S
    <2> SUFFICES ASSUME i + 1 <= N PROVE Good(f[i + 1])
      OBVIOUS
    <2>1. i <= N /\ i + 1 \in 1..N /\ (i + 1) - 1 = i BY <1>7
    <2>2. Good(f[i]) BY <1>12, <2>1
    <2>3. f[i + 1] = FinishRound(f[i]) BY <1>8, <2>1
    <2> QED BY <2>2, <2>3, FinishRoundAgrees DEF Good
  <1>13. Nat \subseteq S BY <1>11, <1>12, SetInduction
  <1>14. Good(f[N])
    <2>1. N \in S /\ N <= N BY <1>7, <1>13
    <2> QED BY <2>1
  <1> QED BY <1>9, <1>14, DrainAgrees DEF Good

(* Every payload of a call.                                                  *)
LEMMA AssembleEventsAgrees ==
    ASSUME NEW a, NEW s, AsmRest(a), Agrees(a, s, TRUE), NEW t \in Seq(Events)
    PROVE  Agrees(AssembleEvents(a, t), s \o PayloadOf(t), TRUE)
  <1>1. PICK f : /\ f[0] = <<>> /\ PayloadOf(t) = f[Len(t)]
                 /\ \A i \in 1..Len(t) : f[i] = Joining(f[i - 1], t[i])
    BY PayloadSteps
  <1>2. PICK g : /\ g[0] = a /\ AssembleEvents(a, t) = g[Len(t)]
                 /\ \A i \in 1..Len(t) : g[i] = Assembling(g[i - 1], t[i])
    BY AssembleEventsSteps
  <1>3. s \in Bytes BY DEF Agrees
  <1> DEFINE Good(b, bytes) == AsmRest(b) /\ bytes \in Bytes /\ Agrees(b, s \o bytes, TRUE)
             S == {i \in Nat : i <= Len(t) => Good(g[i], f[i])}
  <1>4. Len(t) \in Nat OBVIOUS
  <1>5. 0 \in S
    <2>1. s \o <<>> = s BY <1>3, ConcatEmptySeq DEF Bytes
    <2>2. Good(a, <<>>) BY <2>1, EmptyBytes
    <2> HIDE DEF Good
    <2> QED BY <1>1, <1>2, <2>2
  <1>6. ASSUME NEW i \in Nat, i \in S PROVE i + 1 \in S
    <2> HIDE DEF Good
    <2> SUFFICES ASSUME i + 1 <= Len(t) PROVE Good(g[i + 1], f[i + 1])
      OBVIOUS
    <2>1. i <= Len(t) /\ i + 1 \in 1..Len(t) /\ (i + 1) - 1 = i BY <1>4
    <2>2. PICK b : b = g[i] OBVIOUS
    <2>3. PICK bytes : bytes = f[i] OBVIOUS
    <2>4. Good(b, bytes) BY <1>6, <2>1, <2>2, <2>3
    <2>5. t[i + 1] \in Events BY <2>1
    <2>6. g[i + 1] = Assembling(b, t[i + 1]) BY <1>2, <2>1, <2>2
    <2>7. f[i + 1] = Joining(bytes, t[i + 1]) BY <1>1, <2>1, <2>3
    <2>8. CASE t[i + 1][1] = "Payload"
      <3>1. PICK more : more = t[i + 1][2] OBVIOUS
      <3>2. more \in Bytes BY <2>5, <2>8, <3>1 DEF Events, Ends
      <3>3. g[i + 1] = Assemble(b, more) BY <2>6, <2>8, <3>1 DEF Assembling
      <3>4. f[i + 1] = bytes \o more BY <2>7, <2>8, <3>1 DEF Joining
      <3>5. bytes \o more \in Bytes /\ (s \o bytes) \o more = s \o (bytes \o more)
        BY <1>3, <2>4, <3>2, ConcatProperties, ConcatAssociative DEF Bytes, Good
      <3>6. AsmRest(Assemble(b, more)) BY <2>4, <3>2, AssembleFacts DEF Good
      <3>7. Agrees(Assemble(b, more), (s \o bytes) \o more, TRUE)
        BY <2>4, <3>2, AssembleAgrees DEF Good
      <3>8. Good(Assemble(b, more), bytes \o more) BY <3>5, <3>6, <3>7 DEF Good
      <3> QED BY <3>3, <3>4, <3>8
    <2>9. CASE t[i + 1][1] # "Payload"
      <3>1. g[i + 1] = b /\ f[i + 1] = bytes BY <2>6, <2>7, <2>9 DEF Assembling, Joining
      <3> QED BY <2>4, <3>1
    <2> QED BY <2>8, <2>9
  <1>7. Nat \subseteq S BY <1>5, <1>6, SetInduction
  <1>8. Good(g[Len(t)], f[Len(t)])
    <2> HIDE DEF Good
    <2>1. Len(t) \in S /\ Len(t) <= Len(t) BY <1>4, <1>7
    <2> QED BY <2>1
  <1> QED BY <1>1, <1>2, <1>8

(* An assembler that was given nothing.                                      *)
LEMMA NewAssemblerAgrees ==
    ASSUME NEW policy \in {"Strict", "Lenient"}
    PROVE  Agrees(NewAssembler(policy), <<>>, TRUE)
  <1>1. PICK a : a = NewAssembler(policy) OBVIOUS
  <1>2. AsmInv(a) BY <1>1, NewAssemblerFacts DEF AsmRest
  <1>3. /\ a.buf = <<>> /\ a.drained = 0 /\ a.pos = 0 /\ a.out = <<>> /\ a.resync = 0
        /\ a.crcFailures = 0
    BY <1>1 DEF NewAssembler
  <1>4. From(<<>>, 1) = <<>>
    <2>1. From(<<>>, 1) \in Bytes /\ Len(From(<<>>, 1)) = 0
      <3>1. Len(<<>>) = 0 /\ <<>> \in Bytes /\ 1 \in 1..(Len(<<>>) + 1) BY EmptyBytes
      <3>2. Len(From(<<>>, 1)) = (Len(<<>>) - 1) + 1 /\ From(<<>>, 1) \in Bytes
        BY <3>1, FromFacts
      <3> QED BY <3>1, <3>2
    <2> QED BY <2>1 DEF Bytes
  <1>5. DecodeStream(<<>>, 0, a.policy) = NothingRead BY StreamLaw
  <1>6. Found(a, <<>>, 0) BY <1>3, <1>5 DEF Found, NothingRead
  <1>7. Settled(<<>>, 0, a.policy) BY DEF Settled
  <1>8. a.drained + a.pos = 0 /\ a.drained + 1 = 1 /\ a.drained + Len(a.buf) = Len(<<>>)
    BY <1>3, EmptyBytes
  <1>9. Agrees(a, <<>>, TRUE) BY <1>2, <1>3, <1>4, <1>6, <1>7, <1>8, EmptyBytes DEF Agrees
  <1> QED BY <1>1, <1>9

-----------------------------------------------------------------------------
(* The client *)

ScriptType ==
    [open : Bytes, symbols : SUBSET Symbols, more : Nat, policy : {"Strict", "Lenient"}]

(* What is on the wire, symbol by symbol.                                    *)
Tailing(s, t) ==
    /\ Len(s) <= Len(t)
    /\ \A i \in 1..Len(s) : s[i] = t[Len(t) - Len(s) + i]

(* Why TypeOK and BuffersBounded hold.  Tight is the part about the machine: *)
(* it also says where the limits are checked, so that a table read from a    *)
(* chunked body is kept apart from the carry of the headers, and a decoder   *)
(* that met the end of its body is not kept between two calls.               *)
ClientInv ==
    /\ MachineOK(mach) /\ ~ mach.go /\ Tight(mach)
    /\ script \in ScriptType
    /\ sent \in Bytes /\ wire \in Bytes /\ Tailing(wire, sent)
    /\ eof \in BOOLEAN /\ ended \in BOOLEAN /\ (eof => wire = <<>>)
    /\ log \in Seq(Events)
    /\ AsmRest(asm)

(* Tailing is what IsSuffix says.                                            *)
LEMMA TailingIsSuffix ==
    ASSUME NEW s \in Bytes, NEW t \in Bytes, Tailing(s, t)
    PROVE  IsSuffix(s, t)
  <1> DEFINE r == Reverse(s)
             q == Reverse(t)
  <1>1. Len(s) \in Nat /\ Len(t) \in Nat /\ Len(s) <= Len(t) BY DEF Bytes, Tailing
  <1>2. \A i \in 1..Len(s) : s[i] \in Symbols BY ElementOfSeq DEF Bytes
  <1>3. \A i \in 1..Len(t) : t[i] \in Symbols BY ElementOfSeq DEF Bytes
  <1>4. r \in Bytes /\ Len(r) = Len(s)
    <2>1. r = [i \in 1..Len(s) |-> s[(Len(s) - i) + 1]] BY DEF Reverse
    <2>2. \A i \in 1..Len(s) : (Len(s) - i) + 1 \in 1..Len(s) BY <1>1
    <2>3. r \in [1..Len(s) -> Symbols] BY <1>2, <2>1, <2>2
    <2> QED BY <1>1, <2>3 DEF Bytes
  <1>5. q \in Bytes /\ Len(q) = Len(t)
    <2>1. q = [i \in 1..Len(t) |-> t[(Len(t) - i) + 1]] BY DEF Reverse
    <2>2. \A i \in 1..Len(t) : (Len(t) - i) + 1 \in 1..Len(t) BY <1>1
    <2>3. q \in [1..Len(t) -> Symbols] BY <1>3, <2>1, <2>2
    <2> QED BY <1>1, <2>3 DEF Bytes
  <1>6. \A i \in 1..Len(s) : r[i] = q[i]
    <2> TAKE i \in 1..Len(s)
    <2>1. r[i] = s[(Len(s) - i) + 1] BY DEF Reverse
    <2>2. i \in 1..Len(t) BY <1>1
    <2>3. q[i] = t[(Len(t) - i) + 1] BY <2>2 DEF Reverse
    <2>4. /\ (Len(s) - i) + 1 \in 1..Len(s)
          /\ Len(t) - Len(s) + ((Len(s) - i) + 1) = (Len(t) - i) + 1
      BY <1>1
    <2>5. s[(Len(s) - i) + 1] = t[Len(t) - Len(s) + ((Len(s) - i) + 1)] BY <2>4 DEF Tailing
    <2> QED BY <2>1, <2>3, <2>4, <2>5
  <1> HIDE DEF r, q
  <1>7. SubSeq(r, 1, Len(r)) = SubSeq(q, 1, Len(r))
    <2> DEFINE k == Len(s)
               a == SubSeq(r, 1, k)
               b == SubSeq(q, 1, k)
    <2>1. k \in Nat /\ k <= Len(q) /\ k <= Len(r) BY <1>1, <1>4, <1>5
    <2>2. /\ a \in Seq(Symbols) /\ Len(a) = k
          /\ \A i \in 1..k : a[i] = r[i]
      <3>1. \A i \in 1..k : r[i] \in Symbols BY <1>4, ElementOfSeq DEF Bytes
      <3>2. Len(a) = IF 1 <= k THEN k - 1 + 1 ELSE 0 BY <2>1, <3>1, SubSeqProperties
      <3>3. Len(a) = k BY <2>1, <3>2
      <3>4. a \in Seq(Symbols) BY <2>1, <3>1, SubSeqProperties
      <3>5. \A i \in 1..(k - 1 + 1) : a[i] = r[1 + i - 1] BY <2>1, <3>1, SubSeqProperties
      <3>6. \A i \in 1..k : i \in 1..(k - 1 + 1) /\ 1 + i - 1 = i BY <2>1
      <3> QED BY <3>3, <3>4, <3>5, <3>6
    <2>3. /\ b \in Seq(Symbols) /\ Len(b) = k
          /\ \A i \in 1..k : b[i] = q[i]
      <3>1. \A i \in 1..k : q[i] \in Symbols BY <1>5, <2>1, ElementOfSeq DEF Bytes
      <3>2. Len(b) = IF 1 <= k THEN k - 1 + 1 ELSE 0 BY <2>1, <3>1, SubSeqProperties
      <3>3. Len(b) = k BY <2>1, <3>2
      <3>4. b \in Seq(Symbols) BY <2>1, <3>1, SubSeqProperties
      <3>5. \A i \in 1..(k - 1 + 1) : b[i] = q[1 + i - 1] BY <2>1, <3>1, SubSeqProperties
      <3>6. \A i \in 1..k : i \in 1..(k - 1 + 1) /\ 1 + i - 1 = i BY <2>1
      <3> QED BY <3>3, <3>4, <3>5, <3>6
    <2> HIDE DEF a, b
    <2>4. a = b BY <1>6, <2>2, <2>3, SeqEqual
    <2> QED BY <1>4, <2>4 DEF a, b
  <1>8. Len(r) <= Len(q) BY <1>1, <1>4, <1>5
  <1> QED BY <1>7, <1>8 DEF IsSuffix, IsPrefix, r, q

(* A symbol goes on the wire as it is sent.                                  *)
LEMMA TailingAppend ==
    ASSUME NEW s \in Bytes, NEW t \in Bytes, Tailing(s, t), NEW x \in Symbols
    PROVE  /\ Append(s, x) \in Bytes /\ Append(t, x) \in Bytes
           /\ Tailing(Append(s, x), Append(t, x))
  <1>1. PICK k \in Nat : k = Len(s) BY DEF Bytes
  <1>2. PICK l \in Nat : l = Len(t) BY DEF Bytes
  <1>3. /\ Append(s, x) \in Bytes /\ Len(Append(s, x)) = k + 1
        /\ \A i \in 1..k : Append(s, x)[i] = s[i]
        /\ Append(s, x)[k + 1] = x
    BY <1>1, AppendProperties DEF Bytes
  <1>4. /\ Append(t, x) \in Bytes /\ Len(Append(t, x)) = l + 1
        /\ \A i \in 1..l : Append(t, x)[i] = t[i]
        /\ Append(t, x)[l + 1] = x
    BY <1>2, AppendProperties DEF Bytes
  <1>5. k <= l /\ \A i \in 1..k : s[i] = t[l - k + i] BY <1>1, <1>2 DEF Tailing
  <1>6. ASSUME NEW i \in 1..(k + 1)
        PROVE  Append(s, x)[i] = Append(t, x)[(l + 1) - (k + 1) + i]
    <2>1. CASE i = k + 1
      <3>1. (l + 1) - (k + 1) + i = l + 1 BY <2>1
      <3> QED BY <1>3, <1>4, <2>1, <3>1
    <2>2. CASE i # k + 1
      <3>1. /\ i \in 1..k /\ (l + 1) - (k + 1) + i = l - k + i
            /\ l - k + i \in 1..l
        BY <1>5, <2>2
      <3> QED BY <1>3, <1>4, <1>5, <3>1
    <2> QED BY <2>1, <2>2
  <1>7. k + 1 <= l + 1 BY <1>5
  <1> QED BY <1>3, <1>4, <1>6, <1>7 DEF Tailing

(* Nothing on the wire.                                                      *)
LEMMA TailingNothing ==
    ASSUME NEW t \in Bytes
    PROVE  Tailing(<<>>, t)
  <1>1. Len(t) \in Nat /\ Len(<<>>) = 0 BY EmptyBytes DEF Bytes
  <1> QED BY <1>1 DEF Tailing

(* The inductive step, action by action.                                     *)
LEMMA StepKeepsClient == ClientInv /\ [Next]_vars => ClientInv'
  <1> SUFFICES ASSUME ClientInv, [Next]_vars PROVE ClientInv'
    OBVIOUS
  <1>1. CASE Request
    <2>1. MachineOK(mach') /\ ~ mach'.go BY <1>1, RequestFacts DEF Request, ClientInv
    <2>2. Tight(mach')
      <3>1. mach \in MachineType BY DEF ClientInv, MachineOK
      <3>2. mach' = [mach EXCEPT !.st = "AwaitingStatus"] BY <1>1 DEF Request, ConnectionRequest
      <3>3. /\ mach'.carry = mach.carry /\ mach'.tcarry = mach.tcarry /\ mach'.dec = mach.dec
            /\ mach'.go = mach.go /\ mach'.hbytes = mach.hbytes /\ mach'.text = mach.text
            /\ mach'.tchunked = mach.tchunked
        BY <3>1, <3>2 DEF MachineType
      <3> QED BY <1>1, <3>3 DEF Tight, ClientInv, Request
    <2> QED BY <1>1, <2>1, <2>2 DEF Request, ClientInv
  <1>2. CASE CasterSends
    <2>1. PICK x \in NextSymbols : sent' = Append(sent, x) /\ wire' = Append(wire, x)
      BY <1>2 DEF CasterSends
    <2>2. x \in Symbols
      <3>1. script.open \in Seq(Symbols) /\ script.symbols \subseteq Symbols
        BY DEF ClientInv, ScriptType, Bytes
      <3>2. Len(sent) \in Nat BY DEF ClientInv, Bytes
      <3>3. CASE Len(sent) < Len(script.open)
        <4>1. x = script.open[Len(sent) + 1] BY <2>1, <3>3 DEF NextSymbols
        <4>2. Len(sent) + 1 \in 1..Len(script.open) BY <3>1, <3>2, <3>3
        <4> QED BY <3>1, <4>1, <4>2, ElementOfSeq
      <3>4. CASE ~ (Len(sent) < Len(script.open))
        BY <2>1, <3>1, <3>4 DEF NextSymbols
      <3> QED BY <3>3, <3>4
    <2>3. sent' \in Bytes /\ wire' \in Bytes /\ Tailing(wire', sent')
      BY <2>1, <2>2, TailingAppend DEF ClientInv
    <2> QED BY <1>2, <2>3 DEF CasterSends, ClientInv
  <1>3. CASE ClientPush
    <2>1. /\ mach' = Push(mach, wire) /\ log' = log \o mach'.ev /\ wire' = <<>>
          /\ asm' = AssembleEvents(asm, mach'.ev)
          /\ UNCHANGED <<script, sent, eof, ended>>
      BY <1>3 DEF ClientPush
    <2>2. MachineOK(mach') /\ ~ mach'.go /\ Tight(mach')
      BY <2>1, PushFacts DEF ClientInv
    <2>3. mach'.ev \in Seq(Events) BY <2>2 DEF MachineOK, MachineType
    <2>4. log' \in Seq(Events) BY <2>1, <2>3, ConcatProperties DEF ClientInv
    <2>5. AsmRest(asm') BY <2>1, <2>3, AssembleEventsFacts DEF ClientInv
    <2>6. wire' \in Bytes /\ Tailing(wire', sent') BY <2>1, EmptyBytes, TailingNothing DEF ClientInv
    <2> QED BY <2>1, <2>2, <2>4, <2>5, <2>6 DEF ClientInv
  <1>4. CASE ClientFinish
    <2>1. /\ mach' = Finish(mach) /\ log' = log \o mach'.ev /\ wire = <<>> /\ eof' = TRUE
          /\ UNCHANGED <<script, sent, wire, asm, ended>>
      BY <1>4 DEF ClientFinish
    <2>2. MachineOK(mach') /\ ~ mach'.go /\ Tight(mach')
      BY <2>1, FinishFacts DEF ClientInv
    <2>3. mach'.ev \in Seq(Events) BY <2>2 DEF MachineOK, MachineType
    <2>4. log' \in Seq(Events) BY <2>1, <2>3, ConcatProperties DEF ClientInv
    <2> QED BY <2>1, <2>2, <2>4 DEF ClientInv
  <1>5. CASE ClientReset
    <2>1. /\ mach' = NewMachine /\ sent' = <<>> /\ eof' = FALSE /\ log' = <<>>
          /\ script' = [script EXCEPT !.more = script.more - Len(PayloadOf(log))]
          /\ Len(PayloadOf(log)) <= script.more /\ eof
          /\ UNCHANGED <<wire, asm, ended>>
      BY <1>5 DEF ClientReset
    <2>2. PICK k : k = script.more - Len(PayloadOf(log)) OBVIOUS
    <2>3. k \in Nat
      <3>1. Len(PayloadOf(log)) \in Nat BY PayloadFacts DEF ClientInv, Bytes
      <3>2. script.more \in Nat BY DEF ClientInv, ScriptType
      <3> QED BY <2>1, <2>2, <3>1, <3>2
    <2>4. script' = [script EXCEPT !.more = k] BY <2>1, <2>2
    <2>5. script' \in ScriptType BY <2>3, <2>4 DEF ClientInv, ScriptType
    <2>6. wire' = <<>> BY <2>1 DEF ClientInv
    <2>7. Tailing(wire', sent') /\ wire' \in Bytes /\ sent' \in Bytes
      BY <2>1, <2>6, EmptyBytes, TailingNothing
    <2>8. log' \in Seq(Events) BY <2>1
    <2> QED BY <2>1, <2>5, <2>6, <2>7, <2>8, NewMachineFacts DEF ClientInv
  <1>6. CASE EndOfFrames
    <2>1. AsmRest(asm') BY <1>6, AssemblerFinishFacts DEF EndOfFrames, ClientInv
    <2> QED BY <1>6, <2>1 DEF EndOfFrames, ClientInv
  <1>7. CASE NextReader
    <2>1. /\ script' \in Scripts /\ mach' = NewMachine /\ asm' = NewAssembler(script'.policy)
          /\ sent' = <<>> /\ wire' = <<>> /\ log' = <<>> /\ eof' = FALSE /\ ended' = FALSE
      BY <1>7 DEF NextReader
    <2>2. script' \in ScriptType BY <2>1, ScriptAssumption DEF ScriptType, Bytes
    <2>3. script'.policy \in {"Strict", "Lenient"} BY <2>2 DEF ScriptType
    <2>4. AsmRest(asm') BY <2>1, <2>3, NewAssemblerFacts
    <2>5. Tailing(wire', sent') /\ wire' \in Bytes /\ sent' \in Bytes
      BY <2>1, EmptyBytes, TailingNothing
    <2>6. log' \in Seq(Events) BY <2>1
    <2> QED BY <2>1, <2>2, <2>4, <2>5, <2>6, NewMachineFacts DEF ClientInv
  <1>8. CASE UNCHANGED vars BY <1>8 DEF vars, ClientInv
  <1> QED BY <1>1, <1>2, <1>3, <1>4, <1>5, <1>6, <1>7, <1>8 DEF Next

(* The invariant holds of every behaviour of the client.                     *)
LEMMA ClientInvariant == Spec => []ClientInv
  <1>1. ASSUME Init PROVE ClientInv
    <2>1. /\ script \in Scripts /\ mach = NewMachine /\ asm = NewAssembler(script.policy)
          /\ sent = <<>> /\ wire = <<>> /\ log = <<>> /\ eof = FALSE /\ ended = FALSE
      BY <1>1 DEF Init
    <2>2. script \in ScriptType BY <2>1, ScriptAssumption DEF ScriptType, Bytes
    <2>3. script.policy \in {"Strict", "Lenient"} BY <2>2 DEF ScriptType
    <2>4. AsmRest(asm) BY <2>1, <2>3, NewAssemblerFacts
    <2>5. Tailing(wire, sent) /\ wire \in Bytes /\ sent \in Bytes
      BY <2>1, EmptyBytes, TailingNothing
    <2>6. log \in Seq(Events) BY <2>1
    <2> QED BY <2>1, <2>2, <2>4, <2>5, <2>6, NewMachineFacts DEF ClientInv
  <1> QED BY <1>1, StepKeepsClient, PTL DEF Spec

(* No push of the machine or of its decoder is left half done, whatever was  *)
(* read: every round of the loops of push consumes something or stops, and   *)
(* the bound on the rounds in Push is never what ends them.                  *)
THEOREM ClientTypeCorrect == Spec => []TypeOK
  <1>1. ClientInv => TypeOK
    <2> SUFFICES ASSUME ClientInv PROVE TypeOK
      OBVIOUS
    <2>1. mach.st \in States /\ ~ mach.go /\ ~ mach.dec.more
      BY DEF ClientInv, MachineOK, MachineType
    <2>2. script.more \in Nat BY DEF ClientInv, ScriptType
    <2>3. IsSuffix(wire, sent) BY TailingIsSuffix DEF ClientInv
    <2> QED BY <2>1, <2>2, <2>3 DEF ClientInv, TypeOK
  <1> QED BY <1>1, ClientInvariant, PTL

(* No caster makes an open machine keep more than a line, more headers or    *)
(* more table text than the limits between two reads, or the assembler more  *)
(* than a frame (take_line_or_reject, read_line, push_sourcetable_line,      *)
(* SsrStreamAssembler::push), whatever the limits are.                       *)
THEOREM BuffersStayBounded == Spec => []BuffersBounded
  <1>1. ClientInv => BuffersBounded
    <2> SUFFICES ASSUME ClientInv PROVE BuffersBounded
      OBVIOUS
    <2>1. Len(asm.buf) < MaxFrame BY DEF ClientInv, AsmRest
    <2>2. ASSUME mach.st # "Closed"
          PROVE  /\ Len(mach.carry) <= MaxLine
                 /\ Len(mach.tcarry) <= MaxLine
                 /\ Len(mach.dec.buf) <= MaxLine
                 /\ mach.hbytes <= MaxHeaders
                 /\ TextLen(mach.text) <= MaxTable
      <3>1. /\ mach.hbytes <= MaxHeaders /\ TextLen(mach.text) <= MaxTable
            /\ ~ mach.dec.poison /\ ~ mach.dec.finished
            /\ Len(mach.carry) <= MaxLine /\ Len(mach.tcarry) <= MaxLine
        BY <2>2 DEF ClientInv, Tight
      <3>2. Len(mach.dec.buf) <= MaxLine
        BY <3>1 DEF ClientInv, MachineOK, DecoderInv, Kept
      <3> QED BY <3>1, <3>2
    <2> QED BY <2>1, <2>2 DEF BuffersBounded
  <1> QED BY <1>1, ClientInvariant, PTL

-----------------------------------------------------------------------------
(* The frames of a payload in pieces *)

(* Why AssemblyIndependent holds: until finish is called the assembler has   *)
(* passed over no frame that has not arrived whole, so what comes later      *)
(* changes nothing of what it has found; and nothing comes after finish.     *)
StreamInv ==
    /\ Agrees(asm, received, ~ ended)
    /\ ended => eof /\ asm.buf = <<>>

(* The inductive step, action by action.                                     *)
LEMMA StepKeepsStream == ClientInv /\ StreamInv /\ [Next]_vars => StreamInv'
  <1> SUFFICES ASSUME ClientInv, StreamInv, [Next]_vars PROVE StreamInv'
    OBVIOUS
  <1>1. CASE UNCHANGED <<asm, received, ended, eof>> BY <1>1 DEF StreamInv
  <1>2. CASE ClientPush
    <2>1. /\ mach' = Push(mach, wire) /\ asm' = AssembleEvents(asm, mach'.ev)
          /\ received' = received \o PayloadOf(mach'.ev) /\ wire # <<>>
          /\ eof' = eof /\ ended' = ended
      BY <1>2 DEF ClientPush
    <2>2. ~ ended BY <2>1 DEF ClientInv, StreamInv
    <2>3. MachineOK(mach') BY <2>1, PushFacts DEF ClientInv
    <2>4. mach'.ev \in Seq(Events) BY <2>3 DEF MachineOK, MachineType
    <2>5. AsmRest(asm) /\ Agrees(asm, received, TRUE) BY <2>2 DEF ClientInv, StreamInv
    <2>6. Agrees(asm', received', TRUE) BY <2>1, <2>4, <2>5, AssembleEventsAgrees
    <2> QED BY <2>1, <2>2, <2>6 DEF StreamInv
  <1>3. CASE ClientFinish
    <2>1. UNCHANGED <<asm, received, ended>> /\ ~ eof BY <1>3 DEF ClientFinish
    <2> QED BY <2>1 DEF StreamInv
  <1>4. CASE ClientReset
    <2>1. UNCHANGED <<asm, received, ended>> /\ ~ ended BY <1>4 DEF ClientReset
    <2> QED BY <2>1 DEF StreamInv
  <1>5. CASE EndOfFrames
    <2>1. /\ asm' = AssemblerFinish(asm) /\ ended' = TRUE /\ ~ ended /\ eof
          /\ received' = received /\ eof' = eof
      BY <1>5 DEF EndOfFrames
    <2>2. AsmRest(asm) /\ Agrees(asm, received, TRUE) BY <2>1 DEF ClientInv, StreamInv
    <2>3. Agrees(asm', received', FALSE) BY <2>1, <2>2, AssemblerFinishAgrees
    <2>4. asm'.buf = <<>> BY <2>1, <2>2, AssemblerFinishFacts
    <2> QED BY <2>1, <2>3, <2>4 DEF StreamInv
  <1>6. CASE NextReader
    <2>1. /\ script' \in Scripts /\ asm' = NewAssembler(script'.policy)
          /\ received' = <<>> /\ ended' = FALSE
      BY <1>6 DEF NextReader
    <2>2. script'.policy \in {"Strict", "Lenient"} BY <2>1, ScriptAssumption
    <2>3. Agrees(asm', received', TRUE) BY <2>1, <2>2, NewAssemblerAgrees
    <2> QED BY <2>1, <2>3 DEF StreamInv
  <1>7. Request \/ CasterSends \/ UNCHANGED vars => UNCHANGED <<asm, received, ended, eof>>
    BY DEF Request, CasterSends, vars
  <1> QED BY <1>1, <1>2, <1>3, <1>4, <1>5, <1>6, <1>7 DEF Next

(* However the payload was cut into reads, chunks and connections, the       *)
(* assembler finds the frames, the bytes outside frames and the checksum     *)
(* failures that decode_stream finds in the payload in the whole, keeps what *)
(* it has not read, and finish leaves nothing (push and finish of            *)
(* SsrStreamAssembler, decode_stream_with_policy of rtcm/mod.rs).            *)
THEOREM AssembledAsInTheWhole == Spec => []AssemblyIndependent
  <1>1. ASSUME Init PROVE StreamInv
    <2>1. /\ script \in Scripts /\ asm = NewAssembler(script.policy)
          /\ received = <<>> /\ ended = FALSE
      BY <1>1 DEF Init
    <2>2. script.policy \in {"Strict", "Lenient"} BY <2>1, ScriptAssumption
    <2>3. Agrees(asm, received, TRUE) BY <2>1, <2>2, NewAssemblerAgrees
    <2> QED BY <2>1, <2>3 DEF StreamInv
  <1>2. ClientInv /\ StreamInv => AssemblyIndependent
    <2> SUFFICES ASSUME ClientInv, StreamInv PROVE AssemblyIndependent
      OBVIOUS
    <2>1. asm.pos = 0 BY DEF ClientInv, AsmRest
    <2>2. asm.drained + asm.pos = asm.drained BY <2>1, AgreesFacts DEF StreamInv
    <2>3. Found(asm, received, asm.drained) /\ asm.buf = From(received, asm.drained + 1)
      BY <2>2 DEF StreamInv, Agrees
    <2>4. ended => asm.buf = <<>> BY DEF StreamInv
    <2> QED BY <2>3, <2>4 DEF AssemblyIndependent, Found
  <1> QED BY <1>1, <1>2, ClientInvariant, StepKeepsStream, PTL DEF Spec

-----------------------------------------------------------------------------
(* What a log says *)

(* Notices, event by event.                                                  *)
Telling(told, e) == IF e[1] = "Payload" THEN told ELSE Append(told, e)

(* Notices is the fold it says, one event after the other.                  *)
LEMMA NoticesSteps ==
    ASSUME NEW t \in Seq(Events)
    PROVE  \E f : /\ f[0] = <<>> /\ Notices(t) = f[Len(t)]
                  /\ \A i \in 1..Len(t) : f[i] = Telling(f[i - 1], t[i])
  <1> DEFINE Val(g, s) == IF s = {} THEN <<>> ELSE Telling(g[s \ {Max(s)}], t[Max(s)])
             Good(g, k) == g = [s \in SUBSET (1..k) |-> Val(g, s)]
             S == {k \in Nat : \E g : Good(g, k)}
  <1>1. Len(t) \in Nat /\ DOMAIN t = 1..Len(t) OBVIOUS
  <1>2. 0 \in S
    <2> DEFINE g == [s \in SUBSET (1..0) |-> <<>>]
    <2>1. \A s \in SUBSET (1..0) : s = {} OBVIOUS
    <2>2. \A s \in SUBSET (1..0) : Val(g, s) = <<>> BY <2>1
    <2>3. Good(g, 0) BY <2>2
    <2>4. \E x : Good(x, 0)
      <3> HIDE DEF Good, g
      <3> QED BY <2>3
    <2> QED BY <2>4
  <1>3. ASSUME NEW k \in Nat, k \in S PROVE k + 1 \in S
    <2>1. PICK g : Good(g, k) BY <1>3
    <2> DEFINE h == [s \in SUBSET (1..(k + 1)) |->
                        IF k + 1 \in s THEN Telling(g[s \ {k + 1}], t[k + 1]) ELSE g[s]]
    <2>2. ASSUME NEW s \in SUBSET (1..(k + 1)) PROVE h[s] = Val(h, s)
      <3>1. CASE k + 1 \in s
        <4>1. Max(s) = k + 1
          <5>1. s \subseteq 0..(k + 1) /\ s # {} /\ k + 1 \in Nat BY <3>1
          <5>2. Max(s) \in s /\ \A y \in s : y <= Max(s) BY <5>1, MaxIsGreatest
          <5>3. Max(s) \in 0..(k + 1) BY <5>1, <5>2
          <5>4. k + 1 <= Max(s) BY <3>1, <5>2
          <5> QED BY <5>3, <5>4
        <4>2. s \ {k + 1} \in SUBSET (1..(k + 1)) /\ k + 1 \notin s \ {k + 1} OBVIOUS
        <4>3. h[s \ {k + 1}] = g[s \ {k + 1}] BY <4>2
        <4>4. h[s] = Telling(g[s \ {k + 1}], t[k + 1]) BY <3>1
        <4>5. Val(h, s) = Telling(h[s \ {k + 1}], t[k + 1]) BY <3>1, <4>1
        <4> HIDE DEF h, Val, Good
        <4> QED BY <4>3, <4>4, <4>5
      <3>2. CASE k + 1 \notin s
        <4>1. s \in SUBSET (1..k)
          <5>1. \A x \in s : x \in 1..(k + 1) /\ x # k + 1 BY <3>2
          <5> QED BY <5>1
        <4>2. h[s] = g[s] BY <3>2
        <4>3. g[s] = Val(g, s) BY <2>1, <4>1
        <4>4. CASE s = {} BY <4>2, <4>3, <4>4
        <4>5. CASE s # {}
          <5>1. s \ {Max(s)} \in SUBSET (1..(k + 1)) /\ k + 1 \notin s \ {Max(s)} BY <3>2
          <5>2. h[s \ {Max(s)}] = g[s \ {Max(s)}] BY <5>1
          <5>3. Val(h, s) = Val(g, s) BY <4>5, <5>2
          <5> HIDE DEF h, Val, Good
          <5> QED BY <4>2, <4>3, <5>3
        <4> QED BY <4>4, <4>5
      <3> QED BY <3>1, <3>2
    <2>3. Good(h, k + 1) BY <2>2
    <2> HIDE DEF h, Val, Good
    <2> QED BY <2>3
  <1>4. Len(t) \in S BY <1>1, <1>2, <1>3, SetInduction
  <1> DEFINE g == CHOOSE g : g = [s \in SUBSET (DOMAIN t) |-> Val(g, s)]
             f == [i \in 0..Len(t) |-> g[1..i]]
  <1>5. Good(g, Len(t)) BY <1>1, <1>4
  <1>6. Notices(t) = g[DOMAIN t] BY DEF Notices, Telling, FoldLeft, MapThenFoldSet
  <1> HIDE DEF g
  <1>7. f[Len(t)] = Notices(t) BY <1>1, <1>6
  <1>8. f[0] = <<>>
    <2>1. 1..0 = {} /\ 1..0 \in SUBSET (1..Len(t)) OBVIOUS
    <2> QED BY <1>1, <1>5, <2>1
  <1>9. ASSUME NEW i \in 1..Len(t) PROVE f[i] = Telling(f[i - 1], t[i])
    <2>1. 1..i \in SUBSET (1..Len(t)) /\ i \in 1..i /\ i \in Nat BY <1>1
    <2>2. Max(1..i) = i BY <2>1, MaxUpTo
    <2>3. (1..i) \ {i} = 1..(i - 1) BY <2>1
    <2>4. g[1..i] = Val(g, 1..i) BY <1>5, <2>1
    <2>5. Val(g, 1..i) = Telling(g[1..(i - 1)], t[i]) BY <2>1, <2>2, <2>3
    <2>6. i - 1 \in 0..Len(t) /\ i \in 0..Len(t) BY <1>1
    <2>7. f[i] = g[1..i] /\ f[i - 1] = g[1..(i - 1)] BY <2>6
    <2> QED BY <2>4, <2>5, <2>7
  <1> HIDE DEF f
  <1> QED BY <1>7, <1>8, <1>9

(* Notices are events.                                                      *)
LEMMA NoticesFacts ==
    ASSUME NEW t \in Seq(Events)
    PROVE  Notices(t) \in Seq(Events)
  <1>1. PICK f : /\ f[0] = <<>> /\ Notices(t) = f[Len(t)]
                 /\ \A i \in 1..Len(t) : f[i] = Telling(f[i - 1], t[i])
    BY NoticesSteps
  <1> DEFINE S == {i \in Nat : i <= Len(t) => f[i] \in Seq(Events)}
  <1>2. Len(t) \in Nat OBVIOUS
  <1>3. 0 \in S
    <2>1. <<>> \in Seq(Events) OBVIOUS
    <2>2. f[0] \in Seq(Events) BY <1>1, <2>1
    <2> QED BY <2>2
  <1>4. ASSUME NEW i \in Nat, i \in S PROVE i + 1 \in S
    <2> SUFFICES ASSUME i + 1 <= Len(t) PROVE f[i + 1] \in Seq(Events)
      OBVIOUS
    <2>1. i <= Len(t) /\ i + 1 \in 1..Len(t) /\ (i + 1) - 1 = i BY <1>2
    <2>2. f[i] \in Seq(Events) /\ t[i + 1] \in Events BY <1>4, <2>1
    <2>3. f[i + 1] = Telling(f[i], t[i + 1]) BY <1>1, <2>1
    <2> QED BY <2>2, <2>3, AppendProperties DEF Telling
  <1>5. Nat \subseteq S BY <1>3, <1>4, SetInduction
  <1> QED BY <1>1, <1>2, <1>5

(* What a call says is added to what the calls before it said.               *)
LEMMA PayloadConcat ==
    ASSUME NEW s \in Seq(Events), NEW t \in Seq(Events)
    PROVE  /\ s \o t \in Seq(Events)
           /\ PayloadOf(s \o t) = PayloadOf(s) \o PayloadOf(t)
  <1> DEFINE w == s \o t
  <1>1. Len(s) \in Nat /\ Len(t) \in Nat OBVIOUS
  <1>2. /\ w \in Seq(Events) /\ Len(w) = Len(s) + Len(t)
        /\ \A i \in 1..(Len(s) + Len(t)) : w[i] = IF i <= Len(s) THEN s[i] ELSE t[i - Len(s)]
    BY ConcatProperties
  <1> HIDE DEF w
  <1>3. PICK f : /\ f[0] = <<>> /\ PayloadOf(w) = f[Len(w)]
                 /\ \A i \in 1..Len(w) : f[i] = Joining(f[i - 1], w[i])
    BY <1>2, PayloadSteps
  <1>4. PICK g : /\ g[0] = <<>> /\ PayloadOf(s) = g[Len(s)]
                 /\ \A i \in 1..Len(s) : g[i] = Joining(g[i - 1], s[i])
    BY PayloadSteps
  <1>5. PICK h : /\ h[0] = <<>> /\ PayloadOf(t) = h[Len(t)]
                 /\ \A i \in 1..Len(t) : h[i] = Joining(h[i - 1], t[i])
    BY PayloadSteps
  <1> DEFINE S == {i \in Nat : i <= Len(s) => f[i] = g[i]}
             T == {i \in Nat : i <= Len(t) => h[i] \in Bytes /\ f[Len(s) + i] = PayloadOf(s) \o h[i]}
  <1>6. 0 \in S BY <1>3, <1>4
  <1>7. ASSUME NEW i \in Nat, i \in S PROVE i + 1 \in S
    <2>1. SUFFICES ASSUME i + 1 <= Len(s) PROVE f[i + 1] = g[i + 1] OBVIOUS
    <2>2. /\ i <= Len(s) /\ i + 1 \in 1..Len(s) /\ i + 1 \in 1..(Len(s) + Len(t))
          /\ (i + 1) - 1 = i
      BY <1>1, <2>1
    <2>3. f[i] = g[i] /\ w[i + 1] = s[i + 1] BY <1>2, <1>7, <2>1, <2>2
    <2>4. f[i + 1] = Joining(f[i], w[i + 1]) BY <1>2, <1>3, <2>2
    <2>5. g[i + 1] = Joining(g[i], s[i + 1]) BY <1>4, <2>2
    <2> QED BY <2>3, <2>4, <2>5
  <1>8. Nat \subseteq S BY <1>6, <1>7, SetInduction
  <1>9. f[Len(s)] = PayloadOf(s)
    <2>1. Len(s) \in S /\ Len(s) <= Len(s) BY <1>1, <1>8
    <2> QED BY <1>4, <2>1
  <1>10. PayloadOf(s) \in Bytes BY PayloadFacts
  <1>11. 0 \in T
    <2>1. PayloadOf(s) \o <<>> = PayloadOf(s) BY <1>10, ConcatEmptySeq DEF Bytes
    <2>2. Len(s) + 0 = Len(s) BY <1>1
    <2> QED BY <1>5, <1>9, <2>1, <2>2, EmptyBytes
  <1>12. ASSUME NEW i \in Nat, i \in T PROVE i + 1 \in T
    <2>1. SUFFICES ASSUME i + 1 <= Len(t)
                   PROVE  h[i + 1] \in Bytes /\ f[Len(s) + (i + 1)] = PayloadOf(s) \o h[i + 1]
      OBVIOUS
    <2>2. /\ i <= Len(t) /\ i + 1 \in 1..Len(t) /\ (i + 1) - 1 = i
          /\ Len(s) + (i + 1) \in 1..(Len(s) + Len(t))
          /\ (Len(s) + (i + 1)) - 1 = Len(s) + i
          /\ ~ (Len(s) + (i + 1) <= Len(s)) /\ (Len(s) + (i + 1)) - Len(s) = i + 1
      BY <1>1, <2>1
    <2>3. h[i] \in Bytes /\ f[Len(s) + i] = PayloadOf(s) \o h[i] BY <1>12, <2>2
    <2>4. w[Len(s) + (i + 1)] = t[i + 1] BY <1>2, <2>2
    <2>5. f[Len(s) + (i + 1)] = Joining(f[Len(s) + i], t[i + 1]) BY <1>2, <1>3, <2>2, <2>4
    <2>6. h[i + 1] = Joining(h[i], t[i + 1]) BY <1>5, <2>2
    <2>7. CASE t[i + 1][1] = "Payload"
      <3>1. t[i + 1][2] \in Bytes
        <4>1. t[i + 1] \in Events BY <2>2
        <4> QED BY <2>7, <4>1 DEF Events, Ends
      <3> DEFINE p == t[i + 1][2]
                 q == PayloadOf(s)
      <3>2. h[i + 1] = h[i] \o p /\ f[Len(s) + (i + 1)] = (q \o h[i]) \o p
        BY <2>3, <2>5, <2>6, <2>7 DEF Joining
      <3> HIDE DEF p, q
      <3>3. p \in Bytes /\ q \in Bytes BY <1>10, <3>1 DEF p, q
      <3>4. (q \o h[i]) \o p = q \o (h[i] \o p) /\ h[i] \o p \in Bytes
        BY <2>3, <3>3, PiecesAssociate, MoreBytes
      <3> QED BY <3>2, <3>4 DEF q
    <2>8. CASE t[i + 1][1] # "Payload" BY <2>3, <2>5, <2>6, <2>8 DEF Joining
    <2> QED BY <2>7, <2>8
  <1>13. Nat \subseteq T BY <1>11, <1>12, SetInduction
  <1>14. f[Len(s) + Len(t)] = PayloadOf(s) \o PayloadOf(t)
    <2>1. Len(t) \in T /\ Len(t) <= Len(t) BY <1>1, <1>13
    <2> QED BY <1>5, <2>1
  <1> QED BY <1>2, <1>3, <1>14 DEF w

(* Notices of two logs, one after the other.                                *)
LEMMA NoticesConcat ==
    ASSUME NEW s \in Seq(Events), NEW t \in Seq(Events)
    PROVE  /\ s \o t \in Seq(Events)
           /\ Notices(s \o t) = Notices(s) \o Notices(t)
  <1> DEFINE w == s \o t
  <1>1. Len(s) \in Nat /\ Len(t) \in Nat OBVIOUS
  <1>2. /\ w \in Seq(Events) /\ Len(w) = Len(s) + Len(t)
        /\ \A i \in 1..(Len(s) + Len(t)) : w[i] = IF i <= Len(s) THEN s[i] ELSE t[i - Len(s)]
    BY ConcatProperties
  <1> HIDE DEF w
  <1>3. PICK f : /\ f[0] = <<>> /\ Notices(w) = f[Len(w)]
                 /\ \A i \in 1..Len(w) : f[i] = Telling(f[i - 1], w[i])
    BY <1>2, NoticesSteps
  <1>4. PICK g : /\ g[0] = <<>> /\ Notices(s) = g[Len(s)]
                 /\ \A i \in 1..Len(s) : g[i] = Telling(g[i - 1], s[i])
    BY NoticesSteps
  <1>5. PICK h : /\ h[0] = <<>> /\ Notices(t) = h[Len(t)]
                 /\ \A i \in 1..Len(t) : h[i] = Telling(h[i - 1], t[i])
    BY NoticesSteps
  <1> DEFINE S == {i \in Nat : i <= Len(s) => f[i] = g[i]}
             T == {i \in Nat : i <= Len(t) => h[i] \in Seq(Events) /\ f[Len(s) + i] = Notices(s) \o h[i]}
  <1>6. 0 \in S BY <1>3, <1>4
  <1>7. ASSUME NEW i \in Nat, i \in S PROVE i + 1 \in S
    <2>1. SUFFICES ASSUME i + 1 <= Len(s) PROVE f[i + 1] = g[i + 1] OBVIOUS
    <2>2. /\ i <= Len(s) /\ i + 1 \in 1..Len(s) /\ i + 1 \in 1..(Len(s) + Len(t))
          /\ (i + 1) - 1 = i
      BY <1>1, <2>1
    <2>3. f[i] = g[i] /\ w[i + 1] = s[i + 1] BY <1>2, <1>7, <2>1, <2>2
    <2>4. f[i + 1] = Telling(f[i], w[i + 1]) BY <1>2, <1>3, <2>2
    <2>5. g[i + 1] = Telling(g[i], s[i + 1]) BY <1>4, <2>2
    <2> QED BY <2>3, <2>4, <2>5
  <1>8. Nat \subseteq S BY <1>6, <1>7, SetInduction
  <1>9. f[Len(s)] = Notices(s)
    <2>1. Len(s) \in S /\ Len(s) <= Len(s) BY <1>1, <1>8
    <2> QED BY <1>4, <2>1
  <1>10. Notices(s) \in Seq(Events) BY NoticesFacts
  <1>11. 0 \in T
    <2>1. Notices(s) \o <<>> = Notices(s) BY <1>10, ConcatEmptySeq
    <2>2. Len(s) + 0 = Len(s) BY <1>1
    <2>3. h[0] \in Seq(Events)
      <3>1. <<>> \in Seq(Events) OBVIOUS
      <3> QED BY <1>5, <3>1
    <2> QED BY <1>5, <1>9, <2>1, <2>2, <2>3
  <1>12. ASSUME NEW i \in Nat, i \in T PROVE i + 1 \in T
    <2>1. SUFFICES ASSUME i + 1 <= Len(t)
                   PROVE  h[i + 1] \in Seq(Events) /\ f[Len(s) + (i + 1)] = Notices(s) \o h[i + 1]
      OBVIOUS
    <2>2. /\ i <= Len(t) /\ i + 1 \in 1..Len(t) /\ (i + 1) - 1 = i
          /\ Len(s) + (i + 1) \in 1..(Len(s) + Len(t))
          /\ (Len(s) + (i + 1)) - 1 = Len(s) + i
          /\ ~ (Len(s) + (i + 1) <= Len(s)) /\ (Len(s) + (i + 1)) - Len(s) = i + 1
      BY <1>1, <2>1
    <2>3. h[i] \in Seq(Events) /\ f[Len(s) + i] = Notices(s) \o h[i] BY <1>12, <2>2
    <2>4. w[Len(s) + (i + 1)] = t[i + 1] BY <1>2, <2>2
    <2>5. f[Len(s) + (i + 1)] = Telling(f[Len(s) + i], t[i + 1]) BY <1>2, <1>3, <2>2, <2>4
    <2>6. h[i + 1] = Telling(h[i], t[i + 1]) BY <1>5, <2>2
    <2>7. CASE t[i + 1][1] = "Payload" BY <2>3, <2>5, <2>6, <2>7 DEF Telling
    <2>8. CASE t[i + 1][1] # "Payload"
      <3> DEFINE e == t[i + 1]
                 q == Notices(s)
      <3>1. e \in Events BY <2>2
      <3>2. h[i + 1] = Append(h[i], e) /\ f[Len(s) + (i + 1)] = Append(q \o h[i], e)
        BY <2>3, <2>5, <2>6, <2>8 DEF Telling
      <3> HIDE DEF e, q
      <3>3. q \in Seq(Events) BY <1>10 DEF q
      <3>4. Append(q \o h[i], e) = q \o Append(h[i], e) /\ Append(h[i], e) \in Seq(Events)
        BY <2>3, <3>1, <3>3, AppendLast
      <3> QED BY <3>2, <3>4 DEF q
    <2> QED BY <2>7, <2>8
  <1>13. Nat \subseteq T BY <1>11, <1>12, SetInduction
  <1>14. f[Len(s) + Len(t)] = Notices(s) \o Notices(t)
    <2>1. Len(t) \in T /\ Len(t) <= Len(t) BY <1>1, <1>13
    <2> QED BY <1>5, <2>1
  <1> QED BY <1>2, <1>3, <1>14 DEF w

(* One event more.                                                           *)
LEMMA EventAdded ==
    ASSUME NEW s \in Seq(Events), NEW e \in Events
    PROVE  /\ PayloadOf(Append(s, e)) = IF e[1] = "Payload" THEN PayloadOf(s) \o e[2] ELSE PayloadOf(s)
           /\ Notices(Append(s, e)) = IF e[1] = "Payload" THEN Notices(s) ELSE Append(Notices(s), e)
  <1> DEFINE t == <<e>>
  <1>1. t \in Seq(Events) /\ Len(t) = 1 /\ t[1] = e OBVIOUS
  <1> HIDE DEF t
  <1>2. Append(s, e) = s \o t BY AppendIsConcat DEF t
  <1>3. PICK f : /\ f[0] = <<>> /\ PayloadOf(t) = f[1] /\ f[1] = Joining(f[0], t[1])
    <2>1. PICK f : /\ f[0] = <<>> /\ PayloadOf(t) = f[Len(t)]
                   /\ \A i \in 1..Len(t) : f[i] = Joining(f[i - 1], t[i])
      BY <1>1, PayloadSteps
    <2>2. f[1] = Joining(f[1 - 1], t[1]) /\ 1 - 1 = 0 BY <1>1, <2>1
    <2> QED BY <1>1, <2>1, <2>2
  <1>4. PICK g : /\ g[0] = <<>> /\ Notices(t) = g[1] /\ g[1] = Telling(g[0], t[1])
    <2>1. PICK g : /\ g[0] = <<>> /\ Notices(t) = g[Len(t)]
                   /\ \A i \in 1..Len(t) : g[i] = Telling(g[i - 1], t[i])
      BY <1>1, NoticesSteps
    <2>2. g[1] = Telling(g[1 - 1], t[1]) /\ 1 - 1 = 0 BY <1>1, <2>1
    <2> QED BY <1>1, <2>1, <2>2
  <1>5. PayloadOf(t) = IF e[1] = "Payload" THEN <<>> \o e[2] ELSE <<>>
    BY <1>1, <1>3 DEF Joining
  <1>6. Notices(t) = IF e[1] = "Payload" THEN <<>> ELSE Append(<<>>, e) BY <1>1, <1>4 DEF Telling
  <1>7. PayloadOf(Append(s, e)) = PayloadOf(s) \o PayloadOf(t) BY <1>1, <1>2, PayloadConcat
  <1>8. Notices(Append(s, e)) = Notices(s) \o Notices(t) BY <1>1, <1>2, NoticesConcat
  <1>9. PayloadOf(s) \in Bytes /\ Notices(s) \in Seq(Events) BY PayloadFacts, NoticesFacts
  <1>10. CASE e[1] = "Payload"
    <2>1. e[2] \in Bytes BY <1>10 DEF Events, Ends
    <2>2. PICK p \in Bytes : p = e[2] BY <2>1
    <2>3. <<>> \o p = p BY ConcatEmptySeq DEF Bytes
    <2>4. Notices(s) \o <<>> = Notices(s) BY <1>9, ConcatEmptySeq
    <2> QED BY <1>5, <1>6, <1>7, <1>8, <1>10, <2>2, <2>3, <2>4
  <1>11. CASE e[1] # "Payload"
    <2>1. PayloadOf(s) \o <<>> = PayloadOf(s) BY <1>9, ConcatEmptySeq DEF Bytes
    <2>2. PICK q \in Seq(Events) : q = Notices(s) BY <1>9
    <2>3. <<>> \in Seq(Events) OBVIOUS
    <2>4. Append(q \o <<>>, e) = q \o Append(<<>>, e) BY <2>3, AppendLast
    <2>5. q \o <<>> = q BY ConcatEmptySeq
    <2> QED BY <1>5, <1>6, <1>7, <1>8, <1>11, <2>1, <2>2, <2>4, <2>5
  <1> QED BY <1>10, <1>11

(* The same event after the same, and a payload in one piece or in two.      *)
LEMMA SaidAgain ==
    ASSUME NEW s \in Seq(Events), NEW t \in Seq(Events), SaysTheSame(s, t), NEW e \in Events
    PROVE  SaysTheSame(Append(s, e), Append(t, e))
  BY EventAdded, ZenonT(60) DEF SaysTheSame

(* A payload says the same in two events as in one.                         *)
LEMMA PayloadInPieces ==
    ASSUME NEW s \in Seq(Events), NEW p \in Bytes, NEW q \in Bytes
    PROVE  /\ SaysTheSame(Append(Append(s, <<"Payload", p>>), <<"Payload", q>>),
                          Append(s, <<"Payload", p \o q>>))
           /\ Append(Append(s, <<"Payload", p>>), <<"Payload", q>>) \in Seq(Events)
           /\ Append(s, <<"Payload", p>>) \in Seq(Events)
           /\ Append(s, <<"Payload", p \o q>>) \in Seq(Events)
  <1>1. PICK a : a = <<"Payload", p>> OBVIOUS
  <1>2. PICK b : b = <<"Payload", q>> OBVIOUS
  <1>3. PICK c : c = <<"Payload", p \o q>> OBVIOUS
  <1>4. p \o q \in Bytes BY MoreBytes
  <1>5. /\ a \in Events /\ b \in Events /\ c \in Events
        /\ a[1] = "Payload" /\ b[1] = "Payload" /\ c[1] = "Payload"
        /\ a[2] = p /\ b[2] = q /\ c[2] = p \o q
    BY <1>1, <1>2, <1>3, <1>4 DEF Events
  <1>6. PICK t : t = Append(s, a) OBVIOUS
  <1>7. t \in Seq(Events) BY <1>5, <1>6, AppendProperties
  <1>8. PayloadOf(t) = PayloadOf(s) \o p /\ Notices(t) = Notices(s) BY <1>5, <1>6, EventAdded
  <1>9. PayloadOf(Append(t, b)) = PayloadOf(t) \o q /\ Notices(Append(t, b)) = Notices(t)
    BY <1>5, <1>7, EventAdded
  <1>10. PayloadOf(Append(s, c)) = PayloadOf(s) \o (p \o q) /\ Notices(Append(s, c)) = Notices(s)
    BY <1>5, EventAdded
  <1>11. (PayloadOf(s) \o p) \o q = PayloadOf(s) \o (p \o q) BY PayloadFacts, PiecesAssociate
  <1>12. SaysTheSame(Append(t, b), Append(s, c)) BY <1>8, <1>9, <1>10, <1>11 DEF SaysTheSame
  <1>13. Append(t, b) \in Seq(Events) /\ Append(s, c) \in Seq(Events) BY <1>5, <1>7, AppendProperties
  <1> QED BY <1>1, <1>2, <1>3, <1>6, <1>7, <1>12, <1>13

(* What was said before both.                                                *)
LEMMA SaidBefore ==
    ASSUME NEW a \in Seq(Events), NEW b \in Seq(Events), SaysTheSame(a, b), NEW s \in Seq(Events)
    PROVE  SaysTheSame(a \o s, b \o s)
  <1>1. PayloadOf(a) = PayloadOf(b) /\ Notices(a) = Notices(b) BY DEF SaysTheSame
  <1>2. PayloadOf(a \o s) = PayloadOf(a) \o PayloadOf(s) /\ PayloadOf(b \o s) = PayloadOf(b) \o PayloadOf(s)
    BY PayloadConcat
  <1>3. Notices(a \o s) = Notices(a) \o Notices(s) /\ Notices(b \o s) = Notices(b) \o Notices(s)
    BY NoticesConcat
  <1> QED BY <1>1, <1>2, <1>3 DEF SaysTheSame

-----------------------------------------------------------------------------
(* Machines alike *)

(* The machine with y behind what it keeps, and its loop going on.          *)
Ext(x, y) == [x EXCEPT !.carry = x.carry \o y, !.go = TRUE]

(* The machine n is x with y after what it has to read.                     *)
Extended(x, y, n) ==
    /\ MachineOK(n) /\ n.go /\ n.carry = x.carry \o y /\ x.carry \o y \in Bytes
    /\ n.st = x.st /\ n.tcarry = x.tcarry /\ n.dec = x.dec /\ n.ev = x.ev
    /\ n.tchunked = x.tchunked /\ n.chunked = x.chunked /\ n.icyBlank = x.icyBlank

(* What Ext does.                                                           *)
LEMMA ExtFacts ==
    ASSUME NEW x, MachineOK(x), NEW y \in Bytes
    PROVE  Extended(x, y, Ext(x, y))
  <1>1. x \in MachineType BY DEF MachineOK
  <1>2. PICK c \in Bytes : c = x.carry \o y
    BY <1>1, ConcatProperties DEF Bytes, MachineType
  <1>3. PICK n : n = [x EXCEPT !.carry = c, !.go = TRUE] OBVIOUS
  <1>4. n = Ext(x, y) BY <1>2, <1>3 DEF Ext
  <1>5. /\ n \in MachineType /\ n.go /\ n.carry = c
        /\ n.st = x.st /\ n.tcarry = x.tcarry /\ n.dec = x.dec /\ n.ev = x.ev
        /\ n.tchunked = x.tchunked /\ n.chunked = x.chunked /\ n.icyBlank = x.icyBlank
    BY <1>1, <1>3 DEF MachineType
  <1>6. MachineOK(n) BY <1>5 DEF MachineOK
  <1> QED BY <1>2, <1>4, <1>5, <1>6 DEF Extended

(* Ext as a Put.                                                            *)
LEMMA ExtIsPut ==
    ASSUME NEW x, MachineOK(x), x.go, NEW y \in Bytes
    PROVE  Ext(x, y) = Put(x, x.carry \o y, x.tcarry, x.dec, <<>>)
  <1>1. x \in MachineType /\ x.go = TRUE /\ x.ev \in Seq(Events) BY DEF MachineOK, MachineType
  <1>2. PICK c : c = x.carry \o y OBVIOUS
  <1>3. <<>> \o x.ev = x.ev BY <1>1, ConcatEmptySeq
  <1>4. Put(x, c, x.tcarry, x.dec, <<>>)
          = [x EXCEPT !.carry = c, !.tcarry = x.tcarry, !.dec = x.dec, !.ev = x.ev]
    BY <1>3 DEF Put
  <1>5. [x EXCEPT !.carry = c, !.tcarry = x.tcarry, !.dec = x.dec, !.ev = x.ev]
          = [x EXCEPT !.carry = c, !.go = TRUE]
    BY <1>1 DEF MachineType
  <1> QED BY <1>2, <1>4, <1>5 DEF Ext

(* Ext of a machine that waits.                                             *)
LEMMA ExtOfWait ==
    ASSUME NEW x, MachineOK(x), NEW y
    PROVE  Ext(Wait(x), y) = Ext(x, y)
  <1>1. x \in MachineType BY DEF MachineOK
  <1>2. PICK w : w = [x EXCEPT !.go = FALSE] OBVIOUS
  <1>3. w = Wait(x) /\ w.carry = x.carry BY <1>1, <1>2 DEF Wait, MachineType
  <1>4. PICK c : c = x.carry \o y OBVIOUS
  <1>5. [w EXCEPT !.carry = c, !.go = TRUE] = [x EXCEPT !.carry = c, !.go = TRUE]
    BY <1>1, <1>2 DEF MachineType
  <1> QED BY <1>3, <1>4, <1>5 DEF Ext

(* A push onto a machine is a push before which its events are cleared.     *)
LEMMA ExtIsOpened ==
    ASSUME NEW x, MachineOK(x), NEW y \in Bytes
    PROVE  Ext(x, y) = After(x.ev, Opened(x, y))
  <1>1. x \in MachineType /\ x.ev \in Seq(Events) BY DEF MachineOK, MachineType
  <1>2. PICK c : c = x.carry \o y OBVIOUS
  <1>3. PICK p : p = [x EXCEPT !.carry = c, !.ev = <<>>, !.go = TRUE] OBVIOUS
  <1>4. p = Opened(x, y) BY <1>2, <1>3 DEF Opened
  <1>5. p.ev = <<>> BY <1>1, <1>3 DEF MachineType
  <1>6. x.ev \o <<>> = x.ev BY <1>1, ConcatEmptySeq
  <1>7. After(x.ev, p) = [p EXCEPT !.ev = x.ev] BY <1>5, <1>6 DEF After
  <1>8. [p EXCEPT !.ev = x.ev] = [x EXCEPT !.carry = c, !.go = TRUE]
    BY <1>1, <1>3 DEF MachineType
  <1> QED BY <1>2, <1>4, <1>7, <1>8 DEF Ext

(* The machine with other events.                                           *)
WithEvents(m, s) == [m EXCEPT !.ev = s]

(* Two ends of a push that tell a client the same.                          *)
SameEnd(v, e) == v = WithEvents(e, v.ev) /\ SaysTheSame(v.ev, e.ev)

(* Two machines that are closed for the same corruption.                    *)
BothCorrupted(v, e) ==
    /\ v.st = "Closed" /\ e.st = "Closed" /\ Corrupted(v.ev) /\ Corrupted(e.ev)
    /\ v.dec = e.dec /\ v.dec.poison

(* Two machines that end alike.                                             *)
Alike(v, e) == SameEnd(v, e) \/ BothCorrupted(v, e)

(* What WithEvents does.                                                    *)
LEMMA WithEventsFacts ==
    ASSUME NEW m \in MachineType, NEW s \in Seq(Events)
    PROVE  LET n == WithEvents(m, s)
           IN  /\ n \in MachineType /\ n.ev = s /\ n.st = m.st /\ n.dec = m.dec
               /\ n.tchunked = m.tchunked /\ n.carry = m.carry /\ n.tcarry = m.tcarry
               /\ n.go = m.go /\ \A u : WithEvents(n, u) = WithEvents(m, u)
  <1>1. PICK n : n = [m EXCEPT !.ev = s] OBVIOUS
  <1>2. /\ n \in MachineType /\ n.ev = s /\ n.st = m.st /\ n.dec = m.dec
        /\ n.tchunked = m.tchunked /\ n.carry = m.carry /\ n.tcarry = m.tcarry
        /\ n.go = m.go
    BY <1>1 DEF MachineType
  <1>3. ASSUME NEW u PROVE [n EXCEPT !.ev = u] = [m EXCEPT !.ev = u]
    BY <1>1 DEF MachineType
  <1> QED BY <1>1, <1>2, <1>3 DEF WithEvents

(* Logs that say the same are corrupted together.                           *)
LEMMA SaidCorrupted ==
    ASSUME NEW s, NEW t, SaysTheSame(s, t)
    PROVE  Corrupted(s) <=> Corrupted(t)
  BY DEF SaysTheSame, Corrupted

(* A log that ends with the corruption is corrupted.                        *)
LEMMA CorruptedLast ==
    ASSUME NEW s \in Seq(Events)
    PROVE  Corrupted(Append(s, <<"StreamCorrupted", <<>> >>))
  <1>1. PICK e : e = <<"StreamCorrupted", <<>> >> OBVIOUS
  <1>2. e \in Events /\ e[1] # "Payload" /\ e[1] = "StreamCorrupted" BY <1>1, EndEvents
  <1>3. PICK t \in Seq(Events) : t = Notices(s) BY NoticesFacts
  <1>4. Notices(Append(s, e)) = Append(t, e) BY <1>2, <1>3, EventAdded
  <1>5. Len(t) + 1 \in DOMAIN Append(t, e) /\ Append(t, e)[Len(t) + 1] = e BY <1>2, <1>3
  <1> QED BY <1>1, <1>2, <1>4, <1>5 DEF Corrupted

(* Alike is transitive.                                                     *)
LEMMA AlikeAgain ==
    ASSUME NEW v \in MachineType, NEW w \in MachineType, NEW e \in MachineType,
           Alike(v, w), Alike(w, e)
    PROVE  Alike(v, e)
  <1>0. v.ev \in Seq(Events) /\ w.ev \in Seq(Events) /\ e.ev \in Seq(Events) BY DEF MachineType
  <1>1. CASE SameEnd(v, w) /\ SameEnd(w, e)
    <2>1. v = WithEvents(w, v.ev) /\ w = WithEvents(e, w.ev) BY <1>1 DEF SameEnd
    <2>2. \A u : WithEvents(w, u) = WithEvents(e, u) BY <1>0, <2>1, WithEventsFacts
    <2>3. SaysTheSame(v.ev, e.ev) BY <1>1 DEF SameEnd, SaysTheSame
    <2> QED BY <2>1, <2>2, <2>3 DEF Alike, SameEnd
  <1>2. CASE SameEnd(v, w) /\ BothCorrupted(w, e)
    <2>1. v = WithEvents(w, v.ev) BY <1>2 DEF SameEnd
    <2>2. v.st = w.st /\ v.dec = w.dec BY <1>0, <2>1, WithEventsFacts
    <2>3. Corrupted(v.ev) BY <1>2, SaidCorrupted DEF SameEnd, BothCorrupted
    <2> QED BY <1>2, <2>2, <2>3 DEF Alike, BothCorrupted
  <1>3. CASE BothCorrupted(v, w) /\ SameEnd(w, e)
    <2>1. w = WithEvents(e, w.ev) BY <1>3 DEF SameEnd
    <2>2. w.st = e.st /\ w.dec = e.dec BY <1>0, <2>1, WithEventsFacts
    <2>3. Corrupted(e.ev) BY <1>3, SaidCorrupted DEF SameEnd, BothCorrupted
    <2> QED BY <1>3, <2>2, <2>3 DEF Alike, BothCorrupted
  <1>4. CASE BothCorrupted(v, w) /\ BothCorrupted(w, e)
    BY <1>4 DEF Alike, BothCorrupted
  <1> QED BY <1>1, <1>2, <1>3, <1>4 DEF Alike

(* Alike is reflexive.                                                      *)
LEMMA AlikeItself ==
    ASSUME NEW m \in MachineType
    PROVE  Alike(m, m)
  <1>1. m = [m EXCEPT !.ev = m.ev] BY DEF MachineType
  <1> QED BY <1>1 DEF Alike, SameEnd, WithEvents, SaysTheSame

(* A round keeps what a machine keeps.                                      *)
LEMMA IterIsOK ==
    ASSUME NEW x, MachineOK(x)
    PROVE  /\ MachineOK(PushIter(x)) /\ (Tight(x) => Tight(PushIter(x)))
           /\ x.st = "Closed" => PushIter(x) = Wait(x) \/ PushIter(x) = x
  <1>1. CASE x.go
    <2>1. MachineOK(PushIter(x)) /\ (Tight(x) => Tight(PushIter(x)))
      BY <1>1, PushIterIsRound DEF RoundOK
    <2>2. x.st = "Closed" => PushIter(x) = Wait(x) BY <1>1 DEF PushIter
    <2> QED BY <2>1, <2>2
  <1>2. CASE ~ x.go BY <1>2 DEF PushIter
  <1> QED BY <1>1, <1>2

(* A closed machine stays as it is.                                         *)
LEMMA ClosedStays ==
    ASSUME NEW m, MachineOK(m), m.st = "Closed", NEW e, PushesTo(m, e)
    PROVE  e.st = "Closed" /\ e.ev = m.ev /\ e.dec = m.dec
  <1> DEFINE S == {x \in MachineType : /\ MachineOK(x) /\ x.st = "Closed"
                                       /\ x.ev = m.ev /\ x.dec = m.dec}
  <1>1. m \in S BY DEF MachineOK
  <1>2. \A x \in S : PushIter(x) \in S
    <2> SUFFICES ASSUME NEW x \in S PROVE PushIter(x) \in S
      OBVIOUS
    <2>1. MachineOK(PushIter(x)) /\ (PushIter(x) = Wait(x) \/ PushIter(x) = x) BY IterIsOK
    <2>2. MachineOK(Wait(x)) /\ Wait(x).st = x.st /\ Wait(x).ev = x.ev /\ Wait(x).dec = x.dec
      BY WaitFacts
    <2> QED BY <2>1, <2>2 DEF MachineOK
  <1>3. e \in S
    <2> HIDE DEF S
    <2> QED BY <1>1, <1>2, PushesWithin
  <1> QED BY <1>3

-----------------------------------------------------------------------------
(* The end of a push *)

(* The push of X ends as one that ended in E, as a client sees it.          *)
Tells(X, E) == \E e : PushesTo(X, e) /\ MachineOK(e) /\ Alike(e, E)

(* What a push tells, it tells after its first round.                       *)
LEMMA TellsOn ==
    ASSUME NEW X, NEW E, Tells(X, E)
    PROVE  Tells(PushIter(X), E)
  BY PushesOn DEF Tells

(* And what it tells after the first round, it tells.                       *)
LEMMA TellsBack ==
    ASSUME NEW X, NEW E, Tells(PushIter(X), E)
    PROVE  Tells(X, E)
  BY PushesBack DEF Tells

(* What a machine tells, one that is alike tells.                           *)
LEMMA TellsAlike ==
    ASSUME NEW w, MachineOK(w), ~ w.go, NEW v, MachineOK(v), ~ v.go, Alike(v, w),
           NEW E \in MachineType, Tells(w, E)
    PROVE  Tells(v, E)
  <1>1. PICK e : PushesTo(w, e) /\ MachineOK(e) /\ Alike(e, E) BY DEF Tells
  <1>2. e = w BY <1>1, PushesStopped
  <1>3. PushesTo(v, v) BY PushesStopped
  <1>4. Alike(v, E) BY <1>1, <1>2, AlikeAgain DEF MachineOK
  <1> QED BY <1>3, <1>4 DEF Tells

(* A closed machine has told what it tells.                                 *)
LEMMA TellsClosed ==
    ASSUME NEW w, MachineOK(w), w.st = "Closed", NEW E \in MachineType, Tells(w, E)
    PROVE  /\ E.st = "Closed"
           /\ SaysTheSame(w.ev, E.ev) \/ (Corrupted(w.ev) /\ Corrupted(E.ev))
  <1>1. PICK e : PushesTo(w, e) /\ MachineOK(e) /\ Alike(e, E) BY DEF Tells
  <1>2. e.st = "Closed" /\ e.ev = w.ev BY <1>1, ClosedStays
  <1>3. CASE SameEnd(e, E)
    <2>1. e.ev \in Seq(Events) BY <1>1 DEF MachineOK, MachineType
    <2>2. e = WithEvents(E, e.ev) BY <1>3 DEF SameEnd
    <2>3. e.st = E.st BY <2>1, <2>2, WithEventsFacts
    <2> QED BY <1>2, <1>3, <2>3 DEF SameEnd
  <1>4. CASE BothCorrupted(e, E) BY <1>2, <1>4 DEF BothCorrupted
  <1> QED BY <1>1, <1>3, <1>4 DEF Alike

(* A machine that closed while E had more to read: what else E can have.    *)
Lost(n, E) ==
    \/ GaveUp(n)
    \/ /\ E.st = "Closed"
       /\ \/ SaysTheSame(n.ev, E.ev)
          \/ Corrupted(E.ev) /\ (n.tchunked \/ Corrupted(n.ev))

(* What comes after the end is lost on it.                                  *)
LEMMA LostAlike ==
    ASSUME NEW n, NEW w, MachineOK(w), w.st = "Closed", w.ev = n.ev,
           NEW E \in MachineType, Tells(w, E)
    PROVE  Lost(n, E)
  BY TellsClosed DEF Lost

(* The loop of the first piece at x, that of the whole at the same point.   *)
Finishing(x, E) ==
    /\ x.carry = <<>>
    /\ \E k : /\ DecoderInv(k) /\ ~ k.more /\ ~ k.poison /\ k.finished
              /\ Tells(Put(x, <<>>, x.tcarry, k, <<>>), E)

(* What E, that read x and then y at once, has to do with x: the invariant  *)
(* of the rounds of a push.                                                 *)
Follows(x, y, E) ==
    IF x.st = "Closed" THEN Lost(x, E)
    ELSE IF x.dec.finished THEN Finishing(x, E)
    ELSE Tells(Ext(x, y), E)

(* Waiting changes nothing of that.                                         *)
LEMMA WaitFollows ==
    ASSUME NEW x, MachineOK(x), Tight(x), NEW y \in Bytes, NEW E, Follows(x, y, E),
           ~ (x.st # "Closed" /\ x.dec.finished)
    PROVE  Follows(Wait(x), y, E)
  <1>1. PICK w : w = Wait(x) OBVIOUS
  <1>2. /\ w.ev = x.ev /\ w.st = x.st /\ w.carry = x.carry /\ w.tcarry = x.tcarry
        /\ w.dec = x.dec /\ w.tchunked = x.tchunked
    BY <1>1, WaitFacts
  <1>3. Ext(w, y) = Ext(x, y) BY <1>1, ExtOfWait
  <1>4. GaveUp(w) = GaveUp(x) BY <1>2 DEF GaveUp
  <1> QED BY <1>1, <1>2, <1>3, <1>4 DEF Follows, Lost

(* A line that is given up.                                                 *)
LEMMA NoLineFollows ==
    ASSUME NEW x, MachineOK(x), Tight(x), x.st # "Closed", ~ x.dec.finished,
           NEW y \in Bytes, NEW E, Follows(x, y, E),
           NEW n, ~ HasLine(x.carry) \/ (x.tchunked /\ ~ HasLine(x.tcarry)),
           IF ~ HasLine(x.carry) /\ Len(x.carry) > MaxLine THEN n = Wait(Reject(x))
           ELSE IF x.tchunked /\ ~ HasLine(x.tcarry) /\ Len(x.tcarry) > MaxLine
           THEN n = Wait(Reject(x))
           ELSE n = Wait(x)
    PROVE  Follows(n, y, E)
  <1>1. CASE n = Wait(x) BY <1>1, WaitFollows
  <1>2. CASE n = Wait(Reject(x)) /\ (Unending(x.carry) \/ (x.tchunked /\ Unending(x.tcarry)))
    <2>1. PICK r : r = Reject(x) OBVIOUS
    <2>2. "Rejected" \in Ends /\ <<>> \in Details BY EmptyBytes DEF Ends, Details
    <2>3. /\ MachineOK(r) /\ r.st = "Closed" /\ r.carry = x.carry /\ r.tcarry = x.tcarry
          /\ r.dec = x.dec
      BY <2>1, <2>2, CloseFacts DEF Reject
    <2>4. r.tchunked = x.tchunked
      BY <2>1 DEF Reject, Close, Emit, MachineOK, MachineType
    <2>5. /\ n.st = "Closed" /\ n.carry = x.carry /\ n.tcarry = x.tcarry /\ n.dec = x.dec
          /\ n.tchunked = x.tchunked
      BY <1>2, <2>1, <2>3, <2>4, WaitFacts
    <2>6. ~ x.dec.poison BY DEF Tight
    <2> QED BY <1>2, <2>5, <2>6 DEF Follows, Lost, GaveUp
  <1> QED BY <1>1, <1>2 DEF Unending

(* A round that did the same to both.                                       *)
LEMMA FramedFollows ==
    ASSUME NEW n, MachineOK(n), n.go, ~ n.dec.finished, NEW y \in Bytes,
           NEW E \in MachineType, Tells(Put(n, n.carry \o y, n.tcarry, n.dec, <<>>), E)
    PROVE  Follows(n, y, E)
  <1>1. Ext(n, y) = Put(n, n.carry \o y, n.tcarry, n.dec, <<>>) BY ExtIsPut
  <1>2. MachineOK(Ext(n, y)) /\ Ext(n, y).st = n.st /\ Ext(n, y).ev = n.ev
    BY ExtFacts DEF Extended
  <1>3. CASE n.st = "Closed" BY <1>1, <1>2, <1>3, LostAlike DEF Follows
  <1>4. CASE n.st # "Closed" BY <1>1, <1>4 DEF Follows
  <1> QED BY <1>3, <1>4

(* A machine has what is put into it, and keeps the rest.                   *)
LEMMA PutBuffers ==
    ASSUME NEW m \in MachineType, NEW c, NEW t, NEW d, NEW a
    PROVE  /\ Put(m, c, t, d, a).carry = c /\ Put(m, c, t, d, a).tcarry = t
           /\ Put(m, c, t, d, a).dec = d
  BY DEF Put, MachineType

(* What Put leaves alone.                                                   *)
LEMMA PutKeeps ==
    ASSUME NEW m \in MachineType, NEW c, NEW t, NEW d, NEW a
    PROVE  /\ Put(m, c, t, d, a).st = m.st /\ Put(m, c, t, d, a).go = m.go
           /\ Put(m, c, t, d, a).tchunked = m.tchunked /\ Put(m, c, t, d, a).chunked = m.chunked
           /\ Put(m, c, t, d, a).icyBlank = m.icyBlank
  BY DEF Put, MachineType

(* Put leaves the events alone if it is given none.                         *)
LEMMA PutEvents ==
    ASSUME NEW m \in MachineType, NEW c, NEW t, NEW d
    PROVE  Put(m, c, t, d, <<>>).ev = m.ev
  <1>1. m.ev \in Seq(Events) BY DEF MachineType
  <1>2. <<>> \o m.ev = m.ev BY <1>1, ConcatEmptySeq
  <1> QED BY <1>2 DEF Put, MachineType

(* A status line never ends a push.                                         *)
LEMMA StatusGoesOn ==
    ASSUME NEW m, MachineOK(m), m.go, HasLine(m.carry)
    PROVE  ParseStatus(m).go
  <1>1. m \in MachineType BY DEF MachineOK
  <1>2. PICK c : c = AfterLine(m.carry) OBVIOUS
  <1>3. PICK n : n = [m EXCEPT !.carry = c] OBVIOUS
  <1>4. n = [m EXCEPT !.carry = AfterLine(@)] BY <1>2, <1>3
  <1>5. ParseStatus(m) \in
          {[Emit(n, "Connected", FALSE) EXCEPT
                   !.st = "Streaming", !.chunked = FALSE, !.icyBlank = TRUE],
           [n EXCEPT !.st = "Sourcetable"],
           [n EXCEPT !.st = "AwaitingHeaders", !.headers = <<>>, !.hbytes = 0,
                         !.http = StatusOf(Line(m.carry))],
           Reject(n)}
    BY <1>4 DEF ParseStatus
  <1>6. n.go /\ DOMAIN n = DOMAIN m /\ "go" \in DOMAIN m BY <1>1, <1>3 DEF MachineType
  <1> QED BY <1>1, <1>3, <1>5, <1>6 DEF MachineType, Reject, Close, Emit

(* Nor does the end of the headers.                                         *)
LEMMA ClassifyGoesOn ==
    ASSUME NEW n \in MachineType, n.go
    PROVE  ClassifyHttpResponse(n).go
  <1>1. PICK k : k = TransferIsChunked(n.headers) OBVIOUS
  <1>2. ClassifyHttpResponse(n) \in
          {[Emit(n, "Connected", k) EXCEPT !.st = "Streaming", !.chunked = k],
           [n EXCEPT !.st = "Sourcetable", !.tchunked = k, !.started = TRUE],
           Reject(n)}
    BY <1>1 DEF ClassifyHttpResponse
  <1> QED BY <1>2 DEF MachineType, Reject, Close, Emit

(* Nor does a header line.                                                  *)
LEMMA HeadersGoOn ==
    ASSUME NEW m, MachineOK(m), m.go, HasLine(m.carry)
    PROVE  ParseHeaders(m).go
  <1>1. m \in MachineType /\ m.carry \in Bytes BY DEF MachineOK, MachineType
  <1>2. PICK c : c = AfterLine(m.carry) OBVIOUS
  <1>3. PICK l : l = Line(m.carry) OBVIOUS
  <1>4. c \in Bytes /\ l \in Bytes BY <1>1, <1>2, <1>3, LineFacts
  <1>5. PICK n : n = [m EXCEPT !.carry = c] OBVIOUS
  <1>6. n = [m EXCEPT !.carry = AfterLine(@)] BY <1>2, <1>5
  <1>7. n \in MachineType /\ n.go /\ n.hbytes = m.hbytes /\ m.hbytes \in Nat
    BY <1>1, <1>4, <1>5 DEF MachineType
  <1>8. PICK b : b = n.hbytes + Len(l) OBVIOUS
  <1>9. b \in Nat /\ Len(l) \in Nat BY <1>4, <1>7, <1>8 DEF Bytes
  <1>10. PICK h : h = [n EXCEPT !.hbytes = b] OBVIOUS
  <1>11. h = [n EXCEPT !.hbytes = @ + Len(l)] BY <1>8, <1>10
  <1>12. h \in MachineType /\ h.go /\ h.hbytes = b BY <1>7, <1>9, <1>10 DEF MachineType
  <1>13. ParseHeaders(m) = IF l = <<>> THEN ClassifyHttpResponse(n)
                           ELSE IF h.hbytes > MaxHeaders THEN Reject(h)
                           ELSE IF HasColon(l) THEN [h EXCEPT !.headers = Append(@, l)] ELSE h
    BY <1>3, <1>6, <1>9, <1>11, <1>12, HeaderLine
  <1>14. ClassifyHttpResponse(n).go BY <1>7, ClassifyGoesOn
  <1>15. Reject(h).go BY <1>12 DEF Reject, Close, Emit, MachineType
  <1>16. [h EXCEPT !.headers = Append(@, l)].go BY <1>12 DEF MachineType
  <1> QED BY <1>12, <1>13, <1>14, <1>15, <1>16

(* A line of the response.                                                  *)
LEMMA LineFollows ==
    ASSUME NEW x, MachineOK(x), Tight(x), x.go, x.st \in {"AwaitingStatus", "AwaitingHeaders"},
           NEW y \in Bytes, NEW E \in MachineType, Follows(x, y, E)
    PROVE  Follows(PushIter(x), y, E)
  <1>1. x \in MachineType /\ x.carry \in Bytes /\ x.tcarry \in Bytes /\ x.dec \in DecoderType
    BY DEF MachineOK, MachineType
  <1>2. ~ x.dec.finished BY DEF Tight
  <1>3. PICK n : n = PushIter(x) OBVIOUS
  <1>4. MachineOK(n) BY <1>3, IterIsOK
  <1>5. PICK X : X = Ext(x, y) OBVIOUS
  <1>6. Tells(X, E) BY <1>2, <1>5 DEF Follows
  <1>7. /\ X = Put(x, x.carry \o y, x.tcarry, x.dec, <<>>) /\ X.go /\ X.st = x.st
        /\ x.carry \o y \in Bytes
    BY <1>5, ExtIsPut, ExtFacts DEF Extended
  <1>8. CASE HasLine(x.carry)
    <2>1. PICK s : s = AfterLine(x.carry) OBVIOUS
    <2>2. /\ s \in Bytes /\ HasLine(x.carry \o y) /\ Line(x.carry \o y) = Line(x.carry)
          /\ AfterLine(x.carry \o y) = s \o y /\ s \o y \in Bytes
      BY <1>1, <1>8, <2>1, LineFacts, LineStays, MoreBytes
    <2>3. <<>> \in Seq(Events) OBVIOUS
    <2>4. Put(x, x.carry, x.tcarry, x.dec, <<>>) = x BY <1>1, PutNothing
    <2>w. PICK w \in Bytes : w = x.carry \o y BY <1>7
    <2>v. HasLine(w) /\ Line(w) = Line(x.carry) /\ AfterLine(w) = s \o y BY <2>2, <2>w
    <2>5. /\ n = Put(n, s, x.tcarry, x.dec, <<>>) /\ n.go
          /\ PushIter(X) = Put(n, s \o y, x.tcarry, x.dec, <<>>)
      <3>1. CASE x.st = "AwaitingStatus"
        <4>1. n = ParseStatus(x) /\ PushIter(X) = ParseStatus(X)
          BY <1>3, <1>7, <3>1 DEF PushIter
        <4>2. ParseStatus(Put(x, x.carry, x.tcarry, x.dec, <<>>)) = Put(ParseStatus(x), s, x.tcarry, x.dec, <<>>)
          BY <1>1, <1>8, <2>1, <2>3, PutStatus, ZenonT(60)
        <4>3. ParseStatus(Put(x, w, x.tcarry, x.dec, <<>>))
                = Put(ParseStatus(x), AfterLine(w), x.tcarry, x.dec, <<>>)
          BY <1>1, <1>8, <2>v, <2>3, PutStatus, ZenonT(60)
        <4>4. ParseStatus(x).go BY <1>8, StatusGoesOn
        <4> QED BY <1>7, <2>w, <2>v, <2>4, <4>1, <4>2, <4>3, <4>4
      <3>2. CASE x.st = "AwaitingHeaders"
        <4>1. n = ParseHeaders(x) /\ PushIter(X) = ParseHeaders(X)
          BY <1>3, <1>7, <3>2 DEF PushIter
        <4>2. ParseHeaders(Put(x, x.carry, x.tcarry, x.dec, <<>>)) = Put(ParseHeaders(x), s, x.tcarry, x.dec, <<>>)
          BY <1>1, <1>8, <2>1, <2>3, PutHeaders, ZenonT(60)
        <4>3. ParseHeaders(Put(x, w, x.tcarry, x.dec, <<>>))
                = Put(ParseHeaders(x), AfterLine(w), x.tcarry, x.dec, <<>>)
          BY <1>1, <1>8, <2>v, <2>3, PutHeaders, ZenonT(60)
        <4>4. ParseHeaders(x).go BY <1>8, HeadersGoOn
        <4> QED BY <1>7, <2>w, <2>v, <2>4, <4>1, <4>2, <4>3, <4>4
      <3> QED BY <3>1, <3>2
    <2>6. n.carry = s /\ n.tcarry = x.tcarry /\ n.dec = x.dec
      <3>1. n \in MachineType BY <1>4 DEF MachineOK
      <3> QED BY <2>5, <3>1, PutBuffers
    <2>7. Tells(Put(n, n.carry \o y, n.tcarry, n.dec, <<>>), E)
      BY <1>6, <2>5, <2>6, TellsOn
    <2> QED BY <1>2, <1>3, <1>4, <2>5, <2>6, <2>7, FramedFollows
  <1>9. CASE ~ HasLine(x.carry)
    <2>1. n = NoLine(x) BY <1>3, <1>9 DEF PushIter, ParseStatus, ParseHeaders
    <2>2. ~ x.tchunked BY DEF Tight
    <2>3. n = IF Len(x.carry) > MaxLine THEN Wait(Reject(x)) ELSE Wait(x) BY <2>1 DEF NoLine
    <2> QED BY <1>2, <1>3, <1>9, <2>2, <2>3, NoLineFollows
  <1> QED BY <1>8, <1>9

(* The first round, and one after the last.                                 *)
LEMMA FirstFollows ==
    ASSUME NEW x, MachineOK(x), Tight(x), x.go, x.st = "Idle",
           NEW y \in Bytes, NEW E \in MachineType, Follows(x, y, E)
    PROVE  Follows(PushIter(x), y, E)
  <1>1. x \in MachineType /\ x.carry \in Bytes /\ x.tcarry \in Bytes /\ x.dec \in DecoderType
    BY DEF MachineOK, MachineType
  <1>2. ~ x.dec.finished BY DEF Tight
  <1>3. PICK X : X = Ext(x, y) OBVIOUS
  <1>4. /\ X = Put(x, x.carry \o y, x.tcarry, x.dec, <<>>) /\ X.go /\ X.st = x.st
        /\ x.carry \o y \in Bytes
    BY <1>3, ExtIsPut, ExtFacts DEF Extended
  <1>5. \E s \in States : s = "AwaitingStatus" BY DEF States
  <1>6. PICK s \in States : s = "AwaitingStatus" BY <1>5
  <1>7. PICK n : n = ToState(x, s) OBVIOUS
  <1>8. n = PushIter(x) /\ PushIter(X) = ToState(X, s) BY <1>4, <1>6, <1>7 DEF PushIter, ToState
  <1>9. <<>> \in Seq(Events) OBVIOUS
  <1>w. PICK w \in Bytes : w = x.carry \o y BY <1>4
  <1>v. \A b \in Seq(Events) :
           ToState(Put(x, w, x.tcarry, x.dec, b), s) = Put(n, w, x.tcarry, x.dec, b)
    BY <1>1, <1>7, PutState
  <1>10. ToState(X, s) = Put(n, x.carry \o y, x.tcarry, x.dec, <<>>)
    BY <1>4, <1>9, <1>w, <1>v
  <1>11. n.go /\ n.carry = x.carry /\ n.tcarry = x.tcarry /\ n.dec = x.dec
    BY <1>1, <1>7 DEF ToState, MachineType
  <1>12. Tells(Put(n, n.carry \o y, n.tcarry, n.dec, <<>>), E)
    BY <1>2, <1>3, <1>8, <1>10, <1>11, TellsOn DEF Follows
  <1> QED BY <1>2, <1>8, <1>11, <1>12, IterIsOK, FramedFollows

(* A machine that is closed or waits goes on as it did.                     *)
LEMMA ClosedFollows ==
    ASSUME NEW x, MachineOK(x), Tight(x), x.st = "Closed" \/ ~ x.go,
           NEW y \in Bytes, NEW E \in MachineType, Follows(x, y, E)
    PROVE  Follows(PushIter(x), y, E)
  <1>1. CASE ~ x.go BY <1>1 DEF PushIter
  <1>2. CASE x.go /\ x.st = "Closed"
    <2>1. PushIter(x) = Wait(x) BY <1>2 DEF PushIter
    <2> QED BY <1>2, <2>1, WaitFollows
  <1> QED BY <1>1, <1>2

-----------------------------------------------------------------------------
(* Streams in two pieces *)

(* A machine whose round has read all it had and waits.                     *)
Drained(x, k, s, r) ==
    [x EXCEPT !.carry = <<>>, !.dec = k, !.ev = s, !.st = r, !.go = FALSE]

(* What Drained does.                                                       *)
LEMMA DrainedFacts ==
    ASSUME NEW x, MachineOK(x), NEW k, DecoderInv(k), ~ k.more, NEW s \in Seq(Events),
           NEW r \in States
    PROVE  LET n == Drained(x, k, s, r)
           IN  /\ MachineOK(n) /\ ~ n.go /\ n.carry = <<>> /\ n.dec = k /\ n.ev = s /\ n.st = r
  <1>1. x \in MachineType /\ k \in DecoderType BY DEF MachineOK, DecoderInv
  <1>2. PICK n : n = [x EXCEPT !.carry = <<>>, !.dec = k, !.ev = s, !.st = r, !.go = FALSE]
    OBVIOUS
  <1>3. n \in MachineType /\ ~ n.go /\ n.carry = <<>> /\ n.dec = k /\ n.ev = s /\ n.st = r
    BY <1>1, <1>2, EmptyBytes DEF MachineType
  <1> QED BY <1>2, <1>3 DEF Drained, MachineOK

(* A machine drained twice is as if it was drained the second time.         *)
LEMMA DrainedAgain ==
    ASSUME NEW x, MachineOK(x), NEW y \in Bytes, NEW k, DecoderInv(k), ~ k.more,
           NEW s \in Seq(Events), NEW j, NEW u, NEW r
    PROVE  /\ Drained(Ext(x, y), j, u, r) = Drained(x, j, u, r)
           /\ Drained(Ext(Drained(x, k, s, x.st), y), j, u, r) = Drained(x, j, u, r)
  <1>1. x \in MachineType BY DEF MachineOK
  <1>2. PICK c : c = x.carry \o y OBVIOUS
  <1>3. PICK p : p = [x EXCEPT !.carry = c, !.go = TRUE] OBVIOUS
  <1>4. p = Ext(x, y) BY <1>2, <1>3 DEF Ext
  <1>5. Drained(p, j, u, r) = Drained(x, j, u, r)
    BY <1>1, <1>3 DEF Drained, MachineType
  <1>6. PICK n : n = [x EXCEPT !.carry = <<>>, !.dec = k, !.ev = s, !.st = x.st, !.go = FALSE]
    OBVIOUS
  <1>7. n = Drained(x, k, s, x.st) BY <1>6 DEF Drained
  <1>8. PICK b : b = n.carry \o y OBVIOUS
  <1>9. PICK q : q = [n EXCEPT !.carry = b, !.go = TRUE] OBVIOUS
  <1>10. q = Ext(n, y) BY <1>8, <1>9 DEF Ext
  <1>11. [q EXCEPT !.carry = <<>>, !.dec = j, !.ev = u, !.st = r, !.go = FALSE]
           = [x EXCEPT !.carry = <<>>, !.dec = j, !.ev = u, !.st = r, !.go = FALSE]
    BY <1>1, <1>6, <1>9 DEF MachineType
  <1> QED BY <1>4, <1>5, <1>7, <1>10, <1>11 DEF Drained

(* Machines drained alike are alike.                                        *)
LEMMA DrainedAlike ==
    ASSUME NEW x, MachineOK(x), NEW k, NEW s, NEW u, NEW r, SaysTheSame(u, s)
    PROVE  Alike(Drained(x, k, u, r), Drained(x, k, s, r))
  <1>1. x \in MachineType BY DEF MachineOK
  <1>2. PICK v : v = [x EXCEPT !.carry = <<>>, !.dec = k, !.ev = u, !.st = r, !.go = FALSE]
    OBVIOUS
  <1>3. PICK w : w = [x EXCEPT !.carry = <<>>, !.dec = k, !.ev = s, !.st = r, !.go = FALSE]
    OBVIOUS
  <1>4. v.ev = u /\ w.ev = s BY <1>1, <1>2, <1>3 DEF MachineType
  <1>5. v = [w EXCEPT !.ev = u] BY <1>1, <1>2, <1>3 DEF MachineType
  <1> QED BY <1>2, <1>3, <1>4, <1>5 DEF Drained, Alike, SameEnd, WithEvents

(* The events with a payload, and with what a decoder returned.             *)
Paid(s, b) == IF b = <<>> THEN s ELSE Append(s, <<"Payload", b>>)

(* The events s and what the client is told of the decoding d.              *)
Said(s, d) ==
    IF d.poison THEN Append(s, <<"StreamCorrupted", <<>> >>)
    ELSE IF d.finished THEN Append(Paid(s, d.out), <<"StreamEnded", <<>> >>)
    ELSE Paid(s, d.out)

(* A payload is an event.                                                   *)
LEMMA PaidType ==
    ASSUME NEW s \in Seq(Events), NEW b \in Bytes
    PROVE  Paid(s, b) \in Seq(Events)
  <1>1. <<"Payload", b>> \in Events BY DEF Events
  <1> QED BY <1>1, AppendProperties DEF Paid

(* What is told is events.                                                  *)
LEMMA SaidType ==
    ASSUME NEW s \in Seq(Events), NEW d \in DecoderType
    PROVE  Said(s, d) \in Seq(Events)
  <1>1. Paid(s, d.out) \in Seq(Events) BY PaidType DEF DecoderType
  <1>2. PICK p \in Events : p = <<"StreamCorrupted", <<>> >> BY EndEvents
  <1>3. PICK q \in Events : q = <<"StreamEnded", <<>> >> BY EndEvents
  <1>4. Append(s, p) \in Seq(Events) /\ Append(Paid(s, d.out), q) \in Seq(Events)
    BY <1>1, AppendProperties
  <1> QED BY <1>1, <1>2, <1>3, <1>4 DEF Said

(* A payload paid in two pieces says the same.                              *)
LEMMA PaidInPieces ==
    ASSUME NEW s \in Seq(Events), NEW p \in Bytes, NEW q \in Bytes
    PROVE  SaysTheSame(Paid(Paid(s, p), q), Paid(s, p \o q))
  <1>1. CASE p = <<>>
    <2>1. p \o q = q BY <1>1, ConcatEmptySeq DEF Bytes
    <2>2. Paid(s, p) = s BY <1>1 DEF Paid
    <2> QED BY <2>1, <2>2 DEF SaysTheSame
  <1>2. CASE q = <<>>
    <2>1. p \o q = p BY <1>2, ConcatEmptySeq DEF Bytes
    <2>2. Paid(Paid(s, p), q) = Paid(s, p) BY <1>2 DEF Paid
    <2> QED BY <2>1, <2>2 DEF SaysTheSame
  <1>3. CASE p # <<>> /\ q # <<>>
    <2>1. p \o q # <<>> BY <1>3, TailStays
    <2>2. /\ Paid(Paid(s, p), q) = Append(Append(s, <<"Payload", p>>), <<"Payload", q>>)
          /\ Paid(s, p \o q) = Append(s, <<"Payload", p \o q>>)
      BY <1>3, <2>1 DEF Paid
    <2> QED BY <2>2, PayloadInPieces
  <1> QED BY <1>1, <1>2, <1>3

(* What a round of a stream leaves.                                         *)
LEMMA DecodedIs ==
    ASSUME NEW x, MachineOK(x), NEW d \in DecoderType
    PROVE  Wait(Decoded(x, d))
             = Drained(x, Taken(d), Said(x.ev, d), IF d.poison \/ d.finished THEN "Closed" ELSE x.st)
  <1>1. x \in MachineType /\ x.ev \in Seq(Events) BY DEF MachineOK, MachineType
  <1>2. PICK k : k = Taken(d) OBVIOUS
  <1>3. PICK p : p = [[x EXCEPT !.carry = <<>>] EXCEPT !.dec = k] OBVIOUS
  <1>4. p = Streamed(x, d) BY <1>1, <1>2, <1>3, StreamedIs
  <1>5. p.ev = x.ev /\ p.st = x.st BY <1>1, <1>3 DEF MachineType
  <1>6. CASE d.poison
    <2>1. PICK s : s = Append(x.ev, <<"StreamCorrupted", <<>> >>) OBVIOUS
    <2>2. PICK q : q = [p EXCEPT !.ev = s] OBVIOUS
    <2>3. Decoded(x, d) = [q EXCEPT !.st = "Closed"]
      BY <1>4, <1>5, <1>6, <2>1, <2>2 DEF Decoded, Close, Emit
    <2>4. Wait(Decoded(x, d)) = [[q EXCEPT !.st = "Closed"] EXCEPT !.go = FALSE]
      BY <2>3 DEF Wait
    <2>5. [[q EXCEPT !.st = "Closed"] EXCEPT !.go = FALSE]
            = [x EXCEPT !.carry = <<>>, !.dec = k, !.ev = s, !.st = "Closed", !.go = FALSE]
      BY <1>1, <1>3, <2>2 DEF MachineType
    <2> QED BY <1>2, <1>6, <2>1, <2>4, <2>5 DEF Drained, Said
  <1>7. CASE ~ d.poison
    <2>1. PICK s : s = Paid(x.ev, d.out) OBVIOUS
    <2>2. PICK q : q = [p EXCEPT !.ev = s] OBVIOUS
    <2>3. q = EmitPayload(p, d.out)
      <3>1. CASE d.out = <<>>
        <4>1. s = p.ev BY <1>5, <2>1, <3>1 DEF Paid
        <4>2. q = p BY <1>1, <1>3, <2>2, <4>1 DEF MachineType
        <4> QED BY <3>1, <4>2 DEF EmitPayload
      <3>2. CASE d.out # <<>>
        <4>1. s = Append(p.ev, <<"Payload", d.out>>) BY <1>5, <2>1, <3>2 DEF Paid
        <4> QED BY <2>2, <3>2, <4>1 DEF EmitPayload, Emit
      <3> QED BY <3>1, <3>2
    <2>4. q.ev = s BY <1>1, <1>3, <2>2 DEF MachineType
    <2>5. CASE d.finished
      <3>1. PICK u : u = Append(s, <<"StreamEnded", <<>> >>) OBVIOUS
      <3>2. PICK h : h = [q EXCEPT !.ev = u] OBVIOUS
      <3>3. Decoded(x, d) = [h EXCEPT !.st = "Closed"]
        BY <1>4, <1>7, <2>3, <2>4, <2>5, <3>1, <3>2 DEF Decoded, Close, Emit
      <3>4. Wait(Decoded(x, d)) = [[h EXCEPT !.st = "Closed"] EXCEPT !.go = FALSE]
        BY <3>3 DEF Wait
      <3>5. [[h EXCEPT !.st = "Closed"] EXCEPT !.go = FALSE]
              = [x EXCEPT !.carry = <<>>, !.dec = k, !.ev = u, !.st = "Closed", !.go = FALSE]
        BY <1>1, <1>3, <2>2, <3>2 DEF MachineType
      <3> QED BY <1>2, <1>7, <2>1, <2>5, <3>1, <3>4, <3>5 DEF Drained, Said
    <2>6. CASE ~ d.finished
      <3>1. Decoded(x, d) = q BY <1>4, <1>7, <2>3, <2>6 DEF Decoded
      <3>2. Wait(Decoded(x, d)) = [q EXCEPT !.go = FALSE] BY <3>1 DEF Wait
      <3>3. [q EXCEPT !.go = FALSE]
              = [x EXCEPT !.carry = <<>>, !.dec = k, !.ev = s, !.st = x.st, !.go = FALSE]
        BY <1>1, <1>3, <2>2 DEF MachineType
      <3> QED BY <1>2, <1>7, <2>1, <2>6, <3>2, <3>3 DEF Drained, Said
    <2> QED BY <2>5, <2>6
  <1> QED BY <1>6, <1>7

(* A decoder whose output was taken decodes as it would have.               *)
LEMMA DecodeTaken ==
    ASSUME NEW d \in DecoderType, ~ d.poison, ~ d.finished, NEW y \in Bytes
    PROVE  Decode(Taken(d), y) = Decode(d, y)
  <1>1. PICK t : t = Taken(d) OBVIOUS
  <1>2. t = [d EXCEPT !.out = <<>>] BY <1>1 DEF Taken
  <1>3. t.buf = d.buf /\ ~ t.poison /\ ~ t.finished BY <1>2 DEF DecoderType
  <1>4. PICK b : b = d.buf \o y OBVIOUS
  <1>5. [t EXCEPT !.buf = b, !.out = <<>>, !.more = TRUE]
          = [d EXCEPT !.buf = b, !.out = <<>>, !.more = TRUE]
    BY <1>2 DEF DecoderType
  <1>6. PICK g : g = [d EXCEPT !.buf = b, !.out = <<>>, !.more = TRUE] OBVIOUS
  <1>7. g = [t EXCEPT !.buf = @ \o y, !.out = <<>>, !.more = TRUE]
    BY <1>3, <1>4, <1>5, <1>6
  <1>8. g = [d EXCEPT !.buf = @ \o y, !.out = <<>>, !.more = TRUE]
    BY <1>4, <1>6
  <1> QED BY <1>1, <1>3, <1>7, <1>8 DEF Decode

(* What the decoder of a piece and that of the whole have in common.        *)
LEMMA SaidOfFed ==
    ASSUME NEW d \in DecoderType, NEW y \in Bytes, NEW D, D = Fed(d, y), NEW s
    PROVE  /\ Said(s, D) = Said(s, d) /\ D.out = d.out
           /\ D.poison = d.poison /\ D.finished = d.finished
  <1>1. /\ D.poison = d.poison /\ D.finished = d.finished /\ D.out = d.out
    BY FedFacts
  <1> QED BY <1>1 DEF Said

(* What is told of a decoding that has decoded o before.                    *)
LEMMA SaidOfBefore ==
    ASSUME NEW d \in DecoderType, ~ d.poison, NEW o \in Bytes, NEW D, D = Before(o, d),
           NEW s \in Seq(Events)
    PROVE  /\ Taken(D) = Taken(d) /\ D.poison = d.poison /\ D.finished = d.finished
           /\ SaysTheSame(Said(Paid(s, o), d), Said(s, D))
  <1>1. PICK b : b = o \o d.out OBVIOUS
  <1>2. D = [d EXCEPT !.out = b] BY <1>1 DEF Before
  <1>3. D.out = b /\ D.poison = d.poison /\ D.finished = d.finished BY <1>2 DEF DecoderType
  <1>4. Taken(D) = Taken(d) BY <1>2 DEF Taken, DecoderType
  <1>5. d.out \in Bytes /\ b \in Bytes BY <1>1, MoreBytes DEF DecoderType
  <1>6. SaysTheSame(Paid(Paid(s, o), d.out), Paid(s, b)) BY <1>1, <1>5, PaidInPieces
  <1>7. Paid(s, o) \in Seq(Events) BY PaidType
  <1>8. Paid(Paid(s, o), d.out) \in Seq(Events) /\ Paid(s, b) \in Seq(Events)
    BY <1>5, <1>7, PaidType
  <1>9. CASE d.finished
    <2>1. PICK e \in Events : e = <<"StreamEnded", <<>> >> BY EndEvents
    <2>2. SaysTheSame(Append(Paid(Paid(s, o), d.out), e), Append(Paid(s, b), e))
      BY <1>6, <1>8, SaidAgain
    <2> QED BY <1>3, <1>4, <1>9, <2>1, <2>2 DEF Said
  <1>10. CASE ~ d.finished BY <1>3, <1>4, <1>6, <1>10 DEF Said
  <1> QED BY <1>9, <1>10

(* A poisoned decoder is told as a corruption.                              *)
LEMMA CorruptedSaid ==
    ASSUME NEW s \in Seq(Events), NEW d, d.poison
    PROVE  Corrupted(Said(s, d))
  BY CorruptedLast DEF Said

(* A round of a chunked stream.                                             *)
LEMMA ChunksFollow ==
    ASSUME NEW x, MachineOK(x), Tight(x), x.go, x.st = "Streaming", ~ x.icyBlank, x.chunked,
           x.carry # <<>>, NEW y \in Bytes, y # <<>>, NEW E \in MachineType, Follows(x, y, E)
    PROVE  Follows(PushIter(x), y, E)
  <1>1. /\ x \in MachineType /\ x.carry \in Bytes /\ x.ev \in Seq(Events)
        /\ DecoderInv(x.dec) /\ ~ x.dec.more
    BY DEF MachineOK, MachineType
  <1>2. ~ x.dec.finished /\ ~ x.dec.poison BY DEF Tight
  <1>3. PICK X : X = Ext(x, y) OBVIOUS
  <1>4. /\ MachineOK(X) /\ X.go /\ X.st = "Streaming" /\ ~ X.icyBlank /\ X.chunked
        /\ X.carry = x.carry \o y /\ X.carry # <<>> /\ X.dec = x.dec /\ X.ev = x.ev
        /\ X.carry \in Bytes /\ X \in MachineType
    <2>1. Extended(x, y, X) BY <1>3, ExtFacts
    <2>2. x.carry \o y # <<>> BY <1>1, TailStays
    <2> QED BY <2>1, <2>2 DEF Extended, MachineOK
  <1>5. PICK d : d = Decode(x.dec, x.carry) OBVIOUS
  <1>6. PICK D : D = Decode(x.dec, x.carry \o y) OBVIOUS
  <1>7. /\ DecoderInv(d) /\ ~ d.more /\ DecoderInv(D) /\ ~ D.more
        /\ d \in DecoderType /\ D \in DecoderType
    BY <1>1, <1>4, <1>5, <1>6, DecodeFacts DEF DecoderInv
  <1>8. PICK n : n = PushIter(x) OBVIOUS
  <1>9. n = Drained(x, Taken(d), Said(x.ev, d), IF d.poison \/ d.finished THEN "Closed" ELSE x.st)
    <2>1. n = DrainPayload(x) BY <1>8 DEF PushIter
    <2>2. DrainPayload(x) = Wait(Decoded(x, d)) BY <1>1, <1>5, DrainChunks
    <2> QED BY <1>7, <2>1, <2>2, DecodedIs
  <1>10. PICK W : W = PushIter(X) OBVIOUS
  <1>11. W = Drained(x, Taken(D), Said(x.ev, D), IF D.poison \/ D.finished THEN "Closed" ELSE x.st)
    <2>1. W = DrainPayload(X) BY <1>4, <1>10 DEF PushIter
    <2>2. DrainPayload(X) = Wait(Decoded(X, D)) BY <1>4, <1>6, DrainChunks
    <2>3. \A j, u, r : Drained(X, j, u, r) = Drained(x, j, u, r)
      BY <1>1, <1>3, DrainedAgain
    <2> QED BY <1>4, <1>7, <2>1, <2>2, <2>3, DecodedIs
  <1>12. Tells(W, E) BY <1>2, <1>3, <1>10, TellsOn DEF Follows
  <1>13. /\ DecoderInv(Taken(d)) /\ ~ Taken(d).more /\ DecoderInv(Taken(D)) /\ ~ Taken(D).more
         /\ Said(x.ev, d) \in Seq(Events) /\ Said(x.ev, D) \in Seq(Events)
         /\ "Closed" \in States /\ x.st \in States
    BY <1>1, <1>7, TakenFacts, SaidType DEF States
  <1>14. /\ Taken(d).poison = d.poison /\ Taken(d).finished = d.finished
         /\ Taken(d).buf = d.buf /\ Taken(d).st = d.st
    BY <1>7, TakenType
  <1>15. CASE d.poison \/ d.finished
    <2>1. DecoderGaveUp(d) \/ D = Fed(d, y) BY <1>1, <1>2, <1>5, <1>6, <1>15, DecodeInPieces
    <2>2. n = Drained(x, Taken(d), Said(x.ev, d), "Closed") BY <1>9, <1>15
    <2>3. n.st = "Closed" /\ n.dec = Taken(d) /\ n.ev = Said(x.ev, d)
      BY <1>13, <2>2, DrainedFacts
    <2>4. CASE DecoderGaveUp(d)
      <3>1. GaveUp(n) BY <1>14, <2>3, <2>4 DEF GaveUp, DecoderGaveUp, Unending, LineGivenUp
      <3> QED BY <1>8, <2>3, <3>1 DEF Follows, Lost
    <2>5. CASE D = Fed(d, y)
      <3>1. Said(x.ev, D) = Said(x.ev, d) /\ (D.poison \/ D.finished)
        BY <1>7, <1>15, <2>5, SaidOfFed
      <3>2. W = Drained(x, Taken(D), Said(x.ev, D), "Closed") BY <1>11, <3>1
      <3>3. MachineOK(W) /\ W.st = "Closed" /\ W.ev = n.ev
        BY <1>13, <2>3, <3>1, <3>2, DrainedFacts
      <3>4. Lost(n, E) BY <1>12, <3>3, LostAlike
      <3> QED BY <1>8, <2>3, <3>4 DEF Follows
    <2> QED BY <2>1, <2>4, <2>5
  <1>16. CASE ~ d.poison /\ ~ d.finished
    <2>1. PICK k : k = Taken(d) OBVIOUS
    <2>2. PICK s \in Seq(Events) : s = Said(x.ev, d) BY <1>13
    <2>3. n = Drained(x, k, s, x.st) BY <1>9, <1>16, <2>1, <2>2
    <2>4. /\ MachineOK(n) /\ ~ n.go /\ n.carry = <<>> /\ n.dec = k /\ n.ev = s /\ n.st = "Streaming"
          /\ n.chunked /\ ~ n.icyBlank
      <3>1. PICK r \in States : r = x.st BY <1>13
      <3>2. n = Drained(x, k, s, r) BY <2>3, <3>1
      <3>k. DecoderInv(k) /\ ~ k.more BY <1>13, <2>1, Zenon
      <3>e. PICK e : e = Drained(x, k, s, r) OBVIOUS
      <3>g. MachineOK(e) /\ ~ e.go /\ e.carry = <<>> /\ e.dec = k /\ e.ev = s /\ e.st = r
        BY <3>e, <3>k, DrainedFacts
      <3>h. e.chunked = x.chunked /\ e.icyBlank = x.icyBlank
        BY <1>1, <3>e DEF Drained, MachineType
      <3>3. MachineOK(n) /\ ~ n.go /\ n.carry = <<>> /\ n.dec = k /\ n.ev = s /\ n.st = r
        BY <3>e, <3>g, <3>2
      <3>4. n.chunked = x.chunked /\ n.icyBlank = x.icyBlank
        BY <3>e, <3>h, <3>2
      <3> QED BY <3>1, <3>3, <3>4
    <2>5. PICK N : N = Ext(n, y) OBVIOUS
    <2>6. /\ MachineOK(N) /\ N.go /\ N.st = "Streaming" /\ ~ N.icyBlank /\ N.chunked
          /\ N.carry = y /\ N.dec = k /\ N.ev = s /\ N \in MachineType
      <3>1. Extended(n, y, N) BY <2>4, <2>5, ExtFacts
      <3>2. <<>> \o y = y BY ConcatEmptySeq DEF Bytes
      <3> QED BY <2>4, <3>1, <3>2 DEF Extended, MachineOK
    <2>7. PICK e : e = Decode(k, y) OBVIOUS
    <2>8. DecoderInv(e) /\ ~ e.more /\ e \in DecoderType
      BY <1>13, <2>1, <2>7, DecodeFacts DEF DecoderInv
    <2>9. e = Decode(d, y) BY <1>7, <1>16, <2>1, <2>7, DecodeTaken
    <2>10. SameAfter(d.out, e, D) BY <1>1, <1>2, <1>5, <1>6, <1>16, <2>9, DecodeInPieces
    <2>11. PICK V : V = PushIter(N) OBVIOUS
    <2>12. V = Drained(x, Taken(e), Said(s, e), IF e.poison \/ e.finished THEN "Closed" ELSE x.st)
      <3>1. V = DrainPayload(N) BY <2>6, <2>11 DEF PushIter
      <3>2. DrainPayload(N) = Wait(Decoded(N, e)) BY <2>6, <2>7, DrainChunks
      <3>3. \A j, u, r : Drained(N, j, u, r) = Drained(x, j, u, r)
        BY <1>1, <1>13, <2>1, <2>3, <2>5, DrainedAgain
      <3> QED BY <2>4, <2>6, <2>8, <3>1, <3>2, <3>3, DecodedIs
    <2>13. DecoderInv(Taken(e)) /\ ~ Taken(e).more /\ Said(s, e) \in Seq(Events)
      BY <2>8, TakenFacts, SaidType
    <2>14. Alike(V, W) /\ MachineOK(V) /\ ~ V.go /\ MachineOK(W) /\ ~ W.go
      <3>1. CASE e.poison
        <4>1. D = e BY <2>10, <3>1 DEF SameAfter
        <4>c. PICK c \in States : c = "Closed" BY <1>13
        <4>j. PICK j : j = Taken(e) OBVIOUS
        <4>u. PICK u \in Seq(Events) : u = Said(s, e) BY <2>13
        <4>v. PICK v \in Seq(Events) : v = Said(x.ev, e) BY <1>13, <4>1
        <4>2. V = Drained(x, j, u, c) /\ W = Drained(x, j, v, c)
          BY <1>11, <2>12, <3>1, <4>1, <4>c, <4>j, <4>u, <4>v
        <4>3. /\ MachineOK(V) /\ ~ V.go /\ V.st = c /\ V.ev = u /\ V.dec = j
          BY <2>13, <4>2, <4>j, DrainedFacts
        <4>4. /\ MachineOK(W) /\ ~ W.go /\ W.st = c /\ W.ev = v /\ W.dec = j
          BY <2>13, <4>2, <4>j, DrainedFacts
        <4>5. Corrupted(V.ev) /\ Corrupted(W.ev)
          BY <1>1, <3>1, <4>3, <4>4, <4>u, <4>v, CorruptedSaid
        <4>6. Taken(e).poison BY <2>8, <3>1, TakenType
        <4> QED BY <4>3, <4>4, <4>5, <4>6, <4>c, <4>j DEF Alike, BothCorrupted
      <3>2. CASE ~ e.poison
        <4>1. D = Before(d.out, e) /\ d.out \in Bytes
          BY <1>7, <2>10, <3>2 DEF SameAfter, DecoderType
        <4>2. s = Paid(x.ev, d.out) BY <1>16, <2>2 DEF Said
        <4>3. /\ Taken(D) = Taken(e) /\ D.poison = e.poison /\ D.finished = e.finished
              /\ SaysTheSame(Said(s, e), Said(x.ev, D))
          BY <1>1, <2>8, <3>2, <4>1, <4>2, SaidOfBefore
        <4>4. PICK r \in States : r = IF e.poison \/ e.finished THEN "Closed" ELSE x.st
          BY <1>13
        <4>5. /\ V = Drained(x, Taken(e), Said(s, e), r)
              /\ W = Drained(x, Taken(e), Said(x.ev, D), r)
          BY <1>11, <2>12, <4>3, <4>4
        <4>6. MachineOK(V) /\ ~ V.go BY <2>13, <4>5, DrainedFacts
        <4>7. MachineOK(W) /\ ~ W.go BY <1>13, <2>13, <4>5, DrainedFacts
        <4> QED BY <4>3, <4>5, <4>6, <4>7, DrainedAlike
      <3> QED BY <3>1, <3>2
    <2>15. Tells(V, E) BY <1>12, <2>14, TellsAlike
    <2>16. Tells(N, E) BY <2>11, <2>15, TellsBack
    <2>17. ~ n.dec.finished BY <1>14, <1>16, <2>1, <2>4
    <2> QED BY <1>8, <2>4, <2>5, <2>16, <2>17 DEF Follows
  <1> QED BY <1>15, <1>16

(* A payload that is not encoded.                                           *)
LEMMA PlainIs ==
    ASSUME NEW x, MachineOK(x), x.go, x.st = "Streaming", ~ x.icyBlank, ~ x.chunked,
           x.carry # <<>>, NEW b, b = x.carry, NEW k, k = x.dec, NEW e, e = x.ev
    PROVE  PushIter(x) = Drained(x, k, Append(e, <<"Payload", b>>), "Streaming")
  <1>1. x \in MachineType /\ x.ev \in Seq(Events) BY DEF MachineOK, MachineType
  <1>2. PushIter(x) = DrainPayload(x) BY DEF PushIter
  <1>3. PICK p : p = [x EXCEPT !.carry = <<>>, !.tcarry = x.tcarry, !.dec = k, !.ev = e]
    OBVIOUS
  <1>4. p = Put(x, <<>>, x.tcarry, x.dec, <<>>)
    <2>1. <<>> \o x.ev = x.ev BY <1>1, ConcatEmptySeq
    <2> QED BY <1>3, <2>1 DEF Put
  <1>5. DrainPayload(x) = Wait(Emit(p, "Payload", b)) BY <1>1, <1>4, DrainPayloadCases
  <1>6. p.ev = e BY <1>1, <1>3 DEF MachineType
  <1>7. PICK s : s = Append(e, <<"Payload", b>>) OBVIOUS
  <1>8. DrainPayload(x) = [[p EXCEPT !.ev = s] EXCEPT !.go = FALSE]
    BY <1>5, <1>6, <1>7 DEF Wait, Emit
  <1>9. [[p EXCEPT !.ev = s] EXCEPT !.go = FALSE]
          = [x EXCEPT !.carry = <<>>, !.dec = k, !.ev = s, !.st = "Streaming", !.go = FALSE]
    BY <1>1, <1>3 DEF MachineType
  <1> QED BY <1>2, <1>7, <1>8, <1>9 DEF Drained

(* A body that is not chunked: the payload is whatever has come.            *)
LEMMA PlainFollows ==
    ASSUME NEW x, MachineOK(x), Tight(x), x.go, x.st = "Streaming", ~ x.icyBlank, ~ x.chunked,
           x.carry # <<>>, NEW y \in Bytes, y # <<>>, NEW E \in MachineType, Follows(x, y, E)
    PROVE  Follows(PushIter(x), y, E)
  <1>1. /\ x \in MachineType /\ x.carry \in Bytes /\ x.ev \in Seq(Events)
        /\ DecoderInv(x.dec) /\ ~ x.dec.more
    BY DEF MachineOK, MachineType
  <1>2. ~ x.dec.finished BY DEF Tight
  <1>3. PICK X : X = Ext(x, y) OBVIOUS
  <1>4. /\ MachineOK(X) /\ X.go /\ X.st = "Streaming" /\ ~ X.icyBlank /\ ~ X.chunked
        /\ X.carry = x.carry \o y /\ X.carry # <<>> /\ X.dec = x.dec /\ X.ev = x.ev
        /\ X.carry \in Bytes
    <2>1. Extended(x, y, X) BY <1>3, ExtFacts
    <2>2. x.carry \o y # <<>> BY <1>1, TailStays
    <2> QED BY <2>1, <2>2 DEF Extended
  <1>5. PICK k : k = x.dec OBVIOUS
  <1>6. PICK b \in Bytes : b = x.carry BY <1>1
  <1>7. PICK r \in States : r = "Streaming" BY DEF States
  <1>8. PICK s \in Seq(Events) : s = Append(x.ev, <<"Payload", b>>)
    <2>1. <<"Payload", b>> \in Events BY DEF Events
    <2> QED BY <1>1, <2>1, AppendProperties
  <1>9. PICK u \in Seq(Events) : u = Append(x.ev, <<"Payload", b \o y>>)
    BY <1>1, PayloadInPieces
  <1>10. PICK v \in Seq(Events) : v = Append(s, <<"Payload", y>>)
    BY <1>1, <1>8, PayloadInPieces
  <1>11. SaysTheSame(v, u) BY <1>1, <1>8, <1>9, <1>10, PayloadInPieces
  <1>12. PICK n : n = PushIter(x) OBVIOUS
  <1>13. n = Drained(x, k, s, r) BY <1>5, <1>6, <1>7, <1>8, <1>12, PlainIs
  <1>14. PICK W : W = PushIter(X) OBVIOUS
  <1>15. W = Drained(x, k, u, r)
    <2>1. W = Drained(X, k, u, r) BY <1>4, <1>5, <1>6, <1>7, <1>9, <1>14, PlainIs
    <2>2. \A j, q, p : Drained(X, j, q, p) = Drained(x, j, q, p)
      BY <1>1, <1>3, DrainedAgain
    <2> QED BY <2>1, <2>2
  <1>16. Tells(W, E) BY <1>2, <1>3, <1>14, TellsOn DEF Follows
  <1>17. DecoderInv(k) /\ ~ k.more BY <1>1, <1>5
  <1>18. PICK e : e = Drained(x, k, s, r) OBVIOUS
  <1>19. /\ MachineOK(e) /\ ~ e.go /\ e.carry = <<>> /\ e.dec = k /\ e.ev = s /\ e.st = r
    BY <1>17, <1>18, DrainedFacts
  <1>20. ~ e.chunked /\ ~ e.icyBlank BY <1>1, <1>18 DEF Drained, MachineType
  <1>21. PICK N : N = Ext(e, y) OBVIOUS
  <1>22. /\ MachineOK(N) /\ N.go /\ N.st = "Streaming" /\ ~ N.icyBlank /\ ~ N.chunked
         /\ N.carry = y /\ N.dec = k /\ N.ev = s
    <2>1. Extended(e, y, N) BY <1>19, <1>21, ExtFacts
    <2>2. <<>> \o y = y BY ConcatEmptySeq DEF Bytes
    <2> QED BY <1>7, <1>19, <1>20, <2>1, <2>2 DEF Extended
  <1>23. PICK V : V = PushIter(N) OBVIOUS
  <1>24. V = Drained(x, k, v, r)
    <2>1. V = Drained(N, k, v, r) BY <1>7, <1>10, <1>22, <1>23, PlainIs
    <2>2. e = Drained(x, k, s, x.st) BY <1>7, <1>18
    <2>3. \A j, q, p : Drained(N, j, q, p) = Drained(x, j, q, p)
      BY <1>17, <1>21, <2>2, DrainedAgain
    <2> QED BY <2>1, <2>3
  <1>25. Alike(V, W) BY <1>11, <1>15, <1>24, DrainedAlike
  <1>26. MachineOK(V) /\ ~ V.go BY <1>17, <1>24, DrainedFacts
  <1>27. MachineOK(W) /\ ~ W.go BY <1>15, <1>17, DrainedFacts
  <1>28. Tells(V, E) BY <1>16, <1>25, <1>26, <1>27, TellsAlike
  <1>29. Tells(N, E) BY <1>23, <1>28, TellsBack
  <1>30. n = e BY <1>13, <1>18
  <1> QED BY <1>2, <1>5, <1>7, <1>12, <1>19, <1>21, <1>29, <1>30 DEF Follows

(* A round of a stream.                                                     *)
LEMMA StreamFollows ==
    ASSUME NEW x, MachineOK(x), Tight(x), x.go, x.st = "Streaming",
           NEW y \in Bytes, y # <<>>, NEW E \in MachineType, Follows(x, y, E)
    PROVE  Follows(PushIter(x), y, E)
  <1>1. /\ x \in MachineType /\ x.carry \in Bytes /\ x.tcarry \in Bytes /\ x.dec \in DecoderType
        /\ x.icyBlank \in BOOLEAN /\ x.chunked \in BOOLEAN
    BY DEF MachineOK, MachineType
  <1>2. ~ x.dec.finished BY DEF Tight
  <1>3. PushIter(x) = DrainPayload(x) BY DEF PushIter
  <1>4. CASE (x.icyBlank /\ Pending(x.carry)) \/ (~ x.icyBlank /\ x.carry = <<>>)
    <2>1. PushIter(x) = Wait(x) BY <1>1, <1>3, <1>4, DrainPayloadCases
    <2> QED BY <1>2, <2>1, WaitFollows
  <1>5. CASE ~ x.icyBlank /\ x.carry # <<>>
    BY <1>5, PlainFollows, ChunksFollow
  <1>6. CASE x.icyBlank /\ ~ Pending(x.carry)
    <2>1. PICK r : r = Skimmed(x.carry) OBVIOUS
    <2>2. PICK c \in Bytes : c = x.carry \o y BY <1>1, MoreBytes
    <2>3. /\ r \in Bytes /\ ~ Pending(c) /\ Skimmed(c) = r \o y
      BY <1>1, <1>6, <2>1, <2>2, SkimmedFacts
    <2>4. PICK q \in Bytes : q = r \o y BY <2>3, MoreBytes
    <2>5. PICK s : s = Skim(x, r) OBVIOUS
    <2>6. /\ s \in MachineType /\ ~ s.icyBlank
          /\ s.carry = r /\ s.tcarry = x.tcarry /\ s.dec = x.dec
          /\ s.st = x.st /\ s.ev = x.ev
          /\ s.hbytes = x.hbytes /\ s.text = x.text
      BY <1>1, <2>3, <2>5, SkimFacts, ZenonT(60)
    <2>7. s.go /\ s.tchunked = x.tchunked BY <1>1, <2>5 DEF Skim, MachineType
    <2>8. MachineOK(s) /\ Tight(s) BY <2>6, <2>7 DEF MachineOK, Tight
    <2>9. PushIter(x) = DrainPayload(s) BY <1>1, <1>3, <1>6, <2>1, <2>5, DrainPayloadCases
    <2>10. PushIter(s) = DrainPayload(s) BY <2>6, <2>7 DEF PushIter
    <2>11. PICK X : X = Ext(x, y) OBVIOUS
    <2>12. /\ MachineOK(X) /\ X.go /\ X.st = "Streaming" /\ X.icyBlank /\ X.carry = c
           /\ X \in MachineType
      <3>1. Extended(x, y, X) BY <2>11, ExtFacts
      <3> QED BY <1>6, <2>2, <3>1 DEF Extended, MachineOK
    <2>13. PushIter(X) = DrainPayload(Skim(X, q))
      <3>1. PushIter(X) = DrainPayload(X) BY <2>12 DEF PushIter
      <3>2. DrainPayload(X) = DrainPayload(Skim(X, Skimmed(X.carry)))
        BY <2>3, <2>12, DrainPayloadCases
      <3> QED BY <2>3, <2>4, <2>12, <3>1, <3>2
    <2>14. Skim(X, q) = Ext(s, y)
      <3>1. X = Put(x, c, x.tcarry, x.dec, <<>>) BY <2>2, <2>11, ExtIsPut
      <3>2. \A b \in Seq(Events) : Skim(Put(x, c, x.tcarry, x.dec, b), q) = Put(s, q, x.tcarry, x.dec, b)
        BY <1>1, <2>3, <2>5, PutSkim
      <3>3. <<>> \in Seq(Events) OBVIOUS
      <3>4. Ext(s, y) = Put(s, q, x.tcarry, x.dec, <<>>)
        BY <2>4, <2>6, <2>7, <2>8, ExtIsPut
      <3> QED BY <3>1, <3>2, <3>3, <3>4
    <2>15. PICK S : S = Ext(s, y) OBVIOUS
    <2>16. S.go /\ S.st = "Streaming"
      <3>1. Extended(s, y, S) BY <2>8, <2>15, ExtFacts
      <3> QED BY <2>6, <3>1 DEF Extended
    <2>17. PushIter(S) = PushIter(X) BY <2>13, <2>14, <2>15, <2>16 DEF PushIter
    <2>18. Tells(S, E)
      <3>1. Tells(X, E) BY <1>2, <2>11 DEF Follows
      <3>2. Tells(PushIter(S), E) BY <2>17, <3>1, TellsOn
      <3> QED BY <3>2, TellsBack
    <2>19. Follows(s, y, E) BY <1>2, <2>6, <2>15, <2>18 DEF Follows
    <2>20. CASE s.carry = <<>>
      <3>1. PushIter(s) = Wait(s) BY <2>6, <2>10, <2>20, DrainPayloadCases
      <3>2. ~ (s.st # "Closed" /\ s.dec.finished) BY <1>2, <2>6
      <3> QED BY <2>8, <2>9, <2>10, <2>19, <3>1, <3>2, WaitFollows
    <2>21. CASE s.carry # <<>>
      <3>1. Follows(PushIter(s), y, E)
        BY <2>6, <2>7, <2>8, <2>19, <2>21, PlainFollows, ChunksFollow
      <3> QED BY <2>9, <2>10, <3>1
    <2> QED BY <2>20, <2>21
  <1> QED BY <1>1, <1>4, <1>5, <1>6

-----------------------------------------------------------------------------
(* Tables in two pieces *)

(* Only what is put into it last matters.                                   *)
LEMMA PutLast ==
    ASSUME NEW m \in MachineType, NEW c \in Bytes, NEW t \in Bytes, NEW d \in DecoderType,
           NEW b \in Bytes, NEW s \in Bytes, NEW k \in DecoderType
    PROVE  Put(Put(m, c, t, d, <<>>), b, s, k, <<>>) = Put(m, b, s, k, <<>>)
  <1>1. \A a \in Seq(Events) : Put(Put(m, c, t, d, a), b, s, k, <<>>) = Put(m, b, s, k, a)
    BY PutAgain
  <1>2. <<>> \in Seq(Events) OBVIOUS
  <1> QED BY <1>1, <1>2

(* What Put must be given.                                                  *)
LEMMA PutIsOK ==
    ASSUME NEW m, MachineOK(m), NEW c \in Bytes, NEW t \in Bytes, NEW d,
           DecoderInv(d), ~ d.more
    PROVE  MachineOK(Put(m, c, t, d, <<>>))
  <1>1. m \in MachineType /\ d \in DecoderType BY DEF MachineOK, DecoderInv
  <1>2. Put(m, c, t, d, <<>>) \in MachineType
    <2>1. \A a \in Seq(Events) : /\ Put(After(a, m), c, t, d, <<>>) = After(a, Put(m, c, t, d, <<>>))
                                 /\ Put(m, c, t, d, <<>>) \in MachineType
      BY <1>1, AfterPut
    <2>2. <<>> \in Seq(Events) OBVIOUS
    <2> QED BY <2>1, <2>2
  <1>3. Put(m, c, t, d, <<>>).dec = d BY <1>1, PutBuffers
  <1> QED BY <1>2, <1>3 DEF MachineOK

(* A line of a table, whatever is behind it.                                *)
LEMMA LineBehind ==
    ASSUME NEW m, MachineOK(m), NEW c \in Bytes, NEW t \in Bytes, NEW d \in DecoderType,
           NEW line \in Bytes
    PROVE  PushSourcetableLine(Put(m, c, t, d, <<>>), line)
             = Put(PushSourcetableLine(m, line), c, t, d, <<>>)
  <1>1. \A a \in Seq(Events) : PushSourcetableLine(Put(m, c, t, d, a), line)
                                 = Put(PushSourcetableLine(m, line), c, t, d, a)
    BY PutLine
  <1>2. <<>> \in Seq(Events) OBVIOUS
  <1> QED BY <1>1, <1>2

(* A line of the table leaves its encoding alone.                           *)
LEMMA LineKeepsTable ==
    ASSUME NEW m, MachineOK(m), m.tchunked, NEW line
    PROVE  PushSourcetableLine(m, line).tchunked
  <1>1. m \in MachineType BY DEF MachineOK
  <1>2. PICK n : n = [m EXCEPT !.started = TRUE, !.text = Append(m.text, line)] OBVIOUS
  <1>3. n = [m EXCEPT !.started = TRUE, !.text = Append(@, line)] BY <1>2
  <1>4. PushSourcetableLine(m, line) \in {m, n, Reject(n), FinishSourcetable(n)}
    BY <1>3 DEF PushSourcetableLine
  <1> QED BY <1>1, <1>2, <1>4 DEF MachineType, Reject, FinishSourcetable, Close, Emit

(* A line that is given up.                                                 *)
LEMMA RejectFollows ==
    ASSUME NEW x, MachineOK(x), Tight(x), x.st # "Closed", NEW y, NEW E,
           Unending(x.carry) \/ (x.tchunked /\ Unending(x.tcarry))
    PROVE  Follows(Wait(Reject(x)), y, E)
  <1>1. PICK r : r = Reject(x) OBVIOUS
  <1>2. "Rejected" \in Ends /\ <<>> \in Details BY EmptyBytes DEF Ends, Details
  <1>3. /\ MachineOK(r) /\ r.st = "Closed" /\ r.carry = x.carry /\ r.tcarry = x.tcarry
        /\ r.dec = x.dec
    BY <1>1, <1>2, CloseFacts DEF Reject
  <1>4. r.tchunked = x.tchunked
    BY <1>1 DEF Reject, Close, Emit, MachineOK, MachineType
  <1>5. PICK n : n = Wait(r) OBVIOUS
  <1>6. /\ n.st = "Closed" /\ n.carry = x.carry /\ n.tcarry = x.tcarry /\ n.dec = x.dec
        /\ n.tchunked = x.tchunked
    BY <1>3, <1>4, <1>5, WaitFacts
  <1>7. ~ x.dec.poison BY DEF Tight
  <1> QED BY <1>1, <1>5, <1>6, <1>7 DEF Follows, Lost, GaveUp

(* A round of a table that is not encoded.                                  *)
LEMMA PlainTableFollows ==
    ASSUME NEW x, MachineOK(x), Tight(x), x.go, x.st = "Sourcetable", ~ x.tchunked,
           NEW y \in Bytes, NEW E \in MachineType, Follows(x, y, E)
    PROVE  Follows(PushIter(x), y, E)
  <1>1. x \in MachineType /\ x.carry \in Bytes /\ x.tcarry \in Bytes /\ x.dec \in DecoderType
    BY DEF MachineOK, MachineType
  <1>2. ~ x.dec.finished BY DEF Tight
  <1>3. PushIter(x) = DrainSourcetable(x) BY DEF PushIter
  <1>4. PICK X : X = Ext(x, y) OBVIOUS
  <1>5. Tells(PushIter(X), E) BY <1>2, <1>4, TellsOn DEF Follows
  <1>6. PICK c \in Bytes : c = x.carry \o y BY <1>1, MoreBytes
  <1>7. /\ X = Put(x, c, x.tcarry, x.dec, <<>>)
        /\ MachineOK(X) /\ X.go /\ X.st = "Sourcetable" /\ ~ X.tchunked /\ X.carry = c
        /\ X.tcarry = x.tcarry /\ X.dec = x.dec
    <2>1. Extended(x, y, X) BY <1>4, ExtFacts
    <2> QED BY <1>4, <1>6, <2>1, ExtIsPut DEF Extended
  <1>8. x.carry = TableBuf(x) /\ c = TableBuf(X) BY <1>7 DEF TableBuf
  <1>9. CASE HasLine(x.carry)
    <2>1. PICK s \in Bytes : s = AfterLine(x.carry) BY <1>1, <1>9, LineFacts
    <2>2. PICK l \in Bytes : l = Line(x.carry) BY <1>1, <1>9, LineFacts
    <2>3. PICK z \in Bytes : z = s \o y BY MoreBytes
    <2>4. HasLine(c) /\ Line(c) = l /\ AfterLine(c) = z
      BY <1>1, <1>6, <1>9, <2>1, <2>2, <2>3, LineStays
    <2>5. PICK q : q = Put(x, s, x.tcarry, x.dec, <<>>) OBVIOUS
    <2>6. q = Rest(x, s) BY <2>5 DEF Rest
    <2>7. MachineOK(q) /\ q.go = x.go /\ q.carry = s /\ q.tcarry = x.tcarry /\ q.dec = x.dec
      BY <2>6, RestIs
    <2>8. PICK n : n = PushSourcetableLine(q, l) OBVIOUS
    <2>9. PushIter(x) = n BY <1>3, <1>8, <1>9, <2>1, <2>2, <2>6, <2>8, DrainTableCases
    <2>10. Rest(X, z) = Put(X, z, x.tcarry, x.dec, <<>>) BY <1>7 DEF Rest
    <2>11. Put(X, z, x.tcarry, x.dec, <<>>) = Put(x, z, x.tcarry, x.dec, <<>>)
      BY <1>1, <1>7, PutLast
    <2>12. Put(q, z, x.tcarry, x.dec, <<>>) = Put(x, z, x.tcarry, x.dec, <<>>)
      BY <1>1, <2>5, PutLast
    <2>13. PushIter(X) = PushSourcetableLine(Rest(X, z), l)
      <3>1. PushIter(X) = DrainSourcetable(X) BY <1>7 DEF PushIter
      <3> QED BY <1>7, <1>8, <2>4, <3>1, DrainTableCases
    <2>14. PushIter(X) = Put(n, z, x.tcarry, x.dec, <<>>)
      BY <1>1, <2>7, <2>8, <2>10, <2>11, <2>12, <2>13, LineBehind
    <2>15. /\ MachineOK(n) /\ n.go /\ n.carry = s /\ n.tcarry = x.tcarry /\ n.dec = x.dec
      BY <2>7, <2>8, PushLineFacts
    <2>16. Tells(Put(n, n.carry \o y, n.tcarry, n.dec, <<>>), E)
      BY <1>5, <2>3, <2>14, <2>15
    <2>17. ~ n.dec.finished BY <1>2, <2>15
    <2> QED BY <2>9, <2>15, <2>16, <2>17, FramedFollows
  <1>10. CASE ~ HasLine(x.carry) /\ Len(x.carry) > MaxLine
    <2>1. PushIter(x) = Wait(Reject(x)) BY <1>3, <1>8, <1>10, DrainTableCases
    <2>2. Unending(x.carry) BY <1>10 DEF Unending
    <2> QED BY <2>1, <2>2, RejectFollows
  <1>11. CASE ~ HasLine(x.carry) /\ ~ (Len(x.carry) > MaxLine)
    <2>1. PushIter(x) = Wait(x) BY <1>3, <1>8, <1>11, DrainTableCases
    <2> QED BY <1>2, <2>1, WaitFollows
  <1> QED BY <1>9, <1>10, <1>11

(* A round of a table whose encoding is complete.                           *)
LEMMA FinishingFollows ==
    ASSUME NEW x, MachineOK(x), Tight(x), x.go, x.st = "Sourcetable", x.dec.finished,
           NEW y \in Bytes, NEW E \in MachineType, Follows(x, y, E)
    PROVE  Follows(PushIter(x), y, E)
  <1>1. x \in MachineType /\ x.carry \in Bytes /\ x.tcarry \in Bytes /\ x.dec \in DecoderType
    BY DEF MachineOK, MachineType
  <1>2. x.tchunked BY DEF Tight
  <1>3. Finishing(x, E) BY DEF Follows
  <1>4. x.carry = <<>> BY <1>3 DEF Finishing
  <1>5. PICK k : /\ DecoderInv(k) /\ ~ k.more /\ ~ k.poison /\ k.finished
                 /\ Tells(Put(x, <<>>, x.tcarry, k, <<>>), E)
    BY <1>3 DEF Finishing
  <1>6. k \in DecoderType BY <1>5 DEF DecoderInv
  <1>7. PushIter(x) = DrainSourcetable(x) BY DEF PushIter
  <1>8. PICK X : X = Put(x, <<>>, x.tcarry, k, <<>>) OBVIOUS
  <1>9. /\ MachineOK(X) /\ X.go /\ X.st = "Sourcetable" /\ X.tchunked /\ X.carry = <<>>
        /\ X.tcarry = x.tcarry /\ X.dec = k
    BY <1>1, <1>2, <1>5, <1>8, EmptyBytes, PutIsOK, PutBuffers, PutKeeps
  <1>10. Tells(PushIter(X), E) BY <1>5, <1>8, TellsOn
  <1>11. PushIter(X) = DrainSourcetable(X) BY <1>9 DEF PushIter
  <1>12. x.tcarry = TableBuf(x) /\ x.tcarry = TableBuf(X) BY <1>2, <1>9 DEF TableBuf
  <1>13. CASE HasLine(x.tcarry)
    <2>1. PICK s \in Bytes : s = AfterLine(x.tcarry) BY <1>1, <1>13, LineFacts
    <2>2. PICK l \in Bytes : l = Line(x.tcarry) BY <1>1, <1>13, LineFacts
    <2>3. PICK q : q = Put(x, <<>>, s, x.dec, <<>>) OBVIOUS
    <2>4. q = Rest(x, s) BY <1>2, <1>4, <2>3 DEF Rest
    <2>5. /\ MachineOK(q) /\ q.go = x.go /\ q.carry = <<>> /\ q.tcarry = s /\ q.dec = x.dec
          /\ q.st = x.st
      BY <1>2, <1>4, <2>4, RestIs, ZenonT(60)
    <2>6. PICK n : n = PushSourcetableLine(q, l) OBVIOUS
    <2>7. PushIter(x) = n BY <1>4, <1>7, <1>12, <1>13, <2>1, <2>2, <2>4, <2>6, DrainTableCases
    <2>8. Rest(X, s) = Put(X, <<>>, s, k, <<>>) BY <1>9 DEF Rest
    <2>9. Put(X, <<>>, s, k, <<>>) = Put(x, <<>>, s, k, <<>>)
      BY <1>1, <1>6, <1>8, EmptyBytes, PutLast
    <2>10. Put(q, <<>>, s, k, <<>>) = Put(x, <<>>, s, k, <<>>)
      BY <1>1, <1>6, <2>3, EmptyBytes, PutLast
    <2>11. PushIter(X) = PushSourcetableLine(Rest(X, s), l)
      BY <1>9, <1>11, <1>12, <1>13, <2>1, <2>2, DrainTableCases
    <2>12. PushIter(X) = Put(n, <<>>, s, k, <<>>)
      BY <1>6, <2>5, <2>6, <2>8, <2>9, <2>10, <2>11, EmptyBytes, LineBehind
    <2>13. /\ MachineOK(n) /\ n.go /\ n.carry = <<>> /\ n.tcarry = s /\ n.dec = x.dec
      BY <2>5, <2>6, PushLineFacts
    <2>14. CASE n.st = "Closed"
      <3>1. n \in MachineType BY <2>13 DEF MachineOK
      <3>2. PICK W : W = PushIter(X) OBVIOUS
      <3>3. W = Put(n, <<>>, s, k, <<>>) BY <2>12, <3>2
      <3>4. MachineOK(W) BY <1>9, <3>2, IterIsOK
      <3>5. W.st = "Closed" /\ W.ev = n.ev BY <2>14, <3>1, <3>3, PutKeeps, PutEvents
      <3> QED BY <1>10, <2>7, <2>14, <3>2, <3>4, <3>5, LostAlike DEF Follows
    <2>15. CASE n.st # "Closed"
      <3>1. Tells(Put(n, <<>>, n.tcarry, k, <<>>), E) BY <1>10, <2>12, <2>13
      <3>2. Finishing(n, E) BY <1>5, <2>13, <3>1 DEF Finishing
      <3> QED BY <2>7, <2>13, <2>15, <3>2 DEF Follows
    <2> QED BY <2>14, <2>15
  <1>14. CASE ~ HasLine(x.tcarry) /\ Len(x.tcarry) > MaxLine
    <2>1. PushIter(x) = Wait(Reject(x)) BY <1>4, <1>7, <1>12, <1>14, DrainTableCases
    <2>2. Unending(x.tcarry) BY <1>14 DEF Unending
    <2> QED BY <1>2, <2>1, <2>2, RejectFollows
  <1>15. CASE ~ HasLine(x.tcarry) /\ ~ (Len(x.tcarry) > MaxLine)
    <2>1. PICK w : w = Wait(x) OBVIOUS
    <2>2. /\ MachineOK(w) /\ w.st = "Sourcetable" /\ w.tcarry = x.tcarry
      BY <2>1, WaitFacts
    <2>3. PICK n : n = FlushSourcetable(w) OBVIOUS
    <2>4. PushIter(x) = n BY <1>2, <1>4, <1>7, <1>12, <1>15, <2>1, <2>3, DrainTableCases
    <2>5. PushIter(X) = FlushSourcetable(Wait(X))
      BY <1>5, <1>9, <1>11, <1>12, <1>15, DrainTableCases
    <2>6. <<>> \in Seq(Events) OBVIOUS
    <2>7. \A a \in Seq(Events) : Wait(Put(x, <<>>, x.tcarry, k, a)) = Put(w, <<>>, x.tcarry, k, a)
      BY <1>1, <1>6, <2>1, EmptyBytes, PutWait
    <2>8. Wait(X) = Put(w, <<>>, w.tcarry, k, <<>>) BY <1>8, <2>2, <2>6, <2>7
    <2>9. \A a \in Seq(Events) : FlushSourcetable(Put(w, <<>>, w.tcarry, k, a)) = Put(n, <<>>, <<>>, k, a)
      BY <1>6, <2>2, <2>3, EmptyBytes, PutFlush
    <2>10. PICK W : W = PushIter(X) OBVIOUS
    <2>11. W = Put(n, <<>>, <<>>, k, <<>>) BY <2>5, <2>6, <2>8, <2>9, <2>10
    <2>12. MachineOK(n) /\ n.st = "Closed" BY <2>2, <2>3, FlushFacts DEF Closes
    <2>13. n \in MachineType BY <2>12 DEF MachineOK
    <2>14. MachineOK(W) BY <1>9, <2>10, IterIsOK
    <2>15. W.st = "Closed" /\ W.ev = n.ev BY <2>11, <2>12, <2>13, PutKeeps, PutEvents
    <2> QED BY <1>10, <2>4, <2>10, <2>12, <2>14, <2>15, LostAlike DEF Follows
  <1> QED BY <1>13, <1>14, <1>15

(* A push that closes a machine ends with it.                               *)
LEMMA ClosedEnds ==
    ASSUME NEW m, MachineOK(m), m.st = "Closed"
    PROVE  PushesTo(m, Wait(m))
  <1>1. CASE m.go
    <2>1. PushIter(m) = Wait(m) BY <1>1 DEF PushIter
    <2>2. ~ Wait(m).go BY WaitFacts
    <2>3. PushesTo(Wait(m), Wait(m)) BY <2>2, PushesStopped
    <2> QED BY <2>1, <2>3, PushesBack
  <1>2. CASE ~ m.go
    <2>1. Wait(m) = m BY <1>2 DEF Wait, MachineOK, MachineType
    <2> QED BY <1>2, <2>1, PushesStopped
  <1> QED BY <1>1, <1>2

(* Two machines that closed on the same corrupted body.                     *)
LEMMA TellsCorrupted ==
    ASSUME NEW w, MachineOK(w), w.st = "Closed", Corrupted(w.ev),
           NEW v, MachineOK(v), v.st = "Closed", Corrupted(v.ev),
           v.dec = w.dec, v.dec.poison, NEW E \in MachineType, Tells(w, E)
    PROVE  Tells(v, E)
  <1>1. PICK e : PushesTo(w, e) /\ MachineOK(e) /\ Alike(e, E) BY DEF Tells
  <1>2. e.st = "Closed" /\ e.ev = w.ev /\ e.dec = w.dec BY <1>1, ClosedStays
  <1>3. PICK n : n = Wait(v) OBVIOUS
  <1>4. /\ MachineOK(n) /\ n.st = "Closed" /\ n.ev = v.ev /\ n.dec = v.dec
    BY <1>3, WaitFacts
  <1>5. Alike(n, e) BY <1>2, <1>4 DEF Alike, BothCorrupted
  <1>6. Alike(n, E) BY <1>1, <1>4, <1>5, AlikeAgain DEF MachineOK
  <1>7. PushesTo(v, n) BY <1>3, ClosedEnds
  <1> QED BY <1>4, <1>6, <1>7 DEF Tells

(* Tabled as a Put.                                                         *)
LEMMA TabledIsPut ==
    ASSUME NEW m, MachineOK(m), NEW d, DecoderInv(d), ~ d.more
    PROVE  Tabled(m, d) = Put(m, <<>>, m.tcarry \o d.out, Taken(d), <<>>)
  BY TabledIs

(* A round of an encoded table that decodes y first.                        *)
TableRead(n, D, N, T) ==
    /\ DecoderInv(D) /\ ~ D.more /\ D \in DecoderType
    /\ n.tcarry \o D.out \in Bytes
    /\ MachineOK(T) /\ T.go /\ T.st = "Sourcetable" /\ T.tchunked /\ T.carry = <<>>
    /\ T.tcarry = n.tcarry \o D.out /\ T.dec = Taken(D) /\ T.ev = n.ev
    /\ ~ D.poison => PushIter(N) = PushIter(T)
    /\ D.poison => PushIter(N) = Close(T, "StreamCorrupted", <<>>)

(* What a chunked table does with c, from the decoding of it.               *)
LEMMA TableReads ==
    ASSUME NEW n, MachineOK(n), n.go, n.st = "Sourcetable", n.tchunked,
           NEW c \in Bytes, c # <<>>,
           NEW D, D = Decode(n.dec, c),
           NEW N, N = Put(n, c, n.tcarry, n.dec, <<>>),
           NEW T, T = Put(n, <<>>, n.tcarry \o D.out, Taken(D), <<>>)
    PROVE  TableRead(n, D, N, T)
  <1>1. /\ n \in MachineType /\ n.tcarry \in Bytes /\ n.dec \in DecoderType
        /\ DecoderInv(n.dec) /\ ~ n.dec.more
    BY DEF MachineOK, MachineType
  <1>2. DecoderInv(D) /\ ~ D.more BY <1>1, DecodeFacts
  <1>3. D \in DecoderType BY <1>2 DEF DecoderInv
  <1>4. D.out \in Bytes BY <1>3 DEF DecoderType
  <1>5. n.tcarry \o D.out \in Bytes BY <1>1, <1>4, MoreBytes
  <1>6. DecoderInv(Taken(D)) /\ ~ Taken(D).more /\ Taken(D) \in DecoderType
    BY <1>2, <1>3, TakenFacts, TakenType
  <1>a. PICK b \in Bytes : b = n.tcarry \o D.out BY <1>5
  <1>k. PICK k \in DecoderType : k = Taken(D) BY <1>6
  <1>s. PICK s \in Bytes : s = n.tcarry BY <1>1
  <1>d. PICK d \in DecoderType : d = n.dec BY <1>1
  <1>t. T = Put(n, <<>>, b, k, <<>>) BY <1>a, <1>k
  <1>n. N = Put(n, c, s, d, <<>>) BY <1>s, <1>d
  <1>v. DecoderInv(k) /\ ~ k.more /\ DecoderInv(d) /\ ~ d.more BY <1>1, <1>6, <1>d, <1>k
  <1>7. MachineOK(T)
    <2>1. MachineOK(Put(n, <<>>, b, k, <<>>)) BY <1>v, EmptyBytes, PutIsOK
    <2> QED BY <1>t, <2>1
  <1>8. /\ T.go /\ T.st = "Sourcetable" /\ T.tchunked /\ T.carry = <<>>
        /\ T.tcarry = b /\ T.dec = k /\ T.ev = n.ev
    <2>1. /\ T.go /\ T.st = "Sourcetable" /\ T.tchunked /\ T.carry = <<>>
          /\ T.tcarry = b /\ T.dec = k
      BY <1>1, <1>t DEF Put, MachineType
    <2>2. Put(n, <<>>, b, k, <<>>).ev = n.ev BY <1>1, PutEvents
    <2> QED BY <1>t, <2>1, <2>2
  <1>9. /\ MachineOK(N) /\ N.go /\ N.st = "Sourcetable" /\ N.tchunked
        /\ N.carry = c /\ N.tcarry = s /\ N.dec = d
    <2>1. MachineOK(Put(n, c, s, d, <<>>)) BY <1>v, PutIsOK
    <2>2. /\ N.go /\ N.st = "Sourcetable" /\ N.tchunked
          /\ N.carry = c /\ N.tcarry = s /\ N.dec = d
      BY <1>1, <1>n DEF Put, MachineType
    <2> QED BY <1>n, <2>1, <2>2
  <1>10. PICK t : t = Tabled(N, D) OBVIOUS
  <1>11. t = T
    <2>1. t = Put(N, <<>>, N.tcarry \o D.out, Taken(D), <<>>) BY <1>2, <1>9, <1>10, TabledIsPut
    <2>2. t = Put(N, <<>>, b, k, <<>>) BY <1>9, <1>a, <1>k, <1>s, <2>1
    <2>3. Put(Put(n, c, s, d, <<>>), <<>>, b, k, <<>>) = Put(n, <<>>, b, k, <<>>)
      BY <1>1, EmptyBytes, PutLast
    <2> QED BY <1>n, <1>t, <2>2, <2>3
  <1>12. PushIter(N) = DrainSourcetable(N) BY <1>9 DEF PushIter
  <1>13. PushIter(T) = DrainSourcetable(T) BY <1>8 DEF PushIter
  <1>14. /\ D.poison => DrainSourcetable(N) = Close(t, "StreamCorrupted", <<>>)
         /\ ~ D.poison => DrainSourcetable(N) = DrainSourcetable(t)
    BY <1>9, <1>10, <1>d, DecodeTableCases
  <1> QED BY <1>2, <1>3, <1>5, <1>7, <1>8, <1>11, <1>12, <1>13, <1>14, <1>a, <1>k
     DEF TableRead

(* What a table whose body is corrupted closes with.                        *)
LEMMA TableCorrupted ==
    ASSUME NEW T, MachineOK(T), T.dec.poison,
           NEW w, w = Close(T, "StreamCorrupted", <<>>)
    PROVE  /\ MachineOK(w) /\ w.st = "Closed" /\ Corrupted(w.ev) /\ w.dec = T.dec
           /\ w.carry = T.carry /\ w.tcarry = T.tcarry
  <1>1. "StreamCorrupted" \in Ends /\ <<>> \in Details BY EmptyBytes DEF Ends, Details
  <1>2. /\ MachineOK(w) /\ w.st = "Closed" /\ w.dec = T.dec
        /\ w.ev = Append(T.ev, <<"StreamCorrupted", <<>> >>)
        /\ w.carry = T.carry /\ w.tcarry = T.tcarry
    BY <1>1, CloseFacts
  <1>3. T.ev \in Seq(Events) BY DEF MachineOK, MachineType
  <1> QED BY <1>2, <1>3, CorruptedLast

(* A machine between two lines of an encoded table, whose next round decodes y. *)
LEMMA TableGoesOn ==
    ASSUME NEW n, MachineOK(n), n.go, n.st = "Sourcetable", n.tchunked, n.carry = <<>>,
           ~ n.dec.finished, NEW y \in Bytes, y # <<>>,
           NEW D, D = Decode(n.dec, y),
           NEW T, T = Put(n, <<>>, n.tcarry \o D.out, Taken(D), <<>>),
           NEW E \in MachineType,
           NEW w, Tells(w, E),
           ~ D.poison => w = T,
           D.poison => MachineOK(w) /\ w.st = "Closed" /\ Corrupted(w.ev) /\ w.dec = Taken(D)
    PROVE  Follows(n, y, E)
  <1>1. PICK N : N = Put(n, y, n.tcarry, n.dec, <<>>) OBVIOUS
  <1>2. /\ DecoderInv(D) /\ ~ D.more /\ D \in DecoderType
        /\ MachineOK(T) /\ T.dec = Taken(D)
        /\ ~ D.poison => PushIter(N) = PushIter(T)
        /\ D.poison => PushIter(N) = Close(T, "StreamCorrupted", <<>>)
    <2>1. TableRead(n, D, N, T) BY <1>1, TableReads
    <2> QED BY <2>1 DEF TableRead
  <1>3. Tells(PushIter(N), E)
    <2>1. CASE ~ D.poison BY <1>2, <2>1, TellsOn
    <2>2. CASE D.poison
      <3>1. PICK v : v = Close(T, "StreamCorrupted", <<>>) OBVIOUS
      <3>2. T.dec.poison BY <1>2, <2>2, TakenType
      <3>3. MachineOK(v) /\ v.st = "Closed" /\ Corrupted(v.ev) /\ v.dec = T.dec
        BY <1>2, <3>1, <3>2, TableCorrupted
      <3>4. Tells(v, E) BY <1>2, <2>2, <3>2, <3>3, TellsCorrupted
      <3> QED BY <1>2, <2>2, <3>1, <3>4
    <2> QED BY <2>1, <2>2
  <1>4. Tells(N, E) BY <1>3, TellsBack
  <1>5. n.carry \o y = y BY ConcatEmptySeq DEF Bytes
  <1> QED BY <1>1, <1>4, <1>5, FramedFollows

(* A round that takes a line of what was decoded in the first piece.        *)
LEMMA TableLineFollows ==
    ASSUME NEW x, MachineOK(x), Tight(x), x.go, x.st = "Sourcetable", x.tchunked,
           x.carry = <<>>, ~ x.dec.finished, HasLine(x.tcarry),
           NEW y \in Bytes, y # <<>>, NEW E \in MachineType, Follows(x, y, E)
    PROVE  Follows(PushIter(x), y, E)
  <1>1. x \in MachineType /\ x.tcarry \in Bytes /\ x.dec \in DecoderType
    BY DEF MachineOK, MachineType
  <1>2. PICK N : N = Put(x, y, x.tcarry, x.dec, <<>>) OBVIOUS
  <1>3. N = Ext(x, y)
    <2>1. x.carry \o y = y BY ConcatEmptySeq DEF Bytes
    <2> QED BY <1>2, <2>1, ExtIsPut
  <1>4. Tells(PushIter(N), E) BY <1>3, TellsOn DEF Follows
  <1>5. PICK D : D = Decode(x.dec, y) OBVIOUS
  <1>6. PICK T : T = Put(x, <<>>, x.tcarry \o D.out, Taken(D), <<>>) OBVIOUS
  <1>7. /\ DecoderInv(D) /\ ~ D.more /\ D \in DecoderType /\ x.tcarry \o D.out \in Bytes
        /\ MachineOK(T) /\ T.go /\ T.st = "Sourcetable" /\ T.tchunked /\ T.carry = <<>>
        /\ T.tcarry = x.tcarry \o D.out /\ T.dec = Taken(D) /\ T.ev = x.ev
        /\ ~ D.poison => PushIter(N) = PushIter(T)
        /\ D.poison => PushIter(N) = Close(T, "StreamCorrupted", <<>>)
    <2>1. TableRead(x, D, N, T) BY <1>2, <1>5, <1>6, TableReads
    <2> QED BY <2>1 DEF TableRead
  <1>8. PICK k \in DecoderType : k = Taken(D) BY <1>7, TakenType
  <1>9. PICK s \in Bytes : s = AfterLine(x.tcarry) BY <1>1, LineFacts
  <1>10. PICK l \in Bytes : l = Line(x.tcarry) BY <1>1, LineFacts
  <1>11. PICK q : q = Put(x, <<>>, s, x.dec, <<>>) OBVIOUS
  <1>12. q = Rest(x, s) BY <1>11 DEF Rest
  <1>13. /\ MachineOK(q) /\ q.go /\ q.carry = <<>> /\ q.tcarry = s /\ q.dec = x.dec
         /\ q.st = x.st /\ q.tchunked
    <2>1. MachineOK(q) BY <1>12, RestIs
    <2> QED BY <1>1, <1>11, <2>1 DEF Put, MachineType
  <1>14. PICK n : n = PushSourcetableLine(q, l) OBVIOUS
  <1>15. PushIter(x) = n
    <2>1. PushIter(x) = DrainSourcetable(x) BY DEF PushIter
    <2>2. x.tcarry = TableBuf(x) BY DEF TableBuf
    <2> QED BY <1>9, <1>10, <1>12, <1>14, <2>1, <2>2, DrainTableCases
  <1>16. /\ MachineOK(n) /\ n.go /\ n.carry = <<>> /\ n.tcarry = s /\ n.dec = x.dec
         /\ n.st \in {"Closed", "Sourcetable"}
    BY <1>13, <1>14, PushLineFacts DEF Closes
  <1>17. n.tchunked BY <1>13, <1>14, LineKeepsTable
  <1>18. CASE D.poison
    <2>1. PICK w : w = Close(T, "StreamCorrupted", <<>>) OBVIOUS
    <2>2. T.dec.poison BY <1>7, <1>18, TakenType
    <2>3. MachineOK(w) /\ w.st = "Closed" /\ Corrupted(w.ev) /\ w.dec = Taken(D)
      BY <1>7, <2>1, <2>2, TableCorrupted
    <2>4. Tells(w, E) BY <1>4, <1>7, <1>18, <2>1
    <2>5. CASE n.st = "Closed"
      <3>1. E.st = "Closed" /\ Corrupted(E.ev) BY <2>3, <2>4, TellsClosed, SaidCorrupted
      <3> QED BY <1>15, <1>17, <2>5, <3>1 DEF Follows, Lost
    <2>6. CASE n.st = "Sourcetable"
      BY <1>5, <1>15, <1>16, <1>17, <1>18, <2>3, <2>4, <2>6, TableGoesOn
    <2> QED BY <1>16, <2>5, <2>6
  <1>19. CASE ~ D.poison
    <2>1. PICK o \in Bytes : o = D.out BY <1>7 DEF DecoderType
    <2>2. PICK z \in Bytes : z = s \o o BY <1>9, <2>1, MoreBytes
    <2>3. PICK b \in Bytes : b = x.tcarry \o o BY <1>1, <2>1, MoreBytes
    <2>4. HasLine(b) /\ Line(b) = l /\ AfterLine(b) = z
      BY <1>1, <1>9, <1>10, <2>1, <2>2, <2>3, LineStays
    <2>5. PushIter(T) = PushSourcetableLine(Rest(T, z), l)
      <3>1. PushIter(T) = DrainSourcetable(T) BY <1>7 DEF PushIter
      <3>2. b = TableBuf(T) BY <1>7, <2>1, <2>3 DEF TableBuf
      <3> QED BY <1>7, <2>4, <3>1, <3>2, DrainTableCases
    <2>6. Rest(T, z) = Put(T, <<>>, z, k, <<>>) BY <1>7, <1>8 DEF Rest
    <2>7. T = Put(x, <<>>, b, k, <<>>) BY <1>6, <1>8, <2>1, <2>3
    <2>8. Put(T, <<>>, z, k, <<>>) = Put(x, <<>>, z, k, <<>>)
      BY <1>1, <1>8, <2>2, <2>3, <2>7, EmptyBytes, PutLast
    <2>9. Put(q, <<>>, z, k, <<>>) = Put(x, <<>>, z, k, <<>>)
      BY <1>1, <1>8, <1>9, <1>11, <2>2, EmptyBytes, PutLast, SMTT(30)
    <2>10. PICK W : W = PushIter(T) OBVIOUS
    <2>11. W = Put(n, <<>>, z, k, <<>>)
      BY <1>8, <1>10, <1>13, <1>14, <2>2, <2>5, <2>6, <2>8, <2>9, <2>10, EmptyBytes, LineBehind
    <2>12. Tells(W, E) BY <1>4, <1>7, <1>19, <2>10
    <2>13. CASE n.st = "Closed"
      <3>1. n \in MachineType BY <1>16 DEF MachineOK
      <3>2. MachineOK(W) BY <1>7, <2>10, IterIsOK
      <3>3. W.st = "Closed" /\ W.ev = n.ev BY <2>11, <2>13, <3>1, PutKeeps, PutEvents
      <3> QED BY <1>15, <2>12, <2>13, <3>2, <3>3, LostAlike DEF Follows
    <2>14. CASE n.st = "Sourcetable"
      <3>1. W = Put(n, <<>>, n.tcarry \o D.out, Taken(D), <<>>)
        BY <1>8, <1>16, <2>1, <2>2, <2>11
      <3>2. D = Decode(n.dec, y) /\ ~ n.dec.finished BY <1>5, <1>16
      <3> QED BY <1>15, <1>16, <1>17, <1>19, <2>12, <2>14, <3>1, <3>2, TableGoesOn
    <2> QED BY <1>16, <2>13, <2>14
  <1> QED BY <1>18, <1>19

(* A round of an encoded table with nothing left to decode.                 *)
LEMMA DecodedTableFollows ==
    ASSUME NEW x, MachineOK(x), Tight(x), x.go, x.st = "Sourcetable", x.tchunked,
           x.carry = <<>>, ~ x.dec.finished,
           NEW y \in Bytes, y # <<>>, NEW E \in MachineType, Follows(x, y, E)
    PROVE  Follows(PushIter(x), y, E)
  <1>1. PushIter(x) = DrainSourcetable(x) BY DEF PushIter
  <1>2. x.tcarry = TableBuf(x) BY DEF TableBuf
  <1>3. CASE HasLine(x.tcarry) BY <1>3, TableLineFollows
  <1>4. CASE ~ HasLine(x.tcarry) /\ Len(x.tcarry) > MaxLine
    <2>1. PushIter(x) = Wait(Reject(x)) BY <1>1, <1>2, <1>4, DrainTableCases
    <2>2. Unending(x.tcarry) BY <1>4 DEF Unending
    <2> QED BY <2>1, <2>2, RejectFollows
  <1>5. CASE ~ HasLine(x.tcarry) /\ ~ (Len(x.tcarry) > MaxLine)
    <2>1. PushIter(x) = Wait(x) BY <1>1, <1>2, <1>5, DrainTableCases
    <2> QED BY <2>1, WaitFollows
  <1> QED BY <1>3, <1>4, <1>5

(* A table that was decoded holds no line given up.                         *)
LEMMA ReadIsTight ==
    ASSUME NEW x, MachineOK(x), Tight(x), x.go, x.st = "Sourcetable", x.tchunked,
           NEW t, NEW k, ~ k.poison,
           NEW n, n = Put(x, <<>>, t, k, <<>>), MachineOK(n)
    PROVE  Tight(n)
  <1>1. x \in MachineType BY DEF MachineOK
  <1>2. /\ n.hbytes = x.hbytes /\ n.text = x.text /\ n.tchunked /\ n.st = "Sourcetable"
        /\ n.dec = k /\ n.go
    BY <1>1 DEF Put, MachineType
  <1> QED BY <1>2 DEF Tight

(* A round that decodes the end of the first piece.                         *)
LEMMA ChunkedTableFollows ==
    ASSUME NEW x, MachineOK(x), Tight(x), x.go, x.st = "Sourcetable", x.tchunked,
           x.carry # <<>>, ~ x.dec.finished,
           NEW y \in Bytes, y # <<>>, NEW E \in MachineType, Follows(x, y, E)
    PROVE  Follows(PushIter(x), y, E)
  <1>1. /\ x \in MachineType /\ x.carry \in Bytes /\ x.tcarry \in Bytes
        /\ x.dec \in DecoderType /\ DecoderInv(x.dec) /\ ~ x.dec.more /\ ~ x.dec.poison
    BY DEF MachineOK, MachineType, Tight
  <1>2. PICK c \in Bytes : c = x.carry \o y BY <1>1, MoreBytes
  <1>3. PICK X : X = Put(x, c, x.tcarry, x.dec, <<>>) OBVIOUS
  <1>4. X = Ext(x, y) BY <1>2, <1>3, ExtIsPut
  <1>5. Tells(PushIter(X), E) BY <1>4, TellsOn DEF Follows
  <1>6. c # <<>> BY <1>1, <1>2, TailStays
  <1>7. PICK d : d = Decode(x.dec, x.carry) OBVIOUS
  <1>8. PICK D : D = Decode(x.dec, c) OBVIOUS
  <1>9. PICK n : n = Put(x, <<>>, x.tcarry \o d.out, Taken(d), <<>>) OBVIOUS
  <1>10. PICK T : T = Put(x, <<>>, x.tcarry \o D.out, Taken(D), <<>>) OBVIOUS
  <1>11. TableRead(x, d, x, n)
    <2>1. x = Put(x, x.carry, x.tcarry, x.dec, <<>>) BY <1>1, PutNothing
    <2> QED BY <1>1, <1>7, <1>9, <2>1, TableReads
  <1>12. TableRead(x, D, X, T) BY <1>3, <1>6, <1>8, <1>10, TableReads
  <1>13. /\ DecoderInv(d) /\ ~ d.more /\ d \in DecoderType
         /\ x.tcarry \o d.out \in Bytes
         /\ MachineOK(n) /\ n.go /\ n.st = "Sourcetable" /\ n.tchunked /\ n.carry = <<>>
         /\ n.tcarry = x.tcarry \o d.out /\ n.dec = Taken(d) /\ n.ev = x.ev
         /\ ~ d.poison => PushIter(x) = PushIter(n)
         /\ d.poison => PushIter(x) = Close(n, "StreamCorrupted", <<>>)
    BY <1>11 DEF TableRead
  <1>14. /\ DecoderInv(D) /\ ~ D.more /\ D \in DecoderType
         /\ x.tcarry \o D.out \in Bytes
         /\ MachineOK(T) /\ T.dec = Taken(D)
         /\ ~ D.poison => PushIter(X) = PushIter(T)
         /\ D.poison => PushIter(X) = Close(T, "StreamCorrupted", <<>>)
    BY <1>12 DEF TableRead
  <1>15. /\ Taken(d) \in DecoderType /\ Taken(d).poison = d.poison
         /\ Taken(d).finished = d.finished /\ Taken(d).buf = d.buf /\ Taken(d).st = d.st
    BY <1>13, TakenType
  <1>16. /\ Taken(D) \in DecoderType /\ Taken(D).poison = D.poison
         /\ Taken(D).finished = D.finished
    BY <1>14, TakenType
  <1>17. IF d.poison \/ d.finished THEN DecoderGaveUp(d) \/ D = Fed(d, y)
         ELSE SameAfter(d.out, Decode(d, y), D)
    BY <1>1, <1>2, <1>7, <1>8, DecodeInPieces
  <1>18. D.poison => /\ MachineOK(Close(T, "StreamCorrupted", <<>>))
                     /\ Close(T, "StreamCorrupted", <<>>).st = "Closed"
                     /\ Corrupted(Close(T, "StreamCorrupted", <<>>).ev)
                     /\ Close(T, "StreamCorrupted", <<>>).dec = Taken(D)
    BY <1>14, <1>16, TableCorrupted
  <1>19. CASE d.poison
    <2>1. PICK m : m = PushIter(x) OBVIOUS
    <2>2. m = Close(n, "StreamCorrupted", <<>>) BY <1>13, <1>19, <2>1
    <2>3. n.dec.poison BY <1>13, <1>15, <1>19
    <2>4. m.st = "Closed" /\ Corrupted(m.ev) /\ m.dec = n.dec
      BY <1>13, <2>2, <2>3, TableCorrupted
    <2>5. CASE DecoderGaveUp(d)
      <3>1. GaveUp(m)
        BY <1>13, <1>15, <2>3, <2>4, <2>5 DEF GaveUp, DecoderGaveUp, Unending, LineGivenUp
      <3> QED BY <2>1, <2>4, <3>1 DEF Follows, Lost
    <2>6. CASE D = Fed(d, y)
      <3>1. D.poison BY <1>13, <1>19, <2>6, FedFacts
      <3>2. PICK w : w = Close(T, "StreamCorrupted", <<>>) OBVIOUS
      <3>3. MachineOK(w) /\ w.st = "Closed" /\ Corrupted(w.ev) BY <1>18, <3>1, <3>2
      <3>4. Tells(w, E) BY <1>5, <1>14, <3>1, <3>2
      <3>5. E.st = "Closed" /\ Corrupted(E.ev) BY <3>3, <3>4, TellsClosed, SaidCorrupted
      <3> QED BY <2>1, <2>4, <3>5 DEF Follows, Lost
    <2> QED BY <1>17, <1>19, <2>5, <2>6
  <1>20. CASE ~ d.poison /\ d.finished
    <2>1. D = Fed(d, y) BY <1>17, <1>20 DEF DecoderGaveUp
    <2>2. ~ D.poison /\ D.finished /\ D.out = d.out
      <3>1. PICK F : F = Fed(d, y) OBVIOUS
      <3>2. ~ F.poison /\ F.finished /\ F.out = d.out
        BY <1>13, <1>20, <3>1 DEF Fed, DecoderType
      <3> QED BY <2>1, <3>1, <3>2
    <2>3. PICK k \in DecoderType : k = Taken(D) BY <1>16
    <2>4. DecoderInv(k) /\ ~ k.more /\ ~ k.poison /\ k.finished
      BY <1>14, <1>16, <2>2, <2>3, TakenFacts
    <2>5. PICK s \in Bytes : s = x.tcarry \o d.out BY <1>13
    <2>6. PICK j \in DecoderType : j = Taken(d) BY <1>15
    <2>7. n = Put(x, <<>>, s, j, <<>>) BY <1>9, <2>5, <2>6
    <2>8. Put(n, <<>>, s, k, <<>>) = Put(x, <<>>, s, k, <<>>)
      BY <1>1, <2>3, <2>5, <2>6, <2>7, EmptyBytes, PutLast
    <2>9. T = Put(n, <<>>, n.tcarry, k, <<>>) BY <1>10, <1>13, <2>2, <2>3, <2>5, <2>8
    <2>10. Tells(T, E) BY <1>5, <1>14, <2>2, TellsBack
    <2>11. Finishing(n, E) BY <1>13, <2>4, <2>9, <2>10 DEF Finishing
    <2>12. n.dec.finished BY <1>13, <1>15, <1>20
    <2>13. Follows(n, y, E) BY <1>13, <2>11, <2>12 DEF Follows
    <2>14. Tight(n) BY <1>9, <1>13, <1>15, <1>20, ReadIsTight
    <2>15. Follows(PushIter(n), y, E) BY <1>13, <2>12, <2>13, <2>14, FinishingFollows
    <2> QED BY <1>13, <1>20, <2>15
  <1>21. CASE ~ d.poison /\ ~ d.finished
    <2>1. PICK e : e = Decode(n.dec, y) OBVIOUS
    <2>2. e = Decode(d, y) BY <1>13, <1>21, <2>1, DecodeTaken
    <2>3. SameAfter(d.out, e, D) BY <1>17, <1>21, <2>2
    <2>4. DecoderInv(n.dec) /\ ~ n.dec.more BY <1>13 DEF MachineOK
    <2>5. DecoderInv(e) BY <2>1, <2>4, DecodeFacts
    <2>6. e \in DecoderType BY <2>5 DEF DecoderInv
    <2>7. PICK V : V = Put(n, <<>>, n.tcarry \o e.out, Taken(e), <<>>) OBVIOUS
    <2>8. ~ n.dec.finished BY <1>13, <1>15, <1>21
    <2>9. Follows(n, y, E)
      <3>1. CASE e.poison
        <4>1. D = e BY <2>3, <3>1 DEF SameAfter
        <4>2. PICK w : w = Close(T, "StreamCorrupted", <<>>) OBVIOUS
        <4>3. /\ MachineOK(w) /\ w.st = "Closed" /\ Corrupted(w.ev) /\ w.dec = Taken(e)
          BY <1>18, <3>1, <4>1, <4>2
        <4>4. Tells(w, E) BY <1>5, <1>14, <3>1, <4>1, <4>2
        <4> QED BY <1>13, <2>1, <2>7, <2>8, <3>1, <4>3, <4>4, TableGoesOn
      <3>2. CASE ~ e.poison
        <4>1. PICK o \in Bytes : o = d.out BY <1>13 DEF DecoderType
        <4>2. PICK p \in Bytes : p = e.out BY <2>6 DEF DecoderType
        <4>3. D = Before(o, e) BY <2>3, <3>2, <4>1 DEF SameAfter
        <4>ee. x.ev \in Seq(Events) BY DEF MachineOK, MachineType
        <4>4. Taken(D) = Taken(e) /\ ~ D.poison
          BY <1>1, <2>6, <3>2, <4>1, <4>3, <4>ee, SaidOfBefore
        <4>5. D.out = o \o p
          <5>1. PICK F : F = Before(o, e) OBVIOUS
          <5>2. F.out = o \o e.out BY <2>6, <5>1 DEF Before, DecoderType
          <5> QED BY <4>2, <4>3, <5>1, <5>2
        <4>6. PICK s \in Bytes : s = x.tcarry BY <1>1
        <4>7. PICK z \in Bytes : z = (s \o o) \o p BY <4>1, <4>2, <4>6, MoreBytes
        <4>8. z = s \o (o \o p)
          <5>1. o \in Bytes /\ p \in Bytes /\ s \in Bytes BY <4>1, <4>2, <4>6
          <5>2. (s \o o) \o p = s \o (o \o p) BY <5>1, PiecesAssociate, Zenon
          <5> QED BY <4>7, <5>2
        <4>9. PICK r \in Bytes : r = s \o o BY <4>1, <4>6, MoreBytes
        <4>10. PICK k \in DecoderType : k = Taken(e) BY <2>6, TakenType
        <4>11. PICK j \in DecoderType : j = Taken(d) BY <1>15
        <4>12. n = Put(x, <<>>, r, j, <<>>) BY <1>9, <4>1, <4>6, <4>9, <4>11
        <4>13. V = Put(n, <<>>, z, k, <<>>)
          BY <1>13, <2>7, <4>1, <4>2, <4>6, <4>7, <4>10
        <4>14. T = Put(x, <<>>, z, k, <<>>)
          BY <1>10, <4>4, <4>5, <4>6, <4>8, <4>10
        <4>15. Put(n, <<>>, z, k, <<>>) = Put(x, <<>>, z, k, <<>>)
          BY <1>1, <4>7, <4>9, <4>10, <4>11, <4>12, EmptyBytes, PutLast
        <4>16. Tells(T, E) BY <1>5, <1>14, <4>4, TellsBack
        <4>17. Tells(V, E) BY <4>13, <4>14, <4>15, <4>16
        <4> QED BY <1>13, <2>1, <2>7, <2>8, <3>2, <4>17, TableGoesOn
      <3> QED BY <3>1, <3>2
    <2>10. Tight(n) BY <1>9, <1>13, <1>15, <1>21, ReadIsTight
    <2>11. Follows(PushIter(n), y, E) BY <1>13, <2>8, <2>9, <2>10, DecodedTableFollows
    <2> QED BY <1>13, <1>21, <2>11
  <1> QED BY <1>19, <1>20, <1>21

(* Every round.                                                             *)
LEMMA IterFollows ==
    ASSUME NEW x, MachineOK(x), Tight(x),
           NEW y \in Bytes, y # <<>>, NEW E \in MachineType, Follows(x, y, E)
    PROVE  Follows(PushIter(x), y, E)
  <1>1. x.st \in States BY DEF MachineOK, MachineType
  <1>2. CASE ~ x.go \/ x.st = "Closed" BY <1>2, ClosedFollows
  <1>3. CASE x.go /\ x.st = "Idle" BY <1>3, FirstFollows
  <1>4. CASE x.go /\ x.st \in {"AwaitingStatus", "AwaitingHeaders"} BY <1>4, LineFollows
  <1>5. CASE x.go /\ x.st = "Streaming" BY <1>5, StreamFollows
  <1>6. CASE x.go /\ x.st = "Sourcetable"
    <2>1. CASE x.dec.finished BY <1>6, <2>1, FinishingFollows
    <2>2. CASE ~ x.dec.finished /\ ~ x.tchunked BY <1>6, <2>2, PlainTableFollows
    <2>3. CASE ~ x.dec.finished /\ x.tchunked /\ x.carry = <<>>
      BY <1>6, <2>3, DecodedTableFollows
    <2>4. CASE ~ x.dec.finished /\ x.tchunked /\ x.carry # <<>>
      BY <1>6, <2>4, ChunkedTableFollows
    <2> QED BY <2>1, <2>2, <2>3, <2>4
  <1> QED BY <1>1, <1>2, <1>3, <1>4, <1>5, <1>6 DEF States

-----------------------------------------------------------------------------
(* A push in two pieces *)

(* Where the first piece leaves an open machine, seen from the whole.       *)
LEMMA PushFollows ==
    ASSUME NEW m, MachineOK(m), Tight(m), ~ m.go, m.st # "Closed",
           NEW x \in Bytes, NEW y \in Bytes, y # <<>>
    PROVE  Follows(Push(m, x), y, Push(m, x \o y))
  <1>1. m \in MachineType /\ m.carry \in Bytes BY DEF MachineOK, MachineType
  <1>2. PICK z \in Bytes : z = x \o y BY MoreBytes
  <1>3. PICK E : E = Push(m, z) OBVIOUS
  <1>4. MachineOK(E) BY <1>3, PushFacts
  <1>5. E \in MachineType BY <1>4 DEF MachineOK
  <1>6. PICK O : O = Opened(m, x) OBVIOUS
  <1>7. /\ MachineOK(O) /\ O.go /\ O.st = m.st /\ O.carry = m.carry \o x
        /\ O.tcarry = m.tcarry /\ O.dec = m.dec /\ O.tchunked = m.tchunked
        /\ O.hbytes = m.hbytes /\ O.text = m.text
    BY <1>6, OpenedFacts
  <1>8. Tight(O) BY <1>7 DEF Tight
  <1>9. ~ O.dec.finished BY <1>7 DEF Tight
  <1>10. Ext(O, y) = Opened(m, z)
    <2>1. (m.carry \o x) \o y = m.carry \o z BY <1>1, <1>2, PiecesAssociate, ZenonT(60)
    <2>2. PICK c : c = m.carry \o z OBVIOUS
    <2>3. PICK b : b = m.carry \o x OBVIOUS
    <2>4. Ext(O, y) = [O EXCEPT !.carry = c, !.go = TRUE] BY <1>7, <2>1, <2>2 DEF Ext
    <2>5. Opened(m, z) = [m EXCEPT !.carry = c, !.ev = <<>>, !.go = TRUE]
      BY <2>2 DEF Opened
    <2>6. O = [m EXCEPT !.carry = b, !.ev = <<>>, !.go = TRUE] BY <1>6, <2>3 DEF Opened
    <2> QED BY <1>1, <2>4, <2>5, <2>6, ZenonT(60) DEF MachineType
  <1>11. Tells(Ext(O, y), E)
    <2>1. PushesTo(Opened(m, z), E) BY <1>2, <1>3, PushIsLoop
    <2>2. Alike(E, E) BY <1>5, AlikeItself
    <2> QED BY <1>4, <1>10, <2>1, <2>2 DEF Tells
  <1>12. Follows(O, y, E) BY <1>7, <1>9, <1>11 DEF Follows
  <1> DEFINE S == {n \in MachineType : MachineOK(n) /\ Tight(n) /\ Follows(n, y, E)}
  <1>13. O \in S BY <1>7, <1>8, <1>12 DEF MachineOK
  <1>14. \A n \in S : PushIter(n) \in S
    <2> SUFFICES ASSUME NEW n \in S PROVE PushIter(n) \in S
      OBVIOUS
    <2>1. MachineOK(PushIter(n)) /\ Tight(PushIter(n)) BY IterIsOK
    <2>2. Follows(PushIter(n), y, E) BY <1>5, IterFollows
    <2> QED BY <2>1, <2>2 DEF MachineOK
  <1>15. PushesTo(O, Push(m, x)) BY <1>6, PushIsLoop
  <1>16. Push(m, x) \in S
    <2> HIDE DEF S
    <2> QED BY <1>13, <1>14, <1>15, PushesWithin
  <1> QED BY <1>2, <1>3, <1>16

(* Two calls of push, and one with the pieces joined (push of                *)
(* NtripClientMachine): they end in the same machine and say the same, or    *)
(* both find the encoding corrupted.  If the first call closed the machine   *)
(* and gave up no line, the joined call closes it too, and says the same or  *)
(* finds the encoding corrupted further on.                                  *)
THEOREM PushInPieces ==
    ASSUME NEW m, MachineOK(m), Tight(m), ~ m.go, m.st # "Closed",
           NEW x \in Bytes, NEW y \in Bytes, y # <<>>,
           NEW n, n = Push(m, x)
    PROVE  /\ n.st = "Closed" => Lost(n, Push(m, x \o y))
           /\ n.st # "Closed" => Alike(After(n.ev, Push(n, y)), Push(m, x \o y))
  <1>1. Follows(n, y, Push(m, x \o y)) BY PushFollows
  <1>2. MachineOK(n) /\ ~ n.go /\ Tight(n) BY PushFacts
  <1>3. CASE n.st = "Closed" BY <1>1, <1>3 DEF Follows
  <1>4. CASE n.st # "Closed"
    <2>1. ~ n.dec.finished BY <1>2, <1>4 DEF Tight
    <2>2. Tells(Ext(n, y), Push(m, x \o y)) BY <1>1, <1>4, <2>1 DEF Follows
    <2>3. PICK e : PushesTo(Ext(n, y), e) /\ Alike(e, Push(m, x \o y)) BY <2>2 DEF Tells
    <2>4. PushesTo(Opened(n, y), Push(n, y)) BY <1>2, <1>4, PushIsLoop
    <2>5. MachineOK(Opened(n, y)) BY <1>2, OpenedFacts
    <2>6. n.ev \in Seq(Events) BY <1>2 DEF MachineOK, MachineType
    <2>7. PushesTo(After(n.ev, Opened(n, y)), After(n.ev, Push(n, y)))
      BY <2>4, <2>5, <2>6, PushesAfter
    <2>8. Ext(n, y) = After(n.ev, Opened(n, y)) BY <1>2, ExtIsOpened
    <2>9. MachineOK(Ext(n, y)) BY <2>5, <2>6, <2>8, AfterIsOK
    <2>10. e = After(n.ev, Push(n, y)) BY <2>3, <2>7, <2>8, <2>9, PushesOnce
    <2> QED BY <1>4, <2>3, <2>10
  <1> QED BY <1>3, <1>4

(* The events of the last call matter neither to push nor to finish.        *)
LEMMA EventsAside ==
    ASSUME NEW m \in MachineType, NEW s
    PROVE  /\ m.st # "Closed" => \A x \in Bytes : Push(WithEvents(m, s), x) = Push(m, x)
           /\ Finish(WithEvents(m, s)) = Finish(m)
  <1>1. PICK n : n = WithEvents(m, s) OBVIOUS
  <1>2. n = [m EXCEPT !.ev = s] BY <1>1 DEF WithEvents
  <1>3. /\ n.st = m.st /\ n.carry = m.carry /\ n.tcarry = m.tcarry /\ n.dec = m.dec
    BY <1>2 DEF MachineType
  <1>4. ASSUME NEW x \in Bytes, m.st # "Closed" PROVE Push(n, x) = Push(m, x)
    <2>1. PICK c : c = m.carry \o x OBVIOUS
    <2>2. PICK o : o = [m EXCEPT !.carry = c, !.ev = <<>>, !.go = TRUE] OBVIOUS
    <2>3. o = [n EXCEPT !.carry = c, !.ev = <<>>, !.go = TRUE]
      BY <1>2, <2>2 DEF MachineType
    <2>4. Push(m, x) = Iterate(PushIter, o, Len(o.carry) + Len(o.tcarry) + Len(o.dec.buf) + 4)
      BY <1>4, <2>1, <2>2 DEF Push
    <2>5. Push(n, x) = Iterate(PushIter, o, Len(o.carry) + Len(o.tcarry) + Len(o.dec.buf) + 4)
      BY <1>3, <1>4, <2>1, <2>3 DEF Push
    <2> QED BY <2>4, <2>5
  <1>5. Finish(n) = Finish(m)
    <2>1. [n EXCEPT !.ev = <<>>] = [m EXCEPT !.ev = <<>>] BY <1>2 DEF MachineType
    <2>2. CASE m.tchunked
      <3>1. n.tchunked BY <1>2, <2>2 DEF MachineType
      <3>2. [n EXCEPT !.ev = <<>>, !.tcarry = <<>>, !.carry = n.carry]
              = [m EXCEPT !.ev = <<>>, !.tcarry = <<>>, !.carry = m.carry]
        BY <1>2 DEF MachineType
      <3> QED BY <1>3, <2>1, <2>2, <3>1, <3>2 DEF Finish
    <2>3. CASE ~ m.tchunked
      <3>1. ~ n.tchunked BY <1>2, <2>3 DEF MachineType
      <3>2. [n EXCEPT !.ev = <<>>, !.tcarry = n.tcarry, !.carry = <<>>]
              = [m EXCEPT !.ev = <<>>, !.tcarry = m.tcarry, !.carry = <<>>]
        BY <1>2 DEF MachineType
      <3> QED BY <1>3, <2>1, <2>3, <3>1, <3>2 DEF Finish
    <2> QED BY <2>2, <2>3
  <1> QED BY <1>1, <1>4, <1>5

(* Every round leaves the first state.                                      *)
LEMMA NoLineLeaves ==
    ASSUME NEW m, MachineOK(m), m.st # "Idle"
    PROVE  NoLine(m).st # "Idle"
  <1>1. m \in MachineType BY DEF MachineOK
  <1> QED BY <1>1 DEF NoLine, Wait, Reject, Close, Emit, MachineType

(* After a status line the machine is not idle.                             *)
LEMMA StatusLeaves ==
    ASSUME NEW m, MachineOK(m), HasLine(m.carry)
    PROVE  ParseStatus(m).st # "Idle"
  <1>1. m \in MachineType BY DEF MachineOK
  <1>2. PICK c : c = AfterLine(m.carry) OBVIOUS
  <1>3. PICK n : n = [m EXCEPT !.carry = c] OBVIOUS
  <1>4. n = [m EXCEPT !.carry = AfterLine(@)] BY <1>2, <1>3
  <1>5. ParseStatus(m) \in
          {[Emit(n, "Connected", FALSE) EXCEPT
                   !.st = "Streaming", !.chunked = FALSE, !.icyBlank = TRUE],
           [n EXCEPT !.st = "Sourcetable"],
           [n EXCEPT !.st = "AwaitingHeaders", !.headers = <<>>, !.hbytes = 0,
                         !.http = StatusOf(Line(m.carry))],
           Reject(n)}
    BY <1>4 DEF ParseStatus
  <1>6. DOMAIN n = DOMAIN m /\ "st" \in DOMAIN m BY <1>1, <1>3 DEF MachineType
  <1> QED BY <1>1, <1>3, <1>5, <1>6 DEF MachineType, Reject, Close, Emit

(* Nor after a header line.                                                 *)
LEMMA HeadersLeave ==
    ASSUME NEW m, MachineOK(m), HasLine(m.carry), m.st = "AwaitingHeaders"
    PROVE  ParseHeaders(m).st # "Idle"
  <1>1. m \in MachineType /\ m.carry \in Bytes BY DEF MachineOK, MachineType
  <1>2. PICK c : c = AfterLine(m.carry) OBVIOUS
  <1>3. PICK l : l = Line(m.carry) OBVIOUS
  <1>4. c \in Bytes /\ l \in Bytes BY <1>1, <1>2, <1>3, LineFacts
  <1>5. PICK n : n = [m EXCEPT !.carry = c] OBVIOUS
  <1>6. n = [m EXCEPT !.carry = AfterLine(@)] BY <1>2, <1>5
  <1>7. n \in MachineType /\ n.st = m.st /\ n.hbytes = m.hbytes /\ m.hbytes \in Nat
    BY <1>1, <1>4, <1>5 DEF MachineType
  <1>8. PICK b : b = n.hbytes + Len(l) OBVIOUS
  <1>9. b \in Nat /\ Len(l) \in Nat BY <1>4, <1>7, <1>8 DEF Bytes
  <1>10. PICK h : h = [n EXCEPT !.hbytes = b] OBVIOUS
  <1>11. h = [n EXCEPT !.hbytes = @ + Len(l)] BY <1>8, <1>10
  <1>12. h \in MachineType /\ h.st = m.st /\ h.hbytes = b BY <1>7, <1>9, <1>10 DEF MachineType
  <1>13. ParseHeaders(m) = IF l = <<>> THEN ClassifyHttpResponse(n)
                           ELSE IF h.hbytes > MaxHeaders THEN Reject(h)
                           ELSE IF HasColon(l) THEN [h EXCEPT !.headers = Append(@, l)] ELSE h
    BY <1>3, <1>6, <1>9, <1>11, <1>12, HeaderLine
  <1>14. ClassifyHttpResponse(n).st # "Idle"
    <2>1. PICK k : k = TransferIsChunked(n.headers) OBVIOUS
    <2>2. ClassifyHttpResponse(n) \in
            {[Emit(n, "Connected", k) EXCEPT !.st = "Streaming", !.chunked = k],
             [n EXCEPT !.st = "Sourcetable", !.tchunked = k, !.started = TRUE],
             Reject(n)}
      BY <2>1 DEF ClassifyHttpResponse
    <2> QED BY <1>7, <2>2 DEF MachineType, Reject, Close, Emit
  <1>15. Reject(h).st # "Idle" BY <1>12 DEF Reject, Close, Emit, MachineType
  <1>16. [h EXCEPT !.headers = Append(@, l)].st = m.st BY <1>12 DEF MachineType
  <1> QED BY <1>12, <1>13, <1>14, <1>15, <1>16

(* Nor after a read of the payload.                                         *)
LEMMA PayloadLeaves ==
    ASSUME NEW m, MachineOK(m), m.go, m.st = "Streaming", ~ m.icyBlank
    PROVE  DrainPayload(m).st # "Idle"
  <1>1. m \in MachineType /\ DecoderInv(m.dec) /\ ~ m.dec.more /\ m.carry \in Bytes
    BY DEF MachineOK, MachineType
  <1>2. CASE m.carry = <<>>
    <2>1. DrainPayload(m) = Wait(m) BY <1>1, <1>2, DrainPayloadCases
    <2> QED BY <2>1, WaitFacts
  <1>3. CASE m.carry # <<>> /\ ~ m.chunked
    <2>1. PushIter(m) = DrainPayload(m) BY DEF PushIter
    <2>2. PICK b : b = m.carry OBVIOUS
    <2>3. PICK k : k = m.dec OBVIOUS
    <2>4. PICK e : e = m.ev OBVIOUS
    <2>5. PushIter(m) = Drained(m, k, Append(e, <<"Payload", b>>), "Streaming")
      BY <1>3, <2>2, <2>3, <2>4, PlainIs
    <2> QED BY <1>1, <2>1, <2>5 DEF Drained, MachineType
  <1>4. CASE m.carry # <<>> /\ m.chunked
    <2>1. PICK d : d = Decode(m.dec, m.carry) OBVIOUS
    <2>2. d \in DecoderType BY <1>1, <2>1, DecodeFacts DEF DecoderInv
    <2>3. DrainPayload(m) = Wait(Decoded(m, d)) BY <1>1, <1>4, <2>1, DrainChunks
    <2>4. PICK r : r = IF d.poison \/ d.finished THEN "Closed" ELSE m.st OBVIOUS
    <2>5. DrainPayload(m) = Drained(m, Taken(d), Said(m.ev, d), r)
      BY <2>2, <2>3, <2>4, DecodedIs
    <2> QED BY <1>1, <2>4, <2>5 DEF Drained, MachineType
  <1> QED BY <1>2, <1>3, <1>4

(* Nor with the blank line of an ICY stream before it.                      *)
LEMMA StreamLeaves ==
    ASSUME NEW m, MachineOK(m), m.go, m.st = "Streaming"
    PROVE  DrainPayload(m).st # "Idle"
  <1>1. m \in MachineType /\ m.carry \in Bytes BY DEF MachineOK, MachineType
  <1>2. CASE ~ m.icyBlank BY <1>2, PayloadLeaves
  <1>3. CASE m.icyBlank /\ Pending(m.carry)
    <2>1. DrainPayload(m) = Wait(m) BY <1>1, <1>3, DrainPayloadCases
    <2> QED BY <2>1, WaitFacts
  <1>4. CASE m.icyBlank /\ ~ Pending(m.carry)
    <2>1. PICK s \in Bytes : s = Skimmed(m.carry) BY <1>1, <1>4, SkimmedFacts
    <2>2. PICK n : n = Skim(m, s) OBVIOUS
    <2>3. /\ n \in MachineType /\ ~ n.icyBlank /\ n.dec = m.dec /\ n.st = "Streaming"
      BY <1>1, <2>2, SkimFacts
    <2>4. n.go BY <1>1, <2>2 DEF Skim, MachineType
    <2>5. MachineOK(n) BY <2>3 DEF MachineOK
    <2>6. DrainPayload(m) = DrainPayload(n) BY <1>1, <1>4, <2>1, <2>2, DrainPayloadCases
    <2> QED BY <2>3, <2>4, <2>5, <2>6, PayloadLeaves
  <1> QED BY <1>2, <1>3, <1>4

(* Nor after a line of a table.                                             *)
LEMMA TableLineLeaves ==
    ASSUME NEW m, MachineOK(m), m.go, m.st = "Sourcetable", m.tchunked => m.carry = <<>>
    PROVE  DrainSourcetable(m).st # "Idle"
  <1>1. PICK b : b = TableBuf(m) OBVIOUS
  <1>2. b \in Bytes BY <1>1 DEF TableBuf, MachineOK, MachineType
  <1>3. CASE HasLine(b)
    <2>1. PICK s \in Bytes : s = AfterLine(b) BY <1>2, <1>3, LineFacts
    <2>2. PICK l \in Bytes : l = Line(b) BY <1>2, <1>3, LineFacts
    <2>3. PICK q : q = Rest(m, s) OBVIOUS
    <2>4. MachineOK(q) /\ q.st = m.st BY <2>3, RestIs
    <2>5. DrainSourcetable(m) = PushSourcetableLine(q, l)
      BY <1>1, <1>3, <2>1, <2>2, <2>3, DrainTableCases
    <2> QED BY <2>4, <2>5, PushLineFacts DEF Closes
  <1>4. CASE ~ HasLine(b)
    <2>1. PICK w : w = Wait(m) OBVIOUS
    <2>2. MachineOK(w) /\ w.st = "Sourcetable" BY <2>1, WaitFacts
    <2>3. PICK r : r = Reject(m) OBVIOUS
    <2>4. "Rejected" \in Ends /\ <<>> \in Details BY EmptyBytes DEF Ends, Details
    <2>5. MachineOK(r) /\ r.st = "Closed" BY <2>3, <2>4, CloseFacts DEF Reject
    <2>6. Wait(r).st = "Closed" BY <2>5, WaitFacts
    <2>7. FlushSourcetable(w).st = "Closed" BY <2>2, FlushFacts DEF Closes
    <2>8. DrainSourcetable(m) \in {Wait(r), w, FlushSourcetable(w)}
      BY <1>1, <1>4, <2>1, <2>3, DrainTableCases
    <2> QED BY <2>2, <2>6, <2>7, <2>8
  <1> QED BY <1>3, <1>4

(* Nor after a read of a table, chunked or not.                             *)
LEMMA TableLeaves ==
    ASSUME NEW m, MachineOK(m), m.go, m.st = "Sourcetable"
    PROVE  DrainSourcetable(m).st # "Idle"
  <1>1. CASE m.tchunked => m.carry = <<>> BY <1>1, TableLineLeaves
  <1>2. CASE m.tchunked /\ m.carry # <<>>
    <2>1. PICK d : d = Decode(m.dec, m.carry) OBVIOUS
    <2>2. PICK n : n = Tabled(m, d) OBVIOUS
    <2>3. /\ DecoderInv(d) /\ ~ d.more /\ MachineOK(n)
          /\ d.poison => DrainSourcetable(m) = Close(n, "StreamCorrupted", <<>>)
          /\ ~ d.poison => DrainSourcetable(m) = DrainSourcetable(n)
      BY <1>2, <2>1, <2>2, DecodeTableCases
    <2>4. n.go /\ n.st = "Sourcetable" /\ n.carry = <<>>
      BY <2>2 DEF Tabled, MachineOK, MachineType
    <2>5. DrainSourcetable(n).st # "Idle" BY <2>3, <2>4, TableLineLeaves
    <2>6. "StreamCorrupted" \in Ends /\ <<>> \in Details BY EmptyBytes DEF Ends, Details
    <2>7. Close(n, "StreamCorrupted", <<>>).st = "Closed" BY <2>3, <2>6, CloseFacts
    <2> QED BY <2>3, <2>5, <2>7
  <1> QED BY <1>1, <1>2

(* No round of a push leaves the machine idle.                              *)
LEMMA IterLeavesIdle ==
    ASSUME NEW m, MachineOK(m), m.go
    PROVE  PushIter(m).st # "Idle"
  <1>1. m \in MachineType BY DEF MachineOK
  <1>2. m.st \in States BY <1>1 DEF MachineType
  <1>3. CASE m.st = "Idle" BY <1>1, <1>3 DEF PushIter, MachineType
  <1>4. CASE m.st = "AwaitingStatus"
    <2>1. PushIter(m) = ParseStatus(m) BY <1>4 DEF PushIter
    <2>2. ~ HasLine(m.carry) => ParseStatus(m) = NoLine(m) BY DEF ParseStatus
    <2> QED BY <1>4, <2>1, <2>2, NoLineLeaves, StatusLeaves
  <1>5. CASE m.st = "AwaitingHeaders"
    <2>1. PushIter(m) = ParseHeaders(m) BY <1>5 DEF PushIter
    <2>2. ~ HasLine(m.carry) => ParseHeaders(m) = NoLine(m) BY DEF ParseHeaders
    <2> QED BY <1>5, <2>1, <2>2, NoLineLeaves, HeadersLeave
  <1>6. CASE m.st = "Streaming"
    <2>1. PushIter(m) = DrainPayload(m) BY <1>6 DEF PushIter
    <2> QED BY <1>6, <2>1, StreamLeaves
  <1>7. CASE m.st = "Sourcetable"
    <2>1. PushIter(m) = DrainSourcetable(m) BY <1>7 DEF PushIter
    <2> QED BY <1>7, <2>1, TableLeaves
  <1>8. CASE m.st = "Closed"
    <2>1. PushIter(m) = Wait(m) BY <1>8 DEF PushIter
    <2> QED BY <1>8, <2>1, WaitFacts
  <1> QED BY <1>2, <1>3, <1>4, <1>5, <1>6, <1>7, <1>8 DEF States

(* There is no line in nothing.                                             *)
LEMMA NoLineInNothing == ~ HasLine(<<>>)
  BY DEF HasLine, Contains

(* Nothing was read: the request alone.                                     *)
LEMMA OnlyRequested ==
    Push(NewMachine, <<>>) = ConnectionRequest(NewMachine)
  <1>1. PICK m : m = NewMachine OBVIOUS
  <1>2. MachineOK(m) /\ ~ m.go /\ m.st = "Idle" /\ m.carry = <<>> /\ m.ev = <<>>
    BY <1>1, NewMachineFacts DEF NewMachine
  <1>3. m \in MachineType BY <1>2 DEF MachineOK
  <1>4. PICK r : r = ConnectionRequest(m) OBVIOUS
  <1>5. r = [m EXCEPT !.st = "AwaitingStatus"] BY <1>4 DEF ConnectionRequest
  <1>6. PICK O : O = Opened(m, <<>>) OBVIOUS
  <1>7. O = [m EXCEPT !.go = TRUE]
    <2>1. m.carry \o <<>> = <<>> BY <1>2
    <2> QED BY <1>2, <1>3, <1>6, <2>1 DEF Opened, MachineType
  <1>8. PICK p : p = [O EXCEPT !.st = "AwaitingStatus"] OBVIOUS
  <1>9. PushIter(O) = p
    <2>1. O.go /\ O.st = "Idle" BY <1>2, <1>3, <1>7 DEF MachineType
    <2> QED BY <1>8, <2>1 DEF PushIter
  <1>10. PushIter(p) = r
    <2>1. p.go /\ p.st = "AwaitingStatus" /\ p.carry = <<>>
      BY <1>2, <1>3, <1>7, <1>8 DEF MachineType
    <2>2. PushIter(p) = ParseStatus(p) BY <2>1 DEF PushIter
    <2>3. ~ HasLine(p.carry) BY <2>1, NoLineInNothing
    <2>4. ParseStatus(p) = NoLine(p) BY <2>3 DEF ParseStatus
    <2>5. ~ (Len(p.carry) > MaxLine) BY <2>1, EmptyBytes, DecoderAssumption
    <2>6. NoLine(p) = Wait(p) BY <2>5 DEF NoLine
    <2>7. Wait(p) = r BY <1>2, <1>3, <1>5, <1>7, <1>8 DEF Wait, MachineType
    <2> QED BY <2>2, <2>4, <2>6, <2>7
  <1>11. ~ r.go BY <1>2, <1>3, <1>5 DEF MachineType
  <1>12. PushesTo(O, r)
    <2>1. PushesTo(r, r) BY <1>11, PushesStopped
    <2>2. PushesTo(p, r) BY <1>10, <2>1, PushesBack
    <2> QED BY <1>9, <2>2, PushesBack
  <1>13. PushesTo(O, Push(m, <<>>)) BY <1>2, <1>6, EmptyBytes, PushIsLoop
  <1>14. MachineOK(O) BY <1>2, <1>6, EmptyBytes, OpenedFacts
  <1> QED BY <1>1, <1>4, <1>12, <1>13, <1>14, PushesOnce

(* A push leaves the first state.                                           *)
LEMMA PushLeavesIdle ==
    ASSUME NEW m, MachineOK(m), ~ m.go, m.st # "Closed", NEW x \in Bytes
    PROVE  Push(m, x).st # "Idle"
  <1>1. PICK O : O = Opened(m, x) OBVIOUS
  <1>2. MachineOK(O) /\ O.go BY <1>1, OpenedFacts
  <1>3. PushesTo(O, Push(m, x)) BY <1>1, PushIsLoop
  <1> DEFINE S == {n \in MachineType : MachineOK(n) /\ (n.st = "Idle" => n.go)}
  <1>4. O \in S BY <1>2 DEF MachineOK
  <1>5. \A n \in S : PushIter(n) \in S
    <2> SUFFICES ASSUME NEW n \in S PROVE PushIter(n) \in S
      OBVIOUS
    <2>1. MachineOK(PushIter(n)) BY IterIsOK
    <2>2. PushIter(n).st # "Idle"
      <3>1. CASE ~ n.go BY <3>1 DEF PushIter
      <3>2. CASE n.go BY <3>2, IterLeavesIdle
      <3> QED BY <3>1, <3>2
    <2> QED BY <2>1, <2>2 DEF MachineOK
  <1>6. Push(m, x) \in S
    <2> HIDE DEF S
    <2> QED BY <1>4, <1>5, <1>3, PushesWithin
  <1>7. ~ Push(m, x).go BY PushFacts
  <1> QED BY <1>6, <1>7

-----------------------------------------------------------------------------
(* A response in reads *)

(* The machine that has read the response r at once.                        *)
AtOnce(r) == Push(NewMachine, r)

(* What such a machine is.                                                  *)
LEMMA AtOnceFacts ==
    ASSUME NEW r \in Bytes
    PROVE  /\ MachineOK(AtOnce(r)) /\ ~ AtOnce(r).go /\ Tight(AtOnce(r))
           /\ AtOnce(r).st # "Idle" /\ AtOnce(r).ev \in Seq(Events) /\ AtOnce(r) \in MachineType
  <1>1. NewMachine.st # "Closed" BY DEF NewMachine
  <1>2. MachineOK(AtOnce(r)) /\ ~ AtOnce(r).go /\ Tight(AtOnce(r))
    BY NewMachineFacts, PushFacts DEF AtOnce
  <1>3. AtOnce(r).st # "Idle" BY <1>1, NewMachineFacts, PushLeavesIdle DEF AtOnce
  <1> QED BY <1>2, <1>3 DEF MachineOK, MachineType

(* What a closed machine told, when at once E had been told.                *)
FoundOut(m, told, E) ==
    /\ E.st = "Closed"
    /\ SaysTheSame(told, E.ev) \/ (Corrupted(E.ev) /\ (Corrupted(told) \/ m.tchunked))

(* A machine that has read r, and told its client so.                       *)
Underway(m, r, told) ==
    /\ m.st \notin {"Idle", "Closed"}
    /\ m = WithEvents(AtOnce(r), m.ev)
    /\ SaysTheSame(told, AtOnce(r).ev)

(* A machine that is closed, whatever comes after r.                        *)
Concluded(m, r, told) ==
    /\ m.st = "Closed"
    /\ GaveUp(m) \/ \A t \in Bytes : FoundOut(m, told, AtOnce(r \o t))

(* What a machine has told of r: nothing, as much as is told of r at once,  *)
(* or all there is.                                                         *)
ReadSoFar(m, r, told) ==
    \/ r = <<>> /\ told = <<>> /\ m = NewMachine
    \/ Underway(m, r, told)
    \/ Concluded(m, r, told)

(* Whatever comes after the end, it was told what it would be.              *)
LEMMA ConcludedNow ==
    ASSUME NEW r \in Bytes, NEW W, W = AtOnce(r), W.st = "Closed",
           NEW n, n.st = "Closed", NEW told,
           \/ n = WithEvents(W, n.ev) /\ n.ev \in Seq(Events) /\ SaysTheSame(told, W.ev)
           \/ n.dec = W.dec /\ n.dec.poison /\ Corrupted(told) /\ Corrupted(W.ev)
    PROVE  Concluded(n, r, told)
  <1>1. MachineOK(W) /\ W \in MachineType BY AtOnceFacts
  <1>2. CASE n = WithEvents(W, n.ev) /\ n.ev \in Seq(Events) /\ SaysTheSame(told, W.ev)
    <2>1. /\ n.dec = W.dec /\ n.carry = W.carry /\ n.tcarry = W.tcarry
          /\ n.tchunked = W.tchunked
      <3>1. PICK s \in Seq(Events) : s = n.ev BY <1>2
      <3>2. n = [W EXCEPT !.ev = s] BY <1>2, <3>1 DEF WithEvents
      <3> QED BY <1>1, <3>2 DEF MachineType
    <2>2. GaveUp(W) => GaveUp(n) BY <2>1 DEF GaveUp
    <2>3. Corrupted(W.ev) => Corrupted(told) BY <1>2, SaidCorrupted
    <2>4. ASSUME ~ GaveUp(n), NEW t \in Bytes
          PROVE  FoundOut(n, told, AtOnce(r \o t))
      <3>1. CASE t = <<>>
        <4>1. r \o t = r BY <3>1, ConcatEmptySeq DEF Bytes
        <4> QED BY <1>2, <4>1 DEF FoundOut
      <3>2. CASE t # <<>>
        <4>1. Lost(W, AtOnce(r \o t))
          BY <3>2, NewMachineFacts, PushInPieces DEF AtOnce, NewMachine
        <4>2. ~ GaveUp(W) BY <2>2, <2>4
        <4>3. /\ AtOnce(r \o t).st = "Closed"
              /\ \/ SaysTheSame(W.ev, AtOnce(r \o t).ev)
                 \/ Corrupted(AtOnce(r \o t).ev) /\ (W.tchunked \/ Corrupted(W.ev))
          BY <4>1, <4>2 DEF Lost
        <4>4. SaysTheSame(W.ev, AtOnce(r \o t).ev) => SaysTheSame(told, AtOnce(r \o t).ev)
          BY <1>2 DEF SaysTheSame
        <4> QED BY <2>1, <2>3, <4>3, <4>4 DEF FoundOut
      <3> QED BY <3>1, <3>2
    <2> QED BY <2>4 DEF Concluded
  <1>3. CASE n.dec = W.dec /\ n.dec.poison /\ Corrupted(told) /\ Corrupted(W.ev)
    <2>1. GaveUp(W) => GaveUp(n) BY <1>3 DEF GaveUp
    <2>2. ASSUME ~ GaveUp(n), NEW t \in Bytes
          PROVE  FoundOut(n, told, AtOnce(r \o t))
      <3>1. CASE t = <<>>
        <4>1. r \o t = r BY <3>1, ConcatEmptySeq DEF Bytes
        <4> QED BY <1>3, <4>1 DEF FoundOut
      <3>2. CASE t # <<>>
        <4>1. Lost(W, AtOnce(r \o t))
          BY <3>2, NewMachineFacts, PushInPieces DEF AtOnce, NewMachine
        <4>2. ~ GaveUp(W) BY <2>1, <2>2
        <4>3. /\ AtOnce(r \o t).st = "Closed"
              /\ \/ SaysTheSame(W.ev, AtOnce(r \o t).ev)
                 \/ Corrupted(AtOnce(r \o t).ev) /\ (W.tchunked \/ Corrupted(W.ev))
          BY <4>1, <4>2 DEF Lost
        <4>4. Corrupted(AtOnce(r \o t).ev) BY <1>3, <4>3, SaidCorrupted
        <4> QED BY <1>3, <4>3, <4>4 DEF FoundOut
      <3> QED BY <3>1, <3>2
    <2> QED BY <2>2 DEF Concluded
  <1> QED BY <1>2, <1>3

(* The first read.                                                          *)
LEMMA FirstRead ==
    ASSUME NEW y \in Bytes, NEW n, n = Push(NewMachine, y)
    PROVE  ReadSoFar(n, y, n.ev)
  <1>1. n = AtOnce(y) BY DEF AtOnce
  <1>2. n \in MachineType /\ n.ev \in Seq(Events) /\ n.st # "Idle" BY <1>1, AtOnceFacts
  <1>3. n = WithEvents(n, n.ev) BY <1>2 DEF WithEvents, MachineType
  <1>4. SaysTheSame(n.ev, n.ev) BY DEF SaysTheSame
  <1>5. CASE n.st # "Closed" BY <1>1, <1>2, <1>3, <1>4, <1>5 DEF ReadSoFar, Underway
  <1>6. CASE n.st = "Closed"
    <2>1. Concluded(n, y, n.ev) BY <1>1, <1>2, <1>3, <1>4, <1>6, ConcludedNow
    <2> QED BY <2>1 DEF ReadSoFar
  <1> QED BY <1>5, <1>6

(* A read of a machine that is open.                                        *)
LEMMA NextRead ==
    ASSUME NEW m, MachineOK(m), NEW r \in Bytes, NEW told \in Seq(Events), Underway(m, r, told),
           NEW y \in Bytes, y # <<>>, NEW n, n = Push(m, y)
    PROVE  ReadSoFar(n, r \o y, told \o n.ev)
  <1>1. PICK w : w = AtOnce(r) OBVIOUS
  <1>2. /\ MachineOK(w) /\ ~ w.go /\ Tight(w) /\ w \in MachineType /\ w.ev \in Seq(Events)
    BY <1>1, AtOnceFacts
  <1>3. m.ev \in Seq(Events) BY DEF MachineOK, MachineType
  <1>4. m = WithEvents(w, m.ev) /\ SaysTheSame(told, w.ev) /\ m.st \notin {"Idle", "Closed"}
    BY <1>1 DEF Underway
  <1>5. w.st = m.st BY <1>2, <1>3, <1>4, WithEventsFacts
  <1>6. n = Push(w, y) BY <1>2, <1>4, <1>5, EventsAside
  <1>7. MachineOK(n) /\ ~ n.go BY <1>2, <1>6, PushFacts
  <1>8. n \in MachineType /\ n.ev \in Seq(Events) BY <1>7 DEF MachineOK, MachineType
  <1>9. PICK z \in Bytes : z = r \o y BY MoreBytes
  <1>10. PICK W : W = AtOnce(z) OBVIOUS
  <1>11. W \in MachineType /\ W.st # "Idle" /\ W.ev \in Seq(Events) BY <1>10, AtOnceFacts
  <1>12. Alike(After(w.ev, n), W)
    BY <1>1, <1>4, <1>5, <1>6, <1>9, <1>10, NewMachineFacts, PushInPieces DEF AtOnce, NewMachine
  <1>13. PICK u \in Seq(Events) : u = w.ev \o n.ev BY <1>2, <1>8, PayloadConcat
  <1>14. PICK v : v = After(w.ev, n) OBVIOUS
  <1>15. v = WithEvents(n, u) BY <1>13, <1>14 DEF After, WithEvents
  <1>16. v.ev = u /\ v.st = n.st /\ v.dec = n.dec BY <1>8, <1>15, WithEventsFacts
  <1>17. SaysTheSame(told \o n.ev, u) BY <1>2, <1>4, <1>8, <1>13, SaidBefore
  <1>18. CASE SameEnd(v, W)
    <2>1. v = WithEvents(W, u) /\ SaysTheSame(u, W.ev) BY <1>16, <1>18 DEF SameEnd
    <2>2. n = WithEvents(W, n.ev)
      <3>1. n = [v EXCEPT !.ev = n.ev] BY <1>8, <1>15 DEF WithEvents, MachineType
      <3>2. [v EXCEPT !.ev = n.ev] = [W EXCEPT !.ev = n.ev]
        BY <1>11, <2>1 DEF WithEvents, MachineType
      <3> QED BY <3>1, <3>2 DEF WithEvents
    <2>3. n.st = W.st BY <1>8, <1>11, <2>2, WithEventsFacts
    <2>4. SaysTheSame(told \o n.ev, W.ev) BY <1>17, <2>1 DEF SaysTheSame
    <2>5. CASE n.st # "Closed"
      <3>1. Underway(n, z, told \o n.ev) BY <1>10, <1>11, <2>2, <2>3, <2>4, <2>5 DEF Underway
      <3> QED BY <1>9, <3>1 DEF ReadSoFar
    <2>6. CASE n.st = "Closed"
      <3>1. Concluded(n, z, told \o n.ev)
        BY <1>8, <1>10, <2>2, <2>3, <2>4, <2>6, ConcludedNow
      <3> QED BY <1>9, <3>1 DEF ReadSoFar
    <2> QED BY <2>5, <2>6
  <1>19. CASE BothCorrupted(v, W)
    <2>1. /\ n.st = "Closed" /\ W.st = "Closed" /\ Corrupted(u) /\ Corrupted(W.ev)
          /\ n.dec = W.dec /\ n.dec.poison
      BY <1>16, <1>19 DEF BothCorrupted
    <2>2. Corrupted(told \o n.ev) BY <1>17, <2>1, SaidCorrupted
    <2>3. Concluded(n, z, told \o n.ev) BY <1>10, <2>1, <2>2, ConcludedNow
    <2> QED BY <1>9, <2>3 DEF ReadSoFar
  <1> QED BY <1>12, <1>14, <1>18, <1>19 DEF Alike

(* A read of a machine that is closed.                                      *)
LEMMA LateRead ==
    ASSUME NEW m, MachineOK(m), ~ m.go, NEW r \in Bytes, NEW told \in Seq(Events),
           Concluded(m, r, told), NEW y \in Bytes, NEW n, n = Push(m, y)
    PROVE  ReadSoFar(n, r \o y, told \o n.ev)
  <1>1. m.st = "Closed" /\ m \in MachineType BY DEF Concluded, MachineOK
  <1>2. n = [m EXCEPT !.ev = <<>>] BY <1>1 DEF Push
  <1>3. /\ n.ev = <<>> /\ n.st = "Closed" /\ n.dec = m.dec /\ n.carry = m.carry
        /\ n.tcarry = m.tcarry /\ n.tchunked = m.tchunked
    BY <1>1, <1>2 DEF MachineType
  <1>4. told \o n.ev = told BY <1>3, ConcatEmptySeq
  <1>5. GaveUp(m) => GaveUp(n) BY <1>3 DEF GaveUp
  <1>6. ASSUME NEW t \in Bytes, \A s \in Bytes : FoundOut(m, told, AtOnce(r \o s))
        PROVE  FoundOut(n, told, AtOnce((r \o y) \o t))
    <2>1. y \o t \in Bytes BY MoreBytes
    <2>2. FoundOut(m, told, AtOnce(r \o (y \o t))) BY <1>6, <2>1
    <2>3. (r \o y) \o t = r \o (y \o t) BY PiecesAssociate
    <2> QED BY <1>3, <2>2, <2>3 DEF FoundOut
  <1>7. Concluded(n, r \o y, told) BY <1>3, <1>5, <1>6 DEF Concluded
  <1> QED BY <1>4, <1>7 DEF ReadSoFar

(* The next read, whatever has been read.                                   *)
LEMMA ReadMore ==
    ASSUME NEW m, MachineOK(m), ~ m.go, NEW r \in Bytes, NEW told \in Seq(Events),
           ReadSoFar(m, r, told), NEW y \in Bytes, y # <<>>, NEW n, n = Push(m, y)
    PROVE  ReadSoFar(n, r \o y, told \o n.ev)
  <1>1. CASE r = <<>> /\ told = <<>> /\ m = NewMachine
    <2>1. n.ev \in Seq(Events) BY <1>1, AtOnceFacts DEF AtOnce
    <2>2. r \o y = y /\ told \o n.ev = n.ev BY <1>1, <2>1, ConcatEmptySeq DEF Bytes
    <2>3. ReadSoFar(n, y, n.ev) BY <1>1, FirstRead
    <2> QED BY <2>2, <2>3
  <1>2. CASE Underway(m, r, told) BY <1>2, NextRead
  <1>3. CASE Concluded(m, r, told) BY <1>3, LateRead
  <1> QED BY <1>1, <1>2, <1>3 DEF ReadSoFar

(* What a client is told of s at once: the log in InOneRead.                *)
ToldAtOnce(s, end) ==
    LET m == AtOnce(s) IN IF end THEN m.ev \o Finish(m).ev ELSE m.ev

(* InOneRead is the set of it.                                              *)
LEMMA InOneReadIs == \A s, end : InOneRead(s, end) = {ToldAtOnce(s, end)}
  BY DEF InOneRead, ToldAtOnce, AtOnce

(* finish returns nothing unless a table is read.                           *)
LEMMA FinishNothing ==
    ASSUME NEW m \in MachineType, m.st # "Sourcetable"
    PROVE  LET n == Finish(m) IN
           /\ n.ev = <<>> /\ n.st = m.st /\ n.dec = m.dec /\ n.carry = m.carry
           /\ n.tcarry = m.tcarry /\ n.tchunked = m.tchunked
  <1>1. PICK n : n = Finish(m) OBVIOUS
  <1>2. n = [m EXCEPT !.ev = <<>>] BY <1>1 DEF Finish
  <1>3. /\ n.ev = <<>> /\ n.st = m.st /\ n.dec = m.dec /\ n.carry = m.carry
        /\ n.tcarry = m.tcarry /\ n.tchunked = m.tchunked
    BY <1>2 DEF MachineType
  <1> QED BY <1>1, <1>3

(* What a client was told of the response r, its end included.              *)
ReadWhole(m, r, told) ==
    LET whole == ToldAtOnce(r, TRUE)
    IN  \/ SaysTheSame(told, whole)
        \/ GaveUp(m)
        \/ Corrupted(whole) /\ (Corrupted(told) \/ m.tchunked)

(* The end of file, after the first read or later.                          *)
LEMMA ReadEnds ==
    ASSUME NEW m, MachineOK(m), NEW r \in Bytes, NEW told \in Seq(Events),
           ReadSoFar(m, r, told), NEW n, n = Finish(m), n.ev \in Seq(Events)
    PROVE  ReadWhole(n, r, told \o n.ev)
  <1>1. PICK w : w = AtOnce(r) OBVIOUS
  <1>2. w \in MachineType /\ w.ev \in Seq(Events) BY <1>1, AtOnceFacts
  <1>3. PICK whole : whole = ToldAtOnce(r, TRUE) OBVIOUS
  <1>4. whole = w.ev \o Finish(w).ev BY <1>1, <1>3 DEF ToldAtOnce
  <1>5. m \in MachineType BY DEF MachineOK
  <1>6. CASE r = <<>> /\ told = <<>> /\ m = NewMachine
    <2>1. m.st = "Idle" /\ m.ev = <<>> BY <1>6 DEF NewMachine
    <2>2. n.ev = <<>> BY <1>5, <2>1, FinishNothing
    <2>3. w = ConnectionRequest(m) BY <1>1, <1>6, OnlyRequested DEF AtOnce
    <2>4. w.st = "AwaitingStatus" /\ w.ev = <<>>
      BY <1>5, <2>1, <2>3 DEF ConnectionRequest, MachineType
    <2>5. Finish(w).ev = <<>> BY <1>2, <2>4, FinishNothing
    <2>6. told \o n.ev = <<>> /\ whole = <<>> BY <1>4, <1>6, <2>2, <2>4, <2>5, ConcatEmptySeq
    <2>7. SaysTheSame(told \o n.ev, whole) BY <2>6 DEF SaysTheSame
    <2> QED BY <1>3, <2>7 DEF ReadWhole
  <1>7. CASE Underway(m, r, told)
    <2>1. m = WithEvents(w, m.ev) /\ SaysTheSame(told, w.ev) BY <1>1, <1>7 DEF Underway
    <2>2. n = Finish(w) BY <1>2, <2>1, EventsAside
    <2>3. SaysTheSame(told \o n.ev, w.ev \o n.ev) BY <1>2, <2>1, SaidBefore
    <2> QED BY <1>3, <1>4, <2>2, <2>3 DEF ReadWhole
  <1>8. CASE Concluded(m, r, told)
    <2>1. m.st = "Closed" BY <1>8 DEF Concluded
    <2>2. /\ n.ev = <<>> /\ n.st = m.st /\ n.dec = m.dec /\ n.carry = m.carry
          /\ n.tcarry = m.tcarry /\ n.tchunked = m.tchunked
      BY <1>5, <2>1, FinishNothing
    <2>3. told \o n.ev = told BY <2>2, ConcatEmptySeq
    <2>4. GaveUp(m) => GaveUp(n) BY <2>2 DEF GaveUp
    <2>5. CASE \A t \in Bytes : FoundOut(m, told, AtOnce(r \o t))
      <3>1. FoundOut(m, told, AtOnce(r \o <<>>)) BY <2>5, EmptyBytes
      <3>2. r \o <<>> = r BY ConcatEmptySeq DEF Bytes
      <3>3. FoundOut(m, told, w) BY <1>1, <3>1, <3>2
      <3>4. w.st = "Closed" BY <3>3 DEF FoundOut
      <3>5. Finish(w).ev = <<>> BY <1>2, <3>4, FinishNothing
      <3>6. whole = w.ev BY <1>2, <1>4, <3>5, ConcatEmptySeq
      <3> QED BY <1>3, <2>2, <2>3, <3>3, <3>6 DEF FoundOut, ReadWhole
    <2> QED BY <1>8, <2>4, <2>5 DEF Concluded, ReadWhole
  <1> QED BY <1>6, <1>7, <1>8 DEF ReadSoFar

(* What the machine has read of the response, and told.                     *)
ReadingInv ==
    \E r \in Bytes :
        /\ sent = r \o wire
        /\ IF eof THEN ReadWhole(mach, sent, log) ELSE ReadSoFar(mach, r, log)

(* A request alone is no read, and makes no difference.                     *)
LEMMA RequestReads ==
    ASSUME ReadSoFar(mach, <<>>, log), mach = NewMachine, log = <<>>, Request
    PROVE  ReadSoFar(mach', <<>>, log')
  <1>1. mach' = AtOnce(<<>>) BY OnlyRequested DEF Request, AtOnce
  <1>2. AtOnce(<<>>).st = "AwaitingStatus" /\ AtOnce(<<>>).ev = <<>>
    BY OnlyRequested DEF AtOnce, ConnectionRequest, NewMachine
  <1>3. AtOnce(<<>>) \in MachineType BY AtOnceFacts, EmptyBytes
  <1>4. mach' = WithEvents(AtOnce(<<>>), mach'.ev)
    <2>1. PICK w : w = AtOnce(<<>>) OBVIOUS
    <2>2. w = [w EXCEPT !.ev = w.ev] BY <1>3, <2>1 DEF MachineType
    <2> QED BY <1>1, <2>1, <2>2 DEF WithEvents
  <1>5. log' = <<>> BY DEF Request
  <1>6. SaysTheSame(log', AtOnce(<<>>).ev) BY <1>2, <1>5 DEF SaysTheSame
  <1> QED BY <1>1, <1>2, <1>4, <1>6 DEF ReadSoFar, Underway

(* The inductive step, action by action.                                    *)
LEMMA StepKeepsReading == ClientInv /\ ReadingInv /\ [Next]_vars => ReadingInv'
  <1> SUFFICES ASSUME ClientInv, ReadingInv, [Next]_vars PROVE ReadingInv'
    OBVIOUS
  <1>1. PICK r \in Bytes :
          /\ sent = r \o wire
          /\ IF eof THEN ReadWhole(mach, sent, log) ELSE ReadSoFar(mach, r, log)
    BY DEF ReadingInv
  <1>2. /\ MachineOK(mach) /\ ~ mach.go /\ mach \in MachineType /\ log \in Seq(Events)
        /\ wire \in Bytes /\ sent \in Bytes /\ (eof => wire = <<>>)
    BY DEF ClientInv, MachineOK
  <1>3. wire = <<>> => sent = r BY <1>1, ConcatEmptySeq DEF Bytes
  <1>4. CASE UNCHANGED <<mach, sent, wire, eof, log>> BY <1>1, <1>4 DEF ReadingInv
  <1>5. CASE Request
    <2>1. mach.st = "Idle" /\ UNCHANGED <<sent, wire, eof, log>>
          /\ mach' = [mach EXCEPT !.st = "AwaitingStatus"]
      BY <1>5 DEF Request, ConnectionRequest
    <2>2. CASE eof
      <3>1. mach'.tchunked = mach.tchunked BY <1>2, <2>1 DEF MachineType
      <3>2. ~ GaveUp(mach) BY <2>1 DEF GaveUp
      <3>3. ReadWhole(mach', sent, log) BY <1>1, <2>2, <3>1, <3>2 DEF ReadWhole
      <3> QED BY <1>1, <2>1, <2>2, <3>3 DEF ReadingInv
    <2>3. CASE ~ eof
      <3>1. r = <<>> /\ log = <<>> /\ mach = NewMachine
        BY <1>1, <2>1, <2>3 DEF ReadSoFar, Underway, Concluded
      <3>2. ReadSoFar(mach', r, log') BY <1>1, <1>5, <2>3, <3>1, RequestReads
      <3> QED BY <1>1, <2>1, <2>3, <3>2 DEF ReadingInv
    <2> QED BY <2>2, <2>3
  <1>6. CASE CasterSends
    <2>1. PICK x \in NextSymbols : sent' = Append(sent, x) /\ wire' = Append(wire, x)
      BY <1>6 DEF CasterSends
    <2>2. UNCHANGED <<mach, eof, log>> /\ ~ eof BY <1>6 DEF CasterSends
    <2>3. x \in Symbols
      <3>1. sent' \in Bytes BY StepKeepsClient DEF ClientInv
      <3>2. Len(sent) \in Nat /\ Len(sent') = Len(sent) + 1 /\ sent'[Len(sent) + 1] = x
        BY <1>2, <2>1, AppendProperties DEF Bytes
      <3>3. Len(sent) + 1 \in 1..Len(sent') BY <3>2
      <3> QED BY <3>1, <3>2, <3>3, ElementOfSeq DEF Bytes
    <2>4. Append(r \o wire, x) = r \o Append(wire, x)
      <3>1. PICK s \in Seq(Symbols), t \in Seq(Symbols) : s = r /\ t = wire
        BY <1>2 DEF Bytes
      <3>2. Append(s \o t, x) = s \o Append(t, x) BY <2>3
      <3> QED BY <3>1, <3>2
    <2>5. sent' = r \o wire' BY <1>1, <2>1, <2>4
    <2> QED BY <1>1, <2>2, <2>5 DEF ReadingInv
  <1>7. CASE ClientPush
    <2>1. /\ wire # <<>> /\ mach' = Push(mach, wire) /\ log' = log \o mach'.ev /\ wire' = <<>>
          /\ UNCHANGED <<sent, eof>>
      BY <1>7 DEF ClientPush
    <2>2. ~ eof BY <1>2, <2>1
    <2>3. PICK n : n = Push(mach, wire) OBVIOUS
    <2>4. ReadSoFar(n, r \o wire, log \o n.ev) BY <1>1, <1>2, <2>1, <2>2, <2>3, ReadMore
    <2>5. ReadSoFar(mach', sent, log') BY <1>1, <2>1, <2>3, <2>4
    <2>6. sent' = sent \o wire' BY <1>2, <2>1, ConcatEmptySeq DEF Bytes
    <2> QED BY <1>2, <2>1, <2>2, <2>5, <2>6 DEF ReadingInv
  <1>8. CASE ClientFinish
    <2>1. /\ ~ eof /\ wire = <<>> /\ mach' = Finish(mach) /\ log' = log \o mach'.ev
          /\ eof' = TRUE /\ UNCHANGED <<sent, wire>>
      BY <1>8 DEF ClientFinish
    <2>2. PICK n : n = Finish(mach) OBVIOUS
    <2>3. n.ev \in Seq(Events) BY <1>2, <2>2, FinishFacts DEF ClientInv, MachineOK, MachineType
    <2>4. ReadWhole(n, r, log \o n.ev) BY <1>1, <1>2, <2>1, <2>2, <2>3, ReadEnds
    <2>5. ReadWhole(mach', sent', log') BY <1>3, <2>1, <2>2, <2>4
    <2> QED BY <1>1, <2>1, <2>5 DEF ReadingInv
  <1>9. CASE ClientReset \/ NextReader
    <2>1. mach' = NewMachine /\ sent' = <<>> /\ log' = <<>> /\ eof' = FALSE /\ wire' = <<>>
      BY <1>2, <1>9 DEF ClientReset, NextReader
    <2>2. ReadSoFar(mach', <<>>, log') BY <2>1 DEF ReadSoFar
    <2>3. sent' = <<>> \o wire' BY <2>1, ConcatEmptySeq
    <2> QED BY <2>1, <2>2, <2>3, EmptyBytes DEF ReadingInv
  <1>10. EndOfFrames \/ UNCHANGED vars => UNCHANGED <<mach, sent, wire, eof, log>>
    BY DEF EndOfFrames, vars
  <1> QED BY <1>4, <1>5, <1>6, <1>7, <1>8, <1>9, <1>10 DEF Next

(* Wherever a response was split into reads, the client is told the same of  *)
(* it as in one read (push and finish of NtripClientMachine and of           *)
(* ChunkedDecoder), but for a line that was given up and an encoding that is *)
(* found corrupted.                                                         *)
THEOREM ReadsMakeNoDifference == Spec => []SameInOneRead
  <1>1. ASSUME Init PROVE ReadingInv
    <2>1. mach = NewMachine /\ sent = <<>> /\ log = <<>> /\ eof = FALSE /\ wire = <<>>
      BY <1>1 DEF Init
    <2>2. ReadSoFar(mach, <<>>, log) BY <2>1 DEF ReadSoFar
    <2>3. sent = <<>> \o wire BY <2>1, ConcatEmptySeq
    <2> QED BY <2>1, <2>2, <2>3, EmptyBytes DEF ReadingInv
  <1>2. ClientInv /\ ReadingInv => SameInOneRead
    <2> SUFFICES ASSUME ClientInv, ReadingInv, wire = <<>>,
                        NEW whole, whole = ToldAtOnce(sent, eof)
                 PROVE  \/ SaysTheSame(log, whole)
                        \/ GaveUp(mach)
                        \/ Corrupted(whole) /\ (Corrupted(log) \/ mach.tchunked)
      BY InOneReadIs DEF SameInOneRead
    <2>1. PICK r \in Bytes :
            /\ sent = r \o wire
            /\ IF eof THEN ReadWhole(mach, sent, log) ELSE ReadSoFar(mach, r, log)
      BY DEF ReadingInv
    <2>2. sent = r /\ eof \in BOOLEAN BY <2>1, ConcatEmptySeq DEF Bytes, ClientInv
    <2>3. CASE eof = TRUE BY <2>1, <2>3 DEF ReadWhole
    <2>4. CASE eof = FALSE
      <3>1. whole = AtOnce(r).ev BY <2>2, <2>4 DEF ToldAtOnce
      <3>2. ReadSoFar(mach, r, log) BY <2>1, <2>4
      <3>3. CASE r = <<>> /\ log = <<>>
        <4>1. whole = <<>> BY <3>1, <3>3, OnlyRequested DEF AtOnce, ConnectionRequest, NewMachine
        <4> QED BY <3>3, <4>1 DEF SaysTheSame
      <3>4. CASE Underway(mach, r, log) BY <3>1, <3>4 DEF Underway
      <3>5. CASE Concluded(mach, r, log)
        <4>1. r \o <<>> = r BY ConcatEmptySeq DEF Bytes
        <4>2. GaveUp(mach) \/ FoundOut(mach, log, AtOnce(r))
          BY <3>5, <4>1, EmptyBytes DEF Concluded
        <4> QED BY <3>1, <4>2 DEF FoundOut
      <3> QED BY <3>2, <3>3, <3>4, <3>5 DEF ReadSoFar
    <2> QED BY <2>2, <2>3, <2>4
  <1> QED BY <1>1, <1>2, ClientInvariant, StepKeepsReading, PTL DEF Spec
=============================================================================
