-------------------------- MODULE NtripMachineProofs --------------------------
(***************************************************************************)
(* What a call of the NTRIP client machine does, for every response and    *)
(* every way it is split into reads.                                       *)
(***************************************************************************)
EXTENDS NtripMachine, SequenceTheorems, WellFoundedInduction, TLAPS

(* What is read.                                                             *)
Bytes == Seq(Symbols)

-----------------------------------------------------------------------------
(* Induction, and the ends of a set of naturals *)

(* Induction over the naturals, stated of a set.                             *)
LEMMA SetInduction ==
    ASSUME NEW S, 0 \in S, \A n \in Nat : n \in S => n + 1 \in S
    PROVE  Nat \subseteq S
  <1> DEFINE R == OpToRel(<, Nat)
             T == Nat \ S
  <1> SUFFICES ASSUME T # {} PROVE FALSE
    OBVIOUS
  <1>1. IsWellFoundedOn(R, Nat) BY NatLessThanWellFounded
  <1>2. \A x, y \in Nat : <<y, x>> \in R <=> y < x
    BY DEF OpToRel
  <1>3. T \subseteq Nat OBVIOUS
  <1> HIDE DEF R, T
  <1>4. PICK x \in T : \A y \in T : ~ (<<y, x>> \in R)
    BY <1>1, <1>3, WFMin
  <1>5. x \in Nat /\ x # 0 /\ x \notin S BY DEF T
  <1>6. x - 1 \in Nat /\ (x - 1) + 1 = x /\ x - 1 < x BY <1>5
  <1>7. x - 1 \notin T BY <1>2, <1>3, <1>4, <1>5, <1>6
  <1>8. x - 1 \in S BY <1>6, <1>7 DEF T
  <1> QED BY <1>5, <1>6, <1>8

(* Min of a set of naturals is its least element.                            *)
LEMMA MinIsLeast ==
    ASSUME NEW T, T \subseteq Nat, T # {}
    PROVE  Min(T) \in T /\ \A y \in T : Min(T) <= y
  <1> DEFINE R == OpToRel(<, Nat)
  <1>1. IsWellFoundedOn(R, Nat) BY NatLessThanWellFounded
  <1>2. \A x, y \in Nat : <<y, x>> \in R <=> y < x BY DEF OpToRel
  <1> HIDE DEF R
  <1>3. PICK x \in T : \A y \in T : ~ (<<y, x>> \in R) BY <1>1, WFMin
  <1>4. ASSUME NEW y \in T PROVE x <= y
    <2>1. x \in Nat /\ y \in Nat OBVIOUS
    <2>2. ~ (y < x) BY <1>2, <1>3, <2>1
    <2> QED BY <2>1, <2>2
  <1> QED BY <1>4 DEF Min

(* Max of a set of naturals with an upper bound is its greatest element.     *)
LEMMA MaxIsGreatest ==
    ASSUME NEW n \in Nat, NEW T, T \subseteq 0..n, T # {}
    PROVE  Max(T) \in T /\ \A y \in T : y <= Max(T)
  <1> DEFINE U == {k \in Nat : k <= n /\ n - k \in T}
  <1>1. U \subseteq Nat OBVIOUS
  <1>2. U # {}
    <2>1. PICK x \in T : TRUE OBVIOUS
    <2>2. n - x \in Nat /\ n - x <= n /\ n - (n - x) = x BY <2>1
    <2> QED BY <2>1, <2>2
  <1>3. Min(U) \in U /\ \A y \in U : Min(U) <= y BY <1>1, <1>2, MinIsLeast
  <1> DEFINE x == n - Min(U)
  <1>4. x \in T BY <1>3
  <1>5. ASSUME NEW y \in T PROVE x >= y
    <2>1. y \in Nat /\ n - y \in Nat /\ n - y <= n /\ n - (n - y) = y OBVIOUS
    <2>2. n - y \in U BY <2>1
    <2>3. Min(U) <= n - y /\ Min(U) \in Nat BY <2>2, <1>3
    <2> QED BY <2>1, <2>3
  <1> HIDE DEF x
  <1>6. PICK z \in T : \A y \in T : z >= y BY <1>4, <1>5
  <1>7. Max(T) \in T /\ \A y \in T : Max(T) >= y BY <1>6 DEF Max
  <1> QED BY <1>7

(* The greatest of the first numbers is the last one.                        *)
LEMMA MaxUpTo ==
    ASSUME NEW i \in Nat, i \in 1..i
    PROVE  Max(1..i) = i
  <1>1. 1..i \subseteq 0..i OBVIOUS
  <1>2. 1..i # {} OBVIOUS
  <1>3. Max(1..i) \in 1..i /\ \A y \in 1..i : y <= Max(1..i) BY <1>1, <1>2, MaxIsGreatest
  <1> QED BY <1>3

-----------------------------------------------------------------------------
(* Lines *)

(* A part of what was read is something that was read.                       *)
LEMMA PartOfBytes ==
    ASSUME NEW s \in Bytes, NEW a \in Nat \ {0}, NEW b \in Int, b <= Len(s)
    PROVE  /\ SubSeq(s, a, b) \in Bytes
           /\ Len(SubSeq(s, a, b)) = IF a <= b THEN b - a + 1 ELSE 0
  <1>1. \A i \in a..b : s[i] \in Symbols BY ElementOfSeq DEF Bytes
  <1> QED BY <1>1, SubSeqProperties DEF Bytes

(* Nothing, and a lone CR.                                                   *)
LEMMA EmptyBytes == <<>> \in Bytes /\ Len(<<>>) = 0
  BY DEF Bytes

(* A single byte that is CR is the sequence of it.                          *)
LEMMA LoneCR ==
    ASSUME NEW s \in Bytes, Len(s) = 1, s[1] = CR
    PROVE  s = <<CR>>
  <1>1. CR \in Symbols BY ElementOfSeq DEF Bytes
  <1>2. <<CR>> \in Seq(Symbols) /\ Len(<<CR>>) = 1 /\ <<CR>>[1] = CR BY <1>1
  <1>3. \A i \in 1..Len(s) : s[i] = <<CR>>[i] BY <1>2
  <1> QED BY <1>2, <1>3, SeqEqual DEF Bytes

(* What a blank line leaves pending is at most one byte.                    *)
LEMMA NoneOrCR ==
    ASSUME NEW s, s = <<>> \/ s = <<CR>>
    PROVE  Len(s) <= 1
  <1>1. CASE s = <<>> BY <1>1
  <1>2. CASE s = <<CR>> BY <1>2
  <1> QED BY <1>1, <1>2

(* take_line and read_line: a line ends at the first LF; the line and what   *)
(* follows it are shorter than the buffer, by the LF at least.               *)
LEMMA LineFacts ==
    ASSUME NEW s \in Bytes, HasLine(s)
    PROVE  /\ Line(s) \in Bytes /\ AfterLine(s) \in Bytes
           /\ Len(Line(s)) + Len(AfterLine(s)) < Len(s)
  <1> DEFINE I == {i \in 1..Len(s) : s[i] = LF}
  <1>1. I # {} /\ I \subseteq Nat BY DEF HasLine, Contains
  <1>2. LineEnd(s) = Min(I) BY <1>1 DEF LineEnd, SelectInSeq
  <1>3. LineEnd(s) \in 1..Len(s) BY <1>1, <1>2, MinIsLeast
  <1> HIDE DEF I
  <1> DEFINE raw == SubSeq(s, 1, LineEnd(s) - 1)
  <1>4. raw \in Bytes /\ Len(raw) = LineEnd(s) - 1 BY <1>3, PartOfBytes DEF Bytes
  <1>5. AfterLine(s) \in Bytes /\ Len(AfterLine(s)) = Len(s) - LineEnd(s)
    BY <1>3, PartOfBytes DEF AfterLine, Bytes
  <1>6. Line(s) \in Bytes /\ Len(Line(s)) <= Len(raw)
    <2>1. CASE raw # <<>> /\ Last(raw) = CR
      <3>1. Line(s) = SubSeq(raw, 1, Len(raw) - 1) BY <2>1 DEF Line, StripCR, Front
      <3> HIDE DEF raw
      <3> QED BY <1>4, <2>1, <3>1, PartOfBytes DEF Bytes
    <2>2. CASE ~ (raw # <<>> /\ Last(raw) = CR)
      <3>1. Line(s) = raw BY <2>2 DEF Line, StripCR
      <3> QED BY <1>4, <3>1 DEF Bytes
    <2> QED BY <2>1, <2>2
  <1> HIDE DEF raw
  <1> QED BY <1>3, <1>4, <1>5, <1>6 DEF Bytes

(* A trimmed line is part of the line.                                       *)
LEMMA TrimFacts ==
    ASSUME NEW s \in Bytes
    PROVE  Trim(s) \in Bytes /\ Len(Trim(s)) <= Len(s)
  <1> DEFINE ink == {i \in DOMAIN s : s[i] # CR}
  <1>1. Len(s) \in Nat /\ DOMAIN s = 1..Len(s) BY DEF Bytes
  <1>2. CASE ink = {}
    <2>1. Trim(s) = <<>> BY <1>2 DEF Trim
    <2> QED BY <1>1, <2>1 DEF Bytes
  <1>3. CASE ink # {}
    <2>1. ink \subseteq 1..Len(s) /\ ink \subseteq Nat /\ ink \subseteq 0..Len(s) BY <1>1
    <2>2. Trim(s) = SubSeq(s, Min(ink), Max(ink)) BY <1>3 DEF Trim
    <2> HIDE DEF ink
    <2>3. Min(ink) \in 1..Len(s) BY <1>3, <2>1, MinIsLeast
    <2>4. Max(ink) \in 1..Len(s) BY <1>1, <1>3, <2>1, MaxIsGreatest
    <2> QED BY <1>1, <2>2, <2>3, <2>4, PartOfBytes
  <1> QED BY <1>2, <1>3

(* So is the part of a line before a semicolon.                              *)
LEMMA UpToSemicolonFacts ==
    ASSUME NEW s \in Bytes
    PROVE  UpToSemicolon(s) \in Bytes
  <1> DEFINE I == {i \in 1..Len(s) : s[i] = Semicolon}
  <1>1. CASE Contains(s, Semicolon)
    <2>1. I # {} /\ I \subseteq Nat BY <1>1 DEF Contains
    <2>2. SelectInSeq(s, LAMBDA x : x = Semicolon) = Min(I) BY <2>1 DEF SelectInSeq
    <2>3. Min(I) \in 1..Len(s) BY <2>1, MinIsLeast
    <2>4. UpToSemicolon(s) = SubSeq(s, 1, Min(I) - 1)
      BY <1>1, <2>2 DEF UpToSemicolon
    <2> HIDE DEF I
    <2> QED BY <2>3, <2>4, PartOfBytes DEF Bytes
  <1>2. CASE ~ Contains(s, Semicolon) BY <1>2 DEF UpToSemicolon
  <1> QED BY <1>1, <1>2

(* The value of a size line is computed digit by digit.                      *)
LEMMA HexValueSteps ==
    ASSUME NEW t \in Bytes
    PROVE  \E f : /\ f[0] = 0 /\ HexValue(t) = f[Len(t)]
                  /\ \A i \in 1..Len(t) : f[i] = 16 * f[i - 1] + Digit[t[i]]
  <1> DEFINE Val(g, s) == IF s = {} THEN 0 ELSE 16 * g[s \ {Max(s)}] + Digit[t[Max(s)]]
             Good(g, k) == g = [s \in SUBSET (1..k) |-> Val(g, s)]
             S == {k \in Nat : \E g : Good(g, k)}
  <1>1. Len(t) \in Nat /\ DOMAIN t = 1..Len(t) BY DEF Bytes
  <1>2. 0 \in S
    <2> DEFINE g == [s \in SUBSET (1..0) |-> 0]
    <2>1. \A s \in SUBSET (1..0) : s = {} OBVIOUS
    <2>2. \A s \in SUBSET (1..0) : Val(g, s) = 0 BY <2>1
    <2>3. Good(g, 0) BY <2>2
    <2>4. \E x : Good(x, 0)
      <3> HIDE DEF Good, g
      <3> QED BY <2>3
    <2> QED BY <2>4
  <1>3. ASSUME NEW k \in Nat, k \in S PROVE k + 1 \in S
    <2>1. PICK g : Good(g, k) BY <1>3
    <2> DEFINE h == [s \in SUBSET (1..(k + 1)) |->
                        IF k + 1 \in s THEN 16 * g[s \ {k + 1}] + Digit[t[k + 1]] ELSE g[s]]
    <2>2. ASSUME NEW s \in SUBSET (1..(k + 1)) PROVE h[s] = Val(h, s)
      <3>1. CASE k + 1 \in s
        <4>1. Max(s) = k + 1
          <5>1. s \subseteq 0..(k + 1) /\ s # {} /\ k + 1 \in Nat BY <3>1
          <5>2. Max(s) \in s /\ \A y \in s : y <= Max(s) BY <5>1, MaxIsGreatest
          <5>3. Max(s) \in 0..(k + 1) BY <5>1, <5>2
          <5>4. k + 1 <= Max(s) BY <3>1, <5>2
          <5> QED BY <5>3, <5>4
        <4>2. s \ {k + 1} \in SUBSET (1..(k + 1)) /\ k + 1 \notin s \ {k + 1} OBVIOUS
        <4>3. h[s \ {k + 1}] = g[s \ {k + 1}] BY <4>2
        <4>4. h[s] = 16 * g[s \ {k + 1}] + Digit[t[k + 1]] BY <3>1
        <4>5. Val(h, s) = 16 * h[s \ {k + 1}] + Digit[t[k + 1]] BY <3>1, <4>1
        <4> HIDE DEF h, Val, Good
        <4> QED BY <4>3, <4>4, <4>5
      <3>2. CASE k + 1 \notin s
        <4>1. s \in SUBSET (1..k)
          <5>1. \A x \in s : x \in 1..(k + 1) /\ x # k + 1 BY <3>2
          <5> QED BY <5>1
        <4>2. h[s] = g[s] BY <3>2
        <4>3. g[s] = Val(g, s) BY <2>1, <4>1
        <4>4. CASE s = {} BY <4>2, <4>3, <4>4
        <4>5. CASE s # {}
          <5>1. s \ {Max(s)} \in SUBSET (1..(k + 1)) /\ k + 1 \notin s \ {Max(s)} BY <3>2
          <5>2. h[s \ {Max(s)}] = g[s \ {Max(s)}] BY <5>1
          <5>3. Val(h, s) = Val(g, s) BY <4>5, <5>2
          <5> HIDE DEF h, Val, Good
          <5> QED BY <4>2, <4>3, <5>3
        <4> QED BY <4>4, <4>5
      <3> QED BY <3>1, <3>2
    <2>3. Good(h, k + 1) BY <2>2
    <2> HIDE DEF h, Val, Good
    <2> QED BY <2>3
  <1>4. Len(t) \in S BY <1>1, <1>2, <1>3, SetInduction
  <1> DEFINE g == CHOOSE g : g = [s \in SUBSET (DOMAIN t) |-> Val(g, s)]
             f == [i \in 0..Len(t) |-> g[1..i]]
  <1>5. Good(g, Len(t)) BY <1>1, <1>4
  <1>6. HexValue(t) = g[DOMAIN t] BY DEF HexValue, FoldLeft, MapThenFoldSet
  <1> HIDE DEF g
  <1>7. f[Len(t)] = HexValue(t) BY <1>1, <1>6
  <1>8. f[0] = 0
    <2>1. 1..0 = {} /\ 1..0 \in SUBSET (1..Len(t)) OBVIOUS
    <2> QED BY <1>1, <1>5, <2>1
  <1>9. ASSUME NEW i \in 1..Len(t) PROVE f[i] = 16 * f[i - 1] + Digit[t[i]]
    <2>1. 1..i \in SUBSET (1..Len(t)) /\ i \in 1..i /\ i \in Nat BY <1>1
    <2>2. Max(1..i) = i BY <2>1, MaxUpTo
    <2>3. (1..i) \ {i} = 1..(i - 1) BY <2>1
    <2>4. g[1..i] = Val(g, 1..i) BY <1>5, <2>1
    <2>5. Val(g, 1..i) = 16 * g[1..(i - 1)] + Digit[t[i]] BY <2>1, <2>2, <2>3
    <2>6. i - 1 \in 0..Len(t) /\ i \in 0..Len(t) BY <1>1
    <2>7. f[i] = g[1..i] /\ f[i - 1] = g[1..(i - 1)] BY <2>6
    <2> QED BY <2>4, <2>5, <2>7
  <1> HIDE DEF f
  <1> QED BY <1>7, <1>8, <1>9

(* parse_size_line: a size is at most MaxChunk, or the line is refused.      *)
LEMMA SizeFacts ==
    ASSUME NEW s \in Bytes
    PROVE  SizeOf(s) \in Nat
  <1> DEFINE t == Trim(UpToSemicolon(s))
  <1>1. t \in Bytes BY TrimFacts, UpToSemicolonFacts
  <1>2. BadSize \in Nat BY DecoderAssumption DEF BadSize
  <1>3. CASE Len(s) <= MaxLine /\ Len(t) \in 1..MaxHexDigits /\ Range(t) \subseteq DOMAIN Digit
    <2>1. SizeOf(s) = Min({BadSize, HexValue(t)}) BY <1>3 DEF SizeOf
    <2> HIDE DEF t
    <2>2. HexValue(t) \in Nat
      <3>1. PICK f : /\ f[0] = 0 /\ HexValue(t) = f[Len(t)]
                     /\ \A i \in 1..Len(t) : f[i] = 16 * f[i - 1] + Digit[t[i]]
        BY <1>1, HexValueSteps
      <3> DEFINE S == {i \in Nat : i <= Len(t) => f[i] \in Nat}
      <3>2. Len(t) \in Nat /\ DOMAIN t = 1..Len(t) BY <1>1 DEF Bytes
      <3>3. \A i \in 1..Len(t) : Digit[t[i]] \in Nat
        <4>1. \A i \in 1..Len(t) : t[i] \in {"D0", "D1", "D2"} BY <1>3, <3>2 DEF Range, Digit
        <4> QED BY <4>1 DEF Digit
      <3>4. 0 \in S BY <3>1
      <3>5. ASSUME NEW n \in Nat, n \in S PROVE n + 1 \in S
        <4> SUFFICES ASSUME n + 1 <= Len(t) PROVE f[n + 1] \in Nat
          OBVIOUS
        <4>1. n + 1 \in 1..Len(t) /\ (n + 1) - 1 = n /\ n <= Len(t) BY <3>2
        <4>2. f[n + 1] = 16 * f[n] + Digit[t[n + 1]] BY <3>1, <4>1
        <4>3. f[n] \in Nat /\ Digit[t[n + 1]] \in Nat BY <3>3, <3>5, <4>1
        <4> QED BY <4>2, <4>3
      <3>6. Len(t) \in S BY <3>2, <3>4, <3>5, SetInduction
      <3> QED BY <3>1, <3>2, <3>6
    <2>3. {BadSize, HexValue(t)} \subseteq Nat BY <1>2, <2>2
    <2>4. Min({BadSize, HexValue(t)}) \in {BadSize, HexValue(t)} BY <2>3, MinIsLeast
    <2> QED BY <2>1, <2>3, <2>4
  <1>4. CASE ~ (Len(s) <= MaxLine /\ Len(t) \in 1..MaxHexDigits /\ Range(t) \subseteq DOMAIN Digit)
    <2>1. SizeOf(s) = BadSize BY <1>4 DEF SizeOf
    <2> QED BY <1>2, <2>1
  <1> QED BY <1>3, <1>4

-----------------------------------------------------------------------------
(* The chunked decoder *)

DecoderType == [buf : Bytes, st : {"Size", "Data", "DataLineEnd", "Trailer"}, left : Nat,
                finished : BOOLEAN, poison : BOOLEAN, trailer : Nat, out : Bytes,
                more : BOOLEAN]

(* Between two calls: no step is left half done, a chunk that was announced  *)
(* has data to come, and unless the body has ended or was refused, no more   *)
(* than a line is kept.                                                      *)
Kept(d) == Len(d.buf) <= MaxLine \/ d.poison \/ d.finished
DecoderInv(d) ==
    /\ d \in DecoderType
    /\ d.st = "Data" => d.left > 0
    /\ ~ d.more => Kept(d)

(* What one step of the loop of push does.                                   *)
Advances(d, e) ==
    /\ Len(e.buf) + Len(e.out) <= Len(d.buf) + Len(d.out)
    /\ e.more => Len(e.buf) < Len(d.buf)

(* Moving n bytes from a buffer to the output shortens one by what it adds  *)
(* to the other.                                                            *)
LEMMA Lengths ==
    ASSUME NEW p \in Nat, NEW q \in Nat, NEW n \in 1..p, NEW x, NEW y, x = p - n, y = q + n
    PROVE  x < p /\ x + y <= p + q
  OBVIOUS

(* Two decreases in a row are a decrease.                                   *)
LEMMA ShorterLengths ==
    ASSUME NEW b \in Nat, NEW o \in Nat, NEW n \in Nat, NEW x \in Nat, NEW y \in Nat,
           n < b, x + y <= n + o
    PROVE  x + y <= b + o /\ (x < n => x < b)
  OBVIOUS

(* poison: the decoder stops, and its output is discarded.                  *)
LEMMA PoisonFacts ==
    ASSUME NEW d \in DecoderType, d.st = "Data" => d.left > 0
    PROVE  DecoderInv(Poison(d)) /\ Advances(d, Poison(d))
  <1> DEFINE e == Poison(d)
  <1>1. e \in DecoderType BY EmptyBytes DEF Poison, DecoderType
  <1>2. e.buf = d.buf /\ e.out = <<>> /\ e.poison = TRUE /\ e.more = FALSE /\ e.st = d.st /\ e.left = d.left
    BY DEF Poison, DecoderType
  <1>3. Len(e.out) = 0 /\ Len(d.out) \in Nat /\ Len(d.buf) \in Nat BY <1>2 DEF DecoderType, Bytes
  <1> HIDE DEF e
  <1>4. DecoderInv(e) BY <1>1, <1>2 DEF DecoderInv, Kept
  <1>5. Advances(d, e) BY <1>2, <1>3 DEF Advances
  <1> QED BY <1>4, <1>5 DEF e

(* A decoder that waits for more bytes keeps at most a line.                *)
LEMMA BlockedFacts ==
    ASSUME NEW d \in DecoderType, d.st = "Data" => d.left > 0, Len(d.buf) <= MaxLine
    PROVE  DecoderInv(Blocked(d)) /\ Advances(d, Blocked(d))
  <1> DEFINE e == Blocked(d)
  <1>1. e \in DecoderType BY DEF Blocked, DecoderType, Bytes
  <1>2. e.buf = d.buf /\ e.out = d.out /\ e.more = FALSE /\ e.st = d.st /\ e.left = d.left
    BY DEF Blocked, DecoderType
  <1>3. Len(d.out) \in Nat /\ Len(d.buf) \in Nat BY DEF DecoderType, Bytes
  <1> HIDE DEF e
  <1>4. DecoderInv(e) BY <1>1, <1>2 DEF DecoderInv, Kept
  <1>5. Advances(d, e) BY <1>2, <1>3 DEF Advances
  <1> QED BY <1>4, <1>5 DEF e

(* A size line is consumed, and a chunk that is opened has data to come.    *)
LEMMA SizeLineFacts ==
    ASSUME NEW d \in DecoderType, d.more, d.st = "Size"
    PROVE  DecoderInv(SizeLine(d)) /\ Advances(d, SizeLine(d))
  <1> DEFINE size == SizeOf(Line(d.buf))
             e == SizeLine(d)
  <1>1. d.buf \in Bytes /\ Len(d.buf) \in Nat /\ Len(d.out) \in Nat /\ MaxLine \in Nat
    BY DecoderAssumption DEF DecoderType, Bytes
  <1>2. CASE ~ HasLine(d.buf)
    <2>1. CASE Len(d.buf) > MaxLine BY <1>2, <2>1, PoisonFacts DEF SizeLine, NoLineYet
    <2>2. CASE ~ (Len(d.buf) > MaxLine)
      <3>1. Len(d.buf) <= MaxLine BY <1>1, <2>2
      <3> QED BY <1>2, <2>2, <3>1, BlockedFacts DEF SizeLine, NoLineYet
    <2> QED BY <2>1, <2>2
  <1>3. CASE HasLine(d.buf) /\ size = BadSize
    BY <1>3, PoisonFacts DEF SizeLine
  <1>4. CASE HasLine(d.buf) /\ size # BadSize
    <2>1. /\ Line(d.buf) \in Bytes /\ AfterLine(d.buf) \in Bytes
          /\ Len(Line(d.buf)) + Len(AfterLine(d.buf)) < Len(d.buf)
      BY <1>1, <1>4, LineFacts
    <2>2. size \in Nat BY <2>1, SizeFacts
    <2>3. e = [d EXCEPT !.buf = AfterLine(d.buf), !.left = size,
                        !.st = IF size = 0 THEN "Trailer" ELSE "Data"]
      BY <1>4 DEF SizeLine
    <2> HIDE DEF size, e
    <2>4. e \in DecoderType BY <2>1, <2>2, <2>3 DEF DecoderType
    <2>5. /\ e.buf = AfterLine(d.buf) /\ e.left = size /\ e.out = d.out /\ e.more = d.more
          /\ e.st = IF size = 0 THEN "Trailer" ELSE "Data"
      BY <2>3 DEF DecoderType
    <2>6. Len(AfterLine(d.buf)) \in Nat /\ Len(Line(d.buf)) \in Nat BY <2>1 DEF Bytes
    <2>7. Len(e.buf) < Len(d.buf) BY <1>1, <2>1, <2>5, <2>6
    <2>8. e.st = "Data" => e.left > 0 BY <2>2, <2>5
    <2>9. DecoderInv(e) BY <2>4, <2>5, <2>8 DEF DecoderInv
    <2>10. Advances(d, e) BY <1>1, <2>5, <2>6, <2>7 DEF Advances
    <2> QED BY <2>9, <2>10 DEF e
  <1> QED BY <1>2, <1>3, <1>4

(* Chunk data moves from the buffer to the output, at most what is left of  *)
(* the chunk.                                                               *)
LEMMA DataFacts ==
    ASSUME NEW d \in DecoderType, d.more, d.st = "Data", d.left > 0
    PROVE  DecoderInv(Data(d)) /\ Advances(d, Data(d))
  <1> DEFINE n == IF d.left < Len(d.buf) THEN d.left ELSE Len(d.buf)
             e == Data(d)
  <1>1. d.buf \in Bytes /\ Len(d.buf) \in Nat /\ d.out \in Bytes /\ Len(d.out) \in Nat /\ MaxLine \in Nat
    BY DecoderAssumption DEF DecoderType, Bytes
  <1>2. CASE d.buf = <<>>
    <2>1. Len(d.buf) <= MaxLine BY <1>1, <1>2
    <2> QED BY <1>2, <2>1, BlockedFacts DEF Data
  <1>3. CASE d.buf # <<>>
    <2>1. n \in 1..Len(d.buf) /\ n <= d.left /\ d.left \in Nat
      BY <1>1, <1>3, EmptySeq DEF DecoderType, Bytes
    <2>2. e = [d EXCEPT !.out = d.out \o SubSeq(d.buf, 1, n), !.buf = SubSeq(d.buf, n + 1, Len(d.buf)),
                        !.left = d.left - n, !.st = IF d.left = n THEN "DataLineEnd" ELSE "Data"]
      BY <1>3 DEF Data
    <2> HIDE DEF n, e
    <2>3. SubSeq(d.buf, 1, n) \in Bytes /\ Len(SubSeq(d.buf, 1, n)) = n
      BY <1>1, <2>1, PartOfBytes
    <2>4. SubSeq(d.buf, n + 1, Len(d.buf)) \in Bytes /\ Len(SubSeq(d.buf, n + 1, Len(d.buf))) = Len(d.buf) - n
      BY <1>1, <2>1, PartOfBytes
    <2>5. /\ d.out \o SubSeq(d.buf, 1, n) \in Bytes
          /\ Len(d.out \o SubSeq(d.buf, 1, n)) = Len(d.out) + n
      BY <1>1, <2>3, ConcatProperties DEF Bytes
    <2>6. d.left - n \in Nat BY <2>1
    <2>7. e \in DecoderType BY <2>2, <2>4, <2>5, <2>6 DEF DecoderType
    <2>8. /\ e.buf = SubSeq(d.buf, n + 1, Len(d.buf)) /\ e.left = d.left - n
          /\ e.out = d.out \o SubSeq(d.buf, 1, n) /\ e.more = d.more
          /\ e.st = IF d.left = n THEN "DataLineEnd" ELSE "Data"
      BY <2>2 DEF DecoderType
    <2>9. e.st = "Data" => e.left > 0 BY <2>1, <2>8
    <2>10. DecoderInv(e) BY <2>7, <2>8, <2>9 DEF DecoderInv
    <2>11. Len(e.buf) = Len(d.buf) - n /\ Len(e.out) = Len(d.out) + n BY <2>4, <2>5, <2>8
    <2>12. Advances(d, e) BY <1>1, <2>1, <2>11, Lengths DEF Advances
    <2> QED BY <2>10, <2>12 DEF e
  <1> QED BY <1>2, <1>3

(* Dropping a symbol or two and going back to the size line.                 *)
LEMMA LineEndFacts ==
    ASSUME NEW d \in DecoderType, d.more, NEW b \in Bytes, Len(b) < Len(d.buf),
           NEW e, e = [d EXCEPT !.buf = b, !.st = "Size"]
    PROVE  DecoderInv(e) /\ Advances(d, e)
  <1>1. e \in DecoderType BY DEF DecoderType
  <1>2. e.buf = b /\ e.st = "Size" /\ e.out = d.out /\ e.more = d.more BY DEF DecoderType
  <1>3. Len(b) \in Nat /\ Len(d.buf) \in Nat /\ Len(d.out) \in Nat BY DEF DecoderType, Bytes
  <1>4. DecoderInv(e) BY <1>1, <1>2 DEF DecoderInv
  <1>5. Len(e.buf) = Len(b) /\ Len(e.out) = Len(d.out) BY <1>2
  <1>6. Len(b) < Len(d.buf) OBVIOUS
  <1>8. Len(e.buf) + Len(e.out) <= Len(d.buf) + Len(d.out) BY ONLY <1>3, <1>5, <1>6
  <1>7. Advances(d, e) BY <1>5, <1>6, <1>8 DEF Advances
  <1> QED BY <1>4, <1>7

(* The line end after a chunk is consumed, or waited for.                   *)
LEMMA DataLineEndFacts ==
    ASSUME NEW d \in DecoderType, d.more, d.st = "DataLineEnd"
    PROVE  DecoderInv(DataLineEnd(d)) /\ Advances(d, DataLineEnd(d))
  <1>1. d.buf \in Bytes /\ Len(d.buf) \in Nat /\ MaxLine \in Nat \ {0}
    BY DecoderAssumption DEF DecoderType, Bytes
  <1>2. CASE d.buf = <<>> \/ d.buf = <<CR>>
    <2>1. Len(d.buf) <= 1 BY <1>2, NoneOrCR
    <2>2. Len(d.buf) <= MaxLine BY ONLY <1>1, <2>1
    <2> QED BY <1>2, <2>2, BlockedFacts DEF DataLineEnd
  <1>3. CASE d.buf # <<>> /\ d.buf # <<CR>>
    <2>1. Tail(d.buf) \in Bytes /\ Len(Tail(d.buf)) = Len(d.buf) - 1
      BY <1>1, <1>3, HeadTailProperties DEF Bytes
    <2>2. CASE d.buf[1] = LF
      <3>1. DataLineEnd(d) = [d EXCEPT !.buf = Tail(d.buf), !.st = "Size"]
        BY <1>3, <2>2 DEF DataLineEnd
      <3>2. Len(Tail(d.buf)) < Len(d.buf) BY <1>1, <2>1
      <3> QED BY <2>1, <3>1, <3>2, LineEndFacts
    <2>3. CASE d.buf[1] # LF /\ (d.buf[1] # CR \/ d.buf[2] # LF)
      BY <1>3, <2>3, PoisonFacts DEF DataLineEnd
    <2>4. CASE d.buf[1] # LF /\ ~ (d.buf[1] # CR \/ d.buf[2] # LF)
      <3>1. DataLineEnd(d) = [d EXCEPT !.buf = Tail(Tail(d.buf)), !.st = "Size"]
        BY <1>3, <2>4 DEF DataLineEnd
      <3>2. Tail(d.buf) # <<>>
        <4>1. SUFFICES ASSUME Tail(d.buf) = <<>> PROVE FALSE
          OBVIOUS
        <4>2. Len(Tail(d.buf)) = 0 BY <4>1, EmptyBytes
        <4>3. Len(d.buf) = 1 BY <1>1, <2>1, <4>2
        <4>4. d.buf = <<CR>> BY <1>1, <2>4, <4>3, LoneCR
        <4> QED BY <1>3, <4>4
      <3>3. Tail(Tail(d.buf)) \in Bytes /\ Len(Tail(Tail(d.buf))) = Len(Tail(d.buf)) - 1
        BY <2>1, <3>2, HeadTailProperties DEF Bytes
      <3>4. Len(Tail(Tail(d.buf))) < Len(d.buf) BY <1>1, <2>1, <3>3
      <3> QED BY <3>1, <3>3, <3>4, LineEndFacts
    <2> QED BY <2>2, <2>3, <2>4
  <1> QED BY <1>2, <1>3

(* A trailer line is consumed, or the decoder is finished.                  *)
LEMMA TrailerFacts ==
    ASSUME NEW d \in DecoderType, d.more, d.st = "Trailer"
    PROVE  DecoderInv(Trailer(d)) /\ Advances(d, Trailer(d))
  <1> DEFINE line == Line(d.buf)
             n == [d EXCEPT !.buf = AfterLine(@), !.trailer = @ + Len(line)]
             e == Trailer(d)
  <1>1. d.buf \in Bytes /\ Len(d.buf) \in Nat /\ Len(d.out) \in Nat /\ MaxLine \in Nat
    BY DecoderAssumption DEF DecoderType, Bytes
  <1>2. CASE ~ HasLine(d.buf)
    <2>1. CASE Len(d.buf) > MaxLine BY <1>2, <2>1, PoisonFacts DEF Trailer, NoLineYet
    <2>2. CASE ~ (Len(d.buf) > MaxLine)
      <3>1. Len(d.buf) <= MaxLine BY <1>1, <2>2
      <3> QED BY <1>2, <2>2, <3>1, BlockedFacts DEF Trailer, NoLineYet
    <2> QED BY <2>1, <2>2
  <1>3. CASE HasLine(d.buf)
    <2>1. /\ line \in Bytes /\ AfterLine(d.buf) \in Bytes
          /\ Len(line) + Len(AfterLine(d.buf)) < Len(d.buf)
      BY <1>1, <1>3, LineFacts
    <2>2. n = [d EXCEPT !.buf = AfterLine(d.buf), !.trailer = d.trailer + Len(line)]
      OBVIOUS
    <2>3. /\ e = Poison(n) \/ e = [n EXCEPT !.finished = TRUE, !.more = FALSE] \/ e = n
      BY <1>3 DEF Trailer
    <2> HIDE DEF line, n, e
    <2>4. Len(AfterLine(d.buf)) \in Nat /\ Len(line) \in Nat BY <2>1 DEF Bytes
    <2>5. n \in DecoderType
      <3>1. d.trailer + Len(line) \in Nat BY <2>4 DEF DecoderType
      <3> QED BY <2>1, <2>2, <3>1 DEF DecoderType
    <2>6. n.buf = AfterLine(d.buf) /\ n.out = d.out /\ n.more = d.more /\ n.st = d.st
      BY <2>2 DEF DecoderType
    <2>7. Len(n.buf) < Len(d.buf) /\ Len(n.buf) \in Nat BY <1>1, <2>1, <2>4, <2>6
    <2>8. CASE e = Poison(n)
      <3>1. DecoderInv(e) /\ Advances(n, e) BY <2>5, <2>6, <2>8, PoisonFacts
      <3>2. e \in DecoderType /\ Len(e.buf) \in Nat /\ Len(e.out) \in Nat BY <3>1 DEF DecoderInv, DecoderType, Bytes
      <3>3. Len(e.buf) + Len(e.out) <= Len(n.buf) + Len(d.out) /\ (e.more => Len(e.buf) < Len(n.buf))
        BY <2>6, <3>1 DEF Advances
      <3>4. /\ Len(e.buf) + Len(e.out) <= Len(d.buf) + Len(d.out)
            /\ Len(e.buf) < Len(n.buf) => Len(e.buf) < Len(d.buf)
        BY <1>1, <2>7, <3>2, <3>3, ShorterLengths
      <3>5. Advances(d, e) BY <3>3, <3>4 DEF Advances
      <3> QED BY <3>1, <3>5 DEF e
    <2>9. CASE e = [n EXCEPT !.finished = TRUE, !.more = FALSE]
      <3>1. e \in DecoderType BY <2>5, <2>9 DEF DecoderType
      <3>2. e.buf = n.buf /\ e.out = n.out /\ e.more = FALSE /\ e.finished = TRUE /\ e.st = n.st
        BY <2>5, <2>9 DEF DecoderType
      <3>3. DecoderInv(e) BY <2>6, <3>1, <3>2 DEF DecoderInv, Kept
      <3>4. Advances(d, e) BY <1>1, <2>6, <2>7, <3>2 DEF Advances
      <3> QED BY <3>3, <3>4 DEF e
    <2>10. CASE e = n
      <3>1. DecoderInv(e) BY <2>5, <2>6, <2>10 DEF DecoderInv
      <3>2. Len(e.buf) + Len(e.out) <= Len(d.buf) + Len(d.out) 
        <4>1. Len(e.buf) = Len(n.buf) /\ Len(e.out) = Len(d.out) BY <2>6, <2>10
        <4>2. Len(n.buf) + Len(d.out) <= Len(n.buf) + Len(d.out) BY <1>1, <2>7
        <4> QED BY <1>1, <2>7, <4>1, <4>2, ShorterLengths
      <3>3. Advances(d, e) BY <2>7, <2>10, <3>2 DEF Advances
      <3> QED BY <3>1, <3>3 DEF e
    <2> QED BY <2>3, <2>8, <2>9, <2>10
  <1> QED BY <1>2, <1>3

(* One step of push keeps the decoder well formed, loses nothing it has not  *)
(* used, and consumes a symbol unless it is the last.                        *)
LEMMA DecodeStepFacts ==
    ASSUME NEW d, DecoderInv(d), d.more
    PROVE  DecoderInv(DecodeStep(d)) /\ Advances(d, DecodeStep(d))
  <1>1. d \in DecoderType /\ d.more = TRUE BY DEF DecoderInv, DecoderType
  <1>2. CASE d.st = "Size" BY <1>1, <1>2, SizeLineFacts DEF DecodeStep
  <1>3. CASE d.st = "Data" BY <1>1, <1>3, DataFacts DEF DecodeStep, DecoderInv
  <1>4. CASE d.st = "DataLineEnd" BY <1>1, <1>4, DataLineEndFacts DEF DecodeStep
  <1>5. CASE d.st = "Trailer" BY <1>1, <1>5, TrailerFacts DEF DecodeStep
  <1> QED BY <1>1, <1>2, <1>3, <1>4, <1>5 DEF DecoderType

(* N steps of push, which follow one another.                                *)
DecoderAfter(d, N) == Iterate(DecodeStep, d, N)

(* The loop of ChunkedDecoder::push, unrolled: the decoders after 0 to N    *)
(* turns.                                                                   *)
LEMMA DecodeSteps ==
    ASSUME NEW d, NEW N \in Nat
    PROVE  \E f : /\ f[0] = d /\ f[N] = DecoderAfter(d, N)
                  /\ \A i \in 1..N : f[i] = DecodeStep(f[i - 1])
  <1> DEFINE Good(g, k) == g = [i \in 0..k |-> IF i = 0 THEN d ELSE DecodeStep(g[i - 1])]
             S == {k \in Nat : \E g : Good(g, k)}
  <1>1. 0 \in S
    <2> DEFINE g == [i \in 0..0 |-> d]
    <2>1. Good(g, 0) OBVIOUS
    <2> QED BY <2>1
  <1>2. ASSUME NEW n \in Nat, n \in S PROVE n + 1 \in S
    <2>1. PICK g : Good(g, n) BY <1>2
    <2> DEFINE h == [i \in 0..(n + 1) |-> IF i = n + 1 THEN DecodeStep(g[n]) ELSE g[i]]
    <2>2. ASSUME NEW i \in 0..(n + 1)
          PROVE  h[i] = IF i = 0 THEN d ELSE DecodeStep(h[i - 1])
      <3>1. CASE i = n + 1 BY <3>1
      <3>2. CASE i # n + 1
        <4>1. i \in 0..n BY <3>2
        <4>2. g[i] = IF i = 0 THEN d ELSE DecodeStep(g[i - 1]) BY <2>1, <4>1
        <4>3. h[i] = g[i] BY <3>2
        <4>4. CASE i = 0 BY <4>2, <4>3, <4>4
        <4>5. CASE i # 0
          <5>1. i - 1 \in 0..(n + 1) /\ i - 1 # n + 1 BY <4>1, <4>5
          <5>2. h[i - 1] = g[i - 1] BY <5>1
          <5> QED BY <4>2, <4>3, <4>5, <5>2
        <4> QED BY <4>4, <4>5
      <3> QED BY <3>1, <3>2
    <2>3. Good(h, n + 1) BY <2>2
    <2> HIDE DEF h
    <2> QED BY <2>3
  <1>3. N \in S BY <1>1, <1>2, SetInduction
  <1> DEFINE f == CHOOSE f : Good(f, N)
  <1>4. Good(f, N) BY <1>3
  <1>5. DecoderAfter(d, N) = f[N] BY DEF DecoderAfter, Iterate
  <1> HIDE DEF f
  <1>6. f[0] = d BY <1>4
  <1>7. \A i \in 1..N : f[i] = DecodeStep(f[i - 1]) BY <1>4
  <1> QED BY <1>5, <1>6, <1>7

(* The decoder after i steps on what were L symbols.                         *)
DecodeRound(d, i, L) ==
    /\ DecoderInv(d)
    /\ Len(d.buf) + Len(d.out) <= L
    /\ d.more => Len(d.buf) + i <= L

(* One more turn of the loop of ChunkedDecoder::push.                       *)
LEMMA DecodeRoundStep ==
    ASSUME NEW d, NEW i \in Nat, NEW L \in Nat, DecodeRound(d, i, L)
    PROVE  DecodeRound(DecodeStep(d), i + 1, L)
  <1> DEFINE e == DecodeStep(d)
  <1>1. CASE d.more
    <2>1. DecoderInv(e) /\ Advances(d, e) BY <1>1, DecodeStepFacts DEF DecodeRound
    <2> HIDE DEF e
    <2> DEFINE p == Len(d.buf)
               q == Len(d.out)
               x == Len(e.buf)
               y == Len(e.out)
    <2>2. p \in Nat /\ q \in Nat /\ x \in Nat /\ y \in Nat
      BY <2>1 DEF DecodeRound, DecoderInv, DecoderType, Bytes
    <2>3. p + q <= L /\ p + i <= L BY <1>1 DEF DecodeRound
    <2>4. x + y <= p + q /\ (e.more => x < p) BY <2>1 DEF Advances
    <2> HIDE DEF p, q, x, y
    <2>5. x + y <= L /\ (x < p => x + (i + 1) <= L) BY <2>2, <2>3, <2>4
    <2> QED BY <2>1, <2>4, <2>5 DEF DecodeRound, e, x, y
  <1>2. CASE ~ d.more BY <1>2 DEF DecodeRound, DecodeStep
  <1> QED BY <1>1, <1>2

(* push of the decoder returns when it can do no more, with no more than a   *)
(* line left unless the body has ended, and it makes no symbols of its own.  *)
LEMMA DecodeFacts ==
    ASSUME NEW d, DecoderInv(d), ~ d.more, NEW bytes \in Bytes
    PROVE  /\ DecoderInv(Decode(d, bytes))
           /\ ~ Decode(d, bytes).more
           /\ Len(Decode(d, bytes).buf) + Len(Decode(d, bytes).out) <= Len(d.buf) + Len(bytes)
  <1> DEFINE e == Decode(d, bytes)
             n == [d EXCEPT !.buf = @ \o bytes, !.out = <<>>, !.more = TRUE]
  <1>1. d \in DecoderType /\ d.buf \in Bytes /\ Len(d.buf) \in Nat /\ Len(bytes) \in Nat
    BY DEF DecoderInv, DecoderType, Bytes
  <1>2. CASE d.poison \/ d.finished
    <2>1. e = [d EXCEPT !.out = <<>>] BY <1>2 DEF Decode
    <2> HIDE DEF e
    <2>2. e \in DecoderType BY <1>1, <2>1, EmptyBytes DEF DecoderType
    <2>3. /\ e.buf = d.buf /\ e.out = <<>> /\ e.st = d.st /\ e.left = d.left /\ e.more = d.more
          /\ e.poison = d.poison /\ e.finished = d.finished
      BY <1>1, <2>1 DEF DecoderType
    <2>4. DecoderInv(e) BY <2>2, <2>3, <1>2 DEF DecoderInv, Kept
    <2>5. Len(e.buf) = Len(d.buf) /\ Len(e.out) = 0 BY <2>3, EmptyBytes
    <2>6. Len(e.buf) + Len(e.out) <= Len(d.buf) + Len(bytes) BY ONLY <1>1, <2>5
    <2> QED BY <2>3, <2>4, <2>6 DEF e
  <1>3. CASE ~ (d.poison \/ d.finished)
    <2> DEFINE L == Len(n.buf)
    <2>1. e = DecoderAfter(n, L + 1) BY <1>3 DEF Decode, DecoderAfter
    <2>2. d.buf \o bytes \in Bytes /\ Len(d.buf \o bytes) = Len(d.buf) + Len(bytes)
      BY <1>1, ConcatProperties DEF Bytes
    <2>3. n = [d EXCEPT !.buf = d.buf \o bytes, !.out = <<>>, !.more = TRUE] OBVIOUS
    <2> HIDE DEF n, e
    <2>4. n \in DecoderType BY <1>1, <2>2, <2>3, EmptyBytes DEF DecoderType
    <2>5. n.buf = d.buf \o bytes /\ n.out = <<>> /\ n.more = TRUE /\ n.st = d.st /\ n.left = d.left
      BY <1>1, <2>3 DEF DecoderType
    <2>6. DecoderInv(n) BY <2>4, <2>5 DEF DecoderInv
    <2>7. L = Len(d.buf) + Len(bytes) /\ Len(n.out) = 0 BY <2>2, <2>5, EmptyBytes
    <2>8. L \in Nat /\ L + 1 \in Nat BY <1>1, <2>7
    <2> HIDE DEF L
    <2>9. PICK f : /\ f[0] = n /\ f[L + 1] = e
                   /\ \A i \in 1..(L + 1) : f[i] = DecodeStep(f[i - 1])
      <3>1. \A N \in Nat : \E f : /\ f[0] = n /\ f[N] = DecoderAfter(n, N)
                                   /\ \A i \in 1..N : f[i] = DecodeStep(f[i - 1])
        BY DecodeSteps
      <3> QED BY <2>1, <2>8, <3>1
    <2> DEFINE S == {i \in Nat : i <= L + 1 => DecodeRound(f[i], i, L)}
    <2>10. 0 \in S
      <3>1. Len(n.buf) + Len(n.out) <= L /\ Len(n.buf) + 0 <= L BY <2>7, <2>8 DEF L
      <3>2. DecodeRound(n, 0, L) BY <2>6, <3>1 DEF DecodeRound
      <3> QED BY <2>9, <3>2
    <2>11. ASSUME NEW i \in Nat, i \in S PROVE i + 1 \in S
      <3>1. SUFFICES ASSUME i + 1 <= L + 1 PROVE DecodeRound(f[i + 1], i + 1, L)
        OBVIOUS
      <3>2. i <= L + 1 /\ i + 1 \in 1..(L + 1) /\ (i + 1) - 1 = i BY <2>8, <3>1
      <3>3. DecodeRound(f[i], i, L) BY <2>11, <3>2
      <3>4. f[i + 1] = DecodeStep(f[i]) BY <2>9, <3>2
      <3> QED BY <2>8, <3>3, <3>4, DecodeRoundStep
    <2>12. Nat \subseteq S BY <2>10, <2>11, SetInduction
    <2>13. DecodeRound(e, L + 1, L)
      <3>1. L + 1 \in S /\ L + 1 <= L + 1 BY <2>8, <2>12
      <3> QED BY <2>9, <3>1
    <2>14. Len(e.buf) \in Nat BY <2>13 DEF DecodeRound, DecoderInv, DecoderType, Bytes
    <2>15. ~ e.more
      <3>1. \A x \in Nat : ~ (x + (L + 1) <= L) BY <2>8
      <3> QED BY <2>13, <2>14, <3>1 DEF DecodeRound
    <2>16. DecoderInv(e) /\ Len(e.buf) + Len(e.out) <= L BY <2>13 DEF DecodeRound
    <2> QED BY <2>7, <2>15, <2>16 DEF e
  <1> QED BY <1>2, <1>3

(* Returning the output changes nothing else.                                *)
LEMMA TakenFacts ==
    ASSUME NEW d, DecoderInv(d), ~ d.more
    PROVE  /\ DecoderInv(Taken(d)) /\ ~ Taken(d).more /\ Taken(d).buf = d.buf
           /\ Taken(d).poison = d.poison /\ Taken(d).finished = d.finished
  <1> DEFINE e == Taken(d)
  <1>1. d \in DecoderType /\ e = [d EXCEPT !.out = <<>>] BY DEF DecoderInv, Taken
  <1> HIDE DEF e
  <1>2. e \in DecoderType BY <1>1, EmptyBytes DEF DecoderType
  <1>3. /\ e.buf = d.buf /\ e.st = d.st /\ e.left = d.left /\ e.more = d.more
        /\ e.poison = d.poison /\ e.finished = d.finished
    BY <1>1 DEF DecoderType
  <1>4. DecoderInv(e) BY <1>2, <1>3 DEF DecoderInv, Kept
  <1> QED BY <1>3, <1>4 DEF e

-----------------------------------------------------------------------------
(* The machine *)

(* The events, and those with which the machine closes.                      *)
Ends == {"StreamEnded", "StreamCorrupted", "Rejected", "Sourcetable"}
Details == BOOLEAN \cup Bytes \cup Seq(Bytes)
Events == ({"Payload"} \X Bytes) \cup (({"Connected"} \cup Ends) \X Details)

MachineType ==
    [st : States, carry : Bytes, headers : Seq(Bytes), hbytes : Nat,
     http : {"none", "HTTP200", "HTTP404"}, chunked : BOOLEAN, icyBlank : BOOLEAN,
     tchunked : BOOLEAN, dec : DecoderType, text : Seq(Bytes), tcarry : Bytes,
     started : BOOLEAN, lastGga : Int, ev : Seq(Events), go : BOOLEAN]

MachineOK(m) == m \in MachineType /\ DecoderInv(m.dec) /\ ~ m.dec.more

(* What is left to do bounds the rounds of push.                             *)
Rank(st) == IF st = "Idle" THEN 2 ELSE IF st = "Closed" THEN 0 ELSE 1
Measure(m) == Len(m.carry) + Len(m.tcarry) + Len(m.dec.buf) + Rank(m.st)

(* What an open machine keeps.  A decoder that met the end of a table is     *)
(* kept only while the lines of the table are still read.                    *)
Tight(m) ==
    m.st # "Closed" =>
        /\ m.hbytes <= MaxHeaders
        /\ TextLen(m.text) <= MaxTable
        /\ m.tchunked => m.st = "Sourcetable"
        /\ ~ m.tchunked => m.tcarry = <<>>
        /\ ~ m.dec.poison
        /\ m.dec.finished => m.tchunked /\ m.go
        /\ ~ m.go => Len(m.carry) <= MaxLine /\ Len(m.tcarry) <= MaxLine

(* The events of a round and the state it leads to.                          *)
Quiet(m, n) ==
    /\ n.ev = m.ev
    /\ n.st = "Closed" => m.st = "Closed"
    /\ n.st = "Streaming" => m.st = "Streaming"
Connects(m, n) ==
    /\ \E x : n.ev = Append(m.ev, <<"Connected", x>>) /\ <<"Connected", x>> \in Events
    /\ n.st = "Streaming"
Delivers(m, n) ==
    /\ \E x : n.ev = Append(m.ev, <<"Payload", x>>) /\ <<"Payload", x>> \in Events
    /\ m.st = "Streaming" /\ n.st = "Streaming"
Closes(m, n) ==
    /\ \E k \in Ends : \E x : n.ev = Append(m.ev, <<k, x>>) /\ <<k, x>> \in Events
    /\ n.st = "Closed"
DeliversLast(m, n) ==
    /\ \E x : /\ n.ev = Append(Append(m.ev, <<"Payload", x>>), <<"StreamEnded", <<>> >>)
              /\ <<"Payload", x>> \in Events /\ <<"StreamEnded", <<>> >> \in Events
    /\ m.st = "Streaming" /\ n.st = "Closed"
Emits(m, n) ==
    Quiet(m, n) \/ Connects(m, n) \/ Delivers(m, n) \/ Closes(m, n) \/ DeliversLast(m, n)

(* What a round may do.                                                      *)
RoundOK(m, n) ==
    /\ MachineOK(n)
    /\ n.go => Measure(n) < Measure(m)
    /\ Emits(m, n)
    /\ Tight(m) => Tight(n)

(* The buffers are sequences, so the measure is a number.                    *)
LEMMA BufferFacts ==
    ASSUME NEW m, MachineOK(m)
    PROVE  /\ m.carry \in Bytes /\ Len(m.carry) \in Nat
           /\ m.tcarry \in Bytes /\ Len(m.tcarry) \in Nat
           /\ m.dec \in DecoderType /\ m.dec.buf \in Bytes /\ Len(m.dec.buf) \in Nat
           /\ Rank(m.st) \in 0..2
  BY DEF MachineOK, MachineType, DecoderType, Bytes, Rank

(* An event is appended to those of the call.                                *)
LEMMA EmitFacts ==
    ASSUME NEW m, MachineOK(m), NEW k, NEW x, <<k, x>> \in Events
    PROVE  LET n == Emit(m, k, x)
           IN  /\ MachineOK(n)
               /\ n.ev = Append(m.ev, <<k, x>>)
               /\ n.st = m.st /\ n.carry = m.carry /\ n.tcarry = m.tcarry /\ n.dec = m.dec
               /\ n.go = m.go /\ n.hbytes = m.hbytes /\ n.text = m.text
               /\ n.tchunked = m.tchunked
  <1> DEFINE n == Emit(m, k, x)
  <1>1. m \in MachineType BY DEF MachineOK
  <1>2. Append(m.ev, <<k, x>>) \in Seq(Events)
    BY <1>1, AppendProperties DEF MachineType
  <1>3. n = [m EXCEPT !.ev = Append(m.ev, <<k, x>>)] BY DEF Emit
  <1> HIDE DEF n
  <1>4. n \in MachineType BY <1>1, <1>2, <1>3 DEF MachineType
  <1>5. /\ n.ev = Append(m.ev, <<k, x>>)
        /\ n.st = m.st /\ n.carry = m.carry /\ n.tcarry = m.tcarry /\ n.dec = m.dec
        /\ n.go = m.go /\ n.hbytes = m.hbytes /\ n.text = m.text
        /\ n.tchunked = m.tchunked
    BY <1>1, <1>3 DEF MachineType
  <1> QED BY <1>4, <1>5 DEF n, MachineOK

(* Closing the machine.                                                      *)
LEMMA CloseFacts ==
    ASSUME NEW m, MachineOK(m), NEW k \in Ends, NEW x \in Details
    PROVE  LET n == Close(m, k, x)
           IN  /\ MachineOK(n)
               /\ n.ev = Append(m.ev, <<k, x>>) /\ <<k, x>> \in Events
               /\ n.st = "Closed" /\ n.carry = m.carry /\ n.tcarry = m.tcarry /\ n.dec = m.dec
               /\ n.go = m.go
  <1> DEFINE e == Emit(m, k, x)
             n == Close(m, k, x)
  <1>1. <<k, x>> \in Events BY DEF Events
  <1>2. /\ MachineOK(e) /\ e.ev = Append(m.ev, <<k, x>>)
        /\ e.carry = m.carry /\ e.tcarry = m.tcarry /\ e.dec = m.dec /\ e.go = m.go
    BY <1>1, EmitFacts
  <1>3. n = [e EXCEPT !.st = "Closed"] BY DEF Close
  <1> HIDE DEF e, n
  <1>4. e \in MachineType BY <1>2 DEF MachineOK
  <1>5. n \in MachineType BY <1>3, <1>4 DEF MachineType, States
  <1>6. /\ n.ev = e.ev /\ n.st = "Closed" /\ n.carry = e.carry /\ n.tcarry = e.tcarry
        /\ n.dec = e.dec /\ n.go = e.go
    BY <1>3, <1>4 DEF MachineType
  <1> QED BY <1>1, <1>2, <1>5, <1>6 DEF n, MachineOK

(* The loop of push breaks.                                                  *)
LEMMA WaitFacts ==
    ASSUME NEW m, MachineOK(m)
    PROVE  LET n == Wait(m)
           IN  /\ MachineOK(n) /\ n.go = FALSE
               /\ n.ev = m.ev /\ n.st = m.st /\ n.carry = m.carry /\ n.tcarry = m.tcarry
               /\ n.dec = m.dec /\ n.hbytes = m.hbytes /\ n.text = m.text
               /\ n.tchunked = m.tchunked
  <1> DEFINE n == Wait(m)
  <1>1. m \in MachineType BY DEF MachineOK
  <1>2. n = [m EXCEPT !.go = FALSE] BY DEF Wait
  <1> HIDE DEF n
  <1>3. n \in MachineType BY <1>1, <1>2 DEF MachineType
  <1>4. /\ n.go = FALSE
        /\ n.ev = m.ev /\ n.st = m.st /\ n.carry = m.carry /\ n.tcarry = m.tcarry
        /\ n.dec = m.dec /\ n.hbytes = m.hbytes /\ n.text = m.text
        /\ n.tchunked = m.tchunked
    BY <1>1, <1>2 DEF MachineType
  <1> QED BY <1>3, <1>4 DEF n, MachineOK

(* A round that only shortens the carry leaves no more bytes unread.        *)
LEMMA ShorterCarry ==
    ASSUME NEW m, MachineOK(m), NEW h, MachineOK(h), h.tcarry = m.tcarry, h.dec = m.dec,
           Len(h.carry) <= Len(m.carry)
    PROVE  Len(h.carry) + Len(h.tcarry) + Len(h.dec.buf)
             <= Len(m.carry) + Len(m.tcarry) + Len(m.dec.buf)
  <1>1. /\ Len(m.carry) \in Nat /\ Len(m.tcarry) \in Nat /\ Len(m.dec.buf) \in Nat
        /\ Len(h.carry) \in Nat
    BY BufferFacts
  <1>2. \A a, b, c, d \in Nat : d <= a => d + b + c <= a + b + c OBVIOUS
  <1> QED BY <1>1, <1>2

(* Closing is a round of its own: whatever was read, the machine is done.    *)
LEMMA CloseIsRound ==
    ASSUME NEW m, MachineOK(m), m.st # "Closed", NEW h, MachineOK(h), h.ev = m.ev,
           Len(h.carry) + Len(h.tcarry) + Len(h.dec.buf)
             <= Len(m.carry) + Len(m.tcarry) + Len(m.dec.buf),
           NEW k \in Ends, NEW x \in Details
    PROVE  RoundOK(m, Close(h, k, x))
  <1> DEFINE n == Close(h, k, x)
  <1>1. /\ MachineOK(n) /\ n.ev = Append(m.ev, <<k, x>>) /\ <<k, x>> \in Events
        /\ n.st = "Closed" /\ n.carry = h.carry /\ n.tcarry = h.tcarry /\ n.dec = h.dec
    BY CloseFacts
  <1> HIDE DEF n
  <1>2. Emits(m, n) BY <1>1 DEF Emits, Closes
  <1>3. Tight(n) BY <1>1 DEF Tight
  <1>4. Measure(n) < Measure(m)
    <2> DEFINE p == Len(m.carry) + Len(m.tcarry) + Len(m.dec.buf)
               q == Len(h.carry) + Len(h.tcarry) + Len(h.dec.buf)
    <2>1. p \in Nat /\ q \in Nat /\ q <= p
      <3>1. Len(m.carry) \in Nat /\ Len(m.tcarry) \in Nat /\ Len(m.dec.buf) \in Nat BY BufferFacts
      <3>2. Len(h.carry) \in Nat /\ Len(h.tcarry) \in Nat /\ Len(h.dec.buf) \in Nat BY BufferFacts
      <3>0. \A a, b, c \in Nat : a + b + c \in Nat OBVIOUS
      <3>3. p \in Nat BY <3>0, <3>1
      <3>4. q \in Nat BY <3>0, <3>2
      <3> QED BY <3>3, <3>4
    <2>2. Measure(m) = p + Rank(m.st) /\ Measure(n) = q + Rank(n.st)
      BY <1>1 DEF Measure
    <2>3. Rank(n.st) = 0 /\ Rank(m.st) \in 1..2 BY <1>1 DEF Rank
    <2> HIDE DEF p, q
    <2> QED BY <2>1, <2>2, <2>3
  <1> QED BY <1>1, <1>2, <1>3, <1>4 DEF RoundOK, n

(* A round that ends the loop without an event.                              *)
LEMMA WaitIsRound ==
    ASSUME NEW m, MachineOK(m), Tight(m) => Tight(Wait(m))
    PROVE  RoundOK(m, Wait(m))
  <1> DEFINE n == Wait(m)
  <1>1. MachineOK(n) /\ n.go = FALSE /\ n.ev = m.ev /\ n.st = m.st BY WaitFacts
  <1>2. Tight(m) => Tight(n) OBVIOUS
  <1> HIDE DEF n
  <1>3. Emits(m, n) BY <1>1 DEF Emits, Quiet
  <1> QED BY <1>1, <1>2, <1>3 DEF RoundOK, n

(* take_line_or_reject without a line: a line that is too long is rejected.  *)
LEMMA NoLineIsRound ==
    ASSUME NEW m, MachineOK(m), m.st \in {"AwaitingStatus", "AwaitingHeaders"}
    PROVE  RoundOK(m, NoLine(m))
  <1>1. Len(m.carry) \in Nat /\ MaxLine \in Nat BY BufferFacts, DecoderAssumption
  <1>2. CASE Len(m.carry) > MaxLine
    <2> DEFINE c == Reject(m)
               n == Wait(c)
    <2>1. NoLine(m) = n BY <1>2 DEF NoLine
    <2>2. "Rejected" \in Ends /\ <<>> \in Details BY EmptyBytes DEF Ends, Details
    <2>3. MachineOK(c) /\ c.ev = Append(m.ev, <<"Rejected", <<>> >>)
          /\ <<"Rejected", <<>> >> \in Events /\ c.st = "Closed"
      BY <2>2, CloseFacts DEF Reject
    <2> HIDE DEF c
    <2>4. MachineOK(n) /\ n.go = FALSE /\ n.ev = c.ev /\ n.st = c.st BY <2>3, WaitFacts
    <2> HIDE DEF n
    <2>5. Emits(m, n) BY <2>2, <2>3, <2>4 DEF Emits, Closes
    <2>6. Tight(n) BY <2>3, <2>4 DEF Tight
    <2> QED BY <2>1, <2>4, <2>5, <2>6 DEF RoundOK
  <1>3. CASE ~ (Len(m.carry) > MaxLine)
    <2> DEFINE n == Wait(m)
    <2>1. NoLine(m) = n BY <1>3 DEF NoLine
    <2>2. /\ n.go = FALSE /\ n.st = m.st /\ n.carry = m.carry /\ n.tcarry = m.tcarry
          /\ n.dec = m.dec /\ n.hbytes = m.hbytes /\ n.text = m.text
          /\ n.tchunked = m.tchunked
      BY WaitFacts
    <2>3. ASSUME Tight(m) PROVE Tight(n)
      <3>1. /\ m.hbytes <= MaxHeaders /\ TextLen(m.text) <= MaxTable /\ ~ m.tchunked
            /\ m.tcarry = <<>> /\ ~ m.dec.poison /\ ~ m.dec.finished
        BY <2>3 DEF Tight
      <3>2. Len(m.carry) <= MaxLine BY <1>1, <1>3
      <3>3. Len(m.tcarry) <= MaxLine BY <1>1, <3>1, EmptyBytes
      <3> HIDE DEF n
      <3> QED BY <2>2, <3>1, <3>2, <3>3 DEF Tight
    <2> QED BY <2>1, <2>3, WaitIsRound
  <1> QED BY <1>2, <1>3

(* A line was taken, the machine stays open and nothing is decoded.          *)
LEMMA LineIsRound ==
    ASSUME NEW m, MachineOK(m), m.st \in {"AwaitingStatus", "AwaitingHeaders"}, m.go,
           NEW n, MachineOK(n), n.st \in States \ {"Idle", "Closed"},
           Len(n.carry) < Len(m.carry), n.tcarry = m.tcarry, n.dec = m.dec, n.go = m.go,
           n.text = m.text, Emits(m, n),
           Tight(m) => n.hbytes <= MaxHeaders,
           n.tchunked = m.tchunked \/ n.st = "Sourcetable"
    PROVE  RoundOK(m, n)
  <1>1. Measure(n) < Measure(m)
    <2>1. /\ Len(m.carry) \in Nat /\ Len(m.tcarry) \in Nat /\ Len(m.dec.buf) \in Nat
          /\ Len(n.carry) \in Nat
      BY BufferFacts
    <2>2. Rank(n.st) = 1 /\ Rank(m.st) = 1 BY DEF Rank, States
    <2>3. /\ Measure(n) = Len(n.carry) + Len(m.tcarry) + Len(m.dec.buf) + 1
          /\ Measure(m) = Len(m.carry) + Len(m.tcarry) + Len(m.dec.buf) + 1
      BY <2>2 DEF Measure
    <2>4. \A a, b, c, d \in Nat : d < a => d + b + c + 1 < a + b + c + 1 OBVIOUS
    <2> QED BY <2>1, <2>3, <2>4
  <1>2. ASSUME Tight(m) PROVE Tight(n)
    <2>1. /\ n.hbytes <= MaxHeaders /\ TextLen(m.text) <= MaxTable /\ ~ m.tchunked
          /\ m.tcarry = <<>> /\ ~ m.dec.poison /\ ~ m.dec.finished
      BY <1>2 DEF Tight
    <2> QED BY <2>1 DEF Tight
  <1> QED BY <1>1, <1>2 DEF RoundOK

(* parse_status.                                                             *)
LEMMA ParseStatusIsRound ==
    ASSUME NEW m, MachineOK(m), m.st = "AwaitingStatus", m.go
    PROVE  RoundOK(m, ParseStatus(m))
  <1> DEFINE word == StatusOf(Line(m.carry))
             h == [m EXCEPT !.carry = AfterLine(@)]
  <1>1. CASE ~ HasLine(m.carry)
    <2>1. ParseStatus(m) = NoLine(m) BY <1>1 DEF ParseStatus
    <2> QED BY <2>1, NoLineIsRound
  <1>2. CASE HasLine(m.carry)
    <2>1. m \in MachineType /\ m.carry \in Bytes BY BufferFacts DEF MachineOK
    <2>2. /\ AfterLine(m.carry) \in Bytes /\ Len(AfterLine(m.carry)) < Len(m.carry)
      <3>1. /\ Line(m.carry) \in Bytes /\ AfterLine(m.carry) \in Bytes
            /\ Len(Line(m.carry)) + Len(AfterLine(m.carry)) < Len(m.carry)
        BY <1>2, <2>1, LineFacts
      <3>2. Len(Line(m.carry)) \in Nat /\ Len(AfterLine(m.carry)) \in Nat /\ Len(m.carry) \in Nat
        BY <2>1, <3>1 DEF Bytes
      <3> QED BY <3>1, <3>2
    <2>3. h = [m EXCEPT !.carry = AfterLine(m.carry)] OBVIOUS
    <2>4. CASE word = "ICY"
      <3>0. PICK b : b = FALSE /\ b \in Details BY DEF Details
      <3> DEFINE c == Emit(h, "Connected", b)
                 n == [c EXCEPT !.st = "Streaming", !.chunked = FALSE, !.icyBlank = TRUE]
      <3>1. ParseStatus(m) = n BY <1>2, <2>4, <3>0 DEF ParseStatus
      <3> HIDE DEF h, word
      <3>2. h \in MachineType BY <2>1, <2>2, <2>3 DEF MachineType
      <3>3. /\ h.carry = AfterLine(m.carry) /\ h.ev = m.ev /\ h.st = m.st /\ h.tcarry = m.tcarry
            /\ h.dec = m.dec /\ h.go = m.go /\ h.hbytes = m.hbytes /\ h.text = m.text
            /\ h.tchunked = m.tchunked
        BY <2>1, <2>3 DEF MachineType
      <3>4. MachineOK(h) BY <3>2, <3>3 DEF MachineOK
      <3>5. <<"Connected", b>> \in Events BY <3>0 DEF Events
      <3>6. /\ MachineOK(c) /\ c.ev = Append(h.ev, <<"Connected", b>>)
            /\ c.carry = h.carry /\ c.tcarry = h.tcarry /\ c.dec = h.dec
            /\ c.go = h.go /\ c.hbytes = h.hbytes /\ c.text = h.text
            /\ c.tchunked = h.tchunked
        BY <3>4, <3>5, EmitFacts
      <3> HIDE DEF c, n
      <3>7. c \in MachineType BY <3>6 DEF MachineOK
      <3>8. n \in MachineType BY <3>7 DEF n, MachineType, States
      <3>9. /\ n.st = "Streaming" /\ n.ev = c.ev
            /\ n.carry = c.carry /\ n.tcarry = c.tcarry /\ n.dec = c.dec
            /\ n.go = c.go /\ n.hbytes = c.hbytes /\ n.text = c.text
            /\ n.tchunked = c.tchunked
        BY <3>7 DEF n, MachineType
      <3>10. MachineOK(n) BY <3>3, <3>6, <3>8, <3>9 DEF MachineOK
      <3>11. Emits(m, n) BY <3>3, <3>5, <3>6, <3>9 DEF Emits, Connects
      <3>12. Tight(m) => n.hbytes <= MaxHeaders BY <3>3, <3>6, <3>9 DEF Tight
      <3>13. n.st \in States \ {"Idle", "Closed"} BY <3>9 DEF States
      <3> QED BY <2>2, <3>1, <3>3, <3>6, <3>9, <3>10, <3>11, <3>12, <3>13, LineIsRound, ZenonT(60)
    <2>5. CASE word = "SRC" \/ word \in {"HTTP200", "HTTP404"}
      <3> DEFINE n == IF word = "SRC" THEN [h EXCEPT !.st = "Sourcetable"]
                      ELSE [h EXCEPT !.st = "AwaitingHeaders", !.headers = <<>>, !.hbytes = 0,
                                     !.http = word]
      <3>1. ParseStatus(m) = n BY <1>2, <2>5 DEF ParseStatus
      <3> HIDE DEF h, word
      <3>2. h \in MachineType BY <2>1, <2>2, <2>3 DEF MachineType
      <3>3. /\ h.carry = AfterLine(m.carry) /\ h.ev = m.ev /\ h.st = m.st /\ h.tcarry = m.tcarry
            /\ h.dec = m.dec /\ h.go = m.go /\ h.hbytes = m.hbytes /\ h.text = m.text
            /\ h.tchunked = m.tchunked
        BY <2>1, <2>3 DEF MachineType
      <3>4. <<>> \in Seq(Bytes) OBVIOUS
      <3>5. n \in MachineType BY <2>5, <3>2, <3>4 DEF MachineType, States
      <3>6. /\ n.st \in {"Sourcetable", "AwaitingHeaders"} /\ n.ev = h.ev
            /\ n.carry = h.carry /\ n.tcarry = h.tcarry /\ n.dec = h.dec
            /\ n.go = h.go /\ (n.hbytes = h.hbytes \/ n.hbytes = 0) /\ n.text = h.text
            /\ n.tchunked = h.tchunked
        <4>1. CASE word = "SRC" BY <3>2, <4>1 DEF MachineType
        <4>2. CASE word # "SRC" BY <3>2, <4>2 DEF MachineType
        <4> QED BY <4>1, <4>2
      <3> HIDE DEF n
      <3>7. MachineOK(n) BY <3>3, <3>5, <3>6 DEF MachineOK
      <3>8. Emits(m, n) BY <3>3, <3>6 DEF Emits, Quiet
      <3>9. Tight(m) => n.hbytes <= MaxHeaders BY <3>3, <3>6, MachineAssumption DEF Tight
      <3>10. n.st \in States \ {"Idle", "Closed"} BY <3>6 DEF States
      <3> QED BY <2>2, <3>1, <3>3, <3>6, <3>7, <3>8, <3>9, <3>10, LineIsRound
    <2>6. CASE word \notin {"ICY", "SRC", "HTTP200", "HTTP404"}
      <3>1. ParseStatus(m) = Reject(h) BY <1>2, <2>6 DEF ParseStatus
      <3> HIDE DEF h, word
      <3>2. h \in MachineType BY <2>1, <2>2, <2>3 DEF MachineType
      <3>3. h.carry = AfterLine(m.carry) /\ h.ev = m.ev /\ h.tcarry = m.tcarry /\ h.dec = m.dec
        BY <2>1, <2>3 DEF MachineType
      <3>4. MachineOK(h) BY <3>2, <3>3 DEF MachineOK
      <3>5. Len(h.carry) + Len(h.tcarry) + Len(h.dec.buf)
              <= Len(m.carry) + Len(m.tcarry) + Len(m.dec.buf)
        <4>1. Len(h.carry) <= Len(m.carry) BY <2>2, <3>3, <3>4, BufferFacts
        <4> QED BY <3>3, <3>4, <4>1, ShorterCarry
      <3>6. "Rejected" \in Ends /\ <<>> \in Details BY EmptyBytes DEF Ends, Details
      <3> QED BY <3>1, <3>3, <3>4, <3>5, <3>6, CloseIsRound DEF Reject
    <2> QED BY <2>4, <2>5, <2>6
  <1> QED BY <1>1, <1>2

(* Taking a line off the carry.                                              *)
LEMMA TakeLineFacts ==
    ASSUME NEW m, MachineOK(m), HasLine(m.carry)
    PROVE  LET h == [m EXCEPT !.carry = AfterLine(@)]
           IN  /\ MachineOK(h) /\ Len(h.carry) < Len(m.carry)
               /\ Line(m.carry) \in Bytes
               /\ h.ev = m.ev /\ h.st = m.st /\ h.tcarry = m.tcarry
               /\ h.dec = m.dec /\ h.go = m.go /\ h.hbytes = m.hbytes /\ h.text = m.text
               /\ h.tchunked = m.tchunked
  <1> DEFINE h == [m EXCEPT !.carry = AfterLine(@)]
  <1>1. m \in MachineType /\ m.carry \in Bytes BY BufferFacts DEF MachineOK
  <1>2. /\ Line(m.carry) \in Bytes /\ AfterLine(m.carry) \in Bytes
        /\ Len(Line(m.carry)) + Len(AfterLine(m.carry)) < Len(m.carry)
    BY <1>1, LineFacts
  <1>3. Len(Line(m.carry)) \in Nat /\ Len(AfterLine(m.carry)) \in Nat /\ Len(m.carry) \in Nat
    BY <1>1, <1>2 DEF Bytes
  <1>4. Len(AfterLine(m.carry)) < Len(m.carry) BY <1>2, <1>3
  <1>5. h = [m EXCEPT !.carry = AfterLine(m.carry)] OBVIOUS
  <1> HIDE DEF h
  <1>6. h \in MachineType BY <1>1, <1>2, <1>5 DEF MachineType
  <1>7. /\ h.carry = AfterLine(m.carry) /\ h.ev = m.ev /\ h.st = m.st /\ h.tcarry = m.tcarry
        /\ h.dec = m.dec /\ h.go = m.go /\ h.hbytes = m.hbytes /\ h.text = m.text
        /\ h.tchunked = m.tchunked
    BY <1>1, <1>5 DEF MachineType
  <1> QED BY <1>2, <1>4, <1>6, <1>7 DEF MachineOK, h

(* Rejecting the response after a line was taken.                            *)
LEMMA RejectIsRound ==
    ASSUME NEW m, MachineOK(m), m.st # "Closed", NEW h, MachineOK(h), h.ev = m.ev,
           Len(h.carry) < Len(m.carry), h.tcarry = m.tcarry, h.dec = m.dec
    PROVE  RoundOK(m, Reject(h))
  <1>1. Len(h.carry) <= Len(m.carry) BY BufferFacts
  <1>2. Len(h.carry) + Len(h.tcarry) + Len(h.dec.buf)
          <= Len(m.carry) + Len(m.tcarry) + Len(m.dec.buf)
    BY <1>1, ShorterCarry
  <1>3. "Rejected" \in Ends /\ <<>> \in Details BY EmptyBytes DEF Ends, Details
  <1> QED BY <1>2, <1>3, CloseIsRound DEF Reject

(* The blank line: classify_http_response.                                   *)
LEMMA ClassifyIsRound ==
    ASSUME NEW m, MachineOK(m), m.st = "AwaitingHeaders", m.go, NEW h, MachineOK(h),
           Len(h.carry) < Len(m.carry), h.ev = m.ev, h.st = m.st, h.tcarry = m.tcarry,
           h.dec = m.dec, h.go = m.go, h.hbytes = m.hbytes, h.text = m.text,
           h.tchunked = m.tchunked
    PROVE  RoundOK(m, ClassifyHttpResponse(h))
  <1>0. PICK chunked : chunked = TransferIsChunked(h.headers) OBVIOUS
  <1>1. chunked \in BOOLEAN BY <1>0 DEF TransferIsChunked
  <1>2. h \in MachineType BY DEF MachineOK
  <1>3. CASE h.http = "HTTP200" /\ MediaType(h.headers) \in {"none", "CTdata"}
    <2> DEFINE c == Emit(h, "Connected", chunked)
               n == [c EXCEPT !.st = "Streaming", !.chunked = chunked]
    <2>1. ClassifyHttpResponse(h) = n BY <1>0, <1>3 DEF ClassifyHttpResponse
    <2>2. <<"Connected", chunked>> \in Events BY <1>1 DEF Events, Details
    <2>3. /\ MachineOK(c) /\ c.ev = Append(h.ev, <<"Connected", chunked>>)
          /\ c.carry = h.carry /\ c.tcarry = h.tcarry /\ c.dec = h.dec
          /\ c.go = h.go /\ c.hbytes = h.hbytes /\ c.text = h.text
          /\ c.tchunked = h.tchunked
      <3>1. MachineOK(h) OBVIOUS
      <3> QED BY ONLY <2>2, <3>1, EmitFacts
    <2> HIDE DEF c, n
    <2>4. c \in MachineType BY <2>3 DEF MachineOK
    <2>5. n \in MachineType BY <1>1, <2>4 DEF n, MachineType, States
    <2>6. /\ n.st = "Streaming" /\ n.ev = c.ev
          /\ n.carry = c.carry /\ n.tcarry = c.tcarry /\ n.dec = c.dec
          /\ n.go = c.go /\ n.hbytes = c.hbytes /\ n.text = c.text
          /\ n.tchunked = c.tchunked
      BY <2>4 DEF n, MachineType
    <2>7. MachineOK(n) BY <2>3, <2>5, <2>6 DEF MachineOK
    <2>8. Emits(m, n) BY <2>2, <2>3, <2>6 DEF Emits, Connects
    <2>9. Tight(m) => n.hbytes <= MaxHeaders BY <2>3, <2>6 DEF Tight
    <2>10. n.st \in States \ {"Idle", "Closed"} BY <2>6 DEF States
    <2> QED BY <2>1, <2>3, <2>6, <2>7, <2>8, <2>9, <2>10, LineIsRound, ZenonT(60)
  <1>4. CASE h.http = "HTTP200" /\ MediaType(h.headers) = "CTtable"
    <2> DEFINE n == [h EXCEPT !.st = "Sourcetable", !.tchunked = chunked, !.started = TRUE]
    <2>1. ClassifyHttpResponse(h) = n BY <1>0, <1>4 DEF ClassifyHttpResponse
    <2> HIDE DEF n
    <2>2. n \in MachineType BY <1>1, <1>2 DEF n, MachineType, States
    <2>3. /\ n.st = "Sourcetable" /\ n.ev = h.ev
          /\ n.carry = h.carry /\ n.tcarry = h.tcarry /\ n.dec = h.dec
          /\ n.go = h.go /\ n.hbytes = h.hbytes /\ n.text = h.text
      BY <1>2 DEF n, MachineType
    <2>4. MachineOK(n) BY <2>2, <2>3 DEF MachineOK
    <2>5. Emits(m, n) BY <2>3 DEF Emits, Quiet
    <2>6. Tight(m) => n.hbytes <= MaxHeaders BY <2>3 DEF Tight
    <2>7. n.st \in States \ {"Idle", "Closed"} BY <2>3 DEF States
    <2> QED BY <2>1, <2>3, <2>4, <2>5, <2>6, <2>7, LineIsRound
  <1>5. CASE ~ (h.http = "HTTP200" /\ MediaType(h.headers) \in {"none", "CTdata", "CTtable"})
    <2>1. ClassifyHttpResponse(h) = Reject(h) BY <1>5 DEF ClassifyHttpResponse
    <2> QED BY <2>1, RejectIsRound
  <1> QED BY <1>3, <1>4, <1>5

(* parse_headers.                                                            *)
LEMMA ParseHeadersIsRound ==
    ASSUME NEW m, MachineOK(m), m.st = "AwaitingHeaders", m.go
    PROVE  RoundOK(m, ParseHeaders(m))
  <1> DEFINE line == Line(m.carry)
             t == [m EXCEPT !.carry = AfterLine(@)]
             h == [t EXCEPT !.hbytes = @ + Len(line)]
  <1>1. CASE ~ HasLine(m.carry)
    <2>1. ParseHeaders(m) = NoLine(m) BY <1>1 DEF ParseHeaders
    <2> QED BY <2>1, NoLineIsRound
  <1>2. CASE HasLine(m.carry)
    <2>1. /\ MachineOK(t) /\ Len(t.carry) < Len(m.carry)
          /\ line \in Bytes
          /\ t.ev = m.ev /\ t.st = m.st /\ t.tcarry = m.tcarry
          /\ t.dec = m.dec /\ t.go = m.go /\ t.hbytes = m.hbytes /\ t.text = m.text
          /\ t.tchunked = m.tchunked
      BY <1>2, TakeLineFacts
    <2>2. CASE line = <<>>
      <3>1. ParseHeaders(m) = ClassifyHttpResponse(t) BY <1>2, <2>2 DEF ParseHeaders
      <3> HIDE DEF t, line
      <3> QED BY <2>1, <3>1, ClassifyIsRound
    <2>3. CASE line # <<>>
      <3>2. h = [t EXCEPT !.hbytes = t.hbytes + Len(line)] OBVIOUS
      <3> HIDE DEF t, line, h
      <3>3. t \in MachineType BY <2>1 DEF MachineOK
      <3>4. Len(line) \in Nat /\ t.hbytes \in Nat BY <2>1, <3>3 DEF Bytes, MachineType
      <3>5. t.hbytes + Len(line) \in Nat BY <3>4
      <3>6. h \in MachineType BY <3>2, <3>3, <3>5 DEF MachineType
      <3>7. /\ h.carry = t.carry /\ h.ev = t.ev /\ h.st = t.st /\ h.tcarry = t.tcarry
            /\ h.dec = t.dec /\ h.go = t.go /\ h.text = t.text /\ h.tchunked = t.tchunked
            /\ h.hbytes \in Nat
        BY <3>2, <3>3, <3>5 DEF MachineType
      <3>8. MachineOK(h) BY <2>1, <3>6, <3>7 DEF MachineOK
      <3>9. CASE h.hbytes > MaxHeaders
        <4>0. ~ (h.hbytes <= MaxHeaders) BY <3>7, <3>9, MachineAssumption
        <4>1. ParseHeaders(m) = Reject(h) BY <1>2, <2>3, <3>9, <4>0 DEF ParseHeaders, t, line, h
        <4> QED BY <2>1, <3>7, <3>8, <4>1, RejectIsRound
      <3>10. CASE ~ (h.hbytes > MaxHeaders)
        <4>1. h.hbytes <= MaxHeaders BY <3>7, <3>10, MachineAssumption
        <4> DEFINE g == [h EXCEPT !.headers = Append(@, line)]
        <4>2. ParseHeaders(m) = g \/ ParseHeaders(m) = h 
          BY <1>2, <2>3, <3>10, <4>1 DEF ParseHeaders, t, line, h
        <4>3. g = [h EXCEPT !.headers = Append(h.headers, line)] OBVIOUS
        <4> HIDE DEF g
        <4>4. Append(h.headers, line) \in Seq(Bytes)
          BY <2>1, <3>6, AppendProperties DEF MachineType
        <4>5. g \in MachineType BY <3>6, <4>3, <4>4 DEF MachineType
        <4>6. /\ g.carry = h.carry /\ g.ev = h.ev /\ g.st = h.st /\ g.tcarry = h.tcarry
              /\ g.dec = h.dec /\ g.go = h.go /\ g.text = h.text /\ g.tchunked = h.tchunked
              /\ g.hbytes = h.hbytes
          BY <3>6, <4>3 DEF MachineType
        <4>7. MachineOK(g) BY <3>8, <4>5, <4>6 DEF MachineOK
        <4>8. ASSUME NEW n \in {g, h} PROVE RoundOK(m, n)
          <5>1. /\ MachineOK(n) /\ Len(n.carry) < Len(m.carry) /\ n.ev = m.ev /\ n.st = m.st
                /\ n.tcarry = m.tcarry /\ n.dec = m.dec /\ n.go = m.go /\ n.text = m.text
                /\ n.tchunked = m.tchunked /\ n.hbytes <= MaxHeaders
            BY <2>1, <3>7, <3>8, <4>1, <4>6, <4>7
          <5>2. Emits(m, n) BY <5>1 DEF Emits, Quiet
          <5>3. n.st \in States \ {"Idle", "Closed"} BY <5>1 DEF States
          <5> QED BY <5>1, <5>2, <5>3, LineIsRound
        <4> QED BY <4>2, <4>8
      <3> QED BY <3>9, <3>10
    <2> QED BY <2>2, <2>3
  <1> QED BY <1>1, <1>2

(* consume_pending_icy_blank_line: what it still waits for is nothing or CR. *)
LEMMA ConsumeFacts ==
    ASSUME NEW m, MachineOK(m)
    PROVE  LET h == ConsumePendingIcyBlankLine(m)
           IN  /\ MachineOK(h)
               /\ h.ev = m.ev /\ h.st = m.st /\ h.tcarry = m.tcarry
               /\ h.dec = m.dec /\ h.go = m.go /\ h.hbytes = m.hbytes /\ h.text = m.text
               /\ h.tchunked = m.tchunked
               /\ h.icyBlank => h.carry = <<>> \/ h.carry = <<CR>>
  <1> DEFINE h == ConsumePendingIcyBlankLine(m)
             Rested(n) == /\ n \in MachineType
                          /\ n.ev = m.ev /\ n.st = m.st /\ n.tcarry = m.tcarry
                          /\ n.dec = m.dec /\ n.go = m.go /\ n.hbytes = m.hbytes
                          /\ n.text = m.text /\ n.tchunked = m.tchunked
  <1>1. m \in MachineType /\ m.carry \in Bytes /\ Len(m.carry) \in Nat BY BufferFacts DEF MachineOK
  <1>2. ASSUME NEW c \in Bytes, NEW n, n = [m EXCEPT !.carry = c, !.icyBlank = FALSE]
        PROVE  Rested(n) /\ n.icyBlank = FALSE
    BY <1>1, <1>2 DEF MachineType
  <1>3. CASE m.carry = <<>> \/ m.carry = <<CR>>
    <2>0. /\ ~ (m.carry # <<>> /\ m.carry[1] = LF)
          /\ ~ (Len(m.carry) > 1 /\ m.carry[1] = CR /\ m.carry[2] = LF)
      <3>1. CASE m.carry = <<>> BY <3>1
      <3>2. CASE m.carry = <<CR>>
        <4>1. Len(m.carry) = 1 /\ m.carry[1] = CR /\ CR # LF BY <3>2 DEF CR, LF
        <4> QED BY <4>1
      <3> QED BY <1>3, <3>1, <3>2
    <2>1. h = m BY <1>3, <2>0 DEF ConsumePendingIcyBlankLine
    <2> QED BY <1>1, <1>3, <2>1 DEF MachineOK
  <1>4. CASE ~ (m.carry = <<>> \/ m.carry = <<CR>>)
    <2>1. CASE m.carry[1] = LF
      <3>1. h = [m EXCEPT !.carry = Tail(m.carry), !.icyBlank = FALSE]
        BY <1>4, <2>1 DEF ConsumePendingIcyBlankLine, CR, LF
      <3>2. Tail(m.carry) \in Bytes BY <1>1, <1>4, HeadTailProperties DEF Bytes
      <3>3. Rested(h) /\ h.icyBlank = FALSE BY <1>2, <3>1, <3>2
      <3> HIDE DEF h
      <3> QED BY <3>3 DEF MachineOK, h
    <2>2. CASE m.carry[1] # LF /\ Len(m.carry) > 1 /\ m.carry[1] = CR /\ m.carry[2] = LF
      <3>1. h = [m EXCEPT !.carry = SubSeq(m.carry, 3, Len(m.carry)), !.icyBlank = FALSE]
        BY <1>4, <2>2 DEF ConsumePendingIcyBlankLine
      <3>2. SubSeq(m.carry, 3, Len(m.carry)) \in Bytes BY <1>1, PartOfBytes
      <3>3. Rested(h) /\ h.icyBlank = FALSE BY <1>2, <3>1, <3>2
      <3> HIDE DEF h
      <3> QED BY <3>3 DEF MachineOK, h
    <2>3. CASE m.carry[1] # LF /\ ~ (Len(m.carry) > 1 /\ m.carry[1] = CR /\ m.carry[2] = LF)
      <3>1. h = [m EXCEPT !.icyBlank = FALSE] BY <1>4, <2>3 DEF ConsumePendingIcyBlankLine
      <3> HIDE DEF h
      <3>2. Rested(h) /\ h.icyBlank = FALSE BY <1>1, <3>1 DEF MachineType
      <3> QED BY <3>2 DEF MachineOK, h
    <2> QED BY <2>1, <2>2, <2>3
  <1> QED BY <1>3, <1>4

(* The payload, if there is any.                                             *)
LEMMA EmitPayloadFacts ==
    ASSUME NEW m, MachineOK(m), NEW x \in Bytes
    PROVE  LET n == EmitPayload(m, x)
           IN  /\ MachineOK(n)
               /\ n.ev = m.ev \/ (n.ev = Append(m.ev, <<"Payload", x>>) /\ <<"Payload", x>> \in Events)
               /\ n.st = m.st /\ n.carry = m.carry /\ n.tcarry = m.tcarry /\ n.dec = m.dec
               /\ n.go = m.go /\ n.hbytes = m.hbytes /\ n.text = m.text
               /\ n.tchunked = m.tchunked
  <1>1. <<"Payload", x>> \in Events BY DEF Events, Details
  <1>2. CASE x = <<>> BY <1>2 DEF EmitPayload
  <1>3. CASE x # <<>>
    <2>1. EmitPayload(m, x) = Emit(m, "Payload", x) BY <1>3 DEF EmitPayload
    <2> QED BY <1>1, <2>1, EmitFacts
  <1> QED BY <1>2, <1>3

(* drain_payload: the loop always breaks after it.                           *)
LEMMA DrainPayloadIsRound ==
    ASSUME NEW m, MachineOK(m), m.st = "Streaming"
    PROVE  RoundOK(m, DrainPayload(m))
  <1>1. PICK h : h = (IF m.icyBlank THEN ConsumePendingIcyBlankLine(m) ELSE m) OBVIOUS
  <1>2. /\ MachineOK(h)
        /\ h.ev = m.ev /\ h.st = m.st /\ h.tcarry = m.tcarry
        /\ h.dec = m.dec /\ h.go = m.go /\ h.hbytes = m.hbytes /\ h.text = m.text
        /\ h.tchunked = m.tchunked
        /\ h.icyBlank => h.carry = <<>> \/ h.carry = <<CR>>
    <2>1. CASE m.icyBlank BY <1>1, <2>1, ConsumeFacts
    <2>2. CASE ~ m.icyBlank BY <1>1, <2>2
    <2> QED BY <2>1, <2>2
  <1> DEFINE taken == [h EXCEPT !.carry = <<>>]
             d == Decode(h.dec, h.carry)
             k == Taken(d)
             fed == [taken EXCEPT !.dec = k]
             decoded == EmitPayload(fed, d.out)
             r == DrainPayload(m)
  <1>3. h \in MachineType /\ h.carry \in Bytes /\ h.dec \in DecoderType BY <1>2, BufferFacts DEF MachineOK
  (* What is left to show of a round that delivers or is quiet.              *)
  <1>4. ASSUME NEW g, MachineOK(g), g.hbytes = h.hbytes, g.text = h.text, g.tcarry = h.tcarry,
               g.tchunked = h.tchunked, g.st = h.st, Len(g.carry) <= 1,
               g.dec = h.dec \/ (~ g.dec.poison /\ ~ g.dec.finished),
               Quiet(m, g) \/ Delivers(m, g)
        PROVE  RoundOK(m, Wait(g))
    <2> DEFINE n == Wait(g)
    <2>1. /\ MachineOK(n) /\ n.go = FALSE
          /\ n.ev = g.ev /\ n.st = g.st /\ n.carry = g.carry /\ n.tcarry = g.tcarry
          /\ n.dec = g.dec /\ n.hbytes = g.hbytes /\ n.text = g.text
          /\ n.tchunked = g.tchunked
      BY <1>4, WaitFacts
    <2> HIDE DEF n
    <2>2. Emits(m, n) BY <1>4, <2>1 DEF Emits, Quiet, Delivers
    <2>3. ASSUME Tight(m) PROVE Tight(n)
      <3>1. /\ m.hbytes <= MaxHeaders /\ TextLen(m.text) <= MaxTable /\ ~ m.tchunked
            /\ m.tcarry = <<>> /\ ~ m.dec.poison /\ ~ m.dec.finished
        BY <2>3 DEF Tight
      <3>2. Len(n.carry) <= MaxLine /\ Len(n.tcarry) <= MaxLine
        <4>1. Len(n.carry) \in Nat /\ Len(n.carry) <= 1 BY <1>4, <2>1, BufferFacts
        <4>2. Len(n.tcarry) = 0 BY <1>2, <1>4, <2>1, <3>1, EmptyBytes
        <4>3. \A x \in Nat : x <= 1 => x <= MaxLine BY DecoderAssumption
        <4> QED BY <4>1, <4>2, <4>3
      <3> QED BY <1>2, <1>4, <2>1, <3>1, <3>2 DEF Tight
    <2> QED BY <2>1, <2>2, <2>3 DEF RoundOK, n
  (* And of one that closes.                                                 *)
  <1>5. ASSUME NEW g, MachineOK(g), Closes(m, g) \/ DeliversLast(m, g)
        PROVE  RoundOK(m, Wait(g))
    <2> DEFINE n == Wait(g)
    <2>1. MachineOK(n) /\ n.go = FALSE /\ n.ev = g.ev /\ n.st = g.st BY <1>5, WaitFacts
    <2> HIDE DEF n
    <2>2. Emits(m, n) BY <1>5, <2>1 DEF Emits, Closes, DeliversLast
    <2>3. Tight(n) BY <1>5, <2>1 DEF Tight, Closes, DeliversLast
    <2> QED BY <2>1, <2>2, <2>3 DEF RoundOK, n
  <1>6. CASE h.icyBlank \/ h.carry = <<>>
    <2>1. r = Wait(h) BY <1>1, <1>6 DEF DrainPayload
    <2>2. Len(h.carry) <= 1 BY <1>2, <1>6, NoneOrCR
    <2>3. Quiet(m, h) BY <1>2 DEF Quiet
    <2> QED BY <1>2, <1>4, <2>1, <2>2, <2>3
  <1>7. taken \in MachineType BY <1>3, EmptyBytes DEF MachineType
  <1>8. /\ taken.carry = <<>> /\ taken.ev = h.ev /\ taken.st = h.st /\ taken.tcarry = h.tcarry
        /\ taken.dec = h.dec /\ taken.go = h.go /\ taken.hbytes = h.hbytes
        /\ taken.text = h.text /\ taken.tchunked = h.tchunked
    BY <1>3 DEF MachineType
  <1>9. CASE ~ h.icyBlank /\ h.carry # <<>> /\ ~ h.chunked
    <2> DEFINE g == Emit(taken, "Payload", h.carry)
    <2>1. r = Wait(g) BY <1>1, <1>9 DEF DrainPayload
    <2> HIDE DEF taken
    <2>2. MachineOK(taken) BY <1>2, <1>7, <1>8 DEF MachineOK
    <2>3. <<"Payload", h.carry>> \in Events BY <1>3 DEF Events, Details
    <2>4. /\ MachineOK(g) /\ g.ev = Append(taken.ev, <<"Payload", h.carry>>)
          /\ g.st = taken.st /\ g.carry = taken.carry /\ g.tcarry = taken.tcarry
          /\ g.dec = taken.dec /\ g.hbytes = taken.hbytes /\ g.text = taken.text
          /\ g.tchunked = taken.tchunked
      BY <2>2, <2>3, EmitFacts
    <2> HIDE DEF g, r
    <2>5. Delivers(m, g) BY <1>2, <1>8, <2>3, <2>4 DEF Delivers
    <2>6. Len(g.carry) <= 1 BY <1>8, <2>4, EmptyBytes
    <2> QED BY <1>4, <1>8, <2>1, <2>4, <2>5, <2>6 DEF r
  <1>10. CASE ~ h.icyBlank /\ h.carry # <<>> /\ h.chunked
    <2>1. /\ d.poison => r = Wait(Close(fed, "StreamCorrupted", <<>>))
          /\ ~ d.poison /\ d.finished => r = Wait(Close(decoded, "StreamEnded", <<>>))
          /\ ~ d.poison /\ ~ d.finished => r = Wait(decoded)
      BY <1>1, <1>10 DEF DrainPayload
    <2> HIDE DEF taken, d, r
    <2>0. DecoderInv(d) /\ ~ d.more BY <1>2, <1>3, DecodeFacts DEF d, MachineOK
    <2>2. DecoderInv(k) /\ ~ k.more /\ k.poison = d.poison /\ k.finished = d.finished
      BY <2>0, TakenFacts
    <2> HIDE DEF k
    <2>3. k \in DecoderType /\ d.out \in Bytes BY <2>0, <2>2 DEF DecoderInv, DecoderType
    <2>4. fed \in MachineType BY <1>7, <2>3 DEF MachineType
    <2>5. /\ fed.dec = k
          /\ fed.carry = taken.carry /\ fed.ev = taken.ev /\ fed.st = taken.st
          /\ fed.tcarry = taken.tcarry /\ fed.hbytes = taken.hbytes
          /\ fed.text = taken.text /\ fed.tchunked = taken.tchunked
      BY <1>7 DEF MachineType
    <2>6. MachineOK(fed) BY <2>2, <2>4, <2>5 DEF MachineOK
    <2> HIDE DEF fed
    <2>7. /\ MachineOK(decoded)
          /\ \/ decoded.ev = fed.ev
             \/ decoded.ev = Append(fed.ev, <<"Payload", d.out>>) /\ <<"Payload", d.out>> \in Events
          /\ decoded.st = fed.st /\ decoded.carry = fed.carry /\ decoded.tcarry = fed.tcarry
          /\ decoded.dec = fed.dec /\ decoded.hbytes = fed.hbytes /\ decoded.text = fed.text
          /\ decoded.tchunked = fed.tchunked
      BY <2>3, <2>6, EmitPayloadFacts
    <2> HIDE DEF decoded
    <2>8. {"StreamCorrupted", "StreamEnded"} \subseteq Ends /\ <<>> \in Details
      BY EmptyBytes DEF Ends, Details
    <2>9. CASE d.poison
      <3> DEFINE g == Close(fed, "StreamCorrupted", <<>>)
      <3>1. /\ MachineOK(g) /\ g.ev = Append(fed.ev, <<"StreamCorrupted", <<>> >>)
            /\ <<"StreamCorrupted", <<>> >> \in Events /\ g.st = "Closed"
        BY <2>6, <2>8, CloseFacts
      <3> HIDE DEF g
      <3>2. Closes(m, g) BY <1>2, <1>8, <2>5, <2>8, <3>1 DEF Closes
      <3>3. r = Wait(g) BY <2>1, <2>9 DEF g
      <3> QED BY <1>5, <3>1, <3>2, <3>3 DEF r
    <2>10. CASE ~ d.poison /\ d.finished
      <3> DEFINE g == Close(decoded, "StreamEnded", <<>>)
      <3>1. /\ MachineOK(g) /\ g.ev = Append(decoded.ev, <<"StreamEnded", <<>> >>)
            /\ <<"StreamEnded", <<>> >> \in Events /\ g.st = "Closed"
        BY <2>7, <2>8, CloseFacts
      <3> HIDE DEF g
      <3>2. decoded.ev = m.ev \/ (decoded.ev = Append(m.ev, <<"Payload", d.out>>) /\ <<"Payload", d.out>> \in Events)
        BY <1>2, <1>8, <2>5, <2>7
      <3>3. Closes(m, g) \/ DeliversLast(m, g) BY <2>8, <3>1, <3>2 DEF Closes, DeliversLast
      <3>4. r = Wait(g) BY <2>1, <2>10 DEF g
      <3> QED BY <1>5, <3>1, <3>3, <3>4 DEF r
    <2>11. CASE ~ d.poison /\ ~ d.finished
      <3>1. r = Wait(decoded) BY <2>1, <2>11
      <3>2. Quiet(m, decoded) \/ Delivers(m, decoded)
        BY <1>2, <1>8, <2>5, <2>7, ZenonT(60) DEF Quiet, Delivers
      <3>3. Len(decoded.carry) <= 1 BY <1>8, <2>5, <2>7, EmptyBytes
      <3>4. ~ decoded.dec.poison /\ ~ decoded.dec.finished BY <2>2, <2>5, <2>7, <2>11
      <3> QED BY <1>4, <1>8, <2>5, <2>7, <3>1, <3>2, <3>3, <3>4 DEF r
    <2> QED BY <2>9, <2>10, <2>11 DEF r
  <1> QED BY <1>6, <1>9, <1>10
-----------------------------------------------------------------------------
(* Sourcetables *)

(* TextLen, line by line.                                                    *)
LEMMA TextLenSteps ==
    ASSUME NEW t \in Seq(Bytes)
    PROVE  \E f : /\ f[0] = 0 /\ TextLen(t) = f[Len(t)]
                  /\ \A i \in 1..Len(t) : f[i] = f[i - 1] + Len(t[i]) + 2
  <1> DEFINE Val(g, s) == IF s = {} THEN 0 ELSE g[s \ {Max(s)}] + Len(t[Max(s)]) + 2
             Good(g, k) == g = [s \in SUBSET (1..k) |-> Val(g, s)]
             S == {k \in Nat : \E g : Good(g, k)}
  <1>1. Len(t) \in Nat /\ DOMAIN t = 1..Len(t) OBVIOUS
  <1>2. 0 \in S
    <2> DEFINE g == [s \in SUBSET (1..0) |-> 0]
    <2>1. \A s \in SUBSET (1..0) : s = {} OBVIOUS
    <2>2. \A s \in SUBSET (1..0) : Val(g, s) = 0 BY <2>1
    <2>3. Good(g, 0) BY <2>2
    <2>4. \E x : Good(x, 0)
      <3> HIDE DEF Good, g
      <3> QED BY <2>3
    <2> QED BY <2>4
  <1>3. ASSUME NEW k \in Nat, k \in S PROVE k + 1 \in S
    <2>1. PICK g : Good(g, k) BY <1>3
    <2> DEFINE h == [s \in SUBSET (1..(k + 1)) |->
                        IF k + 1 \in s THEN g[s \ {k + 1}] + Len(t[k + 1]) + 2 ELSE g[s]]
    <2>2. ASSUME NEW s \in SUBSET (1..(k + 1)) PROVE h[s] = Val(h, s)
      <3>1. CASE k + 1 \in s
        <4>1. Max(s) = k + 1
          <5>1. s \subseteq 0..(k + 1) /\ s # {} /\ k + 1 \in Nat BY <3>1
          <5>2. Max(s) \in s /\ \A y \in s : y <= Max(s) BY <5>1, MaxIsGreatest
          <5>3. Max(s) \in 0..(k + 1) BY <5>1, <5>2
          <5>4. k + 1 <= Max(s) BY <3>1, <5>2
          <5> QED BY <5>3, <5>4
        <4>2. s \ {k + 1} \in SUBSET (1..(k + 1)) /\ k + 1 \notin s \ {k + 1} OBVIOUS
        <4>3. h[s \ {k + 1}] = g[s \ {k + 1}] BY <4>2
        <4>4. h[s] = g[s \ {k + 1}] + Len(t[k + 1]) + 2 BY <3>1
        <4>5. Val(h, s) = h[s \ {k + 1}] + Len(t[k + 1]) + 2 BY <3>1, <4>1
        <4> HIDE DEF h, Val, Good
        <4> QED BY <4>3, <4>4, <4>5
      <3>2. CASE k + 1 \notin s
        <4>1. s \in SUBSET (1..k)
          <5>1. \A x \in s : x \in 1..(k + 1) /\ x # k + 1 BY <3>2
          <5> QED BY <5>1
        <4>2. h[s] = g[s] BY <3>2
        <4>3. g[s] = Val(g, s) BY <2>1, <4>1
        <4>4. CASE s = {} BY <4>2, <4>3, <4>4
        <4>5. CASE s # {}
          <5>1. s \ {Max(s)} \in SUBSET (1..(k + 1)) /\ k + 1 \notin s \ {Max(s)} BY <3>2
          <5>2. h[s \ {Max(s)}] = g[s \ {Max(s)}] BY <5>1
          <5>3. Val(h, s) = Val(g, s) BY <4>5, <5>2
          <5> HIDE DEF h, Val, Good
          <5> QED BY <4>2, <4>3, <5>3
        <4> QED BY <4>4, <4>5
      <3> QED BY <3>1, <3>2
    <2>3. Good(h, k + 1) BY <2>2
    <2> HIDE DEF h, Val, Good
    <2> QED BY <2>3
  <1>4. Len(t) \in S BY <1>1, <1>2, <1>3, SetInduction
  <1> DEFINE g == CHOOSE g : g = [s \in SUBSET (DOMAIN t) |-> Val(g, s)]
             f == [i \in 0..Len(t) |-> g[1..i]]
  <1>5. Good(g, Len(t)) BY <1>1, <1>4
  <1>6. TextLen(t) = g[DOMAIN t] BY DEF TextLen, FoldLeft, MapThenFoldSet
  <1> HIDE DEF g
  <1>7. f[Len(t)] = TextLen(t) BY <1>1, <1>6
  <1>8. f[0] = 0
    <2>1. 1..0 = {} /\ 1..0 \in SUBSET (1..Len(t)) OBVIOUS
    <2> QED BY <1>1, <1>5, <2>1
  <1>9. ASSUME NEW i \in 1..Len(t) PROVE f[i] = f[i - 1] + Len(t[i]) + 2
    <2>1. 1..i \in SUBSET (1..Len(t)) /\ i \in 1..i /\ i \in Nat BY <1>1
    <2>2. Max(1..i) = i BY <2>1, MaxUpTo
    <2>3. (1..i) \ {i} = 1..(i - 1) BY <2>1
    <2>4. g[1..i] = Val(g, 1..i) BY <1>5, <2>1
    <2>5. Val(g, 1..i) = g[1..(i - 1)] + Len(t[i]) + 2 BY <2>1, <2>2, <2>3
    <2>6. i - 1 \in 0..Len(t) /\ i \in 0..Len(t) BY <1>1
    <2>7. f[i] = g[1..i] /\ f[i - 1] = g[1..(i - 1)] BY <2>6
    <2> QED BY <2>4, <2>5, <2>7
  <1> HIDE DEF f
  <1> QED BY <1>7, <1>8, <1>9

(* The length of a table is a number, and an empty table has none.           *)
LEMMA TextLenFacts ==
    ASSUME NEW t \in Seq(Bytes)
    PROVE  TextLen(t) \in Nat /\ (t = <<>> => TextLen(t) = 0)
  <1>1. PICK f : /\ f[0] = 0 /\ TextLen(t) = f[Len(t)]
                 /\ \A i \in 1..Len(t) : f[i] = f[i - 1] + Len(t[i]) + 2
    BY TextLenSteps
  <1> DEFINE S == {i \in Nat : i <= Len(t) => f[i] \in Nat}
  <1>2. Len(t) \in Nat OBVIOUS
  <1>3. 0 \in S BY <1>1
  <1>4. ASSUME NEW i \in Nat, i \in S PROVE i + 1 \in S
    <2> SUFFICES ASSUME i + 1 <= Len(t) PROVE f[i + 1] \in Nat
      OBVIOUS
    <2>1. i <= Len(t) /\ i + 1 \in 1..Len(t) /\ (i + 1) - 1 = i BY <1>2
    <2>2. f[i] \in Nat BY <1>4, <2>1
    <2>3. t[i + 1] \in Bytes BY <2>1
    <2>4. Len(t[i + 1]) \in Nat BY <2>3 DEF Bytes
    <2>5. f[i + 1] = f[i] + Len(t[i + 1]) + 2 BY <1>1, <2>1
    <2> QED BY <2>2, <2>4, <2>5
  <1>5. Nat \subseteq S BY <1>3, <1>4, SetInduction
  <1> QED BY <1>1, <1>2, <1>5

(* push_sourcetable_line: the table stays within its limit or is closed.     *)
LEMMA PushLineFacts ==
    ASSUME NEW m, MachineOK(m), NEW line \in Bytes
    PROVE  LET n == PushSourcetableLine(m, line)
           IN  /\ MachineOK(n) /\ n.go = m.go
               /\ n.carry = m.carry /\ n.tcarry = m.tcarry /\ n.dec = m.dec
               /\ \/ /\ n.st = m.st /\ n.ev = m.ev
                     /\ n.hbytes = m.hbytes /\ n.tchunked = m.tchunked
                     /\ TextLen(m.text) <= MaxTable => TextLen(n.text) <= MaxTable
                  \/ Closes(m, n)
  <1> DEFINE n == PushSourcetableLine(m, line)
             h == [m EXCEPT !.started = TRUE, !.text = Append(@, line)]
  <1>1. CASE Skipped(m, line)
    <2>1. n = m BY <1>1 DEF PushSourcetableLine
    <2> HIDE DEF n
    <2> QED BY <2>1 DEF n
  <1>2. CASE ~ Skipped(m, line)
    <2>1. m \in MachineType BY DEF MachineOK
    <2>2. Append(m.text, line) \in Seq(Bytes) BY <2>1, AppendProperties DEF MachineType
    <2>3. h = [m EXCEPT !.started = TRUE, !.text = Append(m.text, line)] OBVIOUS
    <2>4. /\ TextLen(h.text) > MaxTable => n = Reject(h)
          /\ ~ (TextLen(h.text) > MaxTable) => n = FinishSourcetable(h) \/ n = h
      BY <1>2 DEF PushSourcetableLine
    <2> HIDE DEF h, n
    <2>5. h \in MachineType BY <2>1, <2>2, <2>3 DEF MachineType
    <2>6. /\ h.text \in Seq(Bytes) /\ h.go = m.go /\ h.carry = m.carry /\ h.tcarry = m.tcarry
          /\ h.dec = m.dec /\ h.st = m.st /\ h.ev = m.ev /\ h.hbytes = m.hbytes
          /\ h.tchunked = m.tchunked
      BY <2>1, <2>2, <2>3 DEF MachineType
    <2>7. MachineOK(h) BY <2>5, <2>6 DEF MachineOK
    <2>8. TextLen(h.text) \in Nat /\ MaxTable \in Nat BY <2>6, TextLenFacts, MachineAssumption
    <2>9. ASSUME NEW k \in Ends, NEW x \in Details, n = Close(h, k, x)
          PROVE  /\ MachineOK(n) /\ n.go = m.go
                 /\ n.carry = m.carry /\ n.tcarry = m.tcarry /\ n.dec = m.dec
                 /\ Closes(m, n)
      <3>1. /\ MachineOK(n) /\ n.ev = Append(h.ev, <<k, x>>) /\ <<k, x>> \in Events
            /\ n.st = "Closed" /\ n.carry = h.carry /\ n.tcarry = h.tcarry /\ n.dec = h.dec
            /\ n.go = h.go
        BY <2>7, <2>9, CloseFacts
      <3>2. Closes(m, n) BY <2>6, <3>1 DEF Closes
      <3> QED BY <2>6, <3>1, <3>2
    <2>10. CASE n = Reject(h)
      <3>1. "Rejected" \in Ends /\ <<>> \in Details BY EmptyBytes DEF Ends, Details
      <3> QED BY <2>9, <2>10, <3>1 DEF Reject, n
    <2>11. CASE n = FinishSourcetable(h)
      <3>1. "Sourcetable" \in Ends /\ h.text \in Details BY <2>6 DEF Ends, Details
      <3> QED BY <2>9, <2>11, <3>1 DEF FinishSourcetable, n
    <2>12. CASE ~ (TextLen(h.text) > MaxTable) /\ n = h
      <3>1. TextLen(h.text) <= MaxTable BY <2>8, <2>12
      <3> QED BY <2>6, <2>7, <2>12, <3>1 DEF n
    <2> QED BY <2>4, <2>10, <2>11, <2>12
  <1> QED BY <1>1, <1>2

(* What reading one line of a table may do.                                  *)
DrainedOK(m, n) ==
    /\ MachineOK(n)
    /\ n.go => Measure(n) < Measure(m)
    /\ (n.st = m.st /\ n.ev = m.ev) \/ Closes(m, n)
    /\ n.st # "Closed" =>
        /\ n.dec = m.dec /\ n.tchunked = m.tchunked /\ n.hbytes = m.hbytes
        /\ TextLen(m.text) <= MaxTable => TextLen(n.text) <= MaxTable
        /\ ~ m.tchunked => n.tcarry = m.tcarry
        /\ ~ n.go => IF m.tchunked THEN n.carry = m.carry /\ Len(n.tcarry) <= MaxLine
                     ELSE Len(n.carry) <= MaxLine

(* One round of drain_sourcetable_lines.                                     *)
LEMMA DrainLineFacts ==
    ASSUME NEW m, MachineOK(m), m.st = "Sourcetable", m.go
    PROVE  DrainedOK(m, DrainSourcetableLine(m))
  <1> DEFINE n == DrainSourcetableLine(m)
  <1>1. PICK buf : buf = IF m.tchunked THEN m.tcarry ELSE m.carry OBVIOUS
  <1>2. Len(buf) \in Nat /\ MaxLine \in Nat BY <1>1, BufferFacts, DecoderAssumption
  <1>3. CASE HasLine(buf)
    <2>1. PICK h : h = IF m.tchunked THEN [m EXCEPT !.tcarry = AfterLine(buf)]
                       ELSE [m EXCEPT !.carry = AfterLine(buf)]
      OBVIOUS
    <2>2. n = PushSourcetableLine(h, Line(buf)) BY <1>1, <1>3, <2>1 DEF DrainSourcetableLine
    <2>3. /\ MachineOK(h) /\ Line(buf) \in Bytes
          /\ Len(h.carry) + Len(h.tcarry) + Len(h.dec.buf)
                < Len(m.carry) + Len(m.tcarry) + Len(m.dec.buf)
          /\ h.ev = m.ev /\ h.st = m.st /\ h.dec = m.dec /\ h.go = m.go
          /\ h.hbytes = m.hbytes /\ h.text = m.text /\ h.tchunked = m.tchunked
          /\ ~ m.tchunked => h.tcarry = m.tcarry
      <3> HIDE DEF n
      <3>1. /\ m \in MachineType /\ m.carry \in Bytes /\ m.tcarry \in Bytes
            /\ Len(m.carry) \in Nat /\ Len(m.tcarry) \in Nat /\ Len(m.dec.buf) \in Nat
        BY BufferFacts DEF MachineOK
      <3>2. buf \in Bytes BY <1>1, <3>1
      <3>3. /\ Line(buf) \in Bytes /\ AfterLine(buf) \in Bytes
            /\ Len(Line(buf)) + Len(AfterLine(buf)) < Len(buf)
        BY <1>3, <3>2, LineFacts
      <3>4. Len(Line(buf)) \in Nat /\ Len(AfterLine(buf)) \in Nat /\ Len(buf) \in Nat
        BY <3>2, <3>3 DEF Bytes
      <3>5. Len(AfterLine(buf)) < Len(buf) BY <3>3, <3>4
      <3>6. \A a, b, c, d \in Nat : d < a => d + b + c < a + b + c /\ b + d + c < b + a + c OBVIOUS
      <3>7. CASE m.tchunked
        <4>1. buf = m.tcarry /\ h = [m EXCEPT !.tcarry = AfterLine(buf)] BY <1>1, <2>1, <3>7
        <4>2. h \in MachineType BY <3>1, <3>3, <4>1 DEF MachineType
        <4>3. /\ h.tcarry = AfterLine(buf) /\ h.carry = m.carry
              /\ h.ev = m.ev /\ h.st = m.st /\ h.dec = m.dec /\ h.go = m.go
              /\ h.hbytes = m.hbytes /\ h.text = m.text /\ h.tchunked = m.tchunked
          BY <3>1, <4>1 DEF MachineType
        <4>4. MachineOK(h) BY <4>2, <4>3 DEF MachineOK
        <4>5. Len(h.carry) + Len(h.tcarry) + Len(h.dec.buf)
                 < Len(m.carry) + Len(m.tcarry) + Len(m.dec.buf)
          BY <3>1, <3>4, <3>5, <3>6, <4>1, <4>3
        <4> QED BY <3>3, <3>7, <4>3, <4>4, <4>5
      <3>8. CASE ~ m.tchunked
        <4>1. buf = m.carry /\ h = [m EXCEPT !.carry = AfterLine(buf)] BY <1>1, <2>1, <3>8
        <4>2. h \in MachineType BY <3>1, <3>3, <4>1 DEF MachineType
        <4>3. /\ h.carry = AfterLine(buf) /\ h.tcarry = m.tcarry
              /\ h.ev = m.ev /\ h.st = m.st /\ h.dec = m.dec /\ h.go = m.go
              /\ h.hbytes = m.hbytes /\ h.text = m.text /\ h.tchunked = m.tchunked
          BY <3>1, <4>1 DEF MachineType
        <4>4. MachineOK(h) BY <4>2, <4>3 DEF MachineOK
        <4>5. Len(h.carry) + Len(h.tcarry) + Len(h.dec.buf)
                 < Len(m.carry) + Len(m.tcarry) + Len(m.dec.buf)
          BY <3>1, <3>4, <3>5, <3>6, <4>1, <4>3
        <4> QED BY <3>3, <4>3, <4>4, <4>5
      <3> QED BY <3>7, <3>8
    <2>4. /\ MachineOK(n) /\ n.go = h.go
          /\ n.carry = h.carry /\ n.tcarry = h.tcarry /\ n.dec = h.dec
          /\ \/ /\ n.st = h.st /\ n.ev = h.ev
                /\ n.hbytes = h.hbytes /\ n.tchunked = h.tchunked
                /\ TextLen(h.text) <= MaxTable => TextLen(n.text) <= MaxTable
             \/ Closes(h, n)
      BY <2>2, <2>3, PushLineFacts, ZenonT(60)
    <2> HIDE DEF n
    <2>5. Closes(h, n) => Closes(m, n) /\ n.st = "Closed" BY <2>3 DEF Closes
    <2>6. Measure(n) < Measure(m)
      <3> DEFINE p == Len(m.carry) + Len(m.tcarry) + Len(m.dec.buf)
                 q == Len(h.carry) + Len(h.tcarry) + Len(h.dec.buf)
      <3>1. p \in Nat /\ q \in Nat /\ q < p
        <4>1. Len(m.carry) \in Nat /\ Len(m.tcarry) \in Nat /\ Len(m.dec.buf) \in Nat BY BufferFacts
        <4>2. Len(h.carry) \in Nat /\ Len(h.tcarry) \in Nat /\ Len(h.dec.buf) \in Nat
          BY <2>3, BufferFacts
        <4>3. \A a, b, c \in Nat : a + b + c \in Nat OBVIOUS
        <4>4. p \in Nat BY <4>1, <4>3
        <4>5. q \in Nat BY <4>2, <4>3
        <4> QED BY <2>3, <4>4, <4>5
      <3>2. Measure(m) = p + Rank(m.st) /\ Measure(n) = q + Rank(n.st) BY <2>4 DEF Measure
      <3>3. Rank(n.st) \in 0..1 /\ Rank(m.st) = 1 BY <2>3, <2>4, <2>5 DEF Rank
      <3> HIDE DEF p, q
      <3> QED BY <3>1, <3>2, <3>3
    <2>7. CASE Closes(h, n) BY <2>4, <2>5, <2>6, <2>7 DEF DrainedOK, n
    <2>8. CASE ~ Closes(h, n) BY <2>3, <2>4, <2>6, <2>8 DEF DrainedOK, n
    <2> QED BY <2>7, <2>8
  <1>4. CASE ~ HasLine(buf) /\ Len(buf) > MaxLine
    <2> DEFINE c == Reject(m)
    <2>1. n = Wait(c) BY <1>1, <1>4 DEF DrainSourcetableLine
    <2>2. "Rejected" \in Ends /\ <<>> \in Details BY EmptyBytes DEF Ends, Details
    <2>3. MachineOK(c) /\ c.ev = Append(m.ev, <<"Rejected", <<>> >>)
          /\ <<"Rejected", <<>> >> \in Events /\ c.st = "Closed"
      BY <2>2, CloseFacts DEF Reject
    <2> HIDE DEF c
    <2>4. MachineOK(n) /\ n.go = FALSE /\ n.ev = c.ev /\ n.st = c.st BY <2>1, <2>3, WaitFacts
    <2> HIDE DEF n
    <2>5. Closes(m, n) BY <2>2, <2>3, <2>4 DEF Closes
    <2> QED BY <2>3, <2>4, <2>5 DEF DrainedOK, n
  <1>5. CASE ~ HasLine(buf) /\ ~ (Len(buf) > MaxLine)
    <2>1. n = Wait(m) BY <1>1, <1>5 DEF DrainSourcetableLine
    <2>2. /\ MachineOK(n) /\ n.go = FALSE
          /\ n.ev = m.ev /\ n.st = m.st /\ n.carry = m.carry /\ n.tcarry = m.tcarry
          /\ n.dec = m.dec /\ n.hbytes = m.hbytes /\ n.text = m.text
          /\ n.tchunked = m.tchunked
      BY <2>1, WaitFacts
    <2>3. Len(buf) <= MaxLine BY <1>2, <1>5
    <2> HIDE DEF n
    <2> QED BY <1>1, <2>2, <2>3 DEF DrainedOK, n
  <1> QED BY <1>3, <1>4, <1>5

(* The flush at the end of a chunked table closes the machine.               *)
LEMMA FlushFacts ==
    ASSUME NEW m, MachineOK(m), m.st = "Sourcetable"
    PROVE  LET f == FlushSourcetable(m)
           IN  MachineOK(f) /\ f.go = m.go /\ Closes(m, f)
  <1> DEFINE f == FlushSourcetable(m)
             h == [m EXCEPT !.tcarry = <<>>]
  <1>1. m \in MachineType /\ m.tcarry \in Bytes BY BufferFacts DEF MachineOK
  <1>2. PICK n : n = IF m.tcarry = <<>> THEN m ELSE PushSourcetableLine(h, m.tcarry) OBVIOUS
  <1>3. f = IF n.st = "Closed" THEN n ELSE FinishSourcetable(n)
    BY <1>2 DEF FlushSourcetable
  <1>4. MachineOK(n) /\ n.go = m.go /\ ((n.st = m.st /\ n.ev = m.ev) \/ Closes(m, n))
    <2>1. CASE m.tcarry = <<>> BY <1>2, <2>1
    <2>2. CASE m.tcarry # <<>>
      <3>1. n = PushSourcetableLine(h, m.tcarry) BY <1>2, <2>2
      <3>2. h \in MachineType BY <1>1, EmptyBytes DEF MachineType
      <3>3. h.ev = m.ev /\ h.st = m.st /\ h.dec = m.dec /\ h.go = m.go BY <1>1 DEF MachineType
      <3> HIDE DEF h, f
      <3>4. MachineOK(h) BY <3>2, <3>3 DEF MachineOK
      <3>5. /\ MachineOK(n) /\ n.go = h.go
            /\ (n.st = h.st /\ n.ev = h.ev) \/ Closes(h, n)
        BY <1>1, <3>1, <3>4, PushLineFacts
      <3> QED BY <3>3, <3>5 DEF Closes
    <2> QED BY <2>1, <2>2
  <1> HIDE DEF f
  <1>5. CASE n.st = "Closed"
    <2>1. f = n BY <1>3, <1>5
    <2>2. Closes(m, n) BY <1>4, <1>5
    <2> QED BY <1>4, <2>1, <2>2 DEF f
  <1>6. CASE n.st # "Closed"
    <2>1. f = Close(n, "Sourcetable", n.text) BY <1>3, <1>6 DEF FinishSourcetable
    <2>2. n.ev = m.ev BY <1>4, <1>6 DEF Closes
    <2>3. n.text \in Details /\ "Sourcetable" \in Ends BY <1>4 DEF MachineOK, MachineType, Details, Ends
    <2>4. /\ MachineOK(f) /\ f.ev = Append(n.ev, <<"Sourcetable", n.text>>)
          /\ <<"Sourcetable", n.text>> \in Events /\ f.st = "Closed" /\ f.go = n.go
      BY <1>4, <2>1, <2>3, CloseFacts
    <2>5. Closes(m, f) BY <2>2, <2>3, <2>4 DEF Closes
    <2> QED BY <1>4, <2>4, <2>5 DEF f
  <1> QED BY <1>5, <1>6

(* drain_sourcetable_lines on n, which has what m had or got from its        *)
(* decoder, and the flush when the body has ended.                           *)
LEMMA DrainLinesIsRound ==
    ASSUME NEW m, MachineOK(m), m.st = "Sourcetable", m.go,
           NEW n, MachineOK(n), n.st = m.st, n.go, n.ev = m.ev,
           Measure(n) \in Nat, Measure(m) \in Nat, Measure(n) <= Measure(m),
           n.tchunked => n.carry = <<>>,
           Tight(m) => /\ n.hbytes <= MaxHeaders /\ TextLen(n.text) <= MaxTable
                       /\ ~ n.tchunked => n.tcarry = <<>>
                       /\ ~ n.dec.poison /\ (n.dec.finished => n.tchunked)
    PROVE  LET drained == DrainSourcetableLine(n)
           IN  RoundOK(m, IF drained.go \/ drained.st = "Closed" \/ ~ n.tchunked
                             \/ ~ n.dec.finished
                          THEN drained ELSE FlushSourcetable(drained))
  <1> DEFINE k == DrainSourcetableLine(n)
             over == ~ (k.go \/ k.st = "Closed" \/ ~ n.tchunked \/ ~ n.dec.finished)
  <1>1. DrainedOK(n, k) BY DrainLineFacts
  <1> HIDE DEF k
  <1>2. MachineOK(k) BY <1>1 DEF DrainedOK
  <1>3. CASE over
    <2> DEFINE f == FlushSourcetable(k)
    <2>1. k.st = "Sourcetable" /\ k.ev = m.ev /\ ~ k.go BY <1>1, <1>3 DEF DrainedOK, Closes
    <2>2. MachineOK(f) /\ f.go = k.go /\ Closes(k, f) BY <1>2, <2>1, FlushFacts
    <2> HIDE DEF f
    <2>3. Closes(m, f) /\ f.st = "Closed" BY <2>1, <2>2 DEF Closes
    <2>4. RoundOK(m, f) BY <2>1, <2>2, <2>3 DEF RoundOK, Emits, Tight
    <2> QED BY <1>3, <2>4 DEF f, k
  <1>4. CASE ~ over
    <2>1. k.go => Measure(k) < Measure(m)
      <3>1. k.go => Measure(k) < Measure(n) BY <1>1 DEF DrainedOK
      <3>2. Measure(k) \in Nat
        <4>1. /\ Len(k.carry) \in Nat /\ Len(k.tcarry) \in Nat /\ Len(k.dec.buf) \in Nat
              /\ Rank(k.st) \in Nat
          BY <1>2, BufferFacts
        <4>2. \A a, b, c, d \in Nat : a + b + c + d \in Nat OBVIOUS
        <4> QED BY <4>1, <4>2 DEF Measure
      <3>3. \A a, b, c \in Nat : a < b /\ b <= c => a < c OBVIOUS
      <3> QED BY <3>1, <3>2, <3>3
    <2>2. Emits(m, k)
      <3>1. CASE Closes(n, k) BY <3>1 DEF Emits, Closes
      <3>2. CASE k.st = n.st /\ k.ev = n.ev BY <3>2 DEF Emits, Quiet
      <3> QED BY <1>1, <3>1, <3>2 DEF DrainedOK
    <2>3. ASSUME Tight(m) PROVE Tight(k)
      <3>1. CASE k.st = "Closed" BY <3>1 DEF Tight
      <3>2. CASE k.st # "Closed"
        <4>1. /\ k.dec = n.dec /\ k.tchunked = n.tchunked /\ k.hbytes = n.hbytes
              /\ TextLen(n.text) <= MaxTable => TextLen(k.text) <= MaxTable
              /\ ~ n.tchunked => k.tcarry = n.tcarry
              /\ ~ k.go => IF n.tchunked THEN k.carry = n.carry /\ Len(k.tcarry) <= MaxLine
                           ELSE Len(k.carry) <= MaxLine
          BY <1>1, <3>2 DEF DrainedOK
        <4>2. k.st = "Sourcetable" BY <1>1, <3>2 DEF DrainedOK, Closes
        <4>3. k.dec.finished => k.tchunked /\ k.go BY <1>4, <2>3, <3>2, <4>1
        <4>4. Len(<<>>) <= MaxLine BY DecoderAssumption, EmptyBytes
        <4>5. ~ k.go => Len(k.carry) <= MaxLine /\ Len(k.tcarry) <= MaxLine
          <5>1. CASE n.tchunked BY <4>1, <4>4, <5>1
          <5>2. CASE ~ n.tchunked
            <6>1. k.tcarry = <<>> BY <2>3, <4>1, <5>2
            <6> QED BY <4>1, <4>4, <5>2, <6>1
          <5> QED BY <5>1, <5>2
        <4> QED BY <2>3, <4>1, <4>2, <4>3, <4>5 DEF Tight
      <3> QED BY <3>1, <3>2
    <2>4. RoundOK(m, k) BY <1>2, <2>1, <2>2, <2>3 DEF RoundOK
    <2> QED BY <1>4, <2>4 DEF k
  <1> QED BY <1>3, <1>4

(* The measure is a number.                                                  *)
LEMMA MeasureFacts ==
    ASSUME NEW m, MachineOK(m)
    PROVE  /\ Measure(m) \in Nat
           /\ Len(m.carry) + Len(m.tcarry) + Len(m.dec.buf) \in Nat
           /\ Measure(m) <= Len(m.carry) + Len(m.tcarry) + Len(m.dec.buf) + 2
  <1>1. /\ Len(m.carry) \in Nat /\ Len(m.tcarry) \in Nat /\ Len(m.dec.buf) \in Nat
        /\ Rank(m.st) \in 0..2
    BY BufferFacts
  <1>2. \A a, b, c \in Nat, d \in 0..2 :
           a + b + c + d \in Nat /\ a + b + c \in Nat /\ a + b + c + d <= a + b + c + 2
    OBVIOUS
  <1> QED BY <1>1, <1>2 DEF Measure

(* drain_sourcetable.                                                        *)
LEMMA DrainSourcetableIsRound ==
    ASSUME NEW m, MachineOK(m), m.st = "Sourcetable", m.go
    PROVE  RoundOK(m, DrainSourcetable(m))
  <1> DEFINE r == DrainSourcetable(m)
  <1>1. PICK d : d = Decode(m.dec, m.carry) OBVIOUS
  <1>2. /\ m \in MachineType /\ m.dec \in DecoderType /\ DecoderInv(m.dec) /\ ~ m.dec.more
        /\ m.carry \in Bytes /\ Len(m.carry) \in Nat
        /\ m.tcarry \in Bytes /\ Len(m.tcarry) \in Nat /\ Len(m.dec.buf) \in Nat
    BY BufferFacts DEF MachineOK
  <1>3. CASE ~ m.tchunked \/ m.carry = <<>>
    <2> DEFINE k == DrainSourcetableLine(m)
               x == IF k.go \/ k.st = "Closed" \/ ~ m.tchunked \/ ~ m.dec.finished
                    THEN k ELSE FlushSourcetable(k)
    <2>1. r = x BY <1>3 DEF DrainSourcetable
    <2>2. Measure(m) \in Nat /\ Measure(m) <= Measure(m)
      <3>1. \A a \in Nat : a <= a OBVIOUS
      <3> QED BY <3>1, MeasureFacts
    <2>3. m.tchunked => m.carry = <<>> BY <1>3
    <2>4. Tight(m) => /\ m.hbytes <= MaxHeaders /\ TextLen(m.text) <= MaxTable
                      /\ ~ m.tchunked => m.tcarry = <<>>
                      /\ ~ m.dec.poison /\ (m.dec.finished => m.tchunked)
      BY DEF Tight
    <2>5. RoundOK(m, x) BY <2>2, <2>3, <2>4, DrainLinesIsRound
    <2> QED BY <2>1, <2>5
  <1>4. CASE m.tchunked /\ m.carry # <<>>
    <2> DEFINE e == Taken(d)
               n == [m EXCEPT !.carry = <<>>, !.dec = e, !.tcarry = m.tcarry \o d.out]
               k == DrainSourcetableLine(n)
               x == IF k.go \/ k.st = "Closed" \/ ~ n.tchunked \/ ~ n.dec.finished
                    THEN k ELSE FlushSourcetable(k)
    <2>1. r = IF d.poison THEN Close(n, "StreamCorrupted", <<>>) ELSE x
      BY <1>1, <1>4 DEF DrainSourcetable
    <2>2. /\ DecoderInv(d) /\ ~ d.more
          /\ Len(d.buf) + Len(d.out) <= Len(m.dec.buf) + Len(m.carry)
      BY <1>1, <1>2, DecodeFacts
    <2>3. /\ d \in DecoderType /\ d.out \in Bytes
          /\ Len(d.buf) \in Nat /\ Len(d.out) \in Nat
      BY <2>2 DEF DecoderInv, DecoderType, Bytes
    <2>4. m.tcarry \o d.out \in Bytes /\ Len(m.tcarry \o d.out) = Len(m.tcarry) + Len(d.out)
      BY <1>2, <2>3, ConcatProperties DEF Bytes
    <2>12. /\ DecoderInv(e) /\ ~ e.more /\ e.buf = d.buf /\ e.poison = d.poison
          /\ e.finished = d.finished
      BY <2>2, TakenFacts
    <2> HIDE DEF n, r, e
    <2>13. e \in DecoderType BY <2>12 DEF DecoderInv
    <2>5. n \in MachineType BY <1>2, <2>13, <2>4, EmptyBytes DEF MachineType, n
    <2>6. /\ n.carry = <<>> /\ n.dec = e /\ n.tcarry = m.tcarry \o d.out
          /\ n.ev = m.ev /\ n.st = m.st /\ n.go = m.go /\ n.hbytes = m.hbytes
          /\ n.text = m.text /\ n.tchunked = m.tchunked
      BY <1>2 DEF MachineType, n
    <2>7. MachineOK(n) BY <2>12, <2>5, <2>6 DEF MachineOK
    <2>8. Len(n.carry) + Len(n.tcarry) + Len(n.dec.buf)
            <= Len(m.carry) + Len(m.tcarry) + Len(m.dec.buf)
      <3>1. Len(n.carry) = 0 /\ Len(n.tcarry) = Len(m.tcarry) + Len(d.out)
            /\ Len(n.dec.buf) = Len(d.buf)
        BY <2>4, <2>6, <2>12, EmptyBytes
      <3>2. \A a, b, c, p, q \in Nat : p + q <= c + a => 0 + (b + q) + p <= a + b + c OBVIOUS
      <3> QED BY <1>2, <2>2, <2>3, <3>1, <3>2
    <2>9. CASE d.poison
      <3>1. r = Close(n, "StreamCorrupted", <<>>) BY <2>1, <2>9
      <3>2. "StreamCorrupted" \in Ends /\ <<>> \in Details BY EmptyBytes DEF Ends, Details
      <3>3. RoundOK(m, Close(n, "StreamCorrupted", <<>>)) BY <2>6, <2>7, <2>8, <3>2, CloseIsRound
      <3> QED BY <3>1, <3>3 DEF r
    <2>10. CASE ~ d.poison
      <3>1. r = x BY <2>1, <2>10
      <3>2. Measure(n) \in Nat /\ Measure(m) \in Nat BY <2>7, MeasureFacts
      <3>3. Measure(n) <= Measure(m)
        <4> DEFINE p == Len(n.carry) + Len(n.tcarry) + Len(n.dec.buf)
                   q == Len(m.carry) + Len(m.tcarry) + Len(m.dec.buf)
        <4>1. p \in Nat /\ q \in Nat /\ p <= q BY <2>7, <2>8, MeasureFacts
        <4>2. Rank(n.st) = Rank(m.st) /\ Rank(m.st) = 1 BY <2>6 DEF Rank
        <4>3. Measure(n) = p + 1 /\ Measure(m) = q + 1 BY <4>2 DEF Measure
        <4> HIDE DEF p, q
        <4> QED BY <4>1, <4>3
      <3>4. Tight(m) => /\ n.hbytes <= MaxHeaders /\ TextLen(n.text) <= MaxTable
                        /\ ~ n.tchunked => n.tcarry = <<>>
                        /\ ~ n.dec.poison /\ (n.dec.finished => n.tchunked)
        BY <1>4, <2>6, <2>12, <2>10 DEF Tight
      <3>5. n.st = m.st /\ n.go /\ n.ev = m.ev /\ (n.tchunked => n.carry = <<>>) BY <2>6
      <3>6. RoundOK(m, x) BY <2>7, <3>2, <3>3, <3>4, <3>5, DrainLinesIsRound
      <3> QED BY <3>1, <3>6 DEF r
    <2> QED BY <2>9, <2>10 DEF r
  <1> QED BY <1>3, <1>4

-----------------------------------------------------------------------------
(* The calls *)

(* Every round of push.                                                      *)
LEMMA PushIterIsRound ==
    ASSUME NEW m, MachineOK(m), m.go
    PROVE  RoundOK(m, PushIter(m))
  <1>1. m \in MachineType /\ m.st \in States BY DEF MachineOK, MachineType
  <1>2. CASE m.st = "Idle"
    <2> DEFINE n == [m EXCEPT !.st = "AwaitingStatus"]
    <2>1. PushIter(m) = n BY <1>2 DEF PushIter
    <2>2. n \in MachineType BY <1>1 DEF MachineType, States
    <2>3. /\ n.st = "AwaitingStatus" /\ n.carry = m.carry /\ n.tcarry = m.tcarry
          /\ n.ev = m.ev /\ n.dec = m.dec /\ n.go = m.go /\ n.hbytes = m.hbytes
          /\ n.text = m.text /\ n.tchunked = m.tchunked
      BY <1>1 DEF MachineType
    <2> HIDE DEF n
    <2>4. MachineOK(n) BY <2>2, <2>3 DEF MachineOK
    <2>5. Emits(m, n) BY <2>3 DEF Emits, Quiet
    <2>6. Tight(m) => Tight(n) BY <1>2, <2>3 DEF Tight
    <2>7. Measure(n) < Measure(m)
      <3> DEFINE p == Len(m.carry) + Len(m.tcarry) + Len(m.dec.buf)
      <3>1. p \in Nat BY MeasureFacts
      <3>2. Measure(n) = p + 1 /\ Measure(m) = p + 2 BY <1>2, <2>3 DEF Measure, Rank
      <3> HIDE DEF p
      <3> QED BY <3>1, <3>2
    <2> QED BY <2>1, <2>4, <2>5, <2>6, <2>7 DEF RoundOK
  <1>3. CASE m.st = "AwaitingStatus"
    <2>1. PushIter(m) = ParseStatus(m) BY <1>3 DEF PushIter
    <2> QED BY <1>3, <2>1, ParseStatusIsRound
  <1>4. CASE m.st = "AwaitingHeaders"
    <2>1. PushIter(m) = ParseHeaders(m) BY <1>4 DEF PushIter
    <2> QED BY <1>4, <2>1, ParseHeadersIsRound
  <1>5. CASE m.st = "Streaming"
    <2>1. PushIter(m) = DrainPayload(m) BY <1>5 DEF PushIter
    <2> QED BY <1>5, <2>1, DrainPayloadIsRound
  <1>6. CASE m.st = "Sourcetable"
    <2>1. PushIter(m) = DrainSourcetable(m) BY <1>6 DEF PushIter
    <2> QED BY <1>6, <2>1, DrainSourcetableIsRound
  <1>7. CASE m.st = "Closed"
    <2>1. PushIter(m) = Wait(m) BY <1>7 DEF PushIter
    <2>2. Tight(Wait(m))
      <3>1. Wait(m).st = "Closed" BY <1>7, WaitFacts
      <3> QED BY <3>1 DEF Tight
    <2> QED BY <2>1, <2>2, WaitIsRound
  <1> QED BY <1>1, <1>2, <1>3, <1>4, <1>5, <1>6, <1>7 DEF States

(* The history of a call of push that began in the machine s: payload and a  *)
(* streaming machine come after a response was accepted, and a machine that  *)
(* closed said with which event.                                             *)
Accepted(s, m, i) == s.st = "Streaming" \/ \E j \in 1..i : m.ev[j][1] = "Connected"
History(s, m) ==
    /\ m.st = "Streaming" => Accepted(s, m, Len(m.ev))
    /\ \A i \in 1..Len(m.ev) : m.ev[i][1] = "Payload" => Accepted(s, m, i - 1)
    /\ m.st = "Closed" => \E i \in 1..Len(m.ev) : m.ev[i][1] \in Ends

(* What was accepted stays so when events are appended.                      *)
LEMMA HistoryGrows ==
    ASSUME NEW s, NEW m, MachineOK(m), History(s, m),
           NEW n, NEW e, n.ev = Append(m.ev, e),
           e[1] = "Payload" => Accepted(s, m, Len(m.ev)),
           n.st = "Streaming" => e[1] = "Connected" \/ Accepted(s, m, Len(m.ev)),
           n.st = "Closed" => e[1] \in Ends
    PROVE  History(s, n)
  <1>1. m.ev \in Seq(Events) /\ Len(m.ev) \in Nat BY DEF MachineOK, MachineType
  <1>2. /\ Len(n.ev) = Len(m.ev) + 1 /\ n.ev[Len(m.ev) + 1] = e
        /\ \A i \in 1..Len(m.ev) : n.ev[i] = m.ev[i]
    BY <1>1
  <1> DEFINE k == Len(m.ev)
  <1>3. k \in Nat /\ Len(n.ev) = k + 1 /\ n.ev[k + 1] = e BY <1>1, <1>2
  <1>4. \A i \in 0..k : Accepted(s, m, i) => Accepted(s, n, i) /\ Accepted(s, n, k + 1)
    <2> SUFFICES ASSUME NEW i \in 0..k, Accepted(s, m, i)
                 PROVE  Accepted(s, n, i) /\ Accepted(s, n, k + 1)
      OBVIOUS
    <2>1. CASE s.st = "Streaming" BY <2>1 DEF Accepted
    <2>2. CASE s.st # "Streaming"
      <3>1. PICK j \in 1..i : m.ev[j][1] = "Connected" BY <2>2 DEF Accepted
      <3>2. j \in 1..k /\ j \in 1..(k + 1) BY <1>3
      <3>3. n.ev[j][1] = "Connected" BY <1>2, <3>1, <3>2
      <3> QED BY <3>1, <3>2, <3>3 DEF Accepted
    <2> QED BY <2>1, <2>2
  <1>5. \A i \in 1..k : n.ev[i] = m.ev[i] BY <1>2
  <1>6. /\ e[1] = "Payload" => Accepted(s, m, k)
        /\ n.st = "Streaming" => e[1] = "Connected" \/ Accepted(s, m, k)
        /\ \A i \in 1..k : m.ev[i][1] = "Payload" => Accepted(s, m, i - 1)
    BY DEF History
  <1> HIDE DEF k
  <1>7. k \in 0..k /\ k + 1 \in 1..(k + 1) /\ (k + 1) - 1 = k BY <1>3
  <1>8. n.st = "Streaming" => Accepted(s, n, k + 1)
    <2>1. e[1] = "Connected" => Accepted(s, n, k + 1) BY <1>3, <1>7 DEF Accepted
    <2> QED BY <1>4, <1>6, <1>7, <2>1
  <1>9. ASSUME NEW i \in 1..(k + 1), n.ev[i][1] = "Payload" PROVE Accepted(s, n, i - 1)
    <2>1. CASE i = k + 1 BY <1>3, <1>4, <1>6, <1>7, <1>9, <2>1
    <2>2. CASE i # k + 1
      <3>1. i \in 1..k /\ i - 1 \in 0..k BY <1>3, <2>2
      <3> QED BY <1>4, <1>5, <1>6, <1>9, <3>1
    <2> QED BY <2>1, <2>2
  <1>10. n.st = "Closed" => \E i \in 1..(k + 1) : n.ev[i][1] \in Ends BY <1>3, <1>7
  <1> QED BY <1>3, <1>8, <1>9, <1>10 DEF History, k

(* A round keeps the history.                                                *)
LEMMA HistoryKept ==
    ASSUME NEW s, NEW m, MachineOK(m), History(s, m), NEW n, Emits(m, n)
    PROVE  History(s, n)
  <1>1. CASE Quiet(m, n) BY <1>1 DEF Quiet, History, Accepted
  <1>2. CASE Connects(m, n)
    <2>1. PICK x : n.ev = Append(m.ev, <<"Connected", x>>) BY <1>2 DEF Connects
    <2>2. n.st = "Streaming" BY <1>2 DEF Connects
    <2> QED BY <2>1, <2>2, HistoryGrows
  <1>3. CASE Delivers(m, n)
    <2>1. PICK x : n.ev = Append(m.ev, <<"Payload", x>>) BY <1>3 DEF Delivers
    <2>2. n.st = "Streaming" /\ m.st = "Streaming" BY <1>3 DEF Delivers
    <2>3. Accepted(s, m, Len(m.ev)) BY <2>2 DEF History
    <2> QED BY <2>1, <2>2, <2>3, HistoryGrows
  <1>4. CASE Closes(m, n)
    <2>1. PICK k \in Ends : \E x : n.ev = Append(m.ev, <<k, x>>) BY <1>4 DEF Closes
    <2> PICK x : n.ev = Append(m.ev, <<k, x>>) BY <2>1
    <2>2. n.st = "Closed" /\ k # "Payload" BY <1>4 DEF Closes, Ends
    <2> QED BY <2>2, HistoryGrows
  <1>5. CASE DeliversLast(m, n)
    <2>1. PICK x : /\ n.ev = Append(Append(m.ev, <<"Payload", x>>), <<"StreamEnded", <<>> >>)
                   /\ <<"Payload", x>> \in Events
      BY <1>5 DEF DeliversLast
    <2>2. n.st = "Closed" /\ m.st = "Streaming" BY <1>5 DEF DeliversLast
    <2>3. Accepted(s, m, Len(m.ev)) BY <2>2 DEF History
    <2> DEFINE c == Emit(m, "Payload", x)
    <2>5. MachineOK(c) /\ c.ev = Append(m.ev, <<"Payload", x>>) /\ c.st = m.st
      BY <2>1, EmitFacts
    <2> HIDE DEF c
    <2>6. History(s, c) BY <2>2, <2>3, <2>5, HistoryGrows
    <2>7. PICK y : y = <<"StreamEnded", <<>> >> OBVIOUS
    <2>8. y[1] \in Ends /\ y[1] # "Payload" BY <2>7 DEF Ends
    <2>9. n.ev = Append(c.ev, y) BY <2>1, <2>5, <2>7
    <2>10. n.st # "Streaming" BY <2>2
    <2> QED BY <2>5, <2>6, <2>8, <2>9, <2>10, HistoryGrows
  <1> QED BY <1>1, <1>2, <1>3, <1>4, <1>5 DEF Emits

(* The machine after i rounds of a push that began in s, L bounding what     *)
(* there was to do.                                                          *)
MachineAfter(m, N) == Iterate(PushIter, m, N)
PushSoFar(s, m, i, L) ==
    /\ MachineOK(m)
    /\ m.go => Measure(m) + i <= L
    /\ Tight(s) => Tight(m)
    /\ History(s, m)

(* One more turn of the loop of push.                                       *)
LEMMA PushSoFarStep ==
    ASSUME NEW s, NEW m, NEW i \in Nat, NEW L \in Nat, PushSoFar(s, m, i, L)
    PROVE  PushSoFar(s, PushIter(m), i + 1, L)
  <1> DEFINE n == PushIter(m)
  <1>1. CASE m.go
    <2>1. MachineOK(m) /\ RoundOK(m, n) BY <1>1, PushIterIsRound DEF PushSoFar
    <2> HIDE DEF n
    <2>2. MachineOK(n) /\ Measure(m) \in Nat /\ Measure(n) \in Nat
      BY <2>1, MeasureFacts DEF RoundOK
    <2>3. \A a, b \in Nat : a < b /\ b + i <= L => a + (i + 1) <= L OBVIOUS
    <2>4. n.go => Measure(n) + (i + 1) <= L BY <1>1, <2>1, <2>2, <2>3 DEF PushSoFar, RoundOK
    <2>5. History(s, n) BY <2>1, HistoryKept DEF PushSoFar, RoundOK
    <2> QED BY <2>1, <2>2, <2>4, <2>5 DEF PushSoFar, RoundOK, n
  <1>2. CASE ~ m.go
    <2>1. n = m BY <1>2 DEF PushIter
    <2> HIDE DEF n
    <2> QED BY <1>2, <2>1 DEF PushSoFar, n
  <1> QED BY <1>1, <1>2

(* push runs its rounds one after the other.                                 *)
LEMMA PushSteps ==
    ASSUME NEW m, NEW N \in Nat
    PROVE  \E f : /\ f[0] = m /\ f[N] = MachineAfter(m, N)
                  /\ \A i \in 1..N : f[i] = PushIter(f[i - 1])
  <1> DEFINE Good(g, k) == g = [i \in 0..k |-> IF i = 0 THEN m ELSE PushIter(g[i - 1])]
             S == {k \in Nat : \E g : Good(g, k)}
  <1>1. 0 \in S
    <2> DEFINE g == [i \in 0..0 |-> m]
    <2>1. Good(g, 0) OBVIOUS
    <2> QED BY <2>1
  <1>2. ASSUME NEW n \in Nat, n \in S PROVE n + 1 \in S
    <2>1. PICK g : Good(g, n) BY <1>2
    <2> DEFINE h == [i \in 0..(n + 1) |-> IF i = n + 1 THEN PushIter(g[n]) ELSE g[i]]
    <2>2. ASSUME NEW i \in 0..(n + 1)
          PROVE  h[i] = IF i = 0 THEN m ELSE PushIter(h[i - 1])
      <3>1. CASE i = n + 1 BY <3>1
      <3>2. CASE i # n + 1
        <4>1. i \in 0..n BY <3>2
        <4>2. g[i] = IF i = 0 THEN m ELSE PushIter(g[i - 1]) BY <2>1, <4>1
        <4>3. h[i] = g[i] BY <3>2
        <4>4. CASE i = 0 BY <4>2, <4>3, <4>4
        <4>5. CASE i # 0
          <5>1. i - 1 \in 0..(n + 1) /\ i - 1 # n + 1 BY <4>1, <4>5
          <5>2. h[i - 1] = g[i - 1] BY <5>1
          <5> QED BY <4>2, <4>3, <4>5, <5>2
        <4> QED BY <4>4, <4>5
      <3> QED BY <3>1, <3>2
    <2>3. Good(h, n + 1) BY <2>2
    <2> HIDE DEF h
    <2> QED BY <2>3
  <1>3. N \in S BY <1>1, <1>2, SetInduction
  <1> DEFINE f == CHOOSE f : Good(f, N)
  <1>4. Good(f, N) BY <1>3
  <1>5. MachineAfter(m, N) = f[N] BY DEF MachineAfter, Iterate
  <1> HIDE DEF f
  <1>6. f[0] = m BY <1>4
  <1>7. \A i \in 1..N : f[i] = PushIter(f[i - 1]) BY <1>4
  <1> QED BY <1>5, <1>6, <1>7

(* push returns after finitely many rounds, and what it returns is in order. *)
LEMMA PushFacts ==
    ASSUME NEW m, MachineOK(m), ~ m.go, NEW bytes \in Bytes
    PROVE  LET e == Push(m, bytes)
           IN  /\ MachineOK(e) /\ ~ e.go
               /\ Tight(m) => Tight(e)
               /\ m.st = "Closed" => e.st = "Closed" /\ e.ev = <<>>
               /\ m.st # "Closed" => History(m, e)
  <1> DEFINE e == Push(m, bytes)
  <1>1. m \in MachineType /\ m.carry \in Bytes /\ Len(m.carry) \in Nat BY BufferFacts DEF MachineOK
  <1>2. <<>> \in Seq(Events) OBVIOUS
  <1>3. CASE m.st = "Closed"
    <2>1. e = [m EXCEPT !.ev = <<>>] BY <1>3 DEF Push
    <2> HIDE DEF e
    <2>2. e \in MachineType BY <1>1, <1>2, <2>1 DEF MachineType
    <2>3. e.st = m.st /\ e.ev = <<>> /\ e.go = m.go /\ e.dec = m.dec BY <1>1, <2>1 DEF MachineType
    <2>4. MachineOK(e) BY <2>2, <2>3 DEF MachineOK
    <2> QED BY <1>3, <2>3, <2>4 DEF Tight, e
  <1>4. CASE m.st # "Closed"
    <2> DEFINE n == [m EXCEPT !.carry = m.carry \o bytes, !.ev = <<>>, !.go = TRUE]
               K == Len(n.carry) + Len(n.tcarry) + Len(n.dec.buf)
    <2>1. e = MachineAfter(n, K + 4) BY <1>4 DEF Push, MachineAfter
    <2>2. m.carry \o bytes \in Bytes BY <1>1, ConcatProperties DEF Bytes
    <2> HIDE DEF n, e
    <2>3. n \in MachineType BY <1>1, <1>2, <2>2 DEF MachineType, n
    <2>4. /\ n.ev = <<>> /\ n.go /\ n.st = m.st /\ n.dec = m.dec /\ n.tcarry = m.tcarry
          /\ n.hbytes = m.hbytes /\ n.text = m.text /\ n.tchunked = m.tchunked
      BY <1>1 DEF MachineType, n
    <2>5. MachineOK(n) BY <2>3, <2>4 DEF MachineOK
    <2>6. K \in Nat /\ Measure(n) \in Nat /\ Measure(n) <= K + 2 BY <2>5, MeasureFacts
    <2> DEFINE L == K + 3
    <2> HIDE DEF K
    <2>7. L \in Nat /\ L + 1 \in Nat /\ L + 1 = K + 4 BY <2>6
    <2>8. PushSoFar(m, n, 0, L)
      <3>1. \A a \in Nat : a <= K + 2 => a + 0 <= K + 3 BY <2>6
      <3>2. Measure(n) + 0 <= L BY <2>6, <3>1
      <3>3. History(m, n) BY <1>4, <2>4, EmptyBytes DEF History, Accepted
      <3>4. Tight(m) => Tight(n) BY <2>4 DEF Tight
      <3> QED BY <2>5, <3>2, <3>3, <3>4 DEF PushSoFar
    <2> HIDE DEF L
    <2>9. PICK f : /\ f[0] = n /\ f[L + 1] = MachineAfter(n, L + 1)
                   /\ \A i \in 1..(L + 1) : f[i] = PushIter(f[i - 1])
      <3>1. \A N \in Nat : \E f : /\ f[0] = n /\ f[N] = MachineAfter(n, N)
                                   /\ \A i \in 1..N : f[i] = PushIter(f[i - 1])
        BY PushSteps
      <3> QED BY <2>7, <3>1
    <2>10. f[L + 1] = e BY <2>1, <2>7, <2>9
    <2> DEFINE S == {i \in Nat : i <= L + 1 => PushSoFar(m, f[i], i, L)}
    <2>11. 0 \in S BY <2>8, <2>9
    <2>12. ASSUME NEW i \in Nat, i \in S PROVE i + 1 \in S
      <3>1. SUFFICES ASSUME i + 1 <= L + 1 PROVE PushSoFar(m, f[i + 1], i + 1, L)
        OBVIOUS
      <3>2. i <= L + 1 /\ i + 1 \in 1..(L + 1) /\ (i + 1) - 1 = i BY <2>7, <3>1
      <3>3. PushSoFar(m, f[i], i, L) BY <2>12, <3>2
      <3>4. f[i + 1] = PushIter(f[i]) BY <2>9, <3>2
      <3> QED BY <2>7, <3>3, <3>4, PushSoFarStep
    <2>13. Nat \subseteq S BY <2>11, <2>12, SetInduction
    <2>14. PushSoFar(m, e, L + 1, L)
      <3>1. L + 1 \in S /\ L + 1 <= L + 1 BY <2>7, <2>13
      <3> QED BY <2>10, <3>1
    <2>15. ~ e.go
      <3>1. Measure(e) \in Nat BY <2>14, MeasureFacts DEF PushSoFar
      <3>2. \A a \in Nat : ~ (a + (L + 1) <= L) BY <2>7
      <3> QED BY <2>14, <3>1, <3>2 DEF PushSoFar
    <2> QED BY <1>4, <2>14, <2>15 DEF PushSoFar, e
  <1> QED BY <1>3, <1>4

(* finish: a table that was still read is complete.                          *)
LEMMA FinishFacts ==
    ASSUME NEW m, MachineOK(m), ~ m.go
    PROVE  LET e == Finish(m)
           IN  /\ MachineOK(e) /\ ~ e.go
               /\ Tight(m) => Tight(e)
  <1> DEFINE e == Finish(m)
  <1>1. /\ m \in MachineType /\ m.carry \in Bytes /\ m.tcarry \in Bytes
    BY BufferFacts DEF MachineOK
  <1>2. <<>> \in Seq(Events) OBVIOUS
  <1>3. CASE m.st # "Sourcetable"
    <2>1. e = [m EXCEPT !.ev = <<>>] BY <1>3 DEF Finish
    <2> HIDE DEF e
    <2>2. e \in MachineType BY <1>1, <1>2, <2>1 DEF MachineType
    <2>3. /\ e.st = m.st /\ e.go = m.go /\ e.dec = m.dec /\ e.carry = m.carry
          /\ e.tcarry = m.tcarry /\ e.hbytes = m.hbytes /\ e.text = m.text
          /\ e.tchunked = m.tchunked
      BY <1>1, <2>1 DEF MachineType
    <2>4. MachineOK(e) BY <2>2, <2>3 DEF MachineOK
    <2> QED BY <2>3, <2>4 DEF Tight, e
  <1>4. CASE m.st = "Sourcetable"
    <2>1. PICK last : last = IF m.tchunked THEN m.tcarry ELSE m.carry OBVIOUS
    <2>2. PICK t : t = IF m.tchunked THEN <<>> ELSE m.tcarry OBVIOUS
    <2>3. PICK c : c = IF m.tchunked THEN m.carry ELSE <<>> OBVIOUS
    <2>4. PICK n : n = [m EXCEPT !.ev = <<>>, !.tcarry = t, !.carry = c] OBVIOUS
    <2>5. PICK p : p = IF last = <<>> THEN n ELSE PushSourcetableLine(n, last) OBVIOUS
    <2>6. e = IF p.st = "Closed" THEN p ELSE FinishSourcetable(p)
      BY <1>4, <2>1, <2>2, <2>3, <2>4, <2>5 DEF Finish
    <2> HIDE DEF e
    <2>7. last \in Bytes /\ t \in Bytes /\ c \in Bytes BY <1>1, <2>1, <2>2, <2>3, EmptyBytes
    <2>8. n \in MachineType BY <1>1, <1>2, <2>4, <2>7 DEF MachineType
    <2>9. n.st = m.st /\ n.go = m.go /\ n.dec = m.dec BY <1>1, <2>4 DEF MachineType
    <2>10. MachineOK(n) BY <2>8, <2>9 DEF MachineOK
    <2>11. MachineOK(p) /\ p.go = m.go
      <3>1. CASE last = <<>> BY <2>5, <2>9, <2>10, <3>1
      <3>2. CASE last # <<>>
        <4>1. p = PushSourcetableLine(n, last) BY <2>5, <3>2
        <4> QED BY <2>7, <2>9, <2>10, <4>1, PushLineFacts
      <3> QED BY <3>1, <3>2
    <2>12. MachineOK(e) /\ e.go = m.go /\ e.st = "Closed"
      <3>1. CASE p.st = "Closed" BY <2>6, <2>11, <3>1
      <3>2. CASE p.st # "Closed"
        <4>1. e = Close(p, "Sourcetable", p.text) BY <2>6, <3>2 DEF FinishSourcetable
        <4>2. p.text \in Details /\ "Sourcetable" \in Ends
          BY <2>11 DEF MachineOK, MachineType, Details, Ends
        <4> QED BY <2>11, <4>1, <4>2, CloseFacts
      <3> QED BY <3>1, <3>2
    <2> QED BY <2>12 DEF Tight, e
  <1> QED BY <1>3, <1>4

(* A new machine, connection_request and a GGA message.                      *)
LEMMA NewMachineFacts == MachineOK(NewMachine) /\ ~ NewMachine.go /\ Tight(NewMachine)
  <1>1. NewDecoder \in DecoderType BY EmptyBytes DEF NewDecoder, DecoderType
  <1>2. DecoderInv(NewDecoder) /\ ~ NewDecoder.more
        /\ ~ NewDecoder.poison /\ ~ NewDecoder.finished
    BY <1>1, EmptyBytes, DecoderAssumption DEF NewDecoder, DecoderInv, Kept
  <1>3. <<>> \in Seq(Bytes) /\ <<>> \in Seq(Events) OBVIOUS
  <1> HIDE DEF NewDecoder
  <1>4. NewMachine \in MachineType
    BY <1>1, <1>3, EmptyBytes DEF NewMachine, MachineType, States, Never
  <1>5. TextLen(<<>>) = 0 BY <1>3, TextLenFacts
  <1>6. Len(<<>>) <= MaxLine /\ 0 <= MaxTable /\ 0 <= MaxHeaders
    BY DecoderAssumption, MachineAssumption, EmptyBytes
  <1>7. Tight(NewMachine) BY <1>2, <1>5, <1>6 DEF NewMachine, Tight
  <1>8. MachineOK(NewMachine) /\ ~ NewMachine.go BY <1>2, <1>4 DEF NewMachine, MachineOK
  <1> QED BY <1>7, <1>8

(* connection_request leaves a machine between calls that awaits a status.  *)
LEMMA RequestFacts ==
    ASSUME NEW m, MachineOK(m), ~ m.go
    PROVE  LET n == ConnectionRequest(m)
           IN  MachineOK(n) /\ ~ n.go /\ n.st = "AwaitingStatus"
  <1> DEFINE n == ConnectionRequest(m)
  <1>1. m \in MachineType BY DEF MachineOK
  <1>2. n = [m EXCEPT !.st = "AwaitingStatus"] BY DEF ConnectionRequest
  <1> HIDE DEF n
  <1>3. n \in MachineType BY <1>1, <1>2 DEF MachineType, States
  <1>4. n.st = "AwaitingStatus" /\ n.go = m.go /\ n.dec = m.dec BY <1>1, <1>2 DEF MachineType
  <1> QED BY <1>3, <1>4 DEF MachineOK, n

(* try_gga_message notes the time and nothing else.                         *)
LEMMA GgaFacts ==
    ASSUME NEW m, MachineOK(m), ~ m.go, NEW now \in Int
    PROVE  LET n == GgaMessage(m, now)
           IN  MachineOK(n) /\ ~ n.go /\ n.st = m.st
  <1> DEFINE n == GgaMessage(m, now)
  <1>1. m \in MachineType BY DEF MachineOK
  <1>2. n = [m EXCEPT !.lastGga = now] BY DEF GgaMessage
  <1> HIDE DEF n
  <1>3. n \in MachineType BY <1>1, <1>2 DEF MachineType
  <1>4. n.st = m.st /\ n.go = m.go /\ n.dec = m.dec BY <1>1, <1>2 DEF MachineType
  <1> QED BY <1>3, <1>4 DEF MachineOK, n

-----------------------------------------------------------------------------
(* Lines that come in two pieces *)

(* What is read first is followed by what is read next.                      *)
LEMMA MoreBytes ==
    ASSUME NEW s \in Bytes, NEW t \in Bytes
    PROVE  /\ s \o t \in Bytes /\ Len(s) \in Nat /\ Len(t) \in Nat
           /\ Len(s \o t) = Len(s) + Len(t)
           /\ \A i \in 1..Len(s) : (s \o t)[i] = s[i]
  <1>1. Len(s) \in Nat /\ Len(t) \in Nat BY DEF Bytes
  <1>2. /\ s \o t \in Bytes /\ Len(s \o t) = Len(s) + Len(t)
        /\ \A i \in 1..(Len(s) + Len(t)) : (s \o t)[i] = IF i <= Len(s) THEN s[i] ELSE t[i - Len(s)]
    BY ConcatProperties DEF Bytes
  <1>3. \A i \in 1..Len(s) : i \in 1..(Len(s) + Len(t)) /\ i <= Len(s) BY <1>1
  <1> QED BY <1>1, <1>2, <1>3

(* Concatenation of three pieces.                                           *)
LEMMA PiecesAssociate ==
    ASSUME NEW a \in Bytes, NEW b \in Bytes, NEW c \in Bytes
    PROVE  (a \o b) \o c = a \o (b \o c)
  BY ConcatAssociative DEF Bytes

(* The beginning of two pieces, when it is of the first.                    *)
LEMMA FirstPart ==
    ASSUME NEW s \in Bytes, NEW t \in Bytes, NEW n \in 0..Len(s)
    PROVE  SubSeq(s \o t, 1, n) = SubSeq(s, 1, n)
  <1>1. Len(s) \in Nat BY DEF Bytes
  <1>2. CASE n = 0
    <2>1. SubSeq(s \o t, 1, 0) = <<>> /\ SubSeq(s, 1, 0) = <<>> BY SubSeqEmpty
    <2> QED BY <1>2, <2>1
  <1>3. CASE n # 0
    <2>1. 1 \in 1..Len(s) /\ n \in 1..Len(s) BY <1>1, <1>3
    <2> QED BY <2>1, SubSeqOfConcat1 DEF Bytes
  <1> QED BY <1>2, <1>3

(* What two pieces have from a place of the first on.                       *)
LEMMA LastPart ==
    ASSUME NEW s \in Bytes, NEW t \in Bytes, NEW n \in 1..(Len(s) + 1)
    PROVE  SubSeq(s \o t, n, Len(s \o t)) = SubSeq(s, n, Len(s)) \o t
  <1> DEFINE w == s \o t
             k == Len(s)
             l == Len(w)
  <1>1. w \in Bytes /\ k \in Nat /\ l \in Nat /\ l = k + Len(t) /\ Len(t) \in Nat BY MoreBytes
  <1>2. SubSeq(w, n, k) = SubSeq(s, n, k)
    <2>1. CASE n = k + 1
      <3>1. SubSeq(w, n, k) = <<>> /\ SubSeq(s, n, k) = <<>> BY <1>1, <2>1, SubSeqEmpty
      <3> QED BY <3>1
    <2>2. CASE n # k + 1
      <3>1. n \in 1..k /\ k \in 1..k BY <1>1, <2>2
      <3> QED BY <3>1, SubSeqOfConcat1 DEF Bytes
    <2> QED BY <2>1, <2>2
  <1>3. SubSeq(w, k + 1, l) = t
    <2>1. CASE Len(t) = 0
      <3>1. SubSeq(w, k + 1, l) = <<>> BY <1>1, <2>1, SubSeqEmpty
      <3>2. t = <<>> BY <2>1, EmptySeq DEF Bytes
      <3> QED BY <3>1, <3>2
    <2>2. CASE Len(t) # 0
      <3>1. k + 1 \in (k + 1)..(k + Len(t)) /\ l \in (k + 1)..(k + Len(t)) BY <1>1, <2>2
      <3>2. (k + 1) - k = 1 /\ l - k = Len(t) BY <1>1
      <3>3. SubSeq(w, k + 1, l) = SubSeq(t, (k + 1) - k, l - k)
        BY <3>1, SubSeqOfConcat2 DEF Bytes
      <3>4. SubSeq(t, 1, Len(t)) = t BY SubSeqFull DEF Bytes
      <3> QED BY <3>2, <3>3, <3>4
    <2> QED BY <2>1, <2>2
  <1>4. SubSeq(w, n, k) \o SubSeq(w, k + 1, l) = SubSeq(w, n, l)
    <2>1. n \in 1..(l + 1) /\ k \in (n - 1)..l /\ l \in k..l BY <1>1
    <2>2. w \in Seq(Symbols) /\ l = Len(w) BY <1>1 DEF Bytes
    <2> HIDE DEF w, k, l
    <2> QED BY <2>1, <2>2, ConcatAdjacentSubSeq
  <1> QED BY <1>2, <1>3, <1>4

(* A line that has arrived is the same line whatever follows it.             *)
LEMMA LineStays ==
    ASSUME NEW s \in Bytes, NEW t \in Bytes, HasLine(s)
    PROVE  /\ HasLine(s \o t) /\ Line(s \o t) = Line(s)
           /\ AfterLine(s \o t) = AfterLine(s) \o t
  <1> DEFINE I == {i \in 1..Len(s) : s[i] = LF}
             J == {i \in 1..Len(s \o t) : (s \o t)[i] = LF}
  <1>1. /\ s \o t \in Bytes /\ Len(s) \in Nat /\ Len(t) \in Nat
        /\ Len(s \o t) = Len(s) + Len(t)
        /\ \A i \in 1..Len(s) : (s \o t)[i] = s[i]
    BY MoreBytes
  <1>2. I # {} /\ I \subseteq Nat /\ J \subseteq Nat BY DEF HasLine, Contains
  <1>3. I \subseteq J BY <1>1
  <1>4. J # {} BY <1>2, <1>3
  <1>5. LineEnd(s) = Min(I) BY <1>2 DEF LineEnd, SelectInSeq
  <1>6. LineEnd(s \o t) = Min(J) BY <1>4 DEF LineEnd, SelectInSeq
  <1>7. HasLine(s \o t) BY <1>4 DEF HasLine, Contains
  <1>8. Min(I) \in I /\ \A y \in I : Min(I) <= y BY <1>2, MinIsLeast
  <1>9. Min(J) \in J /\ \A y \in J : Min(J) <= y BY <1>2, <1>4, MinIsLeast
  <1> DEFINE a == Min(I)
             b == Min(J)
  <1>10. a \in 1..Len(s) /\ a \in J BY <1>3, <1>8
  <1>11. b \in 1..(Len(s) + Len(t)) /\ b <= a BY <1>1, <1>9, <1>10
  <1> HIDE DEF a, b
  <1>12. b \in 1..Len(s) BY <1>1, <1>10, <1>11
  <1>13. b \in I BY <1>1, <1>9, <1>12 DEF b
  <1>14. a <= b BY <1>8, <1>13 DEF a
  <1>15. a = b BY <1>1, <1>10, <1>11, <1>12, <1>14
  <1> HIDE DEF I, J
  <1>16. LineEnd(s) = a /\ LineEnd(s \o t) = a BY <1>5, <1>6, <1>15 DEF a, b
  <1>17. a - 1 \in 0..Len(s) /\ a + 1 \in 1..(Len(s) + 1) BY <1>1, <1>10
  <1>18. SubSeq(s \o t, 1, a - 1) = SubSeq(s, 1, a - 1) BY <1>17, FirstPart
  <1>19. SubSeq(s \o t, a + 1, Len(s \o t)) = SubSeq(s, a + 1, Len(s)) \o t
    BY <1>17, LastPart
  <1> QED BY <1>7, <1>16, <1>18, <1>19 DEF Line, AfterLine

(* The first symbol stays, and what follows it grows.                        *)
LEMMA TailStays ==
    ASSUME NEW s \in Bytes, NEW t \in Bytes, s # <<>>
    PROVE  /\ s \o t # <<>> /\ (s \o t)[1] = s[1] /\ Tail(s \o t) = Tail(s) \o t
           /\ Tail(s) \in Bytes
  <1>1. Len(s) \in Nat \ {0} /\ Len(s) \in Nat BY EmptySeq DEF Bytes
  <1>2. /\ s \o t \in Bytes /\ Len(s \o t) = Len(s) + Len(t) /\ Len(t) \in Nat
        /\ \A i \in 1..Len(s) : (s \o t)[i] = s[i]
    BY MoreBytes
  <1>3. s \o t # <<>> BY <1>1, <1>2, EmptyBytes
  <1>4. (s \o t)[1] = s[1] BY <1>1, <1>2
  <1>5. Tail(s) = SubSeq(s, 2, Len(s)) /\ Tail(s) \in Bytes
    BY TailIsSubSeq, HeadTailProperties DEF Bytes
  <1>6. Tail(s \o t) = SubSeq(s \o t, 2, Len(s \o t))
    BY <1>2, <1>3, TailIsSubSeq DEF Bytes
  <1>7. 2 \in 1..(Len(s) + 1) BY <1>1
  <1> QED BY <1>3, <1>4, <1>5, <1>6, <1>7, LastPart

-----------------------------------------------------------------------------
(* The chunked decoder, when the body comes in two pieces *)

(* The decoder with more to read; and one that waited for it.                *)
Fed(d, y) == [d EXCEPT !.buf = @ \o y]

(* A decoder is pushed y, as push does before its first step.               *)
Resumed(d, y) == [d EXCEPT !.buf = @ \o y, !.more = TRUE]

(* A line that is given up before it has ended.                              *)
LineGivenUp(s) == ~ HasLine(s) /\ Len(s) > MaxLine

(* The decoder was poisoned over a line whose end it has not seen.          *)
DecoderGaveUp(d) == d.poison /\ d.st # "DataLineEnd" /\ LineGivenUp(d.buf)

(* A decoder that is about to take a step.                                  *)
Working(d) == DecoderInv(d) /\ d.more /\ ~ d.poison /\ ~ d.finished

(* Two decoders with the same fields are the same.                           *)
LEMMA SameDecoder ==
    ASSUME NEW d \in DecoderType, NEW e \in DecoderType, d.buf = e.buf, d.st = e.st,
           d.left = e.left, d.finished = e.finished, d.poison = e.poison,
           d.trailer = e.trailer, d.out = e.out, d.more = e.more
    PROVE  d = e
  BY DEF DecoderType

(* Fed adds to the buffer and to nothing else.                              *)
LEMMA FedFacts ==
    ASSUME NEW d \in DecoderType, NEW y \in Bytes
    PROVE  /\ Fed(d, y) \in DecoderType /\ Fed(d, y).buf = d.buf \o y /\ d.buf \o y \in Bytes
           /\ Fed(d, y).st = d.st /\ Fed(d, y).left = d.left /\ Fed(d, y).finished = d.finished
           /\ Fed(d, y).poison = d.poison /\ Fed(d, y).trailer = d.trailer
           /\ Fed(d, y).out = d.out /\ Fed(d, y).more = d.more
  <1>1. d.buf \in Bytes BY DEF DecoderType
  <1>2. d.buf \o y \in Bytes BY <1>1, MoreBytes
  <1>3. Fed(d, y) = [d EXCEPT !.buf = d.buf \o y] BY DEF Fed
  <1> QED BY <1>2, <1>3 DEF DecoderType

(* What the next step finds when more was read: the same, or what the step   *)
(* after it finds; and what a stop depends on.                               *)
GoesOn(d, n, y) ==
    /\ ~ n.poison /\ ~ n.finished
    /\ DecodeStep(Fed(d, y)) \in {Fed(n, y), DecodeStep(Fed(n, y))}

(* How a step ends: for good, over a line, or waiting for what comes.       *)
StopsAt(d, n, y) ==
    \/ DecoderGaveUp(n)
    \/ (n.poison \/ n.finished) /\ DecodeStep(Fed(d, y)) = Fed(n, y)
    \/ ~ n.poison /\ ~ n.finished /\ Resumed(n, y) = Fed(d, y)

(* The step a decoder takes, had it more to read.                           *)
StepWithMore(d, n, y) == IF n.more THEN GoesOn(d, n, y) ELSE StopsAt(d, n, y)

(* A decoder that waits goes on as if it had had all of it.                  *)
LEMMA BlockedWithMore ==
    ASSUME NEW d, Working(d), NEW y \in Bytes
    PROVE  StepWithMore(d, Blocked(d), y)
  <1> DEFINE n == Blocked(d)
  <1>1. d \in DecoderType /\ d.more = TRUE BY DEF Working, DecoderInv, DecoderType
  <1>2. n = [d EXCEPT !.more = FALSE] BY DEF Blocked
  <1> HIDE DEF n
  <1>3. n.more = FALSE /\ n.poison = d.poison /\ n.finished = d.finished /\ n.buf = d.buf
    BY <1>1, <1>2 DEF DecoderType
  <1>4. Resumed(n, y) = [n EXCEPT !.buf = d.buf \o y, !.more = TRUE] BY <1>3 DEF Resumed
  <1>5. Fed(d, y) = [d EXCEPT !.buf = d.buf \o y] BY DEF Fed
  <1>7. d.buf \o y \in Bytes BY <1>1, FedFacts
  <1>8. Resumed(n, y) \in DecoderType /\ Fed(d, y) \in DecoderType
    BY <1>1, <1>2, <1>4, <1>5, <1>7 DEF DecoderType
  <1>6. Resumed(n, y) = Fed(d, y)
    <2> DEFINE e == Resumed(n, y)
               g == Fed(d, y)
    <2>1. /\ e.buf = d.buf \o y /\ e.st = d.st /\ e.left = d.left /\ e.finished = d.finished
          /\ e.poison = d.poison /\ e.trailer = d.trailer /\ e.out = d.out /\ e.more = TRUE
      BY <1>1, <1>2, <1>4 DEF DecoderType
    <2>2. /\ g.buf = d.buf \o y /\ g.st = d.st /\ g.left = d.left /\ g.finished = d.finished
          /\ g.poison = d.poison /\ g.trailer = d.trailer /\ g.out = d.out /\ g.more = d.more
      BY <1>1, FedFacts
    <2> HIDE DEF e, g
    <2> QED BY <1>1, <1>8, <2>1, <2>2, SameDecoder DEF e, g
  <1> QED BY <1>3, <1>6 DEF StepWithMore, StopsAt, Working, n

(* What is refused is refused with more after it.                            *)
LEMMA PoisonWithMore ==
    ASSUME NEW d \in DecoderType, NEW y \in Bytes
    PROVE  /\ Poison(Fed(d, y)) = Fed(Poison(d), y)
           /\ Poison(d).poison = TRUE /\ Poison(d).more = FALSE
           /\ Poison(d).buf = d.buf /\ Poison(d).st = d.st
  <1>1. Fed(d, y) = [d EXCEPT !.buf = d.buf \o y] BY DEF Fed
  <1>2. Poison(d) = [d EXCEPT !.poison = TRUE, !.out = <<>>, !.more = FALSE] BY DEF Poison
  <1>3. Poison(d).buf = d.buf BY <1>2 DEF DecoderType
  <1>4. Fed(Poison(d), y) = [Poison(d) EXCEPT !.buf = d.buf \o y] BY <1>3 DEF Fed
  <1>5. Poison(Fed(d, y)) = [Fed(d, y) EXCEPT !.poison = TRUE, !.out = <<>>, !.more = FALSE]
    BY DEF Poison
  <1>7. d.buf \o y \in Bytes /\ Fed(d, y) \in DecoderType BY FedFacts
  <1>8. Poison(d) \in DecoderType /\ Poison(Fed(d, y)) \in DecoderType
    BY <1>2, <1>5, <1>7, EmptyBytes DEF DecoderType
  <1>6. Poison(Fed(d, y)) = Fed(Poison(d), y)
    <2> DEFINE p == Poison(d)
               e == Fed(p, y)
               f == Fed(d, y)
               g == Poison(f)
    <2>1. /\ p.buf = d.buf /\ p.st = d.st /\ p.left = d.left /\ p.finished = d.finished
          /\ p.poison = TRUE /\ p.trailer = d.trailer /\ p.out = <<>> /\ p.more = FALSE
      BY <1>2 DEF DecoderType
    <2>2. /\ e \in DecoderType /\ e.buf = p.buf \o y
          /\ e.st = p.st /\ e.left = p.left /\ e.finished = p.finished
          /\ e.poison = p.poison /\ e.trailer = p.trailer /\ e.out = p.out /\ e.more = p.more
      BY <1>8, FedFacts
    <2>3. /\ f.buf = d.buf \o y
          /\ f.st = d.st /\ f.left = d.left /\ f.finished = d.finished /\ f.trailer = d.trailer
      BY FedFacts
    <2>4. /\ g.buf = f.buf /\ g.st = f.st /\ g.left = f.left /\ g.finished = f.finished
          /\ g.poison = TRUE /\ g.trailer = f.trailer /\ g.out = <<>> /\ g.more = FALSE
      BY <1>5, <1>7 DEF DecoderType
    <2>5. g \in DecoderType BY <1>8
    <2> HIDE DEF p, e, f, g
    <2>6. /\ e.buf = g.buf /\ e.st = g.st /\ e.left = g.left /\ e.finished = g.finished
          /\ e.trailer = g.trailer /\ e.out = g.out
      BY <2>1, <2>2, <2>3, <2>4
    <2>7. e.poison = g.poison /\ e.more = g.more BY Zenon, <2>1, <2>2, <2>4
    <2>8. e = g BY <2>2, <2>5, <2>6, <2>7, SameDecoder
    <2> QED BY <2>8 DEF p, e, f, g
  <1> QED BY <1>2, <1>6 DEF DecoderType

(* A step that takes no line.                                                *)
LEMMA NoLineWithMore ==
    ASSUME NEW d, Working(d), NEW y \in Bytes, ~ HasLine(d.buf), d.st # "DataLineEnd"
    PROVE  StepWithMore(d, NoLineYet(d), y)
  <1>1. CASE Len(d.buf) > MaxLine
    <2>1. NoLineYet(d) = Poison(d) BY <1>1 DEF NoLineYet
    <2>2. d \in DecoderType BY DEF Working, DecoderInv
    <2>3. /\ Poison(d).poison = TRUE /\ Poison(d).more = FALSE
          /\ Poison(d).buf = d.buf /\ Poison(d).st = d.st
      BY <2>2, PoisonWithMore
    <2>4. DecoderGaveUp(Poison(d)) BY <1>1, <2>3 DEF DecoderGaveUp, LineGivenUp
    <2> QED BY <2>1, <2>3, <2>4 DEF StepWithMore, StopsAt
  <1>2. CASE ~ (Len(d.buf) > MaxLine)
    <2>1. NoLineYet(d) = Blocked(d) BY <1>2 DEF NoLineYet
    <2> QED BY <2>1, BlockedWithMore
  <1> QED BY <1>1, <1>2

(* A step that stops for good, whatever follows.                             *)
LEMMA RefusedWithMore ==
    ASSUME NEW d, Working(d), NEW y \in Bytes, DecodeStep(Fed(d, y)) = Poison(Fed(d, y))
    PROVE  StepWithMore(d, Poison(d), y)
  <1>1. d \in DecoderType BY DEF Working, DecoderInv
  <1> QED BY <1>1, PoisonWithMore DEF StepWithMore, StopsAt

(* The size line.                                                            *)
LEMMA SizeLineWithMore ==
    ASSUME NEW d, Working(d), NEW y \in Bytes, d.st = "Size"
    PROVE  StepWithMore(d, SizeLine(d), y)
  <1> DEFINE F == Fed(d, y)
             size == SizeOf(Line(d.buf))
             n == SizeLine(d)
  <1>1. d \in DecoderType /\ d.more = TRUE /\ d.buf \in Bytes BY DEF Working, DecoderInv, DecoderType
  <1>2. /\ F \in DecoderType /\ F.buf = d.buf \o y
        /\ F.st = d.st /\ F.more = d.more
    BY <1>1, FedFacts
  <1>3. DecodeStep(F) = SizeLine(F) BY <1>1, <1>2 DEF DecodeStep
  <1>4. CASE ~ HasLine(d.buf)
    <2>1. n = NoLineYet(d) BY <1>4 DEF SizeLine
    <2> QED BY <1>4, <2>1, NoLineWithMore
  <1>5. CASE HasLine(d.buf)
    <2>1. HasLine(F.buf) /\ Line(F.buf) = Line(d.buf) /\ AfterLine(F.buf) = AfterLine(d.buf) \o y
      BY <1>1, <1>2, <1>5, LineStays
    <2>2. CASE size = BadSize
      <3>1. n = Poison(d) BY <1>5, <2>2 DEF SizeLine
      <3>2. DecodeStep(F) = Poison(F) BY <1>3, <2>1, <2>2 DEF SizeLine
      <3> QED BY <3>1, <3>2, RefusedWithMore
    <2>3. CASE size # BadSize
      <3> DEFINE b == AfterLine(d.buf)
                 q == IF size = 0 THEN "Trailer" ELSE "Data"
      <3>1. n = [d EXCEPT !.buf = b, !.left = size, !.st = q] BY <1>5, <2>3 DEF SizeLine
      <3>2. DecodeStep(F) = [F EXCEPT !.buf = AfterLine(F.buf), !.left = size, !.st = q]
        BY <1>3, <2>1, <2>3 DEF SizeLine
      <3>3. F = [d EXCEPT !.buf = d.buf \o y] BY DEF Fed
      <3> HIDE DEF F, n, b, q, size
      <3>4. n.buf = b /\ n.more = d.more /\ n.poison = d.poison /\ n.finished = d.finished
        BY <1>1, <3>1 DEF DecoderType
      <3>5. Fed(n, y) = [n EXCEPT !.buf = b \o y] BY <3>4 DEF Fed
      <3>6. DecodeStep(F) = [F EXCEPT !.buf = b \o y, !.left = size, !.st = q]
        BY <2>1, <3>2 DEF b
      <3>7. DecodeStep(F) = Fed(n, y) BY <1>1, <3>1, <3>3, <3>5, <3>6 DEF DecoderType
      <3>8. n.more /\ ~ n.poison /\ ~ n.finished BY <1>1, <3>4 DEF Working
      <3> QED BY <3>7, <3>8 DEF StepWithMore, GoesOn, F, n
    <2> QED BY <2>2, <2>3
  <1> QED BY <1>4, <1>5

(* What reaches into the second piece.                                       *)
LEMMA AcrossPieces ==
    ASSUME NEW s \in Bytes, NEW t \in Bytes, NEW n \in 1..Len(t)
    PROVE  /\ SubSeq(s \o t, 1, Len(s) + n) = s \o SubSeq(t, 1, n)
           /\ SubSeq(s \o t, (Len(s) + n) + 1, Len(s \o t)) = SubSeq(t, n + 1, Len(t))
  <1> DEFINE w == s \o t
             k == Len(s)
             l == Len(t)
  <1>1. w \in Bytes /\ k \in Nat /\ l \in Nat /\ Len(w) = k + l BY MoreBytes
  <1>2. SubSeq(w, 1, k) = s
    <2>1. k \in 0..Len(s) BY <1>1
    <2>2. SubSeq(w, 1, k) = SubSeq(s, 1, k) BY <2>1, FirstPart
    <2>3. SubSeq(s, 1, k) = s BY SubSeqFull DEF Bytes
    <2> QED BY <2>2, <2>3
  <1>3. SubSeq(w, k + 1, k + n) = SubSeq(t, 1, n)
    <2>1. k + 1 \in (k + 1)..(k + l) /\ k + n \in (k + 1)..(k + l) BY <1>1
    <2>2. (k + 1) - k = 1 /\ (k + n) - k = n BY <1>1
    <2>3. SubSeq(w, k + 1, k + n) = SubSeq(t, (k + 1) - k, (k + n) - k)
      BY <2>1, SubSeqOfConcat2 DEF Bytes
    <2> QED BY <2>2, <2>3
  <1>4. SubSeq(w, 1, k) \o SubSeq(w, k + 1, k + n) = SubSeq(w, 1, k + n)
    <2>1. 1 \in 1..(Len(w) + 1) /\ k \in (1 - 1)..Len(w) /\ k + n \in k..Len(w) BY <1>1
    <2>2. w \in Seq(Symbols) BY <1>1 DEF Bytes
    <2> HIDE DEF w
    <2> QED BY <2>1, <2>2, ConcatAdjacentSubSeq
  <1>5. SubSeq(w, (k + n) + 1, k + l) = SubSeq(t, n + 1, l)
    <2>1. CASE n = l
      <3>1. SubSeq(w, (k + n) + 1, k + l) = <<>> BY <1>1, <2>1, SubSeqEmpty
      <3>2. SubSeq(t, n + 1, l) = <<>> BY <1>1, <2>1, SubSeqEmpty
      <3> QED BY <3>1, <3>2
    <2>2. CASE n # l
      <3>1. (k + n) + 1 \in (k + 1)..(k + l) /\ k + l \in (k + 1)..(k + l) BY <1>1, <2>2
      <3>2. ((k + n) + 1) - k = n + 1 /\ (k + l) - k = l BY <1>1
      <3>3. SubSeq(w, (k + n) + 1, k + l) = SubSeq(t, ((k + n) + 1) - k, (k + l) - k)
        BY <3>1, SubSeqOfConcat2 DEF Bytes
      <3> QED BY <3>2, <3>3
    <2> QED BY <2>1, <2>2
  <1> QED BY <1>1, <1>2, <1>3, <1>4, <1>5

(* n bytes of the data of a chunk.                                           *)
TakeData(d, n) ==
    [d EXCEPT !.out = d.out \o SubSeq(d.buf, 1, n), !.buf = SubSeq(d.buf, n + 1, Len(d.buf)),
              !.left = d.left - n, !.st = IF d.left = n THEN "DataLineEnd" ELSE "Data"]

(* n bytes of data taken from the buffer.                                   *)
TookData(d, n, e) ==
    /\ e \in DecoderType /\ e.out = d.out \o SubSeq(d.buf, 1, n)
    /\ e.buf = SubSeq(d.buf, n + 1, Len(d.buf)) /\ e.left = d.left - n
    /\ e.st = IF d.left = n THEN "DataLineEnd" ELSE "Data"
    /\ e.finished = d.finished /\ e.poison = d.poison /\ e.trailer = d.trailer
    /\ e.more = d.more

(* What TakeData does.                                                      *)
LEMMA TakeDataFacts ==
    ASSUME NEW d \in DecoderType, NEW n \in 1..Len(d.buf), n <= d.left
    PROVE  TookData(d, n, TakeData(d, n))
  <1> DEFINE e == TakeData(d, n)
             a == d.out \o SubSeq(d.buf, 1, n)
             b == SubSeq(d.buf, n + 1, Len(d.buf))
             q == IF d.left = n THEN "DataLineEnd" ELSE "Data"
  <1>1. d.buf \in Bytes /\ Len(d.buf) \in Nat /\ d.out \in Bytes BY DEF DecoderType, Bytes
  <1>2. b \in Bytes BY <1>1, PartOfBytes
  <1>3. SubSeq(d.buf, 1, n) \in Bytes BY <1>1, PartOfBytes
  <1>4. a \in Bytes BY <1>1, <1>3, MoreBytes
  <1>5. d.left - n \in Nat BY <1>1 DEF DecoderType
  <1>6. e = [d EXCEPT !.out = a, !.buf = b, !.left = d.left - n, !.st = q] BY DEF TakeData
  <1>7. q \in {"Size", "Data", "DataLineEnd", "Trailer"} OBVIOUS
  <1> HIDE DEF a, b, q, e
  <1>8. /\ e \in DecoderType /\ e.out = a /\ e.buf = b /\ e.left = d.left - n /\ e.st = q
        /\ e.finished = d.finished /\ e.poison = d.poison /\ e.trailer = d.trailer
        /\ e.more = d.more
    BY <1>2, <1>4, <1>5, <1>6, <1>7 DEF DecoderType
  <1> QED BY <1>8 DEF a, b, q, e, TookData

(* The data of a chunk: what is there of it is taken, in one step or two.    *)
LEMMA DataWithMore ==
    ASSUME NEW d, Working(d), NEW y \in Bytes, y # <<>>, d.st = "Data"
    PROVE  StepWithMore(d, Data(d), y)
  <1> DEFINE F == Fed(d, y)
             n == Data(d)
  <1>1. d \in DecoderType /\ d.more = TRUE /\ d.buf \in Bytes /\ d.left \in Nat /\ d.left > 0
        /\ ~ d.poison /\ ~ d.finished /\ d.out \in Bytes
    BY DEF Working, DecoderInv, DecoderType
  <1>2. /\ F \in DecoderType /\ F.buf = d.buf \o y
        /\ F.st = d.st /\ F.left = d.left /\ F.finished = d.finished
        /\ F.poison = d.poison /\ F.trailer = d.trailer
        /\ F.out = d.out /\ F.more = d.more
    BY <1>1, FedFacts
  <1>3. DecodeStep(F) = Data(F) BY <1>1, <1>2 DEF DecodeStep
  <1>4. /\ Len(d.buf) \in Nat /\ Len(y) \in Nat /\ Len(y) > 0 /\ Len(F.buf) = Len(d.buf) + Len(y)
        /\ F.buf # <<>>
    <2>1. Len(y) \in Nat \ {0} BY EmptySeq DEF Bytes
    <2>2. Len(d.buf) \in Nat /\ Len(d.buf \o y) = Len(d.buf) + Len(y) BY <1>1, MoreBytes
    <2> QED BY <1>2, <2>1, <2>2, EmptyBytes
  <1>5. CASE d.buf = <<>>
    <2>1. n = Blocked(d) BY <1>5 DEF Data
    <2> QED BY <2>1, BlockedWithMore
  <1>6. CASE d.buf # <<>> /\ d.left <= Len(d.buf)
    <2> DEFINE k == d.left
    <2>1. k \in 1..Len(d.buf) /\ k \in 0..Len(d.buf) /\ k + 1 \in 1..(Len(d.buf) + 1) /\ k \in 1..Len(F.buf)
      BY <1>1, <1>4, <1>6
    <2>2. n = TakeData(d, k)
      <3>1. (IF d.left < Len(d.buf) THEN d.left ELSE Len(d.buf)) = k BY <1>1, <1>4, <1>6
      <3> QED BY <1>6, <3>1 DEF Data, TakeData
    <2>3. DecodeStep(F) = TakeData(F, k)
      <3>1. (IF F.left < Len(F.buf) THEN F.left ELSE Len(F.buf)) = k BY <1>1, <1>2, <1>4, <1>6
      <3> QED BY <1>3, <1>4, <3>1 DEF Data, TakeData
    <2> HIDE DEF F, n
    <2>19. d \in DecoderType /\ k \in 1..Len(d.buf) /\ k <= d.left BY <1>1, <2>1
    <2>4. /\ n \in DecoderType /\ n.out = d.out \o SubSeq(d.buf, 1, k)
          /\ n.buf = SubSeq(d.buf, k + 1, Len(d.buf)) /\ n.left = d.left - k
          /\ n.st = "DataLineEnd"
          /\ n.finished = d.finished /\ n.poison = d.poison /\ n.trailer = d.trailer
          /\ n.more = d.more
      <3>1. TookData(d, k, n) BY <2>19, <2>2, TakeDataFacts
      <3> QED BY <2>19, <3>1 DEF TookData
    <2>20. F \in DecoderType /\ k \in 1..Len(F.buf) /\ k <= F.left /\ F.left = k
      BY <1>1, <1>2, <2>1
    <2> DEFINE g == TakeData(F, k)
    <2>5. /\ g \in DecoderType /\ g.out = F.out \o SubSeq(F.buf, 1, k)
          /\ g.buf = SubSeq(F.buf, k + 1, Len(F.buf)) /\ g.left = F.left - k
          /\ g.st = "DataLineEnd"
          /\ g.finished = F.finished /\ g.poison = F.poison
          /\ g.trailer = F.trailer /\ g.more = F.more
      <3>1. TookData(F, k, g) BY <2>20, TakeDataFacts
      <3> HIDE DEF g
      <3> QED BY <2>20, <3>1 DEF TookData
    <2>6. /\ Fed(n, y) \in DecoderType /\ Fed(n, y).buf = n.buf \o y
          /\ Fed(n, y).st = n.st /\ Fed(n, y).left = n.left /\ Fed(n, y).finished = n.finished
          /\ Fed(n, y).poison = n.poison /\ Fed(n, y).trailer = n.trailer
          /\ Fed(n, y).out = n.out /\ Fed(n, y).more = n.more
      BY <2>4, FedFacts
    <2>7. SubSeq(F.buf, 1, k) = SubSeq(d.buf, 1, k) BY <1>1, <1>2, <2>1, FirstPart
    <2>8. SubSeq(F.buf, k + 1, Len(F.buf)) = SubSeq(d.buf, k + 1, Len(d.buf)) \o y
      BY <1>1, <1>2, <2>1, LastPart
    <2> DEFINE e == Fed(n, y)
    <2> HIDE DEF g
    <2>9. /\ e.buf = g.buf /\ e.st = g.st /\ e.left = g.left /\ e.finished = g.finished
          /\ e.trailer = g.trailer /\ e.out = g.out /\ e.poison = g.poison /\ e.more = g.more
      BY <1>2, <2>4, <2>5, <2>6, <2>7, <2>8
    <2>10. e \in DecoderType /\ g \in DecoderType BY <2>5, <2>6
    <2> HIDE DEF e, g
    <2>11. e = g BY <2>9, <2>10, SameDecoder
    <2>12. DecodeStep(F) = Fed(n, y) BY <2>3, <2>11 DEF e, g
    <2>13. n.more /\ ~ n.poison /\ ~ n.finished BY <1>1, <2>4
    <2> QED BY <2>12, <2>13 DEF StepWithMore, GoesOn, F, n
  <1>7. CASE d.buf # <<>> /\ ~ (d.left <= Len(d.buf))
    <2> DEFINE k == Len(d.buf)
               j == IF d.left - k < Len(y) THEN d.left - k ELSE Len(y)
    <2>1. k \in 1..k /\ k <= d.left /\ d.left # k /\ j \in 1..Len(y) /\ j <= d.left - k
          /\ k + j \in 1..Len(F.buf) /\ k + j <= d.left
      <3>1. k \in Nat \ {0} BY <1>1, <1>7, EmptySeq DEF Bytes
      <3> QED BY <1>1, <1>4, <1>7, <3>1
    <2>2. n = TakeData(d, k)
      <3>1. (IF d.left < Len(d.buf) THEN d.left ELSE Len(d.buf)) = k BY <1>1, <1>4, <1>7
      <3> QED BY <1>7, <3>1 DEF Data, TakeData
    <2>3. DecodeStep(F) = TakeData(F, k + j)
      <3>1. (IF F.left < Len(F.buf) THEN F.left ELSE Len(F.buf)) = k + j BY <1>1, <1>2, <1>4, <1>7
      <3> QED BY <1>3, <1>4, <3>1 DEF Data, TakeData
    <2> HIDE DEF F, n, j
    <2>19. d \in DecoderType /\ k \in 1..Len(d.buf) /\ k <= d.left /\ d.left # k BY <1>1, <2>1
    <2>4. /\ n \in DecoderType /\ n.out = d.out \o SubSeq(d.buf, 1, k)
          /\ n.buf = SubSeq(d.buf, k + 1, k) /\ n.left = d.left - k
          /\ n.st = "Data"
          /\ n.finished = d.finished /\ n.poison = d.poison /\ n.trailer = d.trailer
          /\ n.more = d.more
      <3>1. TookData(d, k, n) BY <2>19, <2>2, TakeDataFacts
      <3> QED BY <2>19, <3>1 DEF TookData
    <2>5. n.out = d.out \o d.buf /\ n.buf = <<>>
      <3>1. SubSeq(d.buf, 1, k) = d.buf BY <1>1, SubSeqFull DEF Bytes
      <3>2. SubSeq(d.buf, k + 1, k) = <<>> BY <1>4, SubSeqEmpty
      <3> QED BY <2>4, <3>1, <3>2
    <2> DEFINE G == Fed(n, y)
    <2>6. /\ G \in DecoderType /\ G.buf = n.buf \o y
          /\ G.st = n.st /\ G.left = n.left /\ G.finished = n.finished
          /\ G.poison = n.poison /\ G.trailer = n.trailer
          /\ G.out = n.out /\ G.more = n.more
      BY <2>4, FedFacts
    <2>7. G.buf = y BY <2>5, <2>6, ConcatEmptySeq DEF Bytes
    <2> HIDE DEF G
    <2>8. DecodeStep(G) = TakeData(G, j)
      <3>1. (IF G.left < Len(G.buf) THEN G.left ELSE Len(G.buf)) = j BY <2>4, <2>6, <2>7 DEF j
      <3>2. G.more /\ G.st = "Data" BY <1>1, <2>4, <2>6
      <3>3. DecodeStep(G) = Data(G) BY <3>2 DEF DecodeStep
      <3> QED BY <2>7, <3>1, <3>3 DEF Data, TakeData
    <2> DEFINE e == TakeData(G, j)
               g == TakeData(F, k + j)
               q == IF d.left = k + j THEN "DataLineEnd" ELSE "Data"
    <2>9. /\ e \in DecoderType /\ e.out = (d.out \o d.buf) \o SubSeq(y, 1, j)
          /\ e.buf = SubSeq(y, j + 1, Len(y)) /\ e.left = (d.left - k) - j
          /\ e.st = IF d.left - k = j THEN "DataLineEnd" ELSE "Data"
          /\ e.finished = d.finished /\ e.poison = d.poison /\ e.trailer = d.trailer
          /\ e.more = d.more
      <3>1. j \in 1..Len(G.buf) /\ j <= G.left BY <2>1, <2>4, <2>6, <2>7
      <3>2. TookData(G, j, e) BY <2>6, <3>1, TakeDataFacts
      <3> HIDE DEF e
      <3> QED BY <2>4, <2>5, <2>6, <2>7, <3>2 DEF TookData
    <2>10. /\ g \in DecoderType /\ g.out = d.out \o SubSeq(F.buf, 1, k + j)
           /\ g.buf = SubSeq(F.buf, (k + j) + 1, Len(F.buf)) /\ g.left = d.left - (k + j)
           /\ g.st = q
           /\ g.finished = d.finished /\ g.poison = d.poison /\ g.trailer = d.trailer
           /\ g.more = d.more
      <3>1. F \in DecoderType /\ k + j \in 1..Len(F.buf) /\ k + j <= F.left BY <1>2, <2>1
      <3>2. TookData(F, k + j, g) BY <3>1, TakeDataFacts
      <3> HIDE DEF g
      <3> QED BY <1>2, <3>2 DEF TookData
    <2>11. /\ SubSeq(F.buf, 1, k + j) = d.buf \o SubSeq(y, 1, j)
           /\ SubSeq(F.buf, (k + j) + 1, Len(F.buf)) = SubSeq(y, j + 1, Len(y))
      BY <1>1, <1>2, <2>1, AcrossPieces
    <2>12. (d.out \o d.buf) \o SubSeq(y, 1, j) = d.out \o (d.buf \o SubSeq(y, 1, j))
      <3>1. SubSeq(y, 1, j) \in Bytes BY <1>4, <2>1, PartOfBytes
      <3> QED BY <1>1, <3>1, PiecesAssociate
    <2>13. e.left = g.left /\ e.st = g.st
      <3>1. (d.left - k) - j = d.left - (k + j) /\ (d.left - k = j <=> d.left = k + j)
        BY <1>1, <1>4, <2>1
      <3> QED BY <2>9, <2>10, <3>1
    <2> HIDE DEF e, g
    <2>17. /\ e.buf = g.buf /\ e.finished = g.finished /\ e.poison = g.poison
           /\ e.trailer = g.trailer /\ e.more = g.more /\ e.out = g.out
      BY Zenon, <2>9, <2>10, <2>11, <2>12
    <2>18. e \in DecoderType /\ g \in DecoderType BY <2>9, <2>10
    <2>14. e = g BY <2>13, <2>17, <2>18, SameDecoder
    <2>15. DecodeStep(F) = DecodeStep(Fed(n, y)) BY <2>3, <2>8, <2>14 DEF e, g, G
    <2>16. n.more /\ ~ n.poison /\ ~ n.finished BY <1>1, <2>4
    <2> QED BY <2>15, <2>16 DEF StepWithMore, GoesOn, F, n
  <1> QED BY <1>5, <1>6, <1>7

(* A step back to the size line that takes b of the buffer.                  *)
LEMMA NextChunkWithMore ==
    ASSUME NEW d, Working(d), NEW y \in Bytes, NEW b \in Bytes,
           NEW n, n = [d EXCEPT !.buf = b, !.st = "Size"],
           DecodeStep(Fed(d, y)) = [Fed(d, y) EXCEPT !.buf = b \o y, !.st = "Size"]
    PROVE  StepWithMore(d, n, y)
  <1>1. d \in DecoderType /\ d.more = TRUE BY DEF Working, DecoderInv, DecoderType
  <1>2. n.buf = b /\ n.more = d.more /\ n.poison = d.poison /\ n.finished = d.finished
    BY <1>1 DEF DecoderType
  <1>3. Fed(n, y) = [n EXCEPT !.buf = b \o y] BY <1>2 DEF Fed
  <1>4. Fed(d, y) = [d EXCEPT !.buf = d.buf \o y] BY DEF Fed
  <1>5. DecodeStep(Fed(d, y)) = Fed(n, y) BY <1>1, <1>3, <1>4, ZenonT(60) DEF DecoderType
  <1> QED BY <1>1, <1>2, <1>5 DEF StepWithMore, GoesOn, Working

(* The line end after a chunk.                                               *)
LEMMA DataLineEndWithMore ==
    ASSUME NEW d, Working(d), NEW y \in Bytes, y # <<>>, d.st = "DataLineEnd"
    PROVE  StepWithMore(d, DataLineEnd(d), y)
  <1> DEFINE F == Fed(d, y)
             n == DataLineEnd(d)
  <1>1. d \in DecoderType /\ d.more = TRUE /\ d.buf \in Bytes BY DEF Working, DecoderInv, DecoderType
  <1>2. F \in DecoderType /\ F.buf = d.buf \o y /\ F.st = d.st /\ F.more = d.more
    BY <1>1, FedFacts
  <1>3. DecodeStep(F) = DataLineEnd(F) BY <1>1, <1>2 DEF DecodeStep
  <1>4. CASE d.buf = <<>> \/ d.buf = <<CR>>
    <2>1. n = Blocked(d) BY <1>4 DEF DataLineEnd
    <2> QED BY <2>1, BlockedWithMore
  <1>5. CASE d.buf # <<>> /\ d.buf # <<CR>>
    <2>7. PICK s \in Bytes : s = d.buf /\ s # <<>> /\ s # <<CR>> BY <1>1, <1>5
    <2>8. s \o y # <<>> /\ (s \o y)[1] = s[1] /\ Tail(s \o y) = Tail(s) \o y /\ Tail(s) \in Bytes
      BY <2>7, TailStays
    <2>1. /\ F.buf # <<>> /\ F.buf[1] = d.buf[1] /\ Tail(F.buf) = Tail(d.buf) \o y
          /\ Tail(d.buf) \in Bytes
      BY <1>2, <2>7, <2>8
    <2>2. Len(d.buf) \in Nat \ {0} /\ Len(y) \in Nat \ {0}
      <3>1. Len(s) \in Nat \ {0} BY <2>7, EmptySeq DEF Bytes
      <3>2. Len(y) \in Nat \ {0} BY EmptySeq DEF Bytes
      <3> QED BY <2>7, <3>1, <3>2
    <2>3. F.buf # <<CR>>
      <3>1. Len(F.buf) = Len(d.buf) + Len(y) BY <1>1, <1>2, MoreBytes
      <3>2. Len(F.buf) # 1 BY <2>2, <3>1
      <3>3. Len(<<CR>>) = 1 OBVIOUS
      <3> HIDE DEF F
      <3> QED BY <3>2, <3>3
    <2>4. CASE d.buf[1] = LF
      <3>1. n = [d EXCEPT !.buf = Tail(d.buf), !.st = "Size"]
        BY <1>5, <2>4 DEF DataLineEnd
      <3>2. DecodeStep(F) = [F EXCEPT !.buf = Tail(d.buf) \o y, !.st = "Size"]
        BY <1>3, <2>1, <2>3, <2>4 DEF DataLineEnd
      <3> QED BY <2>1, <3>1, <3>2, NextChunkWithMore
    <2>5. CASE d.buf[1] # LF /\ d.buf[1] # CR
      <3>1. n = Poison(d) BY <1>5, <2>5 DEF DataLineEnd
      <3>2. DecodeStep(F) = Poison(F) BY <1>3, <2>1, <2>3, <2>5 DEF DataLineEnd
      <3> QED BY <3>1, <3>2, RefusedWithMore
    <2>6. CASE d.buf[1] = CR /\ d.buf[1] # LF
      <3>1. Len(d.buf) # 1 BY <1>1, <1>5, <2>6, LoneCR
      <3>2. 2 \in 1..Len(d.buf)
        <4>1. \A k \in Nat \ {0} : k # 1 => 2 \in 1..k OBVIOUS
        <4> QED BY <2>2, <3>1, <4>1
      <3>3. F.buf[2] = d.buf[2] BY <1>1, <1>2, <3>2, MoreBytes
      <3>4. CASE d.buf[2] # LF
        <4>1. n = Poison(d) BY <1>5, <2>6, <3>4 DEF DataLineEnd
        <4>2. DecodeStep(F) = Poison(F) BY <1>3, <2>1, <2>3, <2>6, <3>3, <3>4 DEF DataLineEnd
        <4> QED BY <4>1, <4>2, RefusedWithMore
      <3>5. CASE d.buf[2] = LF
        <4>1. Tail(d.buf) # <<>>
          <5>1. Len(Tail(d.buf)) = Len(d.buf) - 1 BY <1>1, <1>5, HeadTailProperties DEF Bytes
          <5>2. Len(Tail(d.buf)) # 0 BY <2>2, <3>1, <5>1
          <5> QED BY <5>2, EmptyBytes
        <4>2. Tail(Tail(d.buf) \o y) = Tail(Tail(d.buf)) \o y /\ Tail(Tail(d.buf)) \in Bytes
          BY <2>1, <4>1, TailStays
        <4>3. n = [d EXCEPT !.buf = Tail(Tail(d.buf)), !.st = "Size"]
          BY <1>5, <2>6, <3>5 DEF DataLineEnd
        <4>4. DecodeStep(F) = [F EXCEPT !.buf = Tail(Tail(F.buf)), !.st = "Size"]
          BY <1>3, <2>1, <2>3, <2>6, <3>3, <3>5 DEF DataLineEnd
        <4>5. Tail(Tail(F.buf)) = Tail(Tail(d.buf)) \o y BY <2>1, <4>2
        <4>6. DecodeStep(F) = [F EXCEPT !.buf = Tail(Tail(d.buf)) \o y, !.st = "Size"]
          BY <4>4, <4>5
        <4> QED BY <4>2, <4>3, <4>6, NextChunkWithMore
      <3> QED BY <3>4, <3>5
    <2> QED BY <2>4, <2>5, <2>6
  <1> QED BY <1>4, <1>5

(* The end of the body is its end with more after it.                        *)
LEMMA EndWithMore ==
    ASSUME NEW d \in DecoderType, NEW y \in Bytes
    PROVE  [Fed(d, y) EXCEPT !.finished = TRUE, !.more = FALSE]
             = Fed([d EXCEPT !.finished = TRUE, !.more = FALSE], y)
  <1>1. PICK f : f = Fed(d, y) OBVIOUS
  <1>2. /\ f \in DecoderType /\ f.buf = d.buf \o y /\ f.st = d.st /\ f.left = d.left
        /\ f.poison = d.poison /\ f.trailer = d.trailer /\ f.out = d.out
    BY <1>1, FedFacts
  <1>3. PICK p : p = [d EXCEPT !.finished = TRUE, !.more = FALSE] OBVIOUS
  <1>4. /\ p \in DecoderType /\ p.buf = d.buf /\ p.st = d.st /\ p.left = d.left
        /\ p.finished = TRUE /\ p.poison = d.poison /\ p.trailer = d.trailer
        /\ p.out = d.out /\ p.more = FALSE
    BY <1>3 DEF DecoderType
  <1>5. PICK g : g = [f EXCEPT !.finished = TRUE, !.more = FALSE] OBVIOUS
  <1>6. /\ g \in DecoderType /\ g.buf = f.buf /\ g.st = f.st /\ g.left = f.left
        /\ g.finished = TRUE /\ g.poison = f.poison /\ g.trailer = f.trailer
        /\ g.out = f.out /\ g.more = FALSE
    BY <1>2, <1>5 DEF DecoderType
  <1>7. PICK e : e = Fed(p, y) OBVIOUS
  <1>8. /\ e \in DecoderType /\ e.buf = p.buf \o y /\ e.st = p.st /\ e.left = p.left
        /\ e.finished = p.finished /\ e.poison = p.poison /\ e.trailer = p.trailer
        /\ e.out = p.out /\ e.more = p.more
    BY <1>4, <1>7, FedFacts
  <1>9. /\ g.buf = e.buf /\ g.st = e.st /\ g.left = e.left /\ g.trailer = e.trailer
        /\ g.out = e.out
    BY <1>2, <1>4, <1>6, <1>8
  <1>10. g.finished = e.finished /\ g.poison = e.poison /\ g.more = e.more
    BY Zenon, <1>2, <1>4, <1>6, <1>8
  <1>11. g = e BY <1>6, <1>8, <1>9, <1>10, SameDecoder
  <1> QED BY <1>1, <1>3, <1>5, <1>7, <1>11

(* A trailer line.                                                           *)
LEMMA TrailerWithMore ==
    ASSUME NEW d, Working(d), NEW y \in Bytes, d.st = "Trailer"
    PROVE  StepWithMore(d, Trailer(d), y)
  <1> DEFINE F == Fed(d, y)
             n == Trailer(d)
             line == Line(d.buf)
             b == AfterLine(d.buf)
             t == d.trailer + Len(line)
             m == [d EXCEPT !.buf = b, !.trailer = t]
             M == [F EXCEPT !.buf = b \o y, !.trailer = t]
  <1>1. d \in DecoderType /\ d.more = TRUE /\ d.buf \in Bytes /\ ~ d.poison /\ ~ d.finished
    BY DEF Working, DecoderInv, DecoderType
  <1>2. F \in DecoderType /\ F.buf = d.buf \o y /\ F.st = d.st /\ F.more = d.more /\ F.trailer = d.trailer
    BY <1>1, FedFacts
  <1>3. DecodeStep(F) = Trailer(F) BY <1>1, <1>2 DEF DecodeStep
  <1>4. CASE ~ HasLine(d.buf)
    <2>1. n = NoLineYet(d) BY <1>4 DEF Trailer
    <2> QED BY <1>4, <2>1, NoLineWithMore
  <1>5. CASE HasLine(d.buf)
    <2>1. HasLine(F.buf) /\ Line(F.buf) = line /\ AfterLine(F.buf) = b \o y
      BY <1>1, <1>2, <1>5, LineStays
    <2>2. n = IF t > MaxLine THEN Poison(m)
              ELSE IF line = <<>> THEN [m EXCEPT !.finished = TRUE, !.more = FALSE] ELSE m
      <3>1. m.trailer = t BY <1>1 DEF DecoderType
      <3> QED BY <1>5, <3>1 DEF Trailer
    <2>3. DecodeStep(F) = IF t > MaxLine THEN Poison(M)
              ELSE IF line = <<>> THEN [M EXCEPT !.finished = TRUE, !.more = FALSE] ELSE M
      <3> DEFINE N == [F EXCEPT !.buf = AfterLine(F.buf), !.trailer = F.trailer + Len(Line(F.buf))]
      <3>1. N = M BY <1>2, <2>1
      <3>2. N.trailer = t BY <1>2, <2>1 DEF DecoderType
      <3>3. DecodeStep(F) = IF N.trailer > MaxLine THEN Poison(N)
              ELSE IF Line(F.buf) = <<>> THEN [N EXCEPT !.finished = TRUE, !.more = FALSE] ELSE N
        BY <1>3, <2>1 DEF Trailer
      <3> HIDE DEF N, M, F, t, line
      <3> QED BY <2>1, <3>1, <3>2, <3>3
    <2>4. b \in Bytes /\ line \in Bytes BY <1>1, <1>5, LineFacts
    <2>5. t \in Nat BY <1>1, <2>4 DEF DecoderType, Bytes
    <2>6. F = [d EXCEPT !.buf = d.buf \o y] BY DEF Fed
    <2> HIDE DEF F, n, line, b, t
    <2>7. /\ m \in DecoderType /\ m.buf = b /\ m.st = d.st /\ m.more = d.more
          /\ m.poison = d.poison /\ m.finished = d.finished
      BY <1>1, <2>4, <2>5 DEF DecoderType
    <2>8. Fed(m, y) = [m EXCEPT !.buf = b \o y] BY <2>7 DEF Fed
    <2>9. Fed(m, y) = M BY <1>1, <2>6, <2>8 DEF DecoderType
    <2> HIDE DEF m, M
    <2>10. CASE t > MaxLine
      <3>1. n = Poison(m) /\ DecodeStep(F) = Poison(Fed(m, y)) BY <2>2, <2>3, <2>9, <2>10
      <3>2. Poison(Fed(m, y)) = Fed(n, y) /\ n.poison = TRUE /\ n.more = FALSE
        BY <2>7, <3>1, PoisonWithMore
      <3> QED BY <3>1, <3>2 DEF StepWithMore, StopsAt, F, n
    <2>11. CASE ~ (t > MaxLine) /\ line = <<>>
      <3>1. n = [m EXCEPT !.finished = TRUE, !.more = FALSE] BY <2>2, <2>11
      <3>2. DecodeStep(F) = [Fed(m, y) EXCEPT !.finished = TRUE, !.more = FALSE] BY <2>3, <2>9, <2>11
      <3>3. n.buf = m.buf /\ n.more = FALSE /\ n.finished = TRUE BY <2>7, <3>1 DEF DecoderType
      <3>5. DecodeStep(F) = Fed(n, y) BY <2>7, <3>1, <3>2, EndWithMore
      <3> QED BY <3>3, <3>5 DEF StepWithMore, StopsAt, F, n
    <2>12. CASE ~ (t > MaxLine) /\ line # <<>>
      <3>1. n = m /\ DecodeStep(F) = Fed(n, y) BY <2>2, <2>3, <2>9, <2>12
      <3> QED BY <1>1, <2>7, <3>1 DEF StepWithMore, GoesOn, F, n
    <2> QED BY <2>10, <2>11, <2>12
  <1> QED BY <1>4, <1>5

(* Every step of the loop of push.                                           *)
LEMMA DecodeStepWithMore ==
    ASSUME NEW d, Working(d), NEW y \in Bytes, y # <<>>
    PROVE  StepWithMore(d, DecodeStep(d), y)
  <1>1. d \in DecoderType /\ d.more = TRUE BY DEF Working, DecoderInv, DecoderType
  <1>2. CASE d.st = "Size" BY <1>1, <1>2, SizeLineWithMore DEF DecodeStep
  <1>3. CASE d.st = "Data" BY <1>1, <1>3, DataWithMore DEF DecodeStep
  <1>4. CASE d.st = "DataLineEnd" BY <1>1, <1>4, DataLineEndWithMore DEF DecodeStep
  <1>5. CASE d.st = "Trailer" BY <1>1, <1>5, TrailerWithMore DEF DecodeStep
  <1> QED BY <1>1, <1>2, <1>3, <1>4, <1>5 DEF DecoderType

(* The loop of push, from d on, ends in e.                                   *)
DecodesTo(d, e) ==
    /\ ~ e.more
    /\ \E n \in Nat : \E f : /\ f[0] = d /\ f[n] = e
                             /\ \A i \in 1..n : f[i] = DecodeStep(f[i - 1])

(* What holds of d and is kept by every turn holds in the end.               *)
LEMMA DecodesWithin ==
    ASSUME NEW d, NEW e, DecodesTo(d, e), NEW S, d \in S, \A x \in S : DecodeStep(x) \in S
    PROVE  e \in S
  <1>1. PICK n \in Nat : \E f : /\ f[0] = d /\ f[n] = e
                                /\ \A i \in 1..n : f[i] = DecodeStep(f[i - 1])
    BY DEF DecodesTo
  <1>2. PICK f : f[0] = d /\ f[n] = e /\ \A i \in 1..n : f[i] = DecodeStep(f[i - 1]) BY <1>1
  <1> DEFINE T == {i \in Nat : i <= n => f[i] \in S}
  <1>3. 0 \in T BY <1>2
  <1>4. ASSUME NEW i \in Nat, i \in T PROVE i + 1 \in T
    <2>1. SUFFICES ASSUME i + 1 <= n PROVE f[i + 1] \in S OBVIOUS
    <2>2. i <= n /\ i + 1 \in 1..n /\ (i + 1) - 1 = i BY <2>1
    <2>3. f[i] \in S BY <1>4, <2>2
    <2>4. f[i + 1] = DecodeStep(f[i]) BY <1>2, <2>2
    <2> QED BY <2>3, <2>4
  <1>5. Nat \subseteq T BY <1>3, <1>4, SetInduction
  <1>6. n \in T /\ n <= n BY <1>5
  <1> QED BY <1>2, <1>6

(* The end of a loop that has stopped.                                       *)
LEMMA DecodesStopped ==
    ASSUME NEW d, ~ d.more
    PROVE  DecodesTo(d, d) /\ \A e : DecodesTo(d, e) => e = d
  <1>1. DecodesTo(d, d)
    <2> DEFINE f == [i \in {0} |-> d]
    <2>1. f[0] = d /\ \A i \in 1..0 : f[i] = DecodeStep(f[i - 1]) OBVIOUS
    <2> HIDE DEF f
    <2>2. 0 \in Nat OBVIOUS
    <2> QED BY <2>1, <2>2 DEF DecodesTo
  <1>2. ASSUME NEW e, DecodesTo(d, e) PROVE e = d
    <2>1. DecodeStep(d) = d BY DEF DecodeStep
    <2>2. d \in {d} /\ \A x \in {d} : DecodeStep(x) \in {d} BY <2>1
    <2>3. e \in {d} BY <1>2, <2>2, DecodesWithin
    <2> QED BY <2>3
  <1> QED BY <1>1, <1>2

(* One turn more or less.                                                    *)
LEMMA DecodesOn ==
    ASSUME NEW d, NEW e, DecodesTo(d, e)
    PROVE  DecodesTo(DecodeStep(d), e)
  <1>1. CASE ~ d.more
    <2>1. DecodeStep(d) = d BY <1>1 DEF DecodeStep
    <2> QED BY <2>1
  <1>2. CASE d.more
    <2>1. ~ e.more BY DEF DecodesTo
    <2>2. PICK n \in Nat : \E f : /\ f[0] = d /\ f[n] = e
                                  /\ \A i \in 1..n : f[i] = DecodeStep(f[i - 1])
      BY DEF DecodesTo
    <2>3. PICK f : f[0] = d /\ f[n] = e /\ \A i \in 1..n : f[i] = DecodeStep(f[i - 1]) BY <2>2
    <2>4. n # 0 BY <1>2, <2>1, <2>3
    <2>5. n - 1 \in Nat /\ 1 \in 1..n BY <2>4
    <2> DEFINE g == [i \in 0..(n - 1) |-> f[i + 1]]
    <2>6. g[0] = DecodeStep(d)
      <3>1. f[1] = DecodeStep(f[1 - 1]) /\ 1 - 1 = 0 BY <2>3, <2>5
      <3>2. 0 \in 0..(n - 1) /\ 0 + 1 = 1 BY <2>5
      <3> QED BY <2>3, <3>1, <3>2
    <2>7. g[n - 1] = e
      <3>1. n - 1 \in 0..(n - 1) /\ (n - 1) + 1 = n BY <2>5
      <3> QED BY <2>3, <3>1
    <2>8. ASSUME NEW i \in 1..(n - 1) PROVE g[i] = DecodeStep(g[i - 1])
      <3>1. i \in 0..(n - 1) /\ i - 1 \in 0..(n - 1) /\ (i - 1) + 1 = i /\ i + 1 \in 1..n
            /\ (i + 1) - 1 = i
        BY <2>5
      <3>2. g[i] = f[i + 1] /\ g[i - 1] = f[i] BY <3>1
      <3>3. f[i + 1] = DecodeStep(f[i]) BY <2>3, <3>1
      <3> QED BY <3>2, <3>3
    <2> HIDE DEF g
    <2> QED BY <2>1, <2>5, <2>6, <2>7, <2>8 DEF DecodesTo
  <1> QED BY <1>1, <1>2

(* The first step of a decoding belongs to it.                              *)
LEMMA DecodesBack ==
    ASSUME NEW d, NEW e, DecodesTo(DecodeStep(d), e)
    PROVE  DecodesTo(d, e)
  <1>1. ~ e.more BY DEF DecodesTo
  <1>2. PICK n \in Nat : \E f : /\ f[0] = DecodeStep(d) /\ f[n] = e
                                /\ \A i \in 1..n : f[i] = DecodeStep(f[i - 1])
    BY DEF DecodesTo
  <1>3. PICK f : f[0] = DecodeStep(d) /\ f[n] = e /\ \A i \in 1..n : f[i] = DecodeStep(f[i - 1])
    BY <1>2
  <1> DEFINE g == [i \in 0..(n + 1) |-> IF i = 0 THEN d ELSE f[i - 1]]
  <1>4. g[0] = d /\ g[n + 1] = e /\ n + 1 \in Nat
    <2>1. n + 1 \in 0..(n + 1) /\ n + 1 # 0 /\ (n + 1) - 1 = n /\ 0 \in 0..(n + 1) OBVIOUS
    <2> QED BY <1>3, <2>1
  <1>5. ASSUME NEW i \in 1..(n + 1) PROVE g[i] = DecodeStep(g[i - 1])
    <2>1. i \in 0..(n + 1) /\ i # 0 /\ i - 1 \in 0..(n + 1) OBVIOUS
    <2>2. g[i] = f[i - 1] BY <2>1
    <2>3. CASE i = 1
      <3>1. i - 1 = 0 BY <2>3
      <3> QED BY <1>3, <1>4, <2>2, <3>1
    <2>4. CASE i # 1
      <3>1. i - 1 # 0 /\ i - 1 \in 1..n BY <2>4
      <3>2. g[i - 1] = f[(i - 1) - 1] BY <2>1, <3>1
      <3> QED BY <1>3, <2>2, <3>1, <3>2
    <2> QED BY <2>3, <2>4
  <1> HIDE DEF g
  <1> QED BY <1>1, <1>4, <1>5 DEF DecodesTo

(* push of the decoder is its loop.                                          *)
LEMMA DecodeIsLoop ==
    ASSUME NEW d, DecoderInv(d), ~ d.more, ~ d.poison, ~ d.finished, NEW x \in Bytes
    PROVE  LET n == [d EXCEPT !.buf = @ \o x, !.out = <<>>, !.more = TRUE]
           IN  Working(n) /\ DecodesTo(n, Decode(d, x))
  <1> DEFINE n == [d EXCEPT !.buf = @ \o x, !.out = <<>>, !.more = TRUE]
             e == Decode(d, x)
             L == Len(n.buf)
  <1>1. d \in DecoderType /\ d.buf \in Bytes BY DEF DecoderInv, DecoderType
  <1>2. d.buf \o x \in Bytes /\ Len(d.buf \o x) \in Nat BY <1>1, MoreBytes DEF Bytes
  <1>3. n = [d EXCEPT !.buf = d.buf \o x, !.out = <<>>, !.more = TRUE] OBVIOUS
  <1>4. e = DecoderAfter(n, L + 1) BY DEF Decode, DecoderAfter
  <1>5. ~ e.more BY DecodeFacts
  <1> HIDE DEF n, e
  <1>6. /\ n \in DecoderType /\ n.buf = d.buf \o x /\ n.st = d.st /\ n.left = d.left /\ n.more = TRUE
        /\ n.poison = d.poison /\ n.finished = d.finished
    BY <1>1, <1>2, <1>3, EmptyBytes DEF DecoderType
  <1>7. Working(n) BY <1>6 DEF Working, DecoderInv
  <1>8. L + 1 \in Nat BY <1>2, <1>6
  <1>9. \E f : f[0] = n /\ f[L + 1] = e /\ \A i \in 1..(L + 1) : f[i] = DecodeStep(f[i - 1])
    <2> HIDE DEF L
    <2>1. \A N \in Nat : \E f : /\ f[0] = n /\ f[N] = DecoderAfter(n, N)
                                 /\ \A i \in 1..N : f[i] = DecodeStep(f[i - 1])
      BY DecodeSteps
    <2> QED BY <1>4, <1>8, <2>1
  <1> HIDE DEF L
  <1>10. DecodesTo(n, e) BY <1>5, <1>8, <1>9 DEF DecodesTo
  <1> QED BY <1>7, <1>10 DEF n, e

(* What a stopped decoder makes of the rest of the body.                     *)
DoneWithMore(d, y, D) ==
    \/ DecoderGaveUp(d)
    \/ (d.poison \/ d.finished) /\ D = Fed(d, y)
    \/ ~ d.poison /\ ~ d.finished /\ DecodesTo(Resumed(d, y), D)

(* The loop on the first piece of a body, and on both.                       *)
LEMMA DecodesInPieces ==
    ASSUME NEW d, Working(d), NEW y \in Bytes, y # <<>>, NEW e, DecodesTo(d, e),
           NEW D, DecodesTo(Fed(d, y), D)
    PROVE  DoneWithMore(e, y, D)
  <1> DEFINE Good(x) == /\ DecoderInv(x)
                        /\ IF x.more THEN Working(x) /\ DecodesTo(Fed(x, y), D)
                           ELSE DoneWithMore(x, y, D)
             S == {x \in DecoderType : Good(x)}
  <1>1. d \in S BY DEF Working, DecoderInv
  <1>2. ASSUME NEW x \in S PROVE DecodeStep(x) \in S
    <2> DEFINE n == DecodeStep(x)
    <2>1. CASE ~ x.more
      <3>1. n = x BY <2>1 DEF DecodeStep
      <3> QED BY <3>1
    <2>2. CASE x.more
      <3>1. Working(x) /\ DecodesTo(Fed(x, y), D) BY <2>2
      <3>2. DecoderInv(n) BY <3>1, DecodeStepFacts DEF Working
      <3>3. n \in DecoderType BY <3>2 DEF DecoderInv
      <3>4. StepWithMore(x, n, y) BY <3>1, DecodeStepWithMore
      <3>5. DecodesTo(DecodeStep(Fed(x, y)), D) BY <3>1, DecodesOn
      <3> HIDE DEF n
      <3>6. CASE n.more
        <4>1. GoesOn(x, n, y) BY <3>4, <3>6 DEF StepWithMore
        <4>2. Working(n) BY <3>2, <3>6, <4>1 DEF Working, GoesOn
        <4>3. CASE DecodeStep(Fed(x, y)) = Fed(n, y) BY <3>2, <3>3, <3>5, <3>6, <4>2, <4>3 DEF n
        <4>4. CASE DecodeStep(Fed(x, y)) = DecodeStep(Fed(n, y))
          <5>1. DecodesTo(DecodeStep(Fed(n, y)), D) BY <3>5, <4>4
          <5>2. DecodesTo(Fed(n, y), D) BY <5>1, DecodesBack
          <5> QED BY <3>2, <3>3, <3>6, <4>2, <5>2 DEF n
        <4> QED BY <4>1, <4>3, <4>4 DEF GoesOn
      <3>7. CASE ~ n.more
        <4>1. StopsAt(x, n, y) BY <3>4, <3>7 DEF StepWithMore
        <4>2. CASE DecoderGaveUp(n)
          <5>1. DoneWithMore(n, y, D) BY <4>2 DEF DoneWithMore
          <5> QED BY <3>2, <3>3, <3>7, <5>1 DEF n
        <4>3. CASE (n.poison \/ n.finished) /\ DecodeStep(Fed(x, y)) = Fed(n, y)
          <5>1. DecodesTo(Fed(n, y), D) BY <3>5, <4>3
          <5>2. Fed(n, y).more = n.more BY <3>3, FedFacts
          <5>3. D = Fed(n, y) BY <3>7, <5>1, <5>2, DecodesStopped
          <5>4. DoneWithMore(n, y, D) BY <4>3, <5>3 DEF DoneWithMore
          <5> QED BY <3>2, <3>3, <3>7, <5>4 DEF n
        <4>4. CASE ~ n.poison /\ ~ n.finished /\ Resumed(n, y) = Fed(x, y)
          <5>1. DoneWithMore(n, y, D) BY <3>1, <4>4 DEF DoneWithMore
          <5> QED BY <3>2, <3>3, <3>7, <5>1 DEF n
        <4> QED BY <4>1, <4>2, <4>3, <4>4 DEF StopsAt
      <3> QED BY <3>6, <3>7
    <2> QED BY <2>1, <2>2
  <1> HIDE DEF Good
  <1>3. e \in S BY <1>1, <1>2, DecodesWithin
  <1>4. Good(e) /\ ~ e.more BY <1>3 DEF DecodesTo
  <1> QED BY <1>4 DEF Good

(* The output before this call.                                              *)
Before(o, d) == [d EXCEPT !.out = o \o @]

(* Before puts o in front of what is decoded.                               *)
LEMMA BeforeFacts ==
    ASSUME NEW o \in Bytes, NEW d \in DecoderType
    PROVE  /\ Before(o, d) \in DecoderType /\ Before(o, d).out = o \o d.out
           /\ Before(o, d).buf = d.buf /\ Before(o, d).st = d.st /\ Before(o, d).left = d.left
           /\ Before(o, d).finished = d.finished /\ Before(o, d).poison = d.poison
           /\ Before(o, d).trailer = d.trailer /\ Before(o, d).more = d.more
  <1>1. d.out \in Bytes BY DEF DecoderType
  <1>2. o \o d.out \in Bytes BY <1>1, MoreBytes
  <1>3. Before(o, d) = [d EXCEPT !.out = o \o d.out] BY DEF Before
  <1> QED BY <1>2, <1>3 DEF DecoderType

(* Two steps that differ only in what push had decoded before: refused, the  *)
(* output is lost; otherwise it comes first.                                 *)
SameAfter(o, n, N) == N = IF n.poison THEN n ELSE Before(o, n)

(* What is refused forgets it.                                               *)
LEMMA RefusedAfter ==
    ASSUME NEW o \in Bytes, NEW d \in DecoderType, NEW e \in DecoderType,
           e.buf = d.buf, e.st = d.st, e.left = d.left, e.finished = d.finished,
           e.poison = d.poison, e.trailer = d.trailer, e.more = d.more
    PROVE  /\ Poison(e) = Poison(d) /\ Poison(d).poison
  <1>1. PICK p : p = Poison(d) OBVIOUS
  <1>2. PICK q : q = Poison(e) OBVIOUS
  <1>3. p = [d EXCEPT !.poison = TRUE, !.out = <<>>, !.more = FALSE] BY <1>1 DEF Poison
  <1>4. q = [e EXCEPT !.poison = TRUE, !.out = <<>>, !.more = FALSE] BY <1>2 DEF Poison
  <1>5. /\ p \in DecoderType /\ p.buf = d.buf /\ p.st = d.st /\ p.left = d.left
        /\ p.finished = d.finished /\ p.poison = TRUE /\ p.trailer = d.trailer
        /\ p.out = <<>> /\ p.more = FALSE
    BY <1>3, EmptyBytes DEF DecoderType
  <1>6. /\ q \in DecoderType /\ q.buf = e.buf /\ q.st = e.st /\ q.left = e.left
        /\ q.finished = e.finished /\ q.poison = TRUE /\ q.trailer = e.trailer
        /\ q.out = <<>> /\ q.more = FALSE
    BY <1>4, EmptyBytes DEF DecoderType
  <1>7. p.buf = q.buf /\ p.st = q.st /\ p.left = q.left /\ p.trailer = q.trailer /\ p.out = q.out
    BY <1>5, <1>6
  <1>8. p.finished = q.finished /\ p.poison = q.poison /\ p.more = q.more BY Zenon, <1>5, <1>6
  <1>9. p = q BY <1>5, <1>6, <1>7, <1>8, SameDecoder
  <1> QED BY <1>1, <1>2, <1>5, <1>9

(* The steps that decode nothing.                                            *)
LEMMA BlockedAfter ==
    ASSUME NEW o \in Bytes, NEW d, Working(d)
    PROVE  SameAfter(o, Blocked(d), Blocked(Before(o, d)))
  <1>1. d \in DecoderType BY DEF Working, DecoderInv
  <1>2. PICK n : n = Blocked(d) OBVIOUS
  <1>3. n = [d EXCEPT !.more = FALSE] BY <1>2 DEF Blocked
  <1>4. n.out = d.out /\ n.poison = d.poison BY <1>1, <1>3 DEF DecoderType
  <1>5. PICK B : B = Before(o, d) OBVIOUS
  <1>6. B = [d EXCEPT !.out = o \o d.out] BY <1>5 DEF Before
  <1>7. Blocked(B) = [B EXCEPT !.more = FALSE] BY DEF Blocked
  <1>8. Before(o, n) = [n EXCEPT !.out = o \o d.out] BY <1>4 DEF Before
  <1>9. Blocked(B) = Before(o, n) BY <1>1, <1>3, <1>6, <1>7, <1>8 DEF DecoderType
  <1>10. ~ n.poison BY <1>4 DEF Working
  <1>11. SameAfter(o, n, Blocked(B)) BY <1>9, <1>10 DEF SameAfter
  <1> QED BY <1>2, <1>5, <1>11

(* What was decoded before does not matter to Poison.                       *)
LEMMA PoisonAfter ==
    ASSUME NEW o \in Bytes, NEW d \in DecoderType
    PROVE  SameAfter(o, Poison(d), Poison(Before(o, d)))
  <1>1. Before(o, d) \in DecoderType BY BeforeFacts
  <1>2. Poison(Before(o, d)) = Poison(d) /\ Poison(d).poison BY <1>1, BeforeFacts, RefusedAfter
  <1> QED BY <1>2 DEF SameAfter

(* Nor to a line that has not come.                                         *)
LEMMA NoLineAfter ==
    ASSUME NEW o \in Bytes, NEW d, Working(d)
    PROVE  SameAfter(o, NoLineYet(d), NoLineYet(Before(o, d)))
  <1>1. d \in DecoderType BY DEF Working, DecoderInv
  <1>2. Before(o, d).buf = d.buf BY <1>1, BeforeFacts
  <1>3. CASE Len(d.buf) > MaxLine BY <1>1, <1>2, <1>3, PoisonAfter DEF NoLineYet
  <1>4. CASE ~ (Len(d.buf) > MaxLine) BY <1>2, <1>4, BlockedAfter DEF NoLineYet
  <1> QED BY <1>3, <1>4

(* Nor to the size line.                                                    *)
LEMMA SizeLineAfter ==
    ASSUME NEW o \in Bytes, NEW d, Working(d)
    PROVE  SameAfter(o, SizeLine(d), SizeLine(Before(o, d)))
  <1> DEFINE size == SizeOf(Line(d.buf))
             b == AfterLine(d.buf)
             q == IF size = 0 THEN "Trailer" ELSE "Data"
  <1>1. d \in DecoderType /\ ~ d.poison BY DEF Working, DecoderInv
  <1>2. PICK B : B = Before(o, d) OBVIOUS
  <1>3. B.buf = d.buf BY <1>1, <1>2, BeforeFacts
  <1>4. CASE ~ HasLine(d.buf)
    <2>1. SizeLine(d) = NoLineYet(d) /\ SizeLine(B) = NoLineYet(B) BY <1>3, <1>4 DEF SizeLine
    <2> QED BY <1>2, <2>1, NoLineAfter
  <1>5. CASE HasLine(d.buf) /\ size = BadSize
    <2>1. SizeLine(d) = Poison(d) /\ SizeLine(B) = Poison(B) BY <1>3, <1>5 DEF SizeLine
    <2> QED BY <1>1, <1>2, <2>1, PoisonAfter
  <1>6. CASE HasLine(d.buf) /\ size # BadSize
    <2>1. PICK n : n = SizeLine(d) OBVIOUS
    <2>2. n = [d EXCEPT !.buf = b, !.left = size, !.st = q] BY <1>6, <2>1 DEF SizeLine
    <2>3. SizeLine(B) = [B EXCEPT !.buf = b, !.left = size, !.st = q] BY <1>3, <1>6 DEF SizeLine
    <2>4. B = [d EXCEPT !.out = o \o d.out] BY <1>2 DEF Before
    <2> HIDE DEF size, b, q
    <2>5. n.out = d.out /\ n.poison = d.poison BY <1>1, <2>2 DEF DecoderType
    <2>6. Before(o, n) = [n EXCEPT !.out = o \o d.out] BY <2>5 DEF Before
    <2>7. SizeLine(B) = Before(o, n) BY <1>1, <2>2, <2>3, <2>4, <2>6 DEF DecoderType
    <2>8. SameAfter(o, n, SizeLine(B)) BY <1>1, <2>5, <2>7 DEF SameAfter
    <2> QED BY <1>2, <2>1, <2>8
  <1> QED BY <1>4, <1>5, <1>6

(* Nor to the end of the data.                                              *)
LEMMA DataLineEndAfter ==
    ASSUME NEW o \in Bytes, NEW d, Working(d)
    PROVE  SameAfter(o, DataLineEnd(d), DataLineEnd(Before(o, d)))
  <1>1. d \in DecoderType /\ ~ d.poison BY DEF Working, DecoderInv
  <1>2. PICK B : B = Before(o, d) OBVIOUS
  <1>3. B.buf = d.buf BY <1>1, <1>2, BeforeFacts
  <1>4. CASE d.buf = <<>> \/ d.buf = <<CR>>
    <2>1. DataLineEnd(d) = Blocked(d) /\ DataLineEnd(B) = Blocked(B) BY <1>3, <1>4 DEF DataLineEnd
    <2> QED BY <1>2, <2>1, BlockedAfter
  <1>5. ASSUME NEW b, NEW n, n = [d EXCEPT !.buf = b, !.st = "Size"],
               NEW N, N = [B EXCEPT !.buf = b, !.st = "Size"]
        PROVE  SameAfter(o, n, N)
    <2>1. B = [d EXCEPT !.out = o \o d.out] BY <1>2 DEF Before
    <2>2. n.out = d.out /\ n.poison = d.poison BY <1>1, <1>5 DEF DecoderType
    <2>3. Before(o, n) = [n EXCEPT !.out = o \o d.out] BY <2>2 DEF Before
    <2>4. N = Before(o, n)
      BY <1>1, <1>5, <2>1, <2>3 DEF DecoderType
    <2> QED BY <1>1, <2>2, <2>4 DEF SameAfter
  <1>6. CASE ~ (d.buf = <<>> \/ d.buf = <<CR>>) /\ d.buf[1] = LF
    <2>1. /\ DataLineEnd(d) = [d EXCEPT !.buf = Tail(d.buf), !.st = "Size"]
          /\ DataLineEnd(B) = [B EXCEPT !.buf = Tail(d.buf), !.st = "Size"]
      BY <1>3, <1>6 DEF DataLineEnd
    <2>2. SameAfter(o, DataLineEnd(d), DataLineEnd(B)) BY <1>5, <2>1
    <2> QED BY <1>2, <2>2
  <1>7. CASE ~ (d.buf = <<>> \/ d.buf = <<CR>>) /\ d.buf[1] # LF
    <2>1. CASE d.buf[1] # CR \/ d.buf[2] # LF
      <3>1. DataLineEnd(d) = Poison(d) /\ DataLineEnd(B) = Poison(B)
        BY <1>3, <1>7, <2>1 DEF DataLineEnd
      <3> QED BY <1>1, <1>2, <3>1, PoisonAfter
    <2>2. CASE ~ (d.buf[1] # CR \/ d.buf[2] # LF)
      <3>1. /\ DataLineEnd(d) = [d EXCEPT !.buf = Tail(Tail(d.buf)), !.st = "Size"]
            /\ DataLineEnd(B) = [B EXCEPT !.buf = Tail(Tail(d.buf)), !.st = "Size"]
        BY <1>3, <1>7, <2>2 DEF DataLineEnd
      <3>2. SameAfter(o, DataLineEnd(d), DataLineEnd(B)) BY <1>5, <3>1
      <3> QED BY <1>2, <3>2
    <2> QED BY <2>1, <2>2
  <1> QED BY <1>4, <1>6, <1>7

(* Nor to the trailers.                                                     *)
LEMMA TrailerAfter ==
    ASSUME NEW o \in Bytes, NEW d, Working(d)
    PROVE  SameAfter(o, Trailer(d), Trailer(Before(o, d)))
  <1> DEFINE line == Line(d.buf)
             b == AfterLine(d.buf)
             t == d.trailer + Len(line)
             m == [d EXCEPT !.buf = b, !.trailer = t]
  <1>1. d \in DecoderType /\ ~ d.poison /\ d.buf \in Bytes BY DEF Working, DecoderInv, DecoderType
  <1>2. PICK B : B = Before(o, d) OBVIOUS
  <1>3. B \in DecoderType /\ B.buf = d.buf /\ B.trailer = d.trailer BY <1>1, <1>2, BeforeFacts
  <1>4. CASE ~ HasLine(d.buf)
    <2>1. Trailer(d) = NoLineYet(d) /\ Trailer(B) = NoLineYet(B) BY <1>3, <1>4 DEF Trailer
    <2> QED BY <1>2, <2>1, NoLineAfter
  <1>5. CASE HasLine(d.buf)
    <2> DEFINE M == [B EXCEPT !.buf = b, !.trailer = t]
    <2>1. m.trailer = t /\ M.trailer = t BY <1>1, <1>3 DEF DecoderType
    <2>2. /\ m = [d EXCEPT !.buf = AfterLine(d.buf), !.trailer = d.trailer + Len(Line(d.buf))]
          /\ M = [B EXCEPT !.buf = AfterLine(B.buf), !.trailer = B.trailer + Len(Line(B.buf))]
      BY <1>3
    <2> HIDE DEF m, M, t, b, line
    <2>3. Trailer(d) = IF m.trailer > MaxLine THEN Poison(m)
                       ELSE IF line = <<>> THEN [m EXCEPT !.finished = TRUE, !.more = FALSE] ELSE m
      BY <1>5, <2>2 DEF Trailer, line
    <2>4. Trailer(B) = IF M.trailer > MaxLine THEN Poison(M)
                       ELSE IF line = <<>> THEN [M EXCEPT !.finished = TRUE, !.more = FALSE] ELSE M
      BY <1>3, <1>5, <2>2 DEF Trailer, line
    <2>5. B = [d EXCEPT !.out = o \o d.out] BY <1>2 DEF Before
    <2>6. line \in Bytes /\ b \in Bytes BY <1>1, <1>5, LineFacts DEF line, b
    <2>7. t \in Nat BY <1>1, <2>6 DEF DecoderType, Bytes, t
    <2>8. m \in DecoderType /\ m.poison = d.poison /\ m.out = d.out
      BY <1>1, <2>6, <2>7 DEF DecoderType, m
    <2>9. Before(o, m) = [m EXCEPT !.out = o \o d.out] BY <2>8 DEF Before
    <2>10. M = Before(o, m)
      BY <1>1, <2>5, <2>9 DEF DecoderType, m, M
    <2>11. CASE t > MaxLine
      <3>1. Trailer(d) = Poison(m) /\ Trailer(B) = Poison(M) BY <2>1, <2>3, <2>4, <2>11
      <3> QED BY <1>2, <2>8, <2>10, <3>1, PoisonAfter
    <2>12. CASE ~ (t > MaxLine) /\ line = <<>>
      <3>1. PICK n : n = [m EXCEPT !.finished = TRUE, !.more = FALSE] OBVIOUS
      <3>2. PICK N : N = [M EXCEPT !.finished = TRUE, !.more = FALSE] OBVIOUS
      <3>3. Trailer(d) = n /\ Trailer(B) = N BY <2>1, <2>3, <2>4, <2>12, <3>1, <3>2
      <3>4. n.out = d.out /\ n.poison = d.poison BY <2>8, <3>1 DEF DecoderType
      <3>5. Before(o, n) = [n EXCEPT !.out = o \o d.out] BY <3>4 DEF Before
      <3>6. N = Before(o, n) BY <2>8, <2>9, <2>10, <3>1, <3>2, <3>5 DEF DecoderType
      <3>7. SameAfter(o, n, N) BY <1>1, <3>4, <3>6 DEF SameAfter
      <3> QED BY <1>2, <3>3, <3>7
    <2>13. CASE ~ (t > MaxLine) /\ line # <<>>
      <3>1. Trailer(d) = m /\ Trailer(B) = M BY <2>1, <2>3, <2>4, <2>13
      <3>2. SameAfter(o, m, M) BY <1>1, <2>8, <2>10 DEF SameAfter
      <3> QED BY <1>2, <3>1, <3>2
    <2> QED BY <2>11, <2>12, <2>13
  <1> QED BY <1>4, <1>5

(* The step that decodes: what it decodes comes after it.                    *)
LEMMA DataAfter ==
    ASSUME NEW o \in Bytes, NEW d, Working(d)
    PROVE  SameAfter(o, Data(d), Data(Before(o, d)))
  <1> DEFINE k == IF d.left < Len(d.buf) THEN d.left ELSE Len(d.buf)
             s == SubSeq(d.buf, 1, k)
             b == SubSeq(d.buf, k + 1, Len(d.buf))
             l == d.left - k
             q == IF d.left = k THEN "DataLineEnd" ELSE "Data"
  <1>1. /\ d \in DecoderType /\ ~ d.poison /\ d.buf \in Bytes /\ d.out \in Bytes
        /\ Len(d.buf) \in Nat /\ d.left \in Nat
    BY DEF Working, DecoderInv, DecoderType, Bytes
  <1>2. PICK B : B = Before(o, d) OBVIOUS
  <1>3. B \in DecoderType /\ B.buf = d.buf /\ B.left = d.left /\ B.out = o \o d.out
    BY <1>1, <1>2, BeforeFacts
  <1>4. CASE d.buf = <<>>
    <2>1. Data(d) = Blocked(d) /\ Data(B) = Blocked(B) BY <1>3, <1>4 DEF Data
    <2> QED BY <1>2, <2>1, BlockedAfter
  <1>5. CASE d.buf # <<>>
    <2>1. PICK n : n = Data(d) OBVIOUS
    <2>2. PICK N : N = Data(B) OBVIOUS
    <2>3. n = [d EXCEPT !.out = d.out \o s, !.buf = b, !.left = l, !.st = q]
      BY <1>5, <2>1 DEF Data
    <2>4. N = [B EXCEPT !.out = B.out \o s, !.buf = b, !.left = l, !.st = q]
      BY <1>3, <1>5, <2>2 DEF Data
    <2>5. B.out \o s = o \o (d.out \o s)
      <3>1. k \in 0..Len(d.buf) BY <1>1
      <3>2. s \in Bytes BY <1>1, <3>1, EmptyBytes, PartOfBytes, SubSeqEmpty
      <3>3. \A c \in Bytes : (o \o d.out) \o c = o \o (d.out \o c)
        BY <1>1, PiecesAssociate
      <3> HIDE DEF s
      <3> QED BY <1>3, <3>2, <3>3
    <2> HIDE DEF s, b, l, q, k
    <2>6. B = [d EXCEPT !.out = o \o d.out] BY <1>2 DEF Before
    <2>7. n.out = d.out \o s /\ n.poison = d.poison BY <1>1, <2>3 DEF DecoderType
    <2>8. Before(o, n) = [n EXCEPT !.out = o \o (d.out \o s)] BY <2>7 DEF Before
    <2>9. N = [B EXCEPT !.out = o \o (d.out \o s), !.buf = b, !.left = l, !.st = q]
      BY <2>4, <2>5
    <2>10. N = Before(o, n)
      <3> DEFINE u == d.out \o s
                 v == o \o d.out
                 w == o \o u
      <3>1. /\ n = [d EXCEPT !.out = u, !.buf = b, !.left = l, !.st = q] /\ B = [d EXCEPT !.out = v]
            /\ Before(o, n) = [n EXCEPT !.out = w]
            /\ N = [B EXCEPT !.out = w, !.buf = b, !.left = l, !.st = q]
        BY <2>3, <2>6, <2>8, <2>9
      <3> HIDE DEF u, v, w
      <3> QED BY <1>1, <3>1 DEF DecoderType
    <2>11. SameAfter(o, n, N) BY <1>1, <2>7, <2>10 DEF SameAfter
    <2> QED BY <1>2, <2>1, <2>2, <2>11
  <1> QED BY <1>4, <1>5

(* Nor to any step of the decoder.                                          *)
LEMMA DecodeStepAfter ==
    ASSUME NEW o \in Bytes, NEW d, Working(d)
    PROVE  SameAfter(o, DecodeStep(d), DecodeStep(Before(o, d)))
  <1>1. d \in DecoderType /\ d.more = TRUE BY DEF Working, DecoderInv, DecoderType
  <1>2. Before(o, d).st = d.st /\ Before(o, d).more = TRUE BY <1>1, BeforeFacts
  <1>3. CASE d.st = "Size" BY <1>1, <1>2, <1>3, SizeLineAfter DEF DecodeStep
  <1>4. CASE d.st = "Data" BY <1>1, <1>2, <1>4, DataAfter DEF DecodeStep
  <1>5. CASE d.st = "DataLineEnd" BY <1>1, <1>2, <1>5, DataLineEndAfter DEF DecodeStep
  <1>6. CASE d.st = "Trailer" BY <1>1, <1>2, <1>6, TrailerAfter DEF DecodeStep
  <1> QED BY <1>1, <1>3, <1>4, <1>5, <1>6 DEF DecoderType

(* A loop that goes on works.                                                *)
LEMMA StillWorking ==
    ASSUME NEW d, Working(d), DecodeStep(d).more
    PROVE  Working(DecodeStep(d))
  <1>1. DecoderInv(DecodeStep(d)) /\ Advances(d, DecodeStep(d))
    BY DecodeStepFacts DEF Working
  <1>2. Len(DecodeStep(d).buf) \in Nat /\ d.buf \in Bytes
    BY <1>1 DEF Working, DecoderInv, DecoderType, Bytes
  <1>3. d.buf # <<>>
    <2>1. Len(DecodeStep(d).buf) < Len(d.buf) BY <1>1 DEF Advances
    <2>2. Len(d.buf) # 0 BY <1>2, <2>1
    <2> QED BY <2>2, EmptyBytes
  <1>4. StepWithMore(d, DecodeStep(d), d.buf) BY <1>2, <1>3, DecodeStepWithMore
  <1> QED BY <1>1, <1>4 DEF StepWithMore, GoesOn, Working

(* The loop, after what had been decoded.                                    *)
LEMMA DecodesAfter ==
    ASSUME NEW o \in Bytes, NEW d, Working(d), NEW e, DecodesTo(d, e),
           NEW E, DecodesTo(Before(o, d), E)
    PROVE  SameAfter(o, e, E)
  <1> DEFINE Good(x) == /\ DecoderInv(x)
                        /\ IF x.more /\ ~ x.poison THEN Working(x) /\ DecodesTo(Before(o, x), E)
                           ELSE ~ x.more /\ SameAfter(o, x, E)
             S == {x \in DecoderType : Good(x)}
  <1>1. d \in S BY DEF Working, DecoderInv
  <1>2. ASSUME NEW x \in S PROVE DecodeStep(x) \in S
    <2> DEFINE n == DecodeStep(x)
    <2>1. CASE ~ (x.more /\ ~ x.poison)
      <3>1. n = x BY <2>1 DEF DecodeStep
      <3> QED BY <3>1
    <2>2. CASE x.more /\ ~ x.poison
      <3>1. Working(x) /\ DecodesTo(Before(o, x), E) BY <2>2
      <3>2. DecoderInv(n) BY <3>1, DecodeStepFacts DEF Working
      <3>3. n \in DecoderType BY <3>2 DEF DecoderInv
      <3>4. SameAfter(o, n, DecodeStep(Before(o, x))) BY <3>1, DecodeStepAfter
      <3>5. DecodesTo(DecodeStep(Before(o, x)), E) BY <3>1, DecodesOn
      <3> HIDE DEF n
      <3>6. CASE n.more
        <4>1. Working(n) BY <3>1, <3>6, StillWorking DEF n
        <4>2. DecodeStep(Before(o, x)) = Before(o, n) BY <3>4, <4>1 DEF SameAfter, Working
        <4>3. DecodesTo(Before(o, n), E) BY <3>5, <4>2
        <4> QED BY <3>2, <3>3, <3>6, <4>1, <4>3 DEF n, Working
      <3>7. CASE ~ n.more
        <4>1. PICK N : N = DecodeStep(Before(o, x)) OBVIOUS
        <4>2. ~ N.more
          <5>1. CASE n.poison BY <3>4, <3>7, <4>1, <5>1 DEF SameAfter
          <5>2. CASE ~ n.poison
            <6>1. N = Before(o, n) BY <3>4, <4>1, <5>2 DEF SameAfter
            <6> QED BY <3>3, <3>7, <6>1, BeforeFacts
          <5> QED BY <5>1, <5>2
        <4>3. E = N BY <3>5, <4>1, <4>2, DecodesStopped
        <4>4. SameAfter(o, n, E) BY <3>4, <4>1, <4>3
        <4> QED BY <3>2, <3>3, <3>7, <4>4 DEF n
      <3> QED BY <3>6, <3>7
    <2> QED BY <2>1, <2>2
  <1> HIDE DEF Good
  <1>3. e \in S BY <1>1, <1>2, DecodesWithin
  <1>4. Good(e) /\ ~ e.more BY <1>3 DEF DecodesTo
  <1> QED BY <1>4 DEF Good

(* push of two pieces, and of the body they make.  A line that was too long  *)
(* before its end was read is given up; what a finished or poisoned decoder  *)
(* gets is left in the whole; and what is refused in the second piece had    *)
(* decoded what the first one returned.                                      *)
THEOREM DecodeInPieces ==
    ASSUME NEW d, DecoderInv(d), ~ d.more, ~ d.poison, ~ d.finished,
           NEW x \in Bytes, NEW y \in Bytes, y # <<>>
    PROVE  LET d1 == Decode(d, x)
               D == Decode(d, x \o y)
           IN  IF d1.poison \/ d1.finished THEN DecoderGaveUp(d1) \/ D = Fed(d1, y)
               ELSE SameAfter(d1.out, Decode(d1, y), D)
  <1> DEFINE n == [d EXCEPT !.buf = @ \o x, !.out = <<>>, !.more = TRUE]
             N == [d EXCEPT !.buf = @ \o (x \o y), !.out = <<>>, !.more = TRUE]
  <1>1. PICK d1 : d1 = Decode(d, x) OBVIOUS
  <1>2. PICK D : D = Decode(d, x \o y) OBVIOUS
  <1>3. d \in DecoderType /\ d.buf \in Bytes BY DEF DecoderInv, DecoderType
  <1>4. x \o y \in Bytes /\ d.buf \o x \in Bytes BY <1>3, MoreBytes
  <1>5. Working(n) /\ DecodesTo(n, d1) BY <1>1, DecodeIsLoop
  <1>6. Working(N) /\ DecodesTo(N, D) BY <1>2, <1>4, DecodeIsLoop
  <1>7. n = [d EXCEPT !.buf = d.buf \o x, !.out = <<>>, !.more = TRUE] OBVIOUS
  <1>8. N = [d EXCEPT !.buf = (d.buf \o x) \o y, !.out = <<>>, !.more = TRUE]
    BY <1>3, PiecesAssociate
  <1> HIDE DEF n, N
  <1>9. n.buf = d.buf \o x BY <1>3, <1>7 DEF DecoderType
  <1>10. Fed(n, y) = [n EXCEPT !.buf = (d.buf \o x) \o y] BY <1>9 DEF Fed
  <1>11. Fed(n, y) = N BY <1>3, <1>7, <1>8, <1>10 DEF DecoderType
  <1>12. DoneWithMore(d1, y, D) BY <1>5, <1>6, <1>11, DecodesInPieces
  <1>13. DecoderInv(d1) /\ ~ d1.more BY <1>1, DecodeFacts
  <1>14. CASE d1.poison \/ d1.finished
    <2>1. DecoderGaveUp(d1) \/ D = Fed(d1, y) BY <1>12, <1>14 DEF DoneWithMore
    <2> QED BY <1>1, <1>2, <1>14, <2>1
  <1>15. CASE ~ (d1.poison \/ d1.finished)
    <2>1. DecodesTo(Resumed(d1, y), D) BY <1>12, <1>15 DEF DoneWithMore, DecoderGaveUp
    <2>2. d1 \in DecoderType /\ d1.buf \in Bytes /\ d1.out \in Bytes BY <1>13 DEF DecoderInv, DecoderType
    <2> DEFINE r == [d1 EXCEPT !.buf = @ \o y, !.out = <<>>, !.more = TRUE]
    <2>3. Working(r) /\ DecodesTo(r, Decode(d1, y)) BY <1>13, <1>15, DecodeIsLoop
    <2>4. r = [d1 EXCEPT !.buf = d1.buf \o y, !.out = <<>>, !.more = TRUE] OBVIOUS
    <2>5. Resumed(d1, y) = [d1 EXCEPT !.buf = d1.buf \o y, !.more = TRUE] BY DEF Resumed
    <2> HIDE DEF r
    <2>6. Before(d1.out, r) = Resumed(d1, y)
      <3>1. r.out = <<>> BY <2>2, <2>4 DEF DecoderType
      <3>2. Before(d1.out, r) = [r EXCEPT !.out = d1.out \o <<>>] BY <3>1 DEF Before
      <3>3. d1.out \o <<>> = d1.out BY <2>2, ConcatEmptySeq DEF Bytes
      <3>4. Before(d1.out, r) = [r EXCEPT !.out = d1.out] BY <3>2, <3>3
      <3> QED BY <2>2, <2>4, <2>5, <3>4, ZenonT(60) DEF DecoderType
    <2>7. SameAfter(d1.out, Decode(d1, y), D) BY <2>1, <2>2, <2>3, <2>6, DecodesAfter
    <2> QED BY <1>1, <1>2, <1>15, <2>7
  <1> QED BY <1>14, <1>15
-----------------------------------------------------------------------------
(* A push in rounds *)

(* The loop of push, from m on, ends in e.                                   *)
PushesTo(m, e) ==
    /\ ~ e.go
    /\ \E n \in Nat : \E f : /\ f[0] = m /\ f[n] = e
                             /\ \A i \in 1..n : f[i] = PushIter(f[i - 1])

(* What holds of m and is kept by every turn holds in the end.               *)
LEMMA PushesWithin ==
    ASSUME NEW m, NEW e, PushesTo(m, e), NEW S, m \in S, \A x \in S : PushIter(x) \in S
    PROVE  e \in S
  <1>1. PICK n \in Nat : \E f : /\ f[0] = m /\ f[n] = e
                                /\ \A i \in 1..n : f[i] = PushIter(f[i - 1])
    BY DEF PushesTo
  <1>2. PICK f : f[0] = m /\ f[n] = e /\ \A i \in 1..n : f[i] = PushIter(f[i - 1]) BY <1>1
  <1> DEFINE T == {i \in Nat : i <= n => f[i] \in S}
  <1>3. 0 \in T BY <1>2
  <1>4. ASSUME NEW i \in Nat, i \in T PROVE i + 1 \in T
    <2>1. SUFFICES ASSUME i + 1 <= n PROVE f[i + 1] \in S OBVIOUS
    <2>2. i <= n /\ i + 1 \in 1..n /\ (i + 1) - 1 = i BY <2>1
    <2>3. f[i] \in S BY <1>4, <2>2
    <2>4. f[i + 1] = PushIter(f[i]) BY <1>2, <2>2
    <2> QED BY <2>3, <2>4
  <1>5. Nat \subseteq T BY <1>3, <1>4, SetInduction
  <1>6. n \in T /\ n <= n BY <1>5
  <1> QED BY <1>2, <1>6

(* The end of a loop that has stopped.                                       *)
LEMMA PushesStopped ==
    ASSUME NEW m, ~ m.go
    PROVE  PushesTo(m, m) /\ \A e : PushesTo(m, e) => e = m
  <1>1. PushesTo(m, m)
    <2> DEFINE f == [i \in {0} |-> m]
    <2>1. f[0] = m /\ \A i \in 1..0 : f[i] = PushIter(f[i - 1]) OBVIOUS
    <2> HIDE DEF f
    <2>2. 0 \in Nat OBVIOUS
    <2> QED BY <2>1, <2>2 DEF PushesTo
  <1>2. ASSUME NEW e, PushesTo(m, e) PROVE e = m
    <2>1. PushIter(m) = m BY DEF PushIter
    <2>2. m \in {m} /\ \A x \in {m} : PushIter(x) \in {m} BY <2>1
    <2>3. e \in {m} BY <1>2, <2>2, PushesWithin
    <2> QED BY <2>3
  <1> QED BY <1>1, <1>2

(* One turn more or less.                                                    *)
LEMMA PushesOn ==
    ASSUME NEW m, NEW e, PushesTo(m, e)
    PROVE  PushesTo(PushIter(m), e)
  <1>1. CASE ~ m.go
    <2>1. PushIter(m) = m BY <1>1 DEF PushIter
    <2> QED BY <2>1
  <1>2. CASE m.go
    <2>1. ~ e.go BY DEF PushesTo
    <2>2. PICK n \in Nat : \E f : /\ f[0] = m /\ f[n] = e
                                  /\ \A i \in 1..n : f[i] = PushIter(f[i - 1])
      BY DEF PushesTo
    <2>3. PICK f : f[0] = m /\ f[n] = e /\ \A i \in 1..n : f[i] = PushIter(f[i - 1]) BY <2>2
    <2>4. n # 0 BY <1>2, <2>1, <2>3
    <2>5. n - 1 \in Nat /\ 1 \in 1..n BY <2>4
    <2> DEFINE g == [i \in 0..(n - 1) |-> f[i + 1]]
    <2>6. g[0] = PushIter(m)
      <3>1. f[1] = PushIter(f[1 - 1]) /\ 1 - 1 = 0 BY <2>3, <2>5
      <3>2. 0 \in 0..(n - 1) /\ 0 + 1 = 1 BY <2>5
      <3> QED BY <2>3, <3>1, <3>2
    <2>7. g[n - 1] = e
      <3>1. n - 1 \in 0..(n - 1) /\ (n - 1) + 1 = n BY <2>5
      <3> QED BY <2>3, <3>1
    <2>8. ASSUME NEW i \in 1..(n - 1) PROVE g[i] = PushIter(g[i - 1])
      <3>1. i \in 0..(n - 1) /\ i - 1 \in 0..(n - 1) /\ (i - 1) + 1 = i /\ i + 1 \in 1..n
            /\ (i + 1) - 1 = i
        BY <2>5
      <3>2. g[i] = f[i + 1] /\ g[i - 1] = f[i] BY <3>1
      <3>3. f[i + 1] = PushIter(f[i]) BY <2>3, <3>1
      <3> QED BY <3>2, <3>3
    <2> HIDE DEF g
    <2> QED BY <2>1, <2>5, <2>6, <2>7, <2>8 DEF PushesTo
  <1> QED BY <1>1, <1>2

(* The first round of a push belongs to it.                                 *)
LEMMA PushesBack ==
    ASSUME NEW m, NEW e, PushesTo(PushIter(m), e)
    PROVE  PushesTo(m, e)
  <1>1. ~ e.go BY DEF PushesTo
  <1>2. PICK n \in Nat : \E f : /\ f[0] = PushIter(m) /\ f[n] = e
                                /\ \A i \in 1..n : f[i] = PushIter(f[i - 1])
    BY DEF PushesTo
  <1>3. PICK f : f[0] = PushIter(m) /\ f[n] = e /\ \A i \in 1..n : f[i] = PushIter(f[i - 1])
    BY <1>2
  <1> DEFINE g == [i \in 0..(n + 1) |-> IF i = 0 THEN m ELSE f[i - 1]]
  <1>4. g[0] = m /\ g[n + 1] = e /\ n + 1 \in Nat
    <2>1. n + 1 \in 0..(n + 1) /\ n + 1 # 0 /\ (n + 1) - 1 = n /\ 0 \in 0..(n + 1) OBVIOUS
    <2> QED BY <1>3, <2>1
  <1>5. ASSUME NEW i \in 1..(n + 1) PROVE g[i] = PushIter(g[i - 1])
    <2>1. i \in 0..(n + 1) /\ i # 0 /\ i - 1 \in 0..(n + 1) OBVIOUS
    <2>2. g[i] = f[i - 1] BY <2>1
    <2>3. CASE i = 1
      <3>1. i - 1 = 0 BY <2>3
      <3> QED BY <1>3, <1>4, <2>2, <3>1
    <2>4. CASE i # 1
      <3>1. i - 1 # 0 /\ i - 1 \in 1..n BY <2>4
      <3>2. g[i - 1] = f[(i - 1) - 1] BY <2>1, <3>1
      <3> QED BY <1>3, <2>2, <3>1, <3>2
    <2> QED BY <2>3, <2>4
  <1> HIDE DEF g
  <1> QED BY <1>1, <1>4, <1>5 DEF PushesTo

(* A loop ends in one way.                                                   *)
LEMMA PushesOnce ==
    ASSUME NEW m, NEW e, PushesTo(m, e), NEW E, PushesTo(m, E), MachineOK(m)
    PROVE  e = E
  <1> DEFINE S == {x \in MachineType : MachineOK(x) /\ PushesTo(x, E)}
  <1>1. m \in S BY DEF MachineOK
  <1>2. ASSUME NEW x \in S PROVE PushIter(x) \in S
    <2>1. PushesTo(PushIter(x), E) BY PushesOn
    <2>2. CASE ~ x.go
      <3>1. PushIter(x) = x BY <2>2 DEF PushIter
      <3> QED BY <3>1
    <2>3. CASE x.go
      <3>1. MachineOK(PushIter(x)) BY <2>3, PushIterIsRound DEF RoundOK
      <3> QED BY <2>1, <3>1 DEF MachineOK
    <2> QED BY <2>2, <2>3
  <1>3. e \in S BY <1>1, <1>2, PushesWithin
  <1>4. PushesTo(e, E) /\ ~ e.go BY <1>3 DEF PushesTo
  <1> QED BY <1>4, PushesStopped

(* push of an open machine is its loop, from what it has and what it reads.  *)
Opened(m, x) == [m EXCEPT !.carry = @ \o x, !.ev = <<>>, !.go = TRUE]

(* What Opened does.                                                        *)
LEMMA OpenedFacts ==
    ASSUME NEW m, MachineOK(m), NEW x \in Bytes
    PROVE  LET n == Opened(m, x)
           IN  /\ MachineOK(n) /\ n.go = TRUE /\ n.st = m.st /\ n.ev = <<>>
               /\ n.carry = m.carry \o x /\ n.tcarry = m.tcarry /\ n.dec = m.dec
               /\ n.tchunked = m.tchunked /\ n.hbytes = m.hbytes /\ n.text = m.text
  <1> DEFINE n == Opened(m, x)
  <1>1. m \in MachineType /\ m.carry \in Bytes BY BufferFacts DEF MachineOK
  <1>2. m.carry \o x \in Bytes BY <1>1, MoreBytes
  <1>3. n = [m EXCEPT !.carry = m.carry \o x, !.ev = <<>>, !.go = TRUE] BY DEF Opened
  <1>4. <<>> \in Seq(Events) OBVIOUS
  <1> HIDE DEF n
  <1>5. n \in MachineType BY <1>1, <1>2, <1>3, <1>4 DEF MachineType
  <1>6. /\ n.go = TRUE /\ n.st = m.st /\ n.ev = <<>>
        /\ n.carry = m.carry \o x /\ n.tcarry = m.tcarry /\ n.dec = m.dec
        /\ n.tchunked = m.tchunked /\ n.hbytes = m.hbytes /\ n.text = m.text
    BY <1>1, <1>3 DEF MachineType
  <1> QED BY <1>5, <1>6 DEF MachineOK, n

(* A push is its rounds, from the machine that was given the bytes.         *)
LEMMA PushIsLoop ==
    ASSUME NEW m, MachineOK(m), ~ m.go, m.st # "Closed", NEW x \in Bytes
    PROVE  PushesTo(Opened(m, x), Push(m, x))
  <1> DEFINE n == Opened(m, x)
             e == Push(m, x)
  <1>1. MachineOK(n) BY OpenedFacts
  <1>2. PICK k \in Nat : k = Len(n.carry) + Len(n.tcarry) + Len(n.dec.buf) BY <1>1, MeasureFacts
  <1> DEFINE K == k + 4
  <1>3. e = MachineAfter(n, K) BY <1>2 DEF Push, MachineAfter, Opened
  <1>4. ~ e.go BY PushFacts
  <1> HIDE DEF n, e
  <1>9. K \in Nat OBVIOUS
  <1> HIDE DEF K
  <1>5. \A N \in Nat : \E f : /\ f[0] = n /\ f[N] = MachineAfter(n, N)
                              /\ \A i \in 1..N : f[i] = PushIter(f[i - 1])
    BY PushSteps
  <1>6. \E f : f[0] = n /\ f[K] = e /\ \A i \in 1..K : f[i] = PushIter(f[i - 1])
    BY <1>3, <1>5, <1>9
  <1>7. PushesTo(n, e) BY <1>4, <1>6, <1>9 DEF PushesTo
  <1> QED BY <1>7 DEF n, e

-----------------------------------------------------------------------------
(* What a round reads, and what it leaves alone *)

(* What is said is said after what was said before it.                       *)
LEMMA AppendLast ==
    ASSUME NEW a \in Seq(Events), NEW b \in Seq(Events), NEW e \in Events
    PROVE  Append(a \o b, e) = a \o Append(b, e) /\ Append(b, e) \in Seq(Events)
  <1>1. a \o b \in Seq(Events) BY ConcatProperties
  <1>2. Append(a \o b, e) = (a \o b) \o <<e>> /\ Append(b, e) = b \o <<e>>
    BY <1>1, AppendIsConcat
  <1>3. <<e>> \in Seq(Events) OBVIOUS
  <1>4. (a \o b) \o <<e>> = a \o (b \o <<e>>) BY <1>3, ConcatAssociative
  <1> QED BY <1>2, <1>3, <1>4, ConcatProperties

(* A machine with other buffers, another decoder, and events before its own. *)
Put(m, c, t, d, a) ==
    [m EXCEPT !.carry = c, !.tcarry = t, !.dec = d, !.ev = a \o m.ev]

(* The fields of such a machine.                                             *)
LEMMA PutFacts ==
    ASSUME NEW m \in MachineType, NEW c \in Bytes, NEW t \in Bytes, NEW d \in DecoderType,
           NEW a \in Seq(Events)
    PROVE  LET p == Put(m, c, t, d, a)
           IN  /\ p \in MachineType /\ p.carry = c /\ p.tcarry = t /\ p.dec = d
               /\ p.ev = a \o m.ev /\ m.ev \in Seq(Events) /\ a \o m.ev \in Seq(Events)
               /\ p.st = m.st /\ p.headers = m.headers /\ p.hbytes = m.hbytes
               /\ p.http = m.http /\ p.chunked = m.chunked /\ p.icyBlank = m.icyBlank
               /\ p.tchunked = m.tchunked /\ p.text = m.text /\ p.started = m.started
               /\ p.lastGga = m.lastGga /\ p.go = m.go
  <1>1. m.ev \in Seq(Events) BY DEF MachineType
  <1>2. PICK e \in Seq(Events) : e = a \o m.ev BY <1>1, ConcatProperties
  <1>3. PICK p : p = [m EXCEPT !.carry = c, !.tcarry = t, !.dec = d, !.ev = e] OBVIOUS
  <1>4. p = Put(m, c, t, d, a) BY <1>2, <1>3 DEF Put
  <1>5. p \in MachineType BY <1>3 DEF MachineType
  <1>6. /\ p.carry = c /\ p.tcarry = t /\ p.dec = d
        /\ p.ev = e
        /\ p.st = m.st /\ p.headers = m.headers /\ p.hbytes = m.hbytes
        /\ p.http = m.http /\ p.chunked = m.chunked /\ p.icyBlank = m.icyBlank
        /\ p.tchunked = m.tchunked /\ p.text = m.text /\ p.started = m.started
        /\ p.lastGga = m.lastGga /\ p.go = m.go
    BY <1>3 DEF MachineType
  <1> QED BY <1>1, <1>2, <1>4, <1>5, <1>6

(* Nothing put into it leaves it as it is.                                   *)
LEMMA PutNothing ==
    ASSUME NEW m \in MachineType
    PROVE  Put(m, m.carry, m.tcarry, m.dec, <<>>) = m
  <1>1. m.ev \in Seq(Events) BY DEF MachineType
  <1>2. <<>> \o m.ev = m.ev BY <1>1, ConcatEmptySeq
  <1> QED BY <1>2 DEF Put, MachineType

(* An event is added, the loop stops, and the machine closes, whatever the   *)
(* rest of it.                                                               *)
LEMMA PutEmit ==
    ASSUME NEW m \in MachineType, NEW c \in Bytes, NEW t \in Bytes, NEW d \in DecoderType,
           NEW a \in Seq(Events), NEW k, NEW x, <<k, x>> \in Events
    PROVE  /\ Emit(Put(m, c, t, d, a), k, x) = Put(Emit(m, k, x), c, t, d, a)
           /\ Emit(m, k, x) \in MachineType
  <1>1. m.ev \in Seq(Events) BY DEF MachineType
  <1>2. PICK e : e = <<k, x>> OBVIOUS
  <1>3. PICK f \in Seq(Events) : f = a \o m.ev BY <1>1, ConcatProperties
  <1>4. PICK g \in Seq(Events) : g = Append(m.ev, e) BY <1>1, <1>2, AppendProperties
  <1>5. Append(f, e) = a \o g BY <1>1, <1>2, <1>3, <1>4, AppendLast
  <1>6. PICK p : p = [m EXCEPT !.carry = c, !.tcarry = t, !.dec = d, !.ev = f] OBVIOUS
  <1>7. p = Put(m, c, t, d, a) BY <1>3, <1>6 DEF Put
  <1>8. p.ev = f BY <1>6 DEF MachineType
  <1>9. Emit(p, k, x) = [p EXCEPT !.ev = Append(f, e)] BY <1>2, <1>8 DEF Emit
  <1>10. PICK n : n = [m EXCEPT !.ev = g] OBVIOUS
  <1>11. n = Emit(m, k, x) BY <1>2, <1>4, <1>10 DEF Emit
  <1>12. n.ev = g /\ n \in MachineType BY <1>10 DEF MachineType
  <1>13. Put(n, c, t, d, a) = [n EXCEPT !.carry = c, !.tcarry = t, !.dec = d, !.ev = a \o g]
    BY <1>12 DEF Put
  <1>14. [p EXCEPT !.ev = Append(f, e)]
           = [n EXCEPT !.carry = c, !.tcarry = t, !.dec = d, !.ev = a \o g]
    BY <1>5, <1>6, <1>10 DEF MachineType
  <1> QED BY <1>7, <1>9, <1>11, <1>12, <1>13, <1>14

(* Close does not look at what Put replaces.                                *)
LEMMA PutClose ==
    ASSUME NEW m \in MachineType, NEW c \in Bytes, NEW t \in Bytes, NEW d \in DecoderType,
           NEW a \in Seq(Events), NEW k, NEW x, <<k, x>> \in Events
    PROVE  /\ Close(Put(m, c, t, d, a), k, x) = Put(Close(m, k, x), c, t, d, a)
           /\ Close(m, k, x) \in MachineType
  <1>1. PICK n \in MachineType : n = Emit(m, k, x) BY PutEmit
  <1>2. Emit(Put(m, c, t, d, a), k, x) = Put(n, c, t, d, a) BY <1>1, PutEmit
  <1>3. PICK f : f = a \o n.ev OBVIOUS
  <1>4. PICK p : p = [n EXCEPT !.carry = c, !.tcarry = t, !.dec = d, !.ev = f] OBVIOUS
  <1>5. p = Put(n, c, t, d, a) BY <1>3, <1>4 DEF Put
  <1>6. PICK q : q = [n EXCEPT !.st = "Closed"] OBVIOUS
  <1>7. q = Close(m, k, x) BY <1>1, <1>6 DEF Close
  <1>8. q.ev = n.ev /\ q \in MachineType BY <1>6 DEF MachineType, States
  <1>9. Put(q, c, t, d, a) = [q EXCEPT !.carry = c, !.tcarry = t, !.dec = d, !.ev = f]
    BY <1>3, <1>8 DEF Put
  <1>10. Close(Put(m, c, t, d, a), k, x) = [p EXCEPT !.st = "Closed"]
    BY <1>2, <1>5 DEF Close
  <1>11. [p EXCEPT !.st = "Closed"]
           = [q EXCEPT !.carry = c, !.tcarry = t, !.dec = d, !.ev = f]
    BY <1>4, <1>6 DEF MachineType
  <1> QED BY <1>7, <1>8, <1>9, <1>10, <1>11

(* Nor does Wait.                                                           *)
LEMMA PutWait ==
    ASSUME NEW m \in MachineType, NEW c \in Bytes, NEW t \in Bytes, NEW d \in DecoderType,
           NEW a \in Seq(Events)
    PROVE  /\ Wait(Put(m, c, t, d, a)) = Put(Wait(m), c, t, d, a)
           /\ Wait(m) \in MachineType
  <1>1. PICK f : f = a \o m.ev OBVIOUS
  <1>2. PICK q : q = [m EXCEPT !.go = FALSE] OBVIOUS
  <1>3. q.ev = m.ev /\ q \in MachineType BY <1>2 DEF MachineType
  <1>4. Put(q, c, t, d, a) = [q EXCEPT !.carry = c, !.tcarry = t, !.dec = d, !.ev = f]
    BY <1>1, <1>3 DEF Put
  <1>5. [[m EXCEPT !.carry = c, !.tcarry = t, !.dec = d, !.ev = f] EXCEPT !.go = FALSE]
           = [q EXCEPT !.carry = c, !.tcarry = t, !.dec = d, !.ev = f]
    BY <1>2 DEF MachineType
  <1> QED BY <1>1, <1>2, <1>3, <1>4, <1>5 DEF Put, Wait

(* So a line of a table has the same effect.                                 *)
LEMMA PutLine ==
    ASSUME NEW m, MachineOK(m), NEW c \in Bytes, NEW t \in Bytes, NEW d \in DecoderType,
           NEW a \in Seq(Events), NEW line \in Bytes
    PROVE  PushSourcetableLine(Put(m, c, t, d, a), line)
             = Put(PushSourcetableLine(m, line), c, t, d, a)
  <1>1. m \in MachineType /\ m.text \in Seq(Bytes) BY DEF MachineOK, MachineType
  <1>2. PICK text \in Seq(Bytes) : text = Append(m.text, line) BY <1>1, AppendProperties
  <1>3. PICK n : n = [m EXCEPT !.started = TRUE, !.text = text] OBVIOUS
  <1>4. n \in MachineType /\ n.text = text /\ n.ev = m.ev BY <1>1, <1>3 DEF MachineType
  <1>5. PICK f : f = a \o m.ev OBVIOUS
  <1>6. PICK p : p = [m EXCEPT !.carry = c, !.tcarry = t, !.dec = d, !.ev = f] OBVIOUS
  <1>7. p = Put(m, c, t, d, a) BY <1>5, <1>6 DEF Put
  <1>8. p.text = m.text /\ p.started = m.started BY <1>1, <1>6 DEF MachineType
  <1>9. [p EXCEPT !.started = TRUE, !.text = text] = Put(n, c, t, d, a)
    <2>1. Put(n, c, t, d, a) = [n EXCEPT !.carry = c, !.tcarry = t, !.dec = d, !.ev = f]
      BY <1>4, <1>5 DEF Put
    <2> QED BY <1>1, <1>3, <1>6, <2>1 DEF MachineType
  <1>10. PICK q : q = Put(n, c, t, d, a) OBVIOUS
  <1>11. q.text = text BY <1>4, <1>10, PutFacts, SMTT(30)
  <1>12. <<"Rejected", <<>> >> \in Events /\ <<"Sourcetable", text>> \in Events
    <2>1. <<>> \in Details /\ text \in Details BY EmptyBytes DEF Details
    <2> QED BY <2>1 DEF Events, Ends
  <1>13. Reject(q) = Put(Reject(n), c, t, d, a) BY <1>4, <1>10, <1>12, PutClose DEF Reject
  <1>14. FinishSourcetable(q) = Put(FinishSourcetable(n), c, t, d, a)
    BY <1>4, <1>10, <1>11, <1>12, PutClose DEF FinishSourcetable
  <1>15. PushSourcetableLine(p, line)
           = IF Skipped(m, line) THEN p
             ELSE IF TextLen(text) > MaxTable THEN Reject(q)
             ELSE IF FirstField(line) = <<"END">> THEN FinishSourcetable(q) ELSE q
    <2>1. Skipped(p, line) = Skipped(m, line) BY <1>8 DEF Skipped
    <2>2. [p EXCEPT !.started = TRUE, !.text = Append(p.text, line)] = q
      BY <1>2, <1>8, <1>9, <1>10
    <2> QED BY <1>11, <2>1, <2>2 DEF PushSourcetableLine
  <1>16. PushSourcetableLine(m, line)
           = IF Skipped(m, line) THEN m
             ELSE IF TextLen(text) > MaxTable THEN Reject(n)
             ELSE IF FirstField(line) = <<"END">> THEN FinishSourcetable(n) ELSE n
    BY <1>2, <1>3, <1>4 DEF PushSourcetableLine
  <1> QED BY <1>7, <1>10, <1>13, <1>14, <1>15, <1>16

(* What a line of the status or of the headers changes.                      *)
ToState(m, s) == [m EXCEPT !.st = s]

(* What the parsing of a response changes of the machine.                   *)
ToResponse(m, s, hs, hb, w) == [m EXCEPT !.st = s, !.headers = hs, !.hbytes = hb, !.http = w]
ToIcyStream(m, s, b, k) == [m EXCEPT !.st = s, !.chunked = b, !.icyBlank = k]
ToStream(m, s, b) == [m EXCEPT !.st = s, !.chunked = b]
ToTable(m, s, b, k) == [m EXCEPT !.st = s, !.tchunked = b, !.started = k]
ToHeaders(m, hs) == [m EXCEPT !.headers = hs]
ToHeaderBytes(m, hb) == [m EXCEPT !.hbytes = hb]

(* It is the same, whatever the rest of the machine.                         *)
LEMMA PutState ==
    ASSUME NEW m \in MachineType, NEW c \in Bytes, NEW t \in Bytes, NEW d \in DecoderType,
           NEW a \in Seq(Events), NEW s \in States
    PROVE  /\ ToState(Put(m, c, t, d, a), s) = Put(ToState(m, s), c, t, d, a)
           /\ ToState(m, s) \in MachineType
  <1>1. PICK n : n = [m EXCEPT !.st = s] OBVIOUS
  <1>2. n \in MachineType /\ n.ev = m.ev BY <1>1 DEF MachineType
  <1>3. PICK f : f = a \o m.ev OBVIOUS
  <1>4. Put(n, c, t, d, a) = [n EXCEPT !.carry = c, !.tcarry = t, !.dec = d, !.ev = f]
    BY <1>2, <1>3 DEF Put
  <1>5. PICK p : p = [m EXCEPT !.carry = c, !.tcarry = t, !.dec = d, !.ev = f] OBVIOUS
  <1>6. p = Put(m, c, t, d, a) BY <1>3, <1>5 DEF Put
  <1>7. [p EXCEPT !.st = s]
          = [n EXCEPT !.carry = c, !.tcarry = t, !.dec = d, !.ev = f]
    BY <1>1, <1>5 DEF MachineType
  <1>8. ToState(m, s) = n BY <1>1 DEF ToState
  <1>9. ToState(p, s) = Put(n, c, t, d, a) BY <1>4, <1>7 DEF ToState
  <1> QED BY <1>2, <1>6, <1>8, <1>9

(* It is the same, whatever the rest of the machine.                         *)
LEMMA PutResponse ==
    ASSUME NEW m \in MachineType, NEW c \in Bytes, NEW t \in Bytes, NEW d \in DecoderType,
           NEW a \in Seq(Events), NEW s \in States, NEW hs \in Seq(Bytes), NEW hb \in Nat,
           NEW w \in {"none", "HTTP200", "HTTP404"}
    PROVE  /\ ToResponse(Put(m, c, t, d, a), s, hs, hb, w) = Put(ToResponse(m, s, hs, hb, w), c, t, d, a)
           /\ ToResponse(m, s, hs, hb, w) \in MachineType
  <1>1. PICK n : n = [m EXCEPT !.st = s, !.headers = hs, !.hbytes = hb, !.http = w] OBVIOUS
  <1>2. n \in MachineType /\ n.ev = m.ev BY <1>1 DEF MachineType
  <1>3. PICK f : f = a \o m.ev OBVIOUS
  <1>4. Put(n, c, t, d, a) = [n EXCEPT !.carry = c, !.tcarry = t, !.dec = d, !.ev = f]
    BY <1>2, <1>3 DEF Put
  <1>5. PICK p : p = [m EXCEPT !.carry = c, !.tcarry = t, !.dec = d, !.ev = f] OBVIOUS
  <1>6. p = Put(m, c, t, d, a) BY <1>3, <1>5 DEF Put
  <1>7. [p EXCEPT !.st = s, !.headers = hs, !.hbytes = hb, !.http = w]
          = [n EXCEPT !.carry = c, !.tcarry = t, !.dec = d, !.ev = f]
    BY <1>1, <1>5 DEF MachineType
  <1>8. ToResponse(m, s, hs, hb, w) = n BY <1>1 DEF ToResponse
  <1>9. ToResponse(p, s, hs, hb, w) = Put(n, c, t, d, a) BY <1>4, <1>7 DEF ToResponse
  <1> QED BY <1>2, <1>6, <1>8, <1>9

(* It is the same, whatever the rest of the machine.                         *)
LEMMA PutIcyStream ==
    ASSUME NEW m \in MachineType, NEW c \in Bytes, NEW t \in Bytes, NEW d \in DecoderType,
           NEW a \in Seq(Events), NEW s \in States, NEW b \in BOOLEAN, NEW k \in BOOLEAN
    PROVE  /\ ToIcyStream(Put(m, c, t, d, a), s, b, k) = Put(ToIcyStream(m, s, b, k), c, t, d, a)
           /\ ToIcyStream(m, s, b, k) \in MachineType
  <1>1. PICK n : n = [m EXCEPT !.st = s, !.chunked = b, !.icyBlank = k] OBVIOUS
  <1>2. n \in MachineType /\ n.ev = m.ev BY <1>1 DEF MachineType
  <1>3. PICK f : f = a \o m.ev OBVIOUS
  <1>4. Put(n, c, t, d, a) = [n EXCEPT !.carry = c, !.tcarry = t, !.dec = d, !.ev = f]
    BY <1>2, <1>3 DEF Put
  <1>5. PICK p : p = [m EXCEPT !.carry = c, !.tcarry = t, !.dec = d, !.ev = f] OBVIOUS
  <1>6. p = Put(m, c, t, d, a) BY <1>3, <1>5 DEF Put
  <1>7. [p EXCEPT !.st = s, !.chunked = b, !.icyBlank = k]
          = [n EXCEPT !.carry = c, !.tcarry = t, !.dec = d, !.ev = f]
    BY <1>1, <1>5 DEF MachineType
  <1>8. ToIcyStream(m, s, b, k) = n BY <1>1 DEF ToIcyStream
  <1>9. ToIcyStream(p, s, b, k) = Put(n, c, t, d, a) BY <1>4, <1>7 DEF ToIcyStream
  <1> QED BY <1>2, <1>6, <1>8, <1>9

(* It is the same, whatever the rest of the machine.                         *)
LEMMA PutStream ==
    ASSUME NEW m \in MachineType, NEW c \in Bytes, NEW t \in Bytes, NEW d \in DecoderType,
           NEW a \in Seq(Events), NEW s \in States, NEW b \in BOOLEAN
    PROVE  /\ ToStream(Put(m, c, t, d, a), s, b) = Put(ToStream(m, s, b), c, t, d, a)
           /\ ToStream(m, s, b) \in MachineType
  <1>1. PICK n : n = [m EXCEPT !.st = s, !.chunked = b] OBVIOUS
  <1>2. n \in MachineType /\ n.ev = m.ev BY <1>1 DEF MachineType
  <1>3. PICK f : f = a \o m.ev OBVIOUS
  <1>4. Put(n, c, t, d, a) = [n EXCEPT !.carry = c, !.tcarry = t, !.dec = d, !.ev = f]
    BY <1>2, <1>3 DEF Put
  <1>5. PICK p : p = [m EXCEPT !.carry = c, !.tcarry = t, !.dec = d, !.ev = f] OBVIOUS
  <1>6. p = Put(m, c, t, d, a) BY <1>3, <1>5 DEF Put
  <1>7. [p EXCEPT !.st = s, !.chunked = b]
          = [n EXCEPT !.carry = c, !.tcarry = t, !.dec = d, !.ev = f]
    BY <1>1, <1>5 DEF MachineType
  <1>8. ToStream(m, s, b) = n BY <1>1 DEF ToStream
  <1>9. ToStream(p, s, b) = Put(n, c, t, d, a) BY <1>4, <1>7 DEF ToStream
  <1> QED BY <1>2, <1>6, <1>8, <1>9

(* It is the same, whatever the rest of the machine.                         *)
LEMMA PutTable ==
    ASSUME NEW m \in MachineType, NEW c \in Bytes, NEW t \in Bytes, NEW d \in DecoderType,
           NEW a \in Seq(Events), NEW s \in States, NEW b \in BOOLEAN, NEW k \in BOOLEAN
    PROVE  /\ ToTable(Put(m, c, t, d, a), s, b, k) = Put(ToTable(m, s, b, k), c, t, d, a)
           /\ ToTable(m, s, b, k) \in MachineType
  <1>1. PICK n : n = [m EXCEPT !.st = s, !.tchunked = b, !.started = k] OBVIOUS
  <1>2. n \in MachineType /\ n.ev = m.ev BY <1>1 DEF MachineType
  <1>3. PICK f : f = a \o m.ev OBVIOUS
  <1>4. Put(n, c, t, d, a) = [n EXCEPT !.carry = c, !.tcarry = t, !.dec = d, !.ev = f]
    BY <1>2, <1>3 DEF Put
  <1>5. PICK p : p = [m EXCEPT !.carry = c, !.tcarry = t, !.dec = d, !.ev = f] OBVIOUS
  <1>6. p = Put(m, c, t, d, a) BY <1>3, <1>5 DEF Put
  <1>7. [p EXCEPT !.st = s, !.tchunked = b, !.started = k]
          = [n EXCEPT !.carry = c, !.tcarry = t, !.dec = d, !.ev = f]
    BY <1>1, <1>5 DEF MachineType
  <1>8. ToTable(m, s, b, k) = n BY <1>1 DEF ToTable
  <1>9. ToTable(p, s, b, k) = Put(n, c, t, d, a) BY <1>4, <1>7 DEF ToTable
  <1> QED BY <1>2, <1>6, <1>8, <1>9

(* It is the same, whatever the rest of the machine.                         *)
LEMMA PutHeader ==
    ASSUME NEW m \in MachineType, NEW c \in Bytes, NEW t \in Bytes, NEW d \in DecoderType,
           NEW a \in Seq(Events), NEW hs \in Seq(Bytes)
    PROVE  /\ ToHeaders(Put(m, c, t, d, a), hs) = Put(ToHeaders(m, hs), c, t, d, a)
           /\ ToHeaders(m, hs) \in MachineType
  <1>1. PICK n : n = [m EXCEPT !.headers = hs] OBVIOUS
  <1>2. n \in MachineType /\ n.ev = m.ev BY <1>1 DEF MachineType
  <1>3. PICK f : f = a \o m.ev OBVIOUS
  <1>4. Put(n, c, t, d, a) = [n EXCEPT !.carry = c, !.tcarry = t, !.dec = d, !.ev = f]
    BY <1>2, <1>3 DEF Put
  <1>5. PICK p : p = [m EXCEPT !.carry = c, !.tcarry = t, !.dec = d, !.ev = f] OBVIOUS
  <1>6. p = Put(m, c, t, d, a) BY <1>3, <1>5 DEF Put
  <1>7. [p EXCEPT !.headers = hs]
          = [n EXCEPT !.carry = c, !.tcarry = t, !.dec = d, !.ev = f]
    BY <1>1, <1>5 DEF MachineType
  <1>8. ToHeaders(m, hs) = n BY <1>1 DEF ToHeaders
  <1>9. ToHeaders(p, hs) = Put(n, c, t, d, a) BY <1>4, <1>7 DEF ToHeaders
  <1> QED BY <1>2, <1>6, <1>8, <1>9

(* It is the same, whatever the rest of the machine.                         *)
LEMMA PutHeaderBytes ==
    ASSUME NEW m \in MachineType, NEW c \in Bytes, NEW t \in Bytes, NEW d \in DecoderType,
           NEW a \in Seq(Events), NEW hb \in Nat
    PROVE  /\ ToHeaderBytes(Put(m, c, t, d, a), hb) = Put(ToHeaderBytes(m, hb), c, t, d, a)
           /\ ToHeaderBytes(m, hb) \in MachineType
  <1>1. PICK n : n = [m EXCEPT !.hbytes = hb] OBVIOUS
  <1>2. n \in MachineType /\ n.ev = m.ev BY <1>1 DEF MachineType
  <1>3. PICK f : f = a \o m.ev OBVIOUS
  <1>4. Put(n, c, t, d, a) = [n EXCEPT !.carry = c, !.tcarry = t, !.dec = d, !.ev = f]
    BY <1>2, <1>3 DEF Put
  <1>5. PICK p : p = [m EXCEPT !.carry = c, !.tcarry = t, !.dec = d, !.ev = f] OBVIOUS
  <1>6. p = Put(m, c, t, d, a) BY <1>3, <1>5 DEF Put
  <1>7. [p EXCEPT !.hbytes = hb]
          = [n EXCEPT !.carry = c, !.tcarry = t, !.dec = d, !.ev = f]
    BY <1>1, <1>5 DEF MachineType
  <1>8. ToHeaderBytes(m, hb) = n BY <1>1 DEF ToHeaderBytes
  <1>9. ToHeaderBytes(p, hb) = Put(n, c, t, d, a) BY <1>4, <1>7 DEF ToHeaderBytes
  <1> QED BY <1>2, <1>6, <1>8, <1>9

(* A status line has the same effect.                                        *)
LEMMA PutStatus ==
    ASSUME NEW m, MachineOK(m), HasLine(m.carry),
           NEW c \in Bytes, NEW t \in Bytes, NEW d \in DecoderType,
           NEW a \in Seq(Events), HasLine(c), Line(c) = Line(m.carry)
    PROVE  ParseStatus(Put(m, c, t, d, a)) = Put(ParseStatus(m), AfterLine(c), t, d, a)
  <1>1. m \in MachineType /\ m.carry \in Bytes BY DEF MachineOK, MachineType
  <1>2. PICK b \in Bytes : b = AfterLine(c) BY LineFacts
  <1>3. PICK r \in Bytes : r = AfterLine(m.carry) BY <1>1, LineFacts
  <1>4. PICK word : word = StatusOf(Line(c)) OBVIOUS
  <1>5. PICK f : f = a \o m.ev OBVIOUS
  <1>6. PICK p : p = [m EXCEPT !.carry = c, !.tcarry = t, !.dec = d, !.ev = f] OBVIOUS
  <1>7. p = Put(m, c, t, d, a) BY <1>5, <1>6 DEF Put
  <1>8. p.carry = c BY <1>1, <1>6 DEF MachineType
  <1>9. PICK n : n = [m EXCEPT !.carry = r] OBVIOUS
  <1>10. n \in MachineType /\ n.ev = m.ev BY <1>1, <1>9 DEF MachineType
  <1>11. PICK q : q = Put(n, b, t, d, a) OBVIOUS
  <1>12. [p EXCEPT !.carry = b] = q
    <2>1. q = [n EXCEPT !.carry = b, !.tcarry = t, !.dec = d, !.ev = f]
      BY <1>5, <1>10, <1>11 DEF Put
    <2> QED BY <1>1, <1>6, <1>9, <2>1 DEF MachineType
  <1>13. <<"Rejected", <<>> >> \in Events /\ \A x \in BOOLEAN : <<"Connected", x>> \in Events
    <2>1. <<>> \in Details BY EmptyBytes DEF Details
    <2> QED BY <2>1 DEF Events, Ends, Details
  <1>14. <<>> \in Seq(Bytes) /\ 0 \in Nat OBVIOUS
  <1>15. "Streaming" \in States /\ "Sourcetable" \in States /\ "AwaitingHeaders" \in States
    BY DEF States
  <1>16. CASE word = "ICY"
    <2>1. PICK g : g = Emit(n, "Connected", FALSE) OBVIOUS
    <2>2. g \in MachineType /\ Emit(q, "Connected", FALSE) = Put(g, b, t, d, a)
      <3>1. PICK no \in BOOLEAN : no = FALSE OBVIOUS
      <3>2. <<"Connected", no>> \in Events BY <1>13, <3>1
      <3>3. Emit(n, "Connected", no) \in MachineType
            /\ Emit(q, "Connected", no) = Put(Emit(n, "Connected", no), b, t, d, a)
        BY <1>10, <1>11, <3>2, PutEmit
      <3> QED BY <2>1, <3>1, <3>3
    <2>3. ToIcyStream(Put(g, b, t, d, a), "Streaming", FALSE, TRUE)
            = Put(ToIcyStream(g, "Streaming", FALSE, TRUE), b, t, d, a)
      <3>1. \A u \in BOOLEAN, v \in BOOLEAN :
              ToIcyStream(Put(g, b, t, d, a), "Streaming", u, v)
                = Put(ToIcyStream(g, "Streaming", u, v), b, t, d, a)
        BY <1>15, <2>2, PutIcyStream
      <3> QED BY <3>1
    <2>4. ParseStatus(p) = ToIcyStream(Emit(q, "Connected", FALSE), "Streaming", FALSE, TRUE)
      BY <1>2, <1>4, <1>8, <1>12, <1>16 DEF ParseStatus, ToIcyStream
    <2>5. ParseStatus(m) = ToIcyStream(g, "Streaming", FALSE, TRUE)
      BY <1>3, <1>4, <1>9, <1>16, <2>1 DEF ParseStatus, ToIcyStream
    <2> QED BY <1>2, <1>7, <2>2, <2>3, <2>4, <2>5
  <1>17. CASE word = "SRC"
    <2>1. ToState(q, "Sourcetable") = Put(ToState(n, "Sourcetable"), b, t, d, a)
      BY <1>10, <1>11, <1>15, PutState
    <2>2. ParseStatus(p) = ToState(q, "Sourcetable")
      BY <1>2, <1>4, <1>8, <1>12, <1>17 DEF ParseStatus, ToState
    <2>3. ParseStatus(m) = ToState(n, "Sourcetable")
      BY <1>3, <1>4, <1>9, <1>17 DEF ParseStatus, ToState
    <2> QED BY <1>2, <1>7, <2>1, <2>2, <2>3
  <1>18. CASE word \in {"HTTP200", "HTTP404"}
    <2>1. ToResponse(q, "AwaitingHeaders", <<>>, 0, word)
            = Put(ToResponse(n, "AwaitingHeaders", <<>>, 0, word), b, t, d, a)
      <3>1. word \in {"none", "HTTP200", "HTTP404"} BY <1>18
      <3>2. \A hs \in Seq(Bytes), hb \in Nat :
              ToResponse(q, "AwaitingHeaders", hs, hb, word)
                = Put(ToResponse(n, "AwaitingHeaders", hs, hb, word), b, t, d, a)
        BY <1>10, <1>11, <1>15, <3>1, PutResponse
      <3> QED BY <1>14, <3>2
    <2>2. ParseStatus(p) = ToResponse(q, "AwaitingHeaders", <<>>, 0, word)
      BY <1>2, <1>4, <1>8, <1>12, <1>18 DEF ParseStatus, ToResponse
    <2>3. ParseStatus(m) = ToResponse(n, "AwaitingHeaders", <<>>, 0, word)
      BY <1>3, <1>4, <1>9, <1>18 DEF ParseStatus, ToResponse
    <2> QED BY <1>2, <1>7, <2>1, <2>2, <2>3
  <1>19. CASE word \notin {"ICY", "SRC", "HTTP200", "HTTP404"}
    <2>1. Reject(q) = Put(Reject(n), b, t, d, a) BY <1>10, <1>11, <1>13, PutClose DEF Reject
    <2>2. ParseStatus(p) = Reject(q) BY <1>2, <1>4, <1>8, <1>12, <1>19 DEF ParseStatus
    <2>3. ParseStatus(m) = Reject(n) BY <1>3, <1>4, <1>9, <1>19 DEF ParseStatus
    <2> QED BY <1>2, <1>7, <2>1, <2>2, <2>3
  <1> QED BY <1>16, <1>17, <1>18, <1>19

(* The headers are those of the machine.                                     *)
LEMMA PutKeepsHeaders ==
    ASSUME NEW m \in MachineType, NEW c, NEW t, NEW d, NEW a
    PROVE  /\ Put(m, c, t, d, a).headers = m.headers
           /\ Put(m, c, t, d, a).hbytes = m.hbytes
           /\ Put(m, c, t, d, a).http = m.http
  <1>1. PICK f : f = a \o m.ev OBVIOUS
  <1>2. PICK p : p = [m EXCEPT !.carry = c, !.tcarry = t, !.dec = d, !.ev = f] OBVIOUS
  <1>3. p = Put(m, c, t, d, a) BY <1>1, <1>2 DEF Put
  <1>4. p.headers = m.headers /\ p.hbytes = m.hbytes /\ p.http = m.http
    BY <1>2 DEF MachineType
  <1> QED BY <1>3, <1>4

(* A header line has the same effect, the blank one too.                     *)
LEMMA PutClassify ==
    ASSUME NEW n \in MachineType, NEW c \in Bytes, NEW t \in Bytes, NEW d \in DecoderType,
           NEW a \in Seq(Events)
    PROVE  ClassifyHttpResponse(Put(n, c, t, d, a)) = Put(ClassifyHttpResponse(n), c, t, d, a)
  <1>1. PICK q : q = Put(n, c, t, d, a) OBVIOUS
  <1>2. q.headers = n.headers /\ q.http = n.http BY <1>1, PutKeepsHeaders
  <1>3. PICK chunked \in BOOLEAN : chunked = TransferIsChunked(n.headers)
    <2>1. TransferIsChunked(n.headers) \in BOOLEAN BY Zenon DEF TransferIsChunked
    <2> QED BY <2>1
  <1>4. TransferIsChunked(q.headers) = chunked BY <1>2, <1>3
  <1>5. PICK type : type = MediaType(n.headers) OBVIOUS
  <1>6. <<"Rejected", <<>> >> \in Events /\ <<"Connected", chunked>> \in Events
    <2>1. <<>> \in Details BY EmptyBytes DEF Details
    <2> QED BY <1>3, <2>1 DEF Events, Ends, Details
  <1>7. "Streaming" \in States /\ "Sourcetable" \in States BY DEF States
  <1>8. CASE n.http = "HTTP200" /\ type \in {"none", "CTdata"}
    <2>1. PICK g : g = Emit(n, "Connected", chunked) OBVIOUS
    <2>2. g \in MachineType /\ Emit(q, "Connected", chunked) = Put(g, c, t, d, a)
      BY <1>1, <1>6, <2>1, PutEmit
    <2>3. ToStream(Put(g, c, t, d, a), "Streaming", chunked)
            = Put(ToStream(g, "Streaming", chunked), c, t, d, a)
      BY <1>3, <1>7, <2>2, PutStream
    <2>4. ClassifyHttpResponse(q) = ToStream(Emit(q, "Connected", chunked), "Streaming", chunked)
      BY <1>2, <1>4, <1>5, <1>8 DEF ClassifyHttpResponse, ToStream
    <2>5. ClassifyHttpResponse(n) = ToStream(g, "Streaming", chunked)
      BY <1>3, <1>5, <1>8, <2>1 DEF ClassifyHttpResponse, ToStream
    <2> QED BY <1>1, <2>2, <2>3, <2>4, <2>5
  <1>9. CASE n.http = "HTTP200" /\ type = "CTtable"
    <2>1. ToTable(q, "Sourcetable", chunked, TRUE)
            = Put(ToTable(n, "Sourcetable", chunked, TRUE), c, t, d, a)
      <3>1. \A k \in BOOLEAN : ToTable(q, "Sourcetable", chunked, k)
                                 = Put(ToTable(n, "Sourcetable", chunked, k), c, t, d, a)
        BY <1>1, <1>3, <1>7, PutTable
      <3> QED BY <3>1
    <2>2. ClassifyHttpResponse(q) = ToTable(q, "Sourcetable", chunked, TRUE)
      BY <1>2, <1>4, <1>5, <1>9 DEF ClassifyHttpResponse, ToTable
    <2>3. ClassifyHttpResponse(n) = ToTable(n, "Sourcetable", chunked, TRUE)
      BY <1>3, <1>5, <1>9 DEF ClassifyHttpResponse, ToTable
    <2> QED BY <1>1, <2>1, <2>2, <2>3
  <1>10. CASE ~ (n.http = "HTTP200" /\ type \in {"none", "CTdata", "CTtable"})
    <2>1. Reject(q) = Put(Reject(n), c, t, d, a) BY <1>1, <1>6, PutClose DEF Reject
    <2>2. ClassifyHttpResponse(q) = Reject(q)
      BY <1>2, <1>4, <1>5, <1>10 DEF ClassifyHttpResponse
    <2>3. ClassifyHttpResponse(n) = Reject(n)
      BY <1>3, <1>5, <1>10 DEF ClassifyHttpResponse
    <2> QED BY <1>1, <2>1, <2>2, <2>3
  <1> QED BY <1>8, <1>9, <1>10

(* What ParseHeaders does with a line.                                       *)
LEMMA HeaderLine ==
    ASSUME NEW x, HasLine(x.carry), NEW l, l = Line(x.carry),
           NEW n, n = [x EXCEPT !.carry = AfterLine(@)],
           NEW h, h = [n EXCEPT !.hbytes = @ + Len(l)], h.hbytes \in Nat
    PROVE  ParseHeaders(x) = IF l = <<>> THEN ClassifyHttpResponse(n)
                             ELSE IF h.hbytes > MaxHeaders THEN Reject(h)
                             ELSE IF HasColon(l) THEN [h EXCEPT !.headers = Append(@, l)] ELSE h
  <1> DEFINE line == Line(x.carry)
             t == [x EXCEPT !.carry = AfterLine(@)]
             g == [t EXCEPT !.hbytes = @ + Len(line)]
  <1>1. l = line /\ n = t /\ h = g OBVIOUS
  <1>2. h.hbytes <= MaxHeaders <=> ~ (h.hbytes > MaxHeaders) BY MachineAssumption
  <1>3. CASE l = <<>> BY <1>1, <1>3 DEF ParseHeaders
  <1>4. CASE l # <<>> /\ h.hbytes > MaxHeaders
    <2>1. line # <<>> /\ g.hbytes > MaxHeaders /\ ~ (g.hbytes <= MaxHeaders) BY <1>1, <1>2, <1>4
    <2>2. ParseHeaders(x) = Reject(g) BY <2>1 DEF ParseHeaders
    <2> HIDE DEF g, t, line
    <2> QED BY <1>1, <1>4, <2>2
  <1>5. CASE l # <<>> /\ ~ (h.hbytes > MaxHeaders)
    <2>1. line # <<>> /\ g.hbytes <= MaxHeaders /\ ~ (g.hbytes > MaxHeaders) BY <1>1, <1>2, <1>5
    <2>2. ParseHeaders(x) = IF HasColon(line) THEN [g EXCEPT !.headers = Append(@, line)] ELSE g
      BY <2>1 DEF ParseHeaders
    <2> HIDE DEF g, t, line
    <2> QED BY <1>1, <1>5, <2>2
  <1> QED BY <1>3, <1>4, <1>5

(* parse_headers reads one line, whatever comes after it.                   *)
LEMMA PutHeaders ==
    ASSUME NEW m, MachineOK(m), HasLine(m.carry),
           NEW c \in Bytes, NEW t \in Bytes, NEW d \in DecoderType,
           NEW a \in Seq(Events), HasLine(c), Line(c) = Line(m.carry)
    PROVE  ParseHeaders(Put(m, c, t, d, a)) = Put(ParseHeaders(m), AfterLine(c), t, d, a)
  <1>1. m \in MachineType /\ m.carry \in Bytes /\ m.headers \in Seq(Bytes) /\ m.hbytes \in Nat
    BY DEF MachineOK, MachineType
  <1>2. PICK b \in Bytes : b = AfterLine(c) BY LineFacts
  <1>3. PICK r \in Bytes : r = AfterLine(m.carry) BY <1>1, LineFacts
  <1>4. PICK line \in Bytes : line = Line(c) BY LineFacts
  <1>5. PICK f : f = a \o m.ev OBVIOUS
  <1>6. PICK p : p = [m EXCEPT !.carry = c, !.tcarry = t, !.dec = d, !.ev = f] OBVIOUS
  <1>7. p = Put(m, c, t, d, a) BY <1>5, <1>6 DEF Put
  <1>8. p.carry = c BY <1>1, <1>6 DEF MachineType
  <1>9. PICK n : n = [m EXCEPT !.carry = r] OBVIOUS
  <1>10. n \in MachineType /\ n.ev = m.ev /\ n.hbytes = m.hbytes /\ n.headers = m.headers
    BY <1>1, <1>9 DEF MachineType
  <1>11. PICK q : q = Put(n, b, t, d, a) OBVIOUS
  <1>12. [p EXCEPT !.carry = b] = q
    <2>1. q = [n EXCEPT !.carry = b, !.tcarry = t, !.dec = d, !.ev = f]
      BY <1>5, <1>10, <1>11 DEF Put
    <2> QED BY <1>1, <1>6, <1>9, <2>1 DEF MachineType
  <1>13. <<"Rejected", <<>> >> \in Events
    <2>1. <<>> \in Details BY EmptyBytes DEF Details
    <2> QED BY <2>1 DEF Events, Ends
  <1>14. q.hbytes = m.hbytes
    <2>1. q.hbytes = n.hbytes BY <1>10, <1>11, PutKeepsHeaders
    <2> QED BY <1>10, <2>1
  <1>15. PICK k \in Nat : k = m.hbytes + Len(line)
    <2>1. Len(line) \in Nat BY <1>4 DEF Bytes
    <2> QED BY <1>1, <2>1
  <1>16. PICK h : h = ToHeaderBytes(n, k) OBVIOUS
  <1>17. ToHeaderBytes(q, k) = Put(h, b, t, d, a) /\ h \in MachineType
    BY <1>10, <1>11, <1>15, <1>16, PutHeaderBytes
  <1>18. h.hbytes = k /\ h.headers = m.headers BY <1>10, <1>16 DEF MachineType, ToHeaderBytes
  <1>19. PICK g : g = Put(h, b, t, d, a) OBVIOUS
  <1>20. g.hbytes = k /\ g.headers = m.headers
    <2>1. g.hbytes = h.hbytes /\ g.headers = h.headers BY <1>17, <1>19, PutKeepsHeaders
    <2> QED BY <1>18, <2>1
  <1>21. PICK hs \in Seq(Bytes) : hs = Append(m.headers, line) BY <1>1, <1>4, AppendProperties
  <1>22. ParseHeaders(p) = IF line = <<>> THEN ClassifyHttpResponse(q)
                           ELSE IF k > MaxHeaders THEN Reject(g)
                           ELSE IF HasColon(line) THEN ToHeaders(g, hs) ELSE g
    <2>1. [q EXCEPT !.hbytes = @ + Len(line)] = g
      <3>1. [q EXCEPT !.hbytes = @ + Len(line)] = ToHeaderBytes(q, q.hbytes + Len(line))
        BY DEF ToHeaderBytes
      <3>2. q.hbytes + Len(line) = k BY <1>14, <1>15
      <3> QED BY <1>16, <1>17, <1>19, <3>1, <3>2
    <2>2. [g EXCEPT !.headers = Append(@, line)] = ToHeaders(g, hs)
      <3>1. [g EXCEPT !.headers = Append(@, line)] = ToHeaders(g, Append(g.headers, line))
        BY DEF ToHeaders
      <3> QED BY <1>18, <1>20, <1>21, <3>1
    <2>3. k \in Nat /\ MaxHeaders \in Nat /\ (k > MaxHeaders <=> ~ k <= MaxHeaders)
      BY <1>15, MachineAssumption
    <2>4. g.hbytes = k BY <1>18, <1>20
    <2>5. HasLine(p.carry) /\ Line(p.carry) = line /\ [p EXCEPT !.carry = AfterLine(@)] = q
      BY <1>2, <1>4, <1>8, <1>12
    <2>6. g.hbytes \in Nat BY <2>3, <2>4
    <2>7. ParseHeaders(p) = IF line = <<>> THEN ClassifyHttpResponse(q)
                           ELSE IF g.hbytes > MaxHeaders THEN Reject(g)
                           ELSE IF HasColon(line) THEN [g EXCEPT !.headers = Append(@, line)] ELSE g
      BY <2>1, <2>5, <2>6, HeaderLine
    <2> QED BY <2>2, <2>4, <2>7
  <1>23. ParseHeaders(m) = IF line = <<>> THEN ClassifyHttpResponse(n)
                           ELSE IF k > MaxHeaders THEN Reject(h)
                           ELSE IF HasColon(line) THEN ToHeaders(h, hs) ELSE h
    <2>1. [n EXCEPT !.hbytes = @ + Len(line)] = h
      <3>1. [n EXCEPT !.hbytes = @ + Len(line)] = ToHeaderBytes(n, n.hbytes + Len(line))
        BY DEF ToHeaderBytes
      <3>2. n.hbytes + Len(line) = k BY <1>10, <1>15
      <3> QED BY <1>16, <1>17, <1>19, <3>1, <3>2
    <2>2. [h EXCEPT !.headers = Append(@, line)] = ToHeaders(h, hs)
      <3>1. [h EXCEPT !.headers = Append(@, line)] = ToHeaders(h, Append(h.headers, line))
        BY DEF ToHeaders
      <3> QED BY <1>18, <1>20, <1>21, <3>1
    <2>3. k \in Nat /\ MaxHeaders \in Nat /\ (k > MaxHeaders <=> ~ k <= MaxHeaders)
      BY <1>15, MachineAssumption
    <2>4. h.hbytes = k BY <1>18, <1>20
    <2>5. HasLine(m.carry) /\ Line(m.carry) = line /\ [m EXCEPT !.carry = AfterLine(@)] = n
      BY <1>3, <1>4, <1>9
    <2>6. h.hbytes \in Nat BY <2>3, <2>4
    <2>7. ParseHeaders(m) = IF line = <<>> THEN ClassifyHttpResponse(n)
                           ELSE IF h.hbytes > MaxHeaders THEN Reject(h)
                           ELSE IF HasColon(line) THEN [h EXCEPT !.headers = Append(@, line)] ELSE h
      BY <2>1, <2>5, <2>6, HeaderLine
    <2> QED BY <2>2, <2>4, <2>7
  <1>24. ClassifyHttpResponse(q) = Put(ClassifyHttpResponse(n), b, t, d, a)
    BY <1>10, <1>11, PutClassify
  <1>25. Reject(g) = Put(Reject(h), b, t, d, a) BY <1>13, <1>17, <1>19, PutClose DEF Reject
  <1>26. ToHeaders(g, hs) = Put(ToHeaders(h, hs), b, t, d, a) 
    <2>1. \A x \in Seq(Bytes) : ToHeaders(Put(h, b, t, d, a), x) = Put(ToHeaders(h, x), b, t, d, a)
      BY <1>2, <1>17, PutHeader
    <2> QED BY <1>19, <1>21, <2>1
  <1> QED BY <1>2, <1>7, <1>19, <1>22, <1>23, <1>24, <1>25, <1>26

(* What is left after the blank line of an ICY response, once it is decided. *)
Pending(c) == c = <<>> \/ c = <<CR>>

(* The rest of c after the blank line of an ICY stream.                     *)
Skimmed(c) ==
    IF c[1] = LF THEN Tail(c)
    ELSE IF Len(c) > 1 /\ c[1] = CR /\ c[2] = LF THEN SubSeq(c, 3, Len(c))
    ELSE c
Skim(m, c) == [m EXCEPT !.carry = c, !.icyBlank = FALSE]

(* More bytes do not change what was decided.                                *)
LEMMA SkimmedFacts ==
    ASSUME NEW c \in Bytes, ~ Pending(c)
    PROVE  /\ Skimmed(c) \in Bytes
           /\ \A y \in Bytes : ~ Pending(c \o y) /\ Skimmed(c \o y) = Skimmed(c) \o y
  <1>1. c # <<>> /\ c # <<CR>> BY DEF Pending
  <1>2. Len(c) \in Nat /\ Len(c) # 0 BY <1>1, EmptySeq DEF Bytes
  <1>3. SubSeq(c, 3, Len(c)) \in Bytes /\ Tail(c) \in Bytes
    BY <1>1, PartOfBytes, HeadTailProperties DEF Bytes
  <1>4. Skimmed(c) \in Bytes BY <1>3 DEF Skimmed
  <1>5. Len(c) = 1 => c[1] # CR BY <1>1, LoneCR DEF Bytes
  <1>6. ASSUME NEW y \in Bytes PROVE ~ Pending(c \o y) /\ Skimmed(c \o y) = Skimmed(c) \o y
    <2> DEFINE w == c \o y
    <2>1. /\ w \in Bytes /\ Len(y) \in Nat /\ Len(w) = Len(c) + Len(y)
          /\ \A i \in 1..Len(c) : w[i] = c[i]
      BY MoreBytes
    <2>2. w # <<>> /\ w[1] = c[1] /\ Tail(w) = Tail(c) \o y BY <1>1, TailStays
    <2> HIDE DEF w
    <2>3. w # <<CR>>
      <3>1. SUFFICES ASSUME w = <<CR>> PROVE FALSE OBVIOUS
      <3>2. Len(w) = 1 /\ w[1] = CR BY <3>1
      <3>4. \A i \in Nat, j \in Nat : i # 0 /\ i + j = 1 => i = 1 OBVIOUS
      <3>3. Len(c) = 1 BY <1>2, <2>1, <3>2, <3>4
      <3> QED BY <1>5, <2>2, <3>2, <3>3
    <2>4. ~ Pending(w) BY <2>2, <2>3 DEF Pending
    <2>5. ASSUME c[1] = LF PROVE Skimmed(w) = Skimmed(c) \o y
      BY <2>2, <2>5 DEF Skimmed
    <2>6. ASSUME c[1] # LF, Len(c) > 1 PROVE Skimmed(w) = Skimmed(c) \o y
      <3>1. w[2] = c[2] /\ Len(w) > 1 /\ 3 \in 1..(Len(c) + 1)
        <4>1. 2 \in 1..Len(c) /\ 3 \in 1..(Len(c) + 1) BY <1>2, <2>6
        <4> QED BY <1>2, <2>1, <2>6, <4>1
      <3>2. SubSeq(w, 3, Len(w)) = SubSeq(c, 3, Len(c)) \o y BY <3>1, LastPart DEF w
      <3>3. w[1] # LF BY <2>2, <2>6
      <3>4. CASE c[1] = CR /\ c[2] = LF
        <4>1. Skimmed(w) = SubSeq(w, 3, Len(w)) BY <2>2, <3>1, <3>3, <3>4 DEF Skimmed
        <4>2. Skimmed(c) = SubSeq(c, 3, Len(c)) BY <2>6, <3>4 DEF Skimmed
        <4> QED BY <3>2, <4>1, <4>2
      <3>5. CASE ~ (c[1] = CR /\ c[2] = LF)
        <4>1. Skimmed(w) = w BY <2>2, <3>1, <3>3, <3>5 DEF Skimmed
        <4>2. Skimmed(c) = c BY <2>6, <3>5 DEF Skimmed
        <4> QED BY <4>1, <4>2 DEF w
      <3> QED BY <3>4, <3>5
    <2>7. ASSUME c[1] # LF, ~ (Len(c) > 1) PROVE Skimmed(w) = Skimmed(c) \o y
      <3>1. c[1] # CR
        <4>1. \A i \in Nat : i # 0 /\ ~ (i > 1) => i = 1 OBVIOUS
        <4>2. Len(c) = 1 BY <1>2, <2>7, <4>1
        <4> QED BY <1>5, <4>2
      <3>2. Skimmed(w) = w BY <2>2, <2>7, <3>1 DEF Skimmed
      <3>3. Skimmed(c) = c BY <2>7, <3>1 DEF Skimmed
      <3> QED BY <3>2, <3>3 DEF w
    <2>8. Skimmed(w) = Skimmed(c) \o y BY <2>5, <2>6, <2>7
    <2> QED BY <2>4, <2>8 DEF w
  <1> QED BY <1>4, <1>6

(* consume_pending_icy_blank_line, as a change of the machine.               *)
LEMMA ConsumeCases ==
    ASSUME NEW m \in MachineType
    PROVE  ConsumePendingIcyBlankLine(m)
             = IF Pending(m.carry) THEN m ELSE Skim(m, Skimmed(m.carry))
  <1>1. m.carry \in Bytes /\ Len(m.carry) \in Nat BY DEF MachineType, Bytes
  <1>2. CASE Pending(m.carry)
    <2>1. /\ ~ (m.carry # <<>> /\ m.carry[1] = LF)
          /\ ~ (Len(m.carry) > 1 /\ m.carry[1] = CR /\ m.carry[2] = LF)
      <3>1. CASE m.carry = <<>> BY <3>1
      <3>2. CASE m.carry = <<CR>>
        <4>1. Len(m.carry) = 1 /\ m.carry[1] = CR /\ CR # LF BY <3>2 DEF CR, LF
        <4> QED BY <4>1
      <3> QED BY <1>2, <3>1, <3>2 DEF Pending
    <2> QED BY <1>2, <2>1 DEF ConsumePendingIcyBlankLine, Pending
  <1>3. CASE ~ Pending(m.carry)
    <2>1. m.carry # <<>> /\ m.carry # <<CR>> BY <1>3 DEF Pending
    <2>2. CASE m.carry[1] = LF
      <3>1. ConsumePendingIcyBlankLine(m) = [m EXCEPT !.carry = Tail(m.carry), !.icyBlank = FALSE]
        BY <2>1, <2>2 DEF ConsumePendingIcyBlankLine, CR, LF
      <3>2. Skimmed(m.carry) = Tail(m.carry) BY <2>2 DEF Skimmed
      <3> QED BY <1>3, <3>1, <3>2 DEF Skim
    <2>3. CASE m.carry[1] # LF /\ Len(m.carry) > 1 /\ m.carry[1] = CR /\ m.carry[2] = LF
      <3>1. ConsumePendingIcyBlankLine(m)
              = [m EXCEPT !.carry = SubSeq(m.carry, 3, Len(m.carry)), !.icyBlank = FALSE]
        BY <2>1, <2>3 DEF ConsumePendingIcyBlankLine
      <3>2. Skimmed(m.carry) = SubSeq(m.carry, 3, Len(m.carry)) BY <2>3 DEF Skimmed
      <3> QED BY <1>3, <3>1, <3>2 DEF Skim
    <2>4. CASE m.carry[1] # LF /\ ~ (Len(m.carry) > 1 /\ m.carry[1] = CR /\ m.carry[2] = LF)
      <3>1. ConsumePendingIcyBlankLine(m) = [m EXCEPT !.icyBlank = FALSE]
        BY <2>1, <2>4 DEF ConsumePendingIcyBlankLine
      <3>2. Skimmed(m.carry) = m.carry BY <2>4 DEF Skimmed
      <3>3. [m EXCEPT !.icyBlank = FALSE] = Skim(m, m.carry) BY DEF Skim, MachineType
      <3> QED BY <1>3, <3>1, <3>2, <3>3
    <2> QED BY <2>2, <2>3, <2>4
  <1> QED BY <1>2, <1>3

(* The change is the same, whatever the rest of the machine.                 *)
LEMMA PutSkim ==
    ASSUME NEW m \in MachineType, NEW c \in Bytes, NEW t \in Bytes, NEW d \in DecoderType,
           NEW a \in Seq(Events), NEW r \in Bytes, NEW s \in Bytes
    PROVE  Skim(Put(m, c, t, d, a), s) = Put(Skim(m, r), s, t, d, a)
  <1>1. PICK f : f = a \o m.ev OBVIOUS
  <1>2. PICK p : p = [m EXCEPT !.carry = c, !.tcarry = t, !.dec = d, !.ev = f] OBVIOUS
  <1>3. p = Put(m, c, t, d, a) BY <1>1, <1>2 DEF Put
  <1>4. PICK n : n = [m EXCEPT !.carry = r, !.icyBlank = FALSE] OBVIOUS
  <1>5. n = Skim(m, r) BY <1>4 DEF Skim
  <1>6. /\ n \in MachineType /\ n.icyBlank = FALSE
        /\ n.carry = r /\ n.tcarry = m.tcarry /\ n.dec = m.dec
        /\ n.st = m.st /\ n.go = m.go /\ n.ev = m.ev
    BY <1>4 DEF MachineType
  <1>7. Put(n, s, t, d, a) = [n EXCEPT !.carry = s, !.tcarry = t, !.dec = d, !.ev = f]
    BY <1>1, <1>6 DEF Put
  <1>8. [p EXCEPT !.carry = s, !.icyBlank = FALSE]
          = [n EXCEPT !.carry = s, !.tcarry = t, !.dec = d, !.ev = f]
    BY <1>2, <1>4 DEF MachineType
  <1>9. Skim(p, s) = Put(n, s, t, d, a) BY <1>7, <1>8 DEF Skim
  <1> QED BY <1>3, <1>5, <1>9

(* What Skim does.                                                          *)
LEMMA SkimFacts ==
    ASSUME NEW m \in MachineType, NEW r \in Bytes
    PROVE  /\ Skim(m, r) \in MachineType /\ ~ Skim(m, r).icyBlank
           /\ Skim(m, r).carry = r /\ Skim(m, r).tcarry = m.tcarry /\ Skim(m, r).dec = m.dec
           /\ Skim(m, r).st = m.st /\ Skim(m, r).go = m.go /\ Skim(m, r).ev = m.ev
           /\ Skim(m, r).chunked = m.chunked /\ Skim(m, r).tchunked = m.tchunked
           /\ Skim(m, r).hbytes = m.hbytes /\ Skim(m, r).text = m.text
  <1>1. PICK n : n = [m EXCEPT !.carry = r, !.icyBlank = FALSE] OBVIOUS
  <1>2. n = Skim(m, r) BY <1>1 DEF Skim
  <1>3. /\ n \in MachineType /\ ~ n.icyBlank
        /\ n.carry = r /\ n.tcarry = m.tcarry /\ n.dec = m.dec
        /\ n.st = m.st /\ n.go = m.go /\ n.ev = m.ev
        /\ n.chunked = m.chunked /\ n.tchunked = m.tchunked
        /\ n.hbytes = m.hbytes /\ n.text = m.text
    BY <1>1 DEF MachineType
  <1> QED BY <1>2, <1>3

(* What the decoder of a stream has done with what was read.                 *)
Streamed(m, d) == Put(m, <<>>, m.tcarry, Taken(d), <<>>)

(* What Streamed does.                                                      *)
LEMMA StreamedIs ==
    ASSUME NEW m \in MachineType, NEW d
    PROVE  Streamed(m, d) = [[m EXCEPT !.carry = <<>>] EXCEPT !.dec = Taken(d)]
  <1>1. m.ev \in Seq(Events) BY DEF MachineType
  <1>2. <<>> \o m.ev = m.ev BY <1>1, ConcatEmptySeq
  <1>3. PICK k : k = Taken(d) OBVIOUS
  <1>4. Streamed(m, d) = [m EXCEPT !.carry = <<>>, !.tcarry = m.tcarry, !.dec = k, !.ev = m.ev]
    BY <1>2, <1>3 DEF Streamed, Put
  <1>5. [m EXCEPT !.carry = <<>>, !.tcarry = m.tcarry, !.dec = k, !.ev = m.ev]
          = [[m EXCEPT !.carry = <<>>] EXCEPT !.dec = k]
    BY DEF MachineType
  <1> QED BY <1>3, <1>4, <1>5

(* drain_payload, case by case.                                              *)
LEMMA DrainPayloadCases ==
    ASSUME NEW m \in MachineType
    PROVE  /\ m.icyBlank /\ Pending(m.carry) => DrainPayload(m) = Wait(m)
           /\ m.icyBlank /\ ~ Pending(m.carry) =>
                DrainPayload(m) = DrainPayload(Skim(m, Skimmed(m.carry)))
           /\ ~ m.icyBlank /\ m.carry = <<>> => DrainPayload(m) = Wait(m)
           /\ ~ m.icyBlank /\ m.carry # <<>> /\ ~ m.chunked =>
                DrainPayload(m) = Wait(Emit(Put(m, <<>>, m.tcarry, m.dec, <<>>), "Payload", m.carry))
           /\ ~ m.icyBlank /\ m.carry # <<>> /\ m.chunked =>
                LET d == Decode(m.dec, m.carry)
                IN  DrainPayload(m)
                      = Wait(IF d.poison THEN Close(Streamed(m, d), "StreamCorrupted", <<>>)
                             ELSE IF d.finished
                             THEN Close(EmitPayload(Streamed(m, d), d.out), "StreamEnded", <<>>)
                             ELSE EmitPayload(Streamed(m, d), d.out))
  <1>1. m.carry \in Bytes BY DEF MachineType
  <1>2. ASSUME m.icyBlank, Pending(m.carry) PROVE DrainPayload(m) = Wait(m)
    <2>1. ConsumePendingIcyBlankLine(m) = m BY <1>2, ConsumeCases
    <2> QED BY <1>2, <2>1 DEF DrainPayload
  <1>3. ASSUME m.icyBlank, ~ Pending(m.carry)
        PROVE  DrainPayload(m) = DrainPayload(Skim(m, Skimmed(m.carry)))
    <2>1. PICK h : h = Skim(m, Skimmed(m.carry)) OBVIOUS
    <2>2. ConsumePendingIcyBlankLine(m) = h BY <1>3, <2>1, ConsumeCases
    <2>3. ~ h.icyBlank BY <1>1, <1>3, <2>1, SkimmedFacts DEF Skim, MachineType
    <2> QED BY <1>3, <2>1, <2>2, <2>3 DEF DrainPayload
  <1>4. ASSUME ~ m.icyBlank, m.carry = <<>> PROVE DrainPayload(m) = Wait(m)
    BY <1>4 DEF DrainPayload
  <1>5. ASSUME ~ m.icyBlank, m.carry # <<>>, ~ m.chunked
        PROVE  DrainPayload(m) = Wait(Emit(Put(m, <<>>, m.tcarry, m.dec, <<>>), "Payload", m.carry))
    <2>1. PICK g : g = [m EXCEPT !.carry = <<>>] OBVIOUS
    <2>2. DrainPayload(m) = Wait(Emit(g, "Payload", m.carry)) BY <1>5, <2>1 DEF DrainPayload
    <2>3. g = Put(m, <<>>, m.tcarry, m.dec, <<>>)
      <3>1. m.ev \in Seq(Events) BY DEF MachineType
      <3>2. <<>> \o m.ev = m.ev BY <3>1, ConcatEmptySeq
      <3>3. Put(m, <<>>, m.tcarry, m.dec, <<>>)
              = [m EXCEPT !.carry = <<>>, !.tcarry = m.tcarry, !.dec = m.dec, !.ev = m.ev]
        BY <3>2 DEF Put
      <3> QED BY <2>1, <3>3 DEF MachineType
    <2> QED BY <2>2, <2>3
  <1>6. ASSUME ~ m.icyBlank, m.carry # <<>>, m.chunked, NEW d, d = Decode(m.dec, m.carry)
        PROVE  DrainPayload(m)
                 = Wait(IF d.poison THEN Close(Streamed(m, d), "StreamCorrupted", <<>>)
                        ELSE IF d.finished
                        THEN Close(EmitPayload(Streamed(m, d), d.out), "StreamEnded", <<>>)
                        ELSE EmitPayload(Streamed(m, d), d.out))
    <2>1. PICK g : g = [[m EXCEPT !.carry = <<>>] EXCEPT !.dec = Taken(d)] OBVIOUS
    <2>2. DrainPayload(m) = Wait(IF d.poison THEN Close(g, "StreamCorrupted", <<>>)
                                 ELSE IF d.finished
                                 THEN Close(EmitPayload(g, d.out), "StreamEnded", <<>>)
                                 ELSE EmitPayload(g, d.out))
      BY <1>6, <2>1 DEF DrainPayload
    <2>3. g = Streamed(m, d) BY <2>1, StreamedIs
    <2> QED BY <2>2, <2>3
  <1> QED BY <1>2, <1>3, <1>4, <1>5, <1>6

(* A table ends in the same way.                                             *)
LEMMA PutFinish ==
    ASSUME NEW m \in MachineType, NEW c \in Bytes, NEW t \in Bytes, NEW d \in DecoderType,
           NEW a \in Seq(Events)
    PROVE  /\ FinishSourcetable(Put(m, c, t, d, a)) = Put(FinishSourcetable(m), c, t, d, a)
           /\ FinishSourcetable(m) \in MachineType
  <1>1. PICK p : p = Put(m, c, t, d, a) OBVIOUS
  <1>2. p.text = m.text /\ m.text \in Seq(Bytes)
    <2>1. PICK f : f = a \o m.ev OBVIOUS
    <2>2. p = [m EXCEPT !.carry = c, !.tcarry = t, !.dec = d, !.ev = f] BY <1>1, <2>1 DEF Put
    <2> QED BY <2>2 DEF MachineType
  <1>3. PICK text \in Seq(Bytes) : text = m.text BY <1>2
  <1>4. <<"Sourcetable", text>> \in Events BY DEF Events, Ends, Details
  <1>5. /\ Close(p, "Sourcetable", text) = Put(Close(m, "Sourcetable", text), c, t, d, a)
        /\ Close(m, "Sourcetable", text) \in MachineType
    BY <1>1, <1>4, PutClose
  <1> QED BY <1>1, <1>2, <1>3, <1>5 DEF FinishSourcetable

(* The buffer of a chunked table is taken whole.                             *)
LEMMA PutFlush ==
    ASSUME NEW m, MachineOK(m), NEW c \in Bytes, NEW d \in DecoderType,
           NEW a \in Seq(Events)
    PROVE  FlushSourcetable(Put(m, c, m.tcarry, d, a)) = Put(FlushSourcetable(m), c, <<>>, d, a)
  <1>1. m \in MachineType /\ m.tcarry \in Bytes /\ <<>> \in Bytes
    BY BufferFacts, EmptyBytes DEF MachineOK
  <1>2. PICK f : f = a \o m.ev OBVIOUS
  <1>3. PICK p : p = [m EXCEPT !.carry = c, !.tcarry = m.tcarry, !.dec = d, !.ev = f] OBVIOUS
  <1>4. p = Put(m, c, m.tcarry, d, a) BY <1>2, <1>3 DEF Put
  <1>5. p.tcarry = m.tcarry /\ p.st = m.st BY <1>1, <1>3 DEF MachineType
  <1>6. CASE m.tcarry = <<>>
    <2>1. FinishSourcetable(p) = Put(FinishSourcetable(m), c, <<>>, d, a)
      BY <1>1, <1>4, <1>6, PutFinish
    <2>2. CASE m.st = "Closed"
      <3>1. FlushSourcetable(p) = p /\ FlushSourcetable(m) = m
        BY <1>5, <1>6, <2>2 DEF FlushSourcetable
      <3> QED BY <1>4, <1>6, <3>1
    <2>3. CASE m.st # "Closed"
      <3>1. FlushSourcetable(p) = FinishSourcetable(p) BY <1>5, <1>6, <2>3 DEF FlushSourcetable
      <3>2. FlushSourcetable(m) = FinishSourcetable(m) BY <1>6, <2>3 DEF FlushSourcetable
      <3> QED BY <1>4, <2>1, <3>1, <3>2
    <2> QED BY <2>2, <2>3
  <1>7. CASE m.tcarry # <<>>
    <2>1. PICK n : n = [m EXCEPT !.tcarry = <<>>] OBVIOUS
    <2>2. n \in MachineType /\ n.ev = m.ev /\ n.dec = m.dec BY <1>1, <2>1 DEF MachineType
    <2>3. MachineOK(n) BY <2>2 DEF MachineOK
    <2>4. PICK q : q = Put(n, c, <<>>, d, a) OBVIOUS
    <2>5. [p EXCEPT !.tcarry = <<>>] = q
      <3>1. q = [n EXCEPT !.carry = c, !.tcarry = <<>>, !.dec = d, !.ev = f]
        BY <1>2, <2>2, <2>4 DEF Put
      <3> QED BY <1>1, <1>3, <2>1, <3>1 DEF MachineType
    <2>6. PICK l : l = PushSourcetableLine(n, m.tcarry) OBVIOUS
    <2>7. l \in MachineType BY <1>1, <2>3, <2>6, PushLineFacts DEF MachineOK
    <2>8. PICK k : k = Put(l, c, <<>>, d, a) OBVIOUS
    <2>9. PushSourcetableLine(q, m.tcarry) = k BY <1>1, <2>3, <2>4, <2>6, <2>8, PutLine
    <2>10. k.st = l.st
      <3>1. PICK g : g = a \o l.ev OBVIOUS
      <3>2. k = [l EXCEPT !.carry = c, !.tcarry = <<>>, !.dec = d, !.ev = g]
        BY <2>8, <3>1 DEF Put
      <3> QED BY <2>7, <3>2 DEF MachineType
    <2>11. FlushSourcetable(p) = IF k.st = "Closed" THEN k ELSE FinishSourcetable(k)
      BY <1>5, <1>7, <2>5, <2>9 DEF FlushSourcetable
    <2>12. FlushSourcetable(m) = IF l.st = "Closed" THEN l ELSE FinishSourcetable(l)
      BY <1>7, <2>1, <2>6 DEF FlushSourcetable
    <2>13. FinishSourcetable(k) = Put(FinishSourcetable(l), c, <<>>, d, a)
      BY <1>1, <2>7, <2>8, PutFinish
    <2> QED BY <1>4, <2>8, <2>10, <2>11, <2>12, <2>13
  <1> QED BY <1>6, <1>7

(* The buffer a table is read from, and a machine with that much of it.      *)
TableBuf(m) == IF m.tchunked THEN m.tcarry ELSE m.carry

(* The buffer the table is read from, set to s.                             *)
Rest(m, s) == IF m.tchunked THEN Put(m, m.carry, s, m.dec, <<>>)
              ELSE Put(m, s, m.tcarry, m.dec, <<>>)

(* What Rest does.                                                          *)
LEMMA RestIs ==
    ASSUME NEW m, MachineOK(m), NEW s \in Bytes
    PROVE  /\ Rest(m, s) = IF m.tchunked THEN [m EXCEPT !.tcarry = s] ELSE [m EXCEPT !.carry = s]
           /\ MachineOK(Rest(m, s)) /\ Rest(m, s).go = m.go /\ Rest(m, s).st = m.st
           /\ Rest(m, s).ev = m.ev /\ Rest(m, s).dec = m.dec /\ Rest(m, s).tchunked = m.tchunked
           /\ Rest(m, s).carry = IF m.tchunked THEN m.carry ELSE s
           /\ Rest(m, s).tcarry = IF m.tchunked THEN s ELSE m.tcarry
  <1>1. m \in MachineType /\ m.ev \in Seq(Events) BY DEF MachineOK, MachineType
  <1>2. <<>> \o m.ev = m.ev BY <1>1, ConcatEmptySeq
  <1>3. PICK r : r = Rest(m, s) OBVIOUS
  <1>4. CASE m.tchunked
    <2>1. r = [m EXCEPT !.carry = m.carry, !.tcarry = s, !.dec = m.dec, !.ev = m.ev]
      BY <1>2, <1>3, <1>4 DEF Rest, Put
    <2>2. r = [m EXCEPT !.tcarry = s] BY <1>1, <2>1 DEF MachineType
    <2>3. /\ r \in MachineType /\ r.go = m.go /\ r.st = m.st /\ r.ev = m.ev /\ r.dec = m.dec
          /\ r.tchunked = m.tchunked /\ r.carry = m.carry /\ r.tcarry = s
      BY <1>1, <2>2 DEF MachineType
    <2> QED BY <1>3, <1>4, <2>2, <2>3 DEF MachineOK
  <1>5. CASE ~ m.tchunked
    <2>1. r = [m EXCEPT !.carry = s, !.tcarry = m.tcarry, !.dec = m.dec, !.ev = m.ev]
      BY <1>2, <1>3, <1>5 DEF Rest, Put
    <2>2. r = [m EXCEPT !.carry = s] BY <1>1, <2>1 DEF MachineType
    <2>3. /\ r \in MachineType /\ r.go = m.go /\ r.st = m.st /\ r.ev = m.ev /\ r.dec = m.dec
          /\ r.tchunked = m.tchunked /\ r.carry = s /\ r.tcarry = m.tcarry
      BY <1>1, <2>2 DEF MachineType
    <2> QED BY <1>3, <1>5, <2>2, <2>3 DEF MachineOK
  <1> QED BY <1>4, <1>5

(* drain_sourcetable_lines, case by case.                                    *)
LEMMA DrainTableCases ==
    ASSUME NEW m, MachineOK(m), m.go, m.st = "Sourcetable", m.tchunked => m.carry = <<>>,
           NEW buf, buf = TableBuf(m)
    PROVE  /\ HasLine(buf) =>
                DrainSourcetable(m) = PushSourcetableLine(Rest(m, AfterLine(buf)), Line(buf))
           /\ ~ HasLine(buf) /\ Len(buf) > MaxLine => DrainSourcetable(m) = Wait(Reject(m))
           /\ ~ HasLine(buf) /\ ~ (Len(buf) > MaxLine) /\ ~ (m.tchunked /\ m.dec.finished) =>
                DrainSourcetable(m) = Wait(m)
           /\ ~ HasLine(buf) /\ ~ (Len(buf) > MaxLine) /\ m.tchunked /\ m.dec.finished =>
                DrainSourcetable(m) = FlushSourcetable(Wait(m))
  <1>1. m \in MachineType /\ buf \in Bytes BY BufferFacts DEF MachineOK, TableBuf
  <1> DEFINE drained == DrainSourcetableLine(m)
  <1>2. DrainSourcetable(m)
          = IF drained.go \/ drained.st = "Closed" \/ ~ m.tchunked \/ ~ m.dec.finished
            THEN drained ELSE FlushSourcetable(drained)
    BY DEF DrainSourcetable
  <1>3. ASSUME HasLine(buf)
        PROVE  DrainSourcetable(m) = PushSourcetableLine(Rest(m, AfterLine(buf)), Line(buf))
    <2>1. AfterLine(buf) \in Bytes /\ Line(buf) \in Bytes BY <1>1, <1>3, LineFacts
    <2>2. PICK r : r = Rest(m, AfterLine(buf)) OBVIOUS
    <2>3. MachineOK(r) /\ r.go = m.go BY <2>1, <2>2, RestIs
    <2>4. r = IF m.tchunked THEN [m EXCEPT !.tcarry = AfterLine(buf)]
              ELSE [m EXCEPT !.carry = AfterLine(buf)]
      BY <2>1, <2>2, RestIs
    <2>5. drained = PushSourcetableLine(r, Line(buf))
      BY <1>3, <2>4 DEF DrainSourcetableLine, TableBuf
    <2>6. drained.go BY <2>1, <2>3, <2>5, PushLineFacts
    <2> HIDE DEF drained
    <2> QED BY <1>2, <2>2, <2>5, <2>6
  <1>4. ASSUME ~ HasLine(buf), Len(buf) > MaxLine PROVE DrainSourcetable(m) = Wait(Reject(m))
    <2>1. drained = Wait(Reject(m)) BY <1>4 DEF DrainSourcetableLine, TableBuf
    <2>2. drained.st = "Closed"
      <3>1. "Rejected" \in Ends /\ <<>> \in Details BY EmptyBytes DEF Ends, Details
      <3>2. MachineOK(Reject(m)) /\ Reject(m).st = "Closed" BY <3>1, CloseFacts DEF Reject
      <3> QED BY <2>1, <3>2, WaitFacts
    <2> HIDE DEF drained
    <2> QED BY <1>2, <2>1, <2>2
  <1>5. ASSUME ~ HasLine(buf), ~ (Len(buf) > MaxLine) PROVE drained = Wait(m)
    BY <1>5 DEF DrainSourcetableLine, TableBuf
  <1>6. Wait(m).go = FALSE /\ Wait(m).st = "Sourcetable" BY WaitFacts
  <1> HIDE DEF drained
  <1> QED BY <1>2, <1>3, <1>4, <1>5, <1>6

(* What the decoder of a table has done with what was read.                  *)
Tabled(m, d) == [m EXCEPT !.carry = <<>>, !.dec = Taken(d), !.tcarry = @ \o d.out]

(* What Tabled does.                                                        *)
LEMMA TabledIs ==
    ASSUME NEW m, MachineOK(m), NEW d, DecoderInv(d), ~ d.more
    PROVE  LET n == Tabled(m, d)
           IN  /\ n = Put(m, <<>>, m.tcarry \o d.out, Taken(d), <<>>)
               /\ MachineOK(n) /\ n.go = m.go /\ n.st = m.st /\ n.ev = m.ev
               /\ n.tchunked = m.tchunked /\ n.carry = <<>> /\ n.tcarry = m.tcarry \o d.out
               /\ n.dec = Taken(d) /\ m.tcarry \o d.out \in Bytes
               /\ Taken(d).poison = d.poison /\ Taken(d).finished = d.finished
  <1>1. m \in MachineType /\ m.ev \in Seq(Events) /\ m.tcarry \in Bytes
    BY DEF MachineOK, MachineType
  <1>2. <<>> \o m.ev = m.ev BY <1>1, ConcatEmptySeq
  <1>3. PICK k : k = Taken(d) OBVIOUS
  <1>4. DecoderInv(k) /\ ~ k.more /\ k.poison = d.poison /\ k.finished = d.finished
    BY <1>3, TakenFacts
  <1>5. k \in DecoderType BY <1>4 DEF DecoderInv
  <1>6. PICK t \in Bytes : t = m.tcarry \o d.out
    <2>1. d.out \in Bytes BY DEF DecoderInv, DecoderType
    <2> QED BY <1>1, <2>1, MoreBytes
  <1>7. PICK n : n = [m EXCEPT !.carry = <<>>, !.dec = k, !.tcarry = t] OBVIOUS
  <1>8. n = Put(m, <<>>, m.tcarry \o d.out, Taken(d), <<>>)
    <2>1. Put(m, <<>>, m.tcarry \o d.out, Taken(d), <<>>) = [m EXCEPT !.carry = <<>>, !.tcarry = t, !.dec = k, !.ev = m.ev]
      BY <1>2, <1>3, <1>6 DEF Tabled, Put
    <2> QED BY <1>1, <1>7, <2>1 DEF MachineType
  <1>9. n \in MachineType BY <1>1, <1>5, <1>7, EmptyBytes DEF MachineType
  <1>10. /\ n.go = m.go /\ n.st = m.st /\ n.ev = m.ev /\ n.tchunked = m.tchunked
         /\ n.carry = <<>> /\ n.tcarry = t /\ n.dec = k
    BY <1>1, <1>7 DEF MachineType
  <1>11. MachineOK(n) BY <1>4, <1>9, <1>10 DEF MachineOK
  <1>12. n = Tabled(m, d) BY <1>3, <1>6, <1>7 DEF Tabled
  <1> QED BY <1>3, <1>4, <1>6, <1>8, <1>10, <1>11, <1>12

(* The first round of a chunked table decodes, and the next one reads.      *)
LEMMA DecodeTableCases ==
    ASSUME NEW m, MachineOK(m), m.go, m.st = "Sourcetable", m.tchunked, m.carry # <<>>,
           NEW d, d = Decode(m.dec, m.carry), NEW n, n = Tabled(m, d)
    PROVE  /\ DecoderInv(d) /\ ~ d.more /\ MachineOK(n)
           /\ d.poison => DrainSourcetable(m) = Close(n, "StreamCorrupted", <<>>)
           /\ ~ d.poison => DrainSourcetable(m) = DrainSourcetable(n)
  <1>1. DecoderInv(d) /\ ~ d.more
    <2>1. m.carry \in Bytes /\ DecoderInv(m.dec) /\ ~ m.dec.more BY BufferFacts DEF MachineOK
    <2> QED BY <2>1, DecodeFacts
  <1>2. n.tchunked = m.tchunked /\ n.carry = <<>> /\ MachineOK(n)
    BY <1>1, TabledIs
  <1>3. ASSUME d.poison PROVE DrainSourcetable(m) = Close(n, "StreamCorrupted", <<>>)
    BY <1>2, <1>3 DEF DrainSourcetable, Tabled
  <1>4. ASSUME ~ d.poison PROVE DrainSourcetable(m) = DrainSourcetable(n)
    <2> DEFINE drained == DrainSourcetableLine(n)
    <2>1. DrainSourcetable(m)
            = IF drained.go \/ drained.st = "Closed" \/ ~ n.tchunked \/ ~ n.dec.finished
              THEN drained ELSE FlushSourcetable(drained)
      BY <1>2, <1>4 DEF DrainSourcetable, Tabled
    <2>2. DrainSourcetable(n)
            = IF drained.go \/ drained.st = "Closed" \/ ~ n.tchunked \/ ~ n.dec.finished
              THEN drained ELSE FlushSourcetable(drained)
      BY <1>2 DEF DrainSourcetable
    <2> QED BY <2>1, <2>2
  <1> QED BY <1>1, <1>2, <1>3, <1>4

-----------------------------------------------------------------------------
(* What was told before *)

(* A machine with events before its own.                                     *)
After(a, m) == [m EXCEPT !.ev = a \o m.ev]

(* What is put into it last is what it has.                                  *)
LEMMA PutAgain ==
    ASSUME NEW m \in MachineType, NEW c \in Bytes, NEW t \in Bytes, NEW d \in DecoderType,
           NEW a \in Seq(Events), NEW b \in Bytes, NEW s \in Bytes, NEW k \in DecoderType
    PROVE  Put(Put(m, c, t, d, a), b, s, k, <<>>) = Put(m, b, s, k, a)
  <1>1. m.ev \in Seq(Events) BY DEF MachineType
  <1>2. PICK f \in Seq(Events) : f = a \o m.ev BY <1>1, ConcatProperties
  <1>3. PICK p : p = [m EXCEPT !.carry = c, !.tcarry = t, !.dec = d, !.ev = f] OBVIOUS
  <1>4. p = Put(m, c, t, d, a) BY <1>2, <1>3 DEF Put
  <1>5. p.ev = f BY <1>3 DEF MachineType
  <1>6. <<>> \o f = f BY ConcatEmptySeq
  <1>7. Put(p, b, s, k, <<>>) = [p EXCEPT !.carry = b, !.tcarry = s, !.dec = k, !.ev = f]
    BY <1>5, <1>6 DEF Put
  <1>8. Put(m, b, s, k, a) = [m EXCEPT !.carry = b, !.tcarry = s, !.dec = k, !.ev = f]
    BY <1>2 DEF Put
  <1>9. [p EXCEPT !.carry = b, !.tcarry = s, !.dec = k, !.ev = f]
          = [m EXCEPT !.carry = b, !.tcarry = s, !.dec = k, !.ev = f]
    BY <1>3 DEF MachineType
  <1> QED BY <1>4, <1>7, <1>8, <1>9

(* The events may come first or last.                                        *)
LEMMA PutAfter ==
    ASSUME NEW m \in MachineType, NEW c \in Bytes, NEW t \in Bytes, NEW d \in DecoderType,
           NEW a \in Seq(Events)
    PROVE  Put(m, c, t, d, a) = After(a, Put(m, c, t, d, <<>>))
  <1>1. m.ev \in Seq(Events) BY DEF MachineType
  <1>2. <<>> \o m.ev = m.ev BY <1>1, ConcatEmptySeq
  <1>3. PICK p : p = [m EXCEPT !.carry = c, !.tcarry = t, !.dec = d, !.ev = m.ev] OBVIOUS
  <1>4. p = Put(m, c, t, d, <<>>) BY <1>2, <1>3 DEF Put
  <1>5. p.ev = m.ev BY <1>3 DEF MachineType
  <1>6. PICK f : f = a \o m.ev OBVIOUS
  <1>7. After(a, p) = [p EXCEPT !.ev = f] BY <1>5, <1>6 DEF After
  <1>8. [p EXCEPT !.ev = f] = [m EXCEPT !.carry = c, !.tcarry = t, !.dec = d, !.ev = f]
    BY <1>3 DEF MachineType
  <1> QED BY <1>4, <1>6, <1>7, <1>8 DEF Put

(* What After does.                                                         *)
LEMMA AfterFacts ==
    ASSUME NEW m \in MachineType, NEW a \in Seq(Events)
    PROVE  /\ After(a, m) = Put(m, m.carry, m.tcarry, m.dec, a)
           /\ After(a, m) \in MachineType /\ After(a, m).ev = a \o m.ev
           /\ After(a, m).st = m.st /\ After(a, m).go = m.go /\ After(a, m).carry = m.carry
           /\ After(a, m).tcarry = m.tcarry /\ After(a, m).dec = m.dec
           /\ After(a, m).tchunked = m.tchunked /\ After(a, m).icyBlank = m.icyBlank
           /\ After(a, m).chunked = m.chunked
  <1>1. m.ev \in Seq(Events) BY DEF MachineType
  <1>2. PICK f \in Seq(Events) : f = a \o m.ev BY <1>1, ConcatProperties
  <1>3. PICK p : p = [m EXCEPT !.ev = f] OBVIOUS
  <1>4. p = After(a, m) BY <1>2, <1>3 DEF After
  <1>5. /\ p \in MachineType /\ p.ev = f /\ p.st = m.st /\ p.go = m.go /\ p.carry = m.carry
        /\ p.tcarry = m.tcarry /\ p.dec = m.dec /\ p.tchunked = m.tchunked
        /\ p.icyBlank = m.icyBlank /\ p.chunked = m.chunked
    BY <1>3 DEF MachineType
  <1>6. Put(m, m.carry, m.tcarry, m.dec, a)
          = [m EXCEPT !.carry = m.carry, !.tcarry = m.tcarry, !.dec = m.dec, !.ev = f]
    BY <1>2 DEF Put
  <1>7. [m EXCEPT !.carry = m.carry, !.tcarry = m.tcarry, !.dec = m.dec, !.ev = f] = p
    BY <1>3 DEF MachineType
  <1> QED BY <1>2, <1>4, <1>5, <1>6, <1>7

(* A line that has not ended, and a payload.                                 *)
LEMMA PutNoLine ==
    ASSUME NEW m \in MachineType, NEW t \in Bytes, NEW d \in DecoderType, NEW a \in Seq(Events)
    PROVE  /\ NoLine(Put(m, m.carry, t, d, a)) = Put(NoLine(m), m.carry, t, d, a)
           /\ NoLine(m) \in MachineType
  <1>1. m.carry \in Bytes BY DEF MachineType
  <1>2. PICK p : p = Put(m, m.carry, t, d, a) OBVIOUS
  <1>3. p.carry = m.carry
    <2>1. PICK f : f = a \o m.ev OBVIOUS
    <2>2. p = [m EXCEPT !.carry = m.carry, !.tcarry = t, !.dec = d, !.ev = f]
      BY <1>2, <2>1 DEF Put
    <2> QED BY <2>2 DEF MachineType
  <1>4. <<"Rejected", <<>> >> \in Events
    <2>1. <<>> \in Details BY EmptyBytes DEF Details
    <2> QED BY <2>1 DEF Events, Ends
  <1>5. Reject(p) = Put(Reject(m), m.carry, t, d, a) /\ Reject(m) \in MachineType
    BY <1>1, <1>2, <1>4, PutClose DEF Reject
  <1>6. Wait(Put(Reject(m), m.carry, t, d, a)) = Put(Wait(Reject(m)), m.carry, t, d, a)
        /\ Wait(Reject(m)) \in MachineType
    BY <1>1, <1>5, PutWait
  <1>7. Wait(p) = Put(Wait(m), m.carry, t, d, a) /\ Wait(m) \in MachineType
    BY <1>1, <1>2, PutWait
  <1>8. CASE Len(m.carry) > MaxLine
    <2>1. NoLine(p) = Wait(Reject(p)) /\ NoLine(m) = Wait(Reject(m))
      BY <1>3, <1>8 DEF NoLine
    <2> QED BY <1>2, <1>5, <1>6, <2>1
  <1>9. CASE ~ (Len(m.carry) > MaxLine)
    <2>1. NoLine(p) = Wait(p) /\ NoLine(m) = Wait(m)
      BY <1>3, <1>9 DEF NoLine
    <2> QED BY <1>2, <1>7, <2>1
  <1> QED BY <1>8, <1>9

(* EmitPayload does not look at what Put replaces.                          *)
LEMMA PutPayload ==
    ASSUME NEW m \in MachineType, NEW c \in Bytes, NEW t \in Bytes, NEW d \in DecoderType,
           NEW a \in Seq(Events), NEW x \in Bytes
    PROVE  /\ EmitPayload(Put(m, c, t, d, a), x) = Put(EmitPayload(m, x), c, t, d, a)
           /\ EmitPayload(m, x) \in MachineType
  <1>1. <<"Payload", x>> \in Events BY DEF Events, Details
  <1>2. /\ Emit(Put(m, c, t, d, a), "Payload", x) = Put(Emit(m, "Payload", x), c, t, d, a)
        /\ Emit(m, "Payload", x) \in MachineType
    BY <1>1, PutEmit
  <1>3. CASE x = <<>> BY <1>3 DEF EmitPayload
  <1>4. CASE x # <<>>
    <2>1. /\ EmitPayload(Put(m, c, t, d, a), x) = Emit(Put(m, c, t, d, a), "Payload", x)
          /\ EmitPayload(m, x) = Emit(m, "Payload", x)
      BY <1>4 DEF EmitPayload
    <2> QED BY <1>2, <2>1
  <1> QED BY <1>3, <1>4

(* The events before it stay before it. *)
LEMMA AfterWait ==
    ASSUME NEW m \in MachineType, NEW a \in Seq(Events)
    PROVE  Wait(After(a, m)) = After(a, Wait(m))
  <1>0. m \in MachineType /\ m.carry \in Bytes /\ m.tcarry \in Bytes /\ m.dec \in DecoderType
    BY DEF MachineOK, MachineType
  <1>1. /\ Wait(m) \in MachineType
        /\ \A b \in Seq(Events) :
              Wait(Put(m, m.carry, m.tcarry, m.dec, b))
                = Put(Wait(m), m.carry, m.tcarry, m.dec, b)
    BY <1>0, PutWait
  <1>2. <<>> \in Seq(Events) OBVIOUS
  <1>3. Put(m, m.carry, m.tcarry, m.dec, <<>>) = m BY <1>0, PutNothing
  <1>4. Wait(m) = Put(Wait(m), m.carry, m.tcarry, m.dec, <<>>)
    BY <1>1, <1>2, <1>3
  <1>5. After(a, m) = Put(m, m.carry, m.tcarry, m.dec, a) BY <1>0, AfterFacts
  <1>6. Put(Wait(m), m.carry, m.tcarry, m.dec, a) = After(a, Put(Wait(m), m.carry, m.tcarry, m.dec, <<>>))
    BY <1>0, <1>1, PutAfter
  <1> QED BY <1>1, <1>4, <1>5, <1>6

(* A line that has not ended. *)
LEMMA AfterNoLine ==
    ASSUME NEW m \in MachineType, NEW a \in Seq(Events)
    PROVE  NoLine(After(a, m)) = After(a, NoLine(m))
  <1>0. m \in MachineType /\ m.carry \in Bytes /\ m.tcarry \in Bytes /\ m.dec \in DecoderType
    BY DEF MachineOK, MachineType
  <1>1. /\ NoLine(m) \in MachineType
        /\ \A b \in Seq(Events) :
              NoLine(Put(m, m.carry, m.tcarry, m.dec, b))
                = Put(NoLine(m), m.carry, m.tcarry, m.dec, b)
    BY <1>0, PutNoLine
  <1>2. <<>> \in Seq(Events) OBVIOUS
  <1>3. Put(m, m.carry, m.tcarry, m.dec, <<>>) = m BY <1>0, PutNothing
  <1>4. NoLine(m) = Put(NoLine(m), m.carry, m.tcarry, m.dec, <<>>)
    BY <1>1, <1>2, <1>3
  <1>5. After(a, m) = Put(m, m.carry, m.tcarry, m.dec, a) BY <1>0, AfterFacts
  <1>6. Put(NoLine(m), m.carry, m.tcarry, m.dec, a) = After(a, Put(NoLine(m), m.carry, m.tcarry, m.dec, <<>>))
    BY <1>0, <1>1, PutAfter
  <1> QED BY <1>1, <1>4, <1>5, <1>6

(* An event. *)
LEMMA AfterEmit ==
    ASSUME NEW m \in MachineType, NEW a \in Seq(Events), NEW k, NEW x, <<k, x>> \in Events
    PROVE  Emit(After(a, m), k, x) = After(a, Emit(m, k, x))
  <1>0. m \in MachineType /\ m.carry \in Bytes /\ m.tcarry \in Bytes /\ m.dec \in DecoderType
    BY DEF MachineOK, MachineType
  <1>1. /\ Emit(m, k, x) \in MachineType
        /\ \A b \in Seq(Events) :
              Emit(Put(m, m.carry, m.tcarry, m.dec, b), k, x)
                = Put(Emit(m, k, x), m.carry, m.tcarry, m.dec, b)
    BY <1>0, PutEmit
  <1>2. <<>> \in Seq(Events) OBVIOUS
  <1>3. Put(m, m.carry, m.tcarry, m.dec, <<>>) = m BY <1>0, PutNothing
  <1>4. Emit(m, k, x) = Put(Emit(m, k, x), m.carry, m.tcarry, m.dec, <<>>)
    BY <1>1, <1>2, <1>3
  <1>5. After(a, m) = Put(m, m.carry, m.tcarry, m.dec, a) BY <1>0, AfterFacts
  <1>6. Put(Emit(m, k, x), m.carry, m.tcarry, m.dec, a) = After(a, Put(Emit(m, k, x), m.carry, m.tcarry, m.dec, <<>>))
    BY <1>0, <1>1, PutAfter
  <1> QED BY <1>1, <1>4, <1>5, <1>6

(* The last event. *)
LEMMA AfterClose ==
    ASSUME NEW m \in MachineType, NEW a \in Seq(Events), NEW k, NEW x, <<k, x>> \in Events
    PROVE  Close(After(a, m), k, x) = After(a, Close(m, k, x))
  <1>0. m \in MachineType /\ m.carry \in Bytes /\ m.tcarry \in Bytes /\ m.dec \in DecoderType
    BY DEF MachineOK, MachineType
  <1>1. /\ Close(m, k, x) \in MachineType
        /\ \A b \in Seq(Events) :
              Close(Put(m, m.carry, m.tcarry, m.dec, b), k, x)
                = Put(Close(m, k, x), m.carry, m.tcarry, m.dec, b)
    BY <1>0, PutClose
  <1>2. <<>> \in Seq(Events) OBVIOUS
  <1>3. Put(m, m.carry, m.tcarry, m.dec, <<>>) = m BY <1>0, PutNothing
  <1>4. Close(m, k, x) = Put(Close(m, k, x), m.carry, m.tcarry, m.dec, <<>>)
    BY <1>1, <1>2, <1>3
  <1>5. After(a, m) = Put(m, m.carry, m.tcarry, m.dec, a) BY <1>0, AfterFacts
  <1>6. Put(Close(m, k, x), m.carry, m.tcarry, m.dec, a) = After(a, Put(Close(m, k, x), m.carry, m.tcarry, m.dec, <<>>))
    BY <1>0, <1>1, PutAfter
  <1> QED BY <1>1, <1>4, <1>5, <1>6

(* A payload. *)
LEMMA AfterPayload ==
    ASSUME NEW m \in MachineType, NEW a \in Seq(Events), NEW x \in Bytes
    PROVE  EmitPayload(After(a, m), x) = After(a, EmitPayload(m, x))
  <1>0. m \in MachineType /\ m.carry \in Bytes /\ m.tcarry \in Bytes /\ m.dec \in DecoderType
    BY DEF MachineOK, MachineType
  <1>1. /\ EmitPayload(m, x) \in MachineType
        /\ \A b \in Seq(Events) :
              EmitPayload(Put(m, m.carry, m.tcarry, m.dec, b), x)
                = Put(EmitPayload(m, x), m.carry, m.tcarry, m.dec, b)
    BY <1>0, PutPayload
  <1>2. <<>> \in Seq(Events) OBVIOUS
  <1>3. Put(m, m.carry, m.tcarry, m.dec, <<>>) = m BY <1>0, PutNothing
  <1>4. EmitPayload(m, x) = Put(EmitPayload(m, x), m.carry, m.tcarry, m.dec, <<>>)
    BY <1>1, <1>2, <1>3
  <1>5. After(a, m) = Put(m, m.carry, m.tcarry, m.dec, a) BY <1>0, AfterFacts
  <1>6. Put(EmitPayload(m, x), m.carry, m.tcarry, m.dec, a) = After(a, Put(EmitPayload(m, x), m.carry, m.tcarry, m.dec, <<>>))
    BY <1>0, <1>1, PutAfter
  <1> QED BY <1>1, <1>4, <1>5, <1>6

(* A change of state. *)
LEMMA AfterState ==
    ASSUME NEW m \in MachineType, NEW a \in Seq(Events), NEW s \in States
    PROVE  ToState(After(a, m), s) = After(a, ToState(m, s))
  <1>0. m \in MachineType /\ m.carry \in Bytes /\ m.tcarry \in Bytes /\ m.dec \in DecoderType
    BY DEF MachineOK, MachineType
  <1>1. /\ ToState(m, s) \in MachineType
        /\ \A b \in Seq(Events) :
              ToState(Put(m, m.carry, m.tcarry, m.dec, b), s)
                = Put(ToState(m, s), m.carry, m.tcarry, m.dec, b)
    BY <1>0, PutState
  <1>2. <<>> \in Seq(Events) OBVIOUS
  <1>3. Put(m, m.carry, m.tcarry, m.dec, <<>>) = m BY <1>0, PutNothing
  <1>4. ToState(m, s) = Put(ToState(m, s), m.carry, m.tcarry, m.dec, <<>>)
    BY <1>1, <1>2, <1>3
  <1>5. After(a, m) = Put(m, m.carry, m.tcarry, m.dec, a) BY <1>0, AfterFacts
  <1>6. Put(ToState(m, s), m.carry, m.tcarry, m.dec, a) = After(a, Put(ToState(m, s), m.carry, m.tcarry, m.dec, <<>>))
    BY <1>0, <1>1, PutAfter
  <1> QED BY <1>1, <1>4, <1>5, <1>6

(* A line of a table. *)
LEMMA AfterLineOf ==
    ASSUME NEW m, MachineOK(m), NEW a \in Seq(Events), NEW line \in Bytes
    PROVE  PushSourcetableLine(After(a, m), line) = After(a, PushSourcetableLine(m, line))
  <1>0. m \in MachineType /\ m.carry \in Bytes /\ m.tcarry \in Bytes /\ m.dec \in DecoderType
    BY DEF MachineOK, MachineType
  <1>p. PushSourcetableLine(m, line) \in MachineType BY PushLineFacts DEF MachineOK
  <1>1. /\ PushSourcetableLine(m, line) \in MachineType
        /\ \A b \in Seq(Events) :
              PushSourcetableLine(Put(m, m.carry, m.tcarry, m.dec, b), line)
                = Put(PushSourcetableLine(m, line), m.carry, m.tcarry, m.dec, b)
    BY <1>0, PutLine, <1>p
  <1>2. <<>> \in Seq(Events) OBVIOUS
  <1>3. Put(m, m.carry, m.tcarry, m.dec, <<>>) = m BY <1>0, PutNothing
  <1>4. PushSourcetableLine(m, line) = Put(PushSourcetableLine(m, line), m.carry, m.tcarry, m.dec, <<>>)
    BY <1>1, <1>2, <1>3
  <1>5. After(a, m) = Put(m, m.carry, m.tcarry, m.dec, a) BY <1>0, AfterFacts
  <1>6. Put(PushSourcetableLine(m, line), m.carry, m.tcarry, m.dec, a) = After(a, Put(PushSourcetableLine(m, line), m.carry, m.tcarry, m.dec, <<>>))
    BY <1>0, <1>1, PutAfter
  <1> QED BY <1>1, <1>4, <1>5, <1>6

(* What was decoded, with events before.                                    *)
LEMMA AfterPut ==
    ASSUME NEW m \in MachineType, NEW c \in Bytes, NEW t \in Bytes, NEW d \in DecoderType,
           NEW a \in Seq(Events)
    PROVE  /\ Put(After(a, m), c, t, d, <<>>) = After(a, Put(m, c, t, d, <<>>))
           /\ Put(m, c, t, d, <<>>) \in MachineType
  <1>0. /\ m.carry \in Bytes /\ m.tcarry \in Bytes /\ m.dec \in DecoderType
        /\ <<>> \in Seq(Events)
    BY DEF MachineType
  <1>1. After(a, m) = Put(m, m.carry, m.tcarry, m.dec, a) BY AfterFacts
  <1>2. Put(Put(m, m.carry, m.tcarry, m.dec, a), c, t, d, <<>>) = Put(m, c, t, d, a)
    BY <1>0, PutAgain
  <1>3. Put(m, c, t, d, a) = After(a, Put(m, c, t, d, <<>>)) BY PutAfter
  <1>4. Put(m, c, t, d, <<>>) \in MachineType BY <1>0, PutFacts
  <1> QED BY <1>1, <1>2, <1>3, <1>4

(* The blank line of an ICY response, with events before.                   *)
LEMMA AfterSkim ==
    ASSUME NEW m \in MachineType, NEW s \in Bytes, NEW a \in Seq(Events)
    PROVE  Skim(After(a, m), s) = After(a, Skim(m, s))
  <1>0. /\ m.carry \in Bytes /\ m.tcarry \in Bytes /\ m.dec \in DecoderType
    BY DEF MachineType
  <1>1. After(a, m) = Put(m, m.carry, m.tcarry, m.dec, a) BY AfterFacts
  <1>2. Skim(Put(m, m.carry, m.tcarry, m.dec, a), s) = Put(Skim(m, s), s, m.tcarry, m.dec, a)
    BY <1>0, PutSkim
  <1>3. PICK n : n = Skim(m, s) OBVIOUS
  <1>4. n \in MachineType /\ n.carry = s /\ n.tcarry = m.tcarry /\ n.dec = m.dec
    BY <1>3, SkimFacts
  <1>5. Put(n, s, m.tcarry, m.dec, <<>>) = n BY <1>4, PutNothing
  <1>6. Put(n, s, m.tcarry, m.dec, a) = After(a, Put(n, s, m.tcarry, m.dec, <<>>))
    BY <1>0, <1>4, PutAfter
  <1> QED BY <1>1, <1>2, <1>3, <1>5, <1>6

(* What is told of a machine is told of the one with events before it.      *)
LEMMA AfterIsOK ==
    ASSUME NEW m, MachineOK(m), NEW a \in Seq(Events)
    PROVE  MachineOK(After(a, m))
  <1>1. m \in MachineType BY DEF MachineOK
  <1> QED BY <1>1, AfterFacts DEF MachineOK

(* The end of a table, with events before.                                  *)
LEMMA AfterFlush ==
    ASSUME NEW m, MachineOK(m), m.st = "Sourcetable", NEW a \in Seq(Events)
    PROVE  FlushSourcetable(After(a, m)) = After(a, FlushSourcetable(m))
  <1>0. m \in MachineType /\ m.carry \in Bytes /\ m.tcarry \in Bytes /\ m.dec \in DecoderType
    BY DEF MachineOK, MachineType
  <1>1. \A b \in Seq(Events) :
              FlushSourcetable(Put(m, m.carry, m.tcarry, m.dec, b))
                = Put(FlushSourcetable(m), m.carry, <<>>, m.dec, b)
    BY <1>0, PutFlush
  <1>2. <<>> \in Seq(Events) OBVIOUS
  <1>3. Put(m, m.carry, m.tcarry, m.dec, <<>>) = m BY <1>0, PutNothing
  <1>4. FlushSourcetable(m) = Put(FlushSourcetable(m), m.carry, <<>>, m.dec, <<>>)
    BY <1>1, <1>2, <1>3
  <1>5. After(a, m) = Put(m, m.carry, m.tcarry, m.dec, a) BY <1>0, AfterFacts
  <1>6. FlushSourcetable(m) \in MachineType BY FlushFacts DEF MachineOK
  <1>7. Put(FlushSourcetable(m), m.carry, <<>>, m.dec, a)
          = After(a, Put(FlushSourcetable(m), m.carry, <<>>, m.dec, <<>>))
    BY <1>0, <1>6, EmptyBytes, PutAfter
  <1> QED BY <1>1, <1>4, <1>5, <1>7

(* A status line, with events before.                                       *)
LEMMA AfterStatus ==
    ASSUME NEW m, MachineOK(m), m.st = "AwaitingStatus", m.go, NEW a \in Seq(Events)
    PROVE  ParseStatus(After(a, m)) = After(a, ParseStatus(m))
  <1>0. m \in MachineType /\ m.carry \in Bytes /\ m.tcarry \in Bytes /\ m.dec \in DecoderType
    BY DEF MachineOK, MachineType
  <1>1. CASE HasLine(m.carry)
    <2>1. \A b \in Seq(Events) :
              ParseStatus(Put(m, m.carry, m.tcarry, m.dec, b))
                = Put(ParseStatus(m), AfterLine(m.carry), m.tcarry, m.dec, b)
      BY <1>0, <1>1, PutStatus
    <2>2. <<>> \in Seq(Events) /\ AfterLine(m.carry) \in Bytes BY <1>0, <1>1, LineFacts
    <2>3. Put(m, m.carry, m.tcarry, m.dec, <<>>) = m BY <1>0, PutNothing
    <2>4. ParseStatus(m) = Put(ParseStatus(m), AfterLine(m.carry), m.tcarry, m.dec, <<>>)
      BY <2>1, <2>2, <2>3
    <2>5. After(a, m) = Put(m, m.carry, m.tcarry, m.dec, a) BY <1>0, AfterFacts
    <2>6. ParseStatus(m) \in MachineType BY ParseStatusIsRound DEF RoundOK, MachineOK
    <2>7. Put(ParseStatus(m), AfterLine(m.carry), m.tcarry, m.dec, a)
            = After(a, Put(ParseStatus(m), AfterLine(m.carry), m.tcarry, m.dec, <<>>))
      BY <1>0, <2>2, <2>6, PutAfter
    <2> QED BY <2>1, <2>4, <2>5, <2>7
  <1>2. CASE ~ HasLine(m.carry)
    <2>1. After(a, m).carry = m.carry BY <1>0, AfterFacts
    <2>2. ParseStatus(After(a, m)) = NoLine(After(a, m)) /\ ParseStatus(m) = NoLine(m)
      BY <1>2, <2>1 DEF ParseStatus
    <2> QED BY <1>0, <2>2, AfterNoLine
  <1> QED BY <1>1, <1>2

(* A header line, with events before.                                       *)
LEMMA AfterHeaders ==
    ASSUME NEW m, MachineOK(m), m.st = "AwaitingHeaders", m.go, NEW a \in Seq(Events)
    PROVE  ParseHeaders(After(a, m)) = After(a, ParseHeaders(m))
  <1>0. m \in MachineType /\ m.carry \in Bytes /\ m.tcarry \in Bytes /\ m.dec \in DecoderType
    BY DEF MachineOK, MachineType
  <1>1. CASE HasLine(m.carry)
    <2>1. \A b \in Seq(Events) :
              ParseHeaders(Put(m, m.carry, m.tcarry, m.dec, b))
                = Put(ParseHeaders(m), AfterLine(m.carry), m.tcarry, m.dec, b)
      BY <1>0, <1>1, PutHeaders
    <2>2. <<>> \in Seq(Events) /\ AfterLine(m.carry) \in Bytes BY <1>0, <1>1, LineFacts
    <2>3. Put(m, m.carry, m.tcarry, m.dec, <<>>) = m BY <1>0, PutNothing
    <2>4. ParseHeaders(m) = Put(ParseHeaders(m), AfterLine(m.carry), m.tcarry, m.dec, <<>>)
      BY <2>1, <2>2, <2>3
    <2>5. After(a, m) = Put(m, m.carry, m.tcarry, m.dec, a) BY <1>0, AfterFacts
    <2>6. ParseHeaders(m) \in MachineType BY ParseHeadersIsRound DEF RoundOK, MachineOK
    <2>7. Put(ParseHeaders(m), AfterLine(m.carry), m.tcarry, m.dec, a)
            = After(a, Put(ParseHeaders(m), AfterLine(m.carry), m.tcarry, m.dec, <<>>))
      BY <1>0, <2>2, <2>6, PutAfter
    <2> QED BY <2>1, <2>4, <2>5, <2>7
  <1>2. CASE ~ HasLine(m.carry)
    <2>1. After(a, m).carry = m.carry BY <1>0, AfterFacts
    <2>2. ParseHeaders(After(a, m)) = NoLine(After(a, m)) /\ ParseHeaders(m) = NoLine(m)
      BY <1>2, <2>1 DEF ParseHeaders
    <2> QED BY <1>0, <2>2, AfterNoLine
  <1> QED BY <1>1, <1>2

(* What a stream does with what its decoder returned.                       *)
Decoded(m, d) ==
    IF d.poison THEN Close(Streamed(m, d), "StreamCorrupted", <<>>)
    ELSE IF d.finished THEN Close(EmitPayload(Streamed(m, d), d.out), "StreamEnded", <<>>)
    ELSE EmitPayload(Streamed(m, d), d.out)

(* drain_payload, when the body is chunked.                                 *)
LEMMA DrainChunks ==
    ASSUME NEW m \in MachineType, ~ m.icyBlank, m.carry # <<>>, m.chunked,
           NEW d, d = Decode(m.dec, m.carry)
    PROVE  DrainPayload(m) = Wait(Decoded(m, d))
  BY DrainPayloadCases DEF Decoded

(* The events that end a stream.                                            *)
LEMMA EndEvents ==
    /\ <<"StreamCorrupted", <<>> >> \in Events /\ <<"StreamEnded", <<>> >> \in Events
    /\ <<"Rejected", <<>> >> \in Events
  <1>1. <<>> \in Details BY EmptyBytes DEF Details
  <1> QED BY <1>1 DEF Events, Ends

(* What Taken does.                                                         *)
LEMMA TakenType ==
    ASSUME NEW d \in DecoderType
    PROVE  /\ Taken(d) \in DecoderType /\ Taken(d).out = <<>> /\ Taken(d).buf = d.buf
           /\ Taken(d).poison = d.poison /\ Taken(d).finished = d.finished
           /\ Taken(d).st = d.st
  <1>1. PICK e : e = [d EXCEPT !.out = <<>>] OBVIOUS
  <1>2. e = Taken(d) BY <1>1 DEF Taken
  <1>3. /\ e \in DecoderType /\ e.out = <<>> /\ e.buf = d.buf /\ e.poison = d.poison
        /\ e.finished = d.finished /\ e.st = d.st
    BY <1>1, EmptyBytes DEF DecoderType
  <1> QED BY <1>2, <1>3

(* A round of a stream, with events before.                                 *)
LEMMA AfterDecoded ==
    ASSUME NEW m \in MachineType, NEW d \in DecoderType, NEW a \in Seq(Events)
    PROVE  /\ Decoded(After(a, m), d) = After(a, Decoded(m, d))
           /\ Decoded(m, d) \in MachineType
  <1>1. PICK n : n = Streamed(m, d) OBVIOUS
  <1>2. PICK k : k = Taken(d) OBVIOUS
  <1>3. m.tcarry \in Bytes /\ k \in DecoderType /\ d.out \in Bytes
    BY <1>2, TakenType DEF MachineType, DecoderType
  <1>4. n = Put(m, <<>>, m.tcarry, k, <<>>) BY <1>1, <1>2 DEF Streamed
  <1>5. /\ Put(After(a, m), <<>>, m.tcarry, k, <<>>) = After(a, Put(m, <<>>, m.tcarry, k, <<>>))
        /\ Put(m, <<>>, m.tcarry, k, <<>>) \in MachineType
    BY <1>3, EmptyBytes, AfterPut
  <1>6. After(a, m).tcarry = m.tcarry BY AfterFacts
  <1>7. Streamed(After(a, m), d) = After(a, n) /\ n \in MachineType
    BY <1>2, <1>4, <1>5, <1>6 DEF Streamed
  <1>8. CASE d.poison
    <2>1. /\ Decoded(After(a, m), d) = Close(After(a, n), "StreamCorrupted", <<>>)
          /\ Decoded(m, d) = Close(n, "StreamCorrupted", <<>>)
      BY <1>1, <1>7, <1>8 DEF Decoded
    <2>2. Close(After(a, n), "StreamCorrupted", <<>>) = After(a, Close(n, "StreamCorrupted", <<>>))
      BY <1>7, EndEvents, AfterClose
    <2>3. Close(n, "StreamCorrupted", <<>>) \in MachineType
      BY <1>3, <1>4, <1>7, EmptyBytes, EndEvents, PutClose
    <2> QED BY <2>1, <2>2, <2>3
  <1>9. CASE ~ d.poison
    <2>1. PICK p : p = EmitPayload(n, d.out) OBVIOUS
    <2>2. EmitPayload(After(a, n), d.out) = After(a, p) BY <1>3, <1>7, <2>1, AfterPayload
    <2>3. p \in MachineType BY <1>3, <1>7, <2>1, EmptyBytes, PutPayload
    <2>4. CASE d.finished
      <3>1. /\ Decoded(After(a, m), d) = Close(After(a, p), "StreamEnded", <<>>)
            /\ Decoded(m, d) = Close(p, "StreamEnded", <<>>)
        BY <1>1, <1>7, <1>9, <2>1, <2>2, <2>4 DEF Decoded
      <3>2. Close(After(a, p), "StreamEnded", <<>>) = After(a, Close(p, "StreamEnded", <<>>))
        BY <2>3, EndEvents, AfterClose
      <3>3. Close(p, "StreamEnded", <<>>) \in MachineType
        BY <1>3, <2>3, EmptyBytes, EndEvents, PutClose
      <3> QED BY <3>1, <3>2, <3>3
    <2>5. CASE ~ d.finished
      BY <1>1, <1>7, <1>9, <2>1, <2>2, <2>3, <2>5 DEF Decoded
    <2> QED BY <2>4, <2>5
  <1> QED BY <1>8, <1>9

(* drain_payload does not look at the events.                               *)
LEMMA AfterDrainPayload ==
    ASSUME NEW m, MachineOK(m), NEW a \in Seq(Events)
    PROVE  DrainPayload(After(a, m)) = After(a, DrainPayload(m))
  <1>1. m \in MachineType /\ m.carry \in Bytes /\ m.tcarry \in Bytes /\ m.dec \in DecoderType
    BY DEF MachineOK, MachineType
  <1>2. PICK p : p = After(a, m) OBVIOUS
  <1>3. /\ p \in MachineType /\ p.carry = m.carry /\ p.tcarry = m.tcarry /\ p.dec = m.dec
        /\ p.icyBlank = m.icyBlank /\ p.chunked = m.chunked
    BY <1>1, <1>2, AfterFacts
  <1>4. Wait(p) = After(a, Wait(m)) BY <1>1, <1>2, AfterWait
  <1>5. \A n \in MachineType : DrainPayload(After(a, n)) = After(a, DrainPayload(n))
            \/ n.icyBlank \/ (n.carry # <<>> /\ n.chunked)
    <2> SUFFICES ASSUME NEW n \in MachineType, ~ n.icyBlank, ~ (n.carry # <<>> /\ n.chunked)
                 PROVE  DrainPayload(After(a, n)) = After(a, DrainPayload(n))
      OBVIOUS
    <2>1. n.carry \in Bytes /\ n.tcarry \in Bytes /\ n.dec \in DecoderType
      BY DEF MachineType
    <2>2. PICK q : q = After(a, n) OBVIOUS
    <2>3. /\ q \in MachineType /\ q.carry = n.carry /\ q.tcarry = n.tcarry /\ q.dec = n.dec
          /\ q.icyBlank = n.icyBlank /\ q.chunked = n.chunked
      BY <2>2, AfterFacts
    <2>4. CASE n.carry = <<>>
      <3>1. DrainPayload(n) = Wait(n) BY <2>4, DrainPayloadCases
      <3>2. DrainPayload(q) = Wait(q) BY <2>3, <2>4, DrainPayloadCases
      <3> QED BY <2>2, <3>1, <3>2, AfterWait
    <2>5. CASE n.carry # <<>> /\ ~ n.chunked
      <3>1. PICK g : g = Put(n, <<>>, n.tcarry, n.dec, <<>>) OBVIOUS
      <3>2. DrainPayload(n) = Wait(Emit(g, "Payload", n.carry))
        BY <2>5, <3>1, DrainPayloadCases
      <3>3. DrainPayload(q) = Wait(Emit(Put(q, <<>>, n.tcarry, n.dec, <<>>), "Payload", n.carry))
        BY <2>3, <2>5, DrainPayloadCases
      <3>4. Put(q, <<>>, n.tcarry, n.dec, <<>>) = After(a, g) /\ g \in MachineType
        BY <2>1, <2>2, <3>1, EmptyBytes, AfterPut
      <3>5. <<"Payload", n.carry>> \in Events BY <2>1 DEF Events
      <3>6. Emit(After(a, g), "Payload", n.carry) = After(a, Emit(g, "Payload", n.carry))
        BY <3>4, <3>5, AfterEmit
      <3>7. Emit(g, "Payload", n.carry) \in MachineType
        BY <2>1, <3>4, <3>5, EmptyBytes, PutEmit
      <3> QED BY <2>2, <3>2, <3>3, <3>4, <3>6, <3>7, AfterWait
    <2> QED BY <2>4, <2>5
  <1>6. \A n \in MachineType : MachineOK(n) /\ ~ n.icyBlank
            => DrainPayload(After(a, n)) = After(a, DrainPayload(n))
    <2> SUFFICES ASSUME NEW n \in MachineType, MachineOK(n), ~ n.icyBlank, n.carry # <<>>, n.chunked
                 PROVE  DrainPayload(After(a, n)) = After(a, DrainPayload(n))
      BY <1>5
    <2>1. n.carry \in Bytes /\ n.tcarry \in Bytes /\ n.dec \in DecoderType
      BY DEF MachineType
    <2>2. PICK q : q = After(a, n) OBVIOUS
    <2>3. /\ q \in MachineType /\ q.carry = n.carry /\ q.tcarry = n.tcarry /\ q.dec = n.dec
          /\ q.icyBlank = n.icyBlank /\ q.chunked = n.chunked
      BY <2>2, AfterFacts
    <2>4. PICK d : d = Decode(n.dec, n.carry) OBVIOUS
    <2>5. d \in DecoderType BY <2>1, <2>4, DecodeFacts DEF MachineOK, DecoderInv
    <2>6. DrainPayload(n) = Wait(Decoded(n, d)) BY <2>4, DrainChunks
    <2>7. DrainPayload(q) = Wait(Decoded(q, d)) BY <2>3, <2>4, DrainChunks
    <2>8. Decoded(q, d) = After(a, Decoded(n, d)) /\ Decoded(n, d) \in MachineType
      BY <2>2, <2>5, AfterDecoded
    <2> QED BY <2>2, <2>6, <2>7, <2>8, AfterWait
  <1>7. CASE m.icyBlank /\ Pending(m.carry)
    <2>1. DrainPayload(m) = Wait(m) BY <1>1, <1>7, DrainPayloadCases
    <2>2. DrainPayload(p) = Wait(p) BY <1>3, <1>7, DrainPayloadCases
    <2> QED BY <1>2, <1>4, <2>1, <2>2
  <1>8. CASE m.icyBlank /\ ~ Pending(m.carry)
    <2>1. PICK r : r = Skimmed(m.carry) OBVIOUS
    <2>2. r \in Bytes BY <1>1, <1>8, <2>1, SkimmedFacts
    <2>3. PICK n : n = Skim(m, r) OBVIOUS
    <2>4. DrainPayload(m) = DrainPayload(n) BY <1>1, <1>8, <2>1, <2>3, DrainPayloadCases
    <2>5. DrainPayload(p) = DrainPayload(Skim(p, r)) BY <1>3, <1>8, <2>1, DrainPayloadCases
    <2>6. Skim(p, r) = After(a, n) BY <1>1, <1>2, <2>2, <2>3, AfterSkim
    <2>7. n \in MachineType /\ ~ n.icyBlank /\ n.dec = m.dec BY <1>1, <2>2, <2>3, SkimFacts
    <2>8. MachineOK(n) BY <2>7 DEF MachineOK
    <2> QED BY <1>2, <1>6, <2>4, <2>5, <2>6, <2>7, <2>8
  <1> QED BY <1>1, <1>6, <1>7, <1>8

(* A round of a table, with events before.                                  *)
LEMMA AfterTableLine ==
    ASSUME NEW m, MachineOK(m), m.go, m.st = "Sourcetable", m.tchunked => m.carry = <<>>,
           NEW a \in Seq(Events)
    PROVE  DrainSourcetable(After(a, m)) = After(a, DrainSourcetable(m))
  <1>1. m \in MachineType /\ m.carry \in Bytes /\ m.tcarry \in Bytes /\ m.dec \in DecoderType
    BY DEF MachineOK, MachineType
  <1>2. PICK p : p = After(a, m) OBVIOUS
  <1>3. /\ MachineOK(p) /\ p.go /\ p.st = "Sourcetable" /\ p.tchunked = m.tchunked
        /\ p.carry = m.carry /\ p.tcarry = m.tcarry /\ p.dec = m.dec
        /\ p.tchunked => p.carry = <<>>
    BY <1>1, <1>2, AfterFacts, AfterIsOK
  <1>4. PICK buf : buf = TableBuf(m) OBVIOUS
  <1>5. buf = TableBuf(p) /\ buf \in Bytes BY <1>1, <1>3, <1>4 DEF TableBuf
  <1>6. CASE HasLine(buf)
    <2>1. PICK s : s = AfterLine(buf) OBVIOUS
    <2>2. s \in Bytes /\ Line(buf) \in Bytes BY <1>5, <1>6, <2>1, LineFacts
    <2>3. PICK n : n = Rest(m, s) OBVIOUS
    <2>4. MachineOK(n) BY <2>2, <2>3, RestIs
    <2>5. Rest(p, s) = After(a, n)
      <3>1. /\ Put(p, m.carry, s, m.dec, <<>>) = After(a, Put(m, m.carry, s, m.dec, <<>>))
            /\ Put(p, s, m.tcarry, m.dec, <<>>) = After(a, Put(m, s, m.tcarry, m.dec, <<>>))
        BY <1>1, <1>2, <2>2, AfterPut
      <3> QED BY <1>3, <2>3, <3>1 DEF Rest
    <2>6. DrainSourcetable(m) = PushSourcetableLine(n, Line(buf))
      BY <1>4, <1>6, <2>1, <2>3, DrainTableCases
    <2>7. DrainSourcetable(p) = PushSourcetableLine(Rest(p, s), Line(buf))
      BY <1>3, <1>5, <1>6, <2>1, DrainTableCases
    <2>8. PushSourcetableLine(After(a, n), Line(buf)) = After(a, PushSourcetableLine(n, Line(buf)))
      BY <2>2, <2>4, AfterLineOf
    <2> QED BY <1>2, <2>5, <2>6, <2>7, <2>8
  <1>7. CASE ~ HasLine(buf) /\ Len(buf) > MaxLine
    <2>1. DrainSourcetable(m) = Wait(Reject(m)) BY <1>4, <1>7, DrainTableCases
    <2>2. DrainSourcetable(p) = Wait(Reject(p)) BY <1>3, <1>5, <1>7, DrainTableCases
    <2>3. Reject(p) = After(a, Reject(m)) BY <1>1, <1>2, EndEvents, AfterClose DEF Reject
    <2>4. Reject(m) \in MachineType BY <1>1, EmptyBytes, EndEvents, PutClose DEF Reject
    <2> QED BY <1>2, <2>1, <2>2, <2>3, <2>4, AfterWait
  <1>8. CASE ~ HasLine(buf) /\ ~ (Len(buf) > MaxLine) /\ ~ (m.tchunked /\ m.dec.finished)
    <2>1. DrainSourcetable(m) = Wait(m) BY <1>4, <1>8, DrainTableCases
    <2>2. DrainSourcetable(p) = Wait(p) BY <1>3, <1>5, <1>8, DrainTableCases
    <2> QED BY <1>1, <1>2, <2>1, <2>2, AfterWait
  <1>9. CASE ~ HasLine(buf) /\ ~ (Len(buf) > MaxLine) /\ m.tchunked /\ m.dec.finished
    <2>1. DrainSourcetable(m) = FlushSourcetable(Wait(m)) BY <1>4, <1>9, DrainTableCases
    <2>2. DrainSourcetable(p) = FlushSourcetable(Wait(p)) BY <1>3, <1>5, <1>9, DrainTableCases
    <2>3. Wait(p) = After(a, Wait(m)) BY <1>1, <1>2, AfterWait
    <2>4. MachineOK(Wait(m)) /\ Wait(m).st = "Sourcetable" BY WaitFacts
    <2> QED BY <1>2, <2>1, <2>2, <2>3, <2>4, AfterFlush
  <1> QED BY <1>6, <1>7, <1>8, <1>9

(* Nor does drain_sourcetable.                                              *)
LEMMA AfterTable ==
    ASSUME NEW m, MachineOK(m), m.go, m.st = "Sourcetable", NEW a \in Seq(Events)
    PROVE  DrainSourcetable(After(a, m)) = After(a, DrainSourcetable(m))
  <1>1. m \in MachineType /\ m.carry \in Bytes /\ m.tcarry \in Bytes /\ m.dec \in DecoderType
    BY DEF MachineOK, MachineType
  <1>2. CASE m.tchunked => m.carry = <<>> BY <1>2, AfterTableLine
  <1>3. CASE m.tchunked /\ m.carry # <<>>
    <2>1. PICK p : p = After(a, m) OBVIOUS
    <2>2. /\ MachineOK(p) /\ p.go /\ p.st = "Sourcetable" /\ p.tchunked
          /\ p.carry = m.carry /\ p.tcarry = m.tcarry /\ p.dec = m.dec
      BY <1>1, <1>3, <2>1, AfterFacts, AfterIsOK
    <2>3. PICK d : d = Decode(m.dec, m.carry) OBVIOUS
    <2>4. PICK n : n = Tabled(m, d) OBVIOUS
    <2>5. /\ DecoderInv(d) /\ ~ d.more /\ MachineOK(n)
          /\ d.poison => DrainSourcetable(m) = Close(n, "StreamCorrupted", <<>>)
          /\ ~ d.poison => DrainSourcetable(m) = DrainSourcetable(n)
      BY <1>3, <2>3, <2>4, DecodeTableCases
    <2>6. PICK q : q = Tabled(p, d) OBVIOUS
    <2>7. /\ d.poison => DrainSourcetable(p) = Close(q, "StreamCorrupted", <<>>)
          /\ ~ d.poison => DrainSourcetable(p) = DrainSourcetable(q)
      BY <1>3, <2>2, <2>3, <2>6, DecodeTableCases
    <2>8. /\ n = Put(m, <<>>, m.tcarry \o d.out, Taken(d), <<>>)
          /\ n.go = m.go /\ n.st = m.st /\ n.carry = <<>> /\ m.tcarry \o d.out \in Bytes
      BY <2>4, <2>5, TabledIs
    <2>9. q = Put(p, <<>>, m.tcarry \o d.out, Taken(d), <<>>)
      <3>1. q = Put(p, <<>>, p.tcarry \o d.out, Taken(d), <<>>)
        BY <2>2, <2>5, <2>6, TabledIs, ZenonT(60)
      <3> QED BY <2>2, <3>1
    <2>10. Taken(d) \in DecoderType BY <2>5, TakenType DEF DecoderInv
    <2>11. q = After(a, n) /\ n \in MachineType
      BY <1>1, <2>1, <2>8, <2>9, <2>10, EmptyBytes, AfterPut
    <2>12. CASE d.poison
      BY <2>1, <2>5, <2>7, <2>11, <2>12, EndEvents, AfterClose
    <2>13. CASE ~ d.poison
      <3>1. DrainSourcetable(q) = After(a, DrainSourcetable(n))
        BY <2>5, <2>8, <2>11, AfterTableLine
      <3> QED BY <2>1, <2>5, <2>7, <2>13, <3>1
    <2> QED BY <2>12, <2>13
  <1> QED BY <1>2, <1>3

(* A round of push does not look at the events there are.                   *)
LEMMA AfterIter ==
    ASSUME NEW m, MachineOK(m), NEW a \in Seq(Events)
    PROVE  PushIter(After(a, m)) = After(a, PushIter(m))
  <1>1. m \in MachineType /\ m.st \in States BY DEF MachineOK, MachineType
  <1>2. PICK p : p = After(a, m) OBVIOUS
  <1>3. p.go = m.go /\ p.st = m.st /\ m.go \in BOOLEAN
    BY <1>1, <1>2, AfterFacts DEF MachineType
  <1>4. CASE ~ m.go BY <1>2, <1>3, <1>4 DEF PushIter
  <1>5. CASE m.go /\ m.st = "Idle"
    <2>1. /\ PushIter(m) = ToState(m, "AwaitingStatus")
          /\ PushIter(p) = ToState(p, "AwaitingStatus")
      BY <1>3, <1>5 DEF PushIter, ToState
    <2>2. \A s \in States : ToState(p, s) = After(a, ToState(m, s))
      BY <1>1, <1>2, AfterState
    <2>3. "AwaitingStatus" \in States BY DEF States
    <2> QED BY <1>2, <2>1, <2>2, <2>3
  <1>6. CASE m.go /\ m.st = "AwaitingStatus"
    <2>1. PushIter(m) = ParseStatus(m) /\ PushIter(p) = ParseStatus(p)
      BY <1>3, <1>6 DEF PushIter
    <2> QED BY <1>2, <1>6, <2>1, AfterStatus
  <1>7. CASE m.go /\ m.st = "AwaitingHeaders"
    <2>1. PushIter(m) = ParseHeaders(m) /\ PushIter(p) = ParseHeaders(p)
      BY <1>3, <1>7 DEF PushIter
    <2> QED BY <1>2, <1>7, <2>1, AfterHeaders
  <1>8. CASE m.go /\ m.st = "Streaming"
    <2>1. PushIter(m) = DrainPayload(m) /\ PushIter(p) = DrainPayload(p)
      BY <1>3, <1>8 DEF PushIter
    <2> QED BY <1>2, <2>1, AfterDrainPayload
  <1>9. CASE m.go /\ m.st = "Sourcetable"
    <2>1. PushIter(m) = DrainSourcetable(m) /\ PushIter(p) = DrainSourcetable(p)
      BY <1>3, <1>9 DEF PushIter
    <2> QED BY <1>2, <1>9, <2>1, AfterTable
  <1>10. CASE m.go /\ m.st = "Closed"
    <2>1. PushIter(m) = Wait(m) /\ PushIter(p) = Wait(p) BY <1>3, <1>10 DEF PushIter
    <2> QED BY <1>1, <1>2, <2>1, AfterWait
  <1> QED BY <1>1, <1>3, <1>4, <1>5, <1>6, <1>7, <1>8, <1>9, <1>10 DEF States

(* The result of a push, with events before.                                *)
LEMMA PushesAfter ==
    ASSUME NEW m, MachineOK(m), NEW a \in Seq(Events), NEW e, PushesTo(m, e)
    PROVE  PushesTo(After(a, m), After(a, e))
  <1> DEFINE S == {x \in MachineType : MachineOK(x) /\
                     \A Z : PushesTo(After(a, x), Z) => PushesTo(After(a, m), Z)}
  <1>1. m \in S BY DEF MachineOK
  <1>2. \A x \in S : PushIter(x) \in S
    <2> SUFFICES ASSUME NEW x \in S PROVE PushIter(x) \in S
      OBVIOUS
    <2>1. MachineOK(PushIter(x))
      <3>1. CASE x.go BY <3>1, PushIterIsRound DEF RoundOK
      <3>2. CASE ~ x.go BY <3>2 DEF PushIter
      <3> QED BY <3>1, <3>2
    <2>2. PushIter(After(a, x)) = After(a, PushIter(x)) BY AfterIter
    <2>3. \A Z : PushesTo(After(a, PushIter(x)), Z) => PushesTo(After(a, x), Z)
      BY <2>2, PushesBack
    <2> QED BY <2>1, <2>3 DEF MachineOK
  <1>3. e \in S
    <2> HIDE DEF S
    <2> QED BY <1>1, <1>2, PushesWithin
  <1>4. ~ e.go BY DEF PushesTo
  <1>5. ~ After(a, e).go BY <1>3, <1>4, AfterFacts
  <1> QED BY <1>3, <1>5, PushesStopped
=============================================================================
