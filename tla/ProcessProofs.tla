--------------------------- MODULE ProcessProofs ---------------------------
(* Machine-checked proofs about the machines inside single processes: the     *)
(* byte streams of SessionStream, for heads and bodies of any length, any     *)
(* number of frames, senders and messages and any queue limit; LogicSystem's  *)
(* queue in ChatProcess, for any number of clients and messages; the gate's   *)
(* HttpServer, for any number of connections and io threads.                  *)
EXTENDS MCProcess, FiniteSetTheorems, SequenceTheorems, TLAPS

-----------------------------------------------------------------------------
(* Induction over the naturals, for a set of them: by the well-founded order  *)
(* of the intervals 0 .. n under inclusion.                                   *)
LEMMA SetInduction ==
  ASSUME NEW S, 0 \in S, \A n \in Nat : n \in S => n + 1 \in S
  PROVE  Nat \subseteq S
<1> DEFINE Bad == {U \in FiniteSubsetsOf(Nat) : \E n \in Nat \ S : U = 0 .. n}
<1>1. ASSUME NEW n \in Nat PROVE 0 .. n \in FiniteSubsetsOf(Nat)
  BY FS_Interval DEF FiniteSubsetsOf
<1>2. ASSUME Bad # {} PROVE FALSE
  <2>1. PICK U \in Bad :
          \A V \in Bad : ~(<<V, U>> \in StrictSubsetOrdering(Nat))
    <3>1. Bad \subseteq FiniteSubsetsOf(Nat)
      OBVIOUS
    <3> HIDE DEF Bad
    <3> QED
      BY <1>2, <3>1, FS_StrictSubsetOrderingWellFounded, WFMin
  <2>2. PICK n \in Nat \ S : U = 0 .. n
    BY <2>1
  <2>3. n # 0 /\ n - 1 \in Nat /\ (n - 1) + 1 = n
    BY <2>2
  <2>4. n - 1 \notin S
    BY <2>2, <2>3
  <2>5. 0 .. (n - 1) \in Bad
    BY <1>1, <2>3, <2>4
  <2>6. 0 .. (n - 1) \subseteq U /\ 0 .. (n - 1) # U
    <3>1. n \in U /\ n \notin 0 .. (n - 1)
      BY <2>2, <2>3
    <3> QED
      BY <2>2, <2>3, <3>1
  <2>7. <<0 .. (n - 1), U>> \in StrictSubsetOrdering(Nat)
    BY <2>1, <2>5, <2>6 DEF StrictSubsetOrdering
  <2> QED
    BY <2>1, <2>5, <2>7
<1>3. ASSUME NEW n \in Nat PROVE n \in S
  BY <1>1, <1>2
<1> QED
  BY <1>3

-----------------------------------------------------------------------------
(* Where the frames end.                                                      *)
EndUpTo(f, n) ==
  f = [i \in 0 .. n |-> IF i = 0 THEN 0 ELSE f[i - 1] + HeadLen + lens[i]]

LEMMA EndDefined ==
  ASSUME lens \in [1 .. Frames -> BodyLens]
  PROVE  EndUpTo(End, Frames)
<1> DEFINE S == {n \in Nat : n <= Frames => \E f : EndUpTo(f, n)}
<1>1. 0 \in S
  <2>1. EndUpTo([i \in 0 .. 0 |-> 0], 0)
    BY DEF EndUpTo
  <2> QED
    BY <2>1
<1>2. ASSUME NEW n \in Nat, n \in S PROVE n + 1 \in S
  <2>1. SUFFICES ASSUME n + 1 <= Frames PROVE \E f : EndUpTo(f, n + 1)
    OBVIOUS
  <2>2. n <= Frames
    BY <2>1, StreamAssumption
  <2>3. PICK f : EndUpTo(f, n)
    BY <1>2, <2>2
  <2> DEFINE g == [i \in 0 .. n + 1 |->
                     IF i = n + 1 THEN f[n] + HeadLen + lens[n + 1] ELSE f[i]]
  <2>4. ASSUME NEW i \in 0 .. n + 1
        PROVE  g[i] = IF i = 0 THEN 0 ELSE g[i - 1] + HeadLen + lens[i]
    <3>1. CASE i = n + 1
      BY <3>1
    <3>2. CASE i # n + 1
      <4>1. i \in 0 .. n /\ g[i] = f[i]
        BY <3>2
      <4>2. f[i] = IF i = 0 THEN 0 ELSE f[i - 1] + HeadLen + lens[i]
        BY <2>3, <4>1 DEF EndUpTo
      <4>3. i # 0 => g[i - 1] = f[i - 1]
        BY <4>1
      <4> QED
        BY <4>1, <4>2, <4>3
    <3> QED
      BY <3>1, <3>2
  <2>5. EndUpTo(g, n + 1)
    BY <2>4 DEF EndUpTo
  <2> QED
    BY <2>5
<1>3. Frames \in S
  <2> HIDE DEF S
  <2> QED
    BY <1>1, <1>2, SetInduction, StreamAssumption
<1>4. \E f : EndUpTo(f, Frames)
  BY <1>3, StreamAssumption
<1> QED
  BY <1>4 DEF End, EndUpTo

LEMMA Ends ==
  ASSUME lens \in [1 .. Frames -> BodyLens]
  PROVE  /\ End \in [0 .. Frames -> Nat]
         /\ End[0] = 0
         /\ \A i \in 1 .. Frames :
              lens[i] \in Nat /\ End[i] = End[i - 1] + HeadLen + lens[i]
         /\ \A i, j \in 0 .. Frames : i < j => End[i] < End[j]
<1>1. /\ End = [i \in 0 .. Frames |->
                  IF i = 0 THEN 0 ELSE End[i - 1] + HeadLen + lens[i]]
  BY EndDefined DEF EndUpTo
<1>2. /\ End[0] = 0
      /\ \A i \in 1 .. Frames :
           lens[i] \in Nat /\ End[i] = End[i - 1] + HeadLen + lens[i]
  <2>1. 0 \in 0 .. Frames /\ \A i \in 1 .. Frames : i \in 0 .. Frames /\ i # 0
    BY StreamAssumption
  <2>2. End[0] = 0
    BY <1>1, <2>1
  <2>3. ASSUME NEW i \in 1 .. Frames
        PROVE  lens[i] \in Nat /\ End[i] = End[i - 1] + HeadLen + lens[i]
    BY <1>1, <2>1, StreamAssumption
  <2> QED
    BY <2>2, <2>3
<1> DEFINE S == {n \in Nat : n <= Frames =>
                   \A i \in 0 .. n :
                     End[i] \in Nat /\ (i < n => End[i] < End[n])}
<1> HIDE DEF End
<1>3. 0 \in S
  BY <1>2
<1>4. ASSUME NEW n \in Nat, n \in S PROVE n + 1 \in S
  <2>1. SUFFICES ASSUME n + 1 <= Frames
                 PROVE  \A i \in 0 .. n + 1 :
                          End[i] \in Nat /\ (i < n + 1 => End[i] < End[n + 1])
    OBVIOUS
  <2>2. \A i \in 0 .. n : End[i] \in Nat /\ (i < n => End[i] < End[n])
    BY <1>4, <2>1, StreamAssumption
  <2>3. /\ n + 1 \in 1 .. Frames /\ (n + 1) - 1 = n
        /\ lens[n + 1] \in Nat /\ End[n + 1] = End[n] + HeadLen + lens[n + 1]
    <3>1. n + 1 \in 1 .. Frames /\ (n + 1) - 1 = n
      BY <2>1, StreamAssumption
    <3> QED
      BY <1>2, <3>1
  <2>4. End[n + 1] \in Nat /\ End[n] < End[n + 1]
    BY <2>2, <2>3, StreamAssumption
  <2>5. ASSUME NEW i \in 0 .. n + 1
        PROVE  End[i] \in Nat /\ (i < n + 1 => End[i] < End[n + 1])
    <3>1. CASE i = n \/ i = n + 1
      BY <2>2, <2>4, <3>1
    <3>2. CASE i < n
      <4>1. i \in 0 .. n /\ n \in 0 .. n
        BY <3>2
      <4>2. End[i] \in Nat /\ End[n] \in Nat /\ End[i] < End[n]
        BY <2>2, <3>2, <4>1
      <4> QED
        BY <2>4, <4>2
    <3> QED
      BY <3>1, <3>2
  <2> QED
    BY <2>4, <2>5
<1>5. \A n \in Nat : n \in S
  <2> HIDE DEF S
  <2> QED
    BY <1>3, <1>4, SetInduction
<1>6. \A n \in 0 .. Frames :
        \A i \in 0 .. n : End[i] \in Nat /\ (i < n => End[i] < End[n])
  BY <1>5, StreamAssumption
<1>7. End \in [0 .. Frames -> Nat]
  BY <1>1, <1>6
<1>8. \A i, j \in 0 .. Frames : i < j => End[i] < End[j]
  BY <1>6
<1> QED
  BY <1>2, <1>7, <1>8

-----------------------------------------------------------------------------
(* Reading.                                                                   *)
LEMMA BytesJoin ==
  ASSUME NEW a \in Nat, NEW b \in Nat, NEW c \in Nat, a <= b, b <= c
  PROVE  /\ Bytes(a, b) \in Seq(Nat) /\ Len(Bytes(a, b)) = b - a
         /\ Bytes(a, b) \o Bytes(b, c) = Bytes(a, c)
<1>1. \A x, y \in Nat : x <= y =>
        /\ Bytes(x, y) \in [1 .. y - x -> Nat]
        /\ Bytes(x, y) \in Seq(Nat) /\ Len(Bytes(x, y)) = y - x
        /\ \A j \in 1 .. y - x : Bytes(x, y)[j] = x + j
  <2>1. ASSUME NEW x \in Nat, NEW y \in Nat, x <= y
        PROVE  /\ Bytes(x, y) \in [1 .. y - x -> Nat]
               /\ Bytes(x, y) \in Seq(Nat) /\ Len(Bytes(x, y)) = y - x
               /\ \A j \in 1 .. y - x : Bytes(x, y)[j] = x + j
    <3>1. y - x \in Nat /\ \A j \in 1 .. y - x : x + j \in Nat
      BY <2>1
    <3> QED
      BY <3>1 DEF Bytes
  <2> QED
    BY <2>1
<1> DEFINE l == Bytes(a, b)
<1> DEFINE r == Bytes(b, c)
<1>2. /\ l \in Seq(Nat) /\ Len(l) = b - a /\ \A j \in 1 .. b - a : l[j] = a + j
      /\ r \in Seq(Nat) /\ Len(r) = c - b /\ \A j \in 1 .. c - b : r[j] = b + j
      /\ Bytes(a, c) \in Seq(Nat) /\ Len(Bytes(a, c)) = c - a
      /\ \A j \in 1 .. c - a : Bytes(a, c)[j] = a + j
  <2>1. a <= c
    OBVIOUS
  <2>2. /\ Bytes(a, b) \in Seq(Nat) /\ Len(Bytes(a, b)) = b - a
        /\ \A j \in 1 .. b - a : Bytes(a, b)[j] = a + j
    BY <1>1
  <2>3. /\ Bytes(b, c) \in Seq(Nat) /\ Len(Bytes(b, c)) = c - b
        /\ \A j \in 1 .. c - b : Bytes(b, c)[j] = b + j
    BY <1>1
  <2>4. /\ Bytes(a, c) \in Seq(Nat) /\ Len(Bytes(a, c)) = c - a
        /\ \A j \in 1 .. c - a : Bytes(a, c)[j] = a + j
    BY <1>1, <2>1
  <2> QED
    BY <2>2, <2>3, <2>4
<1>3. l \o r \in Seq(Nat) /\ Len(l \o r) = c - a
  <2> HIDE DEF l, r
  <2>1. l \o r \in Seq(Nat) /\ Len(l \o r) = Len(l) + Len(r)
    BY <1>2, ConcatProperties
  <2> QED
    BY <1>2, <2>1
<1>4. ASSUME NEW j \in 1 .. c - a PROVE (l \o r)[j] = a + j
  <2>1. CASE j <= b - a
    <3> HIDE DEF l, r
    <3> QED
      BY <1>2, <2>1
  <2>2. CASE ~(j <= b - a)
    <3>1. j - (b - a) \in 1 .. c - b
      BY <2>2
    <3> HIDE DEF l, r
    <3>2. (l \o r)[j] = r[j - (b - a)]
      <4>1. j \in 1 .. Len(l) + Len(r) /\ ~(j <= Len(l))
        BY <1>2, <2>2
      <4>2. (l \o r)[j] = r[j - Len(l)]
        BY <1>2, <4>1, ConcatProperties
      <4> QED
        BY <1>2, <4>2
    <3> QED
      BY <1>2, <3>1, <3>2
  <2> QED
    BY <2>1, <2>2
<1>5. l \o r = Bytes(a, c)
  <2> DEFINE w == Bytes(a, c)
  <2> HIDE DEF l, r, w
  <2>1. l \o r \in Seq(Nat) /\ w \in Seq(Nat) /\ Len(l \o r) = Len(w)
        /\ \A j \in 1 .. Len(w) : (l \o r)[j] = w[j]
    BY <1>2, <1>3, <1>4 DEF w
  <2>2. l \o r = w
    BY <2>1, SeqEqual
  <2> QED
    BY <2>2 DEF w
<1> QED
  BY <1>2, <1>5

LEMMA NoBytes == ASSUME NEW a \in Nat PROVE Bytes(a, a) = <<>>
<1>0. a <= a
  OBVIOUS
<1>1. Bytes(a, a) \in Seq(Nat) /\ Len(Bytes(a, a)) = a - a
  BY <1>0, BytesJoin
<1> DEFINE w == Bytes(a, a)
<1>2. w \in Seq(Nat) /\ Len(w) = 0
  BY <1>1
<1> HIDE DEF w
<1>3. w = <<>>
  BY <1>2, EmptySeq
<1> QED
  BY <1>3 DEF w

(* A head is recognised by its place.                                         *)
LEMMA LengthOfHead ==
  ASSUME lens \in [1 .. Frames -> BodyLens], NEW k \in 1 .. Frames
  PROVE  LengthIn(HeadOf(k)) = lens[k]
<1>1. ASSUME NEW i \in 1 .. Frames PROVE HeadOf(i)[1] = End[i - 1] + 1
  <2>1. i - 1 \in 0 .. Frames /\ End[i - 1] \in Nat
    <3>1. i - 1 \in 0 .. Frames
      BY StreamAssumption
    <3> QED
      BY <3>1, Ends
  <2>2. (End[i - 1] + HeadLen) - End[i - 1] = HeadLen /\ 1 \in 1 .. HeadLen
    BY <2>1, StreamAssumption
  <2> HIDE DEF End
  <2> QED
    BY <2>2 DEF HeadOf, Bytes
<1>2. ASSUME NEW i \in 1 .. Frames, HeadOf(k) = HeadOf(i) PROVE i = k
  <2>1. End[i - 1] + 1 = End[k - 1] + 1
    BY <1>1, <1>2
  <2>2. i - 1 \in 0 .. Frames /\ k - 1 \in 0 .. Frames
    BY StreamAssumption
  <2>3. /\ End[i - 1] \in Nat /\ End[k - 1] \in Nat
        /\ i - 1 < k - 1 => End[i - 1] < End[k - 1]
        /\ k - 1 < i - 1 => End[k - 1] < End[i - 1]
    BY <2>2, Ends
  <2> HIDE DEF End
  <2> QED
    BY <2>1, <2>2, <2>3
<1>3. lens[k] \in BodyLens
      /\ \A i \in 1 .. Frames : HeadOf(k) = HeadOf(i) => lens[k] = lens[i]
  BY <1>2
<1> DEFINE h == HeadOf(k)
<1> HIDE DEF h
<1>4. \A m \in BodyLens :
        (\A i \in 1 .. Frames : h = HeadOf(i) => m = lens[i]) => m = lens[k]
  BY DEF h
<1>5. LengthIn(h) = lens[k]
  BY <1>3, <1>4 DEF LengthIn, h
<1> QED
  BY <1>5 DEF h

\* What has been read of the frame under way is its beginning, and the read asks
\* for the rest of the part it is in.
RxInv ==
  /\ lens \in [1 .. Frames -> BodyLens]
  /\ arrived \in 0 .. End[Frames] /\ taken \in 0 .. arrived
  /\ phase \in {"head", "body", "over"}
  /\ listed \in BOOLEAN /\ open \in BOOLEAN
  /\ posted \in Seq(Seq(Nat)) /\ Len(posted) <= Frames
  /\ want \in {HeadLen} \cup BodyLens
  /\ data \in Seq(Nat) /\ Len(data) <= want
  /\ phase # "over" => Len(data) <= taken /\ data = Bytes(taken - Len(data), taken)
  /\ phase = "head" => want = HeadLen
  /\ phase = "body" => Len(posted) < Frames /\ want = lens[Len(posted) + 1]
  /\ FramesIntact

LEMMA RxTypes ==
  ASSUME RxInv
  PROVE  /\ End \in [0 .. Frames -> Nat] /\ End[Frames] \in Nat
         /\ arrived \in Nat /\ taken \in Nat /\ taken <= arrived
         /\ want \in Nat /\ Len(data) \in Nat /\ Len(posted) \in 0 .. Frames
         /\ End[Len(posted)] \in Nat
<1>1. /\ End \in [0 .. Frames -> Nat] /\ Frames \in 0 .. Frames
      /\ Len(posted) \in 0 .. Frames
  BY Ends, StreamAssumption DEF RxInv
<1>2. End[Frames] \in Nat /\ End[Len(posted)] \in Nat
  BY <1>1
<1> HIDE DEF End
<1> QED
  BY <1>1, <1>2, StreamAssumption DEF RxInv

(* A completed read is a piece of the frame under way, in its place.          *)
LEMMA Piece ==
  ASSUME RxInv, NEW n, ReadSome(n)
  PROVE  /\ n \in Nat /\ Len(data) + n <= want
         /\ taken' = taken + n /\ taken + n <= arrived
         /\ UNCHANGED <<lens, arrived>>
         /\ data \o Chunk(n) = Bytes(taken - Len(data), taken + n)
         /\ data \o Chunk(n) \in Seq(Nat)
         /\ Len(data \o Chunk(n)) = Len(data) + n
<1>1. /\ taken \in Nat /\ want \in Nat /\ Len(data) \in Nat /\ Len(data) <= want
      /\ Len(data) <= taken /\ data = Bytes(taken - Len(data), taken)
  BY RxTypes DEF RxInv, ReadSome
<1>2. n \in Nat /\ Len(data) + n <= want
  BY <1>1 DEF ReadSome, Missing
<1>3. taken' = taken + n /\ taken + n <= arrived /\ UNCHANGED <<lens, arrived>>
  BY DEF ReadSome
<1> DEFINE from == taken - Len(data)
<1>4. from \in Nat /\ from <= taken /\ taken + n \in Nat /\ taken <= taken + n
  BY <1>1, <1>2
<1>5. /\ Bytes(from, taken) \o Bytes(taken, taken + n) = Bytes(from, taken + n)
      /\ Bytes(from, taken + n) \in Seq(Nat)
      /\ Len(Bytes(from, taken + n)) = (taken + n) - from
  <2>1. from <= taken + n
    BY <1>1, <1>2
  <2> HIDE DEF from
  <2>2. Bytes(from, taken) \o Bytes(taken, taken + n) = Bytes(from, taken + n)
    BY <1>1, <1>4, BytesJoin
  <2>3. taken + n <= taken + n
    BY <1>4
  <2>4. /\ Bytes(from, taken + n) \in Seq(Nat)
        /\ Len(Bytes(from, taken + n)) = (taken + n) - from
    BY <1>4, <2>1, <2>3, BytesJoin
  <2> QED
    BY <2>2, <2>4
<1>6. (taken + n) - from = Len(data) + n
  BY <1>1, <1>2
<1>7. data \o Chunk(n) = Bytes(from, taken + n)
  BY <1>1, <1>5 DEF Chunk
<1> QED
  BY <1>2, <1>3, <1>5, <1>6, <1>7

LEMMA FramesStay ==
  ASSUME lens' = lens
  PROVE  End' = End /\ \A i : BodyOf(i)' = BodyOf(i)
<1>1. End' = End
  BY DEF End
<1> HIDE DEF End
<1> QED
  BY <1>1 DEF BodyOf, Bytes

LEMMA InitRx == Init => RxInv
<1> SUFFICES ASSUME Init PROVE RxInv
  OBVIOUS
<1>1. /\ lens \in [1 .. Frames -> BodyLens] /\ arrived = 0 /\ taken = 0
      /\ phase = "head" /\ want = HeadLen /\ data = <<>> /\ posted = <<>>
      /\ listed = TRUE /\ open = TRUE
  BY DEF Init
<1>2. End[0] = 0 /\ End[Frames] \in Nat
  <2>1. Frames \in 0 .. Frames
    BY StreamAssumption
  <2> QED
    BY <1>1, <2>1, Ends
<1>3. Len(posted) = 0 /\ Len(data) = 0 /\ posted \in Seq(Seq(Nat)) /\ data \in Seq(Nat)
  BY <1>1
<1>4. data = Bytes(taken - Len(data), taken)
  <2>1. Bytes(0, 0) = <<>>
    BY NoBytes
  <2>2. taken = 0 /\ Len(data) = 0
    BY <1>1, <1>3
  <2>3. taken - Len(data) = 0
    BY <2>2
  <2> QED
    BY <1>1, <2>1, <2>2, <2>3
<1>5. posted = [i \in 1 .. Len(posted) |-> BodyOf(i)]
  <2>1. [i \in 1 .. 0 |-> BodyOf(i)] = <<>>
    BY EmptySeq
  <2> QED
    BY <1>1, <1>3, <2>1
<1> HIDE DEF End
<1> QED
  BY <1>1, <1>2, <1>3, <1>4, <1>5, StreamAssumption DEF RxInv, FramesIntact

LEMMA NextRx == RxInv /\ [Next]_vars => RxInv'
<1> SUFFICES ASSUME RxInv, [Next]_vars PROVE RxInv'
  OBVIOUS
<1>0. /\ End \in [0 .. Frames -> Nat] /\ End[Frames] \in Nat
      /\ arrived \in Nat /\ taken \in Nat /\ taken <= arrived
      /\ want \in Nat /\ Len(data) \in Nat /\ Len(posted) \in 0 .. Frames
      /\ End[Len(posted)] \in Nat
  BY RxTypes
<1>1. CASE UNCHANGED rxVars /\ listed' \in BOOLEAN /\ open' \in BOOLEAN
  <2>1. UNCHANGED <<lens, arrived, taken, phase, want, data, posted>>
    BY <1>1 DEF rxVars
  <2>2. End' = End /\ \A i : BodyOf(i)' = BodyOf(i)
    BY <2>1, FramesStay
  <2> HIDE DEF End
  <2>3. FramesIntact'
    BY <2>1, <2>2 DEF RxInv, FramesIntact
  <2> QED
    BY <1>1, <2>1, <2>2, <2>3 DEF RxInv, Bytes
<1>2. CASE Arrive
  <2>1. /\ arrived' = arrived + 1 /\ arrived < End[Frames]
        /\ UNCHANGED <<lens, taken, phase, want, data, posted, listed, open>>
    BY <1>2 DEF Arrive
  <2>2. End' = End /\ \A i : BodyOf(i)' = BodyOf(i)
    BY <2>1, FramesStay
  <2> HIDE DEF End
  <2>3. FramesIntact'
    BY <2>1, <2>2 DEF RxInv, FramesIntact
  <2>4. arrived' \in 0 .. End[Frames] /\ taken' \in 0 .. arrived'
    BY <1>0, <2>1 DEF RxInv
  <2> QED
    BY <2>1, <2>2, <2>3, <2>4 DEF RxInv, Bytes
<1>3. ASSUME NEW n, ReadPart(n) PROVE RxInv'
  <2>1. /\ n \in Nat /\ Len(data) + n < want /\ phase # "over"
        /\ taken' = taken + n /\ taken + n <= arrived
        /\ data' = Bytes(taken - Len(data), taken + n)
        /\ data' \in Seq(Nat) /\ Len(data') = Len(data) + n
        /\ UNCHANGED <<lens, arrived, phase, want, posted, listed, open>>
    BY <1>3, Piece DEF ReadPart, ReadSome
  <2>2. End' = End /\ \A i : BodyOf(i)' = BodyOf(i)
    BY <2>1, FramesStay
  <2> HIDE DEF End
  <2>3. taken' - Len(data') = taken - Len(data) /\ taken' \in 0 .. arrived
        /\ Len(data') <= taken' /\ Len(data') <= want
    BY <1>0, <2>1 DEF RxInv
  <2>4. data' = Bytes(taken' - Len(data'), taken')
    BY <2>1, <2>3
  <2>5. FramesIntact'
    <3>1. taken' = End'[Len(posted')]
                   + (IF phase' = "body" THEN HeadLen ELSE 0) + Len(data')
      <4>1. taken = End[Len(posted)] + (IF phase = "body" THEN HeadLen ELSE 0)
                    + Len(data)
        BY <2>1 DEF RxInv, FramesIntact
      <4> DEFINE h == IF phase = "body" THEN HeadLen ELSE 0
      <4>2. h \in Nat /\ End'[Len(posted')] = End[Len(posted)]
        BY <2>1, <2>2, StreamAssumption
      <4>3. taken = End[Len(posted)] + h + Len(data)
        BY <4>1
      <4>4. taken' = End[Len(posted)] + h + Len(data')
        <5> DEFINE e == End[Len(posted)]
        <5>1. e \in Nat /\ taken = e + h + Len(data)
          BY <1>0, <4>3
        <5>2. taken' = taken + n /\ Len(data') = Len(data) + n /\ n \in Nat
              /\ Len(data) \in Nat
          BY <1>0, <2>1
        <5> HIDE DEF h, e
        <5>3. taken' = e + h + Len(data')
          BY <4>2, <5>1, <5>2
        <5> QED
          BY <5>3 DEF e
      <4> QED
        BY <2>1, <4>2, <4>4
    <3>2. posted' = [i \in 1 .. Len(posted') |-> BodyOf(i)']
      BY <2>1, <2>2 DEF RxInv, FramesIntact
    <3> QED
      BY <3>1, <3>2 DEF FramesIntact
  <2> QED
    BY <2>1, <2>2, <2>3, <2>4, <2>5 DEF RxInv, Bytes
<1>4. ASSUME NEW n, HeadRead(n) PROVE RxInv'
  <2> DEFINE p == Len(posted)
  <2>1. /\ n \in Nat /\ Len(data) + n = want /\ phase = "head" /\ want = HeadLen
        /\ taken' = taken + n /\ taken + n <= arrived
        /\ data \o Chunk(n) = Bytes(taken - Len(data), taken + n)
        /\ UNCHANGED <<lens, arrived, posted, listed, open>>
        /\ phase' = "body" /\ data' = <<>>
        /\ want' = LengthIn(data \o Chunk(n))
    <3>1. n \in Nat /\ Len(data) + n <= want /\ Len(data) + n >= want
      BY <1>4, Piece DEF HeadRead
    <3>2. Len(data) + n = want
      BY <1>0, <3>1
    <3> QED
      BY <1>4, <3>2, Piece DEF HeadRead, RxInv
  <2>2. End' = End /\ \A i : BodyOf(i)' = BodyOf(i)
    BY <2>1, FramesStay
  <2>3. p \in 0 .. Frames /\ End[p] \in Nat /\ End[Frames] \in Nat
    BY <1>0
  <2>4. taken = End[p] + Len(data)
    <3> HIDE DEF End
    <3>1. taken = End[p] + 0 + Len(data)
      BY <2>1 DEF RxInv, FramesIntact
    <3> QED
      BY <1>0, <2>3, <3>1
  <2>5. taken - Len(data) = End[p] /\ taken + n = End[p] + HeadLen
    <3> HIDE DEF End
    <3> QED
      BY <1>0, <2>1, <2>3, <2>4
  <2>6. p < Frames
    <3>1. End[p] + HeadLen <= End[Frames]
      <4> HIDE DEF End
      <4> QED
        BY <1>0, <2>1, <2>3, <2>5 DEF RxInv
    <3>2. p # Frames
      <4> HIDE DEF End
      <4> QED
        BY <2>3, <3>1, StreamAssumption
    <3> QED
      BY <2>3, <3>2, StreamAssumption
  <2>7. p + 1 \in 1 .. Frames /\ (p + 1) - 1 = p
    BY <2>3, <2>6, StreamAssumption
  <2>8. want' = lens[p + 1]
    <3>1. data \o Chunk(n) = HeadOf(p + 1)
      BY <2>1, <2>5, <2>7 DEF HeadOf
    <3> QED
      BY <2>1, <2>7, <3>1, LengthOfHead DEF RxInv
  <2>9. want' \in BodyLens /\ want' \in Nat
    BY <2>7, <2>8, StreamAssumption DEF RxInv
  <2> HIDE DEF End
  <2>10. FramesIntact'
    <3>1. taken' = End'[Len(posted')] + HeadLen + Len(data')
      BY <2>1, <2>2, <2>3, <2>5, StreamAssumption
    <3>2. posted' = [i \in 1 .. Len(posted') |-> BodyOf(i)']
      BY <2>1, <2>2 DEF RxInv, FramesIntact
    <3> QED
      BY <2>1, <3>1, <3>2 DEF FramesIntact
  <2>11. Len(data') = 0 /\ data' \in Seq(Nat) /\ taken' \in 0 .. arrived
         /\ taken' \in Nat
    BY <1>0, <2>1
  <2>12. data' = Bytes(taken' - Len(data'), taken')
    <3>1. taken' \in Nat /\ Len(data') = 0
      BY <2>11
    <3>2. taken' - Len(data') = taken'
      BY <1>0, <2>1, <2>11
    <3>3. Bytes(taken', taken') = <<>>
      BY <3>1, NoBytes
    <3> QED
      BY <2>1, <3>2, <3>3
  <2> QED
    BY <2>1, <2>2, <2>6, <2>8, <2>9, <2>10, <2>11, <2>12 DEF RxInv
<1>5. ASSUME NEW n, BodyRead(n) PROVE RxInv'
  <2> DEFINE p == Len(posted)
  <2>1. /\ n \in Nat /\ Len(data) + n = want /\ phase = "body"
        /\ p < Frames /\ want = lens[p + 1]
        /\ taken' = taken + n /\ taken + n <= arrived
        /\ posted' = Append(posted, Bytes(taken - Len(data), taken + n))
        /\ Bytes(taken - Len(data), taken + n) \in Seq(Nat)
        /\ UNCHANGED <<lens, arrived, listed, open>>
        /\ phase' = "head" /\ want' = HeadLen /\ data' = <<>>
    <3>1. n \in Nat /\ Len(data) + n <= want /\ Len(data) + n >= want
      BY <1>5, Piece DEF BodyRead
    <3>2. Len(data) + n = want
      BY <1>0, <3>1
    <3> QED
      BY <1>5, <3>2, Piece DEF BodyRead, RxInv
  <2>2. End' = End /\ \A i : BodyOf(i)' = BodyOf(i)
    BY <2>1, FramesStay
  <2>3. p \in Nat /\ p + 1 \in 1 .. Frames /\ (p + 1) - 1 = p
    BY <2>1, StreamAssumption
  <2>4. End[p] \in Nat /\ lens[p + 1] \in Nat
        /\ End[p + 1] = End[p] + HeadLen + lens[p + 1]
    <3>1. p \in 0 .. Frames
      BY <2>3, StreamAssumption
    <3> DEFINE q == p + 1
    <3>2. q \in 1 .. Frames /\ q - 1 = p
      BY <2>3
    <3> HIDE DEF q, End
    <3>3. End[q] = End[q - 1] + HeadLen + lens[q] /\ lens[q] \in Nat
      BY <3>2, Ends DEF RxInv
    <3>4. End[q] = End[p] + HeadLen + lens[q] /\ lens[q] \in Nat
      BY <3>2, <3>3
    <3> QED
      BY <1>0, <3>4 DEF q
  <2> HIDE DEF End
  <2>5. taken = End[p] + HeadLen + Len(data)
    <3>1. phase # "over" /\ phase = "body"
      BY <2>1
    <3> QED
      BY <3>1 DEF RxInv, FramesIntact
  <2>6. taken - Len(data) = End[p] + HeadLen /\ taken + n = End[p + 1]
    <3> DEFINE e == End[p]
    <3> DEFINE l == lens[p + 1]
    <3>1. /\ e \in Nat /\ l \in Nat /\ End[p + 1] = e + HeadLen + l
          /\ taken = e + HeadLen + Len(data) /\ HeadLen \in Nat
      BY <2>4, <2>5, StreamAssumption
    <3>2. n \in Nat /\ Len(data) \in Nat /\ Len(data) + n = l
      BY <1>0, <2>1
    <3> HIDE DEF e, l
    <3>3. taken - Len(data) = e + HeadLen /\ taken + n = End[p + 1]
      BY <3>1, <3>2
    <3> QED
      BY <3>3 DEF e
  <2>7. posted' = Append(posted, BodyOf(p + 1))
    BY <2>1, <2>3, <2>6 DEF BodyOf
  <2>8. /\ posted' \in Seq(Seq(Nat)) /\ Len(posted') = p + 1
        /\ \A i \in 1 .. p : posted'[i] = posted[i]
        /\ posted'[p + 1] = BodyOf(p + 1)
    <3>1. BodyOf(p + 1) \in Seq(Nat)
      BY <2>1, <2>3, <2>6 DEF BodyOf
    <3> DEFINE b == BodyOf(p + 1)
    <3> HIDE DEF b
    <3> QED
      BY <2>7, <3>1, AppendProperties DEF RxInv, b
  <2>9. posted' = [i \in 1 .. Len(posted') |-> BodyOf(i)']
    <3>1. \A i \in 1 .. p : posted[i] = BodyOf(i)
      BY DEF RxInv, FramesIntact
    <3>2. \A i \in 1 .. p + 1 : posted'[i] = BodyOf(i)
      <4>1. \A i \in 1 .. p + 1 : i \in 1 .. p \/ i = p + 1
        BY <2>3
      <4> QED
        BY <2>8, <3>1, <4>1
    <3>3. posted' = [i \in 1 .. Len(posted') |-> posted'[i]]
      BY <2>8
    <3> QED
      BY <2>2, <2>8, <3>2, <3>3
  <2>10. taken' = End'[Len(posted')] /\ Len(data') = 0
    BY <2>1, <2>2, <2>6, <2>8
  <2>11. FramesIntact'
    <3>1. taken' = End'[Len(posted')] + 0 + Len(data')
      BY <1>0, <2>1, <2>4, <2>10
    <3> QED
      BY <2>1, <2>9, <3>1 DEF FramesIntact
  <2>12. data' = Bytes(taken' - Len(data'), taken') /\ data' \in Seq(Nat)
         /\ taken' \in 0 .. arrived /\ Len(data') <= taken'
    <3>1. taken' \in Nat /\ taken' - Len(data') = taken' /\ taken' \in 0 .. arrived
      BY <1>0, <2>1, <2>10
    <3>2. Bytes(taken', taken') = <<>>
      BY <3>1, NoBytes
    <3> QED
      BY <2>1, <2>10, <3>1, <3>2
  <2> QED
    BY <2>1, <2>2, <2>3, <2>8, <2>10, <2>11, <2>12, StreamAssumption DEF RxInv
<1>6. ASSUME NEW n, ReadInvalid(n) PROVE RxInv'
  <2>1. /\ n \in Nat /\ taken' = taken + n /\ taken + n <= arrived
        /\ phase' = "over" /\ open' = FALSE
        /\ UNCHANGED <<lens, arrived, want, data, posted, listed>>
    BY <1>6, Piece DEF ReadInvalid
  <2>2. End' = End /\ \A i : BodyOf(i)' = BodyOf(i)
    BY <2>1, FramesStay
  <2> HIDE DEF End
  <2>3. FramesIntact'
    BY <2>1, <2>2 DEF RxInv, FramesIntact
  <2>4. taken' \in 0 .. arrived'
    BY <1>0, <2>1
  <2> QED
    BY <2>1, <2>2, <2>3, <2>4 DEF RxInv
<1>7. CASE ReadError
  <2>1. /\ phase' = "over" /\ open' = FALSE
        /\ UNCHANGED <<lens, arrived, taken, want, data, posted, listed>>
    BY <1>7 DEF ReadError
  <2>2. End' = End /\ \A i : BodyOf(i)' = BodyOf(i)
    BY <2>1, FramesStay
  <2> HIDE DEF End
  <2>3. FramesIntact'
    BY <2>1, <2>2 DEF RxInv, FramesIntact
  <2> QED
    BY <2>1, <2>2, <2>3 DEF RxInv
<1>8. ASSUME \/ Clear \/ Written \/ WriteError \/ UNCHANGED vars
             \/ \E s \in Senders : SendDropped(s) \/ Send(s)
      PROVE  UNCHANGED rxVars /\ listed' \in BOOLEAN /\ open' \in BOOLEAN
  BY <1>8 DEF Clear, Written, WriteError, SendDropped, Send, vars, RxInv
<1> QED
  BY <1>1, <1>2, <1>3, <1>4, <1>5, <1>6, <1>7, <1>8 DEF Next, Read

(* What is posted is, frame by frame, what the client sent, however the       *)
(* stream was cut up on the way (CSession::asyncReadFull).                    *)
THEOREM FramesWhole == Spec => []FramesIntact
<1>1. RxInv => FramesIntact
  BY DEF RxInv
<1> QED
  BY <1>1, InitRx, NextRx, PTL DEF Spec

-----------------------------------------------------------------------------
(* Writing.                                                                   *)
LEMMA Regroup ==
  ASSUME NEW S, NEW r \in Seq(S), NEW s \in Seq(S), NEW t \in Seq(S)
  PROVE  (r \o s) \o t = r \o (s \o t)
OBVIOUS

Mail == Senders \X Nat

\* A write under way is of the first message of the queue; an open connection
\* with a message has one.
TxInv ==
  /\ open \in BOOLEAN
  /\ sends \in [Senders -> 0 .. MaxSends]
  /\ sendQue \in Seq(Mail) /\ wire \in Seq(Mail)
  /\ writes \in {0, 1} /\ (writes = 1 => sendQue # <<>>)
  /\ Len(sendQue) <= MaxSendQue + 1
  /\ WireInOrder

LEMMA InitTx == Init => TxInv
<1> SUFFICES ASSUME Init PROVE TxInv
  OBVIOUS
<1>1. /\ open = TRUE /\ sendQue = <<>> /\ writes = 0 /\ wire = <<>>
      /\ sends = [s \in Senders |-> 0] /\ accepted = <<>>
  BY DEF Init
<1>2. wire \o sendQue = accepted
  BY <1>1
<1>3. sends \in [Senders -> 0 .. MaxSends]
  BY <1>1, StreamAssumption
<1>4. Len(sendQue) <= MaxSendQue + 1
  BY <1>1, StreamAssumption
<1> QED
  BY <1>1, <1>2, <1>3, <1>4 DEF TxInv, WireInOrder

LEMMA NextTx == TxInv /\ [Next]_vars => TxInv'
<1> SUFFICES ASSUME TxInv, [Next]_vars PROVE TxInv'
  OBVIOUS
<1>0. /\ sendQue \in Seq(Mail) /\ wire \in Seq(Mail) /\ Len(sendQue) \in Nat
      /\ wire \o sendQue = accepted /\ (open => (writes = 1 <=> sendQue # <<>>))
      /\ writes \in {0, 1} /\ (writes = 1 => sendQue # <<>>)
      /\ sends \in [Senders -> 0 .. MaxSends] /\ open \in BOOLEAN
      /\ Len(sendQue) <= MaxSendQue + 1
  BY DEF TxInv, WireInOrder
<1>1. CASE UNCHANGED txVars /\ open' \in {open, FALSE}
  <2>1. UNCHANGED <<sendQue, writes, wire, sends, accepted>>
    BY <1>1 DEF txVars
  <2>2. CASE open' = open
    BY <1>0, <2>1, <2>2 DEF TxInv, WireInOrder
  <2>3. CASE open' = FALSE
    BY <1>0, <2>1, <2>3 DEF TxInv, WireInOrder
  <2> QED
    BY <1>1, <2>2, <2>3
<1>2. ASSUME NEW s \in Senders, SendDropped(s) PROVE TxInv'
  <2>1. /\ sends[s] < MaxSends /\ sends' = [sends EXCEPT ![s] = @ + 1]
        /\ UNCHANGED <<open, sendQue, writes, wire, accepted>>
    BY <1>2 DEF SendDropped
  <2>2. sends' \in [Senders -> 0 .. MaxSends]
    BY <1>0, <2>1, StreamAssumption
  <2> QED
    BY <1>0, <2>1, <2>2 DEF TxInv, WireInOrder
<1>3. ASSUME NEW s \in Senders, Send(s) PROVE TxInv'
  <2> DEFINE m == Message(s)
  <2>1. /\ sends[s] < MaxSends /\ sends' = [sends EXCEPT ![s] = @ + 1]
        /\ Len(sendQue) <= MaxSendQue
        /\ sendQue' = Append(sendQue, m) /\ accepted' = Append(accepted, m)
        /\ writes' = (IF sendQue = <<>> THEN writes + 1 ELSE writes)
        /\ wire' = wire /\ open' = open
    BY <1>3 DEF Send
  <2>2. sends' \in [Senders -> 0 .. MaxSends] /\ m \in Mail
    <3>1. sends[s] \in 0 .. MaxSends
      BY <1>0
    <3>2. sends[s] + 1 \in Nat /\ sends[s] + 1 \in 0 .. MaxSends
      BY <2>1, <3>1, StreamAssumption
    <3> QED
      BY <1>0, <2>1, <3>2 DEF Message, Mail
  <2> HIDE DEF m
  <2>3. sendQue' \in Seq(Mail) /\ sendQue' # <<>> /\ Len(sendQue') = Len(sendQue) + 1
    BY <1>0, <2>1, <2>2, AppendProperties
  <2>4. wire \o Append(sendQue, m) = Append(wire \o sendQue, m)
    <3> DEFINE h == <<m>>
    <3>0. h \in Seq(Mail)
      BY <2>2
    <3>1. Append(sendQue, m) = sendQue \o h
      BY <1>0, <2>2, AppendIsConcat
    <3>2. wire \o sendQue \in Seq(Mail)
      BY <1>0, ConcatProperties
    <3>3. Append(wire \o sendQue, m) = (wire \o sendQue) \o h
      BY <2>2, <3>2, AppendIsConcat
    <3>4. (wire \o sendQue) \o h = wire \o (sendQue \o h)
      <4> HIDE DEF h
      <4>1. wire \in Seq(Mail) /\ sendQue \in Seq(Mail)
        BY <1>0
      <4> QED
        BY <3>0, <4>1, Regroup
    <3> QED
      BY <3>1, <3>3, <3>4
  <2>5. writes' = 1 \/ (writes' = 0 /\ ~open)
    BY <1>0, <2>1
  <2>6. Len(sendQue') <= MaxSendQue + 1
    BY <1>0, <2>1, <2>3, StreamAssumption
  <2> QED
    BY <1>0, <2>1, <2>2, <2>3, <2>4, <2>5, <2>6 DEF TxInv, WireInOrder
<1>4. CASE Written
  <2>1. /\ writes = 1 /\ open /\ sendQue # <<>>
        /\ wire' = Append(wire, Head(sendQue)) /\ sendQue' = Tail(sendQue)
        /\ writes' = (IF Tail(sendQue) = <<>> THEN writes - 1 ELSE writes)
        /\ open' = open /\ sends' = sends /\ accepted' = accepted
    BY <1>0, <1>4 DEF Written
  <2>2. /\ Head(sendQue) \in Mail /\ Tail(sendQue) \in Seq(Mail)
        /\ Len(Tail(sendQue)) = Len(sendQue) - 1
        /\ wire' \in Seq(Mail)
    BY <1>0, <2>1, HeadTailProperties, AppendProperties
  <2>3. wire' \o sendQue' = wire \o sendQue
    <3>1. sendQue = <<Head(sendQue)>> \o Tail(sendQue)
      BY <1>0, <2>1
    <3>2. wire' = wire \o <<Head(sendQue)>>
      BY <1>0, <2>1, <2>2, AppendIsConcat
    <3> DEFINE h == <<Head(sendQue)>>
    <3> DEFINE q == Tail(sendQue)
    <3>3. h \in Seq(Mail) /\ q \in Seq(Mail)
      BY <2>2
    <3> HIDE DEF h, q
    <3>4. (wire \o h) \o q = wire \o (h \o q)
      BY <1>0, <3>3, Regroup
    <3> QED
      BY <2>1, <3>1, <3>2, <3>4 DEF h, q
  <2>4. writes' \in {0, 1} /\ (writes' = 1 <=> sendQue' # <<>>)
    BY <2>1
  <2>5. Len(sendQue') <= MaxSendQue + 1
    BY <1>0, <2>1, <2>2, StreamAssumption
  <2> QED
    BY <1>0, <2>1, <2>2, <2>3, <2>4, <2>5 DEF TxInv, WireInOrder
<1>5. CASE WriteError
  <2>1. /\ writes = 1 /\ writes' = 0 /\ open' = FALSE
        /\ UNCHANGED <<sendQue, wire, sends, accepted>>
    BY <1>0, <1>5 DEF WriteError
  <2> QED
    BY <1>0, <2>1 DEF TxInv, WireInOrder
<1>6. ASSUME \/ Arrive \/ Read \/ ReadError \/ Clear \/ UNCHANGED vars
      PROVE  UNCHANGED txVars /\ open' \in {open, FALSE}
  BY <1>6 DEF Arrive, Read, ReadPart, HeadRead, BodyRead, ReadInvalid, ReadSome,
    ReadError, Clear, vars, txVars
<1> QED
  BY <1>1, <1>2, <1>3, <1>4, <1>5, <1>6 DEF Next

(* The client receives what Send has queued, in order, none twice and none    *)
(* left out, however the senders and HandleWrite interleave (CSession::Send). *)
THEOREM WireWhole == Spec => []WireInOrder
<1>1. TxInv => WireInOrder
  BY DEF TxInv
<1> QED
  BY <1>1, InitTx, NextTx, PTL DEF Spec

(* What is known of the two directions gives the types.                       *)
LEMMA StreamTyped == RxInv /\ TxInv => TypeOK
<1> SUFFICES ASSUME RxInv, TxInv PROVE TypeOK
  OBVIOUS
<1>0. want \in Nat /\ Len(data) \in Nat /\ Len(posted) \in 0 .. Frames
  BY RxTypes
<1>1. Len(data) \in 0 .. want
  BY <1>0 DEF RxInv
<1>2. DOMAIN posted \subseteq 1 .. Frames
  BY <1>0, StreamAssumption DEF RxInv
<1> HIDE DEF End
<1> QED
  BY <1>1, <1>2 DEF RxInv, TxInv, TypeOK

(* Every reachable state is typed; the send queue never holds more than one   *)
(* message above MAX_SENDQUE, and nothing is posted beyond what was sent.     *)
THEOREM TypeCorrect == Spec => []TypeOK
  BY StreamTyped, InitRx, NextRx, InitTx, NextTx, PTL DEF Spec
-----------------------------------------------------------------------------
(* LogicSystem's queue: its types, with what the io threads and the worker    *)
(* have to be doing for them to be kept.                                      *)
ProcessTyped ==
  /\ P!TypeOK
  /\ \A c \in Clients : reader[c] = "posting" => sent[c] >= 1
  /\ worker \in {"handling", "draining"} => msgQue # <<>>

LEMMA InitProcessTyped == P!Init => ProcessTyped
<1>1. <<>> \in Seq(P!Messages)
  BY EmptySeq
<1>2. 0 \in 0 .. MaxMessages
  BY PartsAssumption
<1> QED
  BY <1>1, <1>2 DEF P!Init, ProcessTyped, P!TypeOK

(* Handling a message takes it off a queue of messages.                       *)
LEMMA HandleFirstTyped ==
  ASSUME ProcessTyped, P!HandleFirst, msgQue # <<>>
  PROVE  /\ msgQue' \in Seq(P!Messages) /\ Head(msgQue) \in P!Messages
         /\ Len(msgQue') = Len(msgQue) - 1 /\ Len(msgQue) \in Nat \ {0}
         /\ \A i \in 1 .. Len(msgQue') : msgQue'[i] = msgQue[i + 1]
         /\ Head(msgQue) = msgQue[1]
         /\ served' \in SUBSET P!Messages /\ refused' \in SUBSET P!Messages
<1>0. msgQue \in Seq(P!Messages) /\ served \in SUBSET P!Messages
      /\ refused \in SUBSET P!Messages
  BY DEF ProcessTyped, P!TypeOK
<1>1. msgQue' = Tail(msgQue)
  BY DEF P!HandleFirst
<1> DEFINE M == P!Messages
<1> HIDE DEF M
<1>2. /\ Tail(msgQue) \in Seq(M) /\ Head(msgQue) \in M
      /\ Len(Tail(msgQue)) = Len(msgQue) - 1 /\ Len(msgQue) \in Nat \ {0}
      /\ \A i \in 1 .. Len(Tail(msgQue)) : Tail(msgQue)[i] = msgQue[i + 1]
      /\ Head(msgQue) = msgQue[1]
  <2>1. msgQue \in Seq(M)
    BY <1>0 DEF M
  <2>2. Len(msgQue) \in Nat \ {0}
    BY <2>1, EmptySeq
  <2> QED
    BY <2>1, <2>2, HeadTailProperties
<1>3. served' \subseteq served \cup {Head(msgQue)}
      /\ refused' \subseteq refused \cup {Head(msgQue)}
  BY DEF P!HandleFirst
<1> QED
  BY <1>0, <1>1, <1>2, <1>3 DEF M

(* Pushing a message of a client that is posting.                             *)
LEMMA PushTyped ==
  ASSUME ProcessTyped, NEW c \in Clients, P!PostMsgToQue(c)
  PROVE  /\ sent[c] \in 1 .. MaxMessages /\ <<c, sent[c]>> \in P!Messages
         /\ msgQue' \in Seq(P!Messages)
         /\ Len(msgQue) \in Nat /\ Len(msgQue') = Len(msgQue) + 1
         /\ \A i \in 1 .. Len(msgQue) : msgQue'[i] = msgQue[i]
         /\ msgQue'[Len(msgQue) + 1] = <<c, sent[c]>>
<1>1. sent[c] \in 1 .. MaxMessages
  <2>1. sent[c] \in 0 .. MaxMessages /\ sent[c] >= 1
    BY DEF ProcessTyped, P!TypeOK, P!PostMsgToQue
  <2> QED
    BY <2>1, PartsAssumption
<1>2. <<c, sent[c]>> \in P!Messages
  BY <1>1 DEF P!Messages
<1>3. msgQue \in Seq(P!Messages) /\ msgQue' = Append(msgQue, <<c, sent[c]>>)
  BY DEF ProcessTyped, P!TypeOK, P!PostMsgToQue
<1> DEFINE M == P!Messages
<1> DEFINE m == <<c, sent[c]>>
<1>4. msgQue \in Seq(M) /\ m \in M /\ msgQue' = Append(msgQue, m)
  BY <1>2, <1>3
<1> HIDE DEF M, m
<1>5. /\ msgQue' \in Seq(M)
      /\ Len(msgQue) \in Nat /\ Len(msgQue') = Len(msgQue) + 1
      /\ \A i \in 1 .. Len(msgQue) : msgQue'[i] = msgQue[i]
      /\ msgQue'[Len(msgQue) + 1] = m
  BY <1>4, AppendProperties
<1> QED
  BY <1>1, <1>2, <1>5 DEF M, m

LEMMA NextProcessTyped ==
  ASSUME ProcessTyped, [P!Next]_(P!vars)
  PROVE  ProcessTyped'
<1> USE DEF ProcessTyped, P!TypeOK
<1>1. ASSUME NEW c \in Clients, P!Receive(c)
      PROVE  ProcessTyped'
  <2>1. /\ sent' \in [Clients -> 0 .. MaxMessages] /\ sent'[c] >= 1
        /\ \A d \in Clients : d # c => sent'[d] = sent[d] /\ reader'[d] = reader[d]
    BY <1>1, PartsAssumption DEF P!Receive
  <2> QED
    BY <1>1, <2>1 DEF P!Receive
<1>2. ASSUME NEW c \in Clients, P!PostMsgToQue(c)
      PROVE  ProcessTyped'
  <2>1. msgQue' \in Seq(P!Messages) /\ msgQue' # <<>>
    <3>1. /\ msgQue' \in Seq(P!Messages)
          /\ Len(msgQue) \in Nat /\ Len(msgQue') = Len(msgQue) + 1
      BY <1>2, PushTyped
    <3>2. Len(msgQue') # 0
      BY <3>1
    <3> QED
      BY <3>1, <3>2
  <2>2. /\ reader' \in [Clients -> {"reading", "posting", "notifying", "gone"}]
        /\ \A d \in Clients : reader'[d] = "posting" => reader[d] = "posting"
        /\ UNCHANGED <<sent, worker, main, bStop, redisOpen, served, refused, missed>>
    BY <1>2 DEF P!PostMsgToQue
  <2> QED
    BY <2>1, <2>2
<1>3. ASSUME NEW c \in Clients, P!Notify(c) \/ P!Disconnect(c)
      PROVE  ProcessTyped'
  BY <1>3 DEF P!Notify, P!Disconnect, P!Wake
<1>4. CASE P!Test \/ P!Sleep \/ P!Spurious
  BY <1>4 DEF P!Test, P!Sleep, P!Spurious
<1>5. CASE P!Handle \/ P!Drain
  <2>1. P!HandleFirst /\ msgQue # <<>>
    BY <1>5 DEF P!Handle, P!Drain
  <2>2. /\ msgQue' \in Seq(P!Messages)
        /\ Len(msgQue') = Len(msgQue) - 1 /\ Len(msgQue) \in Nat \ {0}
        /\ served' \in SUBSET P!Messages /\ refused' \in SUBSET P!Messages
    BY <2>1, HandleFirstTyped
  <2>3. /\ worker' \in {"top", "done", "draining"}
        /\ worker' = "draining" => Len(msgQue) # 1
        /\ UNCHANGED <<reader, sent, main, bStop, redisOpen, missed>>
    BY <1>5 DEF P!Handle, P!Drain
  <2>4. worker' = "draining" => msgQue' # <<>>
    BY <2>2, <2>3, EmptySeq
  <2> QED
    BY <2>2, <2>3, <2>4
<1>6. CASE P!Signal \/ P!MainStep
  BY <1>6 DEF P!Signal, P!MainStep, P!MainAt, P!JoinIoThreads, P!CloseRedis, P!SetStop,
    P!NotifyStop, P!JoinWorker, P!Wake
<1>7. CASE UNCHANGED P!vars
  BY <1>7 DEF P!vars, P!Messages
<1> QED
  BY <1>1, <1>2, <1>3, <1>4, <1>5, <1>6, <1>7 DEF P!Next, P!IoStep, P!WorkerStep

-----------------------------------------------------------------------------
(* The threads' places: main clears the way before it sets _b_stop, and only  *)
(* then does the worker end.                                                  *)
ProcessPlaces ==
  /\ main \notin {"running", "stopping"} => \A c \in Clients : reader[c] = "gone"
  /\ ~redisOpen => main \in {"exiting", "flagged", "joining", "ended"}
  /\ bStop <=> main \in {"flagged", "joining", "ended"}
  /\ worker \in {"draining", "done"} => bStop
  /\ worker \in {"drowsy", "done"} => msgQue = <<>>
  /\ main = "ended" => worker = "done"

LEMMA NextProcessPlaces ==
  ASSUME ProcessTyped, ProcessPlaces, [P!Next]_(P!vars)
  PROVE  ProcessPlaces'
<1> USE DEF ProcessPlaces
<1>1. ASSUME NEW c \in Clients, P!Receive(c) \/ P!Notify(c) \/ P!Disconnect(c)
      PROVE  ProcessPlaces'
  <2>1. /\ reader[c] # "gone" /\ \A d \in Clients : reader[d] = "gone" => reader'[d] = "gone"
        /\ worker' = worker \/ (worker = "asleep" /\ worker' = "woken")
        /\ UNCHANGED <<msgQue, main, bStop, redisOpen>>
    BY <1>1 DEF P!Receive, P!Notify, P!Disconnect, P!Wake, ProcessTyped, P!TypeOK
  <2> QED
    BY <2>1
<1>2. ASSUME NEW c \in Clients, P!PostMsgToQue(c)
      PROVE  ProcessPlaces'
  <2>1. /\ reader[c] # "gone" /\ worker \notin {"drowsy", "handling", "draining"}
        /\ UNCHANGED <<worker, main, bStop, redisOpen>>
    BY <1>2 DEF P!PostMsgToQue, P!MutexFree
  <2>2. main \in {"running", "stopping"} /\ worker # "done"
    BY <2>1
  <2> QED
    BY <2>1, <2>2
<1>3. CASE P!Test \/ P!Sleep \/ P!Spurious
  BY <1>3 DEF P!Test, P!Sleep, P!Spurious
<1>4. CASE P!Handle \/ P!Drain
  <2>1. P!HandleFirst /\ msgQue # <<>>
    BY <1>4 DEF P!Handle, P!Drain, ProcessTyped
  <2>2. /\ msgQue' \in Seq(P!Messages)
        /\ Len(msgQue') = Len(msgQue) - 1 /\ Len(msgQue) \in Nat \ {0}
    BY <2>1, HandleFirstTyped
  <2>3. /\ worker' = "top" \/ (bStop /\ worker' \in {"done", "draining"})
        /\ worker' = "done" => Len(msgQue) = 1
        /\ worker # "done"
        /\ UNCHANGED <<reader, main, bStop, redisOpen>>
    BY <1>4, <2>1 DEF P!Handle, P!Drain
  <2>4. ASSUME worker' = "done" PROVE msgQue' = <<>>
    <3>1. Len(msgQue) = 1
      BY <2>3, <2>4
    <3>2. Len(msgQue') = 0
      BY <2>2, <3>1
    <3> QED
      BY <2>2, <3>2, EmptySeq
  <2> QED
    BY <2>3, <2>4
<1>5. CASE P!Signal \/ P!MainStep
  <2>1. UNCHANGED <<reader, msgQue>>
        /\ (worker' = worker \/ (worker = "asleep" /\ worker' = "woken"))
    <3>1. CASE P!NotifyStop
      BY <3>1 DEF P!NotifyStop, P!Wake
    <3>2. CASE P!Signal \/ P!JoinIoThreads \/ P!CloseRedis \/ P!SetStop \/ P!JoinWorker
      BY <3>2 DEF P!Signal, P!JoinIoThreads, P!CloseRedis, P!SetStop, P!JoinWorker
    <3> QED
      BY <1>5, <3>1, <3>2 DEF P!MainStep
  <2> QED
    BY <1>5, <2>1 DEF P!Signal, P!MainStep, P!MainAt, P!JoinIoThreads, P!CloseRedis, P!SetStop,
      P!NotifyStop, P!JoinWorker
<1>6. CASE UNCHANGED P!vars
  BY <1>6 DEF P!vars
<1> QED
  BY <1>1, <1>2, <1>3, <1>4, <1>5, <1>6 DEF P!Next, P!IoStep, P!WorkerStep

(* No wake-up is lost: the first message into an empty queue has its          *)
(* notification to come, and a drowsy worker keeps the mutex.                 *)
LEMMA NextWakeupsKept ==
  ASSUME ProcessTyped, ProcessPlaces, P!WakeupsKept, [P!Next]_(P!vars)
  PROVE  P!WakeupsKept'
<1> USE DEF P!WakeupsKept
<1>1. ASSUME NEW c \in Clients, P!Receive(c) \/ P!Disconnect(c)
      PROVE  P!WakeupsKept'
  <2>1. /\ \A d \in Clients : reader[d] = "notifying" => reader'[d] = "notifying"
        /\ UNCHANGED <<worker, msgQue, main, missed>>
    BY <1>1 DEF P!Receive, P!Disconnect, ProcessTyped, P!TypeOK
  <2> QED
    BY <2>1
<1>2. ASSUME NEW c \in Clients, P!Notify(c)
      PROVE  P!WakeupsKept'
  <2>1. worker' # "asleep" /\ (worker' = "drowsy" => worker = "drowsy")
        /\ UNCHANGED <<msgQue, main, missed>>
    BY <1>2 DEF P!Notify, P!Wake
  <2>2. worker = "drowsy" => msgQue = <<>>
    BY DEF ProcessPlaces
  <2> QED
    BY <2>1, <2>2
<1>3. ASSUME NEW c \in Clients, P!PostMsgToQue(c)
      PROVE  P!WakeupsKept'
  <2>1. /\ reader[c] = "posting" /\ worker \notin {"drowsy", "handling", "draining"}
        /\ reader' = [reader EXCEPT ![c] = IF Len(msgQue') = 1 THEN "notifying" ELSE "reading"]
        /\ UNCHANGED <<worker, main, missed>>
    BY <1>3 DEF P!PostMsgToQue, P!MutexFree
  <2>2. Len(msgQue') = Len(msgQue) + 1 /\ Len(msgQue) \in Nat
        /\ (msgQue # <<>> => Len(msgQue) # 0)
    BY <1>3, PushTyped, EmptySeq DEF ProcessTyped, P!TypeOK
  <2>3. CASE msgQue = <<>>
    <3>1. Len(msgQue) = 0
      BY <2>3, EmptySeq
    <3>2. reader'[c] = "notifying"
      BY <2>1, <2>2, <3>1 DEF ProcessTyped, P!TypeOK
    <3> QED
      BY <2>1, <3>2
  <2>4. CASE msgQue # <<>>
    <3>1. \A d \in Clients : reader[d] = "notifying" => reader'[d] = "notifying"
      BY <2>1 DEF ProcessTyped, P!TypeOK
    <3> QED
      BY <2>1, <2>4, <3>1
  <2> QED
    BY <2>3, <2>4
<1>4. CASE P!Test
  <2>1. /\ worker' = "drowsy" => msgQue = <<>> /\ ~bStop
        /\ worker' # "asleep"
        /\ UNCHANGED <<reader, msgQue, main, missed>>
    BY <1>4 DEF P!Test
  <2> QED
    BY <2>1 DEF ProcessPlaces
<1>5. CASE P!Sleep \/ P!Spurious
  BY <1>5 DEF P!Sleep, P!Spurious
<1>6. CASE P!Handle \/ P!Drain
  BY <1>6 DEF P!Handle, P!Drain
<1>7. CASE P!Signal \/ P!MainStep
  BY <1>7 DEF P!Signal, P!MainStep, P!MainAt, P!JoinIoThreads, P!CloseRedis, P!SetStop,
    P!NotifyStop, P!JoinWorker, P!Wake, ProcessPlaces, ProcessTyped, P!TypeOK
<1>8. CASE UNCHANGED P!vars
  BY <1>8 DEF P!vars
<1> QED
  BY <1>1, <1>2, <1>3, <1>4, <1>5, <1>6, <1>7, <1>8 DEF P!Next, P!IoStep, P!WorkerStep

(* The order of the queue keeps its messages apart; and a message behind      *)
(* another of the same client is a later one.                                 *)
LEMMA QueueApart ==
  ASSUME ProcessTyped, P!MessagesKept,
         NEW i \in DOMAIN msgQue, NEW j \in DOMAIN msgQue, i < j
  PROVE  /\ msgQue[i] # msgQue[j]
         /\ msgQue[i][1] = msgQue[j][1] => msgQue[i][2] < msgQue[j][2]
<1>1. msgQue[i][1] = msgQue[j][1] => msgQue[i][2] < msgQue[j][2]
  BY DEF P!MessagesKept
<1>2. msgQue[i][2] \in Nat /\ msgQue[j][2] \in Nat
  BY DEF ProcessTyped, P!TypeOK, P!Messages
<1> QED
  BY <1>1, <1>2

LEMMA PushKeeps ==
  ASSUME ProcessTyped, P!MessagesKept, NEW c \in Clients, P!PostMsgToQue(c)
  PROVE  P!MessagesKept'
<1> DEFINE m == <<c, sent[c]>>
<1>1. /\ sent[c] \in 1 .. MaxMessages
      /\ Len(msgQue) \in Nat /\ Len(msgQue') = Len(msgQue) + 1
      /\ \A i \in 1 .. Len(msgQue) : msgQue'[i] = msgQue[i]
      /\ msgQue'[Len(msgQue) + 1] = m
  BY PushTyped
<1>2. DOMAIN msgQue = 1 .. Len(msgQue) /\ DOMAIN msgQue' = 1 .. Len(msgQue) + 1
  <2>1. msgQue \in Seq(P!Messages) /\ msgQue' \in Seq(P!Messages)
    BY PushTyped DEF ProcessTyped, P!TypeOK
  <2> QED
    BY <2>1, <1>1, LenProperties
<1>3. P!Queued' = P!Queued \cup {m}
  <2>1. 1 .. Len(msgQue) + 1 = (1 .. Len(msgQue)) \cup {Len(msgQue) + 1}
    BY <1>1
  <2>2. P!Queued' = {msgQue'[i] : i \in (1 .. Len(msgQue)) \cup {Len(msgQue) + 1}}
    BY <1>2, <2>1 DEF P!Queued
  <2>3. P!Queued = {msgQue[i] : i \in 1 .. Len(msgQue)}
    BY <1>2 DEF P!Queued
  <2> HIDE DEF m
  <2> QED
    BY <1>1, <2>2, <2>3
<1>4. P!Handled' = P!Handled /\ UNCHANGED <<sent, served, refused>>
  BY DEF P!PostMsgToQue, P!Handled
<1>5. /\ reader[c] = "posting" /\ reader'[c] # "posting"
      /\ \A d \in Clients : d # c => reader'[d] = reader[d]
  BY DEF P!PostMsgToQue, ProcessTyped, P!TypeOK
<1>6. m \notin P!Handled \cup P!Queued
  <2>1. P!Pushed(c) = sent[c] - 1
    BY <1>5 DEF P!Pushed
  <2>2. ~(sent[c] <= P!Pushed(c))
    BY <1>1, <2>1
  <2> QED
    BY <1>1, <2>2 DEF P!MessagesKept
<1>7. ASSUME NEW d \in Clients, NEW n \in 1 .. MaxMessages
      PROVE  n <= P!Pushed(d)' <=> <<d, n>> \in P!Handled' \cup P!Queued'
  <2>1. n <= P!Pushed(d) <=> <<d, n>> \in P!Handled \cup P!Queued
    BY DEF P!MessagesKept
  <2>2. CASE d # c
    <3>1. P!Pushed(d)' = P!Pushed(d)
      BY <1>4, <1>5, <2>2 DEF P!Pushed
    <3>2. <<d, n>> # m
      BY <2>2
    <3> QED
      BY <2>1, <3>1, <3>2, <1>3, <1>4
  <2>3. CASE d = c
    <3>1. P!Pushed(c)' = sent[c] /\ P!Pushed(c) = sent[c] - 1
      BY <1>4, <1>5 DEF P!Pushed
    <3>2. n <= sent[c] <=> n <= sent[c] - 1 \/ n = sent[c]
      BY <1>1
    <3>3. n = sent[c] <=> <<d, n>> = m
      BY <2>3
    <3> QED
      BY <2>1, <2>3, <3>1, <3>2, <3>3, <1>3, <1>4
  <2> QED
    BY <2>2, <2>3
<1>8. ASSUME NEW i \in DOMAIN msgQue', NEW j \in DOMAIN msgQue', i < j,
             msgQue'[i][1] = msgQue'[j][1]
      PROVE  msgQue'[i][2] < msgQue'[j][2]
  <2>1. i \in DOMAIN msgQue /\ msgQue'[i] = msgQue[i]
    BY <1>1, <1>2, <1>8
  <2>2. CASE j \in DOMAIN msgQue
    BY <1>1, <1>2, <1>8, <2>1, <2>2, QueueApart
  <2>3. CASE j \notin DOMAIN msgQue
    <3>1. msgQue'[j] = m
      BY <1>1, <1>2, <2>3
    <3>2. PICK n \in 1 .. MaxMessages : msgQue[i] = <<c, n>>
      BY <1>8, <2>1, <3>1 DEF ProcessTyped, P!TypeOK, P!Messages
    <3>3. n <= P!Pushed(c)
      BY <2>1, <3>2 DEF P!MessagesKept, P!Queued
    <3>4. P!Pushed(c) = sent[c] - 1
      BY <1>5 DEF P!Pushed
    <3>5. n < sent[c]
      BY <1>1, <3>3, <3>4
    <3> QED
      BY <2>1, <3>1, <3>2, <3>5
  <2> QED
    BY <2>2, <2>3
<1>9. P!Handled' \cap P!Queued' = {} /\ served' \cap refused' = {}
  BY <1>3, <1>4, <1>6 DEF P!MessagesKept
<1>10. \A d \in Clients : \A n \in 1 .. MaxMessages : \A k \in 1 .. n :
         <<d, n>> \in P!Handled' => <<d, k>> \in P!Handled'
  BY <1>4 DEF P!MessagesKept
<1> HIDE DEF m
<1> QED
  BY <1>7, <1>8, <1>9, <1>10 DEF P!MessagesKept

LEMMA HandleKeeps ==
  ASSUME ProcessTyped, P!MessagesKept, P!Handle \/ P!Drain
  PROVE  P!MessagesKept'
<1> DEFINE h == Head(msgQue)
<1>0. P!HandleFirst /\ msgQue # <<>> /\ UNCHANGED <<reader, sent>>
  BY DEF P!Handle, P!Drain, ProcessTyped
<1>1. /\ msgQue' \in Seq(P!Messages) /\ h \in P!Messages
      /\ Len(msgQue') = Len(msgQue) - 1 /\ Len(msgQue) \in Nat \ {0}
      /\ \A i \in 1 .. Len(msgQue') : msgQue'[i] = msgQue[i + 1]
      /\ h = msgQue[1]
  BY <1>0, HandleFirstTyped
<1>2. DOMAIN msgQue = 1 .. Len(msgQue) /\ DOMAIN msgQue' = 1 .. Len(msgQue) - 1
  <2>1. msgQue \in Seq(P!Messages)
    BY DEF ProcessTyped, P!TypeOK
  <2> QED
    BY <2>1, <1>1, LenProperties
<1>3. 1 \in DOMAIN msgQue
      /\ \A i \in DOMAIN msgQue' : i + 1 \in DOMAIN msgQue /\ msgQue'[i] = msgQue[i + 1]
                                   /\ 1 < i + 1
  BY <1>1, <1>2
<1>4. P!Queued \subseteq P!Queued' \cup {h}
  <2> SUFFICES ASSUME NEW i \in DOMAIN msgQue PROVE msgQue[i] \in P!Queued' \cup {h}
    BY DEF P!Queued
  <2>1. CASE i = 1
    BY <1>1, <2>1
  <2>2. CASE i # 1
    <3>1. i - 1 \in DOMAIN msgQue' /\ (i - 1) + 1 = i
      BY <1>1, <1>2, <2>2
    <3>2. msgQue'[i - 1] = msgQue[i]
      BY <1>3, <3>1
    <3> QED
      BY <3>1, <3>2 DEF P!Queued
  <2> QED
    BY <2>1, <2>2
<1>5. P!Queued' \subseteq P!Queued /\ h \notin P!Queued' /\ h \in P!Queued
  <2>1. ASSUME NEW i \in DOMAIN msgQue'
        PROVE  msgQue'[i] \in P!Queued /\ msgQue'[i] # h
    BY <1>1, <1>3, QueueApart DEF P!Queued
  <2> QED
    BY <1>1, <1>3, <2>1 DEF P!Queued
<1>6. /\ P!Handled' = P!Handled \cup {h} /\ h \notin P!Handled
      /\ \/ served' = served \cup {h} /\ refused' = refused
         \/ served' = served /\ refused' = refused \cup {h}
  BY <1>0, <1>5 DEF P!HandleFirst, P!Handled, P!MessagesKept
<1>7. P!Handled' \cup P!Queued' = P!Handled \cup P!Queued
  BY <1>4, <1>5, <1>6
<1>8. P!Handled' \cap P!Queued' = {} /\ served' \cap refused' = {}
  BY <1>5, <1>6 DEF P!MessagesKept, P!Handled
<1>9. ASSUME NEW d \in Clients, NEW n \in 1 .. MaxMessages
      PROVE  n <= P!Pushed(d)' <=> <<d, n>> \in P!Handled' \cup P!Queued'
  BY <1>0, <1>7 DEF P!MessagesKept, P!Pushed
<1>10. ASSUME NEW d \in Clients, NEW n \in 1 .. MaxMessages, NEW k \in 1 .. n,
              <<d, n>> \in P!Handled'
       PROVE  <<d, k>> \in P!Handled'
  <2>0. k \in 1 .. MaxMessages
    BY PartsAssumption
  <2>1. CASE <<d, n>> \in P!Handled
    BY <1>6, <2>1 DEF P!MessagesKept
  <2>2. CASE <<d, n>> = h /\ k # n
    <3>0. sent[d] \in Int
      BY PartsAssumption DEF ProcessTyped, P!TypeOK
    <3>1. n <= P!Pushed(d) /\ P!Pushed(d) \in Int
      <4>1. <<d, n>> \in P!Handled \cup P!Queued
        BY <1>5, <2>2
      <4>2. P!Pushed(d) \in Int
        BY <3>0 DEF P!Pushed
      <4> QED
        BY <4>1, <4>2 DEF P!MessagesKept
    <3>2. k <= P!Pushed(d)
      BY <3>1, PartsAssumption
    <3>3. <<d, k>> \in P!Handled \cup P!Queued
      BY <2>0, <3>2 DEF P!MessagesKept
    <3>4. ASSUME <<d, k>> \in P!Queued PROVE FALSE
      <4>1. PICK i \in DOMAIN msgQue : msgQue[i] = <<d, k>>
        BY <3>4 DEF P!Queued
      <4>2. i # 1
        BY <1>1, <2>2, <4>1
      <4>3. 1 < i
        BY <1>1, <1>2, <4>2
      <4>4. msgQue[1][1] = d /\ msgQue[i][1] = d /\ msgQue[1][2] = n /\ msgQue[i][2] = k
        BY <1>1, <2>2, <4>1
      <4>5. n < k
        BY <1>3, <4>3, <4>4, QueueApart
      <4> QED
        BY <4>5, PartsAssumption
    <3> QED
      BY <1>6, <3>3, <3>4
  <2> QED
    BY <1>6, <1>10, <2>1, <2>2
<1>11. ASSUME NEW i \in DOMAIN msgQue', NEW j \in DOMAIN msgQue', i < j,
              msgQue'[i][1] = msgQue'[j][1]
       PROVE  msgQue'[i][2] < msgQue'[j][2]
  <2>1. i + 1 \in DOMAIN msgQue /\ j + 1 \in DOMAIN msgQue /\ i + 1 < j + 1
    BY <1>1, <1>2, <1>3, <1>11
  <2>2. msgQue'[i] = msgQue[i + 1] /\ msgQue'[j] = msgQue[j + 1]
    BY <1>3
  <2> QED
    BY <1>11, <2>1, <2>2, QueueApart
<1> HIDE DEF h
<1> QED
  BY <1>8, <1>9, <1>10, <1>11 DEF P!MessagesKept

LEMMA NextMessagesKept ==
  ASSUME ProcessTyped, P!MessagesKept, [P!Next]_(P!vars)
  PROVE  P!MessagesKept'
<1>1. ASSUME UNCHANGED <<msgQue, served, refused>>,
             \A d \in Clients : P!Pushed(d)' = P!Pushed(d)
      PROVE  P!MessagesKept'
  <2>1. P!Handled' = P!Handled /\ P!Queued' = P!Queued
    BY <1>1 DEF P!Handled, P!Queued
  <2> QED
    BY <1>1, <2>1 DEF P!MessagesKept
<1>2. ASSUME NEW c \in Clients, P!Receive(c)
      PROVE  P!MessagesKept'
  <2>1. /\ reader[c] = "reading" /\ reader'[c] = "posting" /\ sent'[c] = sent[c] + 1
        /\ \A d \in Clients : d # c => sent'[d] = sent[d] /\ reader'[d] = reader[d]
        /\ sent[c] \in Int
    BY <1>2, PartsAssumption DEF P!Receive, ProcessTyped, P!TypeOK
  <2>2. ASSUME NEW d \in Clients PROVE P!Pushed(d)' = P!Pushed(d)
    BY <2>1 DEF P!Pushed
  <2> QED
    BY <1>1, <1>2, <2>2 DEF P!Receive
<1>3. ASSUME NEW c \in Clients, P!Notify(c) \/ P!Disconnect(c)
      PROVE  P!MessagesKept'
  <2>1. /\ UNCHANGED <<sent, msgQue, served, refused>>
        /\ reader[c] # "posting" /\ reader'[c] # "posting"
        /\ \A d \in Clients : d # c => reader'[d] = reader[d]
    BY <1>3 DEF P!Notify, P!Disconnect, ProcessTyped, P!TypeOK
  <2>2. ASSUME NEW d \in Clients PROVE P!Pushed(d)' = P!Pushed(d)
    BY <2>1 DEF P!Pushed
  <2> QED
    BY <1>1, <2>1, <2>2
<1>4. CASE P!Test \/ P!Sleep \/ P!Spurious \/ P!Signal \/ P!MainStep \/ UNCHANGED P!vars
  <2>1. UNCHANGED <<reader, sent, msgQue, served, refused>>
    BY <1>4 DEF P!Test, P!Sleep, P!Spurious, P!Signal, P!MainStep, P!JoinIoThreads, P!CloseRedis,
      P!SetStop, P!NotifyStop, P!JoinWorker, P!vars
  <2>2. ASSUME NEW d \in Clients PROVE P!Pushed(d)' = P!Pushed(d)
    BY <2>1 DEF P!Pushed
  <2> QED
    BY <1>1, <2>1, <2>2
<1> QED
  BY <1>2, <1>3, <1>4, PushKeeps, HandleKeeps DEF P!Next, P!IoStep, P!WorkerStep

(* A message that is refused was sent by a client that has gone, since main   *)
(* closes Redis only after the last; and nobody comes back.                   *)
RefusedLate == \A m \in refused : reader[m[1]] = "gone"

LEMMA NextRefusedLate ==
  ASSUME ProcessTyped, ProcessPlaces, RefusedLate, [P!Next]_(P!vars)
  PROVE  RefusedLate'
<1> USE DEF RefusedLate
<1>0. \A m \in refused : m[1] \in Clients
  BY DEF ProcessTyped, P!TypeOK, P!Messages
<1>1. CASE P!Handle \/ P!Drain
  <2>1. P!HandleFirst /\ msgQue # <<>> /\ UNCHANGED reader
    BY <1>1 DEF P!Handle, P!Drain, ProcessTyped
  <2>2. Head(msgQue) \in P!Messages
    BY <2>1, HandleFirstTyped
  <2>3. Head(msgQue)[1] \in Clients
    BY <2>2 DEF P!Messages
  <2>4. ~redisOpen => reader[Head(msgQue)[1]] = "gone"
    BY <2>3 DEF ProcessPlaces
  <2> QED
    BY <2>1, <2>4 DEF P!HandleFirst
<1>2. ASSUME NEW c \in Clients,
             P!Receive(c) \/ P!PostMsgToQue(c) \/ P!Notify(c) \/ P!Disconnect(c)
      PROVE  RefusedLate'
  <2>1. UNCHANGED refused /\ \A d \in Clients : reader[d] = "gone" => reader'[d] = "gone"
    BY <1>2 DEF P!Receive, P!PostMsgToQue, P!Notify, P!Disconnect, ProcessTyped, P!TypeOK
  <2> QED
    BY <1>0, <2>1
<1>3. CASE P!Test \/ P!Sleep \/ P!Spurious \/ P!Signal \/ P!MainStep \/ UNCHANGED P!vars
  BY <1>3 DEF P!Test, P!Sleep, P!Spurious, P!Signal, P!MainStep, P!JoinIoThreads, P!CloseRedis,
    P!SetStop, P!NotifyStop, P!JoinWorker, P!vars
<1> QED
  BY <1>1, <1>2, <1>3 DEF P!Next, P!IoStep, P!WorkerStep

ProcessInv == ProcessTyped /\ ProcessPlaces /\ P!WakeupsKept /\ P!MessagesKept /\ RefusedLate

LEMMA InitProcessInv == P!Init => ProcessInv
<1> SUFFICES ASSUME P!Init PROVE ProcessInv
  OBVIOUS
<1>1. ProcessTyped
  BY InitProcessTyped
<1>2. ProcessPlaces /\ P!WakeupsKept /\ RefusedLate
  BY DEF P!Init, ProcessPlaces, P!WakeupsKept, RefusedLate
<1>3. P!MessagesKept
  <2>1. P!Handled = {} /\ DOMAIN msgQue = {} /\ served = {} /\ refused = {}
    BY DEF P!Init, P!Handled
  <2>2. P!Queued = {}
    BY <2>1 DEF P!Queued
  <2>3. \A c \in Clients : P!Pushed(c) = 0
    BY DEF P!Init, P!Pushed
  <2> QED
    BY <2>1, <2>2, <2>3, PartsAssumption DEF P!MessagesKept
<1> QED
  BY <1>1, <1>2, <1>3 DEF ProcessInv

LEMMA NextProcessInv == ProcessInv /\ [P!Next]_(P!vars) => ProcessInv'
  BY NextProcessTyped, NextProcessPlaces, NextWakeupsKept, NextMessagesKept, NextRefusedLate
    DEF ProcessInv

LEMMA ProcessDropsNothing == ProcessInv => P!NothingDropped
<1> SUFFICES ASSUME ProcessInv PROVE P!NothingDropped
  OBVIOUS
<1>1. ASSUME main = "ended", NEW c \in Clients, NEW n \in 1 .. sent[c]
      PROVE  <<c, n>> \in P!Handled
  <2>1. reader[c] = "gone" /\ msgQue = <<>>
    BY <1>1 DEF ProcessInv, ProcessPlaces
  <2>2. P!Pushed(c) = sent[c] /\ P!Queued = {}
    BY <2>1 DEF P!Pushed, P!Queued
  <2>3. sent[c] \in 0 .. MaxMessages
    BY DEF ProcessInv, ProcessTyped, P!TypeOK
  <2>4. n \in 1 .. MaxMessages /\ n <= sent[c]
    BY <2>3, PartsAssumption
  <2> QED
    BY <2>2, <2>4 DEF ProcessInv, P!MessagesKept
<1> QED
  BY <1>1 DEF P!NothingDropped, ProcessInv, RefusedLate

(* Each message pushed on LogicSystem's queue is in it or handled, in its     *)
(* client's order, and handled by the end of the process, however posting,    *)
(* DealMsg and the destructor interleave; no wake-up of the worker is lost    *)
(* but the destructor's when the history says so (LogicSystem::PostMsgToQue,  *)
(* DealMsg, ~LogicSystem).                                                    *)
THEOREM QueueSound ==
  P!Spec => [](P!TypeOK /\ P!MessagesKept /\ P!WakeupsKept /\ P!NothingDropped)
<1>1. ProcessInv => P!TypeOK /\ P!MessagesKept /\ P!WakeupsKept /\ P!NothingDropped
  BY ProcessDropsNothing DEF ProcessInv, ProcessTyped
<1> QED
  BY <1>1, InitProcessInv, NextProcessInv, PTL DEF P!Spec

-----------------------------------------------------------------------------
(* The gate: every object behind the one that is accepting is yet to be built,*)
(* so building the next disturbs no connection.                               *)
HttpInv ==
  /\ H!TypeOK /\ H!DeadlineArmed
  /\ \A c, d \in H!Conn : state[c] = "accepting" /\ c < d => state[d] = "unbuilt"

LEMMA InitHttpInv == H!Init => HttpInv
<1> SUFFICES ASSUME H!Init PROVE HttpInv
  OBVIOUS
<1>1. /\ state = [c \in H!Conn |-> IF c = 1 THEN "accepting" ELSE "unbuilt"]
      /\ past = 0 /\ waiting = [c \in H!Conn |-> FALSE]
  BY DEF H!Init
<1>2. H!TypeOK /\ H!DeadlineArmed
  BY <1>1, PartsAssumption DEF H!TypeOK, H!States, H!DeadlineArmed
<1>3. \A c, d \in H!Conn : state[c] = "accepting" /\ c < d => state[d] = "unbuilt"
  BY <1>1, PartsAssumption DEF H!Conn
<1> QED
  BY <1>2, <1>3 DEF HttpInv

LEMMA NextHttpInv ==
  ASSUME HttpInv, [H!Next]_(H!vars)
  PROVE  HttpInv'
<1>0. /\ state \in [H!Conn -> H!States] /\ waiting \in [H!Conn -> BOOLEAN]
      /\ past \in 0 .. MaxConn
      /\ \A c \in H!Conn : waiting[c] <=> state[c] \in {"writing", "silent"}
      /\ \A c, d \in H!Conn : state[c] = "accepting" /\ c < d => state[d] = "unbuilt"
      /\ \A c \in H!Conn : c \in Int
  BY PartsAssumption DEF HttpInv, H!TypeOK, H!DeadlineArmed, H!Conn
<1>1. ASSUME NEW c \in H!Conn, NEW to \in {"reading", "over"},
             state[c] = "accepting", H!StartAfter(c, to), UNCHANGED <<past, waiting>>
      PROVE  HttpInv'
  <2>1. /\ state' \in [H!Conn -> H!States] /\ state'[c] = to
        /\ \A d \in H!Conn : d # c => state'[d] = IF d = c + 1 THEN "accepting" ELSE state[d]
    BY <1>0, <1>1 DEF H!StartAfter, H!States
  <2>2. \A d \in H!Conn : d = c + 1 => state[d] = "unbuilt"
    BY <1>0, <1>1
  <2>3. \A d \in H!Conn : waiting'[d] <=> state'[d] \in {"writing", "silent"}
    BY <1>0, <1>1, <2>1, <2>2
  <2>4. ASSUME NEW d \in H!Conn, NEW e \in H!Conn, state'[d] = "accepting", d < e
        PROVE  state'[e] = "unbuilt"
    <3>1. d = c + 1
      <4>1. d # c
        BY <2>1, <2>4
      <4>2. CASE d < c
        BY <1>0, <1>1, <2>1, <2>4, <4>1, <4>2
      <4>3. CASE c < d
        BY <1>0, <1>1, <2>1, <2>4, <4>1, <4>3
      <4> QED
        BY <1>0, <4>1, <4>2, <4>3
    <3>2. e # c /\ e # c + 1 /\ c < e
      BY <1>0, <2>4, <3>1
    <3> QED
      BY <1>0, <1>1, <2>1, <3>2
  <2> QED
    BY <1>0, <1>1, <2>1, <2>3, <2>4 DEF HttpInv, H!TypeOK, H!DeadlineArmed
<1>2. ASSUME NEW c \in H!Conn, NEW to \in {"handling", "writing", "silent", "over"},
             state[c] \notin {"accepting", "unbuilt"},
             state' = [state EXCEPT ![c] = to], UNCHANGED past,
             NEW set \in BOOLEAN, set <=> to \in {"writing", "silent"},
             waiting' = [waiting EXCEPT ![c] = set]
      PROVE  HttpInv'
  <2>0. /\ waiting' \in [H!Conn -> BOOLEAN] /\ waiting'[c] = set
        /\ \A d \in H!Conn : d # c => waiting'[d] = waiting[d]
    BY <1>0, <1>2, Zenon
  <2>1. /\ state' \in [H!Conn -> H!States] /\ state'[c] = to
        /\ waiting' \in [H!Conn -> BOOLEAN] /\ (waiting'[c] <=> to \in {"writing", "silent"})
        /\ \A d \in H!Conn : d # c => state'[d] = state[d] /\ waiting'[d] = waiting[d]
    BY <1>0, <1>2, <2>0 DEF H!States
  <2>2. \A d \in H!Conn : state'[d] = "accepting" => state[d] = "accepting"
    BY <2>1
  <2>3. \A d \in H!Conn : state[d] = "unbuilt" => state'[d] = "unbuilt"
    BY <1>2, <2>1
  <2> QED
    BY <1>0, <1>2, <2>1, <2>2, <2>3 DEF HttpInv, H!TypeOK, H!DeadlineArmed
<1>3. CASE H!Age
  BY <1>0, <1>3, PartsAssumption DEF H!Age, HttpInv, H!TypeOK, H!DeadlineArmed
<1>4. CASE UNCHANGED H!vars
  BY <1>4 DEF H!vars, HttpInv, H!TypeOK, H!DeadlineArmed
<1>5. ASSUME NEW c \in H!Conn, H!Accept(c) \/ H!AcceptError(c)
      PROVE  HttpInv'
  BY <1>1, <1>5 DEF H!Accept, H!AcceptError
<1>6. ASSUME NEW c \in H!Conn, H!Read(c) \/ H!ReadError(c)
      PROVE  HttpInv'
  <2>1. ~waiting[c] /\ UNCHANGED <<past, waiting>> /\ state[c] = "reading"
    BY <1>0, <1>6 DEF H!Read, H!ReadError
  <2>2. waiting' = [waiting EXCEPT ![c] = FALSE]
    BY <1>0, <2>1
  <2>3. PICK to \in {"handling", "over"} : state' = [state EXCEPT ![c] = to]
    BY <1>6 DEF H!Read, H!ReadError
  <2>4. FALSE <=> to \in {"writing", "silent"}
    OBVIOUS
  <2> QED
    BY <1>2, <2>1, <2>2, <2>3, <2>4
<1>7. ASSUME NEW c \in H!Conn, H!Handled(c)
      PROVE  HttpInv'
  <2>1. state[c] = "handling" /\ waiting' = [waiting EXCEPT ![c] = TRUE] /\ UNCHANGED past
    BY <1>7 DEF H!Handled
  <2>2. PICK to \in {"writing", "silent"} : state' = [state EXCEPT ![c] = to]
    BY <1>7 DEF H!Handled
  <2>3. TRUE <=> to \in {"writing", "silent"}
    OBVIOUS
  <2> QED
    BY <1>2, <2>1, <2>2, <2>3
<1>8. ASSUME NEW c \in H!Conn, H!Written(c) \/ H!Cut(c)
      PROVE  HttpInv'
  <2>1. /\ state[c] \in {"writing", "silent"} /\ state' = [state EXCEPT ![c] = "over"]
        /\ waiting' = [waiting EXCEPT ![c] = FALSE] /\ UNCHANGED past
    BY <1>0, <1>8 DEF H!Written, H!Cut
  <2>2. FALSE <=> "over" \in {"writing", "silent"}
    OBVIOUS
  <2> QED
    BY <1>2, <2>1, <2>2
<1> QED
  BY <1>3, <1>4, <1>5, <1>6, <1>7, <1>8 DEF H!Next

-----------------------------------------------------------------------------
(* The machines side by side: while one steps, the others rest, and a machine *)
(* at rest is in a state its invariant allows.                                *)
PartsInv == ProcessInv /\ RxInv /\ TxInv /\ HttpInv

LEMMA RestingProcess == ProcessRests => ProcessInv
<1> SUFFICES ASSUME ProcessRests PROVE ProcessInv
  OBVIOUS
<1>1. ProcessTyped
  <2>1. <<>> \in Seq(P!Messages) /\ 0 \in 0 .. MaxMessages
    BY EmptySeq, PartsAssumption
  <2> QED
    BY <2>1 DEF ProcessRests, ProcessTyped, P!TypeOK
<1>2. ProcessPlaces /\ RefusedLate /\ P!WakeupsKept
  BY DEF ProcessRests, ProcessPlaces, RefusedLate, P!WakeupsKept
<1>3. P!MessagesKept
  <2>1. P!Handled = {} /\ DOMAIN msgQue = {} /\ served = {} /\ refused = {}
    BY DEF ProcessRests, P!Handled
  <2>2. P!Queued = {}
    BY <2>1 DEF P!Queued
  <2>3. \A c \in Clients : P!Pushed(c) = 0
    BY DEF ProcessRests, P!Pushed
  <2> QED
    BY <2>1, <2>2, <2>3, PartsAssumption DEF P!MessagesKept
<1> QED
  BY <1>1, <1>2, <1>3 DEF ProcessInv

LEMMA RestingHttp == HttpRests => HttpInv
  BY PartsAssumption DEF HttpRests, HttpInv, H!TypeOK, H!States, H!DeadlineArmed

LEMMA InitPartsInv == PartsInit => PartsInv
<1> SUFFICES ASSUME PartsInit PROVE PartsInv
  OBVIOUS
<1>1. (P!Init \/ ProcessRests) /\ Init /\ (H!Init \/ HttpRests)
  BY DEF PartsInit, StreamRests
<1> QED
  BY <1>1, InitProcessInv, RestingProcess, InitRx, InitTx, InitHttpInv, RestingHttp DEF PartsInv

LEMMA NextPartsInv == PartsInv /\ [PartsNext]_partsVars => PartsInv'
<1> SUFFICES ASSUME PartsInv, [PartsNext]_partsVars PROVE PartsInv'
  OBVIOUS
<1>1. [P!Next]_(P!vars) /\ [Next]_vars /\ [H!Next]_(H!vars)
  BY DEF PartsNext, partsVars, processVars, httpVars, P!vars, H!vars
<1> QED
  BY <1>1, NextProcessInv, NextRx, NextTx, NextHttpInv DEF PartsInv

(* Inside a process nothing is lost: what QueueSound says of LogicSystem,     *)
(* TypeCorrect of the streams, and the gate's deadline timer runs for every   *)
(* open connection whose request was handled (HttpConnection::CheckDeadline). *)
THEOREM PartsAreSound == PartsSpec => []PartsSound
<1>1. RxInv /\ TxInv => TypeOK
  BY StreamTyped
<1>2. PartsInv => PartsSound
  BY <1>1, ProcessDropsNothing
    DEF PartsInv, PartsSound, ProcessInv, ProcessTyped, HttpInv
<1> QED
  BY <1>2, InitPartsInv, NextPartsInv, PTL DEF PartsSpec
=============================================================================
