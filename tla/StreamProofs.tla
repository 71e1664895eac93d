---------------------------- MODULE StreamProofs ----------------------------
(***************************************************************************)
(* Proofs about Stream, for every script, completion and chunking: types,  *)
(* one settlement and one row, a scanner whose result does not depend on   *)
(* where the chunks were cut, a price basis that tells how the stream      *)
(* ended, and an end the client can trust.                                 *)
(***************************************************************************)
EXTENDS Stream, SumsProofs, FiniteSetTheorems, SequenceTheorems

USE StreamAssumption

(***************************************************************************)
(* The members of a set of naturals, counted from below.                   *)
(***************************************************************************)
Marks(C, L) == L \in Nat /\ C \in SUBSET (1..L)
Upto(C, k) == {d \in C : d <= k}

LEMMA MarkMember ==
  ASSUME NEW L, NEW C, Marks(C, L), NEW d \in C
  PROVE  d \in 1..L /\ d \in Nat /\ d >= 1 /\ d <= L /\ L \in Nat
BY DEF Marks

LEMMA UptoFinite ==
  ASSUME NEW L, NEW C, Marks(C, L), NEW k \in Int
  PROVE  /\ IsFiniteSet(C) /\ IsFiniteSet(Upto(C, k))
         /\ Cardinality(C) \in Nat /\ Cardinality(Upto(C, k)) \in 0..Cardinality(C)
<1>1. IsFiniteSet(1..L)  BY FS_Interval DEF Marks
<1>2. IsFiniteSet(C)  BY <1>1, FS_Subset DEF Marks
<1>3. Upto(C, k) \in SUBSET C  BY DEF Upto
<1>4. QED  BY <1>2, <1>3, FS_Subset, FS_CardinalityType

\* Of two members of C the greater has more members up to it.
LEMMA UptoGrows ==
  ASSUME NEW L, NEW C, Marks(C, L), NEW j \in Int, NEW k \in C, j < k
  PROVE  Cardinality(Upto(C, j)) < Cardinality(Upto(C, k))
<1>0. \A d \in C : d \in Int  BY MarkMember
<1>1. k \in Int  BY <1>0
<1>2. Upto(C, j) \subseteq Upto(C, k) /\ k \in Upto(C, k) /\ k \notin Upto(C, j)
  <2>1. \A d \in C : d <= j => d <= k  BY <1>0, <1>1
  <2>2. k <= k /\ ~ (k <= j)  BY <1>1
  <2>3. Upto(C, j) \subseteq Upto(C, k)  BY <2>1 DEF Upto
  <2>4. QED  BY <2>2, <2>3 DEF Upto
<1>3. IsFiniteSet(Upto(C, j)) /\ IsFiniteSet(Upto(C, k))  BY <1>1, UptoFinite
<1>4. Upto(C, j) # Upto(C, k)  BY <1>2
<1>5. /\ Cardinality(Upto(C, j)) <= Cardinality(Upto(C, k))
      /\ Cardinality(Upto(C, j)) # Cardinality(Upto(C, k))
  BY <1>2, <1>3, <1>4, FS_Subset
<1>6. Cardinality(Upto(C, j)) \in Nat /\ Cardinality(Upto(C, k)) \in Nat
  BY <1>3, FS_CardinalityType
<1>7. QED  BY <1>5, <1>6

\* There is an i-th member for every i up to the size of C.
LEMMA UptoOnto ==
  ASSUME NEW L, NEW C, Marks(C, L), NEW i \in 1..Cardinality(C)
  PROVE  \E c \in C : Cardinality(Upto(C, c)) = i
<1> DEFINE T == {k \in 0..L : Cardinality(Upto(C, k)) >= i}
<1>0. L \in Nat /\ \A d \in C : d \in Nat /\ d >= 1 /\ d <= L  BY MarkMember DEF Marks
<1>1. Upto(C, L) = C  BY <1>0 DEF Upto
<1>2. \A k \in 0..L : k \in Int /\ IsFiniteSet(Upto(C, k)) /\ Cardinality(Upto(C, k)) \in Nat
  <2>1. \A k \in Int : IsFiniteSet(Upto(C, k)) /\ Cardinality(Upto(C, k)) \in 0..Cardinality(C)
    BY UptoFinite
  <2>2. QED  BY <1>0, <2>1
<1>3. L \in T
  <2>1. Cardinality(C) \in Nat  BY <1>0, UptoFinite
  <2>2. QED  BY <1>0, <1>1, <2>1
<1>4. PICK k \in T : \A y \in T : k <= y
  <2>1. T \subseteq Nat  BY <1>0
  <2> HIDE DEF T
  <2>2. QED  BY <1>3, <2>1, NatMinimum
<1>5. k # 0
  <2>1. Upto(C, 0) = {}  BY <1>0 DEF Upto
  <2>2. Cardinality(Upto(C, 0)) = 0  BY <2>1, FS_EmptySet
  <2>3. i >= 1  OBVIOUS
  <2>4. QED  BY <1>4, <2>2, <2>3
<1>6. k - 1 \in 0..L /\ k - 1 \notin T  BY <1>0, <1>4, <1>5
<1>7. Cardinality(Upto(C, k - 1)) < i
  <2>1. i \in Int  OBVIOUS
  <2>2. QED  BY <1>2, <1>6, <2>1
<1>8. k \in C
  <2> SUFFICES ASSUME k \notin C PROVE FALSE
    OBVIOUS
  <2>1. Upto(C, k) = Upto(C, k - 1)
    <3>1. k \in Nat  BY <1>0
    <3>2. \A d \in C : d \in Nat /\ d # k  BY <1>0
    <3>3. \A d \in C : d <= k <=> d <= k - 1  BY <3>1, <3>2
    <3>4. QED  BY <3>3 DEF Upto
  <2>2. i \in Int  OBVIOUS
  <2>3. QED  BY <1>2, <1>4, <1>6, <1>7, <2>1, <2>2
<1>9. Cardinality(Upto(C, k)) <= Cardinality(Upto(C, k - 1)) + 1
  <2>1. Upto(C, k) = Upto(C, k - 1) \cup {k}
    <3>1. k \in Nat  BY <1>0
    <3>2. \A d \in C : d \in Nat  BY <1>0
    <3>3. \A d \in C : d <= k <=> (d <= k - 1 \/ d = k)  BY <3>1, <3>2
    <3>4. QED  BY <1>8, <3>3 DEF Upto
  <2>2. IsFiniteSet(Upto(C, k - 1))  BY <1>2, <1>6
  <2>3. \/ Cardinality(Upto(C, k - 1) \cup {k}) = Cardinality(Upto(C, k - 1))
        \/ Cardinality(Upto(C, k - 1) \cup {k}) = Cardinality(Upto(C, k - 1)) + 1
    BY <2>2, FS_AddElement
  <2>4. QED  BY <1>2, <1>6, <2>1, <2>3
<1>10. Cardinality(Upto(C, k)) >= i  BY <1>4
<1>11. Cardinality(Upto(C, k)) = i
  <2>1. i \in Int  OBVIOUS
  <2>2. QED  BY <1>2, <1>4, <1>6, <1>7, <1>9, <1>10, <2>1
<1>12. QED  BY <1>8, <1>11

-----------------------------------------------------------------------------
(***************************************************************************)
(* Lines.                                                                  *)
(***************************************************************************)
Text == Seq(Symbol)
NoNewline(line) == \A i \in 1..Len(line) : line[i] # Newline

\* The i-th newline, with bounds before the first and behind the last.
Bound(text, i) ==
  IF i = 0 THEN 0 ELSE IF i > Cardinality(Cuts(text)) THEN Len(text) + 1 ELSE Cut(text, i)

LEMMA CutsOfText ==
  ASSUME NEW text \in Text
  PROVE  Len(text) \in Nat /\ Marks(Cuts(text), Len(text)) /\ Cardinality(Cuts(text)) \in Nat
<1>1. Len(text) \in Nat /\ DOMAIN text = 1..Len(text)  BY LenProperties DEF Text
<1>2. Marks(Cuts(text), Len(text))  BY <1>1 DEF Cuts, Marks
<1>3. Cardinality(Cuts(text)) \in Nat
  <2>1. 0 \in Int  OBVIOUS
  <2>2. QED  BY <1>2, <2>1, UptoFinite
<1>4. QED  BY <1>1, <1>2, <1>3

LEMMA CutIsIth ==
  ASSUME NEW text \in Text, NEW i \in 1..Cardinality(Cuts(text))
  PROVE  Cut(text, i) \in Cuts(text) /\ Cardinality(Upto(Cuts(text), Cut(text, i))) = i
<1>1. \E c \in Cuts(text) : Cardinality(Upto(Cuts(text), c)) = i
  BY CutsOfText, UptoOnto
<1>2. QED  BY <1>1 DEF Cut, Upto

\* Between two bounds there is no newline.
LEMMA BoundsAdjacent ==
  ASSUME NEW text \in Text, NEW i \in 1..(Cardinality(Cuts(text)) + 1)
  PROVE  /\ Bound(text, i - 1) \in 0..Len(text)
         /\ Bound(text, i) \in 1..(Len(text) + 1)
         /\ Bound(text, i - 1) < Bound(text, i)
         /\ \A d \in Cuts(text) : ~ (Bound(text, i - 1) < d /\ d < Bound(text, i))
<1> DEFINE C == Cuts(text)
           n == Cardinality(Cuts(text))
           lo == Bound(text, i - 1)
           hi == Bound(text, i)
<1>0. /\ Len(text) \in Nat /\ Marks(C, Len(text)) /\ n \in Nat
      /\ \A d \in C : d \in Nat /\ d >= 1 /\ d <= Len(text)
  BY CutsOfText, MarkMember
<1>1. i \in 1..(n + 1) /\ i \in Nat /\ i - 1 \in 0..n  BY <1>0
<1>2. /\ lo \in 0..Len(text) /\ Cardinality(Upto(C, lo)) = i - 1
  <2>1. CASE i = 1
    <3>1. lo = 0  BY <2>1 DEF Bound
    <3>2. Upto(C, 0) = {}  BY <1>0 DEF Upto
    <3>3. Cardinality(Upto(C, lo)) = 0  BY <3>1, <3>2, FS_EmptySet
    <3> HIDE DEF lo, C
    <3>4. QED  BY <1>0, <2>1, <3>1, <3>3
  <2>2. CASE i # 1
    <3>1. i - 1 \in 1..n /\ ~ (i - 1 > n) /\ i - 1 # 0  BY <1>0, <1>1, <2>2
    <3>2. lo = Cut(text, i - 1)  BY <3>1 DEF Bound
    <3>3. QED  BY <1>0, <3>1, <3>2, CutIsIth
  <2>3. QED  BY <2>1, <2>2
<1>3. CASE i <= n
  <2>1. i \in 1..n /\ ~ (i > n) /\ i # 0  BY <1>0, <1>1, <1>3
  <2>2. hi = Cut(text, i)  BY <2>1 DEF Bound
  <2>3. hi \in C /\ Cardinality(Upto(C, hi)) = i  BY <2>1, <2>2, CutIsIth
  <2> HIDE DEF C, n, lo, hi
  <2>4. lo < hi
    <3> SUFFICES ASSUME ~ (lo < hi) PROVE FALSE
      OBVIOUS
    <3>1. lo \in Int /\ hi \in Int /\ hi <= lo  BY <1>0, <1>2, <2>3
    <3>2. Upto(C, hi) \in SUBSET Upto(C, lo)  BY <1>0, <3>1 DEF Upto
    <3>3. IsFiniteSet(Upto(C, lo))  BY <1>0, <3>1, UptoFinite
    <3>4. Cardinality(Upto(C, hi)) <= Cardinality(Upto(C, lo))  BY <3>2, <3>3, FS_Subset
    <3>5. QED  BY <1>1, <1>2, <2>3, <3>4
  <2>5. ASSUME NEW d \in C, lo < d, d < hi PROVE FALSE
    <3>1. d \in Int /\ lo \in Int  BY <1>0, <1>2
    <3>2. Cardinality(Upto(C, lo)) < Cardinality(Upto(C, d))  BY <1>0, <2>5, <3>1, UptoGrows
    <3>3. Cardinality(Upto(C, d)) < Cardinality(Upto(C, hi))  BY <1>0, <2>3, <2>5, <3>1, UptoGrows
    <3>4. Cardinality(Upto(C, d)) \in Int  BY <1>0, <3>1, UptoFinite
    <3>5. QED  BY <1>1, <1>2, <2>3, <3>2, <3>3, <3>4
  <2>6. QED  BY <1>0, <1>2, <2>3, <2>4, <2>5 DEF C, lo, hi
<1>4. CASE ~ (i <= n)
  <2>1. i = n + 1 /\ i > n /\ i # 0  BY <1>0, <1>1, <1>4
  <2>2. hi = Len(text) + 1  BY <2>1 DEF Bound
  <2> HIDE DEF C, n, lo, hi
  <2>3. ASSUME NEW d \in C, lo < d PROVE FALSE
    <3>1. d \in Int /\ lo \in Int  BY <1>0, <1>2
    <3>2. Cardinality(Upto(C, lo)) < Cardinality(Upto(C, d))  BY <1>0, <2>3, <3>1, UptoGrows
    <3>3. Cardinality(Upto(C, d)) \in 0..Cardinality(C)  BY <1>0, <3>1, UptoFinite
    <3>4. Cardinality(C) = n  BY DEF C, n
    <3>5. QED  BY <1>0, <1>2, <2>1, <3>2, <3>3, <3>4
  <2>4. QED  BY <1>0, <1>2, <2>2, <2>3 DEF C, lo, hi
<1>5. QED  BY <1>0, <1>1, <1>3, <1>4

\* The lines are what lies between the bounds.
LEMMA LinesOfText ==
  ASSUME NEW text \in Text
  PROVE  /\ Len(Lines(text)) = Cardinality(Cuts(text)) + 1
         /\ \A i \in 1..(Cardinality(Cuts(text)) + 1) :
              /\ Lines(text)[i] = SubSeq(text, Bound(text, i - 1) + 1, Bound(text, i) - 1)
              /\ Lines(text)[i] \in Text /\ NoNewline(Lines(text)[i])
<1> DEFINE n == Cardinality(Cuts(text))
<1>0. n \in Nat /\ Len(text) \in Nat  BY CutsOfText
<1>1. \A i \in 1..(n + 1) : Lines(text)[i] = SubSeq(text, Bound(text, i - 1) + 1, Bound(text, i) - 1)
  <2> SUFFICES ASSUME NEW i \in 1..(n + 1)
               PROVE  Lines(text)[i] = SubSeq(text, Bound(text, i - 1) + 1, Bound(text, i) - 1)
    OBVIOUS
  <2> DEFINE from == IF i = 1 THEN 1 ELSE Cut(text, i - 1) + 1
             to == IF i > n THEN Len(text) ELSE Cut(text, i) - 1
  <2>1. Lines(text)[i] = SubSeq(text, from, to)  BY DEF Lines
  <2>2. from = Bound(text, i - 1) + 1
    <3>1. i = 1 => i - 1 = 0  OBVIOUS
    <3>2. i # 1 => i - 1 # 0 /\ ~ (i - 1 > n)  BY <1>0
    <3>3. QED  BY <3>1, <3>2 DEF Bound
  <2>3. to = Bound(text, i) - 1
    <3>1. i # 0  BY <1>0
    <3>2. CASE i > n  BY <1>0, <3>1, <3>2 DEF Bound
    <3>3. CASE ~ (i > n)  BY <3>1, <3>3 DEF Bound
    <3>4. QED  BY <3>2, <3>3
  <2>4. QED  BY <2>1, <2>2, <2>3
<1>2. Len(Lines(text)) = n + 1  BY <1>0 DEF Lines
<1>3. ASSUME NEW i \in 1..(n + 1)
      PROVE  Lines(text)[i] \in Text /\ NoNewline(Lines(text)[i])
  <2> DEFINE lo == Bound(text, i - 1)
             hi == Bound(text, i)
             line == SubSeq(text, lo + 1, hi - 1)
  <2>1. /\ lo \in 0..Len(text) /\ hi \in 1..(Len(text) + 1) /\ lo < hi
        /\ \A d \in Cuts(text) : ~ (lo < d /\ d < hi)
    BY BoundsAdjacent
  <2> HIDE DEF lo, hi
  <2>2. \A k \in (lo + 1)..(hi - 1) : k \in 1..Len(text)  BY <1>0, <2>1
  <2>3. \A k \in (lo + 1)..(hi - 1) : text[k] \in Symbol  BY <2>2, ElementOfSeq DEF Text
  <2>4. /\ line \in Seq(Symbol)
        /\ Len(line) = IF lo + 1 <= hi - 1 THEN (hi - 1) - (lo + 1) + 1 ELSE 0
        /\ \A k \in 1..((hi - 1) - (lo + 1) + 1) : line[k] = text[(lo + 1) + k - 1]
    <3>1. lo + 1 \in Int /\ hi - 1 \in Int  BY <1>0, <2>1
    <3>2. QED  BY <2>3, <3>1, SubSeqProperties
  <2>5. \A k \in (lo + 1)..(hi - 1) : text[k] # Newline
    <3>1. \A k \in (lo + 1)..(hi - 1) : k \notin Cuts(text)  BY <1>0, <2>1
    <3>2. DOMAIN text = 1..Len(text)  BY LenProperties DEF Text
    <3>3. QED  BY <2>2, <3>1, <3>2 DEF Cuts
  <2>6. NoNewline(line)
    <3> HIDE DEF line
    <3>1. ASSUME NEW k \in 1..Len(line) PROVE line[k] # Newline
      <4>1. lo \in Int /\ hi \in Int  BY <1>0, <2>1
      <4>2. k \in 1..((hi - 1) - (lo + 1) + 1) /\ (lo + 1) + k - 1 \in (lo + 1)..(hi - 1)
        BY <2>4, <4>1
      <4>3. QED  BY <2>4, <2>5, <4>2
    <3>2. QED  BY <3>1 DEF NoNewline
  <2>7. QED  BY <1>1, <2>4, <2>6 DEF Text, lo, hi
<1>4. QED  BY <1>1, <1>2, <1>3

\* A text up to a newline is the text up to the newline before, the line, and it.
LEMMA LineByLine ==
  ASSUME NEW text \in Text, NEW i \in 1..Cardinality(Cuts(text))
  PROVE  SubSeq(text, 1, Bound(text, i))
           = (SubSeq(text, 1, Bound(text, i - 1)) \o Lines(text)[i]) \o <<Newline>>
<1> DEFINE lo == Bound(text, i - 1)
           hi == Bound(text, i)
           n == Cardinality(Cuts(text))
           a == SubSeq(text, 1, lo)
           b == SubSeq(text, lo + 1, hi - 1)
           c == SubSeq(text, hi, hi)
<1>0. /\ Len(text) \in Nat /\ n \in Nat /\ i \in 1..(n + 1)
      /\ \A d \in Cuts(text) : d \in Nat /\ d >= 1 /\ d <= Len(text) /\ text[d] = Newline
  <2>1. Len(text) \in Nat /\ n \in Nat /\ Marks(Cuts(text), Len(text))  BY CutsOfText
  <2>2. \A d \in Cuts(text) : d \in Nat /\ d >= 1 /\ d <= Len(text)  BY <2>1, MarkMember
  <2>3. QED  BY <2>1, <2>2 DEF Cuts
<1>1. hi \in Cuts(text)
  <2>1. hi = Cut(text, i)  BY <1>0 DEF Bound
  <2>2. QED  BY <2>1, CutIsIth
<1>2. lo \in 0..Len(text) /\ lo < hi  BY <1>0, BoundsAdjacent
<1>3. Lines(text)[i] = b  BY <1>0, LinesOfText
<1> HIDE DEF lo, hi, n
<1>4. hi \in 1..Len(text) /\ text[hi] = Newline /\ lo \in Nat /\ hi \in Nat  BY <1>0, <1>1, <1>2
<1>5. text \in Seq(Symbol)  BY DEF Text
<1>6. c = <<Newline>>
  <2>1. text[hi] \in Symbol /\ hi \in Int /\ hi..hi = {hi}  BY <1>4, <1>5, ElementOfSeq
  <2>2. /\ c \in Seq(Symbol) /\ Len(c) = 1 /\ c[1] = text[hi]
    <3>1. \A k \in hi..hi : text[k] \in Symbol  BY <2>1
    <3>2. /\ c \in Seq(Symbol) /\ Len(c) = IF hi <= hi THEN hi - hi + 1 ELSE 0
          /\ \A k \in 1..(hi - hi + 1) : c[k] = text[hi + k - 1]
      BY <2>1, <3>1, SubSeqProperties
    <3>3. hi <= hi /\ hi - hi + 1 = 1 /\ hi + 1 - 1 = hi /\ 1 \in 1..1  BY <1>4
    <3> HIDE DEF c
    <3>4. QED  BY <3>2, <3>3
  <2> HIDE DEF c
  <2>3. QED  BY <1>4, <2>2
<1>7. a \o b = SubSeq(text, 1, hi - 1)
  <2>1. /\ 1 \in 1..(Len(text) + 1) /\ lo \in (1 - 1)..Len(text) /\ hi - 1 \in lo..Len(text)
    BY <1>0, <1>2, <1>4
  <2>2. QED  BY <1>5, <2>1, ConcatAdjacentSubSeq
<1>8. SubSeq(text, 1, hi - 1) \o c = SubSeq(text, 1, hi)
  <2>1. /\ 1 \in 1..(Len(text) + 1) /\ hi - 1 \in (1 - 1)..Len(text) /\ hi \in (hi - 1)..Len(text)
        /\ (hi - 1) + 1 = hi
    BY <1>0, <1>4
  <2>2. SubSeq(text, 1, hi - 1) \o SubSeq(text, (hi - 1) + 1, hi) = SubSeq(text, 1, hi)
    BY <1>5, <2>1, ConcatAdjacentSubSeq
  <2>3. QED  BY <2>1, <2>2
<1>9. QED  BY <1>3, <1>6, <1>7, <1>8 DEF lo, hi

-----------------------------------------------------------------------------
(***************************************************************************)
(* Frames.                                                                 *)
(***************************************************************************)
FrameLine(kind) == <<FrameHead(kind), FrameTail(kind)>>

LEMMA SymbolFacts ==
  /\ \A k : FrameHead(k) # Newline /\ FrameTail(k) # Newline /\ FrameHead(k)[2] = "head" /\ FrameHead(k)[1] = k
  /\ \A j, k : FrameHead(j) # FrameTail(k) /\ (FrameHead(j) = FrameHead(k) => j = k)
  /\ \A x \in Symbol : x[2] = "head" => x[1] \in Kind /\ x = FrameHead(x[1])
  /\ Newline \in Symbol /\ \A k \in Kind : FrameHead(k) \in Symbol /\ FrameTail(k) \in Symbol
<1>1. /\ \A k : FrameHead(k)[1] = k /\ FrameHead(k)[2] = "head" /\ FrameTail(k)[2] = "tail"
      /\ Newline[2] = "" /\ Heartbeat[2] = ""
  BY DEF FrameHead, FrameTail, Newline, Heartbeat
<1>2. \A x \in Symbol : \/ \E k \in Kind : x = FrameHead(k)
                        \/ \E k \in Kind : x = FrameTail(k)
                        \/ x = Newline \/ x = Heartbeat
  BY DEF Symbol
<1>3. "head" # "" /\ "tail" # "" /\ "head" # "tail"  OBVIOUS
<1>4. \A k : FrameHead(k) # Newline /\ FrameTail(k) # Newline  BY <1>1, <1>3
<1>5. \A j, k : FrameHead(j) # FrameTail(k) /\ (FrameHead(j) = FrameHead(k) => j = k)
  <2> SUFFICES ASSUME NEW j, NEW k
               PROVE  FrameHead(j) # FrameTail(k) /\ (FrameHead(j) = FrameHead(k) => j = k)
    OBVIOUS
  <2>1. FrameHead(j)[2] = "head" /\ FrameTail(k)[2] = "tail" /\ FrameHead(j)[1] = j /\ FrameHead(k)[1] = k
    BY <1>1
  <2>2. QED  BY <1>3, <2>1
<1>6. \A x \in Symbol : x[2] = "head" => \E k \in Kind : x = FrameHead(k)  BY <1>1, <1>2, <1>3
<1>7. \A x \in Symbol : x[2] = "head" => x[1] \in Kind /\ x = FrameHead(x[1])
  <2> SUFFICES ASSUME NEW x \in Symbol, x[2] = "head" PROVE x[1] \in Kind /\ x = FrameHead(x[1])
    OBVIOUS
  <2>1. PICK k \in Kind : x = FrameHead(k)  BY <1>6
  <2>2. FrameHead(k)[1] = k  BY <1>1
  <2>3. x[1] = k  BY <2>1, <2>2
  <2>4. QED  BY <2>1, <2>3
<1>8. Newline \in Symbol /\ \A k \in Kind : FrameHead(k) \in Symbol /\ FrameTail(k) \in Symbol
  BY DEF Symbol
<1>9. QED  BY <1>1, <1>4, <1>5, <1>7, <1>8

LEMMA LineDone == Front(Line("done"))[1] = FrameHead("done")
<1> DEFINE l == Line("done")
<1>1. Len(l) = 3 /\ l[1] = FrameHead("done")  BY DEF Line
<1>2. l \in Seq(Symbol)
  <2>1. "done" \in Kind  BY DEF Kind
  <2>2. QED  BY <2>1, SymbolFacts DEF Line
<1> HIDE DEF l
<1>3. Front(l) = SubSeq(l, 1, 2)
  <2>1. Len(l) - 1 = 2  BY <1>1
  <2>2. QED  BY <2>1 DEF Front
<1>4. \A k \in 1..2 : l[k] \in Symbol  BY <1>1, <1>2, ElementOfSeq
<1>5. \A k \in 1..(2 - 1 + 1) : SubSeq(l, 1, 2)[k] = l[1 + k - 1]  BY <1>4, SubSeqProperties
<1>6. SubSeq(l, 1, 2)[1] = l[1]  BY <1>5
<1>7. QED  BY <1>1, <1>3, <1>6 DEF l

\* The scanner's state.
Scanner == [buffer : Text, lastUsage : Usage \cup {"none"}, sawAnyFrame : BOOLEAN, outputBytes : Nat]

\* What one line does to the scanner.
LEMMA LineConsumed ==
  ASSUME NEW s \in Scanner, NEW line \in Text
  PROVE  /\ consumeLine(s, line) \in Scanner
         /\ consumeLine(s, line).buffer = s.buffer
         /\ \A u \in Usage : line = FrameLine(u) => consumeLine(s, line).lastUsage = u
         /\ (\A u \in Usage : line # FrameLine(u)) => consumeLine(s, line).lastUsage = s.lastUsage
         /\ consumeLine(s, line).outputBytes = s.outputBytes + IF line = FrameLine("text") THEN 1 ELSE 0
<1> DEFINE isData == line # <<>> /\ line[1][2] = "head" /\ line # Front(Line("done"))
           kind == IF isData /\ line = <<line[1], FrameTail(line[1][1])>> THEN line[1][1] ELSE "none"
           last == IF kind \in Usage THEN kind ELSE s.lastUsage
           saw == s.sawAnyFrame \/ isData
           bytes == s.outputBytes + IF kind = "text" THEN 1 ELSE 0
<1>1. consumeLine(s, line) = [s EXCEPT !.sawAnyFrame = saw, !.lastUsage = last, !.outputBytes = bytes]
  BY DEF consumeLine
<1>2. \A k : k # "done" /\ line = FrameLine(k) => kind = k
  <2> SUFFICES ASSUME NEW k, k # "done", line = FrameLine(k) PROVE kind = k
    OBVIOUS
  <2>1. line # <<>> /\ line[1] = FrameHead(k) /\ line[1][2] = "head" /\ line[1][1] = k
    BY SymbolFacts DEF FrameLine
  <2>2. line # Front(Line("done"))  BY <2>1, LineDone, SymbolFacts
  <2>3. QED  BY <2>1, <2>2 DEF FrameLine
<1>3. kind # "none" => line = FrameLine(kind)
  <2> SUFFICES ASSUME kind # "none" PROVE line = FrameLine(kind)
    OBVIOUS
  <2>1. isData /\ line = <<line[1], FrameTail(line[1][1])>> /\ kind = line[1][1]  OBVIOUS
  <2>2. line[1] \in Symbol
    <3>1. Len(line) = 2  BY <2>1
    <3>2. 1 \in 1..Len(line)  BY <3>1
    <3>3. QED  BY <3>2, ElementOfSeq DEF Text
  <2>3. line[1] = FrameHead(line[1][1])  BY <2>1, <2>2, SymbolFacts
  <2>4. QED  BY <2>1, <2>3 DEF FrameLine
<1> HIDE DEF kind
<1>4. s.lastUsage \in Usage \cup {"none"} /\ s.outputBytes \in Nat /\ s.sawAnyFrame \in BOOLEAN
  BY DEF Scanner
<1>5. last \in Usage \cup {"none"} /\ bytes \in Nat /\ saw \in BOOLEAN
  <2>1. saw \in BOOLEAN  BY <1>4
  <2>2. QED  BY <1>4, <2>1
<1>6. /\ \A u \in Usage : line = FrameLine(u) => last = u
      /\ (\A u \in Usage : line # FrameLine(u)) => last = s.lastUsage
  <2>1. \A u \in Usage : u # "done" /\ u # "none"  BY DEF Usage
  <2>2. QED  BY <1>2, <1>3, <2>1
<1>7. bytes = s.outputBytes + IF line = FrameLine("text") THEN 1 ELSE 0
  <2>1. "text" # "done" /\ "text" # "none"  OBVIOUS
  <2>2. kind = "text" <=> line = FrameLine("text")  BY <1>2, <1>3, <2>1
  <2>3. QED  BY <2>2
<1> HIDE DEF last, saw, bytes
<1>8. /\ consumeLine(s, line) \in Scanner /\ consumeLine(s, line).buffer = s.buffer
      /\ consumeLine(s, line).lastUsage = last /\ consumeLine(s, line).outputBytes = bytes
  <2> DEFINE x1 == [s EXCEPT !.sawAnyFrame = saw]
             x2 == [x1 EXCEPT !.lastUsage = last]
             x3 == [x2 EXCEPT !.outputBytes = bytes]
  <2>1. x1 \in Scanner /\ x1.buffer = s.buffer  BY <1>5 DEF Scanner
  <2> HIDE DEF x1
  <2>2. x2 \in Scanner /\ x2.buffer = s.buffer /\ x2.lastUsage = last  BY <1>5, <2>1 DEF Scanner
  <2> HIDE DEF x2
  <2>3. x3 \in Scanner /\ x3.buffer = s.buffer /\ x3.lastUsage = last /\ x3.outputBytes = bytes
    BY <1>5, <2>2 DEF Scanner
  <2>4. consumeLine(s, line) = x3  BY <1>1 DEF x1, x2
  <2>5. QED  BY <2>3, <2>4
<1>9. QED  BY <1>6, <1>7, <1>8

\* q is made of whole lines.
Whole(q) == q = <<>> \/ q[Len(q)] = Newline

\* The text p consists of whole lines q, one more line, and perhaps its newline.
Extends(p, q, line) ==
  /\ p \in Text /\ q \in Text /\ line \in Text
  /\ Whole(q) /\ NoNewline(line)
  /\ p = q \o line \/ p = (q \o line) \o <<Newline>>

\* The same, symbol by symbol: n symbols of q, m of the line, l of p.
Aligned(p, q, line, n, m, l) ==
  /\ n \in Nat /\ m \in Nat /\ l \in Nat
  /\ l = n + m \/ l = n + m + 1
  /\ DOMAIN p = 1..l /\ DOMAIN q = 1..n
  /\ \A j \in 1..n : p[j] = q[j]
  /\ \A j \in 1..m : p[n + j] = line[j] /\ line[j] # Newline
  /\ l = n + m + 1 => p[l] = Newline
  /\ n > 0 => q[n] = Newline

LEMMA ExtendsAligned ==
  ASSUME NEW p, NEW q, NEW line, Extends(p, q, line)
  PROVE  Aligned(p, q, line, Len(q), Len(line), Len(p))
<1>1. q \in Seq(Symbol) /\ line \in Seq(Symbol) /\ p \in Seq(Symbol)  BY DEF Extends, Text
<1> DEFINE n == Len(q)
           m == Len(line)
           l == Len(p)
           w == q \o line
<1>2. n \in Nat /\ m \in Nat /\ l \in Nat /\ DOMAIN p = 1..l /\ DOMAIN q = 1..n
  BY <1>1, LenProperties
<1>3. /\ w \in Seq(Symbol) /\ Len(w) = n + m
      /\ \A i \in 1..(n + m) : w[i] = IF i <= n THEN q[i] ELSE line[i - n]
  BY <1>1, ConcatProperties
<1>4. p = w \/ p = w \o <<Newline>>  BY DEF Extends
<1>5. /\ \A j \in 1..m : line[j] # Newline
      /\ n > 0 => q[n] = Newline
  <2>1. Whole(q) /\ NoNewline(line)  BY DEF Extends
  <2>2. \A j \in 1..m : line[j] # Newline  BY <2>1 DEF NoNewline
  <2>3. n > 0 => q # <<>>
    <3>1. q = <<>> => n = 0  OBVIOUS
    <3>2. QED  BY <1>2, <3>1
  <2>4. n > 0 => q[n] = Newline  BY <2>1, <2>3 DEF Whole
  <2>5. QED  BY <2>2, <2>4
<1>6. p = w => l = n + m  BY <1>3
<1>7. p = w \o <<Newline>> =>
        /\ l = n + m + 1
        /\ \A i \in 1..(n + m + 1) : p[i] = IF i <= n + m THEN w[i] ELSE <<Newline>>[i - (n + m)]
  <2>1. <<Newline>> \in Seq(Symbol) /\ Len(<<Newline>>) = 1  BY SymbolFacts
  <2>2. QED  BY <1>3, <2>1, ConcatProperties
<1>8. <<Newline>>[1] = Newline  OBVIOUS
<1> DEFINE nl == <<Newline>>
<1> HIDE DEF n, m, l, w, nl
<1>9. /\ \A j \in 1..n : w[j] = q[j]
      /\ \A j \in 1..m : w[n + j] = line[j]
  BY ONLY <1>2, <1>3
<1>10. CASE p = w
  <2>1. l = n + m /\ l # n + m + 1  BY ONLY <1>2, <1>6, <1>10
  <2>2. QED  BY ONLY <1>2, <1>5, <1>9, <1>10, <2>1 DEF Aligned, n, m, l
<1>11. CASE p = w \o <<Newline>>
  <2>1. l = n + m + 1  BY <1>7, <1>11
  <2>2. \A i \in 1..(n + m + 1) : p[i] = IF i <= n + m THEN w[i] ELSE nl[i - (n + m)]
    BY <1>7, <1>11 DEF nl
  <2>3. nl[1] = Newline  BY <1>8 DEF nl
  <2>4. p[l] = Newline
    <3>1. l \in 1..(n + m + 1) /\ ~ (l <= n + m) /\ l - (n + m) = 1  BY ONLY <1>2, <2>1
    <3>2. p[l] = nl[l - (n + m)]  BY ONLY <2>2, <3>1
    <3>3. QED  BY ONLY <2>3, <3>1, <3>2
  <2>5. \A j \in 1..n : p[j] = w[j]
    <3>1. \A j \in 1..n : j \in 1..(n + m + 1) /\ j <= n + m  BY ONLY <1>2
    <3>2. QED  BY ONLY <2>2, <3>1
  <2>6. \A j \in 1..m : p[n + j] = w[n + j]
    <3>1. \A j \in 1..m : n + j \in 1..(n + m + 1) /\ n + j <= n + m  BY ONLY <1>2
    <3>2. QED  BY ONLY <2>2, <3>1
  <2>7. QED  BY ONLY <1>2, <1>5, <1>9, <2>1, <2>4, <2>5, <2>6 DEF Aligned, n, m, l
<1>12. QED  BY <1>4, <1>10, <1>11 DEF Aligned

\* The line is exactly one frame of kind k.
Single(line, m, k) == m = 2 /\ line[1] = FrameHead(k) /\ line[2] = FrameTail(k)

LEMMA FramesAligned ==
  ASSUME NEW p, NEW q, NEW line, NEW n, NEW m, NEW l, Aligned(p, q, line, n, m, l),
         NEW k, NEW i \in Nat, i >= 1
  PROVE  FrameAt(p, i, k) <=> (FrameAt(q, i, k) \/ (i = n + 1 /\ Single(line, m, k)))
<1>1. /\ n \in Nat /\ m \in Nat /\ l \in Nat
      /\ l = n + m \/ l = n + m + 1
      /\ DOMAIN p = 1..l /\ DOMAIN q = 1..n
      /\ n > 0 => q[n] = Newline
  BY DEF Aligned
<1>2. /\ \A j \in 1..n : p[j] = q[j]
      /\ \A j \in 1..m : p[n + j] = line[j] /\ line[j] # Newline
      /\ l = n + m + 1 => p[l] = Newline
  BY DEF Aligned
<1>3. FrameHead(k) # Newline /\ FrameTail(k) # Newline  BY SymbolFacts
<1>4. CASE i <= n
  <2>1. i # n + 1  BY ONLY <1>1, <1>4, i \in Nat
  <2>2. CASE i + 1 < n /\ i >= 1
    <3>1. /\ i \in 1..n /\ i + 1 \in 1..n /\ i + 2 \in 1..n /\ (i # 1 => i - 1 \in 1..n)
          /\ i + 1 \in 1..l /\ i + 2 \in 1..l
      BY ONLY <1>1, <2>2, i \in Nat
    <3>2. /\ p[i] = q[i] /\ p[i + 1] = q[i + 1] /\ p[i + 2] = q[i + 2]
          /\ i # 1 => p[i - 1] = q[i - 1]
      BY ONLY <1>2, <3>1
    <3>3. QED  BY ONLY <1>1, <2>1, <3>1, <3>2 DEF FrameAt
  <2>4. CASE i + 1 >= n /\ i >= 1
    <3>1. n \in 1..n /\ (i = n \/ i + 1 = n) /\ n > 0  BY ONLY <1>1, <1>4, <2>4, i \in Nat
    <3>2. q[n] = Newline /\ p[n] = Newline  BY ONLY <1>1, <1>2, <3>1
    <3>3. ~ FrameAt(p, i, k)  BY ONLY <1>3, <3>1, <3>2 DEF FrameAt
    <3>4. ~ FrameAt(q, i, k)  BY ONLY <1>3, <3>1, <3>2 DEF FrameAt
    <3>5. QED  BY ONLY <2>1, <3>3, <3>4
  <2>5. QED  BY ONLY <1>1, <2>2, <2>4, i \in Nat, i >= 1
<1>5. CASE i > n
  <2>1. ~ FrameAt(q, i, k)
    <3>1. i + 1 \notin 1..n  BY ONLY <1>1, <1>5, i \in Nat
    <3>2. QED  BY ONLY <1>1, <3>1 DEF FrameAt
  <2>2. ASSUME FrameAt(p, i, k) PROVE i = n + 1 /\ Single(line, m, k)
    <3>1. /\ i + 1 \in 1..l /\ p[i] = FrameHead(k) /\ p[i + 1] = FrameTail(k)
          /\ i = 1 \/ p[i - 1] = Newline
          /\ i + 2 \in 1..l => p[i + 2] = Newline
      BY ONLY <1>1, <2>2 DEF FrameAt
    <3>2. i + 1 <= n + m
      <4> SUFFICES ASSUME ~ (i + 1 <= n + m) PROVE FALSE
        OBVIOUS
      <4>1. l = n + m + 1 /\ i + 1 = l  BY ONLY <1>1, <3>1, ~ (i + 1 <= n + m), i \in Nat
      <4>2. QED  BY ONLY <1>2, <1>3, <3>1, <4>1
    <3>3. i = n + 1
      <4> SUFFICES ASSUME i # n + 1 PROVE FALSE
        OBVIOUS
      <4>1. i # 1 /\ i - 1 - n \in 1..m /\ n + (i - 1 - n) = i - 1
        BY ONLY <1>1, <1>5, <3>2, i # n + 1, i \in Nat
      <4>2. p[i - 1] # Newline  BY ONLY <1>2, <4>1
      <4>3. QED  BY ONLY <3>1, <4>1, <4>2
    <3>4. m = 2
      <4> SUFFICES ASSUME m # 2 PROVE FALSE
        OBVIOUS
      <4>1. 3 \in 1..m /\ i + 2 = n + 3 /\ i + 2 \in 1..l
        BY ONLY <1>1, <3>2, <3>3, m # 2
      <4>2. p[i + 2] # Newline  BY ONLY <1>2, <4>1
      <4>3. QED  BY ONLY <3>1, <4>1, <4>2
    <3>5. 1 \in 1..m /\ 2 \in 1..m /\ i + 1 = n + 2  BY ONLY <1>1, <3>3, <3>4
    <3>6. p[n + 1] = line[1] /\ p[n + 2] = line[2]  BY ONLY <1>2, <3>5
    <3>7. QED  BY ONLY <3>1, <3>3, <3>4, <3>5, <3>6 DEF Single
  <2>3. ASSUME i = n + 1, Single(line, m, k) PROVE FrameAt(p, i, k)
    <3>1. m = 2 /\ line[1] = FrameHead(k) /\ line[2] = FrameTail(k)  BY ONLY <2>3 DEF Single
    <3>2. 1 \in 1..m /\ 2 \in 1..m /\ i + 1 = n + 2 /\ i + 1 \in 1..l
      BY ONLY <1>1, <2>3, <3>1
    <3>3. p[n + 1] = line[1] /\ p[n + 2] = line[2]  BY ONLY <1>2, <3>2
    <3>4. i = 1 \/ p[i - 1] = Newline
      <4> SUFFICES ASSUME i # 1 PROVE p[i - 1] = Newline
        OBVIOUS
      <4>1. i - 1 = n /\ n > 0 /\ n \in 1..n  BY ONLY <1>1, <2>3, i # 1, i \in Nat
      <4>2. p[n] = Newline  BY ONLY <1>1, <1>2, <4>1
      <4>3. QED  BY ONLY <4>1, <4>2
    <3>5. i + 2 \in 1..l => p[i + 2] = Newline
      <4> SUFFICES ASSUME i + 2 \in 1..l PROVE p[i + 2] = Newline
        OBVIOUS
      <4>1. i + 2 = l /\ l = n + m + 1  BY ONLY <1>1, <2>3, <3>1, i + 2 \in 1..l
      <4>2. QED  BY ONLY <1>2, <4>1
    <3>6. QED  BY ONLY <1>1, <2>3, <3>1, <3>2, <3>3, <3>4, <3>5 DEF FrameAt
  <2>4. QED  BY ONLY <2>1, <2>2, <2>3
<1>6. QED  BY ONLY <1>1, <1>4, <1>5, i \in Nat

LEMMA SingleLine ==
  ASSUME NEW line \in Text, NEW k
  PROVE  Single(line, Len(line), k) <=> line = FrameLine(k)
<1>1. line \in Seq(Symbol)  BY DEF Text
<1>2. ASSUME Single(line, Len(line), k) PROVE line = FrameLine(k)
  <2>1. Len(line) = 2 /\ line[1] = FrameHead(k) /\ line[2] = FrameTail(k)  BY <1>2 DEF Single
  <2>2. QED  BY <1>1, <2>1 DEF FrameLine
<1>3. line = FrameLine(k) => Single(line, Len(line), k)  BY DEF FrameLine, Single
<1>4. QED  BY <1>2, <1>3

\* The frames of p are those of q, and the line if it is one.
LEMMA FramesExtend ==
  ASSUME NEW p, NEW q, NEW line, Extends(p, q, line), NEW k
  PROVE  /\ Len(q) \in Nat /\ DOMAIN q = 1..Len(q)
         /\ \A i \in DOMAIN p : i \in Nat /\ i >= 1
         /\ \A i \in DOMAIN p : FrameAt(p, i, k) <=> FrameAt(q, i, k) \/ (i = Len(q) + 1 /\ line = FrameLine(k))
         /\ \A i \in Nat \ {0} : FrameAt(q, i, k) => i \in DOMAIN q /\ i \in DOMAIN p /\ i <= Len(q)
         /\ line = FrameLine(k) => Len(q) + 1 \in DOMAIN p
<1> DEFINE n == Len(q)
           m == Len(line)
           l == Len(p)
<1>1. Aligned(p, q, line, n, m, l)  BY ExtendsAligned
<1>2. Single(line, m, k) <=> line = FrameLine(k)  BY SingleLine DEF Extends
<1> HIDE DEF n, m, l
<1>3. /\ n \in Nat /\ m \in Nat /\ l \in Nat /\ (l = n + m \/ l = n + m + 1)
      /\ DOMAIN p = 1..l /\ DOMAIN q = 1..n
  BY <1>1 DEF Aligned
<1>4. \A i \in DOMAIN p : i \in Nat /\ i >= 1  BY ONLY <1>3
<1>5. \A i \in DOMAIN p : FrameAt(p, i, k) <=> FrameAt(q, i, k) \/ (i = n + 1 /\ line = FrameLine(k))
  <2> SUFFICES ASSUME NEW i \in DOMAIN p
               PROVE  FrameAt(p, i, k) <=> FrameAt(q, i, k) \/ (i = n + 1 /\ line = FrameLine(k))
    OBVIOUS
  <2>1. i \in Nat /\ i >= 1  BY <1>4
  <2>2. FrameAt(p, i, k) <=> (FrameAt(q, i, k) \/ (i = n + 1 /\ Single(line, m, k)))
    BY <1>1, <2>1, FramesAligned
  <2>3. QED  BY <1>2, <2>2
<1>6. \A i \in Nat \ {0} : FrameAt(q, i, k) => i \in DOMAIN q /\ i \in DOMAIN p /\ i <= n
  <2> SUFFICES ASSUME NEW i \in Nat \ {0}, FrameAt(q, i, k)
               PROVE  i \in DOMAIN q /\ i \in DOMAIN p /\ i <= n
    OBVIOUS
  <2>1. i + 1 \in 1..n  BY <1>3 DEF FrameAt
  <2>2. i \in 1..n /\ i \in 1..l /\ i <= n  BY ONLY <1>3, <2>1, i \in Nat \ {0}
  <2>3. QED  BY <1>3, <2>2
<1>7. line = FrameLine(k) => n + 1 \in DOMAIN p
  <2>1. Single(line, m, k) => m = 2  BY DEF Single
  <2>2. m = 2 => n + 1 \in DOMAIN p  BY ONLY <1>3
  <2>3. QED  BY <1>2, <2>1, <2>2
<1>8. QED  BY <1>3, <1>4, <1>5, <1>6, <1>7 DEF n

TextAt(p) == {i \in DOMAIN p : FrameAt(p, i, "text")}
UsageAt(p) == {x \in (DOMAIN p) \X Usage : FrameAt(p, x[1], x[2])}

LEMMA TextExtend ==
  ASSUME NEW p, NEW q, NEW line, Extends(p, q, line)
  PROVE  /\ TextFrames(q) \in Nat
         /\ TextFrames(p) = TextFrames(q) + IF line = FrameLine("text") THEN 1 ELSE 0
<1> DEFINE n == Len(q)
<1>1. /\ n \in Nat /\ DOMAIN q = 1..n
      /\ \A i \in DOMAIN p : i \in Nat /\ i >= 1
      /\ \A i \in DOMAIN p : FrameAt(p, i, "text") <=> FrameAt(q, i, "text") \/ (i = n + 1 /\ line = FrameLine("text"))
      /\ \A i \in Nat \ {0} : FrameAt(q, i, "text") => i \in DOMAIN q /\ i \in DOMAIN p /\ i <= n
      /\ line = FrameLine("text") => n + 1 \in DOMAIN p
  BY FramesExtend
<1> HIDE DEF n
<1>2. IsFiniteSet(TextAt(q)) /\ Cardinality(TextAt(q)) \in Nat
  <2>1. IsFiniteSet(1..n)  BY <1>1, FS_Interval
  <2>2. TextAt(q) \subseteq 1..n  BY <1>1 DEF TextAt
  <2>3. QED  BY <2>1, <2>2, FS_Subset, FS_CardinalityType
<1>3. \A i \in TextAt(q) : i \in DOMAIN p /\ i <= n /\ FrameAt(q, i, "text")
  <2>1. \A i \in DOMAIN q : i \in Nat \ {0}  BY <1>1
  <2>2. QED  BY <1>1, <2>1 DEF TextAt
<1>4. \A i \in TextAt(p) : FrameAt(q, i, "text") => i \in TextAt(q)
  <2>1. \A i \in DOMAIN p : i \in Nat \ {0}  BY <1>1
  <2>2. QED  BY <1>1, <2>1 DEF TextAt
<1>5. CASE line = FrameLine("text")
  <2>1. n + 1 \notin TextAt(q)
    <3>1. ~ (n + 1 <= n)  BY <1>1
    <3>2. QED  BY <1>3, <3>1
  <2>2. TextAt(p) = TextAt(q) \cup {n + 1}
    <3>1. TextAt(p) \subseteq TextAt(q) \cup {n + 1}  BY <1>1, <1>4 DEF TextAt
    <3>2. \A i \in TextAt(q) : i \in TextAt(p)  BY <1>1, <1>3 DEF TextAt
    <3>3. n + 1 \in TextAt(p)  BY <1>1, <1>5 DEF TextAt
    <3>4. QED  BY <3>1, <3>2, <3>3
  <2>3. Cardinality(TextAt(p)) = Cardinality(TextAt(q)) + 1  BY <1>2, <2>1, <2>2, FS_AddElement
  <2>4. QED  BY <1>2, <1>5, <2>3 DEF TextFrames, TextAt
<1>6. CASE line # FrameLine("text")
  <2>1. TextAt(p) = TextAt(q)
    <3>1. \A i \in TextAt(p) : i \in TextAt(q)  BY <1>1, <1>4, <1>6 DEF TextAt
    <3>2. \A i \in TextAt(q) : i \in TextAt(p)  BY <1>1, <1>3 DEF TextAt
    <3>3. QED  BY <3>1, <3>2
  <2>2. TextFrames(p) = TextFrames(q) /\ TextFrames(q) \in Nat
    BY <1>2, <2>1 DEF TextFrames, TextAt
  <2>3. QED  BY <1>6, <2>2
<1>7. QED  BY <1>5, <1>6

LEMMA UsageExtend ==
  ASSUME NEW p, NEW q, NEW line, Extends(p, q, line)
  PROVE  /\ \A u \in Usage : line = FrameLine(u) => LastUsage(p) = u
         /\ (\A u \in Usage : line # FrameLine(u)) => LastUsage(p) = LastUsage(q)
<1> DEFINE n == Len(q)
           latest(at) == CHOOSE x \in at : \A y \in at : y[1] <= x[1]
<1>0. n \in Nat  BY FramesExtend
<1>1. \A k \in Usage :
        /\ \A i \in DOMAIN p : FrameAt(p, i, k) <=> FrameAt(q, i, k) \/ (i = n + 1 /\ line = FrameLine(k))
        /\ \A i \in Nat \ {0} : FrameAt(q, i, k) => i \in DOMAIN q /\ i \in DOMAIN p /\ i <= n
        /\ line = FrameLine(k) => n + 1 \in DOMAIN p
  BY FramesExtend
<1>2. \A i \in DOMAIN p : i \in Nat \ {0} 
  <2>1. \A i \in DOMAIN p : i \in Nat /\ i >= 1  BY FramesExtend
  <2>2. QED  BY <2>1
<1>3. \A i \in DOMAIN q : i \in Nat \ {0}
  <2>1. DOMAIN q = 1..n  BY FramesExtend
  <2>2. QED  BY <1>0, <2>1
<1>4. \A r : LastUsage(r) = IF UsageAt(r) = {} THEN "none" ELSE latest(UsageAt(r))[2]
  BY DEF LastUsage, UsageAt
<1> HIDE DEF n
<1>5. ASSUME NEW u \in Usage, line = FrameLine(u) PROVE LastUsage(p) = u
  <2> DEFINE top == <<n + 1, u>>
  <2>1. top \in UsageAt(p)  BY <1>1, <1>5 DEF UsageAt
  <2>2. \A y \in UsageAt(p) : y[1] \in Nat /\ y[1] <= n + 1
    <3> SUFFICES ASSUME NEW y \in UsageAt(p) PROVE y[1] \in Nat /\ y[1] <= n + 1
      OBVIOUS
    <3>1. y[1] \in DOMAIN p /\ y[2] \in Usage /\ FrameAt(p, y[1], y[2])  BY DEF UsageAt
    <3>2. y[1] \in Nat \ {0}  BY <1>2, <3>1
    <3>3. y[1] <= n \/ y[1] = n + 1  BY <1>1, <3>1, <3>2
    <3>4. QED  BY <1>0, <3>2, <3>3
  <2> DEFINE x == latest(UsageAt(p))
  <2>3. x \in UsageAt(p) /\ \A y \in UsageAt(p) : y[1] <= x[1]
    <3>1. top[1] = n + 1  OBVIOUS
    <3>2. \A y \in UsageAt(p) : y[1] <= top[1]  BY <2>2, <3>1
    <3> HIDE DEF top
    <3>3. QED  BY <2>1, <3>2
  <2>4. x[1] = n + 1
    <3>1. n + 1 <= x[1]  BY <2>1, <2>3
    <3> HIDE DEF x
    <3>2. x[1] \in Nat /\ x[1] <= n + 1  BY <2>2, <2>3
    <3>3. QED  BY <1>0, <3>1, <3>2
  <2> HIDE DEF x
  <2>5. p[n + 1] = FrameHead(x[2])  BY <2>3, <2>4 DEF UsageAt, FrameAt
  <2>6. p[n + 1] = FrameHead(u)
    <3>1. top[1] = n + 1 /\ top[2] = u  OBVIOUS
    <3>2. FrameAt(p, top[1], top[2])  BY <2>1 DEF UsageAt
    <3>3. QED  BY <3>1, <3>2 DEF FrameAt
  <2>7. x[2] = u  BY <2>5, <2>6, SymbolFacts
  <2>8. UsageAt(p) # {}  BY <2>1
  <2>9. QED  BY <1>4, <2>7, <2>8 DEF x
<1>6. ASSUME \A u \in Usage : line # FrameLine(u) PROVE LastUsage(p) = LastUsage(q)
  <2>1. \A x \in UsageAt(p) : x \in UsageAt(q)
    <3> SUFFICES ASSUME NEW x \in UsageAt(p) PROVE x \in UsageAt(q)
      OBVIOUS
    <3>1. /\ x[1] \in DOMAIN p /\ x[2] \in Usage /\ FrameAt(p, x[1], x[2])
          /\ x = <<x[1], x[2]>>
      BY DEF UsageAt
    <3>2. FrameAt(q, x[1], x[2])  BY <1>1, <1>6, <3>1
    <3>3. x[1] \in Nat \ {0}  BY <1>2, <3>1
    <3>4. x[1] \in DOMAIN q  BY <1>1, <3>1, <3>2, <3>3
    <3>5. QED  BY <3>1, <3>2, <3>4 DEF UsageAt
  <2>2. \A x \in UsageAt(q) : x \in UsageAt(p)
    <3> SUFFICES ASSUME NEW x \in UsageAt(q) PROVE x \in UsageAt(p)
      OBVIOUS
    <3>1. /\ x[1] \in DOMAIN q /\ x[2] \in Usage /\ FrameAt(q, x[1], x[2])
          /\ x = <<x[1], x[2]>>
      BY DEF UsageAt
    <3>2. x[1] \in Nat \ {0}  BY <1>3, <3>1
    <3>3. x[1] \in DOMAIN p  BY <1>1, <3>1, <3>2
    <3>4. FrameAt(p, x[1], x[2])  BY <1>1, <3>1, <3>3
    <3>5. QED  BY <3>1, <3>3, <3>4 DEF UsageAt
  <2>3. UsageAt(p) = UsageAt(q)  BY <2>1, <2>2
  <2> HIDE DEF latest
  <2>4. LastUsage(p) = IF UsageAt(p) = {} THEN "none" ELSE latest(UsageAt(p))[2]  BY <1>4
  <2>5. LastUsage(q) = IF UsageAt(q) = {} THEN "none" ELSE latest(UsageAt(q))[2]  BY <1>4
  <2>6. QED  BY ONLY <2>3, <2>4, <2>5
<1>7. QED  BY <1>5, <1>6

LEMMA EmptyText ==
  <<>> \in Text /\ Whole(<<>>) /\ LastUsage(<<>>) = "none" /\ TextFrames(<<>>) = 0
<1>1. DOMAIN (<<>>) = {}  OBVIOUS
<1>2. {x \in (DOMAIN (<<>>)) \X Usage : FrameAt(<<>>, x[1], x[2])} = {}  BY <1>1
<1>3. {i \in DOMAIN (<<>>) : FrameAt(<<>>, i, "text")} = {}  BY <1>1
<1>4. TextFrames(<<>>) = 0  BY <1>3, FS_EmptySet DEF TextFrames
<1>5. LastUsage(<<>>) = "none"  BY <1>2 DEF LastUsage
<1>6. QED  BY <1>4, <1>5 DEF Text, Whole

-----------------------------------------------------------------------------
(***************************************************************************)
(* The scanner follows the text.                                           *)
(***************************************************************************)

\* The equation that defines Consumed.
IsConsumed(F, s, lines, n) ==
  F = [i \in 0..n |-> IF i = 0 THEN s ELSE consumeLine(F[i - 1], lines[i])]

LEMMA ConsumedExists ==
  ASSUME NEW n \in Nat, NEW s, NEW lines
  PROVE  \E F : IsConsumed(F, s, lines, n)
<1> DEFINE T == {m \in Nat : ~ \E F : IsConsumed(F, s, lines, m)}
<1> SUFFICES ASSUME T # {} PROVE FALSE
  OBVIOUS
<1> HIDE DEF T
<1>1. PICK m \in T : \A y \in T : m <= y
  <2>1. T \subseteq Nat  BY DEF T
  <2>2. QED  BY <2>1, NatMinimum
<1>2. m \in Nat /\ ~ \E F : IsConsumed(F, s, lines, m)  BY <1>1 DEF T
<1>3. m # 0
  <2>1. IsConsumed([i \in 0..0 |-> s], s, lines, 0)  BY DEF IsConsumed
  <2>2. QED  BY <2>1, <1>2
<1>4. m - 1 \in Nat /\ m - 1 \notin T  BY <1>1, <1>2, <1>3
<1>5. PICK F : IsConsumed(F, s, lines, m - 1)  BY <1>4 DEF T
<1> DEFINE G == [i \in 0..m |-> IF i = m THEN consumeLine(F[m - 1], lines[m]) ELSE F[i]]
<1>6. IsConsumed(G, s, lines, m)
  <2>1. F = [i \in 0..(m - 1) |-> IF i = 0 THEN s ELSE consumeLine(F[i - 1], lines[i])]
    BY <1>5 DEF IsConsumed
  <2>2. \A i \in 0..m : G[i] = IF i = 0 THEN s ELSE consumeLine(G[i - 1], lines[i])
    BY <1>2, <1>3, <2>1
  <2>3. G = [i \in 0..m |-> IF i = 0 THEN s ELSE consumeLine(G[i - 1], lines[i])]
    BY <2>2
  <2>4. QED  BY <2>3 DEF IsConsumed
<1>7. QED  BY <1>6, <1>2

LEMMA ConsumedUnfold ==
  ASSUME NEW s, NEW lines, Len(lines) \in Nat
  PROVE  /\ Consumed(s, lines)[0] = s
         /\ \A i \in 1..Len(lines) : Consumed(s, lines)[i] = consumeLine(Consumed(s, lines)[i - 1], lines[i])
<1> DEFINE n == Len(lines)
           P == CHOOSE F : F = [i \in 0..n |-> IF i = 0 THEN s ELSE consumeLine(F[i - 1], lines[i])]
<1>1. Consumed(s, lines) = P  BY DEF Consumed
<1>2. P = [i \in 0..n |-> IF i = 0 THEN s ELSE consumeLine(P[i - 1], lines[i])]
  BY ConsumedExists DEF IsConsumed
<1> HIDE DEF P
<1>3. P[0] = s /\ \A i \in 1..n : P[i] = consumeLine(P[i - 1], lines[i])  BY <1>2
<1>4. QED  BY <1>1, <1>3

\* The scanner s holds what there is to know of the whole lines q.
Knows(s, q) ==
  /\ s \in Scanner /\ q \in Text /\ Whole(q)
  /\ s.lastUsage = LastUsage(q) /\ s.outputBytes = TextFrames(q)

\* The scanner s was given the symbols p.
Scanned(s, p) ==
  /\ s \in Scanner /\ p \in Text /\ NoNewline(s.buffer)
  /\ \E q \in Text : Knows(s, q) /\ p = q \o s.buffer

LEMMA WholeLine ==
  ASSUME NEW q \in Text, NEW line \in Text, Whole(q), NoNewline(line)
  PROVE  LET p == (q \o line) \o <<Newline>> IN Extends(p, q, line) /\ Whole(p)
<1> DEFINE w == q \o line
           nl == <<Newline>>
           p == w \o nl
<1>1. w \in Seq(Symbol)  BY ConcatProperties DEF Text
<1>2. nl \in Seq(Symbol) /\ Len(nl) = 1 /\ nl[1] = Newline  BY SymbolFacts
<1> HIDE DEF w, nl
<1>3. /\ p \in Seq(Symbol) /\ Len(p) = Len(w) + Len(nl)
      /\ \A i \in 1..(Len(w) + Len(nl)) : p[i] = IF i <= Len(w) THEN w[i] ELSE nl[i - Len(w)]
  BY <1>1, <1>2, ConcatProperties
<1>4. Len(w) \in Nat  BY <1>1, LenProperties
<1> HIDE DEF p
<1>5. p[Len(p)] = Newline
  <2> DEFINE n == Len(w)
  <2>1. n \in Nat /\ Len(p) = n + 1  BY <1>2, <1>3, <1>4
  <2>2. \A i \in 1..(n + 1) : p[i] = IF i <= n THEN w[i] ELSE nl[i - n]  BY <1>2, <1>3
  <2> HIDE DEF n
  <2>3. n + 1 \in 1..(n + 1) /\ ~ (n + 1 <= n) /\ (n + 1) - n = 1  BY ONLY <2>1
  <2>4. p[n + 1] = nl[(n + 1) - n]  BY ONLY <2>2, <2>3
  <2>5. QED  BY <1>2, <2>1, <2>3, <2>4
<1>6. Whole(p)  BY <1>5 DEF Whole
<1>7. QED  BY <1>3, <1>6 DEF Extends, Text, p, w, nl

\* consumeLine of the line that follows q.
LEMMA KnowsLine ==
  ASSUME NEW s, NEW q, NEW p, NEW line, Knows(s, q), Extends(p, q, line)
  PROVE  LET t == consumeLine(s, line)
         IN /\ t \in Scanner /\ t.buffer = s.buffer
            /\ t.lastUsage = LastUsage(p) /\ t.outputBytes = TextFrames(p)
<1> DEFINE t == consumeLine(s, line)
<1>1. s \in Scanner /\ s.lastUsage = LastUsage(q) /\ s.outputBytes = TextFrames(q)  BY DEF Knows
<1>2. line \in Text  BY DEF Extends
<1>3. /\ t \in Scanner /\ t.buffer = s.buffer
      /\ \A u \in Usage : line = FrameLine(u) => t.lastUsage = u
      /\ (\A u \in Usage : line # FrameLine(u)) => t.lastUsage = s.lastUsage
      /\ t.outputBytes = s.outputBytes + IF line = FrameLine("text") THEN 1 ELSE 0
  BY <1>1, <1>2, LineConsumed
<1>4. t.outputBytes = TextFrames(p)  BY <1>1, <1>3, TextExtend
<1>5. t.lastUsage = LastUsage(p)  BY <1>1, <1>3, UsageExtend
<1>6. QED  BY <1>3, <1>4, <1>5

LEMMA NewScanned == Scanned(NewScanner, <<>>)
<1>1. NewScanner \in Scanner  BY EmptyText DEF NewScanner, Scanner
<1>2. Knows(NewScanner, <<>>)  BY <1>1, EmptyText DEF Knows, NewScanner
<1>3. NewScanner.buffer = <<>>  BY DEF NewScanner
<1>4. NoNewline(<<>>)  BY DEF NoNewline
<1>5. <<>> \o <<>> = <<>>  OBVIOUS
<1>6. QED  BY <1>1, <1>2, <1>3, <1>4, <1>5, EmptyText DEF Scanned

\* After i lines of its text the scanner knows that many lines more.
LEMMA LinesConsumed ==
  ASSUME NEW s, NEW q, Knows(s, q), NEW text \in Text
  PROVE  \A i \in 0..Cardinality(Cuts(text)) :
           /\ Knows(Consumed(s, Lines(text))[i], q \o SubSeq(text, 1, Bound(text, i)))
           /\ Consumed(s, Lines(text))[i].buffer = s.buffer
<1> DEFINE n == Cardinality(Cuts(text))
           C == Consumed(s, Lines(text))
           Q(i) == q \o SubSeq(text, 1, Bound(text, i))
           Good(i) == Knows(C[i], Q(i)) /\ C[i].buffer = s.buffer
           T == {i \in 0..n : ~ Good(i)}
<1>0. n \in Nat /\ Len(text) \in Nat /\ q \in Seq(Symbol) /\ text \in Seq(Symbol)
  BY CutsOfText DEF Knows, Text
<1>1. C[0] = s /\ \A i \in 1..n : C[i] = consumeLine(C[i - 1], Lines(text)[i])
  <2>1. Len(Lines(text)) = n + 1  BY LinesOfText
  <2>2. Len(Lines(text)) \in Nat /\ \A i \in 1..n : i \in 1..Len(Lines(text))  BY <1>0, <2>1
  <2>3. QED  BY <2>2, ConsumedUnfold
<1>2. Good(0)
  <2>1. Bound(text, 0) = 0  BY DEF Bound
  <2>2. SubSeq(text, 1, 0) = <<>>  BY SubSeqEmpty
  <2>3. Q(0) = q  BY <1>0, <2>1, <2>2, ConcatEmptySeq
  <2>4. QED  BY <1>1, <2>3
<1>3. ASSUME NEW i \in 1..n, Good(i - 1) PROVE Good(i)
  <2> DEFINE a == SubSeq(text, 1, Bound(text, i - 1))
             line == Lines(text)[i]
             nl == <<Newline>>
             b == SubSeq(text, 1, Bound(text, i))
  <2>1. i \in 1..(n + 1) /\ i - 1 \in 0..n  BY <1>0
  <2>2. line \in Text /\ NoNewline(line)  BY <2>1, LinesOfText
  <2>3. b = (a \o line) \o nl  BY LineByLine
  <2>4. Knows(C[i - 1], q \o a) /\ C[i - 1].buffer = s.buffer  BY <1>3
  <2>5. a \in Seq(Symbol)
    <3>1. Bound(text, i - 1) \in 0..Len(text)  BY <2>1, BoundsAdjacent
    <3>2. Bound(text, i - 1) \in Int /\ \A k \in 1..Bound(text, i - 1) : k \in 1..Len(text)
      BY <1>0, <3>1
    <3>3. \A k \in 1..Bound(text, i - 1) : text[k] \in Symbol  BY <1>0, <3>2, ElementOfSeq
    <3>4. QED  BY <3>2, <3>3, SubSeqProperties
  <2>6. nl \in Seq(Symbol)  BY SymbolFacts
  <2>7. line \in Seq(Symbol)  BY <2>2 DEF Text
  <2>8. q \o a \in Text /\ Whole(q \o a)  BY <2>4 DEF Knows
  <2>9. Q(i) = ((q \o a) \o line) \o nl
    <3> HIDE DEF a, line, nl
    <3>1. a \o line \in Seq(Symbol)  BY <2>5, <2>7, ConcatProperties
    <3> DEFINE al == a \o line
    <3> HIDE DEF al
    <3>2. q \in Seq(Symbol) /\ al \in Seq(Symbol)  BY <1>0, <3>1 DEF al
    <3>3. (q \o al) \o nl = q \o (al \o nl)  BY ONLY <2>6, <3>2, ConcatAssociative
    <3>4. (q \o a) \o line = q \o (a \o line)  BY <1>0, <2>5, <2>7, ConcatAssociative
    <3>5. QED  BY <2>3, <3>3, <3>4 DEF al
  <2>10. Extends(Q(i), q \o a, line) /\ Whole(Q(i))  BY <2>2, <2>8, <2>9, WholeLine
  <2>11. C[i] = consumeLine(C[i - 1], line)  BY <1>1
  <2> HIDE DEF C, Q, a, line, nl, b
  <2>12. /\ C[i] \in Scanner /\ C[i].buffer = s.buffer
         /\ C[i].lastUsage = LastUsage(Q(i)) /\ C[i].outputBytes = TextFrames(Q(i))
    BY <2>4, <2>10, <2>11, KnowsLine
  <2>13. Q(i) \in Text  BY <2>10 DEF Extends
  <2>14. QED  BY <2>10, <2>12, <2>13 DEF Knows
<1> HIDE DEF Good, n
<1>4. SUFFICES ASSUME T # {} PROVE FALSE
  BY DEF Good, n
<1>5. PICK m \in T : \A y \in T : m <= y
  <2>1. T \subseteq Nat  BY <1>0
  <2> HIDE DEF T
  <2>2. QED  BY <1>4, <2>1, NatMinimum
<1>6. m \in 1..n /\ m - 1 \in 0..n /\ m - 1 \notin T
  <2>1. m \in 0..n /\ m # 0  BY <1>2, <1>5
  <2>2. m \in 1..n /\ m - 1 \in 0..n /\ ~ (m <= m - 1)  BY <1>0, <2>1
  <2>3. QED  BY <1>5, <2>2
<1>7. Good(m - 1)  BY <1>6
<1>8. Good(m)  BY <1>3, <1>6, <1>7
<1>9. QED  BY <1>5, <1>8

\* push leaves the scanner with the symbols it had and the chunk.
LEMMA PushScanned ==
  ASSUME NEW s, NEW p, Scanned(s, p), NEW chunk \in Text
  PROVE  Scanned(push(s, chunk), p \o chunk)
<1> DEFINE text == s.buffer \o chunk
           n == Cardinality(Cuts(text))
           lines == Lines(text)
           t == Consumed(s, lines)[n]
           rest == lines[n + 1]
<1>1. s \in Scanner /\ p \in Text  BY DEF Scanned
<1>2. PICK q \in Text : Knows(s, q) /\ p = q \o s.buffer  BY DEF Scanned
<1>3. s.buffer \in Seq(Symbol) /\ chunk \in Seq(Symbol) /\ q \in Seq(Symbol)
  BY <1>1 DEF Scanner, Text
<1>4. text \in Text  BY <1>3, ConcatProperties DEF Text
<1>5. n \in Nat /\ Len(text) \in Nat  BY <1>4, CutsOfText
<1>6. Len(lines) = n + 1 /\ rest \in Text /\ NoNewline(rest)
  <2>1. n + 1 \in 1..(n + 1)  BY <1>5
  <2>2. QED  BY <1>4, <2>1, LinesOfText
<1>7. rest = SubSeq(text, Bound(text, n) + 1, Len(text)) /\ Bound(text, n) \in 0..Len(text)
  <2>1. n + 1 \in 1..(n + 1) /\ (n + 1) - 1 = n /\ n + 1 > n /\ n + 1 # 0  BY <1>5
  <2>2. rest = SubSeq(text, Bound(text, (n + 1) - 1) + 1, Bound(text, n + 1) - 1)
    BY <1>4, <2>1, LinesOfText
  <2>3. Bound(text, n + 1) = Len(text) + 1  BY <2>1 DEF Bound
  <2>4. (Len(text) + 1) - 1 = Len(text)  BY <1>5
  <2>5. Bound(text, (n + 1) - 1) \in 0..Len(text)  BY <1>4, <2>1, BoundsAdjacent
  <2>6. QED  BY <2>1, <2>2, <2>3, <2>4, <2>5
<1> DEFINE a == SubSeq(text, 1, Bound(text, n))
           q2 == q \o a
<1>8. Knows(t, q2)
  <2>1. n \in 0..n  BY <1>5
  <2>2. QED  BY <1>2, <1>4, <2>1, LinesConsumed
<1>9. a \o rest = text /\ a \in Seq(Symbol)
  <2> DEFINE b == Bound(text, n)
  <2> HIDE DEF b, text
  <2>1. /\ text \in Seq(Symbol) /\ b \in 0..Len(text) /\ rest = SubSeq(text, b + 1, Len(text))
    BY <1>4, <1>7 DEF b, text, Text
  <2>2. 1 \in 1..(Len(text) + 1) /\ b \in (1 - 1)..Len(text) /\ Len(text) \in b..Len(text)
    BY <1>5, <2>1
  <2>3. SubSeq(text, 1, b) \o SubSeq(text, b + 1, Len(text)) = SubSeq(text, 1, Len(text))
    BY <2>1, <2>2, ConcatAdjacentSubSeq
  <2>4. SubSeq(text, 1, Len(text)) = text  BY <2>1, SubSeqFull
  <2>5. \A k \in 1..b : k \in 1..Len(text)  BY <1>5, <2>1
  <2>6. \A k \in 1..b : text[k] \in Symbol  BY <2>1, <2>5, ElementOfSeq
  <2>7. SubSeq(text, 1, b) \in Seq(Symbol)  BY <1>5, <2>1, <2>6, SubSeqProperties
  <2>8. QED  BY <2>1, <2>3, <2>4, <2>7 DEF b, text
<1>10. q2 \o rest = p \o chunk
  <2> DEFINE x == s.buffer
  <2>1. rest \in Seq(Symbol) /\ a \in Seq(Symbol)  BY <1>6, <1>9 DEF Text
  <2>2. x \in Seq(Symbol) /\ q \in Seq(Symbol) /\ chunk \in Seq(Symbol)  BY <1>3
  <2>3. p = q \o x /\ a \o rest = x \o chunk  BY <1>2, <1>9
  <2> HIDE DEF x, a, rest
  <2>4. (q \o a) \o rest = q \o (a \o rest)  BY ONLY <2>1, <2>2, ConcatAssociative
  <2>5. (q \o x) \o chunk = q \o (x \o chunk)  BY ONLY <2>2, ConcatAssociative
  <2>6. QED  BY <2>3, <2>4, <2>5
<1>11. push(s, chunk) = [t EXCEPT !.buffer = rest]
  <2>1. Len(lines) - 1 = n  BY <1>5, <1>6
  <2>2. Last(lines) = rest  BY <1>6 DEF Last
  <2>3. push(s, chunk) = [Consumed(s, lines)[Len(lines) - 1] EXCEPT !.buffer = Last(lines)]
    BY DEF push
  <2>4. QED  BY <2>1, <2>2, <2>3
<1> DEFINE u == push(s, chunk)
<1> HIDE DEF t, rest, q2, u
<1>12. /\ u \in Scanner /\ u.buffer = rest /\ u.lastUsage = t.lastUsage /\ u.outputBytes = t.outputBytes
  <2>1. t \in Scanner  BY <1>8 DEF Knows
  <2>2. QED  BY <1>6, <1>11, <2>1 DEF Scanner, u
<1>13. Knows(u, q2)  BY <1>8, <1>12 DEF Knows
<1>14. p \o chunk \in Text
  <2>1. p \in Seq(Symbol)  BY <1>1 DEF Text
  <2>2. QED  BY <1>3, <2>1, ConcatProperties DEF Text
<1>15. q2 \in Text  BY <1>13 DEF Knows
<1>16. QED  BY <1>6, <1>10, <1>12, <1>13, <1>14, <1>15 DEF Scanned, u

\* At the end the scanner holds what there is to know of all its symbols.
LEMMA EndScanned ==
  ASSUME NEW s, NEW p, Scanned(s, p)
  PROVE  /\ end(s) \in Scanner
         /\ end(s).lastUsage = LastUsage(p) /\ end(s).outputBytes = TextFrames(p)
         /\ \E r \in Text : Scanned(end(s), r)
<1>1. s \in Scanner /\ p \in Text /\ NoNewline(s.buffer)  BY DEF Scanned
<1>2. PICK q \in Text : Knows(s, q) /\ p = q \o s.buffer  BY DEF Scanned
<1>3. CASE s.buffer = <<>>
  <2>1. p = q  BY <1>2, <1>3, ConcatEmptySeq DEF Text
  <2>2. end(s) = s  BY <1>3 DEF end
  <2>3. QED  BY <1>1, <1>2, <2>1, <2>2 DEF Knows
<1>4. CASE s.buffer # <<>>
  <2> DEFINE t == consumeLine(s, s.buffer)
             e == end(s)
             r == (q \o s.buffer) \o <<Newline>>
  <2>1. s.buffer \in Text /\ Whole(q) /\ q \in Text  BY <1>1, <1>2 DEF Scanner, Knows
  <2>2. Extends(p, q, s.buffer)  BY <1>1, <1>2, <2>1 DEF Extends
  <2>3. t \in Scanner /\ t.lastUsage = LastUsage(p) /\ t.outputBytes = TextFrames(p)
    BY <1>2, <2>2, KnowsLine
  <2>4. Extends(r, q, s.buffer) /\ Whole(r)  BY <1>1, <2>1, WholeLine
  <2>5. t.lastUsage = LastUsage(r) /\ t.outputBytes = TextFrames(r) /\ r \in Text
    <3> HIDE DEF r
    <3>1. r \in Text  BY <2>4 DEF Extends
    <3>2. t.lastUsage = LastUsage(r) /\ t.outputBytes = TextFrames(r)  BY <1>2, <2>4, KnowsLine
    <3>3. QED  BY <3>1, <3>2
  <2>6. e = [t EXCEPT !.buffer = <<>>]  BY <1>4 DEF end
  <2> HIDE DEF t, e, r
  <2>7. <<>> \in Text  BY EmptyText
  <2>8. /\ e \in Scanner /\ e.lastUsage = t.lastUsage /\ e.outputBytes = t.outputBytes
        /\ e.buffer = <<>>
    BY <2>3, <2>6, <2>7 DEF Scanner
  <2>9. Knows(e, r)  BY <2>4, <2>5, <2>8 DEF Knows
  <2>10. NoNewline(e.buffer)  BY <2>8 DEF NoNewline
  <2>11. r = r \o e.buffer  BY <2>5, <2>8, ConcatEmptySeq DEF Text
  <2>12. Scanned(e, r)  BY <2>5, <2>8, <2>9, <2>10, <2>11 DEF Scanned
  <2>13. QED  BY <2>3, <2>5, <2>8, <2>12 DEF e
<1>5. QED  BY <1>3, <1>4

-----------------------------------------------------------------------------
(***************************************************************************)
(* The scripts are texts.                                                  *)
(***************************************************************************)

\* The symbols that occur in a text.
Symbols(t) == {t[i] : i \in DOMAIN t}

LEMMA SymbolsOfConcat ==
  ASSUME NEW s \in Text, NEW t \in Text
  PROVE  s \o t \in Text /\ Symbols(s \o t) \subseteq Symbols(s) \cup Symbols(t)
<1> DEFINE n == Len(s)
           m == Len(t)
           w == s \o t
<1>1. s \in Seq(Symbol) /\ t \in Seq(Symbol)  BY DEF Text
<1>2. n \in Nat /\ m \in Nat /\ DOMAIN s = 1..n /\ DOMAIN t = 1..m  BY <1>1, LenProperties
<1>3. /\ w \in Seq(Symbol) /\ Len(w) = n + m
      /\ \A i \in 1..(n + m) : w[i] = IF i <= n THEN s[i] ELSE t[i - n]
  BY <1>1, ConcatProperties
<1>4. DOMAIN w = 1..(n + m)
  <2> HIDE DEF w
  <2>1. DOMAIN w = 1..Len(w)  BY <1>3, LenProperties
  <2>2. QED  BY <1>3, <2>1
<1> HIDE DEF n, m, w
<1>5. ASSUME NEW i \in 1..(n + m) PROVE w[i] \in Symbols(s) \cup Symbols(t)
  <2>1. CASE i <= n
    <3>1. i \in 1..n  BY ONLY <1>2, <2>1, i \in 1..(n + m)
    <3>2. w[i] = s[i]  BY <1>3, <2>1
    <3>3. QED  BY <1>2, <3>1, <3>2 DEF Symbols
  <2>2. CASE ~ (i <= n)
    <3>1. i - n \in 1..m  BY ONLY <1>2, <2>2, i \in 1..(n + m)
    <3>2. w[i] = t[i - n]  BY <1>3, <2>2
    <3>3. QED  BY <1>2, <3>1, <3>2 DEF Symbols
  <2>3. QED  BY <2>1, <2>2
<1>6. Symbols(w) \subseteq Symbols(s) \cup Symbols(t)  BY <1>4, <1>5 DEF Symbols
<1>7. QED  BY <1>3, <1>6 DEF Text, w

LEMMA LineSymbols ==
  ASSUME NEW k \in Kind
  PROVE  /\ Line(k) \in Text /\ Len(Line(k)) = 3
         /\ Symbols(Line(k)) = {FrameHead(k), FrameTail(k), Newline}
<1>1. Line(k) \in Seq(Symbol)  BY SymbolFacts DEF Line
<1>2. DOMAIN Line(k) = {1, 2, 3} /\ Len(Line(k)) = 3  BY DEF Line
<1>3. Line(k)[1] = FrameHead(k) /\ Line(k)[2] = FrameTail(k) /\ Line(k)[3] = Newline  BY DEF Line
<1>4. QED  BY <1>1, <1>2, <1>3 DEF Text, Symbols

LEMMA BeatSymbols ==
  /\ <<Heartbeat, Newline>> \in Text /\ Len(<<Heartbeat, Newline>>) = 2
  /\ Symbols(<<Heartbeat, Newline>>) = {Heartbeat, Newline}
<1> DEFINE b == <<Heartbeat, Newline>>
<1>1. Heartbeat \in Symbol /\ Newline \in Symbol  BY DEF Symbol
<1>2. b \in Seq(Symbol) /\ Len(b) = 2 /\ DOMAIN b = {1, 2} /\ b[1] = Heartbeat /\ b[2] = Newline
  BY <1>1
<1> HIDE DEF b
<1>3. Symbols(b) = {Heartbeat, Newline}  BY <1>2 DEF Symbols
<1>4. QED  BY <1>2, <1>3 DEF Text, b

LEMMA RepeatSymbols ==
  ASSUME NEW part \in Text, NEW n \in Nat, NEW m \in Nat \ {0}, Len(part) = m
  PROVE  Repeat(part, n) \in Text /\ Symbols(Repeat(part, n)) \subseteq Symbols(part)
<1> DEFINE k == n * m
           f == [i \in 1..k |-> part[((i - 1) % m) + 1]]
<1>1. k \in Nat  OBVIOUS
<1>2. Repeat(part, n) = f  BY DEF Repeat
<1>3. DOMAIN part = 1..m  BY LenProperties DEF Text
<1> HIDE DEF k
<1>4. \A i \in 1..k : ((i - 1) % m) + 1 \in 1..m
  <2> SUFFICES ASSUME NEW i \in 1..k PROVE ((i - 1) % m) + 1 \in 1..m
    OBVIOUS
  <2> DEFINE r == (i - 1) % m
  <2>1. i - 1 \in Nat  BY <1>1
  <2>2. r \in 0..(m - 1)  BY <2>1
  <2> HIDE DEF r
  <2>3. r + 1 \in 1..m  BY <2>2
  <2>4. QED  BY <2>3 DEF r
<1>5. \A i \in 1..k : f[i] \in Symbols(part)  BY <1>3, <1>4 DEF Symbols
<1>6. Symbols(part) \subseteq Symbol
  <2>1. \A i \in 1..m : part[i] \in Symbol  BY ElementOfSeq DEF Text
  <2>2. QED  BY <1>3, <2>1 DEF Symbols
<1>7. f \in [1..k -> Symbol]  BY <1>5, <1>6
<1>8. f \in Seq(Symbol)  BY <1>1, <1>7, SeqDef
<1>9. Symbols(f) \subseteq Symbols(part)  BY <1>5 DEF Symbols
<1>10. QED  BY <1>2, <1>8, <1>9 DEF Text

\* What a deferred completion streams is a text; one that fails streams no usage, and
\* one that succeeds streams no failure.
LEMMA DeferredText ==
  ASSUME NEW completion \in Results, NEW beats \in 0..MaxBeats
  PROVE  LET t == openAIStreamFromDeferredCompletion(completion, beats)
         IN /\ t \in Text
            /\ ~ completion.ok => \A u \in Usage : FrameHead(u) \notin Symbols(t)
            /\ completion.ok => FrameHead("failure") \notin Symbols(t)
<1> DEFINE t == openAIStreamFromDeferredCompletion(completion, beats)
           bare == Line("bare")
           pings == Repeat(<<Heartbeat, Newline>>, beats)
           tail(usage) == finishAndUsage(usage)
           texts == Repeat(Line("text"), completion.text)
           Plain == {FrameHead("bare"), FrameTail("bare"), FrameHead("done"), FrameTail("done"), Newline, Heartbeat}
<1>0. /\ completion.ok \in BOOLEAN /\ completion.text \in Nat /\ completion.usage \in Usage \cup {"none"}
      /\ beats \in Nat
  OBVIOUS
<1>1. {"bare", "done", "failure", "text"} \cup Usage \subseteq Kind  BY DEF Kind
<1>2. /\ bare \in Text /\ Symbols(bare) \subseteq Plain
      /\ Line("done") \in Text /\ Symbols(Line("done")) \subseteq Plain
      /\ Line("failure") \in Text
      /\ Symbols(Line("failure")) \subseteq {FrameHead("failure"), FrameTail("failure"), Newline}
      /\ Line("text") \in Text /\ Len(Line("text")) = 3
      /\ Symbols(Line("text")) \subseteq {FrameHead("text"), FrameTail("text"), Newline}
  BY <1>1, LineSymbols
<1>3. pings \in Text /\ Symbols(pings) \subseteq Plain
  <2>1. Symbols(pings) \subseteq Symbols(<<Heartbeat, Newline>>) /\ pings \in Text
    <3>1. 2 \in Nat \ {0}  OBVIOUS
    <3>2. QED  BY <1>0, <3>1, BeatSymbols, RepeatSymbols
  <2>2. QED  BY <2>1, BeatSymbols
<1>4. texts \in Text /\ Symbols(texts) \subseteq {FrameHead("text"), FrameTail("text"), Newline}
  <2>1. Symbols(texts) \subseteq Symbols(Line("text")) /\ texts \in Text
    <3>1. 3 \in Nat \ {0}  OBVIOUS
    <3>2. QED  BY <1>0, <1>2, <3>1, RepeatSymbols
  <2>2. QED  BY <1>2, <2>1
<1>5. tail("none") \in Text /\ Symbols(tail("none")) \subseteq Plain
  <2>1. tail("none") = (bare \o <<>>) \o Line("done")  BY DEF finishAndUsage
  <2>2. bare \o <<>> = bare  BY <1>2, ConcatEmptySeq DEF Text
  <2>3. tail("none") = bare \o Line("done")  BY <2>1, <2>2
  <2> HIDE DEF bare, tail
  <2>4. bare \o Line("done") \in Text /\ Symbols(bare \o Line("done")) \subseteq Symbols(bare) \cup Symbols(Line("done"))
    BY <1>2, SymbolsOfConcat
  <2>5. QED  BY <1>2, <2>3, <2>4
<1>6. \A u \in Usage : tail(u) \in Text /\ Symbols(tail(u)) \subseteq Plain \cup {FrameHead(u), FrameTail(u), Newline}
  <2> SUFFICES ASSUME NEW u \in Usage
               PROVE  tail(u) \in Text /\ Symbols(tail(u)) \subseteq Plain \cup {FrameHead(u), FrameTail(u), Newline}
    OBVIOUS
  <2>1. u # "none"  BY DEF Usage
  <2>2. tail(u) = (bare \o Line(u)) \o Line("done")  BY <2>1 DEF finishAndUsage
  <2>3. Line(u) \in Text /\ Symbols(Line(u)) = {FrameHead(u), FrameTail(u), Newline}
    BY <1>1, LineSymbols
  <2> HIDE DEF bare
  <2>4. bare \o Line(u) \in Text /\ Symbols(bare \o Line(u)) \subseteq Symbols(bare) \cup Symbols(Line(u))
    BY <1>2, <2>3, SymbolsOfConcat
  <2>5. QED  BY <1>2, <2>2, <2>3, <2>4, SymbolsOfConcat
<1> DEFINE head == bare \o pings
<1>7. head \in Text /\ Symbols(head) \subseteq Plain
  <2> HIDE DEF bare, pings
  <2>1. QED  BY <1>2, <1>3, SymbolsOfConcat
<1>8. \A j, k : FrameHead(j) # FrameTail(k) /\ FrameHead(j) # Newline /\ (FrameHead(j) = FrameHead(k) => j = k)
  BY SymbolFacts
<1>9. \A k : FrameHead(k) # Heartbeat
  <2>1. \A k : FrameHead(k)[2] = "head" /\ Heartbeat[2] = ""  BY DEF FrameHead, Heartbeat
  <2>2. QED  BY <2>1
<1>10. CASE ~ completion.ok
  <2>1. t = head \o (Line("failure") \o tail("none"))
    BY <1>10 DEF openAIStreamFromDeferredCompletion
  <2> DEFINE rest == Line("failure") \o tail("none")
  <2>2. /\ rest \in Text
        /\ Symbols(rest) \subseteq Plain \cup {FrameHead("failure"), FrameTail("failure"), Newline}
    <3> HIDE DEF tail
    <3>1. QED  BY <1>2, <1>5, SymbolsOfConcat
  <2> HIDE DEF head, rest
  <2>3. t \in Text /\ Symbols(t) \subseteq Symbols(head) \cup Symbols(rest)
    BY <1>7, <2>1, <2>2, SymbolsOfConcat DEF rest
  <2> HIDE DEF t
  <2>4. \A x \in Symbols(t) : x \in Plain \/ x \in {FrameHead("failure"), FrameTail("failure"), Newline}
    BY <1>7, <2>2, <2>3
  <2>5. \A u \in Usage : u # "failure" /\ u # "bare" /\ u # "done"  BY DEF Usage
  <2>6. \A u \in Usage : FrameHead(u) \notin Symbols(t)  BY <1>8, <1>9, <2>4, <2>5
  <2>7. QED  BY <1>10, <2>3, <2>6 DEF t
<1>11. CASE completion.ok
  <2> DEFINE rest == texts \o tail(completion.usage)
  <2>1. t = head \o rest
    BY <1>11 DEF openAIStreamFromDeferredCompletion
  <2>2. /\ tail(completion.usage) \in Text
        /\ Symbols(tail(completion.usage)) \subseteq Plain \cup {FrameHead(u) : u \in Usage} \cup {FrameTail(u) : u \in Usage}
    <3>1. CASE completion.usage = "none"  BY <1>5, <3>1
    <3>2. CASE completion.usage \in Usage  BY <1>6, <3>2
    <3>3. QED  BY <1>0, <3>1, <3>2
  <2>3. /\ rest \in Text
        /\ Symbols(rest) \subseteq Symbols(texts) \cup Symbols(tail(completion.usage))
    <3> HIDE DEF tail, texts
    <3>1. QED  BY <1>4, <2>2, SymbolsOfConcat
  <2> HIDE DEF head, rest
  <2>4. t \in Text /\ Symbols(t) \subseteq Symbols(head) \cup Symbols(rest)
    BY <1>7, <2>1, <2>3, SymbolsOfConcat
  <2> HIDE DEF t, texts, tail
  <2>5. \A x \in Symbols(t) : \/ x \in Plain \/ x \in {FrameHead("text"), FrameTail("text")}
                              \/ (\E u \in Usage : x = FrameHead(u) \/ x = FrameTail(u))
    BY <1>4, <1>7, <2>2, <2>3, <2>4
  <2>6. \A u \in Usage : u # "failure"  BY DEF Usage
  <2>7. FrameHead("failure") \notin Symbols(t)  BY <1>8, <1>9, <2>5, <2>6
  <2>8. QED  BY <1>11, <2>4, <2>7 DEF t
<1>12. QED  BY <1>0, <1>10, <1>11

\* Every script is a text.
LEMMA ScriptText ==
  ASSUME NEW t \in Scripts \cup Deferred
  PROVE  t \in Text
<1>1. CASE t \in Scripts  BY <1>1 DEF Text
<1>2. CASE t \in Deferred
  <2>1. PICK c \in Results, n \in 0..MaxBeats : t = openAIStreamFromDeferredCompletion(c, n)
    BY <1>2 DEF Deferred
  <2>2. QED  BY <2>1, DeferredText
<1>3. QED  BY <1>1, <1>2

\* A deferred completion that failed tells no usage.
LEMMA FailedHasNoUsage ==
  ASSUME NEW t \in Deferred, FrameHead("failure") \in Range(t)
  PROVE  LastUsage(t) = "none"
<1>1. PICK c \in Results, n \in 0..MaxBeats : t = openAIStreamFromDeferredCompletion(c, n)
  BY DEF Deferred
<1>2. FrameHead("failure") \in Symbols(t)  BY DEF Range, Symbols
<1>3. \A u \in Usage : FrameHead(u) \notin Symbols(t)
  <2>1. c.ok \in BOOLEAN  OBVIOUS
  <2>2. QED  BY <1>1, <1>2, <2>1, DeferredText
<1>4. \A x \in (DOMAIN t) \X Usage : ~ FrameAt(t, x[1], x[2])
  <2> SUFFICES ASSUME NEW x \in (DOMAIN t) \X Usage, FrameAt(t, x[1], x[2]) PROVE FALSE
    OBVIOUS
  <2>1. x[1] \in DOMAIN t /\ x[2] \in Usage /\ t[x[1]] = FrameHead(x[2])  BY DEF FrameAt
  <2>2. FrameHead(x[2]) \in Symbols(t)  BY <2>1 DEF Symbols
  <2>3. QED  BY <1>3, <2>1, <2>2
<1>5. {x \in (DOMAIN t) \X Usage : FrameAt(t, x[1], x[2])} = {}  BY <1>4
<1>6. QED  BY <1>5 DEF LastUsage

-----------------------------------------------------------------------------
(***************************************************************************)
(* The relay's invariant.                                                  *)
(***************************************************************************)

\* How many symbols the relay has handled: those read, but for a chunk that pull
\* has not looked at yet.
Handled == IF result.kind = "value" THEN sent - Len(result.chunk) ELSE sent

Settlement == [kind : {"settled"}, termination : {"complete", "cancelled", "error"},
               usage : Usage \cup {"none"}, bytes : Nat]

UpstreamInv ==
  /\ script \in Scripts \cup Deferred /\ rated \in BOOLEAN /\ sent \in 0..Len(script)
  /\ reader \in {"open", "cancelled"} /\ alive \in BOOLEAN

\* The read's result waits exactly between the read and its continuation.
PullInv ==
  /\ pull \in {"idle", "reading", "resumed"}
  /\ result.kind \in {"none", "value", "done", "error"}
  /\ pull # "resumed" => result.kind = "none"
  /\ result.kind = "value" =>
       /\ Len(result.chunk) \in 0..sent /\ Handled \in 0..sent
       /\ result.chunk = SubSeq(script, Handled + 1, sent)
  /\ result.kind = "done" /\ relay = "readable" => sent = Len(script)
  /\ result.kind = "error" => script \notin Deferred

\* The stream is readable until it settles, and ends the way it was settled.
RelayInv ==
  /\ relay \in {"readable", "closed", "errored", "cancelled"}
  /\ relay = "readable" <=> settlement = None
  /\ relay = "readable" => reader = "open"
  /\ settlement # None => settlement \in Settlement
  /\ relay = "closed" => settlement.termination = "complete" /\ heard = Len(script)
  /\ relay = "errored" => settlement.termination = "error" /\ script \notin Deferred
  /\ relay = "cancelled" => settlement.termination = "cancelled"

\* The scanner was given all that was handled before the settlement, and the
\* settlement holds what the scanner had.
ScanInv ==
  /\ heard \in 0..Len(script) /\ heard <= sent
  /\ settlement = None => heard = Handled /\ Scanned(scan, Heard)
  /\ \E p \in Text : Scanned(scan, p)
  /\ ScannerExact

\* The client has a prefix of the script, and the queue what comes after it.
QueueInv ==
  /\ Len(delivered) \in 0..Len(script) /\ delivered = SubSeq(script, 1, Len(delivered))
  /\ queue # <<>> =>
       /\ pull = "idle" /\ relay = "readable" /\ Len(delivered) <= sent
       /\ queue = <<SubSeq(script, Len(delivered) + 1, sent)>>
  /\ relay = "readable" /\ queue = <<>> => Len(delivered) = Handled
  /\ relay = "closed" => queue = <<>> /\ Len(delivered) = Len(script)

\* One row, written from the settlement.
LedgerInv ==
  /\ ledger \in {"none", "building", "recorded", "lost"}
  /\ ledger = "none" <=> settlement = None
  /\ ledger # "recorded" => rows = <<>>
  /\ ledger = "recorded" =>
       rows = <<[basis |-> PriceBasis(settlement), usage |-> settlement.usage, bytes |-> settlement.bytes]>>

Inv == UpstreamInv /\ PullInv /\ RelayInv /\ ScanInv /\ QueueInv /\ LedgerInv

LEMMA Slice ==
  ASSUME NEW t \in Text, NEW i \in Nat, NEW j \in Nat, i <= j, j <= Len(t)
  PROVE  /\ SubSeq(t, i + 1, j) \in Text /\ Len(SubSeq(t, i + 1, j)) = j - i
         /\ SubSeq(t, 1, i) \in Text /\ Len(SubSeq(t, 1, i)) = i
         /\ SubSeq(t, 1, i) \o SubSeq(t, i + 1, j) = SubSeq(t, 1, j)
<1>1. t \in Seq(Symbol) /\ Len(t) \in Nat  BY LenProperties DEF Text
<1>2. SubSeq(t, i + 1, j) \in Seq(Symbol) /\ Len(SubSeq(t, i + 1, j)) = j - i
  <2> DEFINE x == SubSeq(t, i + 1, j)
  <2>1. \A k \in (i + 1)..j : k \in 1..Len(t)  BY <1>1
  <2>2. \A k \in (i + 1)..j : t[k] \in Symbol  BY <1>1, <2>1, ElementOfSeq
  <2>3. x \in Seq(Symbol) /\ Len(x) = IF i + 1 <= j THEN j - (i + 1) + 1 ELSE 0
    BY <2>2, SubSeqProperties
  <2> HIDE DEF x
  <2>4. Len(x) = j - i  BY <2>3
  <2>5. QED  BY <2>3, <2>4 DEF x
<1>3. SubSeq(t, 1, i) \in Seq(Symbol) /\ Len(SubSeq(t, 1, i)) = i
  <2> DEFINE x == SubSeq(t, 1, i)
  <2>1. \A k \in 1..i : k \in 1..Len(t)  BY <1>1
  <2>2. \A k \in 1..i : t[k] \in Symbol  BY <1>1, <2>1, ElementOfSeq
  <2>3. x \in Seq(Symbol) /\ Len(x) = IF 1 <= i THEN i - 1 + 1 ELSE 0
    BY <2>2, SubSeqProperties
  <2> HIDE DEF x
  <2>4. Len(x) = i  BY <2>3
  <2>5. QED  BY <2>3, <2>4 DEF x
<1>4. SubSeq(t, 1, i) \o SubSeq(t, i + 1, j) = SubSeq(t, 1, j)
  <2>1. 1 \in 1..(Len(t) + 1) /\ i \in (1 - 1)..Len(t) /\ j \in i..Len(t)  BY <1>1
  <2>2. QED  BY <1>1, <2>1, ConcatAdjacentSubSeq
<1>5. QED  BY <1>2, <1>3, <1>4 DEF Text

LEMMA NoneKind == None.kind = "none" /\ \A s \in Settlement : s # None
<1>1. \A s \in Settlement : s.kind = "settled"  BY DEF Settlement
<1>2. None.kind = "none"  BY DEF None
<1>3. QED  BY <1>1, <1>2

\* The facts about sizes and texts the steps share.
LEMMA ScriptFacts ==
  ASSUME UpstreamInv
  PROVE  script \in Text /\ Len(script) \in Nat /\ sent \in Nat /\ sent <= Len(script)
<1>1. script \in Text  BY ScriptText DEF UpstreamInv
<1>2. Len(script) \in Nat  BY <1>1, LenProperties DEF Text
<1>3. QED  BY <1>1, <1>2 DEF UpstreamInv

\* The first settleOnce takes what the scanner has; a later one changes nothing.
LEMMA Settles ==
  ASSUME ScanInv, NEW termination \in {"complete", "cancelled", "error"},
         settleOnce(termination, scan)
  PROVE  /\ settlement # None => UNCHANGED <<scan, settlement, ledger>>
         /\ settlement = None =>
              /\ settlement' \in Settlement /\ settlement'.termination = termination
              /\ settlement'.usage = LastUsage(Heard) /\ settlement'.bytes = TextFrames(Heard)
              /\ ledger' = "building" /\ \E p \in Text : Scanned(scan', p)
<1>1. settlement # None => UNCHANGED <<scan, settlement, ledger>>  BY DEF settleOnce, bookVars
<1>2. ASSUME settlement = None
      PROVE  /\ settlement' \in Settlement /\ settlement'.termination = termination
             /\ settlement'.usage = LastUsage(Heard) /\ settlement'.bytes = TextFrames(Heard)
             /\ ledger' = "building" /\ \E p \in Text : Scanned(scan', p)
  <2> DEFINE e == end(scan)
  <2>1. /\ scan' = e /\ ledger' = "building"
        /\ settlement' = [kind |-> "settled", termination |-> termination,
                          usage |-> e.lastUsage, bytes |-> e.outputBytes]
    BY <1>2 DEF settleOnce
  <2>2. Scanned(scan, Heard)  BY <1>2 DEF ScanInv
  <2>3. /\ e \in Scanner /\ e.lastUsage = LastUsage(Heard) /\ e.outputBytes = TextFrames(Heard)
        /\ \E r \in Text : Scanned(e, r)
    BY <2>2, EndScanned
  <2> HIDE DEF e
  <2>4. e.lastUsage \in Usage \cup {"none"} /\ e.outputBytes \in Nat  BY <2>3 DEF Scanner
  <2>5. QED  BY <2>1, <2>3, <2>4 DEF Settlement
<1>3. QED  BY <1>1, <1>2

LEMMA InitInv == Init => Inv
<1> SUFFICES ASSUME Init PROVE Inv
  OBVIOUS
<1>0. script \in Text /\ Len(script) \in Nat
  <2>1. script \in Scripts \cup Deferred  BY DEF Init
  <2>2. script \in Text  BY <2>1, ScriptText
  <2>3. QED  BY <2>2, LenProperties DEF Text
<1>1. UpstreamInv  BY <1>0 DEF Init, UpstreamInv
<1>2. result.kind = "none" /\ result = None /\ settlement = None  BY NoneKind DEF Init
<1>3. PullInv  BY <1>2 DEF Init, PullInv
<1>4. RelayInv  BY <1>2 DEF Init, RelayInv
<1>5. Handled = 0  BY <1>2 DEF Handled, Init
<1>6. SubSeq(script, 1, 0) = <<>>  BY SubSeqEmpty
<1>7. ScanInv
  <2>1. Heard = <<>>  BY <1>6 DEF Heard, Init
  <2>2. Scanned(scan, <<>>) /\ <<>> \in Text  BY NewScanned, EmptyText DEF Init
  <2>3. QED  BY <1>0, <1>2, <1>5, <2>1, <2>2 DEF Init, ScanInv, ScannerExact
<1>8. QueueInv  BY <1>0, <1>5, <1>6 DEF Init, QueueInv
<1>9. LedgerInv  BY <1>2 DEF Init, LedgerInv
<1>10. QED  BY <1>1, <1>3, <1>4, <1>7, <1>8, <1>9 DEF Inv

LEMMA UpstreamStep == Inv /\ [Next]_vars => UpstreamInv'
<1> SUFFICES ASSUME Inv, [Next]_vars PROVE UpstreamInv'
  OBVIOUS
<1>0. UpstreamInv /\ Len(script) \in Nat  BY ScriptFacts DEF Inv
<1>1. ASSUME NEW n \in 1..MaxChunk, ReadChunk(n) PROVE UpstreamInv'
  <2>1. /\ sent + n <= Len(script) /\ sent' = sent + n /\ n \in Nat
        /\ UNCHANGED <<script, rated, reader, alive>>
    BY <1>1 DEF ReadChunk
  <2>2. sent' \in 0..Len(script)  BY <1>0, <2>1 DEF UpstreamInv
  <2>3. QED  BY <1>0, <2>1, <2>2 DEF UpstreamInv
<1>2. CASE cancel  BY <1>0, <1>2 DEF cancel, UpstreamInv
<1>3. CASE Crash  BY <1>0, <1>3 DEF Crash, UpstreamInv, upstreamVars
<1>4. CASE Run
  BY <1>0, <1>4 DEF Run, Pull, OnValue, OnDone, OnError, Record, RecordFails, UpstreamInv, upstreamVars
<1>5. ASSUME NEW kind \in {"done", "error"}, ReadEnds(kind) PROVE UpstreamInv'
  BY <1>0, <1>5 DEF ReadEnds, UpstreamInv, upstreamVars
<1>6. CASE Take  BY <1>0, <1>6 DEF Take, UpstreamInv, upstreamVars
<1>7. CASE UNCHANGED vars  BY <1>0, <1>7 DEF vars, UpstreamInv, upstreamVars
<1>8. QED  BY <1>1, <1>2, <1>3, <1>4, <1>5, <1>6, <1>7 DEF Next

LEMMA PullStep == Inv /\ [Next]_vars => PullInv'
<1> SUFFICES ASSUME Inv, [Next]_vars PROVE PullInv'
  OBVIOUS
<1>0. /\ UpstreamInv /\ PullInv /\ RelayInv
      /\ script \in Text /\ Len(script) \in Nat /\ sent \in Nat /\ sent <= Len(script)
      /\ None.kind = "none"
  BY ScriptFacts, NoneKind DEF Inv
<1>1. CASE Pull
  BY <1>0, <1>1 DEF Pull, PullInv, Handled, upstreamVars
<1>2. ASSUME NEW n \in 1..MaxChunk, ReadChunk(n) PROVE PullInv'
  <2> DEFINE chunk == SubSeq(script, sent + 1, sent + n)
  <2>1. /\ sent + n <= Len(script) /\ sent' = sent + n /\ n \in Nat /\ sent + n \in Nat
        /\ pull' = "resumed" /\ result' = [kind |-> "value", chunk |-> chunk]
        /\ UNCHANGED <<script, relay>>
    BY <1>0, <1>2 DEF ReadChunk
  <2>2. Len(chunk) = n
    <3>1. sent <= sent + n  BY <1>0, <2>1
    <3>2. Len(chunk) = (sent + n) - sent  BY <1>0, <2>1, <3>1, Slice
    <3>3. QED  BY <1>0, <2>1, <3>2
  <2> HIDE DEF chunk
  <2>3. result'.kind = "value" /\ result'.chunk = chunk  BY <2>1
  <2>4. Handled' = sent' - n  BY <2>2, <2>3 DEF Handled
  <2>5. Handled' = sent  BY <1>0, <2>1, <2>4
  <2>6. n \in 0..sent' /\ sent \in 0..sent'  BY <1>0, <2>1
  <2>7. result'.chunk = SubSeq(script', Handled' + 1, sent')  BY <2>1, <2>3, <2>5 DEF chunk
  <2>8. QED  BY <2>1, <2>2, <2>3, <2>5, <2>6, <2>7 DEF PullInv
<1>3. ASSUME NEW kind \in {"done", "error"}, ReadEnds(kind) PROVE PullInv'
  <2>1. /\ pull' = "resumed" /\ result' = [kind |-> kind]
        /\ UNCHANGED <<script, sent, relay, reader>>
    BY <1>3 DEF ReadEnds, upstreamVars
  <2>2. result'.kind = kind  BY <2>1
  <2>3. kind = "done" => reader = "cancelled" \/ sent = Len(script)  BY <1>3 DEF ReadEnds
  <2>4. kind = "error" => script \notin Deferred  BY <1>3 DEF ReadEnds
  <2>5. relay = "readable" => reader # "cancelled"  BY <1>0 DEF RelayInv
  <2>6. QED  BY <2>1, <2>2, <2>3, <2>4, <2>5 DEF PullInv
<1>4. CASE OnValue \/ OnDone \/ OnError
  <2>1. pull' = "idle" /\ result' = None  BY <1>4 DEF OnValue, OnDone, OnError
  <2>2. result'.kind = "none"  BY <1>0, <2>1
  <2>3. QED  BY <2>1, <2>2 DEF PullInv
<1>5. CASE cancel
  <2>1. UNCHANGED <<script, sent, pull, result>> /\ relay' = "cancelled"  BY <1>5 DEF cancel
  <2>2. QED  BY <1>0, <2>1 DEF PullInv, Handled
<1>6. CASE Record \/ RecordFails \/ Take \/ Crash \/ UNCHANGED vars
  <2>1. UNCHANGED <<script, sent, pull, result, relay>>
    BY <1>6 DEF Record, RecordFails, Take, Crash, vars, upstreamVars, relayVars
  <2>2. QED  BY <1>0, <2>1 DEF PullInv, Handled
<1>7. QED  BY <1>1, <1>2, <1>3, <1>4, <1>5, <1>6 DEF Next, Run

LEMMA RelayStep == Inv /\ [Next]_vars => RelayInv'
<1> SUFFICES ASSUME Inv, [Next]_vars PROVE RelayInv'
  OBVIOUS
<1>0. /\ UpstreamInv /\ PullInv /\ RelayInv /\ ScanInv
      /\ script \in Text /\ Len(script) \in Nat /\ sent \in Nat /\ sent <= Len(script)
      /\ \A s \in Settlement : s # None
  BY ScriptFacts, NoneKind DEF Inv
<1>1. CASE Pull \/ Record \/ RecordFails \/ Take \/ Crash \/ UNCHANGED vars
  <2>1. UNCHANGED <<script, reader, relay, settlement, heard>>
    BY <1>1 DEF Pull, Record, RecordFails, Take, Crash, vars, upstreamVars, relayVars, bookVars
  <2>2. QED  BY <1>0, <2>1 DEF RelayInv
<1>2. ASSUME NEW n \in 1..MaxChunk, ReadChunk(n) PROVE RelayInv'
  <2>1. UNCHANGED <<script, reader, relay, settlement, heard>>
    BY <1>2 DEF ReadChunk, bookVars
  <2>2. QED  BY <1>0, <2>1 DEF RelayInv
<1>3. ASSUME NEW kind \in {"done", "error"}, ReadEnds(kind) PROVE RelayInv'
  <2>1. UNCHANGED <<script, reader, relay, settlement, heard>>
    BY <1>3 DEF ReadEnds, bookVars, upstreamVars
  <2>2. QED  BY <1>0, <2>1 DEF RelayInv
<1>4. CASE OnValue
  <2>1. UNCHANGED <<script, reader, relay>>  BY <1>4 DEF OnValue, upstreamVars
  <2>2. settlement' = settlement  BY <1>0, <1>4 DEF OnValue, settleOnce, bookVars, RelayInv
  <2>3. relay # "readable" => heard' = heard  BY <1>0, <1>4 DEF OnValue, RelayInv
  <2>4. QED  BY <1>0, <2>1, <2>2, <2>3 DEF RelayInv
<1>5. CASE OnDone
  <2>1. /\ settleOnce("complete", scan) /\ result.kind = "done"
        /\ relay' = IF relay = "readable" THEN "closed" ELSE relay
        /\ UNCHANGED <<script, reader, heard>>
    BY <1>5 DEF OnDone, upstreamVars
  <2>2. CASE settlement # None
    <3>1. UNCHANGED <<settlement, relay>>  BY <1>0, <2>1, <2>2, Settles DEF RelayInv
    <3>2. QED  BY <1>0, <2>1, <3>1 DEF RelayInv
  <2>3. CASE settlement = None
    <3>1. relay' = "closed" /\ settlement' \in Settlement /\ settlement'.termination = "complete"
      BY <1>0, <2>1, <2>3, Settles DEF RelayInv
    <3>2. heard = Len(script)  BY <1>0, <2>1, <2>3 DEF RelayInv, PullInv, ScanInv, Handled
    <3>3. QED  BY <1>0, <2>1, <3>1, <3>2 DEF RelayInv
  <2>4. QED  BY <2>2, <2>3
<1>6. CASE OnError
  <2>1. /\ settleOnce("error", scan) /\ result.kind = "error"
        /\ relay' = IF relay = "readable" THEN "errored" ELSE relay
        /\ UNCHANGED <<script, reader, heard>>
    BY <1>6 DEF OnError, upstreamVars
  <2>2. CASE settlement # None
    <3>1. UNCHANGED <<settlement, relay>>  BY <1>0, <2>1, <2>2, Settles DEF RelayInv
    <3>2. QED  BY <1>0, <2>1, <3>1 DEF RelayInv
  <2>3. CASE settlement = None
    <3>1. relay' = "errored" /\ settlement' \in Settlement /\ settlement'.termination = "error"
      BY <1>0, <2>1, <2>3, Settles DEF RelayInv
    <3>2. script \notin Deferred  BY <1>0, <2>1 DEF PullInv
    <3>3. QED  BY <1>0, <2>1, <3>1, <3>2 DEF RelayInv
  <2>4. QED  BY <2>2, <2>3
<1>7. CASE cancel
  <2>1. /\ settleOnce("cancelled", scan) /\ relay = "readable" /\ relay' = "cancelled"
        /\ UNCHANGED <<script, heard>>
    BY <1>7 DEF cancel
  <2>2. settlement' \in Settlement /\ settlement'.termination = "cancelled"
    BY <1>0, <2>1, Settles DEF RelayInv
  <2>3. QED  BY <1>0, <2>1, <2>2 DEF RelayInv
<1>8. QED  BY <1>1, <1>2, <1>3, <1>4, <1>5, <1>6, <1>7 DEF Next, Run

\* The chunk that waits, and what the symbols before it are.
LEMMA PendingChunk ==
  ASSUME UpstreamInv, PullInv, result.kind = "value"
  PROVE  /\ result.chunk \in Text /\ Len(result.chunk) = sent - Handled
         /\ Handled \in Nat /\ Handled <= sent
         /\ SubSeq(script, 1, Handled) \o result.chunk = SubSeq(script, 1, sent)
<1>1. script \in Text /\ Len(script) \in Nat /\ sent \in Nat /\ sent <= Len(script)
  BY ScriptFacts
<1>2. Handled \in 0..sent /\ result.chunk = SubSeq(script, Handled + 1, sent)  BY DEF PullInv
<1> DEFINE h == Handled
<1> HIDE DEF h
<1>3. h \in Nat /\ h <= sent  BY <1>1, <1>2 DEF h
<1>4. /\ SubSeq(script, h + 1, sent) \in Text /\ Len(SubSeq(script, h + 1, sent)) = sent - h
      /\ SubSeq(script, 1, h) \o SubSeq(script, h + 1, sent) = SubSeq(script, 1, sent)
  BY ONLY <1>1, <1>3, Slice
<1>5. QED  BY <1>2, <1>3, <1>4 DEF h

LEMMA ScanStep == Inv /\ [Next]_vars => ScanInv'
<1> SUFFICES ASSUME Inv, [Next]_vars PROVE ScanInv'
  OBVIOUS
<1>0. /\ UpstreamInv /\ PullInv /\ RelayInv /\ ScanInv
      /\ script \in Text /\ Len(script) \in Nat /\ sent \in Nat /\ sent <= Len(script)
      /\ None.kind = "none" /\ \A s \in Settlement : s # None
  BY ScriptFacts, NoneKind DEF Inv
<1>1. CASE Pull \/ Record \/ RecordFails \/ Take \/ Crash \/ UNCHANGED vars
  <2>1. UNCHANGED <<script, sent, result, scan, settlement, heard>>
    BY <1>1 DEF Pull, Record, RecordFails, Take, Crash, vars, upstreamVars, relayVars, bookVars
  <2>2. Heard' = Heard /\ Handled' = Handled  BY <2>1 DEF Heard, Handled
  <2>3. QED  BY <1>0, <2>1, <2>2 DEF ScanInv, ScannerExact
<1>2. ASSUME NEW n \in 1..MaxChunk, ReadChunk(n) PROVE ScanInv'
  <2>1. UNCHANGED <<script, scan, settlement, heard>> /\ sent' = sent + n /\ n \in Nat
    BY <1>2 DEF ReadChunk, bookVars
  <2>2. Heard' = Heard  BY <2>1 DEF Heard
  <2>3. Handled = sent  BY <1>0, <1>2 DEF ReadChunk, PullInv, Handled
  <2>4. Handled' = sent
    <3> DEFINE chunk == SubSeq(script, sent + 1, sent + n)
    <3>1. result' = [kind |-> "value", chunk |-> chunk] /\ sent + n <= Len(script)
      BY <1>2 DEF ReadChunk
    <3>2. Len(chunk) = n
      <4>1. sent <= sent + n /\ sent + n \in Nat  BY <1>0, <2>1
      <4>2. Len(chunk) = (sent + n) - sent  BY <1>0, <3>1, <4>1, Slice
      <4>3. QED  BY <1>0, <2>1, <4>2
    <3> HIDE DEF chunk
    <3>3. result'.kind = "value" /\ result'.chunk = chunk  BY <3>1
    <3>4. Handled' = sent' - n  BY <3>2, <3>3 DEF Handled
    <3>5. QED  BY <1>0, <2>1, <3>4
  <2>5. heard <= sent'  BY <1>0, <2>1 DEF ScanInv
  <2>6. QED  BY <1>0, <2>1, <2>2, <2>3, <2>4, <2>5 DEF ScanInv, ScannerExact
<1>3. ASSUME NEW kind \in {"done", "error"}, ReadEnds(kind) PROVE ScanInv'
  <2>1. UNCHANGED <<script, sent, scan, settlement, heard>> /\ result' = [kind |-> kind]
    BY <1>3 DEF ReadEnds, upstreamVars, bookVars
  <2>2. Heard' = Heard  BY <2>1 DEF Heard
  <2>3. Handled = sent  BY <1>0, <1>3 DEF ReadEnds, PullInv, Handled
  <2>4. Handled' = sent  BY <2>1 DEF Handled
  <2>5. QED  BY <1>0, <2>1, <2>2, <2>3, <2>4 DEF ScanInv, ScannerExact
<1>4. CASE OnValue
  <2> DEFINE chunk == result.chunk
             s == push(scan, chunk)
  <2>1. /\ result.kind = "value" /\ result' = None /\ UNCHANGED <<script, sent>>
        /\ heard' = IF settlement = None THEN heard + Len(chunk) ELSE heard
    BY <1>4 DEF OnValue, upstreamVars
  <2>2. /\ chunk \in Text /\ Len(chunk) = sent - Handled /\ Handled \in Nat /\ Handled <= sent
        /\ SubSeq(script, 1, Handled) \o chunk = SubSeq(script, 1, sent)
    BY <1>0, <2>1, PendingChunk
  <2>3. /\ IF relay = "readable" THEN scan' = s /\ UNCHANGED bookVars
                                ELSE settleOnce("error", s)
    BY <1>4 DEF OnValue
  <2>4. scan' = s /\ settlement' = settlement
    <3>1. CASE relay = "readable"  BY <2>3, <3>1 DEF bookVars
    <3>2. CASE relay # "readable"  BY <1>0, <2>3, <3>2 DEF settleOnce, bookVars, RelayInv
    <3>3. QED  BY <3>1, <3>2
  <2>5. \E p \in Text : Scanned(scan', p)
    <3>1. PICK p \in Text : Scanned(scan, p)  BY <1>0 DEF ScanInv
    <3>2. Scanned(s, p \o chunk)  BY <2>2, <3>1, PushScanned
    <3>3. p \o chunk \in Text  BY <3>2 DEF Scanned
    <3>4. QED  BY <2>4, <3>2, <3>3
  <2>6. Handled' = sent  BY <1>0, <2>1 DEF Handled
  <2>7. CASE settlement = None
    <3>1. heard = Handled /\ Scanned(scan, Heard)  BY <1>0, <2>7 DEF ScanInv
    <3> HIDE DEF chunk, s
    <3>2. heard' = sent
      <4>1. heard' = Handled + Len(chunk)  BY <2>1, <2>7, <3>1 DEF chunk
      <4> HIDE DEF Handled
      <4>2. QED  BY <1>0, <2>2, <4>1
    <3>3. Heard' = Heard \o chunk  BY <2>1, <2>2, <3>1, <3>2 DEF Heard
    <3>4. Scanned(scan', Heard')  BY <2>2, <2>4, <3>1, <3>3, PushScanned DEF s
    <3>5. heard' \in 0..Len(script') /\ heard' <= sent'  BY <1>0, <2>1, <3>2
    <3>6. QED  BY <2>1, <2>4, <2>5, <2>6, <2>7, <3>2, <3>4, <3>5 DEF ScanInv, ScannerExact
  <2>8. CASE settlement # None
    <3>1. heard' = heard  BY <2>1, <2>8
    <3>2. Heard' = Heard  BY <2>1, <3>1 DEF Heard
    <3>3. QED  BY <1>0, <2>1, <2>4, <2>5, <2>8, <3>1, <3>2 DEF ScanInv, ScannerExact
  <2>9. QED  BY <2>7, <2>8
<1>5. ASSUME NEW termination \in {"complete", "cancelled", "error"},
             settleOnce(termination, scan), UNCHANGED <<script, sent, heard>>
      PROVE  ScanInv'
  <2>1. Heard' = Heard  BY <1>5 DEF Heard
  <2>2. CASE settlement # None
    <3>1. UNCHANGED <<scan, settlement>>  BY <1>0, <1>5, <2>2, Settles
    <3>2. QED  BY <1>0, <1>5, <2>1, <2>2, <3>1 DEF ScanInv, ScannerExact
  <2>3. CASE settlement = None
    <3>1. /\ settlement' \in Settlement
          /\ settlement'.usage = LastUsage(Heard) /\ settlement'.bytes = TextFrames(Heard)
          /\ \E p \in Text : Scanned(scan', p)
      BY <1>0, <1>5, <2>3, Settles
    <3>2. QED  BY <1>0, <1>5, <2>1, <3>1 DEF ScanInv, ScannerExact
  <2>4. QED  BY <2>2, <2>3
<1>6. CASE OnDone  BY <1>5, <1>6 DEF OnDone, upstreamVars
<1>7. CASE OnError  BY <1>5, <1>7 DEF OnError, upstreamVars
<1>8. CASE cancel  BY <1>5, <1>8 DEF cancel
<1>9. QED  BY <1>1, <1>2, <1>3, <1>4, <1>6, <1>7, <1>8 DEF Next, Run

LEMMA LedgerStep == Inv /\ [Next]_vars => LedgerInv'
<1> SUFFICES ASSUME Inv, [Next]_vars PROVE LedgerInv'
  OBVIOUS
<1>0. /\ RelayInv /\ ScanInv /\ LedgerInv /\ rated \in BOOLEAN
      /\ \A s \in Settlement : s # None
  BY NoneKind DEF Inv, UpstreamInv
<1>1. CASE Record
  <2> DEFINE row == [basis |-> PriceBasis(settlement), usage |-> settlement.usage, bytes |-> settlement.bytes]
  <2>1. /\ ledger = "building" /\ ledger' = "recorded" /\ rows' = Append(rows, row)
        /\ UNCHANGED <<settlement, rated>>
    BY <1>1 DEF Record, upstreamVars
  <2>2. rows = <<>> /\ settlement # None  BY <1>0, <2>1 DEF LedgerInv
  <2>3. PriceBasis(settlement)' = PriceBasis(settlement)  BY <2>1 DEF PriceBasis
  <2> HIDE DEF row
  <2>4. rows' = <<row>>  BY <2>1, <2>2
  <2>5. QED  BY <2>1, <2>2, <2>3, <2>4 DEF LedgerInv, row
<1>2. CASE RecordFails
  <2>1. /\ ledger = "building" /\ ledger' = "lost" /\ UNCHANGED <<settlement, rows>>
    BY <1>2 DEF RecordFails
  <2>2. QED  BY <1>0, <2>1 DEF LedgerInv
<1>3. ASSUME UNCHANGED <<settlement, ledger, rows, rated>> PROVE LedgerInv'
  <2>1. PriceBasis(settlement)' = PriceBasis(settlement)  BY <1>3 DEF PriceBasis
  <2>2. QED  BY <1>0, <1>3, <2>1 DEF LedgerInv
<1>4. CASE Pull \/ Take \/ Crash \/ UNCHANGED vars
  BY <1>3, <1>4 DEF Pull, Take, Crash, vars, upstreamVars, bookVars
<1>5. ASSUME NEW n \in 1..MaxChunk, ReadChunk(n) PROVE LedgerInv'
  BY <1>3, <1>5 DEF ReadChunk, bookVars
<1>6. ASSUME NEW kind \in {"done", "error"}, ReadEnds(kind) PROVE LedgerInv'
  BY <1>3, <1>6 DEF ReadEnds, upstreamVars, bookVars
<1>7. CASE OnValue
  <2>1. UNCHANGED bookVars
    BY <1>0, <1>7 DEF OnValue, settleOnce, RelayInv
  <2>2. UNCHANGED <<rows, rated>>  BY <1>7 DEF OnValue, upstreamVars
  <2>3. QED  BY <1>3, <2>1, <2>2 DEF bookVars
<1>8. ASSUME NEW termination \in {"complete", "cancelled", "error"},
             settleOnce(termination, scan), UNCHANGED <<rows, rated>>
      PROVE  LedgerInv'
  <2>1. CASE settlement # None  BY <1>0, <1>3, <1>8, <2>1, Settles
  <2>2. CASE settlement = None
    <3>1. ledger' = "building" /\ settlement' \in Settlement  BY <1>0, <1>8, <2>2, Settles
    <3>2. rows = <<>>  BY <1>0, <2>2 DEF LedgerInv
    <3>3. QED  BY <1>0, <1>8, <3>1, <3>2 DEF LedgerInv
  <2>3. QED  BY <2>1, <2>2
<1>9. CASE OnDone  BY <1>8, <1>9 DEF OnDone, upstreamVars
<1>10. CASE OnError  BY <1>8, <1>10 DEF OnError, upstreamVars
<1>11. CASE cancel  BY <1>8, <1>11 DEF cancel
<1>12. QED  BY <1>1, <1>2, <1>4, <1>5, <1>6, <1>7, <1>9, <1>10, <1>11 DEF Next, Run

LEMMA QueueStep == Inv /\ [Next]_vars => QueueInv'
<1> SUFFICES ASSUME Inv, [Next]_vars PROVE QueueInv'
  OBVIOUS
<1>0. /\ UpstreamInv /\ PullInv /\ RelayInv /\ ScanInv /\ QueueInv
      /\ script \in Text /\ Len(script) \in Nat /\ sent \in Nat /\ sent <= Len(script)
      /\ None.kind = "none"
  BY ScriptFacts, NoneKind DEF Inv
<1>1. CASE Record \/ RecordFails \/ Crash \/ UNCHANGED vars
  <2>1. UNCHANGED <<script, sent, result, pull, relay, queue, delivered>>
    BY <1>1 DEF Record, RecordFails, Crash, vars, upstreamVars, relayVars
  <2>2. Handled' = Handled  BY <2>1 DEF Handled
  <2>3. QED  BY <1>0, <2>1, <2>2 DEF QueueInv
<1>2. CASE Pull
  <2>1. UNCHANGED <<script, sent, result, relay, queue, delivered>> /\ queue = <<>>
    BY <1>2 DEF Pull, upstreamVars
  <2>2. Handled' = Handled  BY <2>1 DEF Handled
  <2>3. QED  BY <1>0, <2>1, <2>2 DEF QueueInv
<1>3. ASSUME NEW n \in 1..MaxChunk, ReadChunk(n) PROVE QueueInv'
  <2>1. UNCHANGED <<script, relay, queue, delivered>> /\ pull = "reading"
    BY <1>3 DEF ReadChunk
  <2>2. queue = <<>>  BY <1>0, <2>1 DEF QueueInv
  <2>3. Handled = sent  BY <1>0, <2>1 DEF PullInv, Handled
  <2>4. Handled' = sent
    <3> DEFINE chunk == SubSeq(script, sent + 1, sent + n)
    <3>1. result' = [kind |-> "value", chunk |-> chunk] /\ sent + n <= Len(script) /\ sent' = sent + n
      BY <1>3 DEF ReadChunk
    <3>2. Len(chunk) = n
      <4>1. sent <= sent + n /\ sent + n \in Nat  BY <1>0
      <4>2. Len(chunk) = (sent + n) - sent  BY <1>0, <3>1, <4>1, Slice
      <4>3. QED  BY <1>0, <4>2
    <3> HIDE DEF chunk
    <3>3. result'.kind = "value" /\ result'.chunk = chunk  BY <3>1
    <3>4. Handled' = sent' - n  BY <3>2, <3>3 DEF Handled
    <3>5. QED  BY <1>0, <3>1, <3>4
  <2>5. QED  BY <1>0, <2>1, <2>2, <2>3, <2>4 DEF QueueInv
<1>4. ASSUME NEW kind \in {"done", "error"}, ReadEnds(kind) PROVE QueueInv'
  <2>1. /\ UNCHANGED <<script, sent, relay, queue, delivered>> /\ pull = "reading"
        /\ result' = [kind |-> kind]
    BY <1>4 DEF ReadEnds, upstreamVars
  <2>2. queue = <<>>  BY <1>0, <2>1 DEF QueueInv
  <2>3. Handled = sent /\ Handled' = sent  BY <1>0, <2>1 DEF PullInv, Handled
  <2>4. QED  BY <1>0, <2>1, <2>2, <2>3 DEF QueueInv
<1>5. CASE OnValue
  <2>1. /\ result.kind = "value" /\ pull = "resumed" /\ pull' = "idle" /\ result' = None
        /\ UNCHANGED <<script, sent, relay, delivered>>
    BY <1>5 DEF OnValue, upstreamVars
  <2>2. queue = <<>>  BY <1>0, <2>1 DEF QueueInv
  <2>3. CASE relay = "readable"
    <3>1. queue' = <<result.chunk>>  BY <1>5, <2>2, <2>3 DEF OnValue
    <3>2. /\ Len(delivered) = Handled /\ Handled \in 0..sent
          /\ result.chunk = SubSeq(script, Handled + 1, sent)
      BY <1>0, <2>1, <2>2, <2>3 DEF QueueInv, PullInv
    <3>3. Len(delivered) <= sent  BY <1>0, <3>2
    <3>4. queue' # <<>> /\ queue' = <<SubSeq(script, Len(delivered) + 1, sent)>>
      BY <3>1, <3>2
    <3>5. QED  BY <1>0, <2>1, <2>3, <3>3, <3>4 DEF QueueInv
  <2>4. CASE relay # "readable"
    <3>1. queue' = queue  BY <1>5, <2>4 DEF OnValue
    <3>2. QED  BY <1>0, <2>1, <2>2, <2>4, <3>1 DEF QueueInv
  <2>5. QED  BY <2>3, <2>4
<1>6. CASE OnDone
  <2>1. /\ result.kind = "done" /\ pull = "resumed" /\ UNCHANGED <<script, sent, queue, delivered>>
        /\ relay' = IF relay = "readable" THEN "closed" ELSE relay
    BY <1>6 DEF OnDone, upstreamVars
  <2>2. queue = <<>>  BY <1>0, <2>1 DEF QueueInv
  <2>3. relay = "readable" => Len(delivered) = Len(script)
    <3>1. Handled = sent  BY <2>1 DEF Handled
    <3>2. QED  BY <1>0, <2>1, <2>2, <3>1 DEF QueueInv, PullInv
  <2>4. relay' # "readable"  BY <2>1
  <2>5. relay' = "closed" => Len(delivered) = Len(script)  BY <1>0, <2>1, <2>3 DEF QueueInv
  <2>6. QED  BY <1>0, <2>1, <2>2, <2>4, <2>5 DEF QueueInv
<1>7. CASE OnError
  <2>1. /\ pull = "resumed" /\ UNCHANGED <<script, sent, delivered>>
        /\ relay' = IF relay = "readable" THEN "errored" ELSE relay
        /\ queue' = IF relay = "readable" THEN <<>> ELSE queue
    BY <1>7 DEF OnError, upstreamVars
  <2>2. queue = <<>>  BY <1>0, <2>1 DEF QueueInv
  <2>3. queue' = <<>> /\ relay' # "readable" /\ (relay' = "closed" => relay = "closed")
    BY <2>1, <2>2
  <2>4. QED  BY <1>0, <2>1, <2>3 DEF QueueInv
<1>8. CASE cancel
  <2>1. /\ relay' = "cancelled" /\ queue' = <<>> /\ UNCHANGED <<script, sent, delivered>>
    BY <1>8 DEF cancel
  <2>2. QED  BY <1>0, <2>1 DEF QueueInv
<1>9. CASE Take
  <2> DEFINE d == Len(delivered)
  <2>1. /\ queue # <<>> /\ delivered' = delivered \o Head(queue) /\ queue' = Tail(queue)
        /\ UNCHANGED <<script, sent, pull, result, relay>>
    BY <1>9 DEF Take, upstreamVars
  <2>2. /\ pull = "idle" /\ relay = "readable" /\ d <= sent /\ d \in Nat
        /\ queue = <<SubSeq(script, d + 1, sent)>>
        /\ delivered = SubSeq(script, 1, d)
    BY <1>0, <2>1 DEF QueueInv
  <2>3. Head(queue) = SubSeq(script, d + 1, sent) /\ Tail(queue) = <<>>
    <3> DEFINE c == SubSeq(script, d + 1, sent)
    <3>1. queue = <<c>>  BY <2>2
    <3> HIDE DEF c
    <3>2. Head(queue) = c /\ Tail(queue) = <<>>  BY ONLY <3>1
    <3>3. QED  BY <3>2 DEF c
  <2> HIDE DEF d
  <2>4. SubSeq(script, 1, d) \o SubSeq(script, d + 1, sent) = SubSeq(script, 1, sent)
    BY ONLY <1>0, <2>2, Slice
  <2>5. delivered' = SubSeq(script, 1, sent) /\ queue' = <<>>  BY <2>1, <2>2, <2>3, <2>4
  <2>6. Len(SubSeq(script, 1, sent)) = sent
    <3>1. sent <= sent  BY <1>0
    <3>2. QED  BY <1>0, <3>1, Slice
  <2>7. Handled' = sent  BY <1>0, <2>1, <2>2 DEF Handled, PullInv
  <2>8. sent \in 0..Len(script)  BY <1>0
  <2>9. QED  BY <2>1, <2>2, <2>5, <2>6, <2>7, <2>8 DEF QueueInv
<1>10. QED  BY <1>1, <1>2, <1>3, <1>4, <1>5, <1>6, <1>7, <1>8, <1>9 DEF Next, Run

-----------------------------------------------------------------------------
(***************************************************************************)
(* Theorems.                                                               *)
(***************************************************************************)
LEMMA Invariance == Spec => []Inv
<1>1. Inv /\ [Next]_vars => Inv'
  BY UpstreamStep, PullStep, RelayStep, ScanStep, QueueStep, LedgerStep DEF Inv
<1>2. QED  BY InitInv, <1>1, PTL DEF Spec

\* Scanner, settlement, reader and relay keep the shapes stream.ts gives them.
THEOREM TypeCorrect == Spec => []TypeOK
<1>1. Inv => TypeOK
  <2> SUFFICES ASSUME Inv PROVE TypeOK
    OBVIOUS
  <2>1. UpstreamInv /\ PullInv /\ RelayInv /\ ScanInv /\ LedgerInv  BY DEF Inv
  <2>2. heard \in 0..sent
    <3>1. Len(script) \in Nat /\ sent \in Nat  BY <2>1, ScriptFacts
    <3>2. QED  BY <2>1, <3>1 DEF ScanInv
  <2>3. scan \in Scanner  BY <2>1 DEF ScanInv, Scanned
  <2>4. settlement # None => settlement.termination \in {"complete", "cancelled", "error"}
    BY <2>1 DEF RelayInv, Settlement
  <2>5. scan.lastUsage \in Usage \cup {"none"} /\ scan.outputBytes \in Nat  BY <2>3 DEF Scanner
  <2>6. QED  BY <2>1, <2>2, <2>4, <2>5 DEF TypeOK, UpstreamInv, PullInv, RelayInv, LedgerInv
<1>2. QED  BY Invariance, <1>1, PTL

\* Wherever the chunks were cut, the settlement holds the last usage frame and the text
\* of exactly the symbols that came past before it (stream.ts push, consumeLine, end).
THEOREM ScannerIsExact == Spec => []ScannerExact
<1>1. Inv => ScannerExact  BY DEF Inv, ScanInv
<1>2. QED  BY Invariance, <1>1, PTL

\* However end, error and hang-up race, there is one settlement and at most one row
\* (stream.ts meteredRelay, settleOnce).
THEOREM OneRowAtMost == Spec => []OneRow
<1>1. Inv => OneRow
  <2> SUFFICES ASSUME Inv PROVE OneRow
    OBVIOUS
  <2>1. ledger # "recorded" => rows = <<>>  BY DEF Inv, LedgerInv
  <2>2. ledger = "recorded" => Len(rows) = 1
    <3> DEFINE row == [basis |-> PriceBasis(settlement), usage |-> settlement.usage, bytes |-> settlement.bytes]
    <3>1. ledger = "recorded" => rows = <<row>>  BY DEF Inv, LedgerInv
    <3> HIDE DEF row
    <3>2. QED  BY <3>1
  <2>3. Len(rows) <= 1
    <3>1. CASE ledger = "recorded"
      <4>1. Len(rows) = 1  BY <2>2, <3>1
      <4>2. 1 <= 1  OBVIOUS
      <4>3. QED  BY ONLY <4>1, <4>2
    <3>2. CASE ledger # "recorded"
      <4>1. rows = <<>>  BY <2>1, <3>2
      <4>2. QED  BY ONLY <4>1
    <3>3. QED  BY <3>1, <3>2
  <2>4. QED  BY <2>1, <2>3 DEF OneRow
<1>2. QED  BY Invariance, <1>1, PTL

\* The row's basis tells how the stream ended and what it told before (chat.ts, the
\* three settlements): measured with a usage the meter can read, an estimate only for
\* a client that left before one, and nothing for a completion that failed.
THEOREM BasisFollowsEnding == Spec => []BasisTellsEnding
<1>1. Inv => BasisTellsEnding
  <2> SUFFICES ASSUME Inv, NEW i \in DOMAIN rows
               PROVE  LET usage == LastUsage(Heard)
                      IN /\ rows[i].basis = "measured" <=> rated /\ usage \in Priceable
                         /\ rows[i].basis = "estimated_output" <=> rated /\ usage = "none" /\ relay = "cancelled"
                         /\ script \in Deferred /\ FrameHead("failure") \in Range(script) /\ relay # "cancelled"
                              => rows[i].basis = "unpriced"
    BY DEF BasisTellsEnding
  <2> DEFINE row == [basis |-> PriceBasis(settlement), usage |-> settlement.usage, bytes |-> settlement.bytes]
             usage == settlement.usage
             ending == settlement.termination
  <2>1. UpstreamInv /\ RelayInv /\ ScanInv /\ LedgerInv  BY DEF Inv
  <2>2. ledger = "recorded"
    <3>1. rows # <<>>  OBVIOUS
    <3>2. QED  BY <2>1, <3>1 DEF LedgerInv
  <2>3. rows[i].basis = PriceBasis(settlement)
    <3>1. rows = <<row>>  BY <2>1, <2>2 DEF LedgerInv
    <3>2. row.basis = PriceBasis(settlement)  OBVIOUS
    <3> HIDE DEF row
    <3>3. i = 1 /\ rows[1] = row  BY <3>1
    <3>4. QED  BY <3>2, <3>3
  <2>4. settlement # None  BY <2>1, <2>2 DEF LedgerInv
  <2>5. usage = LastUsage(Heard)  BY <2>1, <2>4 DEF ScanInv, ScannerExact
  <2>6. relay = "cancelled" <=> ending = "cancelled"  BY <2>1, <2>4 DEF RelayInv
  <2>7. /\ PriceBasis(settlement) = "measured" <=> rated /\ usage \in Priceable
        /\ PriceBasis(settlement) = "estimated_output" <=> rated /\ usage = "none" /\ ending = "cancelled"
    <3>1. "none" \notin Priceable  BY DEF Priceable
    <3>2. CASE rated /\ usage \in Priceable
      <4>1. PriceBasis(settlement) = "measured"  BY <3>1, <3>2 DEF PriceBasis
      <4>2. QED  BY <3>1, <3>2, <4>1
    <3>3. CASE rated /\ usage = "none" /\ ending = "cancelled"
      <4>1. PriceBasis(settlement) = "estimated_output"  BY <3>1, <3>3 DEF PriceBasis
      <4>2. QED  BY <3>1, <3>3, <4>1
    <3>4. CASE ~ (rated /\ usage \in Priceable) /\ ~ (rated /\ usage = "none" /\ ending = "cancelled")
      <4>1. PriceBasis(settlement) = "unpriced"  BY <3>4 DEF PriceBasis
      <4>2. QED  BY <3>4, <4>1
    <3>5. QED  BY <3>2, <3>3, <3>4
  <2>8. ASSUME script \in Deferred, FrameHead("failure") \in Range(script), relay # "cancelled"
        PROVE  PriceBasis(settlement) = "unpriced"
    <3>1. relay = "closed"  BY <2>1, <2>4, <2>8 DEF RelayInv
    <3>2. Heard = script
      <4>1. heard = Len(script)  BY <2>1, <3>1 DEF RelayInv
      <4>2. script \in Seq(Symbol)  BY <2>1, ScriptFacts DEF Text
      <4>3. QED  BY <4>1, <4>2, SubSeqFull DEF Heard
    <3>3. usage = "none"  BY <2>5, <2>8, <3>2, FailedHasNoUsage
    <3>4. "none" \notin Priceable  BY DEF Priceable
    <3>5. ending # "cancelled"  BY <2>6, <2>8
    <3>6. QED  BY <3>3, <3>4, <3>5 DEF PriceBasis
  <2> HIDE DEF usage, ending
  <2>9. QED  BY <2>3, <2>5, <2>6, <2>7, <2>8
<1>2. QED  BY Invariance, <1>1, PTL

\* The client gets a prefix of the upstream's bytes, and all of them if the stream
\* ended normally (stream.ts: "must see the stream fail, not see it end normally").
THEOREM EndIsHonest == Spec => []HonestEnd
<1>1. Inv => HonestEnd
  <2> SUFFICES ASSUME Inv PROVE HonestEnd
    OBVIOUS
  <2> DEFINE d == Len(delivered)
             flat == delivered \o FlattenSeq(queue)
  <2>1. UpstreamInv /\ RelayInv /\ QueueInv  BY DEF Inv
  <2>2. script \in Text /\ Len(script) \in Nat /\ sent \in Nat /\ sent <= Len(script)  BY <2>1, ScriptFacts
  <2>3. d \in 0..Len(script) /\ delivered = SubSeq(script, 1, d)  BY <2>1 DEF QueueInv
  <2>4. \E m \in 0..Len(script) : flat = SubSeq(script, 1, m)
    <3>1. CASE queue = <<>>
      <4>1. FlattenSeq(queue) = <<>>  BY <3>1 DEF FlattenSeq
      <4>2. delivered \in Seq(Symbol)
        <5>1. d \in Nat /\ d <= Len(script) /\ d <= d  BY <2>2, <2>3
        <5> HIDE DEF d
        <5>2. SubSeq(script, 1, d) \in Text  BY <2>2, <5>1, Slice
        <5>3. QED  BY <2>3, <5>2 DEF Text
      <4>3. flat = delivered  BY <4>1, <4>2, ConcatEmptySeq
      <4>4. QED  BY <2>3, <4>3
    <3>2. CASE queue # <<>>
      <4> DEFINE c == SubSeq(script, d + 1, sent)
      <4>1. d <= sent /\ queue = <<c>>  BY <2>1, <3>2 DEF QueueInv
      <4> HIDE DEF c
      <4>2. FlattenSeq(<<c>>) = c
        <5> DEFINE F == CHOOSE f : f = [i \in 1..1 |-> IF i = 1 THEN <<c>>[i] ELSE f[i - 1] \o <<c>>[i]]
                   G == [i \in 1..1 |-> c]
        <5>1. FlattenSeq(<<c>>) = F[1]  BY DEF FlattenSeq
        <5>2. G = [i \in 1..1 |-> IF i = 1 THEN <<c>>[i] ELSE G[i - 1] \o <<c>>[i]]
          <6>1. \A i \in 1..1 : c = IF i = 1 THEN <<c>>[i] ELSE G[i - 1] \o <<c>>[i]  OBVIOUS
          <6>2. QED  BY <6>1
        <5> HIDE DEF G
        <5>3. F = [i \in 1..1 |-> IF i = 1 THEN <<c>>[i] ELSE F[i - 1] \o <<c>>[i]]  BY <5>2
        <5> HIDE DEF F
        <5>4. F[1] = <<c>>[1]  BY <5>3
        <5>5. QED  BY <5>1, <5>4
      <4>3. flat = delivered \o c  BY <4>1, <4>2
      <4> HIDE DEF d, flat
      <4>4. d \in Nat /\ d <= sent  BY <2>2, <2>3, <4>1
      <4>5. SubSeq(script, 1, d) \o c = SubSeq(script, 1, sent)  BY <2>2, <4>4, Slice DEF c
      <4>6. sent \in 0..Len(script)  BY <2>2
      <4>7. QED  BY <2>3, <4>3, <4>5, <4>6
    <3>3. QED  BY <3>1, <3>2
  <2>5. relay = "closed" => flat = script
    <3> SUFFICES ASSUME relay = "closed" PROVE flat = script
      OBVIOUS
    <3>1. queue = <<>> /\ d = Len(script)  BY <2>1 DEF QueueInv
    <3>2. FlattenSeq(queue) = <<>>  BY <3>1 DEF FlattenSeq
    <3>3. script \in Seq(Symbol)  BY <2>2 DEF Text
    <3>4. delivered = script  BY <2>3, <3>1, <3>3, SubSeqFull
    <3>5. QED  BY <3>2, <3>3, <3>4, ConcatEmptySeq
  <2> HIDE DEF flat
  <2>6. IsPrefix(flat, script)
    <3>1. PICK m \in 0..Len(script) : flat = SubSeq(script, 1, m)  BY <2>4
    <3>2. m \in Nat /\ m <= m /\ m <= Len(script)  BY <2>2, <3>1
    <3>3. flat \in Seq(Symbol) /\ Len(flat) = m  BY <2>2, <3>1, <3>2, Slice DEF Text
    <3>4. SubSeq(flat, 1, Len(flat)) = flat  BY <3>3, SubSeqFull
    <3>5. QED  BY <3>1, <3>2, <3>3, <3>4 DEF IsPrefix
  <2>7. relay = "closed" => settlement.termination = "complete"  BY <2>1 DEF RelayInv
  <2>8. QED  BY <2>5, <2>6, <2>7 DEF HonestEnd, flat
<1>2. QED  BY Invariance, <1>1, PTL
=============================================================================
