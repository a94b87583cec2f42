---------------------------- MODULE NetMaskProofs ----------------------------
(***************************************************************************)
(* Theorems about module NetMask, for any number of words, of bits in a    *)
(* word and of bits in a byte, and both byte orders.                       *)
(*                                                                         *)
(* While the mask is built, netmask = j * WordBits + b: j words are full,  *)
(* and the word after them gets the b bits that are left.  htonl permutes  *)
(* the bits of a word, so that a full word needs no swapping.              *)
(***************************************************************************)
EXTENDS NetMask, TLAPS

USE NetMaskAssumption
-----------------------------------------------------------------------------
(* Arithmetic.                                                             *)

\* Division with remainder.
LEMMA DivMod ==
  ASSUME NEW n \in Nat, NEW d \in Nat \ {0}
  PROVE  /\ n \div d \in Nat /\ n % d \in 0..d-1
         /\ n = (n \div d) * d + (n % d)
OBVIOUS

\* A multiple of d below another one is below it by d at least.
LEMMA Multiples ==
  ASSUME NEW p \in Nat, NEW q \in Nat, NEW d \in Nat, p < q
  PROVE  p * d + d <= q * d
<1>1. PICK e \in Nat : q = p + 1 + e
  <2>1. q - p - 1 \in Nat /\ q = p + 1 + (q - p - 1)
    OBVIOUS
  <2>2. QED
    BY <2>1, Zenon
<1>2. q * d = p * d + d + e * d
  BY <1>1
<1>3. e * d \in Nat /\ p * d \in Nat
  OBVIOUS
<1>4. QED
  BY <1>2, <1>3

\* Quotient and remainder are unique.
LEMMA Unique ==
  ASSUME NEW d \in Nat \ {0}, NEW p \in Nat, NEW r \in 0..d-1
  PROVE  (p * d + r) \div d = p /\ (p * d + r) % d = r
<1>1. PICK n \in Nat : n = p * d + r
  <2>1. p * d + r \in Nat
    OBVIOUS
  <2>2. QED
    BY <2>1, Zenon
<1>2. PICK q \in Nat, s \in 0..d-1 : q = n \div d /\ s = n % d /\ n = q * d + s
  <2>1. n \div d \in Nat /\ n % d \in 0..d-1 /\ n = (n \div d) * d + (n % d)
    BY DivMod
  <2>2. QED
    BY ONLY <2>1, Zenon
<1>3. p * d \in Nat /\ q * d \in Nat
  OBVIOUS
<1>4. ~(p < q)
  <2>1. p < q => p * d + d <= q * d
    BY Multiples
  <2>2. QED
    BY <1>1, <1>2, <1>3, <2>1
<1>5. ~(q < p)
  <2>1. q < p => q * d + d <= p * d
    BY Multiples
  <2>2. QED
    BY <1>1, <1>2, <1>3, <2>1
<1>6. p = q
  BY <1>4, <1>5
<1>7. QED
  BY <1>1, <1>2, <1>3, <1>6
-----------------------------------------------------------------------------
(* htonl.                                                                  *)

WordRange == 0..WordBits-1

\* htonl maps the bits of a word to bits of it, and undoes itself.
LEMMA HtonlInvolution ==
  ASSUME NEW k \in WordRange
  PROVE  Htonl(k) \in WordRange /\ Htonl(Htonl(k)) = k
<1>1. CASE BigEndian
  BY <1>1 DEF Htonl
<1>2. CASE ~BigEndian
  <2>1. PICK n \in Nat : WordBits = n * ByteBits
    <3>1. WordBits = (WordBits \div ByteBits) * ByteBits /\ WordBits \div ByteBits \in Nat
      BY DivMod
    <3>2. QED
      BY <3>1, Zenon
  <2>2. PICK q \in Nat, r \in 0..ByteBits-1 :
          q = k \div ByteBits /\ r = k % ByteBits /\ k = q * ByteBits + r
    <3>1. k \in Nat
      BY DEF WordRange
    <3>2. /\ k \div ByteBits \in Nat /\ k % ByteBits \in 0..ByteBits-1
          /\ k = (k \div ByteBits) * ByteBits + (k % ByteBits)
      BY <3>1, DivMod
    <3>3. QED
      BY ONLY <3>2, Zenon
  <2>3. q < n
    <3>1. q * ByteBits \in Nat /\ n * ByteBits \in Nat
      OBVIOUS
    <3>2. n < q => n * ByteBits + ByteBits <= q * ByteBits
      BY Multiples
    <3>3. QED
      BY <2>1, <2>2, <3>1, <3>2 DEF WordRange
  <2>4. PICK p \in Nat : p = n - 1 - q
    <3>1. n - 1 - q \in Nat
      BY <2>3
    <3>2. QED
      BY <3>1, Zenon
  <2>5. Htonl(k) = p * ByteBits + r
    BY <1>2, <2>1, <2>2, <2>4 DEF Htonl
  <2>6. p * ByteBits + r \in WordRange
    <3>1. p * ByteBits + ByteBits <= n * ByteBits
      BY <2>4, Multiples
    <3>2. p * ByteBits \in Nat
      OBVIOUS
    <3>3. QED
      BY <2>1, <3>1, <3>2 DEF WordRange
  <2>7. Htonl(p * ByteBits + r) = WordBits - ByteBits - ByteBits * p + r
    BY <1>2, Unique DEF Htonl
  <2>8. WordBits - ByteBits - ByteBits * p + r = k
    <3>1. n = p + q + 1
      BY <2>4
    <3>2. n * ByteBits = p * ByteBits + q * ByteBits + ByteBits
      BY <3>1
    <3>3. QED
      BY <2>1, <2>2, <3>2
  <2>9. QED
    BY <2>5, <2>6, <2>7, <2>8, Zenon
<1>3. QED
  BY <1>1, <1>2

\* So a full word is full in either byte order.
LEMMA HtonlFull == {Htonl(k) : k \in WordRange} = WordRange
<1>1. ASSUME NEW k \in WordRange PROVE k \in {Htonl(l) : l \in WordRange}
  BY HtonlInvolution, Zenon
<1>2. ASSUME NEW k \in {Htonl(l) : l \in WordRange} PROVE k \in WordRange
  BY HtonlInvolution
<1>3. QED
  BY <1>1, <1>2
-----------------------------------------------------------------------------
(* The bits of a prefix.                                                   *)

\* A word inside the prefix, one after it, and the one where it ends.
LEMMA PrefixWords ==
  ASSUME NEW n \in Nat, NEW w \in Nat
  PROVE  /\ w * WordBits + WordBits <= n => PrefixBits(w, n) = WordRange
         /\ n <= w * WordBits => PrefixBits(w, n) = {}
         /\ \A c \in 0..WordBits-1 : n = w * WordBits + c =>
              PrefixBits(w, n) = {Htonl(k) : k \in {k \in WordRange : k > WordBits - 1 - c}}
<1>1. w * WordBits \in Nat
  OBVIOUS
<1>2. ASSUME w * WordBits + WordBits <= n PROVE PrefixBits(w, n) = WordRange
  <2>1. {k \in WordRange : w * WordBits + (WordBits - 1 - k) < n} = WordRange
    BY <1>1, <1>2 DEF WordRange
  <2>2. QED
    BY <2>1, HtonlFull, Zenon DEF PrefixBits, WordRange
<1>3. ASSUME n <= w * WordBits PROVE PrefixBits(w, n) = {}
  <2>1. {k \in WordRange : w * WordBits + (WordBits - 1 - k) < n} = {}
    BY <1>1, <1>3 DEF WordRange
  <2>2. QED
    BY <2>1 DEF PrefixBits, WordRange
<1>4. ASSUME NEW c \in 0..WordBits-1, n = w * WordBits + c
      PROVE  PrefixBits(w, n)
               = {Htonl(k) : k \in {k \in WordRange : k > WordBits - 1 - c}}
  <2>1. {k \in WordRange : w * WordBits + (WordBits - 1 - k) < n}
          = {k \in WordRange : k > WordBits - 1 - c}
    BY <1>1, <1>4 DEF WordRange
  <2>2. QED
    BY <2>1, Zenon DEF PrefixBits, WordRange
<1>5. QED
  BY <1>2, <1>3, <1>4
-----------------------------------------------------------------------------
(* The loops.                                                              *)

\* How far the loops are.
Bounds ==
  /\ netmask \in 0..Words*WordBits
  /\ j \in 0..Words /\ b \in Nat /\ i \in Int
  /\ netmask = j * WordBits + b
  /\ pc # "words" => b < WordBits
  /\ pc = "bits" => i \in WordBits-1-b..WordBits-1
  /\ pc = "and" => i \in 0..Words
  /\ touched \subseteq Index

\* What the words of the mask and of the address are by then.
Masked ==
  /\ given \in [Index -> SUBSET Int] /\ a \in [Index -> SUBSET Int]
  /\ m \in [Index -> SUBSET Int]
  /\ pc \in {"words", "bits", "swap"} =>
       /\ a = given
       /\ \A w \in Index : (w < j => m[w] = WordRange) /\ (w > j => m[w] = {})
  /\ pc = "words" => \A w \in Index : w = j => m[w] = {}
  /\ pc = "bits" => \A w \in Index : w = j => m[w] = {k \in WordRange : k > i}
  /\ pc = "swap" =>
       \A w \in Index : w = j => m[w] = {k \in WordRange : k > WordBits - 1 - b}
  /\ pc \in {"and", "done"} => \A w \in Index : m[w] = PrefixBits(w, netmask)
  /\ pc = "and" =>
       \A w \in Index : a[w] = IF w < i THEN given[w] \cap m[w] ELSE given[w]
  /\ pc = "done" => \A w \in Index : a[w] = given[w] \cap m[w]

IInv ==
  pc \in {"words", "bits", "swap", "and", "done"} /\ Bounds /\ Masked

\* While bits of the prefix are left, j is the index of a word.
LEMMA WordLeft ==
  ASSUME Bounds, b > 0
  PROVE  j \in Index
<1>1. j # Words
  BY DEF Bounds
<1>2. QED
  BY <1>1 DEF Bounds, Index

LEMMA FullWordsStep ==
  ASSUME IInv, FullWords
  PROVE  IInv'
<1>1. CASE b >= WordBits
  <2>1. j \in Index
    <3>1. b > 0
      BY <1>1 DEF IInv, Bounds
    <3>2. QED
      BY <3>1, WordLeft DEF IInv
  <2>2. /\ m' = [m EXCEPT ![j] = WordRange] /\ touched' = touched \cup {j}
        /\ j' = j + 1 /\ b' = b - WordBits /\ UNCHANGED <<pc, i, netmask, given, a>>
        /\ pc = "words"
    BY <1>1 DEF FullWords, SetMask, WordRange, IInv, Bounds
  <2>3. (j + 1) * WordBits + (b - WordBits) = j * WordBits + b
    BY DEF IInv, Bounds
  <2>4. Bounds'
    BY <1>1, <2>1, <2>2, <2>3 DEF IInv, Bounds, Index
  <2>5. WordRange \subseteq Int
    BY DEF WordRange
  <2>6. Masked'
    BY <2>1, <2>2, <2>5 DEF IInv, Bounds, Masked, Index
  <2>7. QED
    BY <2>2, <2>4, <2>6 DEF IInv
<1>2. CASE b < WordBits
  <2>1. /\ pc' = "bits" /\ i' = WordBits - 1 /\ pc = "words"
        /\ UNCHANGED <<m, b, j, touched, netmask, given, a>>
    BY <1>2 DEF FullWords, IInv, Bounds
  <2>2. Bounds'
    BY <1>2, <2>1 DEF IInv, Bounds
  <2>3. {k \in WordRange : k > WordBits - 1} = {}
    BY DEF WordRange
  <2>4. Masked'
    BY <2>1, <2>3 DEF IInv, Bounds, Masked, Index
  <2>5. QED
    BY <2>1, <2>2, <2>4 DEF IInv
<1>3. QED
  BY <1>1, <1>2 DEF IInv, Bounds

LEMMA LastBitsStep ==
  ASSUME IInv, LastBits
  PROVE  IInv'
<1>1. CASE i > WordBits - 1 - b
  <2>1. j \in Index
    <3>1. b > 0
      BY <1>1 DEF IInv, Bounds, LastBits
    <3>2. QED
      BY <3>1, WordLeft DEF IInv
  <2>2. /\ m' = [m EXCEPT ![j] = m[j] \cup {i}] /\ touched' = touched \cup {j}
        /\ i' = i - 1 /\ UNCHANGED <<pc, netmask, given, a, b, j>> /\ pc = "bits"
    BY <1>1 DEF LastBits, SetMask, IInv, Bounds
  <2>3. Bounds'
    BY <1>1, <2>1, <2>2 DEF IInv, Bounds
  <2>4. i \in WordRange
    BY <1>1, <2>2 DEF IInv, Bounds, WordRange
  <2>5. {k \in WordRange : k > i} \cup {i} = {k \in WordRange : k > i - 1}
    BY <2>4 DEF WordRange
  <2>6. m[j] \cup {i} = {k \in WordRange : k > i - 1} /\ m[j] \cup {i} \subseteq Int
    BY <2>1, <2>2, <2>5 DEF IInv, Masked, WordRange
  <2>7. Masked'
    BY <2>1, <2>2, <2>6 DEF IInv, Bounds, Masked, Index
  <2>8. QED
    BY <2>2, <2>3, <2>7 DEF IInv
<1>2. CASE i <= WordBits - 1 - b
  <2>1. /\ pc' = "swap" /\ pc = "bits"
        /\ UNCHANGED <<m, i, touched, netmask, given, a, b, j>>
    BY <1>2 DEF LastBits, IInv, Bounds
  <2>2. i = WordBits - 1 - b
    BY <1>2, <2>1 DEF IInv, Bounds
  <2>3. Bounds'
    BY <2>1 DEF IInv, Bounds
  <2>4. Masked'
    BY <2>1, <2>2 DEF IInv, Masked
  <2>5. QED
    BY <2>1, <2>3, <2>4 DEF IInv
<1>3. QED
  BY <1>1, <1>2 DEF IInv, Bounds

LEMMA SwapStep ==
  ASSUME IInv, Swap
  PROVE  IInv'
<1>1. pc = "swap" /\ pc' = "and" /\ i' = 0 /\ UNCHANGED <<netmask, given, a, b, j>>
  BY DEF Swap
<1>2. /\ netmask \in Nat /\ j \in Nat /\ b \in 0..WordBits-1
      /\ netmask = j * WordBits + b /\ j * WordBits \in Nat
  BY <1>1 DEF IInv, Bounds
<1>3. ASSUME NEW w \in Index, w < j
      PROVE  m[w] = PrefixBits(w, netmask)
  <2>1. w * WordBits + WordBits <= netmask
    <3>1. w * WordBits + WordBits <= j * WordBits
      BY <1>2, <1>3, Multiples DEF Index
    <3>2. w * WordBits \in Nat
      BY DEF Index
    <3>3. QED
      BY <1>2, <3>1, <3>2
  <2>2. QED
    <3>1. m[w] = WordRange
      BY <1>1, <1>3 DEF IInv, Masked
    <3>2. PrefixBits(w, netmask) = WordRange
      BY <1>2, <2>1, PrefixWords DEF Index
    <3>3. QED
      BY <3>1, <3>2
<1>4. ASSUME NEW w \in Index, w > j
      PROVE  m[w] = PrefixBits(w, netmask)
  <2>1. netmask <= w * WordBits
    <3>1. j * WordBits + WordBits <= w * WordBits
      BY <1>2, <1>4, Multiples DEF Index
    <3>2. w * WordBits \in Nat
      BY DEF Index
    <3>3. QED
      BY <1>2, <3>1, <3>2
  <2>2. QED
    <3>1. m[w] = {}
      BY <1>1, <1>4 DEF IInv, Masked
    <3>2. PrefixBits(w, netmask) = {}
      BY <1>2, <2>1, PrefixWords DEF Index
    <3>3. QED
      BY <3>1, <3>2
<1>5. ASSUME j \in Index
      PROVE  /\ m[j] = {k \in WordRange : k > WordBits - 1 - b}
             /\ PrefixBits(j, netmask) = {Htonl(k) : k \in m[j]}
  <2>1. m[j] = {k \in WordRange : k > WordBits - 1 - b}
    BY <1>1, <1>5 DEF IInv, Masked
  <2>2. PrefixBits(j, netmask)
          = {Htonl(k) : k \in {k \in WordRange : k > WordBits - 1 - b}}
    BY <1>2, PrefixWords
  <2>3. QED
    BY <2>1, <2>2
<1>6. CASE b # 0
  <2>1. j \in Index
    BY <1>2, <1>6, WordLeft DEF IInv
  <2>2. /\ m' = [m EXCEPT ![j] = PrefixBits(j, netmask)]
        /\ touched' = touched \cup {j}
    BY <1>5, <1>6, <2>1 DEF Swap, SetMask
  <2>3. PrefixBits(j, netmask) \subseteq Int
    <3>1. \A k \in m[j] : Htonl(k) \in WordRange
      BY <1>5, <2>1, HtonlInvolution
    <3>2. QED
      BY <1>5, <2>1, <3>1 DEF WordRange
  <2>4. Bounds'
    BY <1>1, <1>2, <2>1, <2>2 DEF IInv, Bounds
  <2>5. m' \in [Index -> SUBSET Int]
    BY <2>1, <2>2, <2>3 DEF IInv, Masked
  <2>6. \A w \in Index : m'[w] = PrefixBits(w, netmask)
    BY <1>2, <1>3, <1>4, <2>1, <2>2 DEF IInv, Masked, Index
  <2>7. Masked'
    BY <1>1, <2>5, <2>6 DEF IInv, Masked, Index, PrefixBits
  <2>8. QED
    BY <1>1, <2>4, <2>7 DEF IInv
<1>7. CASE b = 0
  <2>1. UNCHANGED <<m, touched>>
    BY <1>7 DEF Swap
  <2>2. Bounds'
    BY <1>1, <1>2, <2>1 DEF IInv, Bounds
  <2>3. j \in Index => m[j] = PrefixBits(j, netmask)
    <3>1. {k \in WordRange : k > WordBits - 1 - b} = {}
      BY <1>7 DEF WordRange
    <3>2. QED
      BY <1>5, <3>1
  <2>4. \A w \in Index : m[w] = PrefixBits(w, netmask)
    BY <1>2, <1>3, <1>4, <2>3 DEF Index
  <2>5. Masked'
    BY <1>1, <2>1, <2>4 DEF IInv, Masked, Index, PrefixBits
  <2>6. QED
    BY <1>1, <2>2, <2>5 DEF IInv
<1>8. QED
  BY <1>6, <1>7

LEMMA AndStep ==
  ASSUME IInv, And
  PROVE  IInv'
<1>1. pc = "and" /\ UNCHANGED <<netmask, given, m, b, j, touched>> /\ i \in 0..Words
  BY DEF And, IInv, Bounds
<1>2. CASE i < Words
  <2>1. a' = [a EXCEPT ![i] = a[i] \cap m[i]] /\ i' = i + 1 /\ pc' = pc
    BY <1>1, <1>2 DEF And
  <2>2. i \in Index
    BY <1>1, <1>2 DEF Index
  <2>3. Bounds'
    BY <1>1, <1>2, <2>1 DEF IInv, Bounds
  <2>4. a' \in [Index -> SUBSET Int]
    BY <1>1, <2>1, <2>2 DEF IInv, Masked
  <2>5. \A w \in Index : a'[w] = IF w < i + 1 THEN given[w] \cap m[w] ELSE given[w]
    <3>1. a \in [Index -> SUBSET Int]
      BY DEF IInv, Masked
    <3>2. \A w \in Index : a[w] = IF w < i THEN given[w] \cap m[w] ELSE given[w]
      BY <1>1 DEF IInv, Masked
    <3>3. a'[i] = given[i] \cap m[i]
      BY <1>1, <2>1, <2>2, <3>1, <3>2
    <3>4. ASSUME NEW w \in Index, w # i
          PROVE  a'[w] = IF w < i + 1 THEN given[w] \cap m[w] ELSE given[w]
      <4>1. a'[w] = a[w]
        BY <2>1, <3>1, <3>4
      <4>2. (w < i + 1) <=> (w < i)
        BY <1>1, <3>4 DEF Index
      <4>3. QED
        BY <3>2, <4>1, <4>2, Zenon
    <3>5. i < i + 1
      BY <1>1
    <3>6. QED
      BY <3>3, <3>4, <3>5, Zenon
  <2>6. Masked'
    <3>1. given' = given /\ m' = m /\ pc' = "and" /\ i' = i + 1
      BY <1>1, <2>1
    <3>2. \A w \in Index : m'[w] = PrefixBits(w, netmask)'
      BY <1>1, <3>1 DEF IInv, Masked, PrefixBits
    <3>3. \A w \in Index :
            a'[w] = IF w < i' THEN given'[w] \cap m'[w] ELSE given'[w]
      BY <2>5, <3>1, Zenon
    <3>4. QED
      BY <2>4, <3>1, <3>2, <3>3 DEF IInv, Masked
  <2>7. QED
    BY <1>1, <2>1, <2>3, <2>6 DEF IInv
<1>3. CASE i >= Words
  <2>1. pc' = "done" /\ UNCHANGED <<a, i>>
    BY <1>1, <1>3 DEF And
  <2>2. Bounds'
    BY <1>1, <2>1 DEF IInv, Bounds
  <2>3. \A w \in Index : a[w] = given[w] \cap m[w]
    BY <1>1, <1>3 DEF IInv, Masked, Index
  <2>4. Masked'
    BY <1>1, <2>1, <2>3 DEF IInv, Masked, PrefixBits
  <2>5. QED
    BY <1>1, <2>1, <2>2, <2>4 DEF IInv
<1>4. QED
  BY <1>1, <1>2, <1>3
-----------------------------------------------------------------------------
\* The loops of parse_addr keep the invariant.
THEOREM Invariance == Spec => []IInv
<1>1. Init => IInv
  <2>1. SUFFICES ASSUME Init PROVE IInv
    OBVIOUS
  <2>2. Bounds
    BY <2>1 DEF Init, Bounds
  <2>3. Masked
    BY <2>1 DEF Init, Masked, Index, Word
  <2>4. QED
    BY <2>1, <2>2, <2>3 DEF Init, IInv
<1>2. IInv /\ [Next]_vars => IInv'
  <2>1. CASE UNCHANGED vars
    BY <2>1 DEF vars, IInv, Bounds, Masked, Index, WordRange, PrefixBits
  <2>2. QED
    BY <2>1, FullWordsStep, LastBitsStep, SwapStep, AndStep DEF Next
<1>3. QED
  BY <1>1, <1>2, PTL DEF Spec

\* parse_addr keeps the first netmask bits of an address and clears the others.
THEOREM PrefixKept == Spec => []HostPartCleared
<1>1. IInv => HostPartCleared
  BY DEF IInv, Masked, HostPartCleared
<1>2. QED
  BY <1>1, Invariance, PTL

\* parse_addr never writes its mask past the end.
THEOREM MaskWritten == Spec => []MaskInBounds
<1>1. IInv => MaskInBounds
  BY DEF IInv, Bounds, MaskInBounds
<1>2. QED
  BY <1>1, Invariance, PTL

\* The variables of the loops keep their types.
THEOREM TypeCorrect == Spec => []TypeOK
<1>1. ASSUME IInv PROVE TypeOK
  <2>1. b \in 0..Words*WordBits
    <3>1. j * WordBits \in Nat /\ Words * WordBits \in Nat
      BY <1>1 DEF IInv, Bounds
    <3>2. QED
      BY <1>1, <3>1 DEF IInv, Bounds
  <2>2. touched \subseteq 0..Words
    BY <1>1 DEF IInv, Bounds, Index
  <2>3. QED
    BY <1>1, <2>1, <2>2 DEF IInv, Bounds, Masked, TypeOK
<1>2. QED
  BY <1>1, Invariance, PTL
=============================================================================
