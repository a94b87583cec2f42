------------------------------- MODULE NetMask -------------------------------
(***************************************************************************)
(* The end of parse_addr (parse.c): the loops that build the mask of a     *)
(* prefix and clear the host part of an address.                           *)
(*                                                                         *)
(* A word is the set of the positions of its one bits, so |= is union and  *)
(* &= intersection.  Words are as in memory: bit k of an address, counted  *)
(* from the first one on the wire, is position Htonl(WordBits - 1 - k % .) *)
(* of word k \div WordBits.  The code has 4 words of 32 bits.              *)
(***************************************************************************)
EXTENDS Integers

CONSTANTS
  Words,      \* words of an address
  WordBits,   \* bits of a word
  ByteBits,   \* bits of a byte
  BigEndian   \* the byte order of the host

ASSUME NetMaskAssumption ==
  /\ Words \in Nat
  /\ WordBits \in Nat \ {0}
  /\ ByteBits \in Nat \ {0} /\ WordBits % ByteBits = 0
  /\ BigEndian \in BOOLEAN

VARIABLES
  pc,       \* the loop being run
  netmask,  \* addr->netmask
  given,    \* the address before
  a, m,     \* the words of the address and of the mask
  b, i, j,  \* the variables of the loops
  touched   \* history: the indices at which the mask was written

vars == <<pc, netmask, given, a, m, b, i, j, touched>>

Word == SUBSET (0..WordBits-1)
Index == 0..Words-1

\* Where htonl puts a bit of its argument.
Htonl(k) ==
  IF BigEndian THEN k
  ELSE WordBits - ByteBits - ByteBits * (k \div ByteBits) + (k % ByteBits)

TypeOK ==
  /\ pc \in {"words", "bits", "swap", "and", "done"}
  /\ netmask \in 0..Words*WordBits
  /\ given \in [Index -> SUBSET Int] /\ a \in [Index -> SUBSET Int]
  /\ m \in [Index -> SUBSET Int]
  /\ b \in 0..Words*WordBits
  /\ i \in Int
  /\ j \in 0..Words
  /\ touched \subseteq 0..Words

\* The address is any; the prefix was checked against the address family.
Init ==
  /\ pc = "words"
  /\ netmask \in 0..Words*WordBits
  /\ given \in [Index -> Word]
  /\ a = given
  /\ m = [w \in Index |-> {}]
  /\ b = netmask
  /\ i = 0
  /\ j = 0
  /\ touched = {}

\* Writes word j of the mask.
SetMask(word) ==
  /\ m' = [m EXCEPT ![j] = word]
  /\ touched' = touched \cup {j}

\* Variant: the loop over words stops one word late.
FullWordsLate ==
  /\ pc = "words"
  /\ \/ /\ b > 0
        /\ SetMask(0..WordBits-1)
        /\ j' = j + 1
        /\ b' = b - WordBits
        /\ UNCHANGED <<pc, i>>
     \/ /\ b <= 0
        /\ pc' = "bits"
        /\ i' = WordBits - 1
        /\ UNCHANGED <<m, b, j, touched>>
  /\ UNCHANGED <<netmask, given, a>>

\* for (b = addr->netmask; b >= 32; b -= 32) m[j++] = 0xFFFFFFFF
FullWords ==
  /\ pc = "words"
  /\ \/ /\ b >= WordBits
        /\ SetMask(0..WordBits-1)
        /\ j' = j + 1
        /\ b' = b - WordBits
        /\ UNCHANGED <<pc, i>>
     \/ /\ b < WordBits
        /\ pc' = "bits"
        /\ i' = WordBits - 1
        /\ UNCHANGED <<m, b, j, touched>>
  /\ UNCHANGED <<netmask, given, a>>

\* for (i = 31; i > 31 - b; --i) m[j] |= 1 << i
LastBits ==
  /\ pc = "bits"
  /\ \/ /\ i > WordBits - 1 - b
        /\ SetMask(m[j] \cup {i})
        /\ i' = i - 1
        /\ UNCHANGED pc
     \/ /\ i <= WordBits - 1 - b
        /\ pc' = "swap"
        /\ UNCHANGED <<m, i, touched>>
  /\ UNCHANGED <<netmask, given, a, b, j>>

\* Variant: m[j] is swapped even when the prefix ends with a word.
SwapAlways ==
  /\ pc = "swap"
  /\ SetMask(IF j \in Index THEN {Htonl(k) : k \in m[j]} ELSE {})
  /\ pc' = "and"
  /\ i' = 0
  /\ UNCHANGED <<netmask, given, a, b, j>>

\* Variant: the last word stays in the byte order of the host.
SwapForgotten ==
  /\ pc = "swap"
  /\ pc' = "and"
  /\ i' = 0
  /\ UNCHANGED <<netmask, given, a, m, b, j, touched>>

\* if (0 != b) m[j] = htonl(m[j])
Swap ==
  /\ pc = "swap"
  /\ \/ b # 0 /\ SetMask({Htonl(k) : k \in m[j]})
     \/ b = 0 /\ UNCHANGED <<m, touched>>
  /\ pc' = "and"
  /\ i' = 0
  /\ UNCHANGED <<netmask, given, a, b, j>>

\* for (i = 0; i < 4; i++) a[i] &= m[i]
And ==
  /\ pc = "and"
  /\ \/ /\ i < Words
        /\ a' = [a EXCEPT ![i] = @ \cap m[i]]
        /\ i' = i + 1
        /\ UNCHANGED pc
     \/ /\ i >= Words
        /\ pc' = "done"
        /\ UNCHANGED <<a, i>>
  /\ UNCHANGED <<netmask, given, m, b, j, touched>>

Next == FullWords \/ LastBits \/ Swap \/ And

Spec == Init /\ [][Next]_vars
-----------------------------------------------------------------------------
\* The bits of word w that belong to the first n bits of an address.
PrefixBits(w, n) ==
  {Htonl(k) : k \in {k \in 0..WordBits-1 : w * WordBits + (WordBits - 1 - k) < n}}

\* parse_addr keeps the first netmask bits of the address and clears all the
\* others, for every prefix.
HostPartCleared ==
  pc = "done" => \A w \in Index : a[w] = given[w] \cap PrefixBits(w, netmask)

\* The mask is never written past its end: after a prefix as long as the
\* address j is one past the last word, and neither the loop over bits nor
\* htonl touches m[j].
MaskInBounds == touched \subseteq Index
=============================================================================
