-------------------------- MODULE InputRulesProofs --------------------------
(***************************************************************************)
(* Lemmas about what Register accepts, for any alphabet and any limits:    *)
(* what TrimSpace leaves alone, how many bytes a text can have, and when   *)
(* a password is more than one character over and over.                    *)
(***************************************************************************)
EXTENDS InputRules, FiniteSetTheorems, SequenceTheorems, WellFoundedInduction, TLAPS

(* A set of naturals has a least element ...                               *)
LEMMA LeastNatural ==
  ASSUME NEW T, T \subseteq Nat, T # {}
  PROVE  \E m \in T : \A n \in T : m <= n
<1>1. PICK m \in T : \A n \in T : <<n, m>> \notin OpToRel(<, Nat)
  BY NatLessThanWellFounded, WFMin
<1>2. \A n \in T : ~(n < m)
  BY <1>1 DEF OpToRel
<1> QED
  BY <1>2

(* ... and a greatest one, if it is bounded.                               *)
LEMMA GreatestNatural ==
  ASSUME NEW T, T \subseteq Nat, T # {}, NEW b \in Nat, \A n \in T : n <= b
  PROVE  \E m \in T : \A n \in T : n <= m
<1> DEFINE U == {b - n : n \in T}
<1>1. U \subseteq Nat /\ U # {}
  <2>1. \A n \in T : b - n \in Nat
    OBVIOUS
  <2>2. PICK n \in T : TRUE
    OBVIOUS
  <2>3. b - n \in U
    BY <2>2
  <2> QED
    BY <2>1, <2>3
<1>2. PICK k \in U : \A n \in U : k <= n
  BY <1>1, LeastNatural
<1>3. PICK m \in T : k = b - m
  OBVIOUS
<1>4. \A n \in T : b - m <= b - n
  BY <1>2, <1>3
<1> QED
  BY <1>3, <1>4

(* A text is a sequence of characters.                                     *)
LEMMA TextIsSequence ==
  ASSUME NEW n \in Nat, NEW s \in Texts(n)
  PROVE  s \in Seq(Characters) /\ Len(s) \in 0 .. n /\ \A i \in 1 .. Len(s) : s[i] \in Characters
<1>1. PICK k \in 0 .. n : s \in [1 .. k -> Characters]
  BY DEF Texts
<1>2. s \in Seq(Characters) /\ Len(s) = k
  BY <1>1
<1> QED
  BY <1>1, <1>2

(* A text has one to four bytes for each character, and one where all of   *)
(* them are narrow.                                                        *)
LEMMA BytesBounds ==
  ASSUME NEW n \in Nat, NEW s \in Texts(n)
  PROVE  /\ Bytes(s) \in Nat
         /\ Len(s) <= Bytes(s) /\ Bytes(s) <= UTFMax * Len(s)
         /\ Narrow(s) => Bytes(s) = Len(s)
<1> DEFINE All == (1..Len(s)) \X (1..UTFMax)
           Firsts == (1..Len(s)) \X {1}
           B == {q \in All : q[2] <= Width[s[q[1]]]}
<1>1. Len(s) \in Nat /\ \A i \in 1..Len(s) : Width[s[i]] \in 1..UTFMax
  BY TextIsSequence, InputAssumption
<1>2. IsFiniteSet(1..Len(s)) /\ Cardinality(1..Len(s)) = Len(s)
  <2>1. 1 \in Int /\ Len(s) \in Int
    BY <1>1
  <2>2. /\ IsFiniteSet(1..Len(s))
        /\ Cardinality(1..Len(s)) = IF 1 > Len(s) THEN 0 ELSE Len(s) - 1 + 1
    BY <2>1, FS_Interval
  <2> QED
    BY <1>1, <2>2
<1>3. IsFiniteSet(All) /\ Cardinality(All) = UTFMax * Len(s)
  <2>1. 1 \in Int /\ UTFMax \in Int
    BY DEF UTFMax
  <2>2. IsFiniteSet(1..UTFMax) /\ Cardinality(1..UTFMax) = IF 1 > UTFMax THEN 0 ELSE UTFMax - 1 + 1
    BY <2>1, FS_Interval
  <2>3. Cardinality(1..UTFMax) = UTFMax
    BY <2>2 DEF UTFMax
  <2>4. IsFiniteSet(All) /\ Cardinality(All) = Cardinality(1..Len(s)) * Cardinality(1..UTFMax)
    BY <1>2, <2>2, FS_Product
  <2> QED
    BY <1>1, <1>2, <2>3, <2>4 DEF UTFMax
<1>4. IsFiniteSet(Firsts) /\ Cardinality(Firsts) = Len(s)
  <2>1. IsFiniteSet({1}) /\ Cardinality({1}) = 1
    BY FS_Singleton
  <2>2. IsFiniteSet(Firsts) /\ Cardinality(Firsts) = Cardinality(1..Len(s)) * Cardinality({1})
    BY <1>2, <2>1, FS_Product
  <2> QED
    BY <1>1, <1>2, <2>1, <2>2
<1>5. Firsts \in SUBSET B
  BY <1>1 DEF UTFMax
<1>6. Narrow(s) => B = Firsts
  BY <1>1, <1>5 DEF Narrow, UTFMax
<1>7. B \in SUBSET All /\ Bytes(s) = Cardinality(B)
  BY DEF Bytes
<1> HIDE DEF All, Firsts, B
<1>8. IsFiniteSet(B) /\ Cardinality(B) <= Cardinality(All)
  BY <1>3, <1>7, FS_Subset
<1>9. Cardinality(Firsts) <= Cardinality(B)
  BY <1>5, <1>8, FS_Subset
<1>10. Cardinality(B) \in Nat
  BY <1>8, FS_CardinalityType
<1> QED
  BY <1>3, <1>4, <1>6, <1>7, <1>8, <1>9, <1>10

(* TrimSpace leaves a text alone that neither begins nor ends with a space.*)
LEMMA TrimmedText ==
  ASSUME NEW n \in Nat, NEW s \in Texts(n), s # << >>
  PROVE  TrimSpace(s) = s <=> s[1] \notin Spaces /\ s[Len(s)] \notin Spaces
<1> DEFINE kept == {i \in 1 .. Len(s) : s[i] \notin Spaces}
           First == CHOOSE i \in kept : \A j \in kept : i <= j
           Last == CHOOSE i \in kept : \A j \in kept : j <= i
<1>1. /\ s \in Seq(Characters) /\ Len(s) \in Nat /\ Len(s) >= 1
      /\ \A i \in 1 .. Len(s) : s[i] \in Characters
  BY TextIsSequence, EmptySeq
<1>2. TrimSpace(s) = IF kept = {} THEN << >> ELSE SubSeq(s, First, Last)
  BY DEF TrimSpace
<1>3. kept \subseteq 1 .. Len(s) /\ kept \subseteq Nat /\ \A i \in kept : i <= Len(s)
  BY <1>1
<1>4. ASSUME kept # {}
      PROVE  /\ First \in kept /\ \A j \in kept : First <= j
             /\ Last \in kept /\ \A j \in kept : j <= Last
  <2>1. \E i \in kept : \A j \in kept : i <= j
    BY <1>3, <1>4, LeastNatural
  <2>2. \E i \in kept : \A j \in kept : j <= i
    BY <1>1, <1>3, <1>4, GreatestNatural
  <2> QED
    BY <2>1, <2>2
<1>5. \A i \in 1 .. Len(s) : i \in kept <=> s[i] \notin Spaces
  OBVIOUS
<1> HIDE DEF kept, First, Last
<1>6. ASSUME s[1] \notin Spaces, s[Len(s)] \notin Spaces
      PROVE  TrimSpace(s) = s
  <2>1. 1 \in kept /\ Len(s) \in kept
    BY <1>1, <1>5, <1>6
  <2>2. First = 1 /\ Last = Len(s)
    <3>1. First \in 1 .. Len(s) /\ First <= 1 /\ Last \in 1 .. Len(s) /\ Len(s) <= Last
      BY <1>3, <1>4, <2>1
    <3> QED
      BY <1>1, <3>1
  <2>3. SubSeq(s, 1, Len(s)) = s
    BY <1>1, SubSeqFull
  <2> QED
    BY <1>2, <2>1, <2>2, <2>3
<1>7. ASSUME TrimSpace(s) = s
      PROVE  s[1] \notin Spaces /\ s[Len(s)] \notin Spaces
  <2>1. kept # {}
    BY <1>2, <1>7
  <2>2. First \in 1 .. Len(s) /\ Last \in 1 .. Len(s) /\ First <= Last
    BY <1>3, <1>4, <2>1
  <2>3. Len(SubSeq(s, First, Last)) = Last - First + 1
    BY <1>1, <2>2, SubSeqProperties
  <2>4. Last - First + 1 = Len(s)
    BY <1>2, <1>7, <2>1, <2>3
  <2>5. First = 1 /\ Last = Len(s)
    BY <1>1, <2>2, <2>4
  <2> QED
    BY <1>1, <1>4, <1>5, <2>1, <2>5
<1> QED
  BY <1>6, <1>7

(* A text has more than one character if one differs from the first.       *)
LEMMA VariedText ==
  ASSUME NEW n \in Nat, NEW s \in Texts(n)
  PROVE  Cardinality({s[i] : i \in 1 .. Len(s)}) > 1 <=> \E i \in 1 .. Len(s) : s[i] # s[1]
<1> DEFINE C == {s[i] : i \in 1 .. Len(s)}
<1>1. Len(s) \in Nat /\ IsFiniteSet(1 .. Len(s))
  <2>1. Len(s) \in Nat /\ 1 \in Int /\ Len(s) \in Int
    BY TextIsSequence
  <2> QED
    BY <2>1, FS_Interval
<1>2. IsFiniteSet(C)
  <2>1. s \in Surjection(1 .. Len(s), C)
    BY TextIsSequence DEF Surjection
  <2> QED
    BY <1>1, <2>1, FS_Surjection
<1>3. Cardinality(C) \in Nat
  BY <1>2, FS_CardinalityType
<1>4. ASSUME NEW i \in 1 .. Len(s), s[i] # s[1]
      PROVE  Cardinality(C) > 1
  <2>1. {s[1]} \in SUBSET C /\ s[1] \in C /\ s[i] \in C
    BY <1>1, <1>4
  <2> HIDE DEF C
  <2>2. Cardinality({s[1]}) = 1
    BY FS_Singleton
  <2>3. Cardinality({s[1]}) <= Cardinality(C) /\ (Cardinality(C) = Cardinality({s[1]}) => C = {s[1]})
    BY <1>2, <2>1, FS_Subset
  <2>4. C # {s[1]}
    BY <1>4, <2>1
  <2> QED
    BY <1>3, <2>2, <2>3, <2>4
<1>5. ASSUME \A i \in 1 .. Len(s) : s[i] = s[1]
      PROVE  Cardinality(C) <= 1
  <2>1. C \in SUBSET {s[1]}
    BY <1>5
  <2> HIDE DEF C
  <2>2. IsFiniteSet({s[1]}) /\ Cardinality({s[1]}) = 1
    BY FS_Singleton
  <2>3. Cardinality(C) <= Cardinality({s[1]})
    BY <2>1, <2>2, FS_Subset
  <2> QED
    BY <2>2, <2>3
<1> QED
  BY <1>3, <1>4, <1>5

(* What a password must be apart from its length.                          *)
WellFormed(p) ==
  /\ p # Nil
  /\ p[1] \notin Spaces /\ p[Len(p)] \notin Spaces
  /\ Cardinality({p[i] : i \in 1 .. Len(p)}) > 1

(* ValidatePassword asks for that and counts bytes ...                     *)
LEMMA PasswordsByBytes ==
  ASSUME NEW n \in Nat, NEW p \in Texts(n)
  PROVE  ValidatePassword(p) <=>
           /\ MinimumPasswordLength <= Bytes(p) /\ Bytes(p) <= MaximumPasswordLength
           /\ WellFormed(p)
<1>1. /\ Bytes(p) \in Nat /\ Len(p) \in Nat
      /\ Len(p) <= Bytes(p) /\ Bytes(p) <= UTFMax * Len(p)
  BY BytesBounds, TextIsSequence
<1>2. /\ MinimumPasswordLength \in Nat /\ MaximumPasswordLength \in Nat
      /\ 0 < MinimumPasswordLength
  BY InputAssumption
<1>3. Bytes(p) >= MinimumPasswordLength => p # << >>
  BY <1>1, <1>2, EmptySeq DEF UTFMax
<1>4. p # << >> => (TrimSpace(p) = p <=> p[1] \notin Spaces /\ p[Len(p)] \notin Spaces)
  BY TrimmedText
<1>5. Cardinality({p[i] : i \in 1 .. Len(p)}) > 1 <=> \E i \in 1 .. Len(p) : p[i] # p[1]
  BY VariedText
<1> QED
  BY <1>1, <1>2, <1>3, <1>4, <1>5 DEF ValidatePassword, WellFormed

(* ... where the messages count symbols.                                   *)
LEMMA PasswordsBySymbols ==
  ASSUME NEW n \in Nat, NEW p \in Texts(n)
  PROVE  PromisedPassword(p) <=>
           /\ MinimumPasswordLength <= Len(p) /\ Len(p) <= MaximumPasswordLength
           /\ WellFormed(p)
<1>1. Len(p) \in Nat /\ MinimumPasswordLength \in Nat /\ MaximumPasswordLength \in Nat
  BY TextIsSequence, InputAssumption
<1> QED
  BY <1>1 DEF PromisedPassword, WellFormed

-----------------------------------------------------------------------------
(* Where a character is a byte, names and passwords are accepted as their  *)
(* messages promise, whatever the limits are.                              *)
LEMMA NarrowNames ==
  ASSUME NEW n \in Nat, NEW name \in Texts(n), Narrow(name)
  PROVE  ValidName(name) <=> PromisedName(name)
<1>1. Bytes(name) = Len(name) /\ Len(name) \in Nat
  BY BytesBounds, TextIsSequence
<1>2. MinNameLength \in Nat /\ MaxNameLength \in Nat
  BY InputAssumption
<1> QED
  BY <1>1, <1>2 DEF ValidName, PromisedName

LEMMA NarrowPasswords ==
  ASSUME NEW n \in Nat, NEW p \in Texts(n), Narrow(p)
  PROVE  ValidatePassword(p) <=> PromisedPassword(p)
<1>1. Bytes(p) = Len(p) /\ Len(p) \in Nat
  BY BytesBounds, TextIsSequence
<1>2. MinimumPasswordLength \in Nat /\ MaximumPasswordLength \in Nat
  BY InputAssumption
<1>3. ValidatePassword(p) <=>
        /\ MinimumPasswordLength <= Bytes(p) /\ Bytes(p) <= MaximumPasswordLength
        /\ WellFormed(p)
  BY PasswordsByBytes
<1>4. PromisedPassword(p) <=>
        /\ MinimumPasswordLength <= Len(p) /\ Len(p) <= MaximumPasswordLength
        /\ WellFormed(p)
  BY PasswordsBySymbols
<1> QED
  BY <1>1, <1>3, <1>4

(* Whatever the characters are, a password that is accepted and was not    *)
(* promised to be has too few of them, and a quarter of the number at      *)
(* least; one that is refused and was promised has too many bytes.         *)
LEMMA MisjudgedPasswords ==
  ASSUME NEW n \in Nat, NEW p \in Texts(n)
  PROVE  /\ ValidatePassword(p) /\ ~PromisedPassword(p) =>
              Len(p) < MinimumPasswordLength /\ MinimumPasswordLength <= UTFMax * Len(p)
         /\ PromisedPassword(p) /\ ~ValidatePassword(p) => Bytes(p) > MaximumPasswordLength
<1>1. /\ Bytes(p) \in Nat /\ Len(p) \in Nat
      /\ Len(p) <= Bytes(p) /\ Bytes(p) <= UTFMax * Len(p)
  BY BytesBounds, TextIsSequence
<1>2. MinimumPasswordLength \in Nat /\ MaximumPasswordLength \in Nat
  BY InputAssumption
<1>3. ValidatePassword(p) <=>
        /\ MinimumPasswordLength <= Bytes(p) /\ Bytes(p) <= MaximumPasswordLength
        /\ WellFormed(p)
  BY PasswordsByBytes
<1>4. PromisedPassword(p) <=>
        /\ MinimumPasswordLength <= Len(p) /\ Len(p) <= MaximumPasswordLength
        /\ WellFormed(p)
  BY PasswordsBySymbols
<1> QED
  BY <1>1, <1>2, <1>3, <1>4 DEF UTFMax

(* A name that is accepted was promised to be; one that is refused though  *)
(* promised has too many bytes.                                            *)
LEMMA MisjudgedNames ==
  ASSUME NEW n \in Nat, NEW name \in Texts(n)
  PROVE  /\ ValidName(name) => PromisedName(name)
         /\ PromisedName(name) /\ ~ValidName(name) => Bytes(name) > MaxNameLength
<1>1. Bytes(name) \in Nat /\ MaxNameLength \in Nat
  BY BytesBounds, InputAssumption
<1> QED
  BY <1>1 DEF ValidName, PromisedName

=============================================================================
