----------------------------- MODULE InputRules -----------------------------
(***************************************************************************)
(* What Register accepts.  A text is a sequence of characters, each of one *)
(* to four bytes: Go's len counts bytes, the validator and the messages    *)
(* count symbols, bcrypt counts bytes again.                               *)
(***************************************************************************)
EXTENDS Naturals, Sequences, FiniteSets

CONSTANTS Characters,
          Width,                  \* how many bytes a character has in UTF-8
          Spaces,                 \* those that TrimSpace removes
          MinimumPasswordLength,  \* 8
          MaximumPasswordLength,  \* 128
          MaximumHashedLength,    \* 72, of bcrypt
          MinNameLength,          \* 2
          MaxNameLength,          \* 15
          MaxText,                \* bound: the longest text that is tried
          Nil                     \* no password

UTFMax == 4

ASSUME InputAssumption ==
  /\ Width \in [Characters -> 1..UTFMax]
  /\ Spaces \subseteq Characters
  /\ {MinimumPasswordLength, MaximumPasswordLength, MaximumHashedLength,
      MinNameLength, MaxNameLength, MaxText} \subseteq Nat
  /\ 0 < MinimumPasswordLength
  /\ MinimumPasswordLength < MaximumHashedLength
  /\ MaximumHashedLength < MaximumPasswordLength
  /\ MaximumPasswordLength < MaxText
  /\ MinNameLength < MaxNameLength
  /\ MaxNameLength < MaxText

Texts(n) == UNION {[1..k -> Characters] : k \in 0..n}

(* len(s): a byte is its character's place and its own place in there.     *)
Bytes(s) == Cardinality({q \in (1..Len(s)) \X (1..UTFMax) : q[2] <= Width[s[q[1]]]})

(* strings.TrimSpace.                                                      *)
TrimSpace(s) ==
  LET kept == {i \in 1..Len(s) : s[i] \notin Spaces}
      First == CHOOSE i \in kept : \A j \in kept : i <= j
      Last == CHOOSE i \in kept : \A j \in kept : j <= i
  IN  IF kept = {} THEN << >> ELSE SubSeq(s, First, Last)

(* Mutant of ValidatePassword: the maximum is exclusive.                   *)
ValidatePasswordBelowMaximum(p) ==
  /\ p # Nil
  /\ TrimSpace(p) = p
  /\ Bytes(p) >= MinimumPasswordLength
  /\ Bytes(p) < MaximumPasswordLength
  /\ \E i \in 1..Len(p) : p[i] # p[1]

(* Mutant of ValidatePassword: repetition is looked for byte by byte.      *)
ValidatePasswordBytewise(p) ==
  /\ p # Nil
  /\ TrimSpace(p) = p
  /\ Bytes(p) >= MinimumPasswordLength
  /\ Bytes(p) <= MaximumPasswordLength
  /\ Width[p[1]] > 1 \/ \E i \in 1..Len(p) : p[i] # p[1]

(* password.service.ValidatePassword returns nil.                          *)
ValidatePassword(p) ==
  /\ p # Nil
  /\ TrimSpace(p) = p
  /\ Bytes(p) >= MinimumPasswordLength
  /\ Bytes(p) <= MaximumPasswordLength
  /\ \E i \in 1..Len(p) : p[i] # p[1]

(* GeneratePasswordHash returns no error.                                  *)
Hashable(p) == Bytes(p) <= MaximumHashedLength

(* The handler counts the bytes of a name, its validator the symbols.      *)
ValidName(name) ==
  /\ Bytes(name) <= MaxNameLength
  /\ Len(name) \in MinNameLength..MaxNameLength

(* Register, for an address that is free and a database that works.        *)
Register(name, p) ==
  IF ~ValidName(name) \/ ~ValidatePassword(p) THEN "StatusBadRequest"
  ELSE IF ~Hashable(p) THEN "StatusInternalServerError"
  ELSE "StatusCreated"

-----------------------------------------------------------------------------
Narrow(s) == \A i \in 1..Len(s) : Width[s[i]] = 1

(* What the messages say, which speak of symbols; EmailVerification states  *)
(* how far Register keeps to it.                                           *)
PromisedPassword(p) ==
  /\ p # Nil
  /\ Len(p) \in MinimumPasswordLength..MaximumPasswordLength
  /\ p[1] \notin Spaces /\ p[Len(p)] \notin Spaces
  /\ Cardinality({p[i] : i \in 1..Len(p)}) > 1

PromisedName(name) == Len(name) \in MinNameLength..MaxNameLength

=============================================================================
