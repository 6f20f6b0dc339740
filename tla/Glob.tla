-------------------------------- MODULE Glob --------------------------------
(***************************************************************************)
(* authz.Match (internal/authz/glob.go): whether a rule's pattern accepts  *)
(* a host or a subject. Both are sequences of characters here, and a host  *)
(* or a subject without a glob character is a pattern for itself.          *)
(*                                                                         *)
(* The algorithm consumes both from the left and tries every split at a    *)
(* star. Meaning says what a pattern is for without an order of trying.    *)
(***************************************************************************)
EXTENDS Integers, Sequences, SequencesExt

Separator == "/"
AnyChar == "?"
Star == "*"

Double(pattern, i) == i < Len(pattern) /\ pattern[i] = Star /\ pattern[i + 1] = Star

\* strings.TrimLeft(pattern, "*"), of what is left from the i-th character.
AfterStars(pattern, i) ==
  CHOOSE k \in i .. Len(pattern) + 1 :
    /\ \A l \in i .. k - 1 : pattern[l] = Star
    /\ k = Len(pattern) + 1 \/ pattern[k] # Star

\* A single star stops at a separator.
Crosses(subject, j, k) == \E l \in j + 1 .. k : subject[l] = Separator

(***************************************************************************)
(* matchFrom, called on what is left of the pattern from its i-th          *)
(* character: the places j for which it returns true, called on what is    *)
(* left of the subject after its first j. later[k] are those for what is   *)
(* left from the k-th.                                                     *)
(***************************************************************************)
Accepts(pattern, subject, later, i) ==
  {j \in 0 .. Len(subject) :
     \/ i > Len(pattern) /\ j = Len(subject)
     \/ Double(pattern, i) /\ \E k \in later[AfterStars(pattern, i)] : j <= k
     \/ /\ i <= Len(pattern) /\ pattern[i] = Star /\ ~Double(pattern, i)
        /\ \E k \in later[i + 1] : j <= k /\ ~Crosses(subject, j, k)
     \/ /\ i <= Len(pattern) /\ pattern[i] = AnyChar
        /\ j < Len(subject) /\ subject[j + 1] # Separator /\ j + 1 \in later[i + 1]
     \/ /\ i <= Len(pattern) /\ pattern[i] \notin {Star, AnyChar}
        /\ j < Len(subject) /\ subject[j + 1] = pattern[i] /\ j + 1 \in later[i + 1]}

Match(pattern, subject) ==
  LET matchFrom[i \in 1 .. Len(pattern) + 1] == Accepts(pattern, subject, matchFrom, i)
  IN  0 \in matchFrom[1]

-----------------------------------------------------------------------------
(***************************************************************************)
(* The reference: the subject can be cut into one piece per character of   *)
(* the pattern, each of a kind that character stands for. A star beside    *)
(* another star is half of a double one.                                   *)
(***************************************************************************)
StandsFor(pattern, i, piece) ==
  CASE pattern[i] = Star ->
         \/ \E l \in {i - 1, i + 1} \cap DOMAIN pattern : pattern[l] = Star
         \/ ~Contains(piece, Separator)
    [] pattern[i] = AnyChar -> Len(piece) = 1 /\ piece[1] # Separator
    [] OTHER -> piece = <<pattern[i]>>

Meaning(pattern, subject) ==
  \E cut \in [0 .. Len(pattern) -> 0 .. Len(subject)] :
    /\ cut[0] = 0 /\ cut[Len(pattern)] = Len(subject)
    /\ \A i \in DOMAIN pattern :
         /\ cut[i - 1] <= cut[i]
         /\ StandsFor(pattern, i, SubSeq(subject, cut[i - 1] + 1, cut[i]))

MatchIsMeaning(Letters, patternLength, subjectLength) ==
  \A pattern \in BoundedSeq(Letters \cup {AnyChar, Star}, patternLength) :
    \A subject \in BoundedSeq(Letters, subjectLength) :
      Match(pattern, subject) <=> Meaning(pattern, subject)
=============================================================================
