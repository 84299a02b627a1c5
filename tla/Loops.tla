-------------------------------- MODULE Loops --------------------------------
(***************************************************************************)
(* Lemmas about loops over sequences, which the models compute by          *)
(* recursive functions: where the code sums up records or puts pieces      *)
(* together (flightrecorder.go:102-111, telnet/stream.go:109-121).         *)
(***************************************************************************)
EXTENDS Naturals, Sequences, SequenceTheorems, NaturalsInduction, WellFoundedInduction, TLAPS

(* A set of numbers with 0 that is closed under the next number holds all  *)
(* numbers: what loops over data are argued by.                            *)
LEMMA SetInduction ==
  ASSUME NEW T, 0 \in T, \A n \in Nat : n \in T => n + 1 \in T
  PROVE  Nat \subseteq T
<1> SUFFICES ASSUME Nat \ T # {} PROVE FALSE
  OBVIOUS
<1>1. IsWellFoundedOn(OpToRel(<, Nat), Nat)
  BY NatLessThanWellFounded
<1>2. PICK n \in Nat \ T : \A m \in Nat \ T : ~(<<m, n>> \in OpToRel(<, Nat))
  BY <1>1, WFMin
<1>3. \A m \in Nat \ T : ~(m < n)
  BY <1>2 DEF OpToRel
<1>4. n - 1 \in Nat /\ n - 1 < n /\ n - 1 + 1 = n
  OBVIOUS
<1> QED
  BY <1>3, <1>4

(* What a loop over N things has reached after each of them.              *)
IsLoop(f, N, base, step) == f[0] = base /\ \A n \in 1..N : f[n] = step[n][f[n - 1]]

(* A loop over N things that carries a value of S has a result: there is a *)
(* function of the number of things passed.                                *)
LEMMA LoopDefined ==
  ASSUME NEW N \in Nat, NEW S, NEW base \in S, NEW step \in [1..N -> [S -> S]]
  PROVE  \E f \in [0..N -> S] : IsLoop(f, N, base, step)
<1> DEFINE Upto(n, f) == IsLoop(f, n, base, step)
           T == {n \in Nat : n <= N => \E f \in [0..n -> S] : Upto(n, f)}
<1> USE DEF IsLoop
<1>1. 0 \in T
  <2>1. [m \in 0..0 |-> base] \in [0..0 -> S] /\ Upto(0, [m \in 0..0 |-> base])
    OBVIOUS
  <2> QED
    BY <2>1
<1>2. ASSUME NEW n \in Nat, n \in T PROVE n + 1 \in T
  <2> SUFFICES ASSUME n + 1 <= N PROVE \E f \in [0..(n + 1) -> S] : Upto(n + 1, f)
    OBVIOUS
  <2>1. PICK f \in [0..n -> S] : Upto(n, f)
    BY <1>2
  <2> DEFINE g == [m \in 0..(n + 1) |-> IF m = n + 1 THEN step[n + 1][f[n]] ELSE f[m]]
  <2>2. f[n] \in S /\ step[n + 1] \in [S -> S]
    OBVIOUS
  <2>3. step[n + 1][f[n]] \in S
    BY <2>2
  <2>4. g \in [0..(n + 1) -> S]
    BY <2>3
  <2>5. \A m \in 0..n : g[m] = f[m]
    OBVIOUS
  <2>6. g[n + 1] = step[n + 1][g[n + 1 - 1]]
    <3>1. n + 1 \in 0..(n + 1) /\ n \in 0..n /\ n + 1 - 1 = n
      OBVIOUS
    <3>2. g[n + 1] = step[n + 1][f[n]]
      BY <3>1
    <3> QED
      BY <2>5, <3>1, <3>2
  <2>7. \A m \in 1..n : g[m] = step[m][g[m - 1]]
    BY <2>1, <2>5
  <2>8. Upto(n + 1, g)
    <3>1. \A m \in 1..(n + 1) : m \in 1..n \/ m = n + 1
      OBVIOUS
    <3>2. g[0] = base
      BY <2>1, <2>5
    <3> HIDE DEF g
    <3> QED
      BY <2>6, <2>7, <3>1, <3>2
  <2> HIDE DEF Upto
  <2> QED
    BY <2>4, <2>8
<1>3. Nat \subseteq T
  <2> HIDE DEF T
  <2> QED
    BY <1>1, <1>2, SetInduction
<1> QED
  BY <1>3

(* A sequence that is not empty has a first element and a rest.            *)
LEMMA Taken ==
  ASSUME NEW S, NEW s \in Seq(S), s # <<>>
  PROVE  /\ Len(s) \in Nat /\ Len(s) >= 1 /\ Head(s) = s[1] /\ Head(s) \in S
         /\ Tail(s) \in Seq(S) /\ Len(Tail(s)) = Len(s) - 1
         /\ Tail(s) = <<>> <=> Len(s) = 1
         /\ \A i \in 1..(Len(s) - 1) : i + 1 \in 1..Len(s) /\ Tail(s)[i] = s[i + 1]
<1>1. Len(s) \in Nat /\ Len(s) >= 1
  BY EmptySeq, LenProperties
<1>2. Head(s) = s[1] /\ Head(s) \in S
  BY <1>1, HeadTailProperties
<1>3. /\ Tail(s) \in Seq(S) /\ Len(Tail(s)) = Len(s) - 1
      /\ \A i \in 1..(Len(s) - 1) : Tail(s)[i] = s[i + 1]
  BY <1>1, HeadTailProperties
<1>4. Tail(s) = <<>> <=> Len(s) = 1
  <2>1. Tail(s) = <<>> <=> Len(Tail(s)) = 0
    BY <1>3, EmptySeq
  <2> QED
    BY <1>1, <1>3, <2>1
<1> QED
  BY <1>1, <1>2, <1>3, <1>4

(* Appending to the empty sequence.                                        *)
LEMMA AppendFirst == ASSUME NEW x PROVE Append(<<>>, x) = <<x>>
OBVIOUS
=============================================================================
