----------------------------- MODULE Codec_proofs -----------------------------
(***************************************************************************)
(* Lemmas about Codec, for every number of values of a byte: a length      *)
(* field holds the number that was put there; ShiftN and Decode leave a    *)
(* suffix of the unread input, and take nothing when they find no frame;   *)
(* and which frame Decode finds, given where the unread input begins.      *)
(***************************************************************************)
EXTENDS Codec, SequenceTheorems, WellFoundedInduction, TLAPS

\* Bytes, and the input of a connection.
Byte == 0 .. Base - 1
Conn == [in : Seq(Byte), temp : Seq(Byte)]
------------------------------------------------------------------------------
(* Induction and recursion up to a number.                                 *)

\* A set of natural numbers has a least element.
LEMMA LeastElement ==
    ASSUME NEW T, T \subseteq Nat, T # {}
    PROVE  \E n \in T : \A m \in T : n <= m
<1>1. PICK n \in T : \A m \in T : <<m, n>> \notin OpToRel(<, Nat)
  BY NatLessThanWellFounded, WFMin
<1>2. ASSUME NEW m \in T PROVE n <= m
  <2>1. m \in Nat /\ n \in Nat
    OBVIOUS
  <2>2. ~ (m < n)
    BY <1>1, <2>1 DEF OpToRel
  <2> QED BY <2>1, <2>2
<1> QED BY <1>2

\* Induction up to m, for a set of numbers instead of a predicate.
LEMMA UpTo ==
    ASSUME NEW m \in Nat, NEW P, 0 \in P, \A i \in 1 .. m : i - 1 \in P => i \in P
    PROVE  \A i \in 0 .. m : i \in P
<1> DEFINE T == {i \in 0 .. m : i \notin P}
<1>1. SUFFICES ASSUME T # {} PROVE FALSE
  OBVIOUS
<1>2. PICK n \in T : \A i \in T : n <= i
  <2>1. T \subseteq Nat
    OBVIOUS
  <2> HIDE DEF T
  <2> QED BY <1>1, <2>1, LeastElement
<1>3. n \in 1 .. m /\ n - 1 \in 0 .. m
  BY <1>2
<1>4. n - 1 \notin T
  BY <1>2, <1>3
<1> QED BY <1>2, <1>3, <1>4

\* f starts with a and goes on as F says, for n steps.
Iterates(f, a, F, n) ==
    /\ f[0] = a
    /\ \A i \in 1 .. n : f[i] = F[i][f[i - 1]]

\* Recursive functions on an interval exist.
LEMMA IterationExists ==
    ASSUME NEW V, NEW a \in V, NEW n \in Nat, NEW F \in [1 .. n -> [V -> V]]
    PROVE  \E f \in [0 .. n -> V] : Iterates(f, a, F, n)
<1> DEFINE P == {k \in 0 .. n : \E f \in [0 .. k -> V] : Iterates(f, a, F, k)}
<1>1. 0 \in P
  <2> DEFINE f == [i \in 0 .. 0 |-> a]
  <2>1. f \in [0 .. 0 -> V] /\ Iterates(f, a, F, 0)
    BY DEF Iterates
  <2> QED BY <2>1
<1>2. ASSUME NEW k \in 1 .. n, k - 1 \in P PROVE k \in P
  <2>1. PICK g \in [0 .. k - 1 -> V] : Iterates(g, a, F, k - 1)
    BY <1>2
  <2> DEFINE f == [i \in 0 .. k |-> IF i = k THEN F[k][g[k - 1]] ELSE g[i]]
  <2>2. k \in Nat /\ k # 0 /\ k - 1 \in 0 .. k - 1 /\ \A i \in 0 .. k : i # k => i \in 0 .. k - 1
    OBVIOUS
  <2>3. F[k][g[k - 1]] \in V
    BY <2>1, <2>2
  <2>4. f \in [0 .. k -> V]
    BY <2>1, <2>2, <2>3
  <2>5. f[0] = a
    BY <2>1, <2>2 DEF Iterates
  <2>6. ASSUME NEW i \in 1 .. k PROVE f[i] = F[i][f[i - 1]]
    <3>1. i \in 0 .. k /\ i - 1 \in 0 .. k /\ i - 1 # k /\ i - 1 \in 0 .. k - 1
      BY <2>2
    <3>2. f[i - 1] = g[i - 1]
      BY <3>1
    <3>3. CASE i = k
      BY <2>2, <3>1, <3>2, <3>3
    <3>4. CASE i # k
      <4>1. i \in 1 .. k - 1 /\ f[i] = g[i]
        BY <2>2, <3>1, <3>4
      <4> QED BY <2>1, <3>2, <4>1 DEF Iterates
    <3> QED BY <3>3, <3>4
  <2> HIDE DEF f
  <2>7. Iterates(f, a, F, k)
    BY <2>5, <2>6 DEF Iterates
  <2>8. \E h \in [0 .. k -> V] : Iterates(h, a, F, k)
    BY <2>4, <2>7
  <2>9. k \in 0 .. n
    OBVIOUS
  <2> QED BY <2>8, <2>9, Zenon
<1> HIDE DEF P
<1>3. \A k \in 0 .. n : k \in P
  BY <1>1, <1>2, UpTo
<1> QED BY <1>3 DEF P
------------------------------------------------------------------------------
(* Powers of Base.                                                         *)

IsPower(p, n) == p = [i \in 0 .. n |-> IF i = 0 THEN 1 ELSE p[i - 1] * Base]

\* The recursive function of Power exists.
LEMMA PowerExists ==
    ASSUME NEW n \in Nat
    PROVE  IsPower(CHOOSE p : IsPower(p, n), n)
<1> DEFINE F == [i \in 1 .. n |-> [v \in Nat |-> v * Base]]
<1>1. F \in [1 .. n -> [Nat -> Nat]]
  BY BaseAssumption
<1>2. PICK p \in [0 .. n -> Nat] : Iterates(p, 1, F, n)
  BY <1>1, IterationExists
<1>3. ASSUME NEW i \in 0 .. n PROVE p[i] = IF i = 0 THEN 1 ELSE p[i - 1] * Base
  <2>1. CASE i = 0
    BY <1>2, <2>1 DEF Iterates
  <2>2. CASE i # 0
    <3>1. i \in 1 .. n /\ i - 1 \in 0 .. n
      BY <2>2
    <3>2. p[i - 1] \in Nat /\ p[i] = F[i][p[i - 1]]
      BY <1>2, <3>1 DEF Iterates
    <3>3. F[i][p[i - 1]] = p[i - 1] * Base
      BY <3>1, <3>2
    <3> QED BY <2>2, <3>2, <3>3
  <2> QED BY <2>1, <2>2
<1>4. p = [i \in 0 .. n |-> p[i]]
  BY <1>2
<1>5. IsPower(p, n)
  BY <1>3, <1>4 DEF IsPower
<1> QED BY <1>5

\* Base^0 = 1 and Base^(n + 1) = Base^n * Base.
LEMMA PowerSteps ==
    /\ Power(0) = 1
    /\ \A n \in Nat : Power(n) \in Nat /\ Power(n) > 0 /\ Power(n + 1) = Power(n) * Base
<1> DEFINE p(n) == CHOOSE q : IsPower(q, n)
<1>1. ASSUME NEW n \in Nat
      PROVE  /\ Power(n) = p(n)[n] /\ p(n)[0] = 1
             /\ \A i \in 1 .. n : p(n)[i] = p(n)[i - 1] * Base
  <2>1. IsPower(p(n), n)
    BY PowerExists
  <2>2. Power(n) = p(n)[n]
    BY DEF Power, IsPower
  <2> HIDE DEF p
  <2>3. p(n) = [i \in 0 .. n |-> IF i = 0 THEN 1 ELSE p(n)[i - 1] * Base]
    BY <2>1 DEF IsPower
  <2>4. p(n)[0] = 1
    BY <2>3
  <2>5. ASSUME NEW i \in 1 .. n PROVE p(n)[i] = p(n)[i - 1] * Base
    BY <2>3
  <2> QED BY <2>2, <2>4, <2>5
<1> HIDE DEF p
<1>2. Power(0) = 1
  BY <1>1
<1>3. ASSUME NEW n \in Nat PROVE Power(n) \in Nat /\ Power(n) > 0
  <2> DEFINE P == {i \in 0 .. n : p(n)[i] \in Nat /\ p(n)[i] > 0}
  <2>1. 0 \in P
    BY <1>1
  <2>2. ASSUME NEW i \in 1 .. n, i - 1 \in P PROVE i \in P
    <3>1. p(n)[i] = p(n)[i - 1] * Base
      BY <1>1
    <3>2. \A x \in Nat : x > 0 => x * Base \in Nat /\ x * Base > 0
      BY BaseAssumption
    <3> QED BY <2>2, <3>1, <3>2
  <2> HIDE DEF P
  <2>3. n \in P
    BY <2>1, <2>2, UpTo
  <2> QED BY <1>1, <2>3 DEF P
<1>4. ASSUME NEW n \in Nat PROVE Power(n + 1) = Power(n) * Base
  <2> DEFINE P == {i \in 0 .. n : p(n)[i] = p(n + 1)[i]}
  <2>1. 0 \in P
    BY <1>1
  <2>2. ASSUME NEW i \in 1 .. n, i - 1 \in P PROVE i \in P
    <3>1. p(n)[i] = p(n)[i - 1] * Base
      BY <1>1
    <3>2. p(n + 1)[i] = p(n + 1)[i - 1] * Base
      BY <1>1
    <3> QED BY <2>2, <3>1, <3>2
  <2> HIDE DEF P
  <2>3. n \in P
    BY <2>1, <2>2, UpTo
  <2>4. p(n + 1)[n + 1] = p(n + 1)[n] * Base
    <3>1. n + 1 \in 1 .. n + 1 /\ (n + 1) - 1 = n
      OBVIOUS
    <3> QED BY <1>1, <3>1
  <2> QED BY <1>1, <2>3, <2>4 DEF P
<1> QED BY <1>2, <1>3, <1>4
------------------------------------------------------------------------------
(* The number in a length field.                                           *)

\* What makes f the values of the first i digits of b, for every i up to w.
Horner(f, b, w) ==
    f = [i \in 0 .. w |-> IF i = 0 THEN 0 ELSE f[i - 1] * Base + b[i]]

\* There is such an f.
LEMMA HornerExists ==
    ASSUME NEW w \in Nat, NEW b, \A i \in 1 .. w : b[i] \in Nat
    PROVE  \E f : Horner(f, b, w)
<1> DEFINE F == [i \in 1 .. w |-> [v \in Nat |-> v * Base + b[i]]]
<1>1. F \in [1 .. w -> [Nat -> Nat]]
  BY BaseAssumption
<1>2. PICK f \in [0 .. w -> Nat] : Iterates(f, 0, F, w)
  BY <1>1, IterationExists
<1>3. ASSUME NEW i \in 0 .. w
      PROVE  f[i] = IF i = 0 THEN 0 ELSE f[i - 1] * Base + b[i]
  <2>1. CASE i = 0
    BY <1>2, <2>1 DEF Iterates
  <2>2. CASE i # 0
    <3>1. i \in 1 .. w /\ i - 1 \in 0 .. w
      BY <2>2
    <3>2. f[i - 1] \in Nat /\ f[i] = F[i][f[i - 1]]
      BY <1>2, <3>1 DEF Iterates
    <3>3. F[i][f[i - 1]] = f[i - 1] * Base + b[i]
      BY <3>1, <3>2
    <3> QED BY <2>2, <3>2, <3>3
  <2> QED BY <2>1, <2>2
<1>4. f = [i \in 0 .. w |-> f[i]]
  BY <1>2
<1>5. Horner(f, b, w)
  BY <1>3, <1>4 DEF Horner
<1> QED BY <1>5

\* Its values: it begins with nothing and takes one digit after the other.
LEMMA HornerSteps ==
    ASSUME NEW w \in Nat, NEW b, NEW f, Horner(f, b, w)
    PROVE  /\ f[0] = 0
           /\ \A i \in 1 .. w : f[i] = f[i - 1] * Base + b[i]
<1>1. f = [i \in 0 .. w |-> IF i = 0 THEN 0 ELSE f[i - 1] * Base + b[i]]
  BY DEF Horner
<1>2. f[0] = 0
  BY <1>1
<1>3. ASSUME NEW i \in 1 .. w PROVE f[i] = f[i - 1] * Base + b[i]
  BY <1>1
<1> QED BY <1>2, <1>3

\* Its values are natural numbers.
LEMMA HornerType ==
    ASSUME NEW w \in Nat, NEW b, \A i \in 1 .. w : b[i] \in Nat,
           NEW f, Horner(f, b, w)
    PROVE  f[w] \in Nat
<1> DEFINE P == {i \in 0 .. w : f[i] \in Nat}
<1>1. 0 \in P
  BY HornerSteps
<1>2. ASSUME NEW i \in 1 .. w, i - 1 \in P PROVE i \in P
  <2>1. f[i] = f[i - 1] * Base + b[i]
    BY HornerSteps
  <2>2. f[i - 1] \in Nat /\ b[i] \in Nat /\ Base \in Nat
    BY <1>2, BaseAssumption
  <2> QED BY <2>1, <2>2
<1> HIDE DEF P
<1>3. w \in P
  BY <1>1, <1>2, UpTo
<1> QED BY <1>3 DEF P

\* The last step of division: the digit that was split off comes back.
LEMMA DivideOnce ==
    ASSUME NEW n \in Nat, NEW p \in Nat, p > 0
    PROVE  (n \div (p * Base)) * Base + ((n \div p) % Base) = n \div p
<1>1. n \div (p * Base) = (n \div p) \div Base
  <2>1. ASSUME NEW b \in Nat, b > 0 PROVE n \div (p * b) = (n \div p) \div b
    BY <2>1
  <2> QED BY <2>1, BaseAssumption
<1>2. n \div p \in Nat
  OBVIOUS
<1>3. ASSUME NEW q \in Nat PROVE (q \div Base) * Base + (q % Base) = q
  BY BaseAssumption
<1> QED BY <1>1, <1>2, <1>3

\* Of the digits of a number it makes the number.
LEMMA HornerDigits ==
    ASSUME NEW w \in Nat, NEW n \in Nat, n < Power(w),
           NEW b, \A i \in 1 .. w : b[i] = (n \div Power(w - i)) % Base,
           NEW f, Horner(f, b, w)
    PROVE  f[w] = n
<1> DEFINE P == {i \in 0 .. w : f[i] = n \div Power(w - i)}
<1>1. 0 \in P
  <2>1. f[0] = 0 /\ Power(w) \in Nat /\ w - 0 = w
    BY HornerSteps, PowerSteps
  <2>2. ASSUME NEW p \in Nat, n < p PROVE n \div p = 0
    BY <2>2
  <2> QED BY <2>1, <2>2
<1>2. ASSUME NEW i \in 1 .. w, i - 1 \in P PROVE i \in P
  <2>1. f[i] = f[i - 1] * Base + b[i] /\ b[i] = (n \div Power(w - i)) % Base
    BY HornerSteps
  <2>2. w - i \in Nat /\ w - (i - 1) = (w - i) + 1
    OBVIOUS
  <2>3. /\ Power(w - i) \in Nat /\ Power(w - i) > 0
        /\ Power(w - (i - 1)) = Power(w - i) * Base
    BY <2>2, PowerSteps
  <2>4. f[i - 1] = n \div (Power(w - i) * Base)
    <3>1. f[i - 1] = n \div Power(w - (i - 1))
      BY <1>2
    <3> QED BY <2>3, <3>1
  <2>5. f[i] = n \div Power(w - i)
    BY <2>1, <2>3, <2>4, DivideOnce
  <2> QED BY <2>5
<1> HIDE DEF P
<1>3. w \in P
  BY <1>1, <1>2, UpTo
<1>4. f[w] = n \div Power(0)
  <2>1. w - w = 0
    OBVIOUS
  <2> QED BY <1>3, <2>1 DEF P
<1> QED BY <1>4, PowerSteps

\* Uint is the value of the digits, most significant first.
LEMMA UintIsHorner ==
    ASSUME NEW bytes \in Seq(Byte), NEW order, NEW b,
           b = IF order = "big" THEN bytes
               ELSE [i \in 1 .. Len(bytes) |-> bytes[Len(bytes) + 1 - i]]
    PROVE  /\ \A i \in 1 .. Len(bytes) : b[i] \in Nat
           /\ \E f : Horner(f, b, Len(bytes)) /\ Uint(bytes, order) = f[Len(bytes)]
<1> DEFINE w == Len(bytes)
<1>1. w \in Nat /\ \A i \in 1 .. w : b[i] \in Nat
  <2>1. w \in Nat /\ \A i \in 1 .. w : bytes[i] \in Byte
    BY LenProperties, ElementOfSeq
  <2>2. \A i \in 1 .. w : w + 1 - i \in 1 .. w
    BY <2>1
  <2>3. Byte \subseteq Nat
    BY BaseAssumption DEF Byte
  <2> QED BY <2>1, <2>2, <2>3
<1>2. PICK f : Horner(f, b, w)
  BY <1>1, HornerExists
<1>3. Horner(CHOOSE g : Horner(g, b, w), b, w)
  BY <1>2
<1>4. Uint(bytes, order) = (CHOOSE g : Horner(g, b, w))[w]
  BY DEF Uint, Horner
<1> QED BY <1>1, <1>3, <1>4

\* A length field holds a natural number.
LEMMA UintType ==
    ASSUME NEW bytes \in Seq(Byte), NEW order
    PROVE  Uint(bytes, order) \in Nat
<1> DEFINE b == IF order = "big" THEN bytes
                ELSE [i \in 1 .. Len(bytes) |-> bytes[Len(bytes) + 1 - i]]
<1>1. Len(bytes) \in Nat
  BY LenProperties
<1> HIDE DEF b
<1>2. /\ \A i \in 1 .. Len(bytes) : b[i] \in Nat
      /\ \E f : Horner(f, b, Len(bytes)) /\ Uint(bytes, order) = f[Len(bytes)]
  BY UintIsHorner DEF b
<1> QED BY <1>1, <1>2, HornerType

\* The bytes PutUint makes.
LEMMA PutUintType ==
    ASSUME NEW n \in Nat, NEW w \in Nat, NEW order
    PROVE  /\ PutUint(n, w, order) \in Seq(Byte) /\ Len(PutUint(n, w, order)) = w
           /\ \A i \in 1 .. w : PutUint(n, w, order)[IF order = "big" THEN i ELSE w + 1 - i]
                                    = (n \div Power(w - i)) % Base
<1> DEFINE big == [i \in 1 .. w |-> (n \div Power(w - i)) % Base]
           put == PutUint(n, w, order)
<1>1. put = IF order = "big" THEN big ELSE [i \in 1 .. w |-> big[w + 1 - i]]
  BY DEF PutUint
<1>2. ASSUME NEW i \in 1 .. w PROVE (n \div Power(w - i)) % Base \in Byte
  <2>1. w - i \in Nat
    OBVIOUS
  <2>2. Power(w - i) \in Nat /\ Power(w - i) > 0
    BY <2>1, PowerSteps
  <2>3. n \div Power(w - i) \in Nat
    BY <2>2
  <2>4. ASSUME NEW q \in Nat PROVE q % Base \in 0 .. Base - 1
    BY BaseAssumption
  <2> QED BY <2>3, <2>4 DEF Byte
<1>3. big \in [1 .. w -> Byte]
  BY <1>2
<1>4. \A i \in 1 .. w : big[i] = (n \div Power(w - i)) % Base
  OBVIOUS
<1> HIDE DEF big, put
<1>5. \A i \in 1 .. w : w + 1 - i \in 1 .. w /\ w + 1 - (w + 1 - i) = i
  OBVIOUS
<1>6. put \in [1 .. w -> Byte]
  BY <1>1, <1>3, <1>5
<1>7. put \in Seq(Byte) /\ Len(put) = w
  BY <1>6, IsASeq, LenProperties
<1>8. \A i \in 1 .. w : put[IF order = "big" THEN i ELSE w + 1 - i] = big[i]
  BY <1>1, <1>5
<1> QED BY <1>4, <1>7, <1>8 DEF put

\* What was put into a length field comes out of it, in both byte orders.
THEOREM UintOfPutUint ==
    ASSUME NEW w \in Nat, NEW n \in Nat, n < Power(w), NEW order
    PROVE  Uint(PutUint(n, w, order), order) = n
<1> DEFINE put == PutUint(n, w, order)
           b == IF order = "big" THEN put ELSE [i \in 1 .. Len(put) |-> put[Len(put) + 1 - i]]
<1>1. /\ put \in Seq(Byte) /\ Len(put) = w
      /\ \A i \in 1 .. w : put[IF order = "big" THEN i ELSE w + 1 - i]
                               = (n \div Power(w - i)) % Base
  BY PutUintType
<1> HIDE DEF put
<1>2. \A i \in 1 .. w : b[i] = (n \div Power(w - i)) % Base
  BY <1>1
<1> HIDE DEF b
<1>3. PICK f : Horner(f, b, w) /\ Uint(put, order) = f[w]
  BY <1>1, UintIsHorner DEF b
<1>4. f[w] = n
  BY <1>2, <1>3, HornerDigits
<1> QED BY <1>3, <1>4 DEF put
------------------------------------------------------------------------------
(* Sequences cut in two.                                                   *)

\* The first n elements, and the others.
LEMMA Cut ==
    ASSUME NEW S, NEW s \in Seq(S), NEW n \in 0 .. Len(s)
    PROVE  /\ First(s, n) \in Seq(S) /\ Len(First(s, n)) = n
           /\ \A i \in 1 .. n : First(s, n)[i] = s[i]
           /\ Drop(s, n) \in Seq(S) /\ Len(Drop(s, n)) = Len(s) - n
           /\ \A i \in 1 .. Len(s) - n : Drop(s, n)[i] = s[n + i]
<1>1. Len(s) \in Nat /\ \A i \in 1 .. Len(s) : s[i] \in S
  BY LenProperties, ElementOfSeq
<1>2. /\ First(s, n) \in Seq(S) /\ Len(First(s, n)) = n
      /\ \A i \in 1 .. n : First(s, n)[i] = s[i]
  <2>1. \A i \in 1 .. n : s[i] \in S
    BY <1>1
  <2>2. /\ First(s, n) \in Seq(S)
        /\ Len(First(s, n)) = IF 1 <= n THEN n - 1 + 1 ELSE 0
        /\ \A i \in 1 .. n - 1 + 1 : First(s, n)[i] = s[1 + i - 1]
    BY <1>1, <2>1, SubSeqProperties DEF First
  <2>3. n - 1 + 1 = n /\ \A i \in 1 .. n : 1 + i - 1 = i
    BY <1>1
  <2> QED BY <1>1, <2>2, <2>3
<1>3. /\ Drop(s, n) \in Seq(S) /\ Len(Drop(s, n)) = Len(s) - n
      /\ \A i \in 1 .. Len(s) - n : Drop(s, n)[i] = s[n + i]
  <2>1. n + 1 \in Int /\ \A i \in n + 1 .. Len(s) : s[i] \in S
    BY <1>1
  <2>2. /\ Drop(s, n) \in Seq(S)
        /\ Len(Drop(s, n)) = IF n + 1 <= Len(s) THEN Len(s) - (n + 1) + 1 ELSE 0
        /\ \A i \in 1 .. Len(s) - (n + 1) + 1 : Drop(s, n)[i] = s[(n + 1) + i - 1]
    BY <1>1, <2>1, SubSeqProperties DEF Drop
  <2>3. Len(s) - (n + 1) + 1 = Len(s) - n
    BY <1>1
  <2>4. \A i \in 1 .. Len(s) - n : (n + 1) + i - 1 = n + i
    BY <1>1
  <2>5. \A i \in 1 .. Len(s) - n : Drop(s, n)[i] = s[n + i]
    BY <2>2, <2>3, <2>4
  <2>6. Len(Drop(s, n)) = Len(s) - n
    BY <1>1, <2>2
  <2> QED BY <2>2, <2>5, <2>6
<1> QED BY <1>2, <1>3

\* Both parts are the whole.
LEMMA CutWhole ==
    ASSUME NEW S, NEW s \in Seq(S), NEW n \in 0 .. Len(s)
    PROVE  First(s, n) \o Drop(s, n) = s
<1> DEFINE a == First(s, n)
           b == Drop(s, n)
<1>1. /\ a \in Seq(S) /\ Len(a) = n /\ \A i \in 1 .. n : a[i] = s[i]
      /\ b \in Seq(S) /\ Len(b) = Len(s) - n
      /\ \A i \in 1 .. Len(s) - n : b[i] = s[n + i]
      /\ Len(s) \in Nat
  BY Cut, LenProperties
<1> HIDE DEF a, b
<1>2. /\ a \o b \in Seq(S) /\ Len(a \o b) = n + (Len(s) - n)
      /\ \A i \in 1 .. n + (Len(s) - n) : (a \o b)[i] = IF i <= n THEN a[i] ELSE b[i - n]
  BY <1>1, ConcatProperties
<1>3. \A i \in 1 .. Len(s) : (a \o b)[i] = s[i]
  BY <1>1, <1>2
<1>4. Len(a \o b) = Len(s)
  BY <1>1, <1>2
<1> QED BY <1>2, <1>3, <1>4, SeqEqual DEF a, b

\* Dropping a part of the left of two sequences.
LEMMA DropLeft ==
    ASSUME NEW S, NEW s \in Seq(S), NEW t \in Seq(S), NEW n \in 0 .. Len(s)
    PROVE  Drop(s \o t, n) = Drop(s, n) \o t
<1> DEFINE u == s \o t
           d == Drop(s, n)
<1>1. /\ Len(s) \in Nat /\ Len(t) \in Nat
      /\ u \in Seq(S) /\ Len(u) = Len(s) + Len(t)
      /\ \A i \in 1 .. Len(s) + Len(t) : u[i] = IF i <= Len(s) THEN s[i] ELSE t[i - Len(s)]
      /\ d \in Seq(S) /\ Len(d) = Len(s) - n
      /\ \A i \in 1 .. Len(s) - n : d[i] = s[n + i]
  <2>1. Len(s) \in Nat /\ Len(t) \in Nat
    BY LenProperties
  <2>2. /\ u \in Seq(S) /\ Len(u) = Len(s) + Len(t)
        /\ \A i \in 1 .. Len(s) + Len(t) :
              u[i] = IF i <= Len(s) THEN s[i] ELSE t[i - Len(s)]
    BY ConcatProperties
  <2>3. /\ d \in Seq(S) /\ Len(d) = Len(s) - n
        /\ \A i \in 1 .. Len(s) - n : d[i] = s[n + i]
    BY Cut
  <2> QED BY <2>1, <2>2, <2>3
<1> HIDE DEF u, d
<1>2. n \in 0 .. Len(u)
  BY <1>1
<1>3. /\ Drop(u, n) \in Seq(S) /\ Len(Drop(u, n)) = Len(u) - n
      /\ \A i \in 1 .. Len(u) - n : Drop(u, n)[i] = u[n + i]
  BY <1>1, <1>2, Cut
<1>4. /\ d \o t \in Seq(S) /\ Len(d \o t) = (Len(s) - n) + Len(t)
      /\ \A i \in 1 .. (Len(s) - n) + Len(t) :
            (d \o t)[i] = IF i <= Len(s) - n THEN d[i] ELSE t[i - (Len(s) - n)]
  <2>1. /\ d \o t \in Seq(S) /\ Len(d \o t) = Len(d) + Len(t)
        /\ \A i \in 1 .. Len(d) + Len(t) :
              (d \o t)[i] = IF i <= Len(d) THEN d[i] ELSE t[i - Len(d)]
    <3>1. d \in Seq(S) /\ t \in Seq(S)
      BY <1>1
    <3> QED BY <3>1, ConcatProperties, Zenon
  <2>2. Len(d) = Len(s) - n
    BY <1>1
  <2> HIDE DEF d
  <2> QED BY <2>1, <2>2, ZenonT(30)
<1>5. Len(d \o t) = Len(Drop(u, n))
  BY <1>1, <1>3, <1>4
<1>6. ASSUME NEW i \in 1 .. Len(Drop(u, n)) PROVE Drop(u, n)[i] = (d \o t)[i]
  <2>1. i \in 1 .. Len(u) - n /\ i \in 1 .. (Len(s) - n) + Len(t) /\ i \in Nat
    BY <1>1, <1>3
  <2>2. n + i \in 1 .. Len(s) + Len(t)
    BY <1>1, <2>1
  <2>3. CASE i <= Len(s) - n
    <3>1. n + i <= Len(s) /\ i \in 1 .. Len(s) - n
      BY <1>1, <2>1, <2>3
    <3> QED BY <1>1, <1>3, <1>4, <2>1, <2>2, <2>3, <3>1
  <2>4. CASE ~ (i <= Len(s) - n)
    <3>1. ~ (n + i <= Len(s)) /\ (n + i) - Len(s) = i - (Len(s) - n)
      BY <1>1, <2>1, <2>4
    <3> QED BY <1>1, <1>3, <1>4, <2>1, <2>2, <2>4, <3>1
  <2> QED BY <2>3, <2>4
<1> QED BY <1>3, <1>4, <1>5, <1>6, SeqEqual DEF u, d

\* Dropping twice.
LEMMA DropTwice ==
    ASSUME NEW S, NEW s \in Seq(S), NEW m \in 0 .. Len(s), NEW n \in 0 .. Len(s) - m
    PROVE  /\ m + n \in 0 .. Len(s)
           /\ Drop(Drop(s, m), n) = Drop(s, m + n)
<1> DEFINE d == Drop(s, m)
<1>1. /\ Len(s) \in Nat /\ d \in Seq(S) /\ Len(d) = Len(s) - m
      /\ \A i \in 1 .. Len(s) - m : d[i] = s[m + i]
  BY Cut, LenProperties
<1> HIDE DEF d
<1>2. /\ m + n \in 0 .. Len(s) /\ n \in 0 .. Len(d)
      /\ Len(d) - n = Len(s) - (m + n)
  BY <1>1
<1>3. /\ Drop(d, n) \in Seq(S) /\ Len(Drop(d, n)) = Len(d) - n
      /\ \A i \in 1 .. Len(d) - n : Drop(d, n)[i] = d[n + i]
  BY <1>1, <1>2, Cut
<1>4. /\ Drop(s, m + n) \in Seq(S) /\ Len(Drop(s, m + n)) = Len(s) - (m + n)
      /\ \A i \in 1 .. Len(s) - (m + n) : Drop(s, m + n)[i] = s[(m + n) + i]
  BY <1>2, Cut
<1>5. Len(Drop(d, n)) = Len(Drop(s, m + n))
  BY <1>2, <1>3, <1>4
<1>6. ASSUME NEW i \in 1 .. Len(Drop(d, n)) PROVE Drop(d, n)[i] = Drop(s, m + n)[i]
  <2>1. /\ i \in 1 .. Len(d) - n /\ n + i \in 1 .. Len(s) - m
        /\ i \in 1 .. Len(s) - (m + n) /\ m + (n + i) = (m + n) + i
    BY <1>1, <1>3
  <2> QED BY <1>1, <1>3, <1>4, <2>1
<1> HIDE DEF Drop
<1> QED BY <1>2, <1>3, <1>4, <1>5, <1>6, SeqEqual DEF d

\* A part of a sequence.
LEMMA Part ==
    ASSUME NEW S, NEW s \in Seq(S), NEW a \in 1 .. Len(s) + 1, NEW b \in a - 1 .. Len(s)
    PROVE  /\ SubSeq(s, a, b) \in Seq(S) /\ Len(SubSeq(s, a, b)) = b - a + 1
           /\ \A i \in 1 .. b - a + 1 : SubSeq(s, a, b)[i] = s[a + i - 1]
<1>1. Len(s) \in Nat /\ a \in Int /\ b \in Int
  BY LenProperties
<1>2. \A i \in a .. b : s[i] \in S
  <2>1. \A i \in a .. b : i \in 1 .. Len(s)
    BY <1>1
  <2> QED BY <2>1, ElementOfSeq
<1>3. /\ SubSeq(s, a, b) \in Seq(S)
      /\ Len(SubSeq(s, a, b)) = IF a <= b THEN b - a + 1 ELSE 0
      /\ \A i \in 1 .. b - a + 1 : SubSeq(s, a, b)[i] = s[a + i - 1]
  BY <1>1, <1>2, SubSeqProperties
<1>4. (IF a <= b THEN b - a + 1 ELSE 0) = b - a + 1
  BY <1>1
<1> QED BY <1>3, <1>4

\* A part of a part.
LEMMA PartOfPart ==
    ASSUME NEW S, NEW s \in Seq(S), NEW a \in 1 .. Len(s) + 1, NEW b \in a - 1 .. Len(s),
           NEW c \in 1 .. b - a + 2, NEW d \in c - 1 .. b - a + 1
    PROVE  /\ a + c - 1 \in 1 .. Len(s) + 1 /\ a + d - 1 \in a + c - 2 .. Len(s)
           /\ SubSeq(SubSeq(s, a, b), c, d) = SubSeq(s, a + c - 1, a + d - 1)
<1> DEFINE t == SubSeq(s, a, b)
           u == SubSeq(t, c, d)
           v == SubSeq(s, a + c - 1, a + d - 1)
<1>1. /\ Len(s) \in Nat /\ t \in Seq(S) /\ Len(t) = b - a + 1
      /\ \A i \in 1 .. b - a + 1 : t[i] = s[a + i - 1]
  BY Part, LenProperties
<1> HIDE DEF t
<1>2. /\ a + c - 1 \in 1 .. Len(s) + 1 /\ a + d - 1 \in a + c - 2 .. Len(s)
      /\ (a + c - 1) - 1 = a + c - 2
      /\ (a + d - 1) - (a + c - 1) + 1 = d - c + 1
  BY <1>1
<1>3. c \in 1 .. Len(t) + 1 /\ d \in c - 1 .. Len(t)
  BY <1>1
<1>4. /\ u \in Seq(S) /\ Len(u) = d - c + 1
      /\ \A i \in 1 .. d - c + 1 : u[i] = t[c + i - 1]
  BY <1>1, <1>3, Part
<1>5. /\ v \in Seq(S) /\ Len(v) = d - c + 1
      /\ \A i \in 1 .. d - c + 1 : v[i] = s[(a + c - 1) + i - 1]
  BY <1>2, Part
<1> HIDE DEF u, v
<1>6. ASSUME NEW i \in 1 .. Len(u) PROVE u[i] = v[i]
  <2>1. /\ i \in 1 .. d - c + 1 /\ c + i - 1 \in 1 .. b - a + 1
        /\ a + (c + i - 1) - 1 = (a + c - 1) + i - 1
    BY <1>1, <1>4
  <2>2. u[i] = t[c + i - 1] /\ t[c + i - 1] = s[a + (c + i - 1) - 1]
    BY <1>1, <1>4, <2>1
  <2> QED BY <1>5, <2>1, <2>2
<1>7. u = v
  BY <1>4, <1>5, <1>6, SeqEqual
<1> QED BY <1>2, <1>7 DEF t, u, v

\* A part of the left of two sequences.
LEMMA PartOfLeft ==
    ASSUME NEW S, NEW s \in Seq(S), NEW t \in Seq(S),
           NEW a \in 1 .. Len(s) + 1, NEW b \in a - 1 .. Len(s)
    PROVE  SubSeq(s \o t, a, b) = SubSeq(s, a, b)
<1> DEFINE w == s \o t
           u == SubSeq(w, a, b)
           v == SubSeq(s, a, b)
<1>1. /\ Len(s) \in Nat /\ Len(t) \in Nat
      /\ w \in Seq(S) /\ Len(w) = Len(s) + Len(t)
      /\ \A i \in 1 .. Len(s) + Len(t) : w[i] = IF i <= Len(s) THEN s[i] ELSE t[i - Len(s)]
  BY ConcatProperties, LenProperties
<1> HIDE DEF w
<1>2. a \in 1 .. Len(w) + 1 /\ b \in a - 1 .. Len(w)
  BY <1>1
<1>3. /\ u \in Seq(S) /\ Len(u) = b - a + 1
      /\ \A i \in 1 .. b - a + 1 : u[i] = w[a + i - 1]
  BY <1>1, <1>2, Part
<1>4. /\ v \in Seq(S) /\ Len(v) = b - a + 1
      /\ \A i \in 1 .. b - a + 1 : v[i] = s[a + i - 1]
  BY Part
<1> HIDE DEF u, v
<1>5. ASSUME NEW i \in 1 .. Len(u) PROVE u[i] = v[i]
  <2>1. /\ i \in 1 .. b - a + 1 /\ a + i - 1 \in 1 .. Len(s) + Len(t)
        /\ a + i - 1 <= Len(s)
    BY <1>1, <1>3
  <2>2. w[a + i - 1] = s[a + i - 1]
    BY <1>1, <2>1
  <2> QED BY <1>3, <1>4, <2>1, <2>2
<1>6. u = v
  BY <1>3, <1>4, <1>5, SeqEqual
<1> QED BY <1>6 DEF u, v, w

\* After its first m elements, s goes on with p, then with r.
Continues(s, m, p, r) == p \o r = Drop(s, m)

\* The three parts are the whole.
LEMMA ContinuesLength ==
    ASSUME NEW S, NEW s \in Seq(S), NEW p \in Seq(S), NEW r \in Seq(S),
           NEW m \in 0 .. Len(s), Continues(s, m, p, r)
    PROVE  m + Len(p) + Len(r) = Len(s)
<1>1. /\ Len(s) \in Nat /\ Len(p) \in Nat /\ Len(r) \in Nat
      /\ Len(p \o r) = Len(p) + Len(r)
  BY ConcatProperties, LenProperties
<1>2. Len(p \o r) = Len(s) - m
  <2>1. Len(Drop(s, m)) = Len(s) - m
    BY Cut
  <2> QED BY <2>1, Zenon DEF Continues
<1>3. Len(p) + Len(r) = Len(s) - m
  BY <1>1, <1>2, Zenon
<1> QED BY <1>1, <1>3

\* A part of what begins in s after m elements.
LEMMA PartOfPrefix ==
    ASSUME NEW S, NEW s \in Seq(S), NEW p \in Seq(S), NEW r \in Seq(S),
           NEW m \in 0 .. Len(s), Continues(s, m, p, r),
           NEW a \in 1 .. Len(p) + 1, NEW b \in a - 1 .. Len(p)
    PROVE  /\ m + Len(p) + Len(r) = Len(s)
           /\ m + a \in 1 .. Len(s) + 1 /\ m + b \in m + a - 1 .. Len(s)
           /\ SubSeq(p, a, b) = SubSeq(s, m + a, m + b)
<1>1. Len(s) \in Nat /\ Len(p) \in Nat /\ Len(r) \in Nat
  BY LenProperties
<1>2. m + Len(p) + Len(r) = Len(s)
  BY ContinuesLength
<1>3. /\ m + 1 \in 1 .. Len(s) + 1 /\ Len(s) \in (m + 1) - 1 .. Len(s)
      /\ a \in 1 .. Len(s) - (m + 1) + 2 /\ b \in a - 1 .. Len(s) - (m + 1) + 1
      /\ (m + 1) + a - 1 = m + a /\ (m + 1) + b - 1 = m + b
      /\ (m + 1) + a - 2 = m + a - 1
  BY <1>1, <1>2
<1>4. /\ (m + 1) + a - 1 \in 1 .. Len(s) + 1
      /\ (m + 1) + b - 1 \in (m + 1) + a - 2 .. Len(s)
      /\ SubSeq(Drop(s, m), a, b) = SubSeq(s, (m + 1) + a - 1, (m + 1) + b - 1)
  BY <1>3, PartOfPart DEF Drop
<1>5. SubSeq(p \o r, a, b) = SubSeq(p, a, b)
  BY PartOfLeft
<1> QED BY <1>2, <1>3, <1>4, <1>5 DEF Continues

\* Where something lies in a sequence of which only the end is known.
LEMMA BeforeTheEnd ==
    ASSUME NEW s \in Seq(Byte), NEW p \in Seq(Byte), NEW r \in Seq(Byte),
           NEW m \in Nat, Continues(s, m, p, r), Len(p) > 0
    PROVE  /\ Len(s) = m + Len(p) + Len(r)
           /\ SubSeq(s, m + 1, m + Len(p)) = p
<1>1. Len(s) \in Nat /\ Len(p) \in Nat /\ Len(r) \in Nat
  BY LenProperties
<1>2. m \in 0 .. Len(s)
  <2>1. SUFFICES ASSUME ~ (m <= Len(s)) PROVE FALSE
    BY <1>1
  <2>2. Drop(s, m) = <<>>
    <3>1. m + 1 \in Int /\ Len(s) \in Int /\ m + 1 > Len(s)
      BY <1>1, <2>1
    <3> QED BY <3>1, SubSeqEmpty DEF Drop
  <2>3. Len(Drop(s, m)) = Len(p) + Len(r)
    <3>1. Len(p \o r) = Len(p) + Len(r)
      BY ConcatProperties
    <3> QED BY <3>1, Zenon DEF Continues
  <2> QED BY <1>1, <2>2, <2>3, EmptySeq
<1>3. 1 \in 1 .. Len(p) + 1 /\ Len(p) \in 1 - 1 .. Len(p)
  BY <1>1
<1>4. m + Len(p) + Len(r) = Len(s) /\ SubSeq(p, 1, Len(p)) = SubSeq(s, m + 1, m + Len(p))
  BY <1>2, <1>3, PartOfPrefix, SMTT(20)
<1>5. SubSeq(p, 1, Len(p)) = p
  BY SubSeqFull
<1> QED BY <1>4, <1>5

\* An element of what begins in s after m elements.
LEMMA ElementOfPrefix ==
    ASSUME NEW S, NEW s \in Seq(S), NEW p \in Seq(S), NEW r \in Seq(S),
           NEW m \in 0 .. Len(s), Continues(s, m, p, r), NEW j \in 1 .. Len(p)
    PROVE  m + j \in 1 .. Len(s) /\ p[j] = s[m + j]
<1> DEFINE q == p \o r
<1>1. /\ Len(s) \in Nat /\ Len(p) \in Nat /\ Len(r) \in Nat
      /\ Len(q) = Len(p) + Len(r)
      /\ \A i \in 1 .. Len(p) + Len(r) : q[i] = IF i <= Len(p) THEN p[i] ELSE r[i - Len(p)]
  BY ConcatProperties, LenProperties
<1>2. Len(q) = Len(s) - m /\ \A i \in 1 .. Len(s) - m : q[i] = s[m + i]
  <2>1. /\ Len(Drop(s, m)) = Len(s) - m
        /\ \A i \in 1 .. Len(s) - m : Drop(s, m)[i] = s[m + i]
    BY Cut
  <2> QED BY <2>1, Zenon DEF Continues
<1> HIDE DEF q
<1>3. j \in 1 .. Len(p) + Len(r) /\ j <= Len(p) /\ j \in 1 .. Len(s) - m
  BY <1>1, <1>2
<1>4. m + j \in 1 .. Len(s)
  BY <1>1, <1>3
<1>5. p[j] = q[j] /\ q[j] = s[m + j]
  BY <1>1, <1>2, <1>3, Zenon
<1> QED BY <1>4, <1>5, Zenon

\* The parts before and after m.
LEMMA FirstGrows ==
    ASSUME NEW s \in Seq(Byte), NEW p \in Seq(Byte), NEW r \in Seq(Byte),
           NEW m \in 0 .. Len(s), Continues(s, m, p, r), NEW n \in 0 .. Len(p)
    PROVE  /\ m + n \in 0 .. Len(s)
           /\ First(s, m) \o First(p, n) = First(s, m + n)
<1>1. Len(s) \in Nat /\ Len(p) \in Nat /\ Len(r) \in Nat
  BY LenProperties
<1>2. 1 \in 1 .. Len(p) + 1 /\ n \in 1 - 1 .. Len(p)
  BY <1>1
<1>3. m + Len(p) + Len(r) = Len(s) /\ SubSeq(p, 1, n) = SubSeq(s, m + 1, m + n)
  BY <1>2, PartOfPrefix
<1>4. /\ m + n \in 0 .. Len(s)
      /\ 1 \in 1 .. Len(s) + 1 /\ m \in 1 - 1 .. Len(s) /\ m + n \in m .. Len(s)
  BY <1>1, <1>3
<1>5. SubSeq(s, 1, m) \o SubSeq(s, m + 1, m + n) = SubSeq(s, 1, m + n)
  BY <1>4, ConcatAdjacentSubSeq
<1> QED BY <1>3, <1>4, <1>5 DEF First

\* The first elements of the first elements.
LEMMA FirstOfFirst ==
    ASSUME NEW S, NEW s \in Seq(S), NEW n \in 0 .. Len(s), NEW m \in 0 .. n
    PROVE  First(First(s, n), m) = First(s, m)
<1>1. Len(s) \in Nat
  BY LenProperties
<1>2. /\ 1 \in 1 .. Len(s) + 1 /\ n \in 1 - 1 .. Len(s)
      /\ 1 \in 1 .. n - 1 + 2 /\ m \in 1 - 1 .. n - 1 + 1
      /\ 1 + 1 - 1 = 1 /\ 1 + m - 1 = m
  BY <1>1
<1>3. SubSeq(SubSeq(s, 1, n), 1, m) = SubSeq(s, 1 + 1 - 1, 1 + m - 1)
  BY <1>2, PartOfPart
<1> QED BY <1>2, <1>3 DEF First

\* The first n elements of two sequences, when they reach into the second.
LEMMA FirstOfTwo ==
    ASSUME NEW S, NEW s \in Seq(S), NEW t \in Seq(S), NEW n \in Len(s) .. Len(s) + Len(t)
    PROVE  First(s \o t, n) = s \o First(t, n - Len(s))
<1> DEFINE l == Len(s)
           k == n - l
           w == s \o t
           f == First(t, k)
           g == First(w, n)
           h == s \o f
<1>1. /\ l \in Nat /\ Len(t) \in Nat /\ w \in Seq(S) /\ Len(w) = l + Len(t)
      /\ \A i \in 1 .. l + Len(t) : w[i] = IF i <= l THEN s[i] ELSE t[i - l]
  BY ConcatProperties, LenProperties
<1> HIDE DEF w
<1>2. k \in 0 .. Len(t) /\ l + k = n /\ n \in 0 .. Len(w)
  BY <1>1
<1>3. f \in Seq(S) /\ Len(f) = k /\ \A i \in 1 .. k : f[i] = t[i]
  BY <1>2, Cut
<1>4. g \in Seq(S) /\ Len(g) = n /\ \A i \in 1 .. n : g[i] = w[i]
  BY <1>1, <1>2, Cut
<1> HIDE DEF f, g, k
<1>5. /\ h \in Seq(S) /\ Len(h) = l + k
      /\ \A i \in 1 .. l + k : h[i] = IF i <= l THEN s[i] ELSE f[i - l]
  BY <1>3, ConcatProperties
<1> HIDE DEF h, l
<1>6. ASSUME NEW i \in 1 .. Len(g) PROVE g[i] = h[i]
  <2>1. /\ i \in 1 .. n /\ i \in 1 .. l + k /\ i \in 1 .. l + Len(t)
        /\ ~ (i <= l) => i - l \in 1 .. k
    BY <1>1, <1>2, <1>4
  <2> QED BY <1>1, <1>3, <1>4, <1>5, <2>1
<1>7. g = h
  BY <1>2, <1>4, <1>5, <1>6, SeqEqual
<1> QED BY <1>7 DEF g, h, f, k, l, w
------------------------------------------------------------------------------
(* The input of a connection.                                              *)

\* The unread input is a sequence of bytes.
LEMMA ReadType ==
    ASSUME NEW c \in Conn
    PROVE  /\ c.in \in Seq(Byte) /\ c.temp \in Seq(Byte)
           /\ Len(c.in) \in Nat /\ Len(c.temp) \in Nat
           /\ Read(c) \in Seq(Byte) /\ Len(Read(c)) = BufferLength(c)
           /\ BufferLength(c) \in Nat
<1>1. c.in \in Seq(Byte) /\ c.temp \in Seq(Byte)
  BY DEF Conn
<1>2. Len(c.in) \in Nat /\ Len(c.temp) \in Nat
  BY <1>1, LenProperties
<1>3. c.in \o c.temp \in Seq(Byte) /\ Len(c.in \o c.temp) = Len(c.in) + Len(c.temp)
  BY <1>1, ConcatProperties
<1>4. \A m, n \in Nat : m + n \in Nat
  OBVIOUS
<1>5. BufferLength(c) \in Nat
  BY <1>2, <1>4, Zenon DEF BufferLength
<1> QED BY <1>1, <1>2, <1>3, <1>5, Zenon DEF Read, BufferLength

\* Nothing left.
LEMMA ResetType ==
    ASSUME NEW c
    PROVE  /\ ResetBuffer(c) \in Conn
           /\ Read(ResetBuffer(c)) = <<>> /\ BufferLength(ResetBuffer(c)) = 0
<1>1. <<>> \in Seq(Byte) /\ Len(<<>>) = 0
  BY EmptySeq
<1>2. <<>> \o <<>> = <<>>
  BY <1>1, ConcatEmptySeq
<1> QED BY <1>1, <1>2 DEF ResetBuffer, Conn, Read, BufferLength

\* Dropping all.
LEMMA DropAll ==
    ASSUME NEW S, NEW s \in Seq(S)
    PROVE  Drop(s, Len(s)) = <<>> /\ Drop(s, 0) = s
<1>1. Len(s) \in Nat /\ Len(s) \in 0 .. Len(s) /\ 0 \in 0 .. Len(s) /\ Len(s) - Len(s) = 0
  BY LenProperties
<1>2. Drop(s, Len(s)) \in Seq(S) /\ Len(Drop(s, Len(s))) = 0
  BY <1>1, Cut
<1>3. Drop(s, Len(s)) = <<>>
  BY <1>2, EmptySeq
<1>4. /\ Drop(s, 0) \in Seq(S) /\ Len(Drop(s, 0)) = Len(s)
      /\ \A i \in 1 .. Len(s) : Drop(s, 0)[i] = s[i]
  <2>1. /\ Drop(s, 0) \in Seq(S) /\ Len(Drop(s, 0)) = Len(s) - 0
        /\ \A i \in 1 .. Len(s) - 0 : Drop(s, 0)[i] = s[0 + i]
    BY <1>1, Cut
  <2>2. Len(s) - 0 = Len(s) /\ \A i \in 1 .. Len(s) : 0 + i = i
    BY <1>1
  <2> QED BY <2>1, <2>2
<1> QED BY <1>3, <1>4, SeqEqual

\* How much ShiftN(n) skips.
Skipped(c, n) == IF BufferLength(c) < n \/ n <= 0 THEN BufferLength(c) ELSE n

\* ShiftN skips that much of the unread input, wherever inBuffer ends.
LEMMA ShiftNDrops ==
    ASSUME NEW c \in Conn, NEW n \in Int
    PROVE  /\ ShiftN(c, n) \in Conn
           /\ Skipped(c, n) \in 0 .. BufferLength(c)
           /\ Read(ShiftN(c, n)) = Drop(Read(c), Skipped(c, n))
<1>1. /\ c.in \in Seq(Byte) /\ c.temp \in Seq(Byte)
      /\ Len(c.in) \in Nat /\ Len(c.temp) \in Nat
      /\ Read(c) \in Seq(Byte) /\ Len(Read(c)) = BufferLength(c)
      /\ BufferLength(c) = Len(c.in) + Len(c.temp) /\ BufferLength(c) \in Nat
  BY ReadType DEF BufferLength
<1>2. Skipped(c, n) \in 0 .. BufferLength(c)
  <2>1. ASSUME NEW b \in Nat PROVE (IF b < n \/ n <= 0 THEN b ELSE n) \in 0 .. b
    OBVIOUS
  <2> QED BY <1>1, <2>1, Zenon DEF Skipped
<1>3. CASE BufferLength(c) < n \/ n <= 0
  <2>1. ShiftN(c, n) = ResetBuffer(c) /\ Skipped(c, n) = Len(Read(c))
    <3>1. ShiftN(c, n) = ResetBuffer(c)
      <4>1. ASSUME NEW l \in Nat, NEW t \in Nat, l + t < n \/ n <= 0
            PROVE  n \notin 1 .. l + t /\ n \notin 1 .. l
        BY <4>1
      <4>2. n \notin 1 .. BufferLength(c) /\ n \notin 1 .. Len(c.in)
        BY <1>1, <1>3, <4>1, Zenon
      <4> QED BY <1>3, <4>2 DEF ShiftN
    <3>2. Skipped(c, n) = Len(Read(c))
      BY <1>1, <1>3, Zenon DEF Skipped
    <3> QED BY <3>1, <3>2
  <2> QED BY <1>1, <1>2, <2>1, ResetType, DropAll
<1>4. CASE ~ (BufferLength(c) < n \/ n <= 0)
  <2>1. n \in 1 .. BufferLength(c) /\ Skipped(c, n) = n
    <3>1. ASSUME NEW b \in Nat, ~ (b < n \/ n <= 0) PROVE n \in 1 .. b
      BY <3>1
    <3> QED BY <1>1, <1>4, <3>1, Zenon DEF Skipped
  <2>2. CASE c.in = <<>>
    <3>1. ShiftN(c, n) = [c EXCEPT !.temp = Drop(@, n)]
      BY <1>4, <2>1, <2>2 DEF ShiftN
    <3>2. Len(c.in) = 0 /\ n \in 0 .. Len(c.temp)
      BY <1>1, <2>1, <2>2, EmptySeq
    <3>3. Drop(c.temp, n) \in Seq(Byte)
      BY <1>1, <3>2, Cut
    <3>4. ShiftN(c, n) \in Conn /\ Read(ShiftN(c, n)) = <<>> \o Drop(c.temp, n)
      BY <2>2, <3>1, <3>3 DEF Conn, Read
    <3>5. Read(c) = c.temp /\ <<>> \o Drop(c.temp, n) = Drop(c.temp, n)
      BY <1>1, <2>2, <3>3, ConcatEmptySeq DEF Read
    <3> QED BY <1>2, <2>1, <3>4, <3>5
  <2>3. CASE c.in # <<>> /\ n \in 1 .. Len(c.in)
    <3>1. ShiftN(c, n) = [c EXCEPT !.in = Drop(@, n)]
      BY <1>4, <2>1, <2>3 DEF ShiftN
    <3>2. n \in 0 .. Len(c.in)
      <4>1. ASSUME NEW l \in Nat, n \in 1 .. l PROVE n \in 0 .. l
        BY <4>1
      <4> QED BY <1>1, <2>3, <4>1, Zenon
    <3>3. Drop(c.in, n) \in Seq(Byte) /\ Drop(c.in \o c.temp, n) = Drop(c.in, n) \o c.temp
      <4>1. Drop(c.in, n) \in Seq(Byte)
        BY <1>1, <3>2, Cut
      <4>2. Drop(c.in \o c.temp, n) = Drop(c.in, n) \o c.temp
        BY <1>1, <3>2, DropLeft
      <4> QED BY <4>1, <4>2
    <3>4. ShiftN(c, n) \in Conn /\ Read(ShiftN(c, n)) = Drop(c.in, n) \o c.temp
      BY <3>1, <3>3 DEF Conn, Read
    <3> QED BY <1>2, <2>1, <3>3, <3>4 DEF Read
  <2>4. CASE c.in # <<>> /\ n \notin 1 .. Len(c.in)
    <3>1. ShiftN(c, n) = [in |-> <<>>, temp |-> SkipRest(c, n)]
      BY <1>4, <2>1, <2>4 DEF ShiftN
    <3> DEFINE k == n - Len(c.in)
    <3>2. k \in 0 .. Len(c.temp) /\ Len(c.in) + k = n
      <4>1. ASSUME NEW l \in Nat, NEW t \in Nat, n \in 1 .. l + t, n \notin 1 .. l
            PROVE  n - l \in 0 .. t /\ l + (n - l) = n
        BY <4>1
      <4> QED BY <1>1, <2>1, <2>4, <4>1, Zenon
    <3>3. Drop(c.temp, k) \in Seq(Byte) /\ <<>> \in Seq(Byte)
      BY <1>1, <3>2, Cut, EmptySeq
    <3>4. ShiftN(c, n) \in Conn /\ Read(ShiftN(c, n)) = Drop(c.temp, k)
      <4>1. <<>> \o Drop(c.temp, k) = Drop(c.temp, k)
        BY <3>3, ConcatEmptySeq
      <4> QED BY <3>1, <3>3, <4>1 DEF Conn, Read, SkipRest
    <3>5. Drop(Read(c), n) = Drop(c.temp, k)
      <4>1. Len(c.in) \in 0 .. Len(Read(c)) /\ k \in 0 .. Len(Read(c)) - Len(c.in)
        <5>1. ASSUME NEW l \in Nat, NEW t \in Nat, NEW m \in 0 .. t
              PROVE  l \in 0 .. l + t /\ m \in 0 .. (l + t) - l
          OBVIOUS
        <5> QED BY <1>1, <3>2, <5>1, Zenon
      <4>2. Drop(Drop(Read(c), Len(c.in)), k) = Drop(Read(c), Len(c.in) + k)
        BY <1>1, <4>1, DropTwice
      <4>3. Drop(Read(c), Len(c.in)) = c.temp
        <5>1. Len(c.in) \in 0 .. Len(c.in)
          BY <1>1
        <5>2. Drop(c.in \o c.temp, Len(c.in)) = Drop(c.in, Len(c.in)) \o c.temp
          BY <1>1, <5>1, DropLeft
        <5>3. Drop(c.in, Len(c.in)) = <<>> /\ <<>> \o c.temp = c.temp
          BY <1>1, DropAll, ConcatEmptySeq
        <5> QED BY <5>2, <5>3 DEF Read
      <4> QED BY <3>2, <4>2, <4>3
    <3> QED BY <1>2, <2>1, <3>4, <3>5
  <2> QED BY <2>2, <2>3, <2>4
<1> QED BY <1>3, <1>4

\* What is left after ShiftN.
LEMMA ShiftNLength ==
    ASSUME NEW c \in Conn, NEW n \in Int
    PROVE  BufferLength(ShiftN(c, n)) = BufferLength(c) - Skipped(c, n)
<1>1. Read(c) \in Seq(Byte) /\ Len(Read(c)) = BufferLength(c)
  BY ReadType
<1>2. ShiftN(c, n) \in Conn /\ Skipped(c, n) \in 0 .. Len(Read(c))
      /\ Read(ShiftN(c, n)) = Drop(Read(c), Skipped(c, n))
  BY <1>1, ShiftNDrops
<1>3. Len(Drop(Read(c), Skipped(c, n))) = Len(Read(c)) - Skipped(c, n)
  BY <1>1, <1>2, Cut
<1> QED BY <1>1, <1>2, <1>3, ReadType

\* ReadN hands out the first bytes of the unread input, wherever inBuffer ends.
LEMMA ReadNIsFirst ==
    ASSUME NEW c \in Conn, NEW n \in Int
    PROVE  /\ Skipped(c, n) \in 0 .. Len(Read(c))
           /\ ReadN(c, n) = First(Read(c), Skipped(c, n))
<1> DEFINE size == Skipped(c, n)
           buf == Read(c)
<1>1. /\ c.in \in Seq(Byte) /\ c.temp \in Seq(Byte)
      /\ Len(c.in) \in Nat /\ Len(c.temp) \in Nat /\ buf = c.in \o c.temp
      /\ buf \in Seq(Byte) /\ Len(buf) = Len(c.in) + Len(c.temp)
      /\ size \in 0 .. Len(c.in) + Len(c.temp)
  BY ReadType, ShiftNDrops DEF BufferLength, Read
<1>2. ReadN(c, n) = CASE c.in = <<>> -> First(c.temp, size)
                      [] c.in # <<>> /\ Len(c.in) >= size -> First(c.in, size)
                      [] OTHER -> c.in \o First(c.temp, size - Len(c.in))
  BY DEF ReadN, Skipped
<1> SUFFICES ReadN(c, n) = First(buf, size)
  BY <1>1, Zenon
<1> HIDE DEF size, buf
<1>3. CASE c.in = <<>>
  <2>1. buf = c.temp
    BY <1>1, <1>3, ConcatEmptySeq
  <2> QED BY <1>2, <1>3, <2>1
<1>4. CASE c.in # <<>> /\ Len(c.in) >= size
  <2>1. 1 \in 1 .. Len(c.in) + 1 /\ size \in 1 - 1 .. Len(c.in)
    BY <1>1, <1>4
  <2>2. SubSeq(c.in \o c.temp, 1, size) = SubSeq(c.in, 1, size)
    BY <1>1, <2>1, PartOfLeft
  <2>3. First(buf, size) = First(c.in, size)
    BY <1>1, <2>2 DEF First
  <2>4. ReadN(c, n) = First(c.in, size)
    BY <1>2, <1>4
  <2> QED BY <2>3, <2>4
<1>5. CASE c.in # <<>> /\ ~ (Len(c.in) >= size)
  <2>1. size \in Len(c.in) .. Len(c.in) + Len(c.temp)
    <3>1. ASSUME NEW l \in Nat, NEW t \in Nat, size \in 0 .. l + t, ~ (l >= size)
          PROVE  size \in l .. l + t
      BY <3>1
    <3> QED BY <1>1, <1>5, <3>1, Zenon
  <2>2. First(buf, size) = c.in \o First(c.temp, size - Len(c.in))
    BY <1>1, <2>1, FirstOfTwo
  <2>3. ReadN(c, n) = c.in \o First(c.temp, size - Len(c.in))
    BY <1>2, <1>5
  <2> QED BY <2>2, <2>3
<1> QED BY <1>3, <1>4, <1>5

\* So it hands out bytes.
LEMMA ReadNType ==
    ASSUME NEW c \in Conn, NEW n \in Int
    PROVE  ReadN(c, n) \in Seq(Byte)
<1>1. Read(c) \in Seq(Byte)
  BY ReadType
<1> QED BY <1>1, ReadNIsFirst, Cut
------------------------------------------------------------------------------
(* Decode.                                                                 *)

\* What a codec may do with the input: it leaves a suffix of it, and all of it when
\* it finds no frame; a frame is made of bytes.
TakesPrefix(d, c) ==
    /\ d.conn \in Conn
    /\ d.frame \in Seq(Byte)
    /\ d.found \in BOOLEAN
    /\ BufferLength(c) - BufferLength(d.conn) \in 0 .. BufferLength(c)
    /\ Read(d.conn) = Drop(Read(c), BufferLength(c) - BufferLength(d.conn))
    /\ ~d.found => Read(d.conn) = Read(c)

\* Finding nothing.
LEMMA NoFrameTakes ==
    ASSUME NEW c \in Conn, NEW e \in Conn, Read(e) = Read(c)
    PROVE  TakesPrefix(NoFrame(e), c)
<1>1. /\ Read(c) \in Seq(Byte) /\ BufferLength(c) \in Nat
      /\ BufferLength(e) = BufferLength(c)
  BY ReadType
<1>2. ASSUME NEW b \in Nat PROVE b - b = 0 /\ 0 \in 0 .. b
  OBVIOUS
<1>3. /\ BufferLength(c) - BufferLength(e) = 0
      /\ BufferLength(c) - BufferLength(e) \in 0 .. BufferLength(c)
  BY <1>1, <1>2, Zenon
<1>4. Drop(Read(c), 0) = Read(c)
  BY <1>1, DropAll
<1>5. <<>> \in Seq(Byte)
  BY EmptySeq
<1> QED BY <1>3, <1>4, <1>5 DEF TakesPrefix, NoFrame

\* Finding a frame and skipping n bytes.
LEMMA ShiftNTakes ==
    ASSUME NEW c \in Conn, NEW n \in Int, NEW frame \in Seq(Byte)
    PROVE  TakesPrefix(Found(frame, ShiftN(c, n)), c)
<1>1. /\ BufferLength(c) \in Nat
      /\ ShiftN(c, n) \in Conn
      /\ Skipped(c, n) \in 0 .. BufferLength(c)
      /\ Read(ShiftN(c, n)) = Drop(Read(c), Skipped(c, n))
      /\ BufferLength(ShiftN(c, n)) = BufferLength(c) - Skipped(c, n)
  BY ReadType, ShiftNDrops, ShiftNLength
<1>2. ASSUME NEW b \in Nat, NEW k \in 0 .. b PROVE b - (b - k) = k
  OBVIOUS
<1>3. BufferLength(c) - BufferLength(ShiftN(c, n)) = Skipped(c, n)
  BY <1>1, <1>2, Zenon
<1> QED BY <1>1, <1>3 DEF TakesPrefix, Found

\* The codec that hands out all there is.
LEMMA BuiltInTakes ==
    ASSUME NEW c \in Conn
    PROVE  TakesPrefix(DecodeBuiltIn(c), c)
<1>1. /\ Read(c) \in Seq(Byte) /\ Len(Read(c)) = BufferLength(c)
      /\ BufferLength(c) \in Nat
      /\ ResetBuffer(c) \in Conn /\ Read(ResetBuffer(c)) = <<>>
      /\ BufferLength(ResetBuffer(c)) = 0
  BY ReadType, ResetType
<1>2. CASE Read(c) = <<>>
  <2>1. TakesPrefix(NoFrame(ResetBuffer(c)), c)
    BY <1>1, <1>2, NoFrameTakes
  <2> QED BY <1>2, <2>1 DEF DecodeBuiltIn
<1>3. CASE Read(c) # <<>>
  <2>1. ASSUME NEW b \in Nat PROVE b - 0 = b /\ b \in 0 .. b
    OBVIOUS
  <2>2. /\ BufferLength(c) - BufferLength(ResetBuffer(c)) = BufferLength(c)
        /\ BufferLength(c) - BufferLength(ResetBuffer(c)) \in 0 .. BufferLength(c)
    BY <1>1, <2>1, Zenon
  <2>3. Drop(Read(c), BufferLength(c)) = <<>>
    BY <1>1, DropAll
  <2> QED BY <1>1, <1>3, <2>2, <2>3 DEF DecodeBuiltIn, TakesPrefix, Found
<1> QED BY <1>2, <1>3

\* The delimiter codecs: the frame ends before the first delimiter.
LEMMA DelimiterTakes ==
    ASSUME NEW c \in Conn, NEW delimiter
    PROVE  TakesPrefix(DecodeDelimiter(c, delimiter), c)
<1> DEFINE buf == Read(c)
           at == {i \in 1 .. Len(buf) : buf[i] = delimiter}
           idx == CHOOSE i \in at : \A j \in at : i <= j
<1>1. buf \in Seq(Byte) /\ Len(buf) \in Nat /\ at \subseteq 1 .. Len(buf)
  BY LenProperties, ReadType
<1>2. DecodeDelimiter(c, delimiter) =
          IF at = {} THEN NoFrame(c) ELSE Found(First(buf, idx - 1), ShiftN(c, idx))
  BY DEF DecodeDelimiter
<1> HIDE DEF buf, at
<1>3. CASE at = {}
  BY <1>2, <1>3, NoFrameTakes
<1>4. CASE at # {}
  <2>1. at \subseteq Nat
    BY <1>1
  <2>2. \E i \in at : \A j \in at : i <= j
    BY <1>4, <2>1, LeastElement
  <2>3. idx \in at
    BY <2>2
  <2> HIDE DEF idx
  <2>4. idx \in Int /\ idx - 1 \in 0 .. Len(buf)
    BY <1>1, <2>3
  <2>5. First(buf, idx - 1) \in Seq(Byte)
    BY <1>1, <2>4, Cut
  <2> QED BY <1>2, <1>4, <2>4, <2>5, ShiftNTakes
<1> QED BY <1>3, <1>4

\* The fixed length codec: what ReadN returns is skipped.
LEMMA FixedLengthTakes ==
    ASSUME NEW c \in Conn, NEW frameLength \in Int
    PROVE  TakesPrefix(DecodeFixedLength(c, frameLength), c)
<1> DEFINE buf == ReadN(c, frameLength)
<1>1. buf \in Seq(Byte) /\ Len(buf) \in Int
  <2>1. buf \in Seq(Byte)
    BY ReadNType
  <2>2. Len(buf) \in Nat
    BY <2>1, LenProperties
  <2> QED BY <2>1, <2>2
<1> HIDE DEF buf
<1>2. TakesPrefix(NoFrame(c), c) /\ TakesPrefix(Found(buf, ShiftN(c, Len(buf))), c)
  BY <1>1, NoFrameTakes, ShiftNTakes
<1> QED BY <1>2 DEF DecodeFixedLength, buf

\* The length field codec: header and message are skipped together.
LEMMA LengthFieldTakes ==
    ASSUME NEW c \in Conn, NEW dc,
           dc.offset \in Nat, dc.width \in Nat, dc.adjustment \in Int,
           dc.strip \in 0 .. dc.offset + dc.width
    PROVE  TakesPrefix(DecodeLengthField(c, dc), c)
<1> DEFINE in == Read(c)
           hdr == dc.offset + dc.width
           field == SubSeq(in, dc.offset + 1, hdr)
           msgLength == ToInt(Uint(field, dc.order)) + dc.adjustment
<1>1. in \in Seq(Byte) /\ Len(in) \in Nat /\ hdr \in Nat
  <2>1. in \in Seq(Byte)
    BY ReadType
  <2> QED BY <2>1, LenProperties
<1>2. CASE dc.width \notin Widths \/ Len(in) < hdr \/ TooFew(Drop(in, hdr), msgLength)
  <2>1. DecodeLengthField(c, dc) = NoFrame(c)
    BY <1>2, Zenon DEF DecodeLengthField
  <2> QED BY <2>1, NoFrameTakes
<1>3. CASE ~ (dc.width \notin Widths \/ Len(in) < hdr \/ TooFew(Drop(in, hdr), msgLength))
  <2>1. DecodeLengthField(c, dc) =
            Found(Drop(First(in, hdr + msgLength), dc.strip), ShiftN(c, hdr + msgLength))
    BY <1>3, Zenon DEF DecodeLengthField
  <2>2. field \in Seq(Byte)
    <3>1. dc.offset + 1 \in Int /\ hdr \in Int
      OBVIOUS
    <3>2. \A i \in dc.offset + 1 .. hdr : i \in 1 .. Len(in)
      BY <1>1, <1>3
    <3>3. \A i \in dc.offset + 1 .. hdr : in[i] \in Byte
      BY <1>1, <3>2, ElementOfSeq, Zenon
    <3> HIDE DEF in, hdr
    <3> QED BY <3>1, <3>3, SubSeqProperties
  <2>3. msgLength \in Int
    <3>1. Uint(field, dc.order) \in Nat
      BY <2>2, UintType
    <3>2. ASSUME NEW x \in Nat PROVE ToInt(x) \in Int
      BY PowerSteps DEF ToInt
    <3>3. ToInt(Uint(field, dc.order)) \in Int
      BY <3>1, <3>2, Zenon
    <3> HIDE DEF field
    <3> QED BY <3>3
  <2> HIDE DEF field, msgLength, in, hdr
  <2>4. msgLength > 0 /\ hdr + msgLength \in 0 .. Len(in)
    <3>1. hdr \in 0 .. Len(in) /\ ~ TooFew(Drop(in, hdr), msgLength)
      BY <1>1, <1>3
    <3>2. Len(Drop(in, hdr)) = Len(in) - hdr
      BY <1>1, <3>1, Cut
    <3> QED BY <1>1, <2>3, <3>1, <3>2 DEF TooFew
  <2>5. dc.strip \in 0 .. hdr + msgLength
    BY <1>1, <2>3, <2>4 DEF hdr
  <2>6. /\ First(in, hdr + msgLength) \in Seq(Byte)
        /\ Len(First(in, hdr + msgLength)) = hdr + msgLength
    BY <1>1, <2>4, Cut
  <2>7. Drop(First(in, hdr + msgLength), dc.strip) \in Seq(Byte)
    BY <2>5, <2>6, Cut
  <2>8. hdr + msgLength \in Int
    BY <1>1, <2>3
  <2> QED BY <2>1, <2>7, <2>8, ShiftNTakes
<1> QED BY <1>2, <1>3

\* Every codec takes a prefix of the unread input, and nothing without a frame.
THEOREM DecodeTakesPrefix ==
    ASSUME NEW c \in Conn, NEW codec, IsCodec(codec)
    PROVE  TakesPrefix(Decode(codec, c), c)
<1>1. CASE codec.kind = "builtin"
  BY <1>1, BuiltInTakes DEF Decode
<1>2. CASE codec.kind = "delimiter"
  BY <1>2, DelimiterTakes DEF Decode
<1>3. CASE codec.kind = "fixed" /\ codec.frameLength \in Nat \ {0}
  BY <1>3, FixedLengthTakes DEF Decode
<1>4. CASE /\ codec.kind = "length"
           /\ codec.dc.offset \in Nat /\ codec.dc.width \in Nat
           /\ codec.dc.adjustment \in Int
           /\ codec.dc.strip \in 0 .. codec.dc.offset + codec.dc.width
  BY <1>4, LengthFieldTakes DEF Decode
<1> QED BY <1>1, <1>2, <1>3, <1>4 DEF IsCodec
------------------------------------------------------------------------------
(* What Decode finds.                                                      *)

\* How many bytes a decoder took.
Taken(d, c) == BufferLength(c) - BufferLength(d.conn)

\* Decoders that skip n bytes of the input take so many.
LEMMA ShiftNTaken ==
    ASSUME NEW c \in Conn, NEW n \in 1 .. Len(Read(c)), NEW frame
    PROVE  Taken(Found(frame, ShiftN(c, n)), c) = n
<1>1. /\ BufferLength(c) \in Nat /\ Len(Read(c)) = BufferLength(c)
      /\ BufferLength(ShiftN(c, n)) = BufferLength(c) - Skipped(c, n)
  BY ReadType, ShiftNLength
<1>2. Skipped(c, n) = n
  <2>1. ASSUME NEW b \in Nat, n \in 1 .. b PROVE ~ (b < n \/ n <= 0)
    BY <2>1
  <2> QED BY <1>1, <2>1, Zenon DEF Skipped
<1>3. ASSUME NEW b \in Nat PROVE b - (b - n) = n
  OBVIOUS
<1>4. BufferLength(c) - (BufferLength(c) - n) = n
  BY <1>1, <1>3, Zenon
<1> QED BY <1>1, <1>2, <1>4 DEF Taken, Found

\* The codecs without frames of their own hand out what they take, if there is any.
LEMMA WholeFinds ==
    ASSUME NEW c \in Conn, NEW codec,
           \/ codec.kind = "builtin"
           \/ codec.kind = "fixed" /\ codec.frameLength \in Nat \ {0}
    PROVE  LET d == Decode(codec, c)
           IN  /\ d.found <=> Read(c) # <<>>
               /\ d.found => d.frame = First(Read(c), Taken(d, c))
<1> DEFINE d == Decode(codec, c)
           buf == Read(c)
<1>1. /\ buf \in Seq(Byte) /\ Len(buf) = BufferLength(c) /\ Len(buf) \in Nat
      /\ buf # <<>> => Len(buf) # 0
  <2>1. buf \in Seq(Byte) /\ Len(buf) = BufferLength(c) /\ Len(buf) \in Nat
    BY ReadType
  <2> QED BY <2>1, EmptySeq
<1>2. CASE codec.kind = "builtin"
  <2>1. d = IF buf = <<>> THEN NoFrame(ResetBuffer(c)) ELSE Found(buf, ResetBuffer(c))
    BY <1>2 DEF Decode, DecodeBuiltIn
  <2> HIDE DEF d
  <2>2. d.found <=> buf # <<>>
    BY <2>1 DEF NoFrame, Found
  <2>3. ASSUME buf # <<>> PROVE d.frame = First(buf, Taken(d, c))
    <3>1. d.frame = buf /\ d.conn = ResetBuffer(c)
      BY <2>1, <2>3 DEF Found
    <3>2. Taken(d, c) = Len(buf)
      <4>1. BufferLength(d.conn) = 0
        BY <3>1, ResetType
      <4>2. ASSUME NEW b \in Nat PROVE b - 0 = b
        OBVIOUS
      <4> QED BY <1>1, <4>1, <4>2 DEF Taken
    <3>3. First(buf, Len(buf)) = buf
      BY <1>1, SubSeqFull DEF First
    <3> QED BY <3>1, <3>2, <3>3
  <2> QED BY <2>2, <2>3 DEF d
<1>3. CASE codec.kind = "fixed" /\ codec.frameLength \in Nat \ {0}
  <2> DEFINE n == Skipped(c, codec.frameLength)
             f == First(buf, n)
  <2>1. n \in 0 .. Len(buf) /\ ReadN(c, codec.frameLength) = f
    BY <1>3, ReadNIsFirst, SMTT(20)
  <2>2. d = IF f = <<>> THEN NoFrame(c) ELSE Found(f, ShiftN(c, Len(f)))
    BY <1>3, <2>1 DEF Decode, DecodeFixedLength
  <2>3. n = 0 <=> Len(buf) = 0
    <3>1. ASSUME NEW b \in Nat, NEW l \in Nat \ {0}
          PROVE  (IF b < l \/ l <= 0 THEN b ELSE l) = 0 <=> b = 0
      OBVIOUS
    <3> QED BY <1>1, <1>3, <3>1, Zenon DEF Skipped
  <2> HIDE DEF d, n
  <2>4. f \in Seq(Byte) /\ Len(f) = n
    BY <1>1, <2>1, Cut
  <2>5. f = <<>> <=> n = 0
    BY <2>4, EmptySeq
  <2>6. buf = <<>> <=> Len(buf) = 0
    BY <1>1, EmptySeq
  <2> HIDE DEF f
  <2>7. d.found <=> buf # <<>>
    BY <2>2, <2>3, <2>5, <2>6 DEF NoFrame, Found
  <2>8. ASSUME buf # <<>> PROVE d.frame = First(buf, Taken(d, c))
    <3>1. d = Found(f, ShiftN(c, n)) /\ n \in 1 .. Len(buf)
      BY <1>1, <2>1, <2>2, <2>3, <2>4, <2>5, <2>6, <2>8
    <3>2. Taken(d, c) = n
      BY <3>1, ShiftNTaken
    <3> QED BY <3>1, <3>2 DEF Found, f
  <2> QED BY <2>7, <2>8 DEF d
<1> QED BY <1>2, <1>3

\* The delimiter codecs end the frame at the first delimiter.
LEMMA DelimiterFinds ==
    ASSUME NEW c \in Conn, NEW delimiter
    PROVE  LET d == DecodeDelimiter(c, delimiter)
           IN  /\ (\A i \in 1 .. Len(Read(c)) : Read(c)[i] # delimiter) => ~d.found
               /\ \A n \in 1 .. Len(Read(c)) :
                     (Read(c)[n] = delimiter /\ \A i \in 1 .. n - 1 : Read(c)[i] # delimiter)
                         => d.found /\ d.frame = First(Read(c), n - 1) /\ Taken(d, c) = n
<1> DEFINE d == DecodeDelimiter(c, delimiter)
           buf == Read(c)
           at == {i \in 1 .. Len(buf) : buf[i] = delimiter}
           idx == CHOOSE i \in at : \A j \in at : i <= j
<1>1. d = IF at = {} THEN NoFrame(c) ELSE Found(First(buf, idx - 1), ShiftN(c, idx))
  BY DEF DecodeDelimiter
<1>2. Len(buf) \in Nat
  BY ReadType, LenProperties
<1> HIDE DEF d
<1>3. ASSUME \A i \in 1 .. Len(buf) : buf[i] # delimiter PROVE ~d.found
  <2>1. at = {}
    BY <1>3
  <2> QED BY <1>1, <2>1 DEF NoFrame
<1>4. ASSUME NEW n \in 1 .. Len(buf), buf[n] = delimiter,
             \A i \in 1 .. n - 1 : buf[i] # delimiter
      PROVE  d.found /\ d.frame = First(buf, n - 1) /\ Taken(d, c) = n
  <2>1. n \in at /\ \A j \in at : n <= j
    <3>1. ASSUME NEW j \in at PROVE n <= j
      <4>1. j \in Nat /\ n \in Nat /\ ~ (j \in 1 .. n - 1) /\ j >= 1
        BY <1>2, <1>4
      <4> QED BY <4>1
    <3> QED BY <1>4, <3>1
  <2>2. \A j \in at : (\A i \in at : j <= i) => j = n
    <3>1. at \subseteq Nat
      BY <1>2
    <3> HIDE DEF at
    <3> QED BY <2>1, <3>1
  <2> HIDE DEF at
  <2>3. idx = n
    BY <2>1, <2>2
  <2> HIDE DEF idx
  <2>4. d = Found(First(buf, n - 1), ShiftN(c, n))
    BY <1>1, <2>1, <2>3
  <2> QED BY <2>4, ShiftNTaken DEF Found
<1> QED BY <1>3, <1>4 DEF d

\* The length field codec finds a message that is not empty and all there.
LEMMA LengthFinds ==
    ASSUME NEW c \in Conn, NEW dc,
           dc.offset \in Nat, dc.width \in Widths, dc.adjustment \in Int
    PROVE  LET d == DecodeLengthField(c, dc)
               hdr == dc.offset + dc.width
               field == SubSeq(Read(c), dc.offset + 1, hdr)
           IN  /\ Len(Read(c)) < hdr => ~d.found
               /\ \A n \in Int :
                     (Len(Read(c)) >= hdr /\ ToInt(Uint(field, dc.order)) + dc.adjustment = n)
                         => /\ d.found <=> n > 0 /\ hdr + n <= Len(Read(c))
                            /\ d.found => /\ d.frame = Drop(First(Read(c), hdr + n), dc.strip)
                                          /\ Taken(d, c) = hdr + n
<1> DEFINE in == Read(c)
           d == DecodeLengthField(c, dc)
           hdr == dc.offset + dc.width
           len == ToInt(Uint(SubSeq(in, dc.offset + 1, hdr), dc.order)) + dc.adjustment
<1>1. in \in Seq(Byte) /\ Len(in) \in Nat /\ hdr \in Nat
  <2>1. in \in Seq(Byte) /\ dc.width \in Nat
    BY ReadType DEF Widths
  <2> QED BY <2>1, LenProperties
<1>2. d = IF dc.width \notin Widths \/ Len(in) < hdr THEN NoFrame(c)
          ELSE IF TooFew(Drop(in, hdr), len) THEN NoFrame(c)
          ELSE Found(Drop(First(in, hdr + len), dc.strip), ShiftN(c, hdr + len))
  BY Zenon DEF DecodeLengthField
<1> HIDE DEF d, len
<1>3. Len(in) < hdr => ~d.found
  BY <1>2 DEF NoFrame
<1>4. ASSUME NEW n \in Int, Len(in) >= hdr, len = n
      PROVE  /\ d.found <=> n > 0 /\ hdr + n <= Len(in)
             /\ d.found => /\ d.frame = Drop(First(in, hdr + n), dc.strip)
                           /\ Taken(d, c) = hdr + n
  <2> HIDE DEF hdr, in
  <2>1. d = IF TooFew(Drop(in, hdr), n) THEN NoFrame(c)
            ELSE Found(Drop(First(in, hdr + n), dc.strip), ShiftN(c, hdr + n))
    BY <1>1, <1>2, <1>4
  <2>2. Len(Drop(in, hdr)) = Len(in) - hdr
    BY <1>1, <1>4, Cut
  <2>3. TooFew(Drop(in, hdr), n) <=> ~ (n > 0 /\ hdr + n <= Len(in))
    BY <1>1, <2>2 DEF TooFew
  <2>4. d.found <=> n > 0 /\ hdr + n <= Len(in)
    BY <2>1, <2>3 DEF NoFrame, Found
  <2>5. ASSUME n > 0 /\ hdr + n <= Len(in)
        PROVE  /\ d.frame = Drop(First(in, hdr + n), dc.strip)
               /\ Taken(d, c) = hdr + n
    <3>1. d = Found(Drop(First(in, hdr + n), dc.strip), ShiftN(c, hdr + n))
      BY <2>1, <2>3, <2>5
    <3>2. hdr + n \in 1 .. Len(Read(c))
      BY <1>1, <2>5 DEF in
    <3>3. Taken(d, c) = hdr + n
      BY <3>1, <3>2, ShiftNTaken
    <3> QED BY <3>1, <3>3 DEF Found
  <2> QED BY <2>4, <2>5
<1> QED BY <1>3, <1>4 DEF d, len
==============================================================================
