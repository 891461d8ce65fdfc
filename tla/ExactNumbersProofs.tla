-------------------------- MODULE ExactNumbersProofs --------------------------
(***************************************************************************)
(* Proofs about ExactNumbers: every SDK judges every number as the number  *)
(* it is, within its limits, for every base, every token and every width   *)
(* of scales and of doubles.                                               *)
(*                                                                         *)
(* What digits spell is a fold, known by its recurrence (NaturalOfNone,    *)
(* NaturalOfMore); from it follow bounds, concatenation, cutting and       *)
(* comparison of digits.  Of the normal form of Go and Rust, the proof     *)
(* shows that it is unique, that its scale tells integers from fractions,  *)
(* and that comparing it digit by digit is comparing the numbers.  Of      *)
(* TypeScript, that the digits it spells out are the number, and that a    *)
(* double holds every integer below its precision and rounds the others to *)
(* an integer that is not safe.                                            *)
(***************************************************************************)
EXTENDS ExactNumbers, Induction, FiniteSetTheorems, TLAPS

-------------------------------------------------------------------------------
(* Arithmetic that is not linear, in the forms used below.                 *)
LEMMA Products ==
  ASSUME NEW a \in Int, NEW b \in Int, NEW c \in Int
  PROVE  a * b \in Int /\ (a * b) * c = a * (b * c) /\ a * b = b * a /\ (a + b) * c = a * c + b * c
OBVIOUS

(* Products of natural numbers keep their order.                           *)
LEMMA ProductsGrow ==
  ASSUME NEW a \in Nat, NEW b \in Nat, NEW c \in Nat
  PROVE  /\ a * b \in Nat
         /\ a <= b => a * c <= b * c
         /\ a < b => a * c + c <= b * c
         /\ c > 0 /\ a * c <= b * c => a <= b
         /\ c > 0 /\ a * c = b * c => a = b
<1>1. a * b \in Nat /\ a * c \in Nat /\ b * c \in Nat
  OBVIOUS
<1>2. a <= b => a * c <= b * c
  OBVIOUS
<1>3. ASSUME a < b PROVE a * c + c <= b * c
  <2>1. (a + 1) * c <= b * c
    BY <1>3
  <2> QED BY <2>1
<1>4. c > 0 /\ a * c <= b * c => a <= b
  <2>1. ASSUME NEW x \in Nat, NEW y \in Nat, x < y, c > 0 PROVE x * c < y * c
    BY <2>1
  <2> QED BY <1>1, <2>1
<1>5. c > 0 /\ a * c = b * c => a = b
  OBVIOUS
<1> QED BY <1>1, <1>2, <1>3, <1>4, <1>5

(* A number is its quotient times the divisor and a remainder.             *)
LEMMA Division ==
  ASSUME NEW a \in Nat, NEW b \in Nat, b > 0
  PROVE  /\ a \div b \in Nat /\ a % b \in 0..(b - 1) /\ a = (a \div b) * b + (a % b)
OBVIOUS

(* Nothing remains of a multiple, and of nothing else.                     *)
LEMMA Multiple ==
  ASSUME NEW a \in Int, NEW b \in Nat, b > 0
  PROVE  a % b = 0 <=> \E q \in Int : a = q * b
<1>1. a % b = 0 => \E q \in Int : a = q * b
  OBVIOUS
<1>2. ASSUME NEW q \in Int, a = q * b PROVE a % b = 0
  BY <1>2
<1> QED BY <1>1, <1>2

(* The powers of the base.                                                 *)
LEMMA Powers ==
  /\ Power[0] = 1
  /\ \A n \in Nat : Power[n] \in Nat /\ Power[n] > 0 /\ Power[n + 1] = Base * Power[n]
<1> DEFINE V    == Nat \ {0}
           step == [n \in Nat |-> [x \in V |-> Base * x]]
           Is(f) == f = [n \in Nat |-> IF n = 0 THEN 1 ELSE Base * f[n - 1]]
           power == CHOOSE f : Is(f)
<1>0. 1 \in V
  OBVIOUS
<1>1. step \in [Nat -> [V -> V]]
  <2>1. ASSUME NEW x \in V PROVE Base * x \in V
    BY BaseAssumption
  <2> QED BY <2>1
<1>2. PICK f : Iterates(f, V, 1, step)
  <2> HIDE DEF V, step
  <2> QED BY <1>0, <1>1, Recursion
<1>3. f \in [Nat -> V] /\ f[0] = 1
  BY <1>2 DEF Iterates
<1>4. ASSUME NEW n \in Nat PROVE f[n + 1] = Base * f[n]
  BY <1>2, <1>3 DEF Iterates
<1>5. Is(f)
  <2>1. f = [n \in Nat |-> f[n]]
    BY <1>3
  <2>2. ASSUME NEW n \in Nat PROVE f[n] = IF n = 0 THEN 1 ELSE Base * f[n - 1]
    <3>1. CASE n = 0
      BY <1>3, <3>1
    <3>2. CASE n # 0
      <4>1. n - 1 \in Nat /\ (n - 1) + 1 = n
        BY <3>2
      <4>2. f[(n - 1) + 1] = Base * f[n - 1]
        BY <1>4, <4>1
      <4> QED BY <3>2, <4>1, <4>2
    <3> QED BY <3>1, <3>2
  <2> QED BY <2>1, <2>2
<1>6. Power = power
  BY DEF Power
<1> HIDE DEF Is
<1>7. Is(power)
  BY <1>5
<1> HIDE DEF power
<1>8. power[0] = 1
  BY <1>7 DEF Is
<1>9. ASSUME NEW n \in Nat PROVE power[n + 1] = Base * power[n]
  <2>1. n + 1 \in Nat /\ n + 1 # 0 /\ (n + 1) - 1 = n
    OBVIOUS
  <2> QED BY <1>7, <2>1 DEF Is
<1> DEFINE S == {n \in Nat : power[n] \in Nat /\ power[n] > 0}
<1>10. 0 \in S /\ S \in SUBSET Nat
  BY <1>8
<1>11. ASSUME NEW n \in S PROVE n + 1 \in S
  BY <1>9, <1>11, BaseAssumption
<1> HIDE DEF S
<1>12. S = Nat
  BY <1>10, <1>11, SetInduction
<1> QED BY <1>6, <1>8, <1>9, <1>12 DEF S

(* Exponents add up.                                                       *)
LEMMA PowersAdd ==
  ASSUME NEW m \in Nat, NEW n \in Nat
  PROVE  Power[m + n] = Power[m] * Power[n]
<1> DEFINE S == {k \in Nat : Power[m + k] = Power[m] * Power[k]}
<1>1. 0 \in S /\ S \in SUBSET Nat
  <2>1. Power[m] * 1 = Power[m] /\ m + 0 = m
    BY Powers
  <2> QED BY <2>1, Powers
<1>2. ASSUME NEW k \in S PROVE k + 1 \in S
  <2>1. Power[(m + k) + 1] = Base * Power[m + k]
    BY Powers
  <2>2. Base * (Power[m] * Power[k]) = Power[m] * (Base * Power[k])
    BY Powers, BaseAssumption
  <2>3. Power[k + 1] = Base * Power[k] /\ (m + k) + 1 = m + (k + 1)
    BY Powers
  <2> QED BY <2>1, <2>2, <2>3
<1> HIDE DEF S
<1>3. S = Nat
  BY <1>1, <1>2, SetInduction
<1> QED BY <1>3 DEF S

(* A lesser power divides a greater one.                                   *)
LEMMA PowersGrow ==
  ASSUME NEW m \in Nat, NEW n \in Nat, m <= n
  PROVE  /\ n - m \in Nat /\ Power[n] = Power[m] * Power[n - m] /\ Power[n] = Power[n - m] * Power[m]
         /\ Power[m] <= Power[n]
<1>1. n - m \in Nat /\ m + (n - m) = n
  OBVIOUS
<1>2. Power[n] = Power[m] * Power[n - m]
  BY <1>1, PowersAdd
<1>3. Power[m] \in Nat /\ Power[n - m] \in Nat /\ 1 <= Power[n - m]
  BY <1>1, Powers
<1>4. Power[m] * Power[n - m] = Power[n - m] * Power[m]
  BY <1>3
<1>5. 1 * Power[m] <= Power[n - m] * Power[m]
  BY <1>3, ProductsGrow
<1> QED BY <1>1, <1>2, <1>3, <1>4, <1>5

-------------------------------------------------------------------------------
(* Digits, and the number they spell.                                      *)
Figures == 0..(Base - 1)
Digital == Seq(Figures)

(* A sequence without its last element.                                    *)
LEMMA WithoutLast ==
  ASSUME NEW n \in Nat, NEW d \in Digital, Len(d) = n + 1
  PROVE  \E e \in Digital : Len(e) = n /\ d = Append(e, d[n + 1]) /\ d[n + 1] \in Figures
                            /\ \A i \in 1..n : e[i] = d[i]
<1> DEFINE e == [i \in 1..n |-> d[i]]
<1>1. d[n + 1] \in Figures /\ \A i \in 1..n : d[i] \in Figures
  BY DEF Digital
<1>2. e \in Digital /\ Len(e) = n
  BY <1>1 DEF Digital
<1>3. d = Append(e, d[n + 1])
  <2> DEFINE a == Append(e, d[n + 1])
  <2>1. a \in Digital /\ Len(a) = n + 1
    BY <1>1, <1>2 DEF Digital
  <2>2. \A i \in 1..(n + 1) : a[i] = d[i]
    BY <1>2
  <2>3. d = [i \in 1..(n + 1) |-> d[i]] /\ a = [i \in 1..(n + 1) |-> a[i]]
    BY <2>1 DEF Digital
  <2> HIDE DEF a
  <2>4. a = d
    BY <2>2, <2>3
  <2> QED BY <2>4 DEF a
<1> QED BY <1>1, <1>2, <1>3

(* The greatest of a nonempty part of an initial part of the numbers.      *)
LEMMA MaxFacts ==
  ASSUME NEW n \in Nat, NEW s \in SUBSET (0..n), s # {}
  PROVE  Max(s) \in s /\ \A k \in s : Max(s) >= k
<1>1. PICK m \in s : \A k \in s : m >= k
  BY GreatestNatural
<1> QED BY <1>1 DEF Max

(* The least element of a set of natural numbers.                          *)
LEMMA MinFacts ==
  ASSUME NEW s \in SUBSET Nat, s # {}
  PROVE  Min(s) \in s /\ \A k \in s : Min(s) <= k
<1>1. PICK m \in s : \A k \in s : m <= k
  BY LeastNatural
<1> QED BY <1>1 DEF Min

(* The numbers that the beginnings of a sequence of digits spell.          *)
Spells(f, d) ==
  /\ DOMAIN f = 0..Len(d) /\ f[0] = 0
  /\ \A i \in 1..Len(d) : f[i] \in Nat /\ f[i] = f[i - 1] * Base + d[i]

(* Folding over a sequence of digits goes through such numbers.            *)
LEMMA SpellsOne ==
  ASSUME NEW d \in Digital
  PROVE  \E f : Spells(f, d) /\ Natural(d) = f[Len(d)]
<1> DEFINE S    == DOMAIN d
           pick == [s \in SUBSET S |-> Max(s)]
           step == [k \in S |-> [x \in Nat |-> x * Base + d[k]]]
<1>1. S = 1..Len(d) /\ Len(d) \in Nat /\ \A k \in S : d[k] \in Nat
  <2>1. S = 1..Len(d) /\ Len(d) \in Nat /\ \A k \in S : d[k] \in Figures
    BY DEF Digital
  <2> QED BY <2>1, BaseAssumption DEF Figures
<1>2. IsFiniteSet(S)
  BY <1>1, FS_Interval
<1> HIDE DEF S
<1>3. ASSUME NEW s \in SUBSET S, s # {} PROVE pick[s] = Max(s) /\ Max(s) \in s
  <2>1. s \in SUBSET (0..Len(d))
    BY <1>1
  <2> QED BY <1>1, <1>3, <2>1, MaxFacts
<1>4. ASSUME NEW k \in S, NEW x \in Nat PROVE x * Base + d[k] \in Nat
  <2>1. x * Base \in Nat /\ d[k] \in Nat
    BY <1>1, BaseAssumption
  <2> QED BY <2>1
<1>5. step \in [S -> [Nat -> Nat]]
  BY <1>4
<1>6. PICK g : Gathers(g, S, Nat, 0, step, pick)
  <2> HIDE DEF pick, step
  <2> QED BY <1>2, <1>3, <1>5, FiniteRecursion
<1> DEFINE Loop(f) == f = [s \in SUBSET S |-> IF s = {} THEN 0
                             ELSE LET x == Max(s) IN f[s \ {x}] * Base + d[x]]
           iter == CHOOSE f : Loop(f)
<1>7. Natural(d) = iter[S]
  BY DEF Natural, FoldLeft, MapThenFoldSet, S
<1>8. Loop(g)
  <2>1. g = [s \in SUBSET S |-> g[s]]
    BY <1>6 DEF Gathers
  <2>2. ASSUME NEW s \in SUBSET S
        PROVE  g[s] = IF s = {} THEN 0 ELSE LET x == Max(s) IN g[s \ {x}] * Base + d[x]
    <3>1. CASE s = {}
      BY <1>6, <3>1 DEF Gathers
    <3>2. CASE s # {}
      <4>1. g[s] = step[Max(s)][g[s \ {Max(s)}]] /\ Max(s) \in S /\ g[s \ {Max(s)}] \in Nat
        BY <1>3, <1>6, <3>2 DEF Gathers
      <4> QED BY <3>2, <4>1
    <3> QED BY <3>1, <3>2
  <2> HIDE DEF step, pick
  <2> QED BY <2>1, <2>2
<1> HIDE DEF Loop
<1>9. Loop(iter)
  BY <1>8
<1> HIDE DEF iter
<1>10. iter[{}] = 0
  BY <1>9 DEF Loop
<1>11. ASSUME NEW k \in 1..Len(d) PROVE iter[1..k] = iter[1..(k - 1)] * Base + d[k]
  <2> DEFINE s == 1..k
  <2>1. s \in SUBSET S /\ s # {} /\ s \in SUBSET (0..Len(d))
    BY <1>1
  <2>2. Max(s) \in s /\ \A j \in s : Max(s) >= j
    BY <1>1, <2>1, MaxFacts
  <2>3. Max(s) = k
    BY <2>2
  <2>4. s \ {k} = 1..(k - 1)
    OBVIOUS
  <2> HIDE DEF s
  <2>5. iter[s] = iter[s \ {Max(s)}] * Base + d[Max(s)]
    BY <1>9, <2>1 DEF Loop
  <2>6. iter[s] = iter[1..(k - 1)] * Base + d[k]
    BY <2>3, <2>4, <2>5
  <2> QED BY <2>6 DEF s
<1> DEFINE f == [k \in 0..Len(d) |-> iter[1..k]]
<1>12. f[0] = 0
  <2>1. 1..0 = {}
    OBVIOUS
  <2> QED BY <1>1, <1>10, <2>1
<1>13. ASSUME NEW k \in 1..Len(d) PROVE f[k] = f[k - 1] * Base + d[k]
  <2>1. k \in 0..Len(d) /\ k - 1 \in 0..Len(d)
    BY <1>1
  <2> QED BY <1>11, <2>1
<1> DEFINE N == {k \in Nat : k <= Len(d) => f[k] \in Nat}
<1>14. 0 \in N /\ N \in SUBSET Nat
  BY <1>12
<1>15. ASSUME NEW k \in N PROVE k + 1 \in N
  <2>1. SUFFICES ASSUME k + 1 <= Len(d) PROVE f[k + 1] \in Nat
    OBVIOUS
  <2>2. k + 1 \in 1..Len(d) /\ (k + 1) - 1 = k /\ f[k] \in Nat /\ k + 1 \in S
    BY <1>1, <2>1
  <2>3. f[k + 1] = f[k] * Base + d[k + 1]
    BY <1>13, <2>2
  <2> HIDE DEF f
  <2> QED BY <1>4, <2>2, <2>3
<1>16. N = Nat
  <2> HIDE DEF N
  <2> QED BY <1>14, <1>15, SetInduction
<1>17. ASSUME NEW k \in 1..Len(d) PROVE f[k] \in Nat
  <2> HIDE DEF f
  <2>1. k \in Nat /\ k <= Len(d)
    BY <1>1
  <2>2. k \in N
    <3> HIDE DEF N
    <3> QED BY <1>16, <2>1
  <2> QED BY <2>1, <2>2
<1>18. f[Len(d)] = iter[S] /\ DOMAIN f = 0..Len(d)
  BY <1>1
<1> HIDE DEF f
<1>19. Spells(f, d)
  BY <1>12, <1>13, <1>17, <1>18 DEF Spells
<1> QED BY <1>7, <1>18, <1>19

(* What no digit and one more digit spell.                                 *)
LEMMA NaturalOfNone == Natural(<<>>) = 0 /\ <<>> \in Digital
<1>1. <<>> \in Digital
  BY DEF Digital
<1>2. PICK f : Spells(f, <<>>) /\ Natural(<<>>) = f[Len(<<>>)]
  BY <1>1, SpellsOne
<1> QED BY <1>1, <1>2 DEF Spells

(* One more digit at the end.                                              *)
LEMMA NaturalOfMore ==
  ASSUME NEW d \in Digital, NEW x \in Figures
  PROVE  Append(d, x) \in Digital /\ Natural(Append(d, x)) = Natural(d) * Base + x
<1> DEFINE e == Append(d, x)
           n == Len(d)
<1>1. e \in Digital /\ Len(e) = n + 1 /\ n \in Nat /\ e[n + 1] = x /\ \A i \in 1..n : e[i] = d[i]
  BY DEF Digital
<1> HIDE DEF e, n
<1>2. PICK f : Spells(f, d) /\ Natural(d) = f[n]
  BY SpellsOne DEF n
<1>3. PICK g : Spells(g, e) /\ Natural(e) = g[n + 1]
  BY <1>1, SpellsOne
<1> DEFINE S == {k \in Nat : k <= n => f[k] = g[k]}
<1>4. 0 \in S /\ S \in SUBSET Nat
  BY <1>2, <1>3 DEF Spells
<1>5. ASSUME NEW k \in S PROVE k + 1 \in S
  <2>1. SUFFICES ASSUME k + 1 <= n PROVE f[k + 1] = g[k + 1]
    OBVIOUS
  <2>2. k + 1 \in 1..n /\ k + 1 \in 1..(n + 1) /\ (k + 1) - 1 = k /\ f[k] = g[k]
    BY <1>1, <2>1
  <2>3. f[k + 1] = f[k] * Base + d[k + 1]
    BY <1>2, <2>2 DEF Spells, n
  <2>4. g[k + 1] = g[k] * Base + e[k + 1]
    BY <1>1, <1>3, <2>2 DEF Spells
  <2> QED BY <1>1, <2>2, <2>3, <2>4
<1> HIDE DEF S
<1>6. S = Nat
  BY <1>4, <1>5, SetInduction
<1>7. f[n] = g[n]
  BY <1>1, <1>6 DEF S
<1>8. g[n + 1] = g[n] * Base + e[n + 1]
  <2>1. n + 1 \in 1..(n + 1) /\ (n + 1) - 1 = n
    BY <1>1
  <2> QED BY <1>1, <1>3, <2>1 DEF Spells
<1>9. Natural(e) = Natural(d) * Base + x
  BY <1>1, <1>2, <1>3, <1>7, <1>8
<1> QED BY <1>1, <1>9 DEF e

(* Fewer than as many as there are numbers of so many digits.              *)
LEMMA NaturalBound ==
  ASSUME NEW d \in Digital
  PROVE  Len(d) \in Nat /\ Natural(d) \in Nat /\ Natural(d) < Power[Len(d)]
<1> DEFINE S == {n \in Nat : \A e \in Digital : Len(e) = n => Natural(e) \in Nat /\ Natural(e) < Power[n]}
<1>1. 0 \in S /\ S \in SUBSET Nat
  <2>1. ASSUME NEW e \in Digital, Len(e) = 0 PROVE e = <<>>
    BY <2>1 DEF Digital
  <2> QED BY <2>1, NaturalOfNone, Powers
<1>2. ASSUME NEW n \in S PROVE n + 1 \in S
  <2>1. ASSUME NEW e \in Digital, Len(e) = n + 1 PROVE Natural(e) \in Nat /\ Natural(e) < Power[n + 1]
    <3>1. PICK c \in Digital : Len(c) = n /\ e = Append(c, e[n + 1]) /\ e[n + 1] \in Figures
      BY <2>1, WithoutLast
    <3>2. Natural(e) = Natural(c) * Base + e[n + 1] /\ Natural(c) \in Nat /\ Natural(c) < Power[n]
      BY <3>1, NaturalOfMore
    <3>3. e[n + 1] \in Nat /\ e[n + 1] < Base /\ Base \in Nat
      BY <3>1, BaseAssumption DEF Figures
    <3>4. Power[n + 1] = Power[n] * Base /\ Power[n] \in Nat
      <4>1. Power[n + 1] = Base * Power[n] /\ Power[n] \in Nat
        BY Powers
      <4> QED BY <3>3, <4>1
    <3>5. Natural(c) * Base + Base <= Power[n] * Base /\ Natural(c) * Base \in Nat
      BY <3>2, <3>3, <3>4, ProductsGrow
    <3> QED BY <3>2, <3>3, <3>4, <3>5
  <2> QED BY <2>1
<1> HIDE DEF S
<1>3. S = Nat
  BY <1>1, <1>2, SetInduction
<1>4. Len(d) \in Nat
  BY DEF Digital
<1> QED BY <1>3, <1>4 DEF S

(* Digits after other digits.                                              *)
LEMMA NaturalOfBoth ==
  ASSUME NEW d \in Digital, NEW e \in Digital
  PROVE  d \o e \in Digital /\ Len(d \o e) = Len(d) + Len(e)
         /\ Natural(d \o e) = Natural(d) * Power[Len(e)] + Natural(e)
<1> DEFINE S == {n \in Nat : \A a \in Digital : Len(a) = n => Natural(d \o a) = Natural(d) * Power[n] + Natural(a)}
<1>1. 0 \in S /\ S \in SUBSET Nat
  <2>1. ASSUME NEW a \in Digital, Len(a) = 0 PROVE Natural(d \o a) = Natural(d) * Power[0] + Natural(a)
    <3>1. a = <<>> /\ d \o a = d
      BY <2>1 DEF Digital
    <3>2. Natural(d) \in Nat
      BY NaturalBound
    <3> QED BY <3>1, <3>2, NaturalOfNone, Powers
  <2> QED BY <2>1
<1>2. ASSUME NEW n \in S PROVE n + 1 \in S
  <2>1. ASSUME NEW a \in Digital, Len(a) = n + 1
        PROVE  Natural(d \o a) = Natural(d) * Power[n + 1] + Natural(a)
    <3>1. PICK c \in Digital : Len(c) = n /\ a = Append(c, a[n + 1]) /\ a[n + 1] \in Figures
      BY <2>1, WithoutLast
    <3> DEFINE x == a[n + 1]
    <3>2. a = Append(c, x) /\ x \in Figures
      BY <3>1
    <3> HIDE DEF x
    <3>3. d \o c \in Digital /\ d \o a = Append(d \o c, x)
      BY <3>2 DEF Digital
    <3>4. Natural(a) = Natural(c) * Base + x /\ Natural(d \o a) = Natural(d \o c) * Base + x
      BY <3>2, <3>3, NaturalOfMore
    <3>5. Natural(d \o c) = Natural(d) * Power[n] + Natural(c)
      BY <3>1
    <3>6. Natural(d) \in Nat /\ Natural(c) \in Nat /\ Power[n] \in Nat /\ Base \in Nat /\ x \in Nat
          /\ Power[n + 1] = Base * Power[n]
      <4>1. Natural(d) \in Nat /\ Natural(c) \in Nat
        BY NaturalBound
      <4>2. Power[n] \in Nat /\ Power[n + 1] = Base * Power[n]
        BY Powers
      <4>3. Base \in Nat /\ x \in Nat
        BY <3>2, BaseAssumption DEF Figures
      <4> QED BY <4>1, <4>2, <4>3
    <3>7. (Natural(d) * Power[n] + Natural(c)) * Base = Natural(d) * (Base * Power[n]) + Natural(c) * Base
      BY <3>6
    <3>8. Natural(d) * (Base * Power[n]) \in Nat /\ Natural(c) * Base \in Nat
      BY <3>6
    <3> HIDE DEF S
    <3> QED BY <3>4, <3>5, <3>6, <3>7, <3>8
  <2> QED BY <2>1
<1> HIDE DEF S
<1>3. S = Nat
  BY <1>1, <1>2, SetInduction
<1>4. Len(e) \in Nat
  BY DEF Digital
<1>5. d \o e \in Digital /\ Len(d \o e) = Len(d) + Len(e)
  BY DEF Digital
<1> QED BY <1>3, <1>4, <1>5 DEF S

(* A part of a sequence of digits.                                         *)
LEMMA PartOfDigits ==
  ASSUME NEW d \in Digital, NEW a \in 1..(Len(d) + 1), NEW b \in (a - 1)..Len(d)
  PROVE  SubSeq(d, a, b) \in Digital /\ Len(SubSeq(d, a, b)) = b - a + 1
         /\ \A i \in 1..(b - a + 1) : SubSeq(d, a, b)[i] = d[a + i - 1]
BY DEF Digital

(* Digits are a function of their places.                                  *)
LEMMA DigitsAreFunctions ==
  ASSUME NEW d \in Digital PROVE d = [i \in 1..Len(d) |-> d[i]]
BY DEF Digital

(* Digits cut in two.                                                      *)
LEMMA NaturalCut ==
  ASSUME NEW d \in Digital, NEW k \in 0..Len(d)
  PROVE  Natural(d) = Natural(SubSeq(d, 1, k)) * Power[Len(d) - k] + Natural(SubSeq(d, k + 1, Len(d)))
<1> DEFINE l == SubSeq(d, 1, k)
           r == SubSeq(d, k + 1, Len(d))
           n == Len(d)
<1>0. n \in Nat /\ d = [i \in 1..n |-> d[i]]
  BY DEF Digital
<1>1. l \in Digital /\ Len(l) = k /\ \A i \in 1..k : l[i] = d[i]
  <2>1. 1 \in 1..(Len(d) + 1) /\ k \in (1 - 1)..Len(d) /\ k - 1 + 1 = k
    BY <1>0
  <2>2. l \in Digital /\ Len(l) = k - 1 + 1 /\ \A i \in 1..(k - 1 + 1) : l[i] = d[1 + i - 1]
    BY <2>1, PartOfDigits
  <2> QED BY <2>1, <2>2
<1>2. r \in Digital /\ Len(r) = n - k /\ \A i \in 1..(n - k) : r[i] = d[k + i]
  <2>1. k + 1 \in 1..(Len(d) + 1) /\ n \in ((k + 1) - 1)..Len(d) /\ n - (k + 1) + 1 = n - k
    BY <1>0
  <2>2. r \in Digital /\ Len(r) = n - (k + 1) + 1 /\ \A i \in 1..(n - (k + 1) + 1) : r[i] = d[(k + 1) + i - 1]
    BY <2>1, PartOfDigits
  <2>3. ASSUME NEW i \in 1..(n - k) PROVE r[i] = d[k + i]
    <3>1. i \in 1..(n - (k + 1) + 1) /\ (k + 1) + i - 1 = k + i
      BY <1>0, <2>1
    <3> HIDE DEF r
    <3> QED BY <2>2, <3>1
  <2> HIDE DEF r
  <2> QED BY <2>1, <2>2, <2>3
<1>7. k \in 0..n /\ k \in Nat
  BY <1>0
<1> HIDE DEF l, r, n
<1>3. l \o r \in Digital /\ Len(l \o r) = n
  <2>1. l \o r \in Digital /\ Len(l \o r) = Len(l) + Len(r)
    BY <1>1, <1>2, NaturalOfBoth
  <2> QED BY <1>0, <1>1, <1>2, <2>1
<1>4. \A i \in 1..n : (l \o r)[i] = d[i]
  <2>1. ASSUME NEW i \in 1..n PROVE (l \o r)[i] = d[i]
    <3>1. CASE i <= k
      <4>1. (l \o r)[i] = l[i]
        BY <1>0, <1>1, <1>2, <1>7, <3>1 DEF Digital
      <4>2. i \in 1..k
        BY <1>0, <1>7, <3>1
      <4> QED BY <1>1, <4>1, <4>2
    <3>2. CASE i > k
      <4>1. (l \o r)[i] = r[i - k] /\ i - k \in 1..(n - k) /\ k + (i - k) = i
        BY <1>0, <1>1, <1>2, <3>2 DEF Digital
      <4> QED BY <1>2, <4>1
    <3>3. i <= k \/ i > k
      BY <1>0, <1>7
    <3> QED BY <3>1, <3>2, <3>3
  <2> QED BY <2>1
<1>5. l \o r = d
  <2> DEFINE c == l \o r
  <2>1. c = [i \in 1..n |-> c[i]]
    BY <1>3, DigitsAreFunctions
  <2>2. \A i \in 1..n : c[i] = d[i]
    BY <1>4
  <2> HIDE DEF c
  <2>3. c = d
    BY <1>0, <2>1, <2>2
  <2> QED BY <2>3 DEF c
<1>6. Natural(l \o r) = Natural(l) * Power[n - k] + Natural(r)
  BY <1>1, <1>2, NaturalOfBoth
<1> QED BY <1>5, <1>6 DEF l, r, n

(* Zeros spell nothing.                                                    *)
LEMMA NaturalOfZeros ==
  ASSUME NEW d \in Digital, \A i \in 1..Len(d) : d[i] = 0
  PROVE  Natural(d) = 0
<1> DEFINE S == {n \in Nat : \A e \in Digital : Len(e) = n /\ (\A i \in 1..n : e[i] = 0) => Natural(e) = 0}
<1>1. 0 \in S /\ S \in SUBSET Nat
  <2>1. ASSUME NEW e \in Digital, Len(e) = 0 PROVE e = <<>>
    BY <2>1 DEF Digital
  <2> QED BY <2>1, NaturalOfNone
<1>2. ASSUME NEW n \in S PROVE n + 1 \in S
  <2>1. ASSUME NEW e \in Digital, Len(e) = n + 1, \A i \in 1..(n + 1) : e[i] = 0 PROVE Natural(e) = 0
    <3>1. PICK c \in Digital : Len(c) = n /\ e = Append(c, e[n + 1]) /\ e[n + 1] \in Figures
                              /\ \A i \in 1..n : c[i] = e[i]
      BY <2>1, WithoutLast
    <3>2. Natural(c) = 0
      BY <2>1, <3>1
    <3>3. Natural(e) = Natural(c) * Base + e[n + 1]
      BY <3>1, NaturalOfMore
    <3> QED BY <2>1, <3>2, <3>3, BaseAssumption
  <2> QED BY <2>1
<1> HIDE DEF S
<1>3. S = Nat
  BY <1>1, <1>2, SetInduction
<1>4. Len(d) \in Nat
  BY DEF Digital
<1> QED BY <1>3, <1>4 DEF S

(* The last digit is what is left over from a multiple of the base.        *)
LEMMA NaturalLast ==
  ASSUME NEW d \in Digital, Len(d) # 0
  PROVE  d[Len(d)] \in Figures /\ \E q \in Nat : Natural(d) = q * Base + d[Len(d)]
<1>1. Len(d) \in Nat /\ Len(d) - 1 \in Nat /\ Len(d) = (Len(d) - 1) + 1
  BY DEF Digital
<1>2. PICK e \in Digital : d = Append(e, d[(Len(d) - 1) + 1]) /\ d[(Len(d) - 1) + 1] \in Figures
  BY <1>1, WithoutLast
<1> DEFINE x == d[Len(d)]
<1>3. d = Append(e, x) /\ x \in Figures
  BY <1>1, <1>2
<1> HIDE DEF x
<1>4. Natural(d) = Natural(e) * Base + x /\ Natural(e) \in Nat
  BY <1>3, NaturalOfMore, NaturalBound
<1> QED BY <1>3, <1>4 DEF x

(* The first digits of a sequence.                                         *)
LEMMA Beginning ==
  ASSUME NEW d \in Digital, NEW k \in 0..Len(d)
  PROVE  SubSeq(d, 1, k) \in Digital /\ Len(SubSeq(d, 1, k)) = k
         /\ \A i \in 1..k : SubSeq(d, 1, k)[i] = d[i]
<1>1. Len(d) \in Nat /\ k \in Nat
  BY DEF Digital
<1>2. 1 \in 1..(Len(d) + 1) /\ k \in (1 - 1)..Len(d) /\ k - 1 + 1 = k /\ \A i \in 1..k : 1 + i - 1 = i
  BY <1>1
<1> DEFINE e == SubSeq(d, 1, k)
<1>3. e \in Digital /\ Len(e) = k - 1 + 1 /\ \A i \in 1..(k - 1 + 1) : e[i] = d[1 + i - 1]
  BY <1>2, PartOfDigits
<1> HIDE DEF e
<1>4. e \in Digital /\ Len(e) = k /\ \A i \in 1..k : e[i] = d[i]
  BY <1>2, <1>3
<1> QED BY <1>4 DEF e

(* The digits from one place on.                                           *)
LEMMA Rest ==
  ASSUME NEW d \in Digital, NEW k \in 0..Len(d)
  PROVE  SubSeq(d, k + 1, Len(d)) \in Digital /\ Len(SubSeq(d, k + 1, Len(d))) = Len(d) - k
         /\ \A i \in 1..(Len(d) - k) : SubSeq(d, k + 1, Len(d))[i] = d[k + i]
<1>1. Len(d) \in Nat /\ k \in Nat
  BY DEF Digital
<1> DEFINE n == Len(d)
<1>2. k + 1 \in 1..(n + 1) /\ n \in ((k + 1) - 1)..n /\ n - (k + 1) + 1 = n - k
      /\ \A i \in 1..(n - k) : (k + 1) + i - 1 = k + i
  BY <1>1
<1> DEFINE e == SubSeq(d, k + 1, n)
<1>3. e \in Digital /\ Len(e) = n - (k + 1) + 1 /\ \A i \in 1..(n - (k + 1) + 1) : e[i] = d[(k + 1) + i - 1]
  BY <1>2, PartOfDigits
<1> HIDE DEF e
<1>4. e \in Digital /\ Len(e) = n - k /\ \A i \in 1..(n - k) : e[i] = d[k + i]
  BY <1>2, <1>3
<1> QED BY <1>4 DEF e

(* Without a zero in front, it is no less than the power that the first    *)
(* digit stands for.                                                       *)
LEMMA NaturalLead ==
  ASSUME NEW d \in Digital, Len(d) # 0, d[1] # 0
  PROVE  Len(d) - 1 \in Nat /\ Power[Len(d) - 1] <= Natural(d)
<1> DEFINE b == SubSeq(d, 1, 1)
           r == SubSeq(d, 1 + 1, Len(d))
           n == Len(d)
<1>1. n \in Nat /\ 1 \in 0..n /\ n - 1 \in Nat
  BY DEF Digital
<1>2. b \in Digital /\ Len(b) = 1 /\ b[1] = d[1] /\ r \in Digital
  BY <1>1, Beginning, Rest
<1>3. Natural(d) = Natural(b) * Power[n - 1] + Natural(r)
  BY <1>1, NaturalCut
<1> HIDE DEF b, r, n
<1>4. PICK q \in Nat : Natural(b) = q * Base + b[1] /\ b[1] \in Figures
  <2>1. b[Len(b)] \in Figures /\ \E q \in Nat : Natural(b) = q * Base + b[Len(b)]
    <3>1. b \in Digital /\ Len(b) # 0
      BY <1>2
    <3> QED BY <3>1, NaturalLast, Zenon
  <2> QED BY <1>2, <2>1
<1>5. Natural(b) >= 1 /\ Natural(b) \in Nat /\ Natural(r) \in Nat
  <2>1. q * Base \in Nat /\ b[1] \in Nat /\ b[1] # 0
    BY <1>2, <1>4, BaseAssumption DEF Figures
  <2>2. Natural(r) \in Nat
    BY <1>2, NaturalBound
  <2> QED BY <1>4, <2>1, <2>2
<1>6. Power[n - 1] \in Nat
  BY <1>1, Powers
<1>7. 1 * Power[n - 1] <= Natural(b) * Power[n - 1]
  BY <1>5, <1>6, ProductsGrow
<1>8. Natural(b) * Power[n - 1] \in Nat
  BY <1>5, <1>6
<1>9. Power[n - 1] <= Natural(d)
  BY <1>3, <1>5, <1>6, <1>7, <1>8
<1> QED BY <1>1, <1>9 DEF n

(* The first place at which digits differ tells their numbers apart.       *)
LEMMA NaturalCompares ==
  ASSUME NEW a \in Digital, NEW b \in Digital, Len(a) = Len(b),
         NEW i \in 1..Len(a), \A j \in 1..(i - 1) : a[j] = b[j], a[i] < b[i]
  PROVE  Natural(a) < Natural(b)
<1> DEFINE n  == Len(a)
           la == SubSeq(a, 1, i)
           lb == SubSeq(b, 1, i)
           ra == SubSeq(a, i + 1, Len(a))
           rb == SubSeq(b, i + 1, Len(b))
<1>1. n \in Nat /\ i \in 0..n /\ i \in Nat /\ i - 1 \in Nat /\ n - i \in Nat /\ i = (i - 1) + 1 /\ i # 0
  BY DEF Digital
<1>2. /\ la \in Digital /\ Len(la) = i /\ \A j \in 1..i : la[j] = a[j]
      /\ lb \in Digital /\ Len(lb) = i /\ \A j \in 1..i : lb[j] = b[j]
  BY <1>1, Beginning
<1>3. ra \in Digital /\ Len(ra) = n - i /\ rb \in Digital /\ Len(rb) = n - i
  BY <1>1, Rest
<1>4. /\ Natural(a) = Natural(la) * Power[n - i] + Natural(ra)
      /\ Natural(b) = Natural(lb) * Power[n - i] + Natural(rb)
  BY <1>1, NaturalCut
<1> HIDE DEF n, la, lb, ra, rb
<1> DEFINE h == i - 1
<1>5. h \in Nat /\ i = h + 1
  BY <1>1
<1> HIDE DEF h
<1>6. PICK ca \in Digital : Len(ca) = h /\ la = Append(ca, la[h + 1]) /\ la[h + 1] \in Figures
                            /\ \A j \in 1..h : ca[j] = la[j]
  <2>1. Len(la) = h + 1 /\ la \in Digital
    BY <1>2, <1>5
  <2> QED BY <1>5, <2>1, WithoutLast
<1>7. PICK cb \in Digital : Len(cb) = h /\ lb = Append(cb, lb[h + 1]) /\ lb[h + 1] \in Figures
                            /\ \A j \in 1..h : cb[j] = lb[j]
  <2>1. Len(lb) = h + 1 /\ lb \in Digital
    BY <1>2, <1>5
  <2> QED BY <1>5, <2>1, WithoutLast
<1>8. ca = cb
  <2>1. ca = [j \in 1..h |-> ca[j]] /\ cb = [j \in 1..h |-> cb[j]]
    BY <1>6, <1>7, DigitsAreFunctions
  <2>2. ASSUME NEW j \in 1..h PROVE ca[j] = cb[j]
    <3>1. j \in 1..i /\ j \in 1..(i - 1)
      BY <1>5
    <3> QED BY <1>2, <1>6, <1>7, <3>1
  <2> QED BY <2>1, <2>2
<1> DEFINE x == la[h + 1]
           y == lb[h + 1]
<1>9. x \in Figures /\ y \in Figures /\ la = Append(ca, x) /\ lb = Append(ca, y)
  BY <1>6, <1>7, <1>8
<1>10. x < y
  <2>1. i \in 1..i
    BY <1>1
  <2> QED BY <1>2, <1>5, <2>1
<1> HIDE DEF x, y
<1>11. Natural(la) = Natural(ca) * Base + x /\ Natural(lb) = Natural(ca) * Base + y
  BY <1>9, NaturalOfMore
<1>12. Natural(la) < Natural(lb)
  <2>1. Natural(ca) * Base \in Nat /\ x \in Nat /\ y \in Nat
    <3>1. Natural(ca) \in Nat
      BY NaturalBound
    <3> QED BY <1>9, <3>1, BaseAssumption DEF Figures
  <2> QED BY <1>10, <1>11, <2>1
<1>13. /\ Natural(la) \in Nat /\ Natural(lb) \in Nat /\ Natural(rb) \in Nat
       /\ Natural(ra) \in Nat /\ Natural(ra) < Power[n - i]
  BY <1>2, <1>3, NaturalBound
<1>14. Power[n - i] \in Nat
  BY <1>1, Powers
<1>15. Natural(la) * Power[n - i] + Power[n - i] <= Natural(lb) * Power[n - i]
       /\ Natural(la) * Power[n - i] \in Nat /\ Natural(lb) * Power[n - i] \in Nat
  BY <1>12, <1>13, <1>14, ProductsGrow
<1> DEFINE X == Natural(la) * Power[n - i]
           Y == Natural(lb) * Power[n - i]
<1>16. /\ X \in Nat /\ Y \in Nat /\ X + Power[n - i] <= Y
       /\ Natural(a) = X + Natural(ra) /\ Natural(b) = Y + Natural(rb)
  BY <1>4, <1>15
<1> HIDE DEF X, Y
<1> QED BY <1>13, <1>14, <1>16

(* Digits of the same length that spell the same number are the same.      *)
LEMMA NaturalUnique ==
  ASSUME NEW a \in Digital, NEW b \in Digital, Len(a) = Len(b), Natural(a) = Natural(b)
  PROVE  a = b
<1> DEFINE S == {j \in 1..Len(a) : a[j] # b[j]}
<1>1. CASE S = {}
  <2>1. a = [j \in 1..Len(a) |-> a[j]] /\ b = [j \in 1..Len(a) |-> b[j]]
    BY DigitsAreFunctions
  <2> QED BY <1>1, <2>1
<1>2. CASE S # {}
  <2>1. Len(a) \in Nat /\ S \in SUBSET Nat
    BY DEF Digital
  <2>2. PICK i \in S : \A j \in S : i <= j
    BY <1>2, <2>1, LeastNatural
  <2>3. i \in 1..Len(a) /\ a[i] # b[i] /\ i \in Nat
    BY <2>1, <2>2
  <2>4. \A j \in 1..(i - 1) : a[j] = b[j]
    <3>1. ASSUME NEW j \in 1..(i - 1), a[j] # b[j] PROVE FALSE
      <4>1. j \in 1..Len(a) /\ ~ (i <= j)
        BY <2>1, <2>3
      <4> QED BY <2>2, <3>1, <4>1
    <3> QED BY <3>1
  <2>5. a[i] \in Nat /\ b[i] \in Nat
    <3>1. a[i] \in Figures /\ b[i] \in Figures
      BY <2>3 DEF Digital
    <3> QED BY <3>1, BaseAssumption DEF Figures
  <2>6. Natural(a) \in Nat /\ Natural(b) \in Nat
    BY NaturalBound
  <2> HIDE DEF S
  <2>7. CASE a[i] < b[i]
    <3>1. Natural(a) < Natural(b)
      BY <2>3, <2>4, <2>7, NaturalCompares
    <3> QED BY <2>6, <3>1
  <2>8. CASE b[i] < a[i]
    <3>1. i \in 1..Len(b) /\ \A j \in 1..(i - 1) : b[j] = a[j]
      BY <2>3, <2>4
    <3>2. Natural(b) < Natural(a)
      BY <2>8, <3>1, NaturalCompares
    <3> QED BY <2>6, <3>2
  <2> QED BY <2>3, <2>5, <2>7, <2>8
<1> QED BY <1>1, <1>2

(* Zeros at either end may be left out, if those at the end are accounted  *)
(* for by a power of the base.                                             *)
LEMMA NaturalTrimmed ==
  ASSUME NEW d \in Digital, NEW f \in 1..Len(d), NEW l \in f..Len(d),
         \A i \in 1..(f - 1) : d[i] = 0, \A i \in (l + 1)..Len(d) : d[i] = 0
  PROVE  /\ SubSeq(d, f, l) \in Digital /\ Len(SubSeq(d, f, l)) = l - f + 1
         /\ \A i \in 1..(l - f + 1) : SubSeq(d, f, l)[i] = d[f + i - 1]
         /\ Len(d) - l \in Nat /\ Natural(d) = Natural(SubSeq(d, f, l)) * Power[Len(d) - l]
<1> DEFINE n == Len(d)
           e == SubSeq(d, 1, l)
           z == SubSeq(d, l + 1, Len(d))
           m == SubSeq(d, f, l)
           y == SubSeq(e, 1, f - 1)
           w == SubSeq(e, (f - 1) + 1, Len(e))
<1>1. n \in Nat /\ l \in 0..n /\ n - l \in Nat /\ f - 1 \in 0..l /\ l \in Nat /\ f \in Nat
      /\ f \in 1..(n + 1) /\ l \in (f - 1)..n
  BY DEF Digital
<1>2. m \in Digital /\ Len(m) = l - f + 1 /\ \A i \in 1..(l - f + 1) : m[i] = d[f + i - 1]
  BY <1>1, PartOfDigits
<1>3. e \in Digital /\ Len(e) = l /\ \A i \in 1..l : e[i] = d[i]
  BY <1>1, Beginning
<1>4. z \in Digital /\ Len(z) = n - l /\ \A i \in 1..(n - l) : z[i] = d[l + i]
  BY <1>1, Rest
<1>5. Natural(d) = Natural(e) * Power[n - l] + Natural(z)
  BY <1>1, NaturalCut
<1>6. Natural(z) = 0
  <2> HIDE DEF z
  <2>1. ASSUME NEW i \in 1..Len(z) PROVE z[i] = 0
    <3>1. i \in 1..(n - l) /\ l + i \in (l + 1)..Len(d)
      BY <1>1, <1>4
    <3> QED BY <1>4, <3>1
  <2> QED BY <1>4, <2>1, NaturalOfZeros
<1> HIDE DEF e, z, m, n
<1>7. y \in Digital /\ Len(y) = f - 1 /\ \A i \in 1..(f - 1) : y[i] = e[i]
  BY <1>1, <1>3, Beginning
<1>8. w \in Digital /\ Len(w) = l - (f - 1) /\ \A i \in 1..(l - (f - 1)) : w[i] = e[(f - 1) + i]
  BY <1>1, <1>3, Rest
<1>9. Natural(e) = Natural(y) * Power[l - (f - 1)] + Natural(w)
  BY <1>1, <1>3, NaturalCut
<1>10. Natural(y) = 0
  <2> HIDE DEF y
  <2>1. ASSUME NEW i \in 1..Len(y) PROVE y[i] = 0
    <3>1. i \in 1..(f - 1) /\ i \in 1..l
      BY <1>1, <1>7
    <3> QED BY <1>3, <1>7, <3>1
  <2> QED BY <1>7, <2>1, NaturalOfZeros
<1> HIDE DEF y, w
<1>11. w = m
  <2>1. l - (f - 1) = l - f + 1
    BY <1>1
  <2>2. w = [i \in 1..(l - f + 1) |-> w[i]] /\ m = [i \in 1..(l - f + 1) |-> m[i]]
    <3>1. w = [i \in 1..Len(w) |-> w[i]] /\ m = [i \in 1..Len(m) |-> m[i]]
      BY <1>2, <1>8, DigitsAreFunctions
    <3> QED BY <1>2, <1>8, <2>1, <3>1
  <2>3. ASSUME NEW i \in 1..(l - f + 1) PROVE w[i] = m[i]
    <3>1. (f - 1) + i \in 1..l /\ (f - 1) + i = f + i - 1
      BY <1>1
    <3> QED BY <1>2, <1>3, <1>8, <2>1, <3>1
  <2> QED BY <2>2, <2>3
<1>12. Natural(e) = Natural(m)
  <2>1. Power[l - (f - 1)] \in Nat /\ Natural(m) \in Nat
    <3>1. l - (f - 1) \in Nat
      BY <1>1
    <3> QED BY <1>2, <3>1, NaturalBound, Powers
  <2> QED BY <1>9, <1>10, <1>11, <2>1
<1>13. Natural(d) = Natural(m) * Power[n - l]
  <2>1. Power[n - l] \in Nat /\ Natural(m) \in Nat
    BY <1>1, <1>2, NaturalBound, Powers
  <2> QED BY <1>5, <1>6, <1>12, <2>1
<1> QED BY <1>1, <1>2, <1>13 DEF m, n

-------------------------------------------------------------------------------
(* Tokens and normal forms.                                                *)
Numbers == Tokens \cup Bounds

(* What the parts of a token are.                                          *)
LEMMA TokenFacts ==
  ASSUME NEW token \in Numbers
  PROVE  /\ Digits(token) \in Digital /\ Len(Digits(token)) \in Nat
         /\ Scale(token) \in Int /\ Scale(token) + Places \in Nat
         /\ token.negative \in BOOLEAN
         /\ Power[Scale(token) + Places] \in Nat /\ Power[Scale(token) + Places] > 0
         /\ Natural(Digits(token)) \in Nat
<1>1. /\ token.negative \in BOOLEAN /\ token.exponent \in Int
      /\ token.whole \in Digital /\ token.fraction \in Digital /\ Scale(token) + Places >= 0
  BY TokensAssumption DEF Numbers, Digital, Figures
<1>2. Digits(token) \in Digital
  BY <1>1, NaturalOfBoth DEF Digits
<1>3. Scale(token) \in Int
  <2>1. Len(token.fraction) \in Nat
    BY <1>1, NaturalBound
  <2> QED BY <1>1, <2>1 DEF Scale
<1>4. Scale(token) + Places \in Nat
  BY <1>1, <1>3, LimitsAssumption
<1> QED BY <1>1, <1>2, <1>3, <1>4, NaturalBound, Powers

(* The first and the last digit that is not zero.                          *)
First(d) == SelectInSeq(d, NonZero)
Final(d) == SelectLastInSeq(d, NonZero)

(* They are found where there is one, with nothing but zeros outside.      *)
Selected(d) ==
  /\ First(d) \in 1..Len(d) /\ Final(d) \in First(d)..Len(d)
  /\ d[First(d)] # 0 /\ d[Final(d)] # 0
  /\ \A i \in 1..(First(d) - 1) : d[i] = 0
  /\ \A i \in (Final(d) + 1)..Len(d) : d[i] = 0

(* A number is zero, or it has a first and a last digit that is not.       *)
LEMMA SelectedFacts ==
  ASSUME NEW d \in Digital
  PROVE  \/ First(d) = 0 /\ Final(d) = 0 /\ Natural(d) = 0 /\ \A i \in 1..Len(d) : d[i] = 0
         \/ First(d) # 0 /\ Final(d) # 0 /\ Selected(d)
<1> DEFINE I == {i \in 1..Len(d) : d[i] # 0}
<1>1. First(d) = (IF I # {} THEN Min(I) ELSE 0) /\ Final(d) = (IF I # {} THEN Max(I) ELSE 0)
  BY DEF First, Final, SelectInSeq, SelectLastInSeq, NonZero
<1>2. Len(d) \in Nat /\ I \in SUBSET Nat /\ I \in SUBSET (0..Len(d))
  BY DEF Digital
<1>3. CASE I = {}
  <2>1. \A i \in 1..Len(d) : d[i] = 0
    BY <1>3
  <2> QED BY <1>1, <1>3, <2>1, NaturalOfZeros
<1>4. CASE I # {}
  <2> DEFINE f == First(d)
             l == Final(d)
  <2>1. f \in I /\ \A k \in I : f <= k
    <3> HIDE DEF I
    <3> QED BY <1>1, <1>2, <1>4, MinFacts
  <2>2. l \in I /\ \A k \in I : l >= k
    <3> HIDE DEF I
    <3> QED BY <1>1, <1>2, <1>4, MaxFacts
  <2> HIDE DEF f, l
  <2>3. f \in 1..Len(d) /\ l \in f..Len(d) /\ d[f] # 0 /\ d[l] # 0 /\ f # 0 /\ l # 0
    <3>1. f \in 1..Len(d) /\ d[f] # 0 /\ l \in 1..Len(d) /\ d[l] # 0
      BY <2>1, <2>2
    <3>2. f <= l
      <4> HIDE DEF I
      <4> QED BY <2>1, <2>2
    <3> QED BY <1>2, <3>1, <3>2
  <2>4. ASSUME NEW i \in 1..(f - 1), d[i] # 0 PROVE FALSE
    <3>1. i \in 1..Len(d) /\ ~ (f <= i)
      BY <1>2, <2>3
    <3> QED BY <2>1, <2>4, <3>1
  <2>5. ASSUME NEW i \in (l + 1)..Len(d), d[i] # 0 PROVE FALSE
    <3>1. i \in 1..Len(d) /\ ~ (l >= i)
      BY <1>2, <2>3
    <3> QED BY <2>2, <2>5, <3>1
  <2> QED BY <2>3, <2>4, <2>5 DEF Selected, f, l
<1> QED BY <1>3, <1>4

(* A number in normal form, and its size in the smallest unit.             *)
Normal(n) ==
  /\ n = [negative |-> n.negative, digits |-> n.digits, scale |-> n.scale]
  /\ n.negative \in BOOLEAN /\ n.digits \in Digital /\ n.scale \in Int /\ n.scale + Places \in Nat
  /\ Len(n.digits) \in Nat /\ Len(n.digits) # 0
  /\ \/ n = NormalZero
     \/ n.digits[1] # 0 /\ n.digits[Len(n.digits)] # 0

SizeOf(n) == Natural(n.digits) * Power[n.scale + Places]

(* Zero is in normal form.                                                 *)
LEMMA ZeroFacts == <<0>> \in Digital /\ Natural(<<0>>) = 0 /\ SizeOf(NormalZero) = 0 /\ Normal(NormalZero)
<1>1. <<0>> \in Digital
  <2>1. 0 \in Figures
    BY BaseAssumption DEF Figures
  <2> QED BY <2>1 DEF Digital
<1>2. Natural(<<0>>) = 0
  <2>1. \A i \in 1..Len(<<0>>) : <<0>>[i] = 0
    OBVIOUS
  <2> QED BY <1>1, <2>1, NaturalOfZeros
<1>3. Places \in Nat /\ 0 + Places = Places
  BY LimitsAssumption
<1>4. SizeOf(NormalZero) = 0
  <2>1. SizeOf(NormalZero) = 0 * Power[0 + Places]
    BY <1>2 DEF SizeOf, NormalZero
  <2> QED BY <1>3, <2>1, Powers
<1>5. Normal(NormalZero)
  <2> DEFINE z == NormalZero
  <2>1. z.negative = FALSE /\ z.digits = <<0>> /\ z.scale = 0
    BY DEF NormalZero
  <2>2. z = [negative |-> z.negative, digits |-> z.digits, scale |-> z.scale]
    BY DEF NormalZero
  <2>3. z = NormalZero
    OBVIOUS
  <2>4. Len(<<0>>) = 1
    OBVIOUS
  <2> HIDE DEF z
  <2>5. z.negative \in BOOLEAN
    BY <2>1
  <2>6. z.digits \in Digital
    BY <1>1, <2>1
  <2>7. z.scale \in Int /\ z.scale + Places \in Nat
    BY <1>3, <2>1
  <2>8. Len(z.digits) \in Nat /\ Len(z.digits) # 0
    BY <2>1, <2>4
  <2>9. Normal(z)
    BY <2>2, <2>3, <2>5, <2>6, <2>7, <2>8 DEF Normal
  <2> QED BY <2>3, <2>9
<1> QED BY <1>1, <1>2, <1>4, <1>5

(* Zero has one normal form, and every other number is at least the unit   *)
(* of its first digit.                                                     *)
LEMMA NormalFacts ==
  ASSUME NEW n, Normal(n)
  PROVE  /\ IsZero(n) <=> n = NormalZero
         /\ SizeOf(n) \in Nat /\ (IsZero(n) <=> SizeOf(n) = 0)
         /\ ~ IsZero(n) => n.digits[1] # 0 /\ n.digits[Len(n.digits)] # 0 /\ Natural(n.digits) > 0
<1>1. Natural(n.digits) \in Nat /\ Power[n.scale + Places] \in Nat /\ Power[n.scale + Places] > 0
  BY NaturalBound, Powers DEF Normal
<1>2. SizeOf(n) \in Nat
  BY <1>1 DEF SizeOf
<1>3. CASE n = NormalZero
  <2>1. IsZero(n)
    BY <1>3 DEF IsZero, NormalZero
  <2> QED BY <1>2, <1>3, <2>1, ZeroFacts
<1>4. CASE n # NormalZero
  <2>1. n.digits[1] # 0 /\ n.digits[Len(n.digits)] # 0 /\ Len(n.digits) # 0 /\ n.digits \in Digital
    BY <1>4 DEF Normal
  <2>2. ~ IsZero(n)
    <3>1. <<0>>[1] = 0
      OBVIOUS
    <3> QED BY <2>1, <3>1 DEF IsZero
  <2>3. Natural(n.digits) > 0
    <3>1. Len(n.digits) - 1 \in Nat /\ Power[Len(n.digits) - 1] <= Natural(n.digits)
      BY <2>1, NaturalLead
    <3>2. Power[Len(n.digits) - 1] \in Nat /\ Power[Len(n.digits) - 1] > 0
      BY <3>1, Powers
    <3> QED BY <1>1, <3>1, <3>2
  <2>4. SizeOf(n) # 0
    BY <1>1, <2>3 DEF SizeOf
  <2> QED BY <1>2, <1>4, <2>1, <2>2, <2>3, <2>4
<1> QED BY <1>3, <1>4

(* exactNumber normalises: the same number, in normal form.                *)
LEMMA Normalised ==
  ASSUME NEW token \in Numbers, NEW n, n = exactNumber(token)
  PROVE  /\ Normal(n)
         /\ Units(token) = IF n.negative THEN - SizeOf(n) ELSE SizeOf(n)
         /\ First(Digits(token)) = 0 => n = NormalZero
         /\ First(Digits(token)) # 0 =>
              ~ IsZero(n) /\ n.scale = Scale(token) + (Len(Digits(token)) - Final(Digits(token)))
<1> DEFINE d == Digits(token)
           s == Scale(token)
           f == First(d)
           l == Final(d)
           m == SubSeq(d, f, l)
<1>1. /\ d \in Digital /\ Len(d) \in Nat /\ s \in Int /\ s + Places \in Nat
      /\ token.negative \in BOOLEAN /\ Natural(d) \in Nat
      /\ Power[s + Places] \in Nat /\ Power[s + Places] > 0
  BY TokenFacts
<1>2. n = IF l = 0 THEN NormalZero
          ELSE [negative |-> token.negative, digits |-> m, scale |-> s + (Len(d) - l)]
  BY DEF exactNumber, First, Final
<1>3. Units(token) = IF token.negative THEN - (Natural(d) * Power[s + Places]) ELSE Natural(d) * Power[s + Places]
  BY DEF Units
<1> HIDE DEF d, s, f, l, m
<1>4. \/ f = 0 /\ l = 0 /\ Natural(d) = 0
      \/ f # 0 /\ l # 0 /\ Selected(d)
  BY <1>1, SelectedFacts DEF f, l
<1>5. CASE l = 0
  <2>1. n = NormalZero /\ Natural(d) = 0 /\ f = 0
    BY <1>2, <1>4, <1>5
  <2>2. Units(token) = 0
    <3>1. Natural(d) * Power[s + Places] = 0
      BY <1>1, <2>1
    <3> QED BY <1>3, <3>1
  <2>3. SizeOf(n) = 0 /\ Normal(n)
    BY <2>1, ZeroFacts
  <2>4. Units(token) = IF n.negative THEN - SizeOf(n) ELSE SizeOf(n)
    <3>1. n.negative = FALSE
      BY <2>1 DEF NormalZero
    <3> QED BY <2>2, <2>3, <3>1
  <2>5. First(Digits(token)) = 0
    BY <2>1 DEF f, d
  <2> QED BY <2>1, <2>3, <2>4, <2>5
<1>6. CASE l # 0
  <2>1. f # 0 /\ f \in 1..Len(d) /\ l \in f..Len(d) /\ d[f] # 0 /\ d[l] # 0
        /\ (\A i \in 1..(f - 1) : d[i] = 0) /\ (\A i \in (l + 1)..Len(d) : d[i] = 0)
    BY <1>4, <1>6 DEF Selected, f, l
  <2>2. /\ m \in Digital /\ Len(m) = l - f + 1
        /\ \A i \in 1..(l - f + 1) : m[i] = d[f + i - 1]
        /\ Len(d) - l \in Nat /\ Natural(d) = Natural(m) * Power[Len(d) - l]
    BY <1>1, <2>1, NaturalTrimmed DEF m
  <2>3. n.negative = token.negative /\ n.digits = m /\ n.scale = s + (Len(d) - l)
        /\ n = [negative |-> n.negative, digits |-> n.digits, scale |-> n.scale]
    BY <1>2, <1>6
  <2>4. n.scale \in Int /\ n.scale + Places \in Nat /\ n.scale + Places = (Len(d) - l) + (s + Places)
    <3>1. Places \in Int
      BY LimitsAssumption
    <3>2. l \in Int
      BY <1>1, <2>1
    <3>3. (s + (Len(d) - l)) + Places = (Len(d) - l) + (s + Places)
      BY <1>1, <3>1, <3>2
    <3>4. (Len(d) - l) + (s + Places) \in Nat /\ s + (Len(d) - l) \in Int
      BY <1>1, <2>2, <3>1
    <3> QED BY <2>3, <3>3, <3>4
  <2>5. Len(m) \in Nat /\ Len(m) # 0 /\ m[1] # 0 /\ m[Len(m)] # 0
    <3>1. Len(m) \in Nat /\ Len(m) # 0 /\ 1 \in 1..(l - f + 1) /\ Len(m) \in 1..(l - f + 1)
          /\ f + 1 - 1 = f /\ f + Len(m) - 1 = l
      BY <1>1, <2>1, <2>2
    <3> QED BY <2>1, <2>2, <3>1
  <2>6. Normal(n)
    BY <1>1, <2>2, <2>3, <2>4, <2>5 DEF Normal
  <2>7. n # NormalZero /\ ~ IsZero(n)
    <3>1. <<0>>[1] = 0
      OBVIOUS
    <3>2. ~ IsZero(n)
      BY <2>3, <2>5, <3>1 DEF IsZero
    <3> QED BY <2>6, <3>2, NormalFacts
  <2>8. Natural(d) * Power[s + Places] = SizeOf(n)
    <3>1. Power[(Len(d) - l) + (s + Places)] = Power[Len(d) - l] * Power[s + Places]
      BY <1>1, <2>2, PowersAdd
    <3>2. SizeOf(n) = Natural(m) * (Power[Len(d) - l] * Power[s + Places])
      BY <2>3, <2>4, <3>1 DEF SizeOf
    <3>3. Natural(m) \in Int /\ Power[Len(d) - l] \in Int /\ Power[s + Places] \in Int
      <4>1. Natural(m) \in Nat
        BY <2>2, NaturalBound
      <4>2. Power[Len(d) - l] \in Nat
        BY <2>2, Powers
      <4> QED BY <1>1, <4>1, <4>2
    <3>4. (Natural(m) * Power[Len(d) - l]) * Power[s + Places] = Natural(m) * (Power[Len(d) - l] * Power[s + Places])
      BY <3>3, Products
    <3> QED BY <2>2, <3>2, <3>4
  <2> QED BY <1>3, <2>1, <2>3, <2>6, <2>7, <2>8 DEF f, d, l, s
<1> QED BY <1>5, <1>6

(* A number whose last digit is not zero is no multiple of a power.        *)
LEMMA NoMultiple ==
  ASSUME NEW d \in Digital, Len(d) # 0, d[Len(d)] # 0, NEW k \in Nat, k > 0, NEW q \in Int
  PROVE  Natural(d) # q * Power[k]
<1>1. d[Len(d)] \in Figures /\ \E r \in Nat : Natural(d) = r * Base + d[Len(d)]
  BY NaturalLast, Zenon
<1>2. PICK r \in Nat : Natural(d) = r * Base + d[Len(d)]
  BY <1>1
<1> DEFINE x == d[Len(d)]
           w == q * Power[k - 1]
<1>3. x \in Nat /\ 0 < x /\ x < Base /\ Base \in Nat
  BY <1>1, BaseAssumption DEF Figures
<1>4. Natural(d) = r * Base + x
  BY <1>2
<1> HIDE DEF x
<1>5. q * Power[k] = w * Base /\ w \in Int
  <2>1. k - 1 \in Nat /\ (k - 1) + 1 = k
    OBVIOUS
  <2>2. Power[(k - 1) + 1] = Base * Power[k - 1] /\ Power[k - 1] \in Nat
    BY <2>1, Powers
  <2>3. q * (Base * Power[k - 1]) = (q * Power[k - 1]) * Base
    BY <1>3, <2>2
  <2> QED BY <2>1, <2>2, <2>3
<1> HIDE DEF w
<1>6. w * Base # r * Base + x
  <2>1. SUFFICES ASSUME w * Base = r * Base + x PROVE FALSE
    OBVIOUS
  <2>2. (w - r) * Base = x /\ w - r \in Int
    BY <1>3, <1>5, <2>1
  <2>3. ASSUME NEW z \in Int, z * Base = x PROVE FALSE
    <3>1. z >= 1 \/ z <= 0
      OBVIOUS
    <3>2. ASSUME z >= 1 PROVE z * Base >= Base
      BY <1>3, <3>2
    <3>3. ASSUME z <= 0 PROVE z * Base <= 0
      BY <1>3, <3>3
    <3> QED BY <1>3, <2>3, <3>1, <3>2, <3>3
  <2> QED BY <2>2, <2>3
<1> QED BY <1>4, <1>5, <1>6

(* Units of a number with a last digit at a place are whole if the place   *)
(* is before the point.                                                    *)
LEMMA IntegralSize ==
  ASSUME NEW d \in Digital, Len(d) # 0, d[Len(d)] # 0, NEW s \in Int, s + Places \in Nat
  PROVE  Integral(Natural(d) * Power[s + Places]) <=> s >= 0
<1>0. Places \in Nat /\ Natural(d) \in Nat
  BY LimitsAssumption, NaturalBound
<1>1. One = Power[Places] /\ One \in Nat /\ One > 0 /\ Power[s + Places] \in Nat /\ Power[s + Places] > 0
  BY <1>0, Powers DEF One
<1> DEFINE size == Natural(d) * Power[s + Places]
<1>2. size \in Int
  BY <1>0, <1>1
<1>3. Integral(size) <=> \E q \in Int : size = q * One
  <2> HIDE DEF size
  <2> QED BY <1>1, <1>2, Multiple DEF Integral
<1>4. ASSUME s >= 0 PROVE Integral(size)
  <2>1. Power[s + Places] = Power[s] * Power[Places] /\ Power[s] \in Nat
    <3>1. s \in Nat
      BY <1>4
    <3> QED BY <1>0, <3>1, PowersAdd, Powers
  <2>2. size = (Natural(d) * Power[s]) * One /\ Natural(d) * Power[s] \in Int
    BY <1>0, <1>1, <2>1
  <2> QED BY <1>3, <2>2
<1>5. ASSUME s < 0, Integral(size) PROVE FALSE
  <2> DEFINE k == s + Places
             j == Places - (s + Places)
  <2>1. k \in Nat /\ k <= Places /\ j \in Nat /\ j > 0 /\ j = Places - k
    BY <1>0, <1>5
  <2>2. One = Power[j] * Power[k] /\ Power[j] \in Nat
    BY <1>0, <1>1, <2>1, PowersGrow, Powers
  <2>3. PICK q \in Int : size = q * One
    BY <1>3, <1>5
  <2> HIDE DEF j
  <2>4. Natural(d) * Power[k] = (q * Power[j]) * Power[k]
    BY <1>1, <2>2, <2>3
  <2>5. Natural(d) = q * Power[j]
    <3>1. q * Power[j] \in Int /\ Natural(d) \in Int /\ Power[k] \in Nat /\ Power[k] > 0
      BY <1>0, <1>1, <2>2
    <3>2. ASSUME NEW a \in Int, NEW b \in Int, NEW c \in Nat, c > 0, a * c = b * c PROVE a = b
      BY <3>2
    <3> HIDE DEF k
    <3> QED BY <2>4, <3>1, <3>2
  <2> QED BY <2>1, <2>5, NoMultiple
<1> QED BY <1>4, <1>5

(* Whole negative numbers are the whole numbers' negatives.                *)
LEMMA IntegralNegated ==
  ASSUME NEW u \in Int
  PROVE  Integral(-u) <=> Integral(u)
<1>1. One \in Nat /\ One > 0
  <2>1. Places \in Nat
    BY LimitsAssumption
  <2> QED BY <2>1, Powers DEF One
<1>2. ASSUME NEW v \in Int, NEW q \in Int, v = q * One PROVE -v = (-q) * One /\ -q \in Int
  BY <1>1, <1>2
<1>3. \A v \in Int : Integral(v) <=> \E q \in Int : v = q * One
  BY <1>1, Multiple DEF Integral
<1>4. ASSUME NEW v \in Int, Integral(v) PROVE Integral(-v)
  <2>1. PICK q \in Int : v = q * One
    BY <1>3, <1>4
  <2>2. -v = (-q) * One /\ -q \in Int /\ -v \in Int
    BY <1>2, <2>1
  <2> QED BY <1>3, <2>2
<1>5. - (-u) = u /\ -u \in Int
  OBVIOUS
<1> QED BY <1>4, <1>5

(* isInteger tells whole numbers from others.                              *)
LEMMA IntegersTold ==
  ASSUME NEW token \in Numbers, NEW n, n = exactNumber(token)
  PROVE  isInteger(n) <=> Integral(Units(token))
<1>1. Normal(n) /\ Units(token) = IF n.negative THEN - SizeOf(n) ELSE SizeOf(n)
  BY Normalised
<1>2. SizeOf(n) \in Nat
  BY <1>1, NormalFacts
<1>3. Integral(Units(token)) <=> Integral(SizeOf(n))
  BY <1>1, <1>2, IntegralNegated
<1>4. CASE IsZero(n)
  <2>1. SizeOf(n) = 0
    BY <1>1, <1>4, NormalFacts
  <2>2. Integral(0)
    <3>1. One \in Nat /\ One > 0
      <4>1. Places \in Nat
        BY LimitsAssumption
      <4> QED BY <4>1, Powers DEF One
    <3> QED BY <3>1 DEF Integral
  <2> QED BY <1>3, <1>4, <2>1, <2>2 DEF isInteger
<1>5. CASE ~ IsZero(n)
  <2>1. n.digits \in Digital /\ Len(n.digits) # 0 /\ n.scale \in Int /\ n.scale + Places \in Nat
    BY <1>1 DEF Normal
  <2>2. n.digits[Len(n.digits)] # 0
    BY <1>1, <1>5, NormalFacts
  <2>3. Integral(Natural(n.digits) * Power[n.scale + Places]) <=> n.scale >= 0
    BY <2>1, <2>2, IntegralSize
  <2> QED BY <1>3, <1>5, <2>3 DEF isInteger, SizeOf
<1> QED BY <1>4, <1>5

(* Equal numbers have one normal form.                                     *)
Signed(n) == IF n.negative THEN - SizeOf(n) ELSE SizeOf(n)

(* Of two spellings without zeros at the end, neither has the lower scale. *)
LEMMA ScaleUnique ==
  ASSUME NEW n, Normal(n), ~ IsZero(n), NEW m, Normal(m), ~ IsZero(m), SizeOf(n) = SizeOf(m)
  PROVE  ~ (n.scale < m.scale)
<1>1. SUFFICES ASSUME n.scale < m.scale PROVE FALSE
  OBVIOUS
<1> DEFINE a == n.scale + Places
           b == m.scale + Places
           k == b - a
<1>2. a \in Nat /\ b \in Nat /\ k \in Nat /\ k > 0 /\ a <= b
  <2>1. n.scale \in Int /\ m.scale \in Int /\ Places \in Nat /\ a \in Nat /\ b \in Nat
    BY LimitsAssumption DEF Normal
  <2> QED BY <1>1, <2>1
<1> HIDE DEF a, b
<1>3. Power[b] = Power[k] * Power[a] /\ Power[k] \in Nat /\ Power[a] \in Nat /\ Power[a] > 0
  BY <1>2, PowersGrow, Powers
<1>4. n.digits \in Digital /\ m.digits \in Digital /\ Len(n.digits) # 0 /\ n.digits[Len(n.digits)] # 0
  BY NormalFacts DEF Normal
<1>5. Natural(n.digits) \in Nat /\ Natural(m.digits) \in Nat
  BY <1>4, NaturalBound
<1> DEFINE x == Natural(n.digits)
           y == Natural(m.digits)
<1>6. x * Power[a] = y * Power[b] /\ x \in Nat /\ y \in Nat
  BY <1>5 DEF SizeOf, a, b
<1> HIDE DEF k, x, y
<1>7. x * Power[a] = (y * Power[k]) * Power[a] /\ y * Power[k] \in Nat
  BY <1>3, <1>6
<1>8. x = y * Power[k]
  BY <1>3, <1>6, <1>7, ProductsGrow
<1>9. y \in Int
  BY <1>6
<1> QED BY <1>2, <1>4, <1>8, <1>9, NoMultiple DEF x

(* Digits without zeros at the front are no shorter than others of the     *)
(* number.                                                                 *)
LEMMA LengthUnique ==
  ASSUME NEW d \in Digital, NEW e \in Digital, Len(e) # 0, e[1] # 0, Natural(d) = Natural(e)
  PROVE  ~ (Len(d) < Len(e))
<1>1. SUFFICES ASSUME Len(d) < Len(e) PROVE FALSE
  OBVIOUS
<1>2. Len(d) \in Nat /\ Natural(d) \in Nat /\ Natural(d) < Power[Len(d)]
  BY NaturalBound
<1>3. Len(e) - 1 \in Nat /\ Power[Len(e) - 1] <= Natural(e)
  BY NaturalLead
<1>4. Len(d) <= Len(e) - 1
  <2>1. Len(e) \in Nat
    BY NaturalBound
  <2> QED BY <1>1, <1>2, <2>1
<1>5. Power[Len(d)] <= Power[Len(e) - 1]
  BY <1>2, <1>3, <1>4, PowersGrow
<1>6. Power[Len(d)] \in Nat /\ Power[Len(e) - 1] \in Nat
  BY <1>2, <1>3, Powers
<1> QED BY <1>2, <1>3, <1>5, <1>6

(* Numbers are the same exactly when their normal forms are.               *)
LEMMA NormalUnique ==
  ASSUME NEW n, Normal(n), NEW m, Normal(m)
  PROVE  n = m <=> Signed(n) = Signed(m)
<1>1. SizeOf(n) \in Nat /\ SizeOf(m) \in Nat /\ n.negative \in BOOLEAN /\ m.negative \in BOOLEAN
  BY NormalFacts DEF Normal
<1>2. SUFFICES ASSUME Signed(n) = Signed(m) PROVE n = m
  OBVIOUS
<1>3. CASE IsZero(n) \/ IsZero(m)
  <2>1. SizeOf(n) = 0 \/ SizeOf(m) = 0
    BY <1>3, NormalFacts
  <2>2. SizeOf(n) = 0 /\ SizeOf(m) = 0
    BY <1>1, <1>2, <2>1 DEF Signed
  <2> QED BY <2>2, NormalFacts
<1>4. CASE ~ IsZero(n) /\ ~ IsZero(m)
  <2>1. SizeOf(n) > 0 /\ SizeOf(m) > 0
    BY <1>1, <1>4, NormalFacts
  <2>2. SizeOf(n) = SizeOf(m) /\ n.negative = m.negative
    <3>1. n.negative <=> m.negative
      BY <1>1, <1>2, <2>1 DEF Signed
    <3>2. SizeOf(n) = SizeOf(m)
      BY <1>1, <1>2, <2>1, <3>1 DEF Signed
    <3> QED BY <1>1, <3>1, <3>2
  <2>3. n.scale = m.scale
    <3>1. n.scale \in Int /\ m.scale \in Int
      BY DEF Normal
    <3>2. ~ (n.scale < m.scale) /\ ~ (m.scale < n.scale)
      BY <1>4, <2>2, ScaleUnique
    <3> QED BY <3>1, <3>2
  <2>4. /\ n.digits \in Digital /\ Len(n.digits) # 0 /\ n.digits[1] # 0 /\ n.scale + Places \in Nat
        /\ m.digits \in Digital /\ Len(m.digits) # 0 /\ m.digits[1] # 0
    BY <1>4, NormalFacts DEF Normal
  <2>5. Natural(n.digits) = Natural(m.digits)
    <3>1. Power[n.scale + Places] \in Nat /\ Power[n.scale + Places] > 0
      BY <2>4, Powers
    <3>2. Natural(n.digits) \in Nat /\ Natural(m.digits) \in Nat
      BY <2>4, NaturalBound
    <3>3. Natural(n.digits) * Power[n.scale + Places] = Natural(m.digits) * Power[n.scale + Places]
      BY <2>2, <2>3 DEF SizeOf
    <3> QED BY <3>1, <3>2, <3>3, ProductsGrow
  <2>6. Len(n.digits) = Len(m.digits)
    <3>1. Len(n.digits) \in Nat /\ Len(m.digits) \in Nat
      BY <2>4, NaturalBound
    <3>2. ~ (Len(n.digits) < Len(m.digits)) /\ ~ (Len(m.digits) < Len(n.digits))
      BY <2>4, <2>5, LengthUnique
    <3> QED BY <3>1, <3>2
  <2>7. n.digits = m.digits
    BY <2>4, <2>5, <2>6, NaturalUnique
  <2>8. /\ n = [negative |-> n.negative, digits |-> n.digits, scale |-> n.scale]
        /\ m = [negative |-> m.negative, digits |-> m.digits, scale |-> m.scale]
    BY DEF Normal
  <2> QED BY <2>2, <2>3, <2>7, <2>8
<1> QED BY <1>3, <1>4

(* The first digit says between which powers a number lies.                *)
LEMMA SizeBetween ==
  ASSUME NEW n, Normal(n), ~ IsZero(n)
  PROVE  LET top == n.scale + Len(n.digits) + Places
         IN  /\ top - 1 \in Nat /\ top \in Nat
             /\ Power[top - 1] <= SizeOf(n) /\ SizeOf(n) < Power[top]
<1> DEFINE L   == Len(n.digits)
           k   == n.scale + Places
           top == n.scale + Len(n.digits) + Places
           d   == n.digits
<1>1. L \in Nat /\ L # 0 /\ n.scale \in Int /\ k \in Nat /\ d \in Digital /\ d[1] # 0
  BY NormalFacts DEF Normal
<1>2. Places \in Nat
  BY LimitsAssumption
<1>3. top = L + k /\ top - 1 = (L - 1) + k /\ L - 1 \in Nat /\ top \in Nat /\ top - 1 \in Nat
  <2>1. L - 1 \in Nat
    BY <1>1
  <2> DEFINE s == n.scale
  <2>2. s \in Int /\ k = s + Places /\ top = s + L + Places
    BY <1>1
  <2> HIDE DEF s, k, L, top
  <2>3. top = L + k /\ top - 1 = (L - 1) + k
    BY <1>1, <1>2, <2>2
  <2> QED BY <1>1, <2>1, <2>3
<1>4. SizeOf(n) = Natural(d) * Power[k]
  BY DEF SizeOf
<1> HIDE DEF L, k, top, d
<1>5. Natural(d) \in Nat /\ Natural(d) < Power[L] /\ Power[L - 1] <= Natural(d)
  <2>1. Natural(d) \in Nat /\ Natural(d) < Power[Len(d)]
    BY <1>1, NaturalBound
  <2>2. L = Len(d)
    BY DEF L, d
  <2>3. Power[Len(d) - 1] <= Natural(d)
    BY <1>1, <2>2, NaturalLead
  <2> QED BY <2>1, <2>2, <2>3
<1>6. Power[L] \in Nat /\ Power[L - 1] \in Nat /\ Power[k] \in Nat /\ Power[k] > 0
  BY <1>1, <1>3, Powers
<1>7. Power[top] = Power[L] * Power[k] /\ Power[top - 1] = Power[L - 1] * Power[k]
  BY <1>1, <1>3, PowersAdd
<1>8. Power[L - 1] * Power[k] <= Natural(d) * Power[k]
  BY <1>5, <1>6, ProductsGrow
<1>9. Natural(d) * Power[k] + Power[k] <= Power[L] * Power[k]
  BY <1>5, <1>6, ProductsGrow
<1>10. Natural(d) * Power[k] \in Nat /\ Power[L] * Power[k] \in Nat
  BY <1>5, <1>6
<1>11. Natural(d) * Power[k] < Power[L] * Power[k]
  <2> DEFINE x == Natural(d) * Power[k]
             y == Power[L] * Power[k]
  <2>1. x \in Nat /\ y \in Nat /\ x + Power[k] <= y
    BY <1>9, <1>10
  <2> HIDE DEF x, y
  <2>2. x < y
    BY <1>6, <2>1
  <2> QED BY <2>2 DEF x, y
<1>12. Power[top - 1] <= SizeOf(n) /\ SizeOf(n) < Power[top]
  BY <1>4, <1>7, <1>8, <1>11
<1> QED BY <1>3, <1>12 DEF top

(* The digits of a number, with zeros up to a length.                      *)
Padded(n, length) == [i \in 1..length |-> Digit(n, i)]

(* Zeros at the end and a lower scale leave the size as it is.             *)
LEMMA PaddedFacts ==
  ASSUME NEW n, Normal(n), NEW length \in Nat, Len(n.digits) <= length,
         NEW k, k = n.scale + Places - (length - Len(n.digits)), k \in Nat
  PROVE  /\ Padded(n, length) \in Digital /\ Len(Padded(n, length)) = length
         /\ SizeOf(n) = Natural(Padded(n, length)) * Power[k]
<1> DEFINE p == Padded(n, length)
           d == n.digits
           L == Len(n.digits)
<1>1. L \in Nat /\ L # 0 /\ d \in Digital /\ n.scale \in Int /\ n.scale + Places \in Nat /\ Places \in Nat
  BY LimitsAssumption DEF Normal
<1>2. \A i \in 1..L : d[i] \in Figures
  BY <1>1 DEF Digital
<1>3. 0 \in Figures
  BY BaseAssumption DEF Figures
<1>4. DOMAIN d = 1..L
  BY <1>1 DEF Digital
<1>5. \A i \in 1..length : p[i] = (IF i \in 1..L THEN d[i] ELSE 0) /\ p[i] \in Figures
  BY <1>2, <1>3, <1>4 DEF Padded, Digit
<1>6. p = [i \in 1..length |-> p[i]]
  BY DEF Padded
<1> HIDE DEF p
<1>7. p \in Digital /\ Len(p) = length
  BY <1>5, <1>6 DEF Digital
<1> HIDE DEF d, L
<1>8. L \in 1..length /\ 1 \in 1..length /\ \A i \in (L + 1)..length : p[i] = 0
  <2>1. L \in 1..length /\ 1 \in 1..length
    BY <1>1 DEF L
  <2>2. ASSUME NEW i \in (L + 1)..length PROVE p[i] = 0
    <3>1. i \in 1..length /\ i \notin 1..L
      BY <1>1
    <3> QED BY <1>5, <3>1
  <2> QED BY <2>1, <2>2
<1>9. /\ SubSeq(p, 1, L) \in Digital /\ Len(SubSeq(p, 1, L)) = L - 1 + 1
      /\ \A i \in 1..(L - 1 + 1) : SubSeq(p, 1, L)[i] = p[1 + i - 1]
      /\ length - L \in Nat /\ Natural(p) = Natural(SubSeq(p, 1, L)) * Power[length - L]
  <2>1. /\ 1 \in 1..Len(p) /\ L \in 1..Len(p)
        /\ (\A i \in 1..(1 - 1) : p[i] = 0) /\ (\A i \in (L + 1)..Len(p) : p[i] = 0)
    BY <1>7, <1>8
  <2>2. /\ SubSeq(p, 1, L) \in Digital /\ Len(SubSeq(p, 1, L)) = L - 1 + 1
        /\ \A i \in 1..(L - 1 + 1) : SubSeq(p, 1, L)[i] = p[1 + i - 1]
        /\ Len(p) - L \in Nat /\ Natural(p) = Natural(SubSeq(p, 1, L)) * Power[Len(p) - L]
    BY <1>7, <2>1, NaturalTrimmed
  <2> QED BY <1>7, <2>2
<1> DEFINE c == SubSeq(p, 1, L)
<1>10. c \in Digital /\ Len(c) = L - 1 + 1 /\ \A i \in 1..(L - 1 + 1) : c[i] = p[1 + i - 1]
  BY <1>9
<1> HIDE DEF c
<1>11. c = d
  <2>1. L - 1 + 1 = L /\ \A i \in 1..L : 1 + i - 1 = i
    BY <1>1
  <2>2. c = [i \in 1..L |-> c[i]] /\ d = [i \in 1..L |-> d[i]]
    <3>1. c = [i \in 1..Len(c) |-> c[i]] /\ d = [i \in 1..Len(d) |-> d[i]]
      BY <1>1, <1>10, DigitsAreFunctions
    <3>2. Len(c) = L /\ Len(d) = L
      BY <1>10, <2>1 DEF L, d
    <3> QED BY <3>1, <3>2
  <2>3. ASSUME NEW i \in 1..L PROVE c[i] = d[i]
    <3>1. i \in 1..length
      BY <1>1, <1>8
    <3> QED BY <1>5, <1>10, <2>1, <3>1
  <2> QED BY <2>2, <2>3
<1>12. Natural(p) = Natural(d) * Power[length - L] /\ length - L \in Nat
  BY <1>9, <1>11 DEF c
<1>13. n.scale + Places = (length - L) + k
  BY <1>1, <1>12 DEF L
<1>14. Power[n.scale + Places] = Power[length - L] * Power[k]
  BY <1>12, <1>13, PowersAdd
<1>15. SizeOf(n) = Natural(d) * (Power[length - L] * Power[k])
  BY <1>14 DEF SizeOf, d
<1>16. Natural(d) \in Int /\ Power[length - L] \in Int /\ Power[k] \in Int
  <2>1. Natural(d) \in Nat
    BY <1>1, NaturalBound
  <2>2. Power[length - L] \in Nat /\ Power[k] \in Nat
    BY <1>12, Powers
  <2> QED BY <2>1, <2>2
<1>17. SizeOf(n) = Natural(p) * Power[k]
  BY <1>12, <1>15, <1>16, Products
<1> QED BY <1>7, <1>17 DEF p

(* The greater of two lengths.                                             *)
LEMMA MaxOfTwo ==
  ASSUME NEW a \in Nat, NEW b \in Nat
  PROVE  Max({a, b}) = IF a >= b THEN a ELSE b
<1> DEFINE m == IF a >= b THEN a ELSE b
<1>1. m \in {a, b} /\ \A x \in {a, b} : m >= x
  OBVIOUS
<1>2. \A x \in {a, b} : (\A y \in {a, b} : x >= y) => x = m
  OBVIOUS
<1> QED BY <1>1, <1>2 DEF Max

(* CompareMagnitudes orders numbers by size.                               *)
LEMMA FirstPlaceTells ==
  ASSUME NEW l, Normal(l), ~ IsZero(l), NEW r, Normal(r), ~ IsZero(r),
         l.scale + Len(l.digits) < r.scale + Len(r.digits)
  PROVE  SizeOf(l) < SizeOf(r)
<1> DEFINE a == l.scale + Len(l.digits) + Places
           b == r.scale + Len(r.digits) + Places
<1>1. a - 1 \in Nat /\ a \in Nat /\ Power[a - 1] <= SizeOf(l) /\ SizeOf(l) < Power[a]
  BY SizeBetween
<1>2. b - 1 \in Nat /\ b \in Nat /\ Power[b - 1] <= SizeOf(r) /\ SizeOf(r) < Power[b]
  BY SizeBetween
<1>3. a <= b - 1
  <2>1. l.scale \in Int /\ Len(l.digits) \in Int /\ r.scale \in Int /\ Len(r.digits) \in Int /\ Places \in Int
    BY LimitsAssumption DEF Normal
  <2> QED BY <2>1
<1> HIDE DEF a, b
<1>4. Power[a] <= Power[b - 1]
  BY <1>1, <1>2, <1>3, PowersGrow
<1>5. Power[a] \in Nat /\ Power[b - 1] \in Nat /\ SizeOf(l) \in Nat /\ SizeOf(r) \in Nat
  BY <1>1, <1>2, Powers, NormalFacts
<1> QED BY <1>1, <1>2, <1>4, <1>5

(* The places where the digits of two numbers differ.                      *)
Differing(l, r) == {i \in 1..Max({Len(l.digits), Len(r.digits)}) : Digit(l, i) # Digit(r, i)}

(* Numbers whose first digits are at the same place, padded to one length. *)
LEMMA PaddedAlike ==
  ASSUME NEW l, Normal(l), NEW r, Normal(r), l.scale + Len(l.digits) = r.scale + Len(r.digits),
         NEW length, length = Max({Len(l.digits), Len(r.digits)}),
         NEW k, k = l.scale + Places - (length - Len(l.digits))
  PROVE  /\ length \in Nat /\ k \in Nat
         /\ Padded(l, length) \in Digital /\ Len(Padded(l, length)) = length
         /\ Padded(r, length) \in Digital /\ Len(Padded(r, length)) = length
         /\ SizeOf(l) = Natural(Padded(l, length)) * Power[k]
         /\ SizeOf(r) = Natural(Padded(r, length)) * Power[k]
<1> DEFINE a == Len(l.digits)
           b == Len(r.digits)
           s == l.scale
           t == r.scale
<1>1. /\ a \in Nat /\ s \in Int /\ s + Places \in Nat
      /\ b \in Nat /\ t \in Int /\ t + Places \in Nat /\ Places \in Nat
  BY LimitsAssumption DEF Normal
<1>2. length = Max({a, b}) /\ s + a = t + b /\ k = s + Places - (length - a)
  OBVIOUS
<1> HIDE DEF a, b, s, t
<1>3. length = IF a >= b THEN a ELSE b
  BY <1>1, <1>2, MaxOfTwo
<1>4. length \in Nat /\ a <= length /\ b <= length /\ k \in Nat /\ k = t + Places - (length - b)
  <2>1. ASSUME a >= b PROVE length \in Nat /\ a <= length /\ b <= length /\ k = s + Places /\ k = t + Places - (length - b)
    <3>1. length = a
      BY <1>3, <2>1
    <3> QED BY <1>1, <1>2, <2>1, <3>1
  <2>2. ASSUME a < b PROVE length \in Nat /\ a <= length /\ b <= length /\ k = t + Places /\ k = t + Places - (length - b)
    <3>1. length = b
      BY <1>1, <1>3, <2>2
    <3> QED BY <1>1, <1>2, <2>2, <3>1
  <2> QED BY <1>1, <2>1, <2>2
<1>5. /\ Padded(l, length) \in Digital /\ Len(Padded(l, length)) = length
      /\ SizeOf(l) = Natural(Padded(l, length)) * Power[k]
  BY <1>2, <1>4, PaddedFacts DEF a, s
<1>6. /\ Padded(r, length) \in Digital /\ Len(Padded(r, length)) = length
      /\ SizeOf(r) = Natural(Padded(r, length)) * Power[k]
  BY <1>4, PaddedFacts DEF b, t
<1> QED BY <1>4, <1>5, <1>6

(* Digits alike, from the same place on, are the same size.                *)
LEMMA NoPlaceDiffers ==
  ASSUME NEW l, Normal(l), NEW r, Normal(r), l.scale + Len(l.digits) = r.scale + Len(r.digits),
         Differing(l, r) = {}
  PROVE  SizeOf(l) = SizeOf(r)
<1> DEFINE length == Max({Len(l.digits), Len(r.digits)})
           k == l.scale + Places - (length - Len(l.digits))
<1>1. /\ SizeOf(l) = Natural(Padded(l, length)) * Power[k]
      /\ SizeOf(r) = Natural(Padded(r, length)) * Power[k]
  <2> HIDE DEF k, length
  <2> QED BY PaddedAlike DEF k, length
<1>2. \A i \in 1..length : Digit(l, i) = Digit(r, i)
  BY DEF Differing
<1> HIDE DEF length
<1>3. Padded(l, length) = Padded(r, length)
  BY <1>2 DEF Padded
<1> QED BY <1>1, <1>3

(* The first place that differs decides.                                   *)
LEMMA FirstDifferenceTells ==
  ASSUME NEW l, Normal(l), NEW r, Normal(r), l.scale + Len(l.digits) = r.scale + Len(r.digits),
         NEW i \in Differing(l, r), \A j \in Differing(l, r) : i <= j, Digit(l, i) < Digit(r, i)
  PROVE  SizeOf(l) < SizeOf(r)
<1> DEFINE length == Max({Len(l.digits), Len(r.digits)})
           k == l.scale + Places - (length - Len(l.digits))
           p == Padded(l, length)
           q == Padded(r, length)
<1>1. /\ length \in Nat /\ k \in Nat
      /\ p \in Digital /\ Len(p) = length /\ q \in Digital /\ Len(q) = length
      /\ SizeOf(l) = Natural(p) * Power[k] /\ SizeOf(r) = Natural(q) * Power[k]
  <2> HIDE DEF k, length
  <2> QED BY PaddedAlike DEF k, length
<1>2. Differing(l, r) = {j \in 1..length : Digit(l, j) # Digit(r, j)}
  BY DEF Differing
<1> HIDE DEF length, k
<1>3. \A j \in 1..length : p[j] = Digit(l, j) /\ q[j] = Digit(r, j)
  BY DEF Padded
<1> HIDE DEF p, q
<1>4. i \in 1..length /\ p[i] < q[i] /\ i \in Nat
  BY <1>1, <1>2, <1>3
<1>5. \A j \in 1..(i - 1) : p[j] = q[j]
  <2>1. ASSUME NEW j \in 1..(i - 1), p[j] # q[j] PROVE FALSE
    <3>1. j \in 1..length /\ ~ (i <= j)
      BY <1>1, <1>4
    <3>2. j \in Differing(l, r)
      BY <1>2, <1>3, <2>1, <3>1
    <3> QED BY <3>1, <3>2
  <2> QED BY <2>1
<1>6. Natural(p) < Natural(q)
  BY <1>1, <1>4, <1>5, NaturalCompares
<1>7. Natural(p) \in Nat /\ Natural(q) \in Nat /\ Power[k] \in Nat /\ Power[k] > 0
  BY <1>1, NaturalBound, Powers
<1>8. Natural(p) * Power[k] + Power[k] <= Natural(q) * Power[k]
      /\ Natural(p) * Power[k] \in Nat /\ Natural(q) * Power[k] \in Nat
  BY <1>6, <1>7, ProductsGrow
<1>9. SizeOf(l) + Power[k] <= SizeOf(r) /\ SizeOf(l) \in Nat /\ SizeOf(r) \in Nat
  BY <1>1, <1>8
<1> QED BY <1>7, <1>9

(* CompareMagnitudes orders numbers that are not zero by their size.       *)
LEMMA MagnitudesCompared ==
  ASSUME NEW l, Normal(l), ~ IsZero(l), NEW r, Normal(r), ~ IsZero(r)
  PROVE  CompareMagnitudes(l, r) = Order(SizeOf(l), SizeOf(r))
<1> DEFINE x == l.scale + Len(l.digits)
           y == r.scale + Len(r.digits)
           D == Differing(l, r)
<1>1. x \in Int /\ y \in Int
  BY DEF Normal
<1>2. SizeOf(l) \in Nat /\ SizeOf(r) \in Nat
  BY NormalFacts
<1>3. CompareMagnitudes(l, r) =
        IF Order(x, y) # 0 \/ D = {} THEN Order(x, y) ELSE Order(Digit(l, Min(D)), Digit(r, Min(D)))
  BY DEF CompareMagnitudes, Differing
<1>4. D \in SUBSET Nat /\ \A i \in D : Digit(l, i) # Digit(r, i)
  BY DEF Differing
<1>5. \A i : Digit(l, i) \in Nat /\ Digit(r, i) \in Nat
  <2>1. ASSUME NEW n, Normal(n), NEW i PROVE Digit(n, i) \in Nat
    <3>1. n.digits \in Digital
      BY <2>1 DEF Normal
    <3>2. ASSUME i \in DOMAIN n.digits PROVE n.digits[i] \in Figures
      BY <3>1, <3>2 DEF Digital
    <3>3. \A f \in Figures : f \in Nat
      BY BaseAssumption DEF Figures
    <3> QED BY <3>2, <3>3 DEF Digit
  <2> QED BY <2>1
<1> HIDE DEF D
<1>6. CASE x < y
  <2>1. SizeOf(l) < SizeOf(r)
    BY <1>6, FirstPlaceTells
  <2> HIDE DEF x, y
  <2> QED BY <1>1, <1>2, <1>3, <1>6, <2>1 DEF Order
<1>7. CASE x > y
  <2>1. r.scale + Len(r.digits) < l.scale + Len(l.digits)
    BY <1>1, <1>7
  <2>2. SizeOf(r) < SizeOf(l)
    BY <2>1, FirstPlaceTells
  <2> HIDE DEF x, y
  <2> QED BY <1>1, <1>2, <1>3, <1>7, <2>2 DEF Order
<1>8. CASE x = y /\ D = {}
  <2>1. SizeOf(l) = SizeOf(r)
    BY <1>8, NoPlaceDiffers DEF D
  <2> HIDE DEF x, y
  <2> QED BY <1>1, <1>2, <1>3, <1>8, <2>1 DEF Order
<1>9. CASE x = y /\ D # {}
  <2> DEFINE i == Min(D)
  <2>1. i \in D /\ \A j \in D : i <= j
    BY <1>4, <1>9, MinFacts
  <2>2. CompareMagnitudes(l, r) = Order(Digit(l, i), Digit(r, i))
    <3> HIDE DEF x, y
    <3> QED BY <1>1, <1>3, <1>9 DEF Order
  <2> HIDE DEF i
  <2>3. CASE Digit(l, i) < Digit(r, i)
    <3>1. SizeOf(l) < SizeOf(r)
      BY <1>9, <2>1, <2>3, FirstDifferenceTells DEF D
    <3> QED BY <1>2, <1>5, <2>2, <2>3, <3>1 DEF Order
  <2>4. CASE Digit(l, i) > Digit(r, i)
    <3>1. Differing(r, l) = D
      <4>1. {Len(l.digits), Len(r.digits)} = {Len(r.digits), Len(l.digits)}
        OBVIOUS
      <4> QED BY <4>1 DEF D, Differing
    <3>2. i \in Differing(r, l) /\ (\A j \in Differing(r, l) : i <= j) /\ Digit(r, i) < Digit(l, i)
      BY <1>5, <2>1, <2>4, <3>1
    <3>3. r.scale + Len(r.digits) = l.scale + Len(l.digits)
      BY <1>9
    <3>4. SizeOf(r) < SizeOf(l)
      BY <3>2, <3>3, FirstDifferenceTells
    <3> QED BY <1>2, <1>5, <2>2, <2>4, <3>4 DEF Order
  <2>5. Digit(l, i) # Digit(r, i) /\ Digit(l, i) \in Nat /\ Digit(r, i) \in Nat
    BY <1>4, <1>5, <2>1
  <2> QED BY <2>3, <2>4, <2>5
<1> QED BY <1>1, <1>6, <1>7, <1>8, <1>9

(* compareNumbers orders numbers.                                          *)
LEMMA NumbersCompared ==
  ASSUME NEW l, Normal(l), NEW r, Normal(r)
  PROVE  compareNumbers(l, r) = Order(Signed(l), Signed(r))
<1> DEFINE order == IF IsZero(l) /\ IsZero(r) THEN 0
                    ELSE IF IsZero(l) THEN -1
                    ELSE IF IsZero(r) THEN 1
                    ELSE CompareMagnitudes(l, r)
           x == SizeOf(l)
           y == SizeOf(r)
<1>1. /\ x \in Nat /\ (IsZero(l) <=> x = 0) /\ l.negative \in BOOLEAN /\ (IsZero(l) => ~ l.negative)
      /\ y \in Nat /\ (IsZero(r) <=> y = 0) /\ r.negative \in BOOLEAN /\ (IsZero(r) => ~ r.negative)
  <2>1. ASSUME NEW n, Normal(n)
        PROVE  SizeOf(n) \in Nat /\ (IsZero(n) <=> SizeOf(n) = 0) /\ n.negative \in BOOLEAN
               /\ (IsZero(n) => ~ n.negative)
    <3>1. SizeOf(n) \in Nat /\ (IsZero(n) <=> SizeOf(n) = 0) /\ (IsZero(n) => n = NormalZero)
      BY <2>1, NormalFacts
    <3>2. n.negative \in BOOLEAN
      BY <2>1 DEF Normal
    <3>3. NormalZero.negative = FALSE
      BY DEF NormalZero
    <3> QED BY <3>1, <3>2, <3>3
  <2> QED BY <2>1
<1>2. order = Order(x, y)
  <2>1. ~ IsZero(l) /\ ~ IsZero(r) => CompareMagnitudes(l, r) = Order(x, y)
    BY MagnitudesCompared
  <2> HIDE DEF x, y
  <2> QED BY <1>1, <2>1 DEF Order
<1>3. compareNumbers(l, r) =
        IF l.negative # r.negative THEN IF l.negative THEN -1 ELSE 1
        ELSE IF l.negative THEN -order ELSE order
  BY DEF compareNumbers
<1>4. Signed(l) = (IF l.negative THEN -x ELSE x) /\ Signed(r) = (IF r.negative THEN -y ELSE y)
  BY DEF Signed
<1> HIDE DEF order, x, y
<1>5. CASE l.negative /\ r.negative
  <2>1. compareNumbers(l, r) = -order /\ Signed(l) = -x /\ Signed(r) = -y
    BY <1>1, <1>3, <1>4, <1>5
  <2> QED BY <1>1, <1>2, <2>1 DEF Order
<1>6. CASE l.negative /\ ~ r.negative
  <2>1. compareNumbers(l, r) = -1 /\ Signed(l) = -x /\ Signed(r) = y
    BY <1>3, <1>4, <1>6
  <2>2. x # 0
    BY <1>1, <1>6
  <2> QED BY <1>1, <2>1, <2>2 DEF Order
<1>7. CASE ~ l.negative /\ r.negative
  <2>1. compareNumbers(l, r) = 1 /\ Signed(l) = x /\ Signed(r) = -y
    BY <1>3, <1>4, <1>7
  <2>2. y # 0
    BY <1>1, <1>7
  <2> QED BY <1>1, <2>1, <2>2 DEF Order
<1>8. CASE ~ l.negative /\ ~ r.negative
  <2>1. compareNumbers(l, r) = order /\ Signed(l) = x /\ Signed(r) = y
    BY <1>1, <1>3, <1>4, <1>8
  <2> QED BY <1>1, <1>2, <2>1 DEF Order
<1> QED BY <1>5, <1>6, <1>7, <1>8

-------------------------------------------------------------------------------
(* Shapes and what each kind of them asks for.                             *)
LEMMA ShapeKinds ==
  ASSUME NEW shape \in NumberShapes
  PROVE  \/ shape.kind = "number"
         \/ shape.kind = "integer"
         \/ shape.kind = "literal" /\ shape.value \in Bounds
         \/ shape.kind = "boundedInteger" /\ shape.minimum \in SUBSET Bounds /\ shape.maximum \in SUBSET Bounds
BY DEF NumberShapes

(* The number of units of a token is an integer.                           *)
LEMMA UnitsAreIntegers ==
  ASSUME NEW token \in Numbers
  PROVE  Units(token) \in Int
<1> DEFINE size == Natural(Digits(token)) * Power[Scale(token) + Places]
<1>1. size \in Nat /\ token.negative \in BOOLEAN
  BY TokenFacts, ProductsGrow
<1>2. Units(token) = IF token.negative THEN -size ELSE size
  BY DEF Units
<1> HIDE DEF size
<1> QED BY <1>1, <1>2

(* What the normal forms of two numbers tell of the numbers.               *)
LEMMA NormalFormsTell ==
  ASSUME NEW l \in Numbers, NEW r \in Numbers
  PROVE  /\ exactNumber(l) = exactNumber(r) <=> Units(l) = Units(r)
         /\ isInteger(exactNumber(l)) <=> Integral(Units(l))
         /\ compareNumbers(exactNumber(l), exactNumber(r)) >= 0 <=> Units(r) <= Units(l)
         /\ compareNumbers(exactNumber(l), exactNumber(r)) <= 0 <=> Units(l) <= Units(r)
         /\ compareNumbers(exactNumber(l), exactNumber(r)) \in {-1, 0, 1}
<1> DEFINE n == exactNumber(l)
           m == exactNumber(r)
<1>1. /\ Normal(n) /\ Units(l) = Signed(n)
      /\ Normal(m) /\ Units(r) = Signed(m)
  BY Normalised DEF Signed
<1>2. isInteger(n) <=> Integral(Units(l))
  BY IntegersTold
<1>3. Units(l) \in Int /\ Units(r) \in Int
  BY UnitsAreIntegers
<1> HIDE DEF n, m
<1>4. n = m <=> Units(l) = Units(r)
  BY <1>1, NormalUnique
<1>5. compareNumbers(n, m) = Order(Units(l), Units(r))
  BY <1>1, NumbersCompared
<1>6. /\ compareNumbers(n, m) >= 0 <=> Units(r) <= Units(l)
      /\ compareNumbers(n, m) <= 0 <=> Units(l) <= Units(r)
      /\ compareNumbers(n, m) \in {-1, 0, 1}
  BY <1>3, <1>5 DEF Order
<1> QED BY <1>2, <1>4, <1>6 DEF n, m

(* Go judges every number as the number it is.                             *)
LEMMA GoExact ==
  ASSUME NEW token \in Tokens, NEW shape \in NumberShapes
  PROVE  GoAccepts(token, shape) = Meets(Units(token), shape)
<1>1. token \in Numbers /\ \A b \in Bounds : b \in Numbers
  BY DEF Numbers
<1>2. CASE shape.kind = "number"
  BY <1>2 DEF GoAccepts, Meets
<1>3. CASE shape.kind = "integer"
  <2>1. isInteger(exactNumber(token)) <=> Integral(Units(token))
    BY <1>1, NormalFormsTell
  <2> QED BY <1>3, <2>1 DEF GoAccepts, Meets, isInteger, Integral
<1>4. CASE shape.kind = "literal" /\ shape.value \in Bounds
  <2>1. exactNumber(token) = exactNumber(shape.value) <=> Units(token) = Units(shape.value)
    BY <1>1, <1>4, NormalFormsTell
  <2> QED BY <1>4, <2>1 DEF GoAccepts, Meets
<1>5. CASE shape.kind = "boundedInteger" /\ shape.minimum \in SUBSET Bounds /\ shape.maximum \in SUBSET Bounds
  <2>1. isInteger(exactNumber(token)) <=> Integral(Units(token))
    BY <1>1, NormalFormsTell
  <2>2. \A b \in shape.minimum : compareNumbers(exactNumber(token), exactNumber(b)) >= 0 <=> Units(b) <= Units(token)
    BY <1>1, <1>5, NormalFormsTell
  <2>3. \A b \in shape.maximum : compareNumbers(exactNumber(token), exactNumber(b)) <= 0 <=> Units(token) <= Units(b)
    BY <1>1, <1>5, NormalFormsTell
  <2>4. GoAccepts(token, shape) =
          (/\ isInteger(exactNumber(token))
           /\ \A b \in shape.minimum : compareNumbers(exactNumber(token), exactNumber(b)) >= 0
           /\ \A b \in shape.maximum : compareNumbers(exactNumber(token), exactNumber(b)) <= 0)
    BY <1>5 DEF GoAccepts
  <2>5. Meets(Units(token), shape) =
          (/\ Integral(Units(token))
           /\ \A b \in shape.minimum : Units(b) <= Units(token)
           /\ \A b \in shape.maximum : Units(token) <= Units(b))
    BY <1>5 DEF Meets
  <2> QED BY <2>1, <2>2, <2>3, <2>4, <2>5
<1> QED BY <1>2, <1>3, <1>4, <1>5, ShapeKinds

(* Rust does too, but for numbers whose scale it has no room for.          *)
LEMMA RustExact ==
  ASSUME NEW token \in Tokens, NEW shape \in NumberShapes
  PROVE  \/ RustAccepts(token, shape) = Meets(Units(token), shape)
         \/ ~ RustAccepts(token, shape) /\ BeyondLimits("rust", token)
<1> DEFINE n == exactNumber(token)
           N == normalized_number(token)
<1>1. token \in Numbers /\ \A b \in Bounds : b \in Numbers
  BY DEF Numbers
<1>2. N = {} \/ N = {n}
  BY DEF normalized_number
<1>3. \A b \in Bounds : normalized_number(b) = {exactNumber(b)}
  BY BoundsAssumption DEF normalized_number
<1>4. BeyondLimits("rust", token) = (N = {})
  BY DEF BeyondLimits
<1>5. is_integer_number(token) = \E m \in N : isInteger(m)
  BY DEF is_integer_number
<1>6. CASE shape.kind = "number"
  BY <1>6 DEF RustAccepts, Meets
<1>7. CASE shape.kind = "integer"
  <2>1. isInteger(n) <=> Integral(Units(token))
    BY <1>1, NormalFormsTell
  <2>2. RustAccepts(token, shape) = is_integer_number(token) /\ Meets(Units(token), shape) = Integral(Units(token))
    BY <1>7 DEF RustAccepts, Meets
  <2>3. Integral(Units(token)) \in BOOLEAN /\ is_integer_number(token) \in BOOLEAN
    BY <1>5 DEF Integral
  <2> HIDE DEF n, N
  <2>4. CASE N = {}
    <3>1. ~ is_integer_number(token)
      BY <1>5, <2>4
    <3> QED BY <1>4, <2>2, <2>4, <3>1
  <2>5. CASE N = {n}
    <3>1. is_integer_number(token) <=> Integral(Units(token))
      BY <1>5, <2>1, <2>5
    <3> QED BY <2>2, <2>3, <3>1
  <2> QED BY <1>2, <2>4, <2>5
<1>8. CASE shape.kind = "literal" /\ shape.value \in Bounds
  <2> DEFINE v == shape.value
  <2>1. n = exactNumber(v) <=> Units(token) = Units(v)
    BY <1>1, <1>8, NormalFormsTell
  <2>2. RustAccepts(token, shape) = (token = v \/ N = normalized_number(v))
    BY <1>8 DEF RustAccepts, same_number
  <2>3. Meets(Units(token), shape) = (Units(token) = Units(v))
    BY <1>8 DEF Meets
  <2>4. normalized_number(v) = {exactNumber(v)}
    BY <1>3, <1>8
  <2>5. token = v => N = {n}
    BY <2>4
  <2> HIDE DEF n, N, v
  <2> QED BY <1>2, <1>4, <2>1, <2>2, <2>3, <2>4, <2>5
<1>9. CASE shape.kind = "boundedInteger" /\ shape.minimum \in SUBSET Bounds /\ shape.maximum \in SUBSET Bounds
  <2>1. isInteger(n) <=> Integral(Units(token))
    BY <1>1, NormalFormsTell
  <2>2. RustAccepts(token, shape) =
          (/\ is_integer_number(token)
           /\ \A b \in shape.minimum : compare_numbers(token, b) # {-1}
           /\ \A b \in shape.maximum : compare_numbers(token, b) # {1})
    BY <1>9 DEF RustAccepts
  <2>3. Meets(Units(token), shape) =
          (/\ Integral(Units(token))
           /\ \A b \in shape.minimum : Units(b) <= Units(token)
           /\ \A b \in shape.maximum : Units(token) <= Units(b))
    BY <1>9 DEF Meets
  <2>4. ASSUME NEW b \in Bounds, N = {n}
        PROVE  /\ compare_numbers(token, b) # {-1} <=> Units(b) <= Units(token)
               /\ compare_numbers(token, b) # {1} <=> Units(token) <= Units(b)
    <3> DEFINE c == compareNumbers(n, exactNumber(b))
    <3>1. compare_numbers(token, b) = {c}
      BY <1>3, <2>4 DEF compare_numbers
    <3>2. /\ c >= 0 <=> Units(b) <= Units(token)
          /\ c <= 0 <=> Units(token) <= Units(b)
          /\ c \in {-1, 0, 1}
      BY <1>1, NormalFormsTell
    <3> HIDE DEF c
    <3>3. {c} # {-1} <=> c >= 0
      BY <3>2
    <3>4. {c} # {1} <=> c <= 0
      BY <3>2
    <3> QED BY <3>1, <3>2, <3>3, <3>4
  <2>5. CASE N = {}
    <3>1. ~ is_integer_number(token)
      BY <1>5, <2>5
    <3> QED BY <1>4, <2>2, <2>5, <3>1
  <2>6. CASE N = {n}
    <3>1. is_integer_number(token) <=> Integral(Units(token))
      BY <1>5, <2>1, <2>6
    <3>2. \A b \in shape.minimum : compare_numbers(token, b) # {-1} <=> Units(b) <= Units(token)
      BY <1>9, <2>4, <2>6
    <3>3. \A b \in shape.maximum : compare_numbers(token, b) # {1} <=> Units(token) <= Units(b)
      BY <1>9, <2>4, <2>6
    <3> QED BY <2>2, <2>3, <3>1, <3>2, <3>3
  <2> QED BY <1>2, <2>5, <2>6
<1> QED BY <1>6, <1>7, <1>8, <1>9, ShapeKinds

(* Python's numbers are the numbers of the text, when it loads them.       *)
LEMMA PythonExact ==
  ASSUME NEW token \in Tokens, NEW shape \in NumberShapes
  PROVE  \/ PythonAccepts(token, shape) = Meets(Units(token), shape)
         \/ ~ PythonAccepts(token, shape) /\ BeyondLimits("python", token)
<1> DEFINE N == Loaded(token)
           Judged(value) ==
             CASE shape.kind = "number"  -> TRUE
               [] shape.kind = "integer" -> _is_integer(value)
               [] shape.kind = "literal" -> value = Units(shape.value)
               [] shape.kind = "boundedInteger" ->
                    /\ _is_integer(value)
                    /\ \A b \in shape.minimum : value >= Units(b)
                    /\ \A b \in shape.maximum : value <= Units(b)
<1>1. N = {} \/ N = {Units(token)}
  BY DEF Loaded
<1>2. PythonAccepts(token, shape) = \E value \in N : Judged(value)
  BY DEF PythonAccepts
<1>3. BeyondLimits("python", token) = (N = {})
  BY DEF BeyondLimits
<1>4. Judged(Units(token)) = Meets(Units(token), shape)
  <2>1. Units(token) \in Int /\ \A b \in Bounds : Units(b) \in Int
    BY UnitsAreIntegers DEF Numbers
  <2>2. CASE shape.kind = "number"
    BY <2>2 DEF Meets
  <2>3. CASE shape.kind = "integer"
    BY <2>3 DEF Meets, _is_integer
  <2>4. CASE shape.kind = "literal"
    BY <2>4 DEF Meets
  <2>5. CASE shape.kind = "boundedInteger" /\ shape.minimum \in SUBSET Bounds /\ shape.maximum \in SUBSET Bounds
    <3>1. Judged(Units(token)) =
            (/\ Integral(Units(token))
             /\ \A b \in shape.minimum : Units(token) >= Units(b)
             /\ \A b \in shape.maximum : Units(token) <= Units(b))
      BY <2>5 DEF _is_integer
    <3>2. Meets(Units(token), shape) =
            (/\ Integral(Units(token))
             /\ \A b \in shape.minimum : Units(b) <= Units(token)
             /\ \A b \in shape.maximum : Units(token) <= Units(b))
      BY <2>5 DEF Meets
    <3>3. \A b \in shape.minimum : Units(token) >= Units(b) <=> Units(b) <= Units(token)
      BY <2>1, <2>5
    <3> HIDE DEF Judged
    <3> QED BY <3>1, <3>2, <3>3
  <2> QED BY <2>2, <2>3, <2>4, <2>5, ShapeKinds
<1> HIDE DEF N, Judged
<1>5. CASE N = {}
  BY <1>2, <1>3, <1>5
<1>6. CASE N = {Units(token)}
  <2>1. PythonAccepts(token, shape) <=> Judged(Units(token))
    BY <1>2, <1>6
  <2>2. PythonAccepts(token, shape) \in BOOLEAN
    BY <1>2
  <2>3. Meets(Units(token), shape) \in BOOLEAN
    BY ShapeKinds DEF Meets, Integral
  <2> QED BY <1>4, <2>1, <2>2, <2>3
<1> QED BY <1>1, <1>5, <1>6

-------------------------------------------------------------------------------
(* The digits of an integer, as TypeScript spells it, are the number.      *)
LEMMA DigitsSpelled ==
  ASSUME NEW token \in Numbers, NEW digits \in IntegerDigits(token)
  PROVE  /\ IntegerDigits(token) = {digits} /\ Natural(digits) \in Nat
         /\ Natural(digits) * One = Natural(Digits(token)) * Power[Scale(token) + Places]
<1> DEFINE d   == Digits(token)
           s   == Scale(token)
           n   == Len(d)
           cut == Max({0, n + s})
           p   == Power[s + Places]
<1>1. d \in Digital /\ n \in Nat /\ s \in Int /\ s + Places \in Nat /\ p \in Nat /\ Places \in Nat
  BY TokenFacts, LimitsAssumption
<1>2. One = Power[Places] /\ One \in Nat
  BY LimitsAssumption, Powers DEF One
<1>3. IntegerDigits(token) =
        IF First(d) = 0 THEN {<<0>>}
        ELSE IF s >= 0 THEN {d \o [i \in 1..s |-> 0]}
        ELSE IF Final(d) <= cut THEN {SubSeq(d, 1, cut)}
        ELSE {}
  BY DEF IntegerDigits, First, Final
<1> HIDE DEF d, s, n, cut, p
<1>4. CASE First(d) = 0
  <2>1. digits = <<0>> /\ IntegerDigits(token) = {digits}
    BY <1>3, <1>4
  <2>2. Natural(d) = 0
    BY <1>1, <1>4, SelectedFacts
  <2>3. Natural(digits) = 0
    BY <2>1, ZeroFacts
  <2>4. 0 * One = 0 * p
    BY <1>1, <1>2
  <2> QED BY <2>1, <2>2, <2>3, <2>4 DEF d, s, p
<1>5. CASE First(d) # 0 /\ s >= 0
  <2> DEFINE z == [i \in 1..s |-> 0]
  <2>1. digits = d \o z /\ IntegerDigits(token) = {digits}
    BY <1>3, <1>5
  <2>2. s \in Nat
    BY <1>1, <1>5
  <2>3. z \in Digital /\ Len(z) = s /\ \A i \in 1..Len(z) : z[i] = 0
    <3>1. 0 \in Figures
      BY BaseAssumption DEF Figures
    <3> QED BY <2>2, <3>1 DEF Digital
  <2> HIDE DEF z
  <2>4. Natural(z) = 0
    BY <2>3, NaturalOfZeros
  <2>5. Natural(digits) = Natural(d) * Power[s] + 0
    BY <1>1, <2>1, <2>3, <2>4, NaturalOfBoth
  <2>6. Natural(d) \in Nat /\ Power[s] \in Nat
    BY <1>1, <2>2, NaturalBound, Powers
  <2>7. Natural(d) * Power[s] \in Nat
    BY <2>6, ProductsGrow
  <2>8. Natural(digits) = Natural(d) * Power[s] /\ Natural(digits) \in Nat
    BY <2>5, <2>7
  <2>9. p = Power[s] * One
    BY <1>1, <1>2, <2>2, PowersAdd DEF p
  <2>10. (Natural(d) * Power[s]) * One = Natural(d) * (Power[s] * One)
    BY <1>2, <2>6, Products
  <2> QED BY <2>1, <2>8, <2>9, <2>10 DEF d, s, p
<1>6. CASE First(d) # 0 /\ ~ (s >= 0) /\ Final(d) <= cut
  <2>1. digits = SubSeq(d, 1, cut) /\ IntegerDigits(token) = {digits}
    BY <1>3, <1>6
  <2>2. Final(d) \in Nat /\ Final(d) >= 1 /\ \A i \in (Final(d) + 1)..n : d[i] = 0
    <3>1. Selected(d)
      BY <1>1, <1>6, SelectedFacts
    <3>2. First(d) \in 1..n /\ Final(d) \in First(d)..n /\ \A i \in (Final(d) + 1)..n : d[i] = 0
      BY <3>1 DEF Selected, n
    <3> QED BY <1>1, <3>2
  <2>3. cut = n + s /\ cut \in 0..n /\ n - cut = -s /\ -s \in Nat
    <3>1. cut = IF 0 >= n + s THEN 0 ELSE n + s
      BY <1>1 DEF cut, Max
    <3>2. cut = n + s
      BY <1>1, <1>6, <2>2, <3>1
    <3> QED BY <1>1, <1>6, <2>2, <3>2
  <2> DEFINE r == SubSeq(d, cut + 1, Len(d))
  <2>4. cut \in 0..Len(d) /\ Len(d) - cut = -s
    BY <2>3 DEF n
  <2>5. digits \in Digital
    BY <1>1, <2>1, <2>4, Beginning
  <2>6. Natural(d) = Natural(digits) * Power[Len(d) - cut] + Natural(r)
    BY <1>1, <2>1, <2>4, NaturalCut
  <2>7. r \in Digital /\ Len(r) = n - cut /\ \A i \in 1..(n - cut) : r[i] = d[cut + i]
    BY <1>1, <2>4, Rest DEF n
  <2> HIDE DEF r
  <2>8. \A i \in 1..(n - cut) : r[i] = 0
    <3>1. ASSUME NEW i \in 1..(n - cut) PROVE r[i] = 0
      <4>1. cut + i \in (Final(d) + 1)..n
        BY <1>1, <1>6, <2>2, <2>3
      <4> QED BY <2>2, <2>7, <4>1
    <3> QED BY <3>1
  <2>9. Natural(r) = 0
    BY <2>7, <2>8, NaturalOfZeros
  <2>10. Natural(digits) \in Nat /\ Power[-s] \in Nat
    BY <2>3, <2>5, NaturalBound, Powers
  <2>11. Natural(digits) * Power[-s] \in Nat
    BY <2>10, ProductsGrow
  <2>12. Natural(d) = Natural(digits) * Power[-s]
    BY <2>4, <2>6, <2>9, <2>11
  <2>13. One = Power[-s] * p
    <3>1. (-s) + (s + Places) = Places
      BY <1>1
    <3>2. Power[(-s) + (s + Places)] = Power[-s] * Power[s + Places]
      BY <1>1, <2>3, PowersAdd
    <3> QED BY <1>2, <3>1, <3>2 DEF p
  <2>14. (Natural(digits) * Power[-s]) * p = Natural(digits) * (Power[-s] * p)
    BY <1>1, <2>10, Products
  <2> QED BY <2>1, <2>10, <2>12, <2>13, <2>14 DEF d, s, p
<1> QED BY <1>3, <1>4, <1>5, <1>6

(* The number itself is what TypeScript makes of the digits, with the sign.*)
LEMMA ValueSpelled ==
  ASSUME NEW token \in Numbers, NEW digits \in IntegerDigits(token)
  PROVE  /\ (IF token.negative THEN -Natural(digits) ELSE Natural(digits)) * One = Units(token)
         /\ Integral(Units(token))
<1> DEFINE n == Natural(digits)
           size == Natural(Digits(token)) * Power[Scale(token) + Places]
           v == IF token.negative THEN -n ELSE n
<1>1. n \in Nat /\ n * One = size
  BY DigitsSpelled
<1>2. One \in Nat /\ One > 0
  BY LimitsAssumption, Powers DEF One
<1>3. Units(token) = IF token.negative THEN -size ELSE size
  BY DEF Units
<1> HIDE DEF n, size
<1>4. (-n) * One = -(n * One)
  BY <1>1, <1>2
<1>5. v * One = Units(token) /\ v \in Int
  BY <1>1, <1>3, <1>4
<1>6. Units(token) \in Int
  BY UnitsAreIntegers
<1> HIDE DEF v
<1>7. Integral(Units(token))
  BY <1>2, <1>5, <1>6, Multiple DEF Integral
<1> QED BY <1>5, <1>7 DEF v, n

(* A number that has no such digits is a fraction.                         *)
LEMMA FractionsHaveNoDigits ==
  ASSUME NEW token \in Numbers, IntegerDigits(token) = {}
  PROVE  ~ Integral(Units(token))
<1> DEFINE d   == Digits(token)
           s   == Scale(token)
           n   == Len(d)
           cut == Max({0, n + s})
           m   == exactNumber(token)
<1>1. d \in Digital /\ n \in Nat /\ s \in Int
  BY TokenFacts
<1>2. First(d) # 0 /\ ~ (Final(d) <= cut)
  BY DEF IntegerDigits, First, Final
<1>3. ~ IsZero(m) /\ m.scale = s + (n - Final(d))
  BY <1>2, Normalised
<1>4. isInteger(m) <=> Integral(Units(token))
  BY IntegersTold
<1>5. Final(d) \in Nat
  <2>1. Selected(d)
    BY <1>1, <1>2, SelectedFacts
  <2>2. First(d) \in 1..n /\ Final(d) \in First(d)..n
    BY <2>1 DEF Selected
  <2> HIDE DEF d, n
  <2> QED BY <1>1, <2>2
<1>6. cut = IF 0 >= n + s THEN 0 ELSE n + s
  <2> HIDE DEF d, s, n
  <2> QED BY <1>1 DEF Max
<1> HIDE DEF d, s, n, cut, m
<1>7. m.scale < 0
  BY <1>1, <1>2, <1>3, <1>5, <1>6
<1>8. ~ isInteger(m)
  BY <1>1, <1>3, <1>5, <1>7 DEF isInteger
<1> QED BY <1>4, <1>8

-------------------------------------------------------------------------------
(* The place of a number's first digit, found by powers of the base.       *)
LEMMA LeadFacts ==
  ASSUME NEW top \in Nat, NEW size \in Nat, size < Power[top],
         NEW lead, lead = Max({0} \cup {k \in 0..top : Power[k] <= size})
  PROVE  /\ lead \in Nat /\ (lead = 0 \/ Power[lead] <= size) /\ size < Power[lead + 1]
<1> DEFINE K == {0} \cup {k \in 0..top : Power[k] <= size}
<1>1. K \in SUBSET (0..top) /\ K # {} /\ 0 \in K
  OBVIOUS
<1>2. lead \in K /\ \A k \in K : lead >= k
  <2> HIDE DEF K
  <2>1. lead = Max(K)
    BY DEF K
  <2> QED BY <1>1, <2>1, MaxFacts
<1>3. lead \in 0..top /\ (lead = 0 \/ Power[lead] <= size)
  BY <1>2
<1>4. lead \in Nat /\ Power[lead] \in Nat /\ Power[lead + 1] \in Nat
  BY <1>3, Powers
<1>5. CASE lead + 1 <= top
  <2>1. lead + 1 \notin K
    <3> HIDE DEF K
    <3> QED BY <1>2, <1>4
  <2>2. ~ (Power[lead + 1] <= size)
    BY <1>3, <1>5, <2>1
  <2> QED BY <1>3, <1>4, <2>2
<1>6. CASE ~ (lead + 1 <= top)
  <2>1. lead = top
    BY <1>3, <1>6
  <2>2. Power[lead] <= Power[lead + 1]
    BY <1>4, PowersGrow
  <2>3. size < Power[lead]
    BY <2>1
  <2> QED BY <1>3, <1>4, <2>2, <2>3
<1> QED BY <1>5, <1>6

(* What is exact, and what is rounded, at the unit of the last place.      *)
Rounded(size, ulp) ==
  LET below == (size \div ulp) * ulp
  IN  IF 2 * (size - below) > ulp THEN below + ulp ELSE below

(* It is a multiple of the unit, the number itself if that is one, and no  *)
(* less than a multiple that the number reaches.                           *)
LEMMA Rounding ==
  ASSUME NEW size \in Nat, NEW ulp \in Nat, ulp > 0,
         NEW near, near = Rounded(size, ulp)
  PROVE  /\ \E q \in Nat : near = q * ulp
         /\ \A q \in Nat : size = q * ulp => near = size
         /\ \A q \in Nat : q * ulp <= size => q * ulp <= near
<1> DEFINE a == size \div ulp
           r == size % ulp
           w == a * ulp
<1>1. a \in Nat /\ r \in 0..(ulp - 1) /\ size = w + r
  BY Division
<1>2. w \in Nat
  BY <1>1, ProductsGrow
<1>3. near = IF 2 * (size - w) > ulp THEN w + ulp ELSE w
  BY DEF Rounded
<1>4. (a + 1) * ulp = w + ulp
  <2>1. (a + 1) * ulp = a * ulp + 1 * ulp
    <3> HIDE DEF a
    <3> QED BY <1>1, Products
  <2> QED BY <2>1
<1>5. \A q \in Nat : q * ulp <= size => q <= a
  <2>1. ASSUME NEW q \in Nat, q * ulp <= size, ~ (q <= a) PROVE FALSE
    <3> HIDE DEF a, r
    <3>1. a + 1 <= q /\ a + 1 \in Nat
      BY <1>1, <2>1
    <3>2. (a + 1) * ulp <= q * ulp /\ q * ulp \in Nat
      BY <3>1, ProductsGrow
    <3> HIDE DEF w
    <3>3. w + ulp <= size
      BY <1>2, <1>4, <2>1, <3>2
    <3> QED BY <1>1, <1>2, <3>3
  <2> QED BY <2>1
<1> HIDE DEF a, r
<1>6. \A q \in Nat : q * ulp <= size => q * ulp <= w
  BY <1>1, <1>5, ProductsGrow
<1>7. \A q \in Nat : q * ulp \in Nat
  BY ProductsGrow
<1>8. \E q \in Nat : near = q * ulp
  <2>1. w = a * ulp
    OBVIOUS
  <2>2. a \in Nat /\ a + 1 \in Nat
    BY <1>1
  <2>3. near = w \/ near = w + ulp
    BY <1>3
  <2> HIDE DEF w
  <2>4. near = a * ulp \/ near = (a + 1) * ulp
    BY <1>4, <2>1, <2>3
  <2> QED BY <2>2, <2>4
<1> HIDE DEF w
<1>9. w <= near
  BY <1>2, <1>3
<1>10. ASSUME NEW q \in Nat, size = q * ulp PROVE near = size
  <2>1. size <= w
    BY <1>6, <1>10
  <2>2. size = w
    BY <1>1, <1>2, <2>1
  <2> QED BY <1>2, <1>3, <2>2
<1>11. ASSUME NEW q \in Nat, q * ulp <= size PROVE q * ulp <= near
  <2>1. q * ulp <= w /\ q * ulp \in Nat
    BY <1>6, <1>7, <1>11
  <2>2. near \in Int
    BY <1>2, <1>3
  <2> QED BY <1>2, <1>9, <2>1, <2>2
<1> QED BY <1>8, <1>10, <1>11

(* A double holds an integer below its precision, and rounds every number  *)
(* beyond it to an integer beyond it.                                      *)
LEMMA DoublesTell ==
  ASSUME NEW token \in Numbers
  PROVE  /\ Nearest(token) \in Int
         /\ Integral(Units(token)) =>
              Nearest(token) = Units(token) \/ (Integral(Nearest(token)) /\ ~ Safe(Nearest(token)))
<1> DEFINE d     == Digits(token)
           s     == Scale(token)
           units == Units(token)
           size  == Natural(d) * Power[s + Places]
           top   == Len(d) + s + Places
           lead  == Max({0} \cup {k \in 0..top : Power[k] <= size})
           m     == Max({lead - FloatDigits + 1, Places - FloatPlaces, 0})
           ulp   == Power[m]
           below == (size \div ulp) * ulp
           near  == IF 2 * (size - below) > ulp THEN below + ulp ELSE below
<1>1. /\ d \in Digital /\ Len(d) \in Nat /\ s \in Int /\ s + Places \in Nat
      /\ token.negative \in BOOLEAN /\ Natural(d) \in Nat
      /\ Power[s + Places] \in Nat /\ Power[s + Places] > 0
  BY TokenFacts
<1>2. Places \in Nat /\ FloatDigits \in Nat /\ FloatPlaces \in Nat /\ FloatDigits > 0
  BY LimitsAssumption
<1>3. /\ One = Power[Places] /\ One \in Nat /\ One > 0
      /\ Power[FloatDigits] \in Nat /\ Power[FloatDigits] * One = Power[FloatDigits + Places]
      /\ Power[FloatDigits + Places] \in Nat
  <2>1. One = Power[Places] /\ One \in Nat /\ One > 0
    BY <1>2, Powers DEF One
  <2>2. Power[FloatDigits] \in Nat
    BY <1>2, Powers
  <2>3. Power[FloatDigits + Places] = Power[FloatDigits] * Power[Places]
    BY <1>2, PowersAdd
  <2>4. FloatDigits + Places \in Nat
    BY <1>2
  <2>5. Power[FloatDigits + Places] \in Nat
    BY <2>4, Powers
  <2> QED BY <2>1, <2>2, <2>3, <2>5
<1>4. size \in Nat /\ units = IF token.negative THEN -size ELSE size
  <2>1. size \in Nat
    <3> HIDE DEF d, s
    <3> QED BY <1>1, ProductsGrow
  <2> QED BY <2>1 DEF Units
<1>5. top \in Nat /\ size < Power[top]
  <2> HIDE DEF d, s
  <2>1. top \in Nat /\ top = Len(d) + (s + Places)
    BY <1>1, <1>2
  <2>2. Power[top] = Power[Len(d)] * Power[s + Places]
    BY <1>1, <2>1, PowersAdd
  <2>3. Natural(d) < Power[Len(d)] /\ Power[Len(d)] \in Nat
    BY <1>1, NaturalBound, Powers
  <2>4. Natural(d) * Power[s + Places] + Power[s + Places] <= Power[Len(d)] * Power[s + Places]
    BY <1>1, <2>3, ProductsGrow
  <2>5. Power[top] \in Nat
    BY <2>1, Powers
  <2> HIDE DEF top
  <2>6. size + Power[s + Places] <= Power[top]
    BY <2>2, <2>4
  <2> HIDE DEF size
  <2> QED BY <1>1, <1>4, <2>1, <2>5, <2>6
<1>6. Magnitude(units) = size
  <2> HIDE DEF units, size
  <2> QED BY <1>4 DEF Magnitude
<1>7. Nearest(token) = IF units < 0 THEN -near ELSE near
  BY <1>6 DEF Nearest
<1> HIDE DEF d, s, top, size, units
<1>8. lead \in Nat /\ (lead = 0 \/ Power[lead] <= size) /\ size < Power[lead + 1]
  BY <1>4, <1>5, LeadFacts
<1> HIDE DEF lead
<1>9. /\ m \in Nat /\ m >= lead - FloatDigits + 1 /\ m >= Places - FloatPlaces
      /\ m \in {lead - FloatDigits + 1, Places - FloatPlaces, 0}
  BY <1>2, <1>8 DEF Max
<1> HIDE DEF m
<1>10. ulp \in Nat /\ ulp > 0
  BY <1>9, Powers
<1> HIDE DEF ulp
<1>11. /\ \E q \in Nat : near = q * ulp
       /\ \A q \in Nat : size = q * ulp => near = size
       /\ \A q \in Nat : q * ulp <= size => q * ulp <= near
  <2>1. near = Rounded(size, ulp)
    BY DEF Rounded
  <2> HIDE DEF near
  <2> QED BY <1>4, <1>10, <2>1, Rounding
<1>12. near \in Nat
  BY <1>10, <1>11, ProductsGrow
<1> HIDE DEF near, below
<1>13. Nearest(token) \in Int
  BY <1>7, <1>12
<1> SUFFICES ASSUME Integral(Units(token))
             PROVE  Nearest(token) = Units(token) \/ (Integral(Nearest(token)) /\ ~ Safe(Nearest(token)))
  BY <1>13
<1>14. Integral(size)
  <2>1. Integral(units)
    BY DEF units
  <2>2. size = units \/ size = -units
    BY <1>4
  <2>3. units \in Int
    BY <1>4
  <2> QED BY <2>1, <2>2, <2>3, IntegralNegated
<1>15. CASE size < Power[FloatDigits + Places]
  <2>1. lead < FloatDigits + Places
    <3>1. ASSUME lead >= FloatDigits + Places PROVE FALSE
      <4>1. lead # 0
        BY <1>2, <1>8, <3>1
      <4>2. Power[FloatDigits + Places] <= Power[lead]
        BY <1>2, <1>8, <3>1, PowersGrow
      <4>3. Power[lead] \in Nat
        BY <1>8, Powers
      <4> QED BY <1>3, <1>4, <1>8, <1>15, <4>1, <4>2, <4>3
    <3> QED BY <1>2, <1>8, <3>1
  <2>2. m <= Places
    BY <1>2, <1>8, <1>9, <2>1
  <2>3. Places - m \in Nat /\ Power[Places] = Power[Places - m] * Power[m]
    BY <1>2, <1>9, <2>2, PowersGrow
  <2>4. PICK c \in Int : size = c * One
    <3>1. size \in Int /\ size % One = 0
      BY <1>4, <1>14 DEF Integral
    <3> QED BY <1>3, <3>1, Multiple
  <2>5. c \in Nat
    BY <1>3, <1>4, <2>4
  <2>6. Power[Places - m] \in Nat /\ c * Power[Places - m] \in Nat
    BY <2>3, <2>5, Powers, ProductsGrow
  <2>7. size = (c * Power[Places - m]) * ulp
    BY <1>3, <1>10, <2>3, <2>4, <2>5, <2>6, Products DEF ulp
  <2>8. near = size
    BY <1>11, <2>6, <2>7
  <2>9. Nearest(token) = units
    BY <1>4, <1>7, <2>8
  <2> QED BY <2>9 DEF units
<1>16. CASE ~ (size < Power[FloatDigits + Places])
  <2>1. FloatDigits + Places <= lead
    <3>1. ASSUME lead + 1 <= FloatDigits + Places PROVE FALSE
      <4>1. Power[lead + 1] <= Power[FloatDigits + Places]
        BY <1>2, <1>8, <3>1, PowersGrow
      <4>2. Power[lead + 1] \in Nat
        BY <1>8, Powers
      <4> QED BY <1>3, <1>4, <1>8, <1>16, <4>1, <4>2
    <3> QED BY <1>2, <1>8, <3>1
  <2>2. Places <= m /\ m <= lead
    BY <1>2, <1>8, <1>9, <2>1
  <2>3. m - Places \in Nat /\ Power[m] = Power[m - Places] * Power[Places]
    BY <1>2, <1>9, <2>2, PowersGrow
  <2>4. lead - m \in Nat /\ Power[lead] = Power[lead - m] * Power[m]
    BY <1>8, <1>9, <2>2, PowersGrow
  <2>5. PICK q \in Nat : near = q * ulp
    BY <1>11
  <2>6. Power[m - Places] \in Nat /\ q * Power[m - Places] \in Nat
    BY <2>3, <2>5, Powers, ProductsGrow
  <2>7. near = (q * Power[m - Places]) * One
    BY <1>3, <1>10, <2>3, <2>5, <2>6, Products DEF ulp
  <2>8. Integral(near)
    <3>1. near \in Int /\ q * Power[m - Places] \in Int
      BY <1>12, <2>6
    <3>2. near % One = 0
      BY <1>3, <2>7, <3>1, Multiple
    <3> QED BY <3>2 DEF Integral
  <2>9. Power[lead] <= near
    <3>1. Power[lead - m] \in Nat /\ Power[lead] = Power[lead - m] * ulp
      BY <2>4, Powers DEF ulp
    <3>2. Power[lead] <= size
      BY <1>2, <1>8, <2>1
    <3> QED BY <1>11, <3>1, <3>2
  <2>10. Power[FloatDigits + Places] <= near
    <3>1. FloatDigits + Places \in Nat
      BY <1>2
    <3>2. Power[FloatDigits + Places] <= Power[lead]
      BY <1>8, <2>1, <3>1, PowersGrow
    <3>3. Power[lead] \in Nat
      BY <1>8, Powers
    <3> QED BY <1>3, <1>12, <2>9, <3>2, <3>3
  <2>11. Magnitude(Nearest(token)) = near
    BY <1>4, <1>7, <1>12 DEF Magnitude
  <2>12. Integral(Nearest(token))
    BY <1>7, <1>12, <2>8, IntegralNegated
  <2>13. ~ Safe(Nearest(token))
    <3>1. (Power[FloatDigits] - 1) * One = Power[FloatDigits] * One - One
      BY <1>3
    <3> QED BY <1>3, <1>12, <2>10, <2>11, <3>1 DEF Safe
  <2> QED BY <2>12, <2>13
<1> QED BY <1>15, <1>16

-------------------------------------------------------------------------------
(* What TypeScript's number() returns: the number, or the double next to   *)
(* it, or nothing for want of room or for a fraction near an unsafe integer.*)
LEMMA NumberTells ==
  ASSUME NEW token \in Numbers
  PROVE  \/ number(token) = {} /\ (BeyondLimits("typescript", token) \/ RoundedFraction(token))
         \/ \E value \in number(token) :
              /\ number(token) = {value} /\ value.units \in Int
              /\ isIntegerInTypeScript(value) <=> Integral(value.units)
              /\ \/ value.units = Units(token)
                 \/ value.units = Nearest(token) /\ RoundedFraction(token)
<1> DEFINE s       == Scale(token)
           U       == Units(token)
           safe    == Magnitude(s) <= MaxSafeScale
           integer == IF safe THEN IntegerDigits(token) ELSE {}
           double  == Nearest(token)
           Given(n) == IF token.negative THEN -n ELSE n
           value(n) == [bigint |-> ~ Safe(n), units |-> n]
           N       == number(token)
<1>1. N = IF safe /\ s > MaxRepeat /\ integer # {<<0>>} THEN {}
          ELSE IF integer # {}
            THEN {value(n) : n \in {Given(Natural(digits)) * One : digits \in integer}}
          ELSE IF Integral(double) /\ ~ Safe(double) THEN {}
          ELSE {[bigint |-> FALSE, units |-> double]}
  BY DEF number
<1>2. s \in Int /\ U \in Int /\ double \in Int
  BY TokenFacts, UnitsAreIntegers, DoublesTell
<1>3. MaxRepeat \in Nat /\ MaxSafeScale \in Nat /\ MaxRepeat < MaxSafeScale
  BY LimitsAssumption
<1>4. Magnitude(s) = IF s < 0 THEN -s ELSE s
  BY DEF Magnitude
<1>5. Magnitude(s) > MaxRepeat /\ N = {} => BeyondLimits("typescript", token)
  BY DEF BeyondLimits
<1>6. CASE safe /\ s > MaxRepeat /\ integer # {<<0>>}
  <2>1. N = {}
    BY <1>1, <1>6
  <2>2. Magnitude(s) > MaxRepeat
    <3> HIDE DEF s
    <3> QED BY <1>2, <1>3, <1>4, <1>6
  <2> QED BY <1>5, <2>1, <2>2
<1>7. CASE ~ (safe /\ s > MaxRepeat /\ integer # {<<0>>}) /\ integer # {}
  <2>1. PICK digits \in IntegerDigits(token) : integer = IntegerDigits(token)
    BY <1>7
  <2>2. IntegerDigits(token) = {digits} /\ Given(Natural(digits)) * One = U /\ Integral(U)
    BY DigitsSpelled, ValueSpelled
  <2>3. N = {value(U)}
    <3>1. {Given(Natural(e)) * One : e \in integer} = {U}
      <4> HIDE DEF U, Given
      <4> QED BY <2>1, <2>2
    <3> QED BY <1>1, <1>7, <3>1
  <2>4. isIntegerInTypeScript(value(U))
    BY <2>2 DEF isIntegerInTypeScript
  <2>5. value(U).units = U /\ value(U) \in N
    BY <2>3
  <2> QED BY <1>2, <2>2, <2>3, <2>4, <2>5
<1>8. CASE integer = {} /\ ~ (safe /\ s > MaxRepeat /\ integer # {<<0>>})
  <2>1. safe => ~ Integral(U)
    <3>1. ASSUME safe PROVE ~ Integral(U)
      <4>1. IntegerDigits(token) = {}
        BY <1>8, <3>1
      <4> QED BY <4>1, FractionsHaveNoDigits
    <3> QED BY <3>1
  <2>2. ~ safe => Magnitude(s) > MaxRepeat
    <3> HIDE DEF s
    <3> QED BY <1>2, <1>3, <1>4
  <2>3. CASE Integral(double) /\ ~ Safe(double)
    <3>1. N = {}
      BY <1>1, <1>8, <2>3
    <3>2. safe => RoundedFraction(token)
      <4>1. ASSUME safe PROVE RoundedFraction(token)
        <5>1. ~ Integral(U) /\ double # U
          BY <2>1, <2>3, <4>1
        <5> QED BY <5>1 DEF RoundedFraction
      <4> QED BY <4>1
    <3> QED BY <1>5, <2>2, <3>1, <3>2
  <2>4. CASE ~ (Integral(double) /\ ~ Safe(double))
    <3> DEFINE v == [bigint |-> FALSE, units |-> double]
    <3>1. N = {v} /\ v.units = double
      BY <1>1, <1>8, <2>4
    <3>2. isIntegerInTypeScript(v) <=> Integral(v.units)
      BY <2>4 DEF isIntegerInTypeScript
    <3>3. double = U \/ RoundedFraction(token)
      <4>1. Integral(U) => double = U
        BY <2>4, DoublesTell
      <4> QED BY <4>1 DEF RoundedFraction
    <3>4. v \in N
      BY <3>1
    <3> HIDE DEF v, N
    <3>5. v \in N /\ N = {v} /\ v.units \in Int
      BY <1>2, <3>1, <3>4
    <3>6. v.units = Units(token) \/ (v.units = Nearest(token) /\ RoundedFraction(token))
      BY <3>1, <3>3
    <3> QED BY <3>2, <3>5, <3>6 DEF N
  <2> QED BY <2>3, <2>4
<1> QED BY <1>6, <1>7, <1>8

(* TypeScript judges a number as the number it is, but for the fractions   *)
(* that it rounds, which it judges as the numbers they are rounded to.     *)
LEMMA TypeScriptExact ==
  ASSUME NEW token \in Tokens, NEW shape \in NumberShapes
  PROVE  \/ TypeScriptAccepts(token, shape) = Meets(Units(token), shape)
         \/ ~ TypeScriptAccepts(token, shape) /\ BeyondLimits("typescript", token)
         \/ /\ RoundedFraction(token)
            /\ TypeScriptAccepts(token, shape) => Meets(Nearest(token), shape)
<1> DEFINE N == number(token)
           Judged(value) ==
             CASE shape.kind = "number"  -> TRUE
               [] shape.kind = "integer" -> isIntegerInTypeScript(value)
               [] shape.kind = "literal" -> value.units = Units(shape.value)
               [] shape.kind = "boundedInteger" ->
                    /\ isIntegerInTypeScript(value)
                    /\ \A b \in shape.minimum : value.units >= Units(b)
                    /\ \A b \in shape.maximum : value.units <= Units(b)
<1>1. TypeScriptAccepts(token, shape) = \E value \in N : Judged(value)
  BY DEF TypeScriptAccepts
<1>2. TypeScriptAccepts(token, shape) \in BOOLEAN
  BY <1>1
<1>3. token \in Numbers
  BY DEF Numbers
<1>4. CASE N = {}
  <2>1. ~ TypeScriptAccepts(token, shape)
    BY <1>1, <1>4
  <2>2. BeyondLimits("typescript", token) \/ RoundedFraction(token)
    BY <1>3, <1>4, NumberTells
  <2> QED BY <2>1, <2>2
<1>5. CASE N # {}
  <2>1. PICK value \in N :
          /\ N = {value} /\ value.units \in Int
          /\ isIntegerInTypeScript(value) <=> Integral(value.units)
          /\ \/ value.units = Units(token)
             \/ value.units = Nearest(token) /\ RoundedFraction(token)
    BY <1>3, <1>5, NumberTells
  <2>2. TypeScriptAccepts(token, shape) <=> Judged(value)
    <3> HIDE DEF N, Judged
    <3> QED BY <1>1, <2>1
  <2>3. Judged(value) <=> Meets(value.units, shape)
    <3>1. \A b \in Bounds : Units(b) \in Int
      BY UnitsAreIntegers DEF Numbers
    <3>2. CASE shape.kind = "number"
      BY <3>2 DEF Meets
    <3>3. CASE shape.kind = "integer"
      BY <2>1, <3>3 DEF Meets
    <3>4. CASE shape.kind = "literal"
      BY <3>4 DEF Meets
    <3>5. CASE shape.kind = "boundedInteger" /\ shape.minimum \in SUBSET Bounds /\ shape.maximum \in SUBSET Bounds
      <4>1. Judged(value) =
              (/\ isIntegerInTypeScript(value)
               /\ \A b \in shape.minimum : value.units >= Units(b)
               /\ \A b \in shape.maximum : value.units <= Units(b))
        BY <3>5
      <4>2. Meets(value.units, shape) =
              (/\ Integral(value.units)
               /\ \A b \in shape.minimum : Units(b) <= value.units
               /\ \A b \in shape.maximum : value.units <= Units(b))
        BY <3>5 DEF Meets
      <4>3. \A b \in shape.minimum : value.units >= Units(b) <=> Units(b) <= value.units
        BY <2>1, <3>1, <3>5
      <4> HIDE DEF Judged
      <4> QED BY <2>1, <4>1, <4>2, <4>3
    <3> QED BY <3>2, <3>3, <3>4, <3>5, ShapeKinds
  <2>4. Meets(value.units, shape) \in BOOLEAN
    BY ShapeKinds DEF Meets, Integral
  <2> HIDE DEF Judged
  <2>5. TypeScriptAccepts(token, shape) = Meets(value.units, shape)
    BY <1>2, <2>2, <2>3, <2>4
  <2> QED BY <2>1, <2>5
<1> QED BY <1>4, <1>5

(* Every SDK judges every number exactly, within its limits.               *)
THEOREM NumbersAreExact == NumbersExact
<1> SUFFICES ASSUME parsed \in Tokens,
                    NEW language \in {"go", "rust", "python", "typescript"}, NEW shape \in NumberShapes
             PROVE  \/ AcceptsNumber(language, parsed, shape) = Meets(Units(parsed), shape)
                    \/ ~ AcceptsNumber(language, parsed, shape) /\ BeyondLimits(language, parsed)
                    \/ /\ language = "typescript" /\ RoundedFraction(parsed)
                       /\ AcceptsNumber(language, parsed, shape) => Meets(Nearest(parsed), shape)
  BY DEF NumbersExact
<1>1. CASE language = "go"
  <2>1. AcceptsNumber(language, parsed, shape) = GoAccepts(parsed, shape)
    BY <1>1 DEF AcceptsNumber
  <2> QED BY <2>1, GoExact
<1>2. CASE language = "rust"
  <2>1. AcceptsNumber(language, parsed, shape) = RustAccepts(parsed, shape)
    BY <1>2 DEF AcceptsNumber
  <2> QED BY <1>2, <2>1, RustExact
<1>3. CASE language = "python"
  <2>1. AcceptsNumber(language, parsed, shape) = PythonAccepts(parsed, shape)
    BY <1>3 DEF AcceptsNumber
  <2> QED BY <1>3, <2>1, PythonExact
<1>4. CASE language = "typescript"
  <2>1. AcceptsNumber(language, parsed, shape) = TypeScriptAccepts(parsed, shape)
    BY <1>4 DEF AcceptsNumber
  <2> QED BY <1>4, <2>1, TypeScriptExact
<1> QED BY <1>1, <1>2, <1>3, <1>4
===============================================================================
