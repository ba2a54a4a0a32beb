--------------------------- MODULE ToolchainProofs ---------------------------
(***************************************************************************)
(* Theorems about the tool chain, for all sets of uids, every size of the  *)
(* generated tables and every limit of the verifier.                       *)
(***************************************************************************)
EXTENDS Toolchain, StateGraphProofs, CallExplorerProofs

(***************************************************************************)
(* Sets of ids in order, and the calls over them.                          *)
(***************************************************************************)
\* p lists S, in order.
InOrder(p, S) ==
  /\ p \in Seq(S) /\ Len(p) = Cardinality(S) /\ Len(p) \in Nat /\ DOMAIN p = 1 .. Len(p)
  /\ \A i, j \in 1 .. Len(p) : i < j => p[i] < p[j]
  /\ \A x \in S : \E i \in 1 .. Len(p) : p[i] = x
  /\ \A i \in 1 .. Len(p) : p[i] \in S /\ Cardinality({z \in S : z <= p[i]}) = i

\* SetuidState::operator<: a finite set of ids has an order.
LEMMA AscendingIs ==
  ASSUME NEW S, IsFiniteSet(S), \A x \in S : x \in Int
  PROVE  InOrder(Ascending(S), S)
<1> DEFINE Upto(x) == {z \in S : z <= x}
           Rank(x) == Cardinality(Upto(x))
           size    == Cardinality(S)
           p       == Ascending(S)
<1>0. \A x \in S : x \in Int
  OBVIOUS
<1>1. size \in Nat
  BY FS_CardinalityType
<1>2. ASSUME NEW x \in S PROVE Rank(x) \in 1 .. size
  <2>1. Upto(x) \in SUBSET S /\ x \in Upto(x)
    BY <1>0
  <2>2. IsFiniteSet(Upto(x)) /\ Cardinality(Upto(x)) <= size /\ Cardinality(Upto(x)) \in Nat
    BY <2>1, FS_Subset, FS_CardinalityType
  <2>3. Cardinality(Upto(x)) # 0
    BY <2>1, <2>2, FS_EmptySet
  <2> QED
    BY <1>1, <2>2, <2>3
<1>3. ASSUME NEW x \in S, NEW y \in S, x < y PROVE Rank(x) < Rank(y)
  <2>0. x \in Int /\ y \in Int /\ x < y
    BY <1>0, <1>3
  <2>1. Upto(x) \in SUBSET Upto(y) /\ y \in Upto(y) /\ y \notin Upto(x)
    <3>1. \A z \in S : z <= x => z <= y
      BY <1>0, <2>0
    <3>2. y <= y /\ ~(y <= x)
      BY <2>0
    <3> QED
      BY <3>1, <3>2
  <2>2. IsFiniteSet(Upto(y)) /\ IsFiniteSet(Upto(x))
    BY FS_Subset
  <2>3. Cardinality(Upto(x)) <= Cardinality(Upto(y)) /\ Cardinality(Upto(x)) # Cardinality(Upto(y))
    BY <2>1, <2>2, FS_Subset
  <2>4. Cardinality(Upto(x)) \in Nat /\ Cardinality(Upto(y)) \in Nat
    BY <2>2, FS_CardinalityType
  <2> QED
    BY <2>3, <2>4
<1>4. p = [k \in 1 .. size |-> CHOOSE x \in S : Rank(x) = k]
  BY DEF Ascending
<1>10. \A x \in S : Rank(x) = Cardinality({z \in S : z <= x})
  OBVIOUS
<1> HIDE DEF Rank, size, p
<1>5. \A k \in 1 .. size : \E x \in S : Rank(x) = k
  <2> DEFINE f == [x \in S |-> Rank(x)]
  <2>1. f \in [S -> 1 .. size]
    BY <1>2
  <2>2. IsInjective(f)
    <3> SUFFICES ASSUME NEW x \in S, NEW y \in S, Rank(x) = Rank(y), x # y PROVE FALSE
      BY DEF IsInjective
    <3>1. x < y \/ y < x
      BY <1>0
    <3>2. Rank(x) \in Int /\ Rank(y) \in Int
      BY <1>2
    <3> QED
      BY <1>3, <3>1, <3>2
  <2>3. IsFiniteSet(1 .. size) /\ Cardinality(1 .. size) = size
    BY <1>1, FS_Interval
  <2> HIDE DEF f
  <2>4. f \in Injection(S, 1 .. size)
    BY <2>1, <2>2 DEF Injection
  <2>5. f \in Surjection(S, 1 .. size)
    BY <2>3, <2>4, FS_Injection DEF size
  <2> QED
    BY <2>5 DEF Surjection, f
<1>6. \A k \in 1 .. size : p[k] \in S /\ Rank(p[k]) = k
  BY <1>4, <1>5
<1>7. p \in Seq(S) /\ Len(p) = size /\ DOMAIN p = 1 .. size
  <2>1. p \in [1 .. size -> S]
    BY <1>4, <1>6
  <2> QED
    BY <1>1, <2>1
<1>8. ASSUME NEW i \in 1 .. size, NEW j \in 1 .. size, i < j PROVE p[i] < p[j]
  <2>1. p[i] \in S /\ p[j] \in S /\ Rank(p[i]) = i /\ Rank(p[j]) = j
    BY <1>6
  <2>3. p[i] \in Int /\ p[j] \in Int
    BY <1>0, <2>1
  <2>2. ~(p[j] < p[i]) /\ p[j] # p[i]
    BY <1>3, <1>8, <2>1
  <2> QED
    BY <2>2, <2>3
<1>9. ASSUME NEW x \in S PROVE \E i \in 1 .. size : p[i] = x
  <2>1. Rank(x) \in 1 .. size
    BY <1>2
  <2>2. p[Rank(x)] \in S /\ Rank(p[Rank(x)]) = Rank(x)
    BY <1>6, <2>1
  <2>3. ~(p[Rank(x)] < x) /\ ~(x < p[Rank(x)])
    BY <1>3, <1>1, <2>1, <2>2
  <2> QED
    BY <1>0, <2>1, <2>2, <2>3
<1> QED
  BY <1>1, <1>6, <1>7, <1>8, <1>9, <1>10 DEF InOrder, size, p

\* Where generateAll puts a pair, and that it puts nothing else.
PairsPlaced(p, n) ==
  /\ \A i, j \in 1 .. n : /\ (i - 1) * n + j \in 1 .. n * n
                          /\ Pairs(p)[(i - 1) * n + j] = <<p[i], p[j]>>
  /\ \A x \in 1 .. n * n : \E i, j \in 1 .. n : x = (i - 1) * n + j

\* The pairs over a list of n ids, numbered with two digits.
LEMMA PairsAt ==
  ASSUME NEW S, NEW p \in Seq(S), NEW n \in Nat, n = Len(p)
  PROVE  Pairs(p) \in Seq(S \X S) /\ Len(Pairs(p)) = n * n /\ PairsPlaced(p, n)
<1>0. DOMAIN p = 1 .. n /\ \A i \in 1 .. n : p[i] \in S
  OBVIOUS
<1>1. ASSUME NEW i \in 1 .. n, NEW j \in 1 .. n
      PROVE  /\ (i - 1) * n + j \in 1 .. n * n
             /\ (((i - 1) * n + j - 1) \div n) % n = i - 1
             /\ (((i - 1) * n + j - 1) \div 1) % n = j - 1
  <2>1. n \in Nat \ {0} /\ i - 1 \in 0 .. n - 1 /\ j - 1 \in 0 .. n - 1
    OBVIOUS
  <2>2. (i - 1) * n \in Nat /\ (i - 1) * n <= (n - 1) * n /\ (n - 1) * n = n * n - n
    BY <2>1
  <2>3. (i - 1) * n + j - 1 = (i - 1) * n + (j - 1) /\ (i - 1) * n + (j - 1) \in Nat
    BY <2>2
  <2>4. ((i - 1) * n + (j - 1)) \div n = i - 1 /\ ((i - 1) * n + (j - 1)) % n = j - 1
    <3> DEFINE q == i - 1
               d == j - 1
    <3>1. q \in Nat /\ d \in 0 .. n - 1
      BY <2>1
    <3> HIDE DEF q, d
    <3>2. (q * n + d) \div n = q /\ (q * n + d) % n = d
      BY <2>1, <3>1, Digits
    <3> QED
      BY <3>2 DEF q, d
  <2>5. (i - 1) % n = i - 1
    BY <2>1
  <2>6. ((i - 1) * n + (j - 1)) \div 1 = (i - 1) * n + (j - 1)
    BY <2>3
  <2> QED
    BY <2>1, <2>2, <2>3, <2>4, <2>5, <2>6
<1>2. ASSUME NEW x \in 1 .. n * n
      PROVE  \E i, j \in 1 .. n : x = (i - 1) * n + j
  <2>1. n \in Nat \ {0}
    OBVIOUS
  <2> DEFINE q == (x - 1) \div n
             d == (x - 1) % n
  <2>2. x - 1 \in Nat /\ q \in Nat /\ d \in 0 .. n - 1 /\ x - 1 = n * q + d
    BY <2>1
  <2>3. q < n
    <3> HIDE DEF q, d
    <3>1. n * q < n * n
      BY <2>2
    <3> QED
      BY <2>1, <2>2, <3>1
  <2>4. q + 1 \in 1 .. n /\ d + 1 \in 1 .. n /\ x = ((q + 1) - 1) * n + (d + 1)
    <3> HIDE DEF q, d
    <3> QED
      BY <2>1, <2>2, <2>3
  <2> QED
    BY <2>4
<1>3. ASSUME NEW i \in 1 .. n, NEW j \in 1 .. n
      PROVE  Pairs(p)[(i - 1) * n + j] = <<p[i], p[j]>>
  <2> DEFINE x == (i - 1) * n + j
  <2>1. x \in 1 .. n * n /\ ((x - 1) \div n) % n = i - 1 /\ ((x - 1) \div 1) % n = j - 1
    BY <1>1
  <2> HIDE DEF x
  <2>2. Pairs(p)[x] = <<p[(((x - 1) \div n) % n) + 1], p[(((x - 1) \div 1) % n) + 1]>>
    BY <2>1 DEF Pairs, Digit
  <2>3. (i - 1) + 1 = i /\ (j - 1) + 1 = j
    OBVIOUS
  <2> QED
    BY <2>1, <2>2, <2>3 DEF x
<1>4. ASSUME NEW x \in 1 .. n * n PROVE Pairs(p)[x] \in S \X S
  <2>1. PICK i \in 1 .. n, j \in 1 .. n : x = (i - 1) * n + j
    BY <1>2
  <2>2. Pairs(p)[x] = <<p[i], p[j]>> /\ p[i] \in S /\ p[j] \in S
    BY <1>0, <1>3, <2>1
  <2> QED
    BY <2>2
<1>5. Pairs(p) \in [1 .. n * n -> S \X S] /\ n * n \in Nat
  BY <1>4 DEF Pairs
<1>6. Pairs(p) \in Seq(S \X S) /\ Len(Pairs(p)) = n * n
  BY <1>5
<1> QED
  BY <1>1, <1>2, <1>3, <1>6 DEF PairsPlaced

\* A number with three digits is taken apart, too.
Number3(n, a, b, d) == (a * n + b) * n + d

\* The digits of such a number are found by division.
LEMMA ThreeDigits ==
  ASSUME NEW n \in Nat, NEW a \in Nat, NEW b \in Nat, NEW d \in Nat, a < n, b < n, d < n
  PROVE  /\ Number3(n, a, b, d) \in 0 .. n * n * n - 1
         /\ (Number3(n, a, b, d) \div (n * n)) % n = a
         /\ (Number3(n, a, b, d) \div n) % n = b
         /\ (Number3(n, a, b, d) \div 1) % n = d
<1> DEFINE hi == a * n + b
           n2 == n * n
           lo == b * n + d
           y  == hi * n + d
<1>1. n \in Nat \ {0} /\ n2 \in Nat \ {0} /\ a \in Nat /\ b \in Nat /\ d \in 0 .. n - 1
  OBVIOUS
<1>2. a * n \in Nat /\ b * n \in Nat /\ a * n <= (n - 1) * n /\ b * n <= (n - 1) * n
      /\ (n - 1) * n = n2 - n
  BY <1>1
<1>3. hi \in 0 .. n2 - 1 /\ lo \in 0 .. n2 - 1
  BY <1>1, <1>2
<1>4. y = a * n2 + lo
  <2>1. hi * n = a * n2 + b * n
    OBVIOUS
  <2> QED
    BY <1>1, <1>2, <1>3, <2>1
<1>5. hi \div n = a /\ hi % n = b
  BY <1>1, Digits
<1>6. y \div n = hi /\ y % n = d /\ y \in Nat
  <2> HIDE DEF hi
  <2> QED
    BY <1>1, <1>3, Digits
<1>7. y \div n2 = a
  <2> HIDE DEF n2, lo, y
  <2> QED
    BY <1>1, <1>3, <1>4, Digits
<1>8. a % n = a /\ y \div 1 = y
  BY <1>1, <1>6
<1>9. y <= n2 * n - 1
  <2>1. hi * n <= (n2 - 1) * n /\ (n2 - 1) * n = n2 * n - n
    <3> HIDE DEF hi, n2
    <3> QED
      BY <1>1, <1>3
  <2> HIDE DEF hi, n2
  <2> QED
    BY <1>1, <1>3, <2>1
<1> QED
  BY <1>5, <1>6, <1>7, <1>8, <1>9 DEF Number3

\* Where it puts three.
TriplesPlaced(p, n) ==
  /\ \A i, j, k \in 1 .. n :
       /\ ((i - 1) * n + (j - 1)) * n + k \in 1 .. n * n * n
       /\ Triples(p)[((i - 1) * n + (j - 1)) * n + k] = <<p[i], p[j], p[k]>>
  /\ \A x \in 1 .. n * n * n : \E i, j, k \in 1 .. n :
       x = ((i - 1) * n + (j - 1)) * n + k

\* The triples over a list of n ids, numbered with three digits.
LEMMA TriplesAt ==
  ASSUME NEW S, NEW p \in Seq(S), NEW n \in Nat, n = Len(p)
  PROVE  Triples(p) \in Seq(S \X S \X S) /\ Len(Triples(p)) = n * n * n /\ TriplesPlaced(p, n)
<1>0. DOMAIN p = 1 .. n /\ \A i \in 1 .. n : p[i] \in S
  OBVIOUS
<1>2. ASSUME NEW x \in 1 .. n * n * n
      PROVE  \E i, j, k \in 1 .. n : x = ((i - 1) * n + (j - 1)) * n + k
  <2>1. n \in Nat \ {0} /\ n * n \in Nat
    OBVIOUS
  <2> DEFINE q == (x - 1) \div n
             d == (x - 1) % n
  <2>2. x - 1 \in Nat /\ q \in Nat /\ d \in 0 .. n - 1 /\ x - 1 = n * q + d
    BY <2>1
  <2> HIDE DEF q, d
  <2>3. q < n * n
    <3> DEFINE n2 == n * n
    <3>1. n * q < n2 * n
      BY <2>2
    <3> HIDE DEF n2
    <3> QED
      BY <2>1, <2>2, <3>1 DEF n2
  <2>4. q + 1 \in 1 .. n * n
    BY <2>1, <2>2, <2>3
  <2>5. PICK i \in 1 .. n, j \in 1 .. n : q + 1 = (i - 1) * n + j
    <3>1. PairsPlaced(p, n)
      BY PairsAt
    <3> QED
      BY <2>4, <3>1 DEF PairsPlaced
  <2>6. q = (i - 1) * n + (j - 1)
    BY <2>2, <2>5
  <2>7. d + 1 \in 1 .. n /\ x = q * n + (d + 1)
    BY <2>1, <2>2
  <2> QED
    BY <2>6, <2>7
<1>3. ASSUME NEW i \in 1 .. n, NEW j \in 1 .. n, NEW k \in 1 .. n
      PROVE  /\ ((i - 1) * n + (j - 1)) * n + k \in 1 .. n * n * n
             /\ Triples(p)[((i - 1) * n + (j - 1)) * n + k] = <<p[i], p[j], p[k]>>
  <2> DEFINE a == i - 1
             b == j - 1
             d == k - 1
             x == (a * n + b) * n + k
             y == (a * n + b) * n + d
  <2>1. a \in 0 .. n - 1 /\ b \in 0 .. n - 1 /\ d \in 0 .. n - 1
    OBVIOUS
  <2>2. y \in 0 .. n * n * n - 1 /\ (y \div (n * n)) % n = a /\ (y \div n) % n = b /\ (y \div 1) % n = d
    <3>1. a \in Nat /\ b \in Nat /\ d \in Nat /\ a < n /\ b < n /\ d < n
      OBVIOUS
    <3>2. y = Number3(n, a, b, d)
      BY DEF Number3
    <3> HIDE DEF a, b, d, y
    <3> QED
      BY <3>1, <3>2, ThreeDigits
  <2>3. x - 1 = y /\ x \in 1 .. n * n * n
    <3>1. (a * n + b) * n \in Int
      OBVIOUS
    <3> QED
      BY <2>2, <3>1
  <2> HIDE DEF x, y
  <2>4. Triples(p)[x] = <<p[(((x - 1) \div (n * n)) % n) + 1], p[(((x - 1) \div n) % n) + 1],
                          p[(((x - 1) \div 1) % n) + 1]>>
    BY <2>3 DEF Triples, Digit
  <2>5. a + 1 = i /\ b + 1 = j /\ d + 1 = k
    OBVIOUS
  <2>6. Triples(p)[x] = <<p[i], p[j], p[k]>>
    BY <2>2, <2>3, <2>4, <2>5
  <2> QED
    BY <2>3, <2>6 DEF x
<1>4. ASSUME NEW x \in 1 .. n * n * n PROVE Triples(p)[x] \in S \X S \X S
  <2>1. PICK i \in 1 .. n, j \in 1 .. n, k \in 1 .. n : x = ((i - 1) * n + (j - 1)) * n + k
    BY <1>2
  <2>2. Triples(p)[x] = <<p[i], p[j], p[k]>> /\ p[i] \in S /\ p[j] \in S /\ p[k] \in S
    BY <1>0, <1>3, <2>1
  <2> QED
    BY <2>2
<1>5. Triples(p) \in [1 .. n * n * n -> S \X S \X S] /\ n * n * n \in Nat
  BY <1>4 DEF Triples
<1>6. Triples(p) \in Seq(S \X S \X S) /\ Len(Triples(p)) = n * n * n
  BY <1>5
<1> QED
  BY <1>2, <1>3, <1>6 DEF TriplesPlaced

\* Where the elements of two sequences are when one follows the other.
LEMMA JoinAt ==
  ASSUME NEW C, NEW s \in Seq(C), NEW t \in Seq(C)
  PROVE  /\ Len(s \o t) = Len(s) + Len(t)
         /\ \A i \in 1 .. Len(t) : (s \o t)[Len(s) + i] = t[i]
  OBVIOUS

\* The elements of the second sequence follow those of the first.
LEMMA SecondAt ==
  ASSUME NEW C, NEW s \in Seq(C), NEW t \in Seq(C), NEW i \in 1 .. Len(t)
  PROVE  (s \o t)[Len(s) + i] = t[i]
  OBVIOUS

\* SetuidFunctionCall::operator<: c has the calls of one parameter from q, those of
\* more from p, by function and then by parameters.
Listed(c, q, m, p, n) ==
  /\ DOMAIN c = 1 .. m + m + n * n + n * n * n /\ Len(c) = m + m + n * n + n * n * n
  /\ \A i \in 1 .. m : /\ c[i] = SetIdCall("setuid", <<q[i]>>)
                       /\ c[m + i] = SetIdCall("seteuid", <<q[i]>>)
  /\ \A x \in 1 .. n * n : c[m + m + x] = SetIdCall("setreuid", Pairs(p)[x])
  /\ \A x \in 1 .. n * n * n : c[m + m + n * n + x] = SetIdCall("setresuid", Triples(p)[x])

\* generateAll lists the calls function by function.
LEMMA CallsAre ==
  ASSUME NEW users, NEW extra, IsFiniteSet(users \cup extra), \A x \in users \cup extra : x \in Int
  PROVE  LET p == Params(users, extra)
             q == Params(users, extra \ {Keep})
         IN  /\ InOrder(p, users \cup extra) /\ InOrder(q, users \cup (extra \ {Keep}))
             /\ Listed(Calls(users, extra), q, Len(q), p, Len(p))
<1> DEFINE P == users \cup extra
           Q == users \cup (extra \ {Keep})
           p == Params(users, extra)
           q == Params(users, extra \ {Keep})
           m == Len(q)
           n == Len(p)
           n2 == n * n
           n3 == n * n * n
           pairs == Pairs(p)
           triples == Triples(p)
<1>1. InOrder(p, P) /\ InOrder(q, Q)
  <2>1. Q \in SUBSET P /\ IsFiniteSet(Q) /\ \A x \in Q : x \in Int
    <3>1. Q \in SUBSET P
      OBVIOUS
    <3> QED
      BY <3>1, FS_Subset
  <2> QED
    BY <2>1, AscendingIs DEF Params
<1>2. p \in Seq(P) /\ q \in Seq(Q) /\ m \in Nat /\ n \in Nat /\ DOMAIN q = 1 .. m
  BY <1>1 DEF InOrder
<1> HIDE DEF P, Q
<1>3. /\ DOMAIN pairs = 1 .. n2 /\ n2 \in Nat
      /\ DOMAIN triples = 1 .. n3 /\ n3 \in Nat
  <2>1. pairs \in Seq(P \X P) /\ Len(pairs) = n2
    BY <1>2, PairsAt
  <2>2. triples \in Seq(P \X P \X P) /\ Len(triples) = n3
    BY <1>2, TriplesAt
  <2>3. n2 \in Nat /\ n3 \in Nat
    BY <1>2
  <2> HIDE DEF pairs, triples, n2, n3
  <2> QED
    BY <2>1, <2>2, <2>3
<1>4. Calls(users, extra) =
        ((CallsOf("setuid", Single(users, extra)) \o CallsOf("seteuid", Single(users, extra)))
           \o CallsOf("setreuid", pairs)) \o CallsOf("setresuid", triples)
  BY DEF Calls
<1>5. /\ CallsOf("setuid", Single(users, extra)) = [i \in 1 .. m |-> SetIdCall("setuid", <<q[i]>>)]
      /\ CallsOf("seteuid", Single(users, extra)) = [i \in 1 .. m |-> SetIdCall("seteuid", <<q[i]>>)]
  BY <1>2 DEF CallsOf, Single
<1>6. /\ CallsOf("setreuid", pairs) = [x \in 1 .. n2 |-> SetIdCall("setreuid", pairs[x])]
      /\ CallsOf("setresuid", triples) = [x \in 1 .. n3 |-> SetIdCall("setresuid", triples[x])]
  BY <1>3 DEF CallsOf
<1> HIDE DEF m, n, n2, n3, p, q, pairs, triples
<1> DEFINE a     == [i \in 1 .. m |-> SetIdCall("setuid", <<q[i]>>)]
           b     == [i \in 1 .. m |-> SetIdCall("seteuid", <<q[i]>>)]
           two   == [x \in 1 .. n2 |-> SetIdCall("setreuid", pairs[x])]
           three == [x \in 1 .. n3 |-> SetIdCall("setresuid", triples[x])]
           C     == {a[i] : i \in 1 .. m} \cup {b[i] : i \in 1 .. m}
                    \cup {two[x] : x \in 1 .. n2} \cup {three[x] : x \in 1 .. n3}
           ab    == a \o b
           abc   == ab \o two
           all   == abc \o three
<1>7. Calls(users, extra) = all
  BY <1>4, <1>5, <1>6
<1>8. a \in [1 .. m -> C] /\ b \in [1 .. m -> C] /\ two \in [1 .. n2 -> C] /\ three \in [1 .. n3 -> C]
  OBVIOUS
<1>17. /\ \A i \in 1 .. m : /\ a[i] = SetIdCall("setuid", <<q[i]>>)
                            /\ b[i] = SetIdCall("seteuid", <<q[i]>>)
       /\ \A x \in 1 .. n2 : two[x] = SetIdCall("setreuid", pairs[x])
       /\ \A x \in 1 .. n3 : three[x] = SetIdCall("setresuid", triples[x])
  OBVIOUS
<1> HIDE DEF a, b, two, three, C
<1>9. /\ a \in Seq(C) /\ Len(a) = m /\ b \in Seq(C) /\ Len(b) = m
      /\ two \in Seq(C) /\ Len(two) = n2 /\ three \in Seq(C) /\ Len(three) = n3
  BY <1>2, <1>3, <1>8
<1> HIDE DEF all, abc, ab
<1>10. /\ ab \in Seq(C) /\ Len(ab) = m + m
       /\ \A i \in 1 .. m : ab[i] = a[i]
       /\ \A i \in 1 .. m : ab[m + i] = b[i]
  <2>1. ab \in Seq(C)
    BY <1>9 DEF ab
  <2>2. Len(ab) = Len(a) + Len(b)
    BY <1>9, JoinAt DEF ab
  <2>3. \A i \in 1 .. Len(a) : ab[i] = a[i]
    BY <1>9 DEF ab
  <2>4. \A i \in 1 .. Len(b) : ab[Len(a) + i] = b[i]
    BY <1>9, JoinAt DEF ab
  <2> QED
    BY <1>9, <2>1, <2>2, <2>3, <2>4
<1>11. /\ abc \in Seq(C) /\ Len(abc) = m + m + n2
       /\ \A i \in 1 .. m + m : abc[i] = ab[i]
       /\ \A x \in 1 .. n2 : abc[m + m + x] = two[x]
  <2>1. abc \in Seq(C)
    BY <1>9, <1>10 DEF abc
  <2>2. Len(abc) = Len(ab) + Len(two)
    BY <1>9, <1>10, JoinAt DEF abc
  <2>3. \A i \in 1 .. Len(ab) : abc[i] = ab[i]
    BY <1>9, <1>10 DEF abc
  <2>4. \A i \in 1 .. Len(two) : abc[Len(ab) + i] = two[i]
    <3> SUFFICES ASSUME NEW i \in 1 .. Len(two) PROVE abc[Len(ab) + i] = two[i]
      OBVIOUS
    <3>1. ab \in Seq(C) /\ two \in Seq(C)
      BY <1>9, <1>10
    <3> QED
      BY <3>1, SecondAt DEF abc
  <2> QED
    BY <1>9, <1>10, <2>1, <2>2, <2>3, <2>4
<1>12. /\ all \in Seq(C) /\ Len(all) = m + m + n2 + n3
       /\ \A i \in 1 .. m + m + n2 : all[i] = abc[i]
       /\ \A x \in 1 .. n3 : all[m + m + n2 + x] = three[x]
  <2>1. all \in Seq(C)
    BY <1>9, <1>11 DEF all
  <2>2. Len(all) = Len(abc) + Len(three)
    BY <1>9, <1>11, JoinAt DEF all
  <2>3. \A i \in 1 .. Len(abc) : all[i] = abc[i]
    BY <1>9, <1>11 DEF all
  <2>4. \A i \in 1 .. Len(three) : all[Len(abc) + i] = three[i]
    <3> SUFFICES ASSUME NEW i \in 1 .. Len(three) PROVE all[Len(abc) + i] = three[i]
      OBVIOUS
    <3>1. abc \in Seq(C) /\ three \in Seq(C)
      BY <1>9, <1>11
    <3> QED
      BY <3>1, SecondAt DEF all
  <2> QED
    BY <1>9, <1>11, <2>1, <2>2, <2>3, <2>4
<1>13. \A i \in 1 .. m : all[i] = SetIdCall("setuid", <<q[i]>>) /\ all[m + i] = SetIdCall("seteuid", <<q[i]>>)
  <2> SUFFICES ASSUME NEW i \in 1 .. m
               PROVE  all[i] = SetIdCall("setuid", <<q[i]>>) /\ all[m + i] = SetIdCall("seteuid", <<q[i]>>)
    OBVIOUS
  <2>1. all[i] = ab[i] /\ all[m + i] = ab[m + i]
    <3>1. i \in 1 .. m + m /\ m + i \in 1 .. m + m /\ i \in 1 .. m + m + n2 /\ m + i \in 1 .. m + m + n2
      BY <1>2, <1>3
    <3> QED
      BY <1>11, <1>12, <3>1
  <2>2. ab[i] = a[i] /\ ab[m + i] = b[i]
    BY <1>10
  <2> QED
    BY <1>17, <2>1, <2>2
<1>14. \A x \in 1 .. n2 : all[m + m + x] = SetIdCall("setreuid", pairs[x])
  <2> SUFFICES ASSUME NEW x \in 1 .. n2
               PROVE  all[m + m + x] = SetIdCall("setreuid", pairs[x])
    OBVIOUS
  <2>1. m + m + x \in 1 .. m + m + n2
    BY <1>2, <1>3
  <2>2. all[m + m + x] = two[x]
    BY <1>11, <1>12, <2>1
  <2> QED
    BY <1>17, <2>2
<1>15. \A x \in 1 .. n3 : all[m + m + n2 + x] = SetIdCall("setresuid", triples[x])
  <2> QED
    BY <1>12, <1>17
<1>16. DOMAIN all = 1 .. m + m + n2 + n3 /\ Len(all) = m + m + n2 + n3 /\ Calls(users, extra) = all
  BY <1>7, <1>12
<1>18. Listed(all, q, m, p, n)
  BY <1>13, <1>14, <1>15, <1>16 DEF Listed, n2, n3, pairs, triples
<1> QED
  BY <1>1, <1>16, <1>18 DEF P, Q, p, q, m, n

\* One id of Q, or any of P for each of the parameters of the two others.
AskedFor(c, Q, P) ==
  \/ \E a \in Q : c = SetIdCall("setuid", <<a>>) \/ c = SetIdCall("seteuid", <<a>>)
  \/ \E a, b \in P : c = SetIdCall("setreuid", <<a, b>>)
  \/ \E a, b, d \in P : c = SetIdCall("setresuid", <<a, b, d>>)

\* generateAll makes every call and no others.
LEMMA CallsWhich ==
  ASSUME NEW users, NEW extra, IsFiniteSet(users \cup extra), \A x \in users \cup extra : x \in Int,
         NEW Q, Q = users \cup (extra \ {Keep}), NEW P, P = users \cup extra
  PROVE  /\ \A i \in DOMAIN Calls(users, extra) : AskedFor(Calls(users, extra)[i], Q, P)
         /\ \A c : AskedFor(c, Q, P) => \E i \in DOMAIN Calls(users, extra) : Calls(users, extra)[i] = c
<1> DEFINE p == Params(users, extra)
           q == Params(users, extra \ {Keep})
           cs == Calls(users, extra)
           m == Len(q)
           n == Len(p)
           n2 == n * n
           n3 == n * n * n
           pairs == Pairs(p)
           triples == Triples(p)
<1>1. InOrder(p, P) /\ InOrder(q, Q) /\ Listed(cs, q, m, p, n)
  BY CallsAre
<1> HIDE DEF p, q, cs
<1>2. m \in Nat /\ n \in Nat /\ p \in Seq(P)
      /\ (\A i \in 1 .. m : q[i] \in Q) /\ (\A x \in Q : \E i \in 1 .. m : q[i] = x)
      /\ (\A i \in 1 .. n : p[i] \in P) /\ (\A x \in P : \E i \in 1 .. n : p[i] = x)
  BY <1>1 DEF InOrder
<1>3. /\ \A i, j \in 1 .. n : \E x \in 1 .. n2 : pairs[x] = <<p[i], p[j]>>
      /\ \A x \in 1 .. n2 : \E i, j \in 1 .. n : pairs[x] = <<p[i], p[j]>>
  <2> HIDE DEF n
  <2>1. n = Len(p)
    BY DEF n
  <2>2. PairsPlaced(p, n)
    BY <1>2, <2>1, PairsAt
  <2>3. ASSUME NEW i \in 1 .. n, NEW j \in 1 .. n
        PROVE  \E x \in 1 .. n2 : pairs[x] = <<p[i], p[j]>>
    <3>1. (i - 1) * n + j \in 1 .. n2 /\ pairs[(i - 1) * n + j] = <<p[i], p[j]>>
      BY <2>2 DEF PairsPlaced
    <3> QED
      BY <3>1
  <2>4. ASSUME NEW x \in 1 .. n2
        PROVE  \E i, j \in 1 .. n : pairs[x] = <<p[i], p[j]>>
    <3>1. PICK i \in 1 .. n, j \in 1 .. n : x = (i - 1) * n + j
      BY <2>2 DEF PairsPlaced
    <3>2. pairs[x] = <<p[i], p[j]>>
      BY <2>2, <3>1 DEF PairsPlaced
    <3> QED
      BY <3>2
  <2> QED
    BY <2>3, <2>4
<1>4. /\ \A i, j, k \in 1 .. n : \E x \in 1 .. n3 : triples[x] = <<p[i], p[j], p[k]>>
      /\ \A x \in 1 .. n3 : \E i, j, k \in 1 .. n : triples[x] = <<p[i], p[j], p[k]>>
  <2> HIDE DEF n
  <2>1. n = Len(p)
    BY DEF n
  <2>2. TriplesPlaced(p, n)
    BY <1>2, <2>1, TriplesAt
  <2>3. ASSUME NEW i \in 1 .. n, NEW j \in 1 .. n, NEW k \in 1 .. n
        PROVE  \E x \in 1 .. n3 : triples[x] = <<p[i], p[j], p[k]>>
    <3>1. /\ ((i - 1) * n + (j - 1)) * n + k \in 1 .. n3
          /\ triples[((i - 1) * n + (j - 1)) * n + k] = <<p[i], p[j], p[k]>>
      BY <2>2 DEF TriplesPlaced
    <3> QED
      BY <3>1
  <2>4. ASSUME NEW x \in 1 .. n3
        PROVE  \E i, j, k \in 1 .. n : triples[x] = <<p[i], p[j], p[k]>>
    <3>1. PICK i \in 1 .. n, j \in 1 .. n, k \in 1 .. n :
            x = ((i - 1) * n + (j - 1)) * n + k
      BY <2>2 DEF TriplesPlaced
    <3>2. triples[x] = <<p[i], p[j], p[k]>>
      BY <2>2, <3>1 DEF TriplesPlaced
    <3> QED
      BY <3>2
  <2> QED
    BY <2>3, <2>4
<1>5. n2 \in Nat /\ n3 \in Nat
  BY <1>2
<1>6. /\ DOMAIN cs = 1 .. m + m + n2 + n3
      /\ \A i \in 1 .. m : /\ cs[i] = SetIdCall("setuid", <<q[i]>>)
                           /\ cs[m + i] = SetIdCall("seteuid", <<q[i]>>)
      /\ \A x \in 1 .. n2 : cs[m + m + x] = SetIdCall("setreuid", pairs[x])
      /\ \A x \in 1 .. n3 : cs[m + m + n2 + x] = SetIdCall("setresuid", triples[x])
  BY <1>1 DEF Listed
<1> HIDE DEF m, n, n2, n3, pairs, triples
<1>7. ASSUME NEW i \in DOMAIN cs PROVE AskedFor(cs[i], Q, P)
  <2>1. CASE i \in 1 .. m
    BY <1>2, <1>6, <2>1 DEF AskedFor
  <2>2. CASE i \in m + 1 .. m + m
    <3>1. i - m \in 1 .. m /\ m + (i - m) = i
      BY <1>2, <2>2
    <3> QED
      BY <1>2, <1>6, <3>1 DEF AskedFor
  <2>3. CASE i \in m + m + 1 .. m + m + n2
    <3> DEFINE x == i - (m + m)
    <3>1. x \in 1 .. n2 /\ m + m + x = i
      BY <1>2, <1>5, <2>3
    <3> HIDE DEF x
    <3>2. PICK j \in 1 .. n, k \in 1 .. n : pairs[x] = <<p[j], p[k]>>
      BY <1>3, <3>1
    <3>3. cs[i] = SetIdCall("setreuid", <<p[j], p[k]>>) /\ p[j] \in P /\ p[k] \in P
      BY <1>2, <1>6, <3>1, <3>2
    <3> QED
      BY <3>3 DEF AskedFor
  <2>4. CASE i \in m + m + n2 + 1 .. m + m + n2 + n3
    <3> DEFINE x == i - (m + m + n2)
    <3>1. x \in 1 .. n3 /\ m + m + n2 + x = i
      BY <1>2, <1>5, <2>4
    <3> HIDE DEF x
    <3>2. PICK j \in 1 .. n, k \in 1 .. n, l \in 1 .. n : triples[x] = <<p[j], p[k], p[l]>>
      BY <1>4, <3>1
    <3>3. cs[i] = SetIdCall("setresuid", <<p[j], p[k], p[l]>>) /\ p[j] \in P /\ p[k] \in P /\ p[l] \in P
      BY <1>2, <1>6, <3>1, <3>2
    <3> QED
      BY <3>3 DEF AskedFor
  <2> QED
    BY <1>2, <1>5, <1>6, <2>1, <2>2, <2>3, <2>4
<1>8. ASSUME NEW c, AskedFor(c, Q, P) PROVE \E i \in DOMAIN cs : cs[i] = c
  <2>1. ASSUME NEW a \in Q, c = SetIdCall("setuid", <<a>>) \/ c = SetIdCall("seteuid", <<a>>)
        PROVE  \E i \in DOMAIN cs : cs[i] = c
    <3>1. PICK i \in 1 .. m : q[i] = a
      BY <1>2
    <3>2. i \in DOMAIN cs /\ m + i \in DOMAIN cs
      BY <1>2, <1>5, <1>6
    <3> QED
      BY <1>6, <2>1, <3>1, <3>2
  <2>2. ASSUME NEW a \in P, NEW b \in P, c = SetIdCall("setreuid", <<a, b>>)
        PROVE  \E i \in DOMAIN cs : cs[i] = c
    <3>1. PICK i \in 1 .. n, j \in 1 .. n : p[i] = a /\ p[j] = b
      BY <1>2
    <3>2. PICK x \in 1 .. n2 : pairs[x] = <<a, b>>
      BY <1>3, <3>1
    <3>3. m + m + x \in DOMAIN cs
      BY <1>2, <1>5, <1>6
    <3> QED
      BY <1>6, <2>2, <3>2, <3>3
  <2>3. ASSUME NEW a \in P, NEW b \in P, NEW d \in P, c = SetIdCall("setresuid", <<a, b, d>>)
        PROVE  \E i \in DOMAIN cs : cs[i] = c
    <3>1. PICK i \in 1 .. n, j \in 1 .. n, k \in 1 .. n : p[i] = a /\ p[j] = b /\ p[k] = d
      BY <1>2
    <3>2. PICK x \in 1 .. n3 : triples[x] = <<a, b, d>>
      BY <1>4, <3>1
    <3>3. m + m + n2 + x \in DOMAIN cs
      BY <1>2, <1>5, <1>6
    <3> QED
      BY <1>6, <2>3, <3>2, <3>3
  <2> QED
    BY <1>8, <2>1, <2>2, <2>3 DEF AskedFor
<1> QED
  BY <1>7, <1>8 DEF cs
-----------------------------------------------------------------------------
(***************************************************************************)
(* Normalizer.  A renaming keeps 0 and -1 apart from each other and from   *)
(* everything else, and the kernel tells no other ids apart.               *)
(***************************************************************************)
Renames(map, U) ==
  /\ \A x \in U : map[x] \in Int
  /\ 0 \in U /\ Keep \in U /\ map[0] = 0 /\ map[Keep] = Keep
  /\ \A x, y \in U : map[x] = map[y] => x = y

\* One edge for each call that generateAll makes.
OnePerCall(edges, v, U) ==
  /\ \A c : AskedFor(c, U, U) => EdgeOf(v, c) \in edges
  /\ \A e \in edges : \E c : AskedFor(c, U, U) /\ e = EdgeOf(v, c)

\* An exploration tries every call over its ids from a vertex, and nothing else.
LEMMA OutEdgesAre ==
  ASSUME NEW U, IsFiniteSet(U), \A x \in U : x \in Int, Keep \in U, NEW v
  PROVE  OnePerCall(OutEdges(v, Calls(U, ExtraParams)), v, U)
<1>1. U \cup ExtraParams = U /\ U \cup (ExtraParams \ {Keep}) = U
  BY DEF ExtraParams
<1>2. /\ \A i \in DOMAIN Calls(U, ExtraParams) : AskedFor(Calls(U, ExtraParams)[i], U, U)
      /\ \A c : AskedFor(c, U, U) => \E i \in DOMAIN Calls(U, ExtraParams) : Calls(U, ExtraParams)[i] = c
  BY <1>1, CallsWhich
<1> QED
  BY <1>2 DEF OutEdges, OnePerCall

\* The renamed call is allowed when the call is, and leads to the renamed ids.
Follows(d, t, c, v, priv, map) ==
  /\ Allowed(d, t, priv) <=> Allowed(c, v, priv)
  /\ Allowed(c, v, priv) => After(d, t, priv) = MapState(After(c, v, priv), map)
  /\ RefusalErrno(d) = RefusalErrno(c)

\* The kernel treats the renamed call in the renamed state as it did the call.
LEMMA CallRenamed ==
  ASSUME NEW U, NEW map, Renames(map, U), NEW v \in IdTriples(U \ {Keep}), NEW c, AskedFor(c, U, U),
         NEW d, d = MapFunctionCall(c, map), NEW t, t = MapState(v, map), NEW priv \in BOOLEAN
  PROVE  AskedFor(d, {map[x] : x \in U}, {map[x] : x \in U}) /\ Follows(d, t, c, v, priv, map)
<1>1. /\ v.r \in U /\ v.e \in U /\ v.s \in U /\ Keep \in U /\ v = [r |-> v.r, e |-> v.e, s |-> v.s]
      /\ t = [r |-> map[v.r], e |-> map[v.e], s |-> map[v.s]]
      /\ \A x, y \in U : map[x] = map[y] => x = y
      /\ map[Keep] = Keep
  BY DEF Renames, IdTriples, MapState
<1>2. ASSUME NEW a \in U, NEW fn \in {"setuid", "seteuid"}, c = SetIdCall(fn, <<a>>)
      PROVE  AskedFor(d, {map[x] : x \in U}, {map[x] : x \in U}) /\ Follows(d, t, c, v, priv, map)
  <2>1. d = SetIdCall(fn, <<map[a]>>)
    BY <1>2 DEF MapFunctionCall, SetIdCall
  <2>2. c.fn = fn /\ c.args[1] = a /\ d.fn = fn /\ d.args[1] = map[a]
    BY <1>2, <2>1 DEF SetIdCall
  <2>3. AskedFor(d, {map[x] : x \in U}, {map[x] : x \in U})
    BY <2>1 DEF AskedFor
  <2>4. Allowed(d, t, priv) <=> Allowed(c, v, priv)
    BY <1>1, <2>2 DEF Allowed, Own
  <2>5. Allowed(c, v, priv) => After(d, t, priv) = MapState(After(c, v, priv), map)
    BY <1>1, <2>2 DEF Allowed, After, MapState, AllSame
  <2>6. RefusalErrno(d) = RefusalErrno(c)
    BY <1>1, <2>2 DEF RefusalErrno
  <2> QED
    BY <2>3, <2>4, <2>5, <2>6 DEF Follows
<1>3. ASSUME NEW a \in U, NEW b \in U, c = SetIdCall("setreuid", <<a, b>>)
      PROVE  AskedFor(d, {map[x] : x \in U}, {map[x] : x \in U}) /\ Follows(d, t, c, v, priv, map)
  <2>1. d = SetIdCall("setreuid", <<map[a], map[b]>>)
    BY <1>3 DEF MapFunctionCall, SetIdCall
  <2>2. /\ c.fn = "setreuid" /\ c.args[1] = a /\ c.args[2] = b
        /\ d.fn = "setreuid" /\ d.args[1] = map[a] /\ d.args[2] = map[b]
    BY <1>3, <2>1 DEF SetIdCall
  <2>3. AskedFor(d, {map[x] : x \in U}, {map[x] : x \in U})
    BY <2>1 DEF AskedFor
  <2>4. Allowed(d, t, priv) <=> Allowed(c, v, priv)
    BY <1>1, <2>2 DEF Allowed, Own
  <2>5. After(d, t, priv) = MapState(After(c, v, priv), map)
    BY <1>1, <2>2 DEF After, MapState, New
  <2>6. RefusalErrno(d) = RefusalErrno(c)
    BY <2>2 DEF RefusalErrno
  <2> QED
    BY <2>3, <2>4, <2>5, <2>6 DEF Follows
<1>4. ASSUME NEW a \in U, NEW b \in U, NEW x \in U, c = SetIdCall("setresuid", <<a, b, x>>)
      PROVE  AskedFor(d, {map[y] : y \in U}, {map[y] : y \in U}) /\ Follows(d, t, c, v, priv, map)
  <2>1. d = SetIdCall("setresuid", <<map[a], map[b], map[x]>>)
    BY <1>4 DEF MapFunctionCall, SetIdCall
  <2>2. /\ c.fn = "setresuid" /\ c.args[1] = a /\ c.args[2] = b /\ c.args[3] = x
        /\ d.fn = "setresuid" /\ d.args[1] = map[a] /\ d.args[2] = map[b] /\ d.args[3] = map[x]
    BY <1>4, <2>1 DEF SetIdCall
  <2>3. AskedFor(d, {map[y] : y \in U}, {map[y] : y \in U})
    BY <2>1 DEF AskedFor
  <2>4. Allowed(d, t, priv) <=> Allowed(c, v, priv)
    <3>1. \A y \in U : map[y] \in Own(t) \cup {Keep} <=> y \in Own(v) \cup {Keep}
      BY <1>1 DEF Own
    <3>2. Allowed(d, t, priv) <=> priv \/ (map[a] \in Own(t) \cup {Keep} /\ map[b] \in Own(t) \cup {Keep}
                                           /\ map[x] \in Own(t) \cup {Keep})
      BY <2>2 DEF Allowed
    <3>3. Allowed(c, v, priv) <=> priv \/ (a \in Own(v) \cup {Keep} /\ b \in Own(v) \cup {Keep}
                                           /\ x \in Own(v) \cup {Keep})
      BY <2>2 DEF Allowed
    <3> QED
      BY <3>1, <3>2, <3>3
  <2>5. After(d, t, priv) = MapState(After(c, v, priv), map)
    BY <1>1, <2>2 DEF After, MapState, New
  <2>6. RefusalErrno(d) = RefusalErrno(c)
    BY <2>2 DEF RefusalErrno
  <2> QED
    BY <2>3, <2>4, <2>5, <2>6 DEF Follows
<1> QED
  BY <1>2, <1>3, <1>4 DEF AskedFor

\* MapEdge renames the ends of an edge and the parameters of its call.
EdgeRecord(from, to, c, value, err) ==
  [from |-> from, to |-> to, call |-> c, value |-> value, err |-> err]

\* Renaming an edge renames its parts.
LEMMA MapEdgeIs ==
  ASSUME NEW from, NEW to, NEW c, NEW value, NEW err, NEW map
  PROVE  MapEdge(EdgeRecord(from, to, c, value, err), map)
           = EdgeRecord(MapState(from, map), MapState(to, map), MapFunctionCall(c, map), value, err)
<1> DEFINE x == MapState(from, map)
           y == MapState(to, map)
           z == MapFunctionCall(c, map)
           e == EdgeRecord(from, to, c, value, err)
<1>1. MapEdge(e, map) = [e EXCEPT !.from = x, !.to = y, !.call = z]
  BY DEF MapEdge, EdgeRecord
<1> HIDE DEF x, y, z
<1>2. [e EXCEPT !.from = x, !.to = y, !.call = z] = EdgeRecord(x, y, z, value, err)
  <2>1. [e EXCEPT !.from = x] = EdgeRecord(x, to, c, value, err)
    BY DEF EdgeRecord
  <2>2. [EdgeRecord(x, to, c, value, err) EXCEPT !.to = y] = EdgeRecord(x, y, c, value, err)
    BY DEF EdgeRecord
  <2>3. [EdgeRecord(x, y, c, value, err) EXCEPT !.call = z] = EdgeRecord(x, y, z, value, err)
    BY DEF EdgeRecord
  <2>4. [e EXCEPT !.from = x, !.to = y, !.call = z]
          = [[[e EXCEPT !.from = x] EXCEPT !.to = y] EXCEPT !.call = z]
    OBVIOUS
  <2> QED
    BY <2>1, <2>2, <2>3, <2>4
<1> HIDE DEF e
<1>3. MapEdge(e, map) = EdgeRecord(x, y, z, value, err)
  BY <1>1, <1>2, Zenon
<1> QED
  BY <1>3 DEF x, y, z, e

\* The edge of the renamed call from the renamed vertex is the edge, renamed.
LEMMA EdgeRenamed ==
  ASSUME NEW U, NEW map, Renames(map, U), NEW v \in IdTriples(U \ {Keep}), NEW c, AskedFor(c, U, U)
  PROVE  MapEdge(EdgeOf(v, c), map) = EdgeOf(MapState(v, map), MapFunctionCall(c, map))
<1> DEFINE t == MapState(v, map)
           d == MapFunctionCall(c, map)
           priv == v.e = 0
<1>1. (t.e = 0) = priv /\ priv \in BOOLEAN
  BY DEF Renames, IdTriples, MapState
<1>2. t = MapState(v, map) /\ d = MapFunctionCall(c, map)
  OBVIOUS
<1>4. EdgeOf(v, c) = IF Allowed(c, v, priv) THEN EdgeRecord(v, After(c, v, priv), c, 0, "none")
                     ELSE EdgeRecord(v, v, c, -1, RefusalErrno(c))
  BY DEF EdgeOf, EdgeRecord
<1>5. EdgeOf(t, d) = IF Allowed(d, t, t.e = 0) THEN EdgeRecord(t, After(d, t, t.e = 0), d, 0, "none")
                     ELSE EdgeRecord(t, t, d, -1, RefusalErrno(d))
  BY DEF EdgeOf, EdgeRecord
<1> HIDE DEF t, d, priv
<1>6. Follows(d, t, c, v, priv, map)
  BY <1>1, <1>2, CallRenamed
<1>7. CASE Allowed(c, v, priv)
  <2>1. EdgeOf(t, d) = EdgeRecord(t, MapState(After(c, v, priv), map), d, 0, "none")
    BY <1>1, <1>5, <1>6, <1>7 DEF Follows
  <2> QED
    BY <1>2, <1>4, <1>7, <2>1, MapEdgeIs
<1>8. CASE ~Allowed(c, v, priv)
  <2>1. EdgeOf(t, d) = EdgeRecord(t, t, d, -1, RefusalErrno(c))
    BY <1>1, <1>5, <1>6, <1>8 DEF Follows
  <2> QED
    BY <1>2, <1>4, <1>8, <2>1, MapEdgeIs
<1> QED
  BY <1>2, <1>7, <1>8

\* Every call over the new ids is a call over the old ones, renamed.
LEMMA CallIsRenamed ==
  ASSUME NEW U, NEW map, Renames(map, U), NEW N, N = {map[x] : x \in U}, NEW d, AskedFor(d, N, N)
  PROVE  \E c : AskedFor(c, U, U) /\ d = MapFunctionCall(c, map)
<1>1. ASSUME NEW a \in N, NEW fn \in {"setuid", "seteuid"}, d = SetIdCall(fn, <<a>>)
      PROVE  \E c : AskedFor(c, U, U) /\ d = MapFunctionCall(c, map)
  <2>1. PICK x \in U : a = map[x]
    OBVIOUS
  <2>2. d = MapFunctionCall(SetIdCall(fn, <<x>>), map)
    BY <1>1, <2>1 DEF MapFunctionCall, SetIdCall
  <2>3. AskedFor(SetIdCall(fn, <<x>>), U, U)
    BY DEF AskedFor
  <2> QED
    BY <2>2, <2>3
<1>2. ASSUME NEW a \in N, NEW b \in N, d = SetIdCall("setreuid", <<a, b>>)
      PROVE  \E c : AskedFor(c, U, U) /\ d = MapFunctionCall(c, map)
  <2>1. PICK x \in U, y \in U : a = map[x] /\ b = map[y]
    OBVIOUS
  <2>2. d = MapFunctionCall(SetIdCall("setreuid", <<x, y>>), map)
    BY <1>2, <2>1 DEF MapFunctionCall, SetIdCall
  <2>3. AskedFor(SetIdCall("setreuid", <<x, y>>), U, U)
    BY DEF AskedFor
  <2> QED
    BY <2>2, <2>3
<1>3. ASSUME NEW a \in N, NEW b \in N, NEW e \in N, d = SetIdCall("setresuid", <<a, b, e>>)
      PROVE  \E c : AskedFor(c, U, U) /\ d = MapFunctionCall(c, map)
  <2>1. PICK x \in U, y \in U, z \in U : a = map[x] /\ b = map[y] /\ e = map[z]
    OBVIOUS
  <2>2. d = MapFunctionCall(SetIdCall("setresuid", <<x, y, z>>), map)
    BY <1>3, <2>1 DEF MapFunctionCall, SetIdCall
  <2>3. AskedFor(SetIdCall("setresuid", <<x, y, z>>), U, U)
    BY DEF AskedFor
  <2> QED
    BY <2>2, <2>3
<1> QED
  BY <1>1, <1>2, <1>3 DEF AskedFor

\* The edges of a vertex, renamed, are those of the renamed vertex.
LEMMA EdgesRenamed ==
  ASSUME NEW U, IsFiniteSet(U), \A x \in U : x \in Int, NEW map, Renames(map, U),
         NEW N, N = {map[x] : x \in U}, NEW v \in IdTriples(U \ {Keep})
  PROVE  {MapEdge(e, map) : e \in OutEdges(v, Calls(U, ExtraParams))}
           = OutEdges(MapState(v, map), Calls(N, ExtraParams))
<1>0. Keep \in U /\ Keep \in N /\ IsFiniteSet(N) /\ \A x \in N : x \in Int
  <2>1. Keep \in U /\ map[Keep] = Keep /\ \A x \in U : map[x] \in Int
    BY DEF Renames
  <2>2. IsFiniteSet({map[x] : x \in U})
    <3> DEFINE f == [x \in U |-> map[x]]
    <3>1. f \in Surjection(U, {map[x] : x \in U})
      BY DEF Surjection
    <3> QED
      BY <3>1, FS_Surjection
  <2>3. Keep \in N /\ \A x \in N : x \in Int
    BY <2>1
  <2> QED
    BY <2>1, <2>2, <2>3
<1> DEFINE t   == MapState(v, map)
           old == OutEdges(v, Calls(U, ExtraParams))
           new == OutEdges(t, Calls(N, ExtraParams))
<1>1. OnePerCall(old, v, U)
  <2>1. IsFiniteSet(U) /\ (\A x \in U : x \in Int) /\ Keep \in U
    BY <1>0
  <2> QED
    BY <2>1, OutEdgesAre
<1>2. OnePerCall(new, t, N)
  <2> HIDE DEF t
  <2>1. IsFiniteSet(N) /\ (\A x \in N : x \in Int) /\ Keep \in N
    BY <1>0
  <2> QED
    BY <2>1, OutEdgesAre
<1> HIDE DEF old, new
<1>3. ASSUME NEW e \in old PROVE MapEdge(e, map) \in new
  <2>1. PICK c : AskedFor(c, U, U) /\ e = EdgeOf(v, c)
    BY <1>1 DEF OnePerCall
  <2>2. MapEdge(e, map) = EdgeOf(t, MapFunctionCall(c, map))
    BY <2>1, EdgeRenamed
  <2>3. AskedFor(MapFunctionCall(c, map), N, N)
    BY <2>1, CallRenamed
  <2> QED
    BY <1>2, <2>2, <2>3 DEF OnePerCall
<1>4. ASSUME NEW e \in new PROVE \E o \in old : e = MapEdge(o, map)
  <2>1. PICK d : AskedFor(d, N, N) /\ e = EdgeOf(t, d)
    BY <1>2 DEF OnePerCall
  <2>2. PICK c : AskedFor(c, U, U) /\ d = MapFunctionCall(c, map)
    BY <2>1, CallIsRenamed
  <2>3. EdgeOf(v, c) \in old
    BY <1>1, <2>2 DEF OnePerCall
  <2>4. MapEdge(EdgeOf(v, c), map) = EdgeOf(t, MapFunctionCall(c, map))
    BY <2>2, EdgeRenamed
  <2> QED
    BY <2>1, <2>2, <2>3, <2>4
<1> QED
  BY <1>3, <1>4 DEF old, new
-----------------------------------------------------------------------------
(***************************************************************************)
(* The numbering: what is left of uidVect is what has no number, positive  *)
(* ids have the numbers below the counter, and the search has a vertex     *)
(* left to abort at if -1 was not given.                                   *)
(***************************************************************************)
Positive == {u \in DOMAIN uidMap : u > 0}

Numbering ==
  /\ uidSet \in UidSets
  /\ uidVect \in Seq(uidSet)
  /\ \A i, j \in 1 .. Len(uidVect) : uidVect[i] = uidVect[j] => i = j
  /\ DOMAIN uidMap = uidSet \ {uidVect[i] : i \in 1 .. Len(uidVect)}
  /\ uidMap = [u \in DOMAIN uidMap |-> uidMap[u]]

Numbered ==
  /\ counter \in Nat \ {0} /\ counter - 1 = Cardinality(Positive)
  /\ \A u \in DOMAIN uidMap : IF u <= 0 THEN uidMap[u] = u ELSE uidMap[u] \in 1 .. counter - 1
  /\ \A u, w \in Positive : uidMap[u] = uidMap[w] => u = w
  /\ \A n \in 1 .. counter - 1 : \E u \in Positive : uidMap[u] = n

Searching ==
  /\ phase \in {"number", "map", "normalized", "aborted"}
  /\ phase # "number" => uidVect = <<>>
  /\ unvisited \in Seq(IdTriples(uidSet \ {Keep}))
  /\ phase \in {"number", "map"} /\ Keep \notin uidSet => unvisited # <<>>
  /\ phase = "normalized" => Keep \in uidSet

Visited ==
  visited.edges # {} =>
    /\ phase # "number" /\ Keep \in uidSet
    /\ visited.from \in IdTriples(NewUsers \ {Keep})
    /\ visited.edges = OutEdges(visited.from, Calls(NewUsers, ExtraParams))

NormInv == Numbering /\ Numbered /\ Searching /\ Visited

\* The uids numbered are among those given.
LEMMA UidSetIs ==
  ASSUME Numbering
  PROVE  IsFiniteSet(uidSet) /\ (\A u \in uidSet : u \in Int) /\ 0 \in uidSet
BY UidSetsAssumption DEF Numbering

\* What generateUIDMap yields, when it is done, is a renaming.
LEMMA MapRenames ==
  ASSUME Numbering, Numbered, uidVect = <<>>
  PROVE  /\ DOMAIN uidMap = uidSet
         /\ Keep \in uidSet => Renames(uidMap, uidSet)
         /\ \A u \in uidSet : uidMap[u] = Keep => u = Keep
<1>1. DOMAIN uidMap = uidSet
  BY DEF Numbering
<1>2. IsFiniteSet(uidSet) /\ (\A u \in uidSet : u \in Int) /\ 0 \in uidSet
  BY UidSetIs
<1>3. ASSUME NEW u \in uidSet
      PROVE  /\ uidMap[u] \in Int
             /\ u <= 0 => uidMap[u] = u
             /\ u > 0 => uidMap[u] > 0
  BY <1>1, <1>2 DEF Numbered
<1>4. ASSUME NEW u \in uidSet, NEW w \in uidSet, uidMap[u] = uidMap[w] PROVE u = w
  <2>1. u \in Int /\ w \in Int
    BY <1>2
  <2>2. CASE u > 0 /\ w > 0
    BY <1>1, <1>4, <2>2 DEF Numbered, Positive
  <2>3. CASE ~(u > 0 /\ w > 0)
    BY <1>3, <1>4, <2>1, <2>3
  <2> QED
    BY <2>2, <2>3
<1>5. Keep \in Int /\ Keep <= 0 /\ 0 <= 0
  BY DEF Keep
<1>6. \A u \in uidSet : uidMap[u] = Keep => u = Keep
  <2> SUFFICES ASSUME NEW u \in uidSet, uidMap[u] = Keep PROVE u = Keep
    OBVIOUS
  <2>1. u \in Int /\ (u <= 0 => uidMap[u] = u) /\ (u > 0 => uidMap[u] > 0)
    BY <1>2, <1>3
  <2> QED
    BY <2>1 DEF Keep
<1>7. Keep \in uidSet => Renames(uidMap, uidSet)
  BY <1>2, <1>3, <1>4, <1>5 DEF Renames
<1> QED
  BY <1>1, <1>6, <1>7

\* No uid has a number yet, and no vertex has been visited.
LEMMA NormInitInv == NormInit => NormInv
<1> SUFFICES ASSUME NormInit PROVE NormInv
  OBVIOUS
<1>1. IsFiniteSet(uidSet) /\ (\A u \in uidSet : u \in Int) /\ 0 \in uidSet /\ uidSet \in UidSets
  BY UidSetsAssumption DEF NormInit
<1>2. uidVect = Ascending(uidSet) /\ InOrder(uidVect, uidSet)
  BY <1>1, AscendingIs DEF NormInit
<1>3. uidMap = <<>> /\ DOMAIN uidMap = {} /\ uidMap = [u \in DOMAIN uidMap |-> uidMap[u]]
  BY DEF NormInit
<1>4. Numbering
  <2>1. uidVect \in Seq(uidSet) /\ {uidVect[i] : i \in 1 .. Len(uidVect)} = uidSet
    BY <1>2 DEF InOrder
  <2>2. ASSUME NEW i \in 1 .. Len(uidVect), NEW j \in 1 .. Len(uidVect), uidVect[i] = uidVect[j]
        PROVE  i = j
    <3>1. Len(uidVect) \in Nat /\ (i < j => uidVect[i] < uidVect[j]) /\ (j < i => uidVect[j] < uidVect[i])
      BY <1>2 DEF InOrder
    <3>2. uidVect[i] \in Int
      BY <1>1, <1>2 DEF InOrder
    <3> QED
      BY <2>2, <3>1, <3>2
  <2> QED
    BY <1>1, <1>3, <2>1, <2>2 DEF Numbering
<1>5. Numbered
  <2>1. Positive = {} /\ Cardinality({}) = 0
    BY <1>3, FS_EmptySet DEF Positive
  <2> QED
    BY <1>3, <2>1 DEF NormInit, Numbered
<1>6. Searching
  <2> DEFINE ids == uidSet \ {Keep}
             p   == Ascending(ids)
             n   == Len(p)
  <2>1. IsFiniteSet(ids) /\ (\A u \in ids : u \in Int) /\ 0 \in ids
    <3>1. ids \in SUBSET uidSet
      OBVIOUS
    <3> QED
      BY <1>1, <3>1, FS_Subset DEF Keep
  <2>2. InOrder(p, ids)
    <3> HIDE DEF ids
    <3> QED
      BY <2>1, AscendingIs
  <2>3. p \in Seq(ids) /\ n \in Nat /\ n # 0
    <3> HIDE DEF ids, p
    <3>1. n \in Nat /\ p \in Seq(ids) /\ \E i \in 1 .. n : p[i] = 0
      BY <2>1, <2>2 DEF InOrder
    <3> QED
      BY <3>1
  <2>4. Triples(p) \in Seq(ids \X ids \X ids) /\ Len(Triples(p)) = n * n * n
    <3> HIDE DEF p, ids, n
    <3>1. n = Len(p)
      BY DEF n
    <3> QED
      BY <2>3, <3>1, TriplesAt
  <2>5. n * n * n \in Nat /\ n * n * n # 0
    <3> HIDE DEF n
    <3>1. n * n \in Nat /\ n * n # 0
      BY <2>3
    <3> QED
      BY <2>3, <3>1
  <2>6. unvisited \in [1 .. n * n * n -> IdTriples(ids)]
    <3> DEFINE c == Triples(p)
               m == n * n * n
    <3>1. unvisited = [i \in DOMAIN c |-> [r |-> c[i][1], e |-> c[i][2], s |-> c[i][3]]]
      BY DEF NormInit, VisitOrder
    <3> HIDE DEF c, m, ids
    <3>2. c \in Seq(ids \X ids \X ids) /\ Len(c) = m
      BY <2>4 DEF c, m
    <3>3. DOMAIN c = 1 .. m /\ \A i \in 1 .. m : c[i] \in ids \X ids \X ids
      BY <3>2
    <3>4. \A i \in 1 .. m : [r |-> c[i][1], e |-> c[i][2], s |-> c[i][3]] \in IdTriples(ids)
      BY <3>3 DEF IdTriples
    <3>5. unvisited \in [1 .. m -> IdTriples(ids)]
      BY <3>1, <3>3, <3>4
    <3> QED
      BY <3>5 DEF m
  <2>7. unvisited \in Seq(IdTriples(ids)) /\ unvisited # <<>>
    <3> DEFINE m == n * n * n
    <3>1. m \in Nat /\ m # 0 /\ unvisited \in [1 .. m -> IdTriples(ids)]
      BY <2>5, <2>6
    <3> HIDE DEF m, ids
    <3>2. unvisited \in Seq(IdTriples(ids)) /\ Len(unvisited) = m
      BY <3>1
    <3> QED
      BY <3>1, <3>2
  <2> QED
    BY <2>7 DEF NormInit, Searching
<1>7. Visited
  BY DEF NormInit, Visited
<1> QED
  BY <1>4, <1>5, <1>6, <1>7 DEF NormInv

\* generateUIDMap gives the next uid the next number, or keeps it if it is not positive.
LEMMA NumberUidInv == NormInv /\ NumberUid => NormInv'
<1> SUFFICES ASSUME NormInv, NumberUid PROVE NormInv'
  OBVIOUS
<1> DEFINE id == uidVect[1]
           n  == Len(uidVect)
<1>0. Numbering /\ Numbered /\ Searching /\ Visited
  BY DEF NormInv
<1>1. /\ phase = "number" /\ uidVect # <<>>
      /\ UNCHANGED <<phase, uidSet, unvisited, visited>>
      /\ uidVect' = Tail(uidVect)
  BY DEF NumberUid
<1>2. n \in Nat /\ n >= 1 /\ uidVect \in Seq(uidSet)
  BY <1>0, <1>1, EmptySeq, LenProperties DEF Numbering
<1>3. /\ Head(uidVect) = id /\ id \in uidSet
      /\ uidVect' \in Seq(uidSet) /\ Len(uidVect') = n - 1
      /\ \A k \in 1 .. n - 1 : uidVect'[k] = uidVect[k + 1]
  BY <1>1, <1>2, PopQueue
<1>4. /\ uidMap' = [u \in DOMAIN uidMap \cup {id} |->
                      IF u # id THEN uidMap[u] ELSE IF id <= 0 THEN id ELSE counter]
      /\ counter' = IF id <= 0 THEN counter ELSE counter + 1
  BY <1>3 DEF NumberUid
<1> HIDE DEF id, n
<1>5. id \notin DOMAIN uidMap /\ DOMAIN uidMap' = DOMAIN uidMap \cup {id} /\ DOMAIN uidMap \subseteq uidSet
  BY <1>0, <1>2, <1>4 DEF Numbering, id, n
<1>6. IsFiniteSet(uidSet) /\ (\A u \in uidSet : u \in Int) /\ 0 \in uidSet
  BY <1>0, UidSetIs
<1>7. Numbering'
  <2>1. uidSet' \in UidSets /\ uidVect' \in Seq(uidSet')
    BY <1>0, <1>1, <1>3 DEF Numbering
  <2>2. ASSUME NEW i \in 1 .. n - 1, NEW j \in 1 .. n - 1, uidVect'[i] = uidVect'[j] PROVE i = j
    <3>1. i + 1 \in 1 .. n /\ j + 1 \in 1 .. n /\ uidVect[i + 1] = uidVect[j + 1]
      BY <1>2, <1>3, <2>2
    <3>2. i + 1 = j + 1
      BY <1>0, <3>1 DEF Numbering, n
    <3> QED
      BY <1>2, <3>2
  <2>3. {uidVect[i] : i \in 1 .. n} = {uidVect'[i] : i \in 1 .. n - 1} \cup {id}
    <3>1. ASSUME NEW i \in 1 .. n PROVE uidVect[i] \in {uidVect'[j] : j \in 1 .. n - 1} \cup {id}
      <4>1. CASE i = 1
        BY <4>1 DEF id
      <4>2. CASE i # 1
        <5>1. i - 1 \in 1 .. n - 1 /\ (i - 1) + 1 = i
          BY <1>2, <4>2
        <5>2. uidVect'[i - 1] = uidVect[i]
          BY <1>3, <5>1
        <5> QED
          BY <5>1, <5>2
      <4> QED
        BY <4>1, <4>2
    <3>2. ASSUME NEW i \in 1 .. n - 1 PROVE uidVect'[i] \in {uidVect[j] : j \in 1 .. n}
      <4>1. i + 1 \in 1 .. n /\ uidVect'[i] = uidVect[i + 1]
        BY <1>2, <1>3
      <4> QED
        BY <4>1
    <3>3. id \in {uidVect[j] : j \in 1 .. n}
      BY <1>2 DEF id
    <3> QED
      BY <3>1, <3>2, <3>3
  <2>4. id \notin {uidVect'[i] : i \in 1 .. n - 1}
    <3> SUFFICES ASSUME NEW i \in 1 .. n - 1, id = uidVect'[i] PROVE FALSE
      OBVIOUS
    <3>1. i + 1 \in 1 .. n /\ 1 \in 1 .. n /\ uidVect[i + 1] = uidVect[1]
      BY <1>2, <1>3 DEF id
    <3>2. i + 1 = 1
      BY <1>0, <3>1 DEF Numbering, n
    <3> QED
      BY <3>2
  <2>5. DOMAIN uidMap' = uidSet \ {uidVect'[i] : i \in 1 .. n - 1}
    <3>1. DOMAIN uidMap = uidSet \ {uidVect[i] : i \in 1 .. n}
      BY <1>0 DEF Numbering, n
    <3> QED
      BY <1>3, <1>5, <2>3, <2>4, <3>1
  <2>6. uidMap' = [u \in DOMAIN uidMap' |-> uidMap'[u]]
    BY <1>4
  <2> QED
    BY <1>1, <1>3, <2>1, <2>2, <2>5, <2>6 DEF Numbering
<1>8. Numbered'
  <2>1. id \in Int /\ counter \in Nat \ {0} /\ counter - 1 = Cardinality(Positive)
    BY <1>0, <1>3, <1>6 DEF Numbered
  <2>2. \A u \in DOMAIN uidMap : uidMap'[u] = uidMap[u] /\ u \in Int
    BY <1>4, <1>5, <1>6
  <2>3. IsFiniteSet(Positive)
    <3>1. Positive \in SUBSET uidSet
      BY <1>5 DEF Positive
    <3> QED
      BY <1>6, <3>1, FS_Subset
  <2>4. CASE id <= 0
    <3>1. Positive' = Positive /\ counter' = counter /\ uidMap'[id] = id
      BY <1>4, <1>5, <2>1, <2>2, <2>4 DEF Positive
    <3>2. \A u \in Positive : uidMap'[u] = uidMap[u]
      BY <2>2 DEF Positive
    <3> QED
      BY <1>0, <1>5, <2>1, <2>2, <2>4, <3>1, <3>2 DEF Numbered
  <2>5. CASE id > 0
    <3>1. Positive' = Positive \cup {id} /\ counter' = counter + 1 /\ uidMap'[id] = counter
          /\ id \notin Positive
      BY <1>4, <1>5, <2>1, <2>2, <2>5 DEF Positive
    <3>2. counter' - 1 = Cardinality(Positive')
      BY <2>1, <2>3, <3>1, FS_AddElement
    <3>3. \A u \in Positive : uidMap'[u] = uidMap[u] /\ uidMap[u] \in 1 .. counter - 1
      BY <1>0, <2>2 DEF Positive, Numbered
    <3>4. ASSUME NEW u \in DOMAIN uidMap'
          PROVE  IF u <= 0 THEN uidMap'[u] = u ELSE uidMap'[u] \in 1 .. counter' - 1
      BY <1>0, <1>5, <2>1, <2>2, <2>5, <3>1 DEF Numbered
    <3>5. ASSUME NEW u \in Positive', NEW w \in Positive', uidMap'[u] = uidMap'[w] PROVE u = w
      <4>1. CASE u \in Positive /\ w \in Positive
        BY <1>0, <3>3, <3>5, <4>1 DEF Numbered
      <4>2. CASE ~(u \in Positive /\ w \in Positive)
        BY <2>1, <3>1, <3>3, <3>5, <4>2
      <4> QED
        BY <4>1, <4>2
    <3>6. ASSUME NEW k \in 1 .. counter' - 1 PROVE \E u \in Positive' : uidMap'[u] = k
      <4>1. CASE k = counter
        BY <3>1, <4>1
      <4>2. CASE k # counter
        <5>1. k \in 1 .. counter - 1
          BY <2>1, <3>1, <4>2
        <5>2. PICK u \in Positive : uidMap[u] = k
          BY <1>0, <5>1 DEF Numbered
        <5> QED
          BY <3>1, <3>3, <5>2
      <4> QED
        BY <4>1, <4>2
    <3>7. counter' \in Nat \ {0}
      BY <2>1, <3>1
    <3> HIDE DEF id
    <3> QED
      BY <3>2, <3>4, <3>5, <3>6, <3>7 DEF Numbered
  <2> QED
    BY <2>1, <2>4, <2>5
<1>9. Searching'
  BY <1>0, <1>1 DEF Searching
<1>10. Visited'
  BY <1>0, <1>1 DEF Visited
<1> QED
  BY <1>7, <1>8, <1>9, <1>10 DEF NormInv

\* Visiting the edges of a vertex maps each of them by a map that renames.
LEMMA VisitEdgesInv == NormInv /\ VisitEdges => NormInv'
<1> SUFFICES ASSUME NormInv, VisitEdges PROVE NormInv'
  OBVIOUS
<1> DEFINE v == unvisited[1]
<1>0. Numbering /\ Numbered /\ Searching /\ Visited
  BY DEF NormInv
<1>1. /\ phase = "map" /\ unvisited # <<>> /\ uidVect = <<>>
      /\ UNCHANGED <<uidSet, uidVect, uidMap, counter>>
  BY <1>0 DEF VisitEdges, Searching
<1>2. /\ DOMAIN uidMap = uidSet
      /\ Keep \in uidSet => Renames(uidMap, uidSet)
      /\ \A u \in uidSet : uidMap[u] = Keep => u = Keep
  BY <1>0, <1>1, MapRenames
<1>3. Numbering' /\ Numbered'
  BY <1>0, <1>1 DEF Numbering, Numbered, Positive
<1>4. /\ Head(unvisited) = v /\ v \in IdTriples(uidSet \ {Keep})
      /\ Tail(unvisited) \in Seq(IdTriples(uidSet \ {Keep}))
  <2>1. unvisited \in Seq(IdTriples(uidSet \ {Keep})) /\ Len(unvisited) >= 1
    BY <1>0, <1>1, EmptySeq, LenProperties DEF Searching
  <2> QED
    BY <2>1, PopQueue
<1> HIDE DEF v
<1>5. CASE Keep \in uidSet
  <2>1. /\ visited' = [from |-> MapState(v, uidMap),
                       edges |-> {MapEdge(e, uidMap) : e \in OutEdges(v, Calls(uidSet, ExtraParams))}]
        /\ unvisited' = Tail(unvisited) /\ phase' = phase
    BY <1>2, <1>4, <1>5 DEF VisitEdges, ExtraParams
  <2>2. Searching'
    BY <1>0, <1>1, <1>4, <1>5, <2>1 DEF Searching
  <2>3. NewUsers = {uidMap[u] : u \in uidSet} /\ NewUsers' = NewUsers
    BY <1>1, <1>2 DEF NewUsers
  <2>4. MapState(v, uidMap) \in IdTriples(NewUsers \ {Keep})
    BY <1>2, <1>4, <2>3 DEF MapState, IdTriples
  <2>5. {MapEdge(e, uidMap) : e \in OutEdges(v, Calls(uidSet, ExtraParams))}
          = OutEdges(MapState(v, uidMap), Calls(NewUsers, ExtraParams))
    <3>1. IsFiniteSet(uidSet) /\ (\A x \in uidSet : x \in Int) /\ Renames(uidMap, uidSet)
      BY <1>0, <1>2, <1>5, UidSetIs
    <3> QED
      BY <1>4, <2>3, <3>1, EdgesRenamed
  <2>6. Visited'
    BY <1>1, <1>5, <2>1, <2>3, <2>4, <2>5 DEF Visited
  <2> QED
    BY <1>3, <2>2, <2>6 DEF NormInv
<1>6. CASE Keep \notin uidSet
  <2>1. phase' = "aborted" /\ UNCHANGED <<visited, unvisited>>
    BY <1>2, <1>6 DEF VisitEdges, ExtraParams
  <2> QED
    BY <1>0, <1>1, <1>3, <1>6, <2>1 DEF NormInv, Searching, Visited, NewUsers
<1> QED
  BY <1>5, <1>6

\* The numbering goes on as generateUIDMap does, and each vertex is renamed whole.
LEMMA NormNextInv == NormInv /\ [NormNext]_normVars => NormInv'
<1> SUFFICES ASSUME NormInv, [NormNext]_normVars PROVE NormInv'
  OBVIOUS
<1>1. CASE NumberUid
  BY <1>1, NumberUidInv
<1>2. CASE AllNumbered
  BY <1>2 DEF AllNumbered, NormInv, Numbering, Numbered, Positive, Searching, Visited, NewUsers
<1>3. CASE VisitEdges
  BY <1>3, VisitEdgesInv
<1>4. CASE AllVisited
  BY <1>4 DEF AllVisited, NormInv, Numbering, Numbered, Positive, Searching, Visited, NewUsers
<1>5. CASE UNCHANGED normVars
  BY <1>5 DEF normVars, NormInv, Numbering, Numbered, Positive, Searching, Visited, NewUsers
<1> QED
  BY <1>1, <1>2, <1>3, <1>4, <1>5 DEF NormNext
-----------------------------------------------------------------------------
\* The edges collected are those of the vertices visited, renamed.
LEMMA NormInvRenamed == NormInv => RenamedIsExplored
BY DEF NormInv, Visited, RenamedIsExplored

\* The counter is above the numbers given, and 0 is given none.
LEMMA CounterBounded == NormInv => counter \in 1 .. Cardinality(uidSet)
<1> SUFFICES ASSUME NormInv PROVE counter \in 1 .. Cardinality(uidSet)
  OBVIOUS
<1>1. IsFiniteSet(uidSet) /\ (\A u \in uidSet : u \in Int) /\ 0 \in uidSet
  BY UidSetIs DEF NormInv
<1>2. counter \in Nat \ {0} /\ counter - 1 = Cardinality(Positive)
  BY DEF NormInv, Numbered
<1>3. Positive \in SUBSET (uidSet \ {0})
  BY <1>1 DEF NormInv, Numbering, Positive
<1>4. IsFiniteSet(uidSet \ {0}) /\ Cardinality(uidSet \ {0}) = Cardinality(uidSet) - 1
  BY <1>1, FS_RemoveElement
<1>5. Cardinality(Positive) <= Cardinality(uidSet \ {0})
  BY <1>3, <1>4, FS_Subset
<1>6. Cardinality(uidSet) \in Nat
  BY <1>1, FS_CardinalityType
<1> QED
  BY <1>2, <1>4, <1>5, <1>6

\* The new ids are 1 to the last number and the ids that are not positive.
LEMMA NormInvTableIds == NormInv => IdsAreTableIds
<1> SUFFICES ASSUME NormInv, phase = "normalized"
             PROVE  /\ Keep \in NewUsers
                    /\ NewUsers \ {Keep} = 0 .. MaxIdsPrinted <=> uidSet \subseteq Nat \cup {Keep}
  BY DEF IdsAreTableIds
<1>1. Numbering /\ Numbered /\ uidVect = <<>> /\ Keep \in uidSet
  BY DEF NormInv, Searching
<1>2. DOMAIN uidMap = uidSet /\ Renames(uidMap, uidSet) /\ NewUsers = {uidMap[u] : u \in uidSet}
  BY <1>1, MapRenames DEF NewUsers
<1>3. IsFiniteSet(uidSet) /\ (\A u \in uidSet : u \in Int) /\ 0 \in uidSet
  BY <1>1, UidSetIs
<1>4. Keep \in NewUsers /\ 0 \in NewUsers
  BY <1>1, <1>2 DEF Renames
<1>5. counter \in Nat \ {0}
  BY <1>1 DEF Numbered
<1>6. \A u \in uidSet : IF u <= 0 THEN uidMap[u] = u ELSE uidMap[u] \in 1 .. counter - 1
  BY <1>1, <1>2 DEF Numbered
<1>7. \A n \in 1 .. counter - 1 : \E u \in uidSet : uidMap[u] = n
  BY <1>1, <1>2 DEF Numbered, Positive
<1>8. ASSUME uidSet \subseteq Nat \cup {Keep} PROVE NewUsers \ {Keep} = 0 .. MaxIdsPrinted
  <2>1. NewUsers \ {Keep} = 0 .. counter - 1
    <3>1. ASSUME NEW u \in uidSet, uidMap[u] # Keep PROVE uidMap[u] \in 0 .. counter - 1
      <4>1. u \in Nat \cup {Keep} /\ uidMap[Keep] = Keep
        BY <1>2, <1>8 DEF Renames
      <4>2. u \in Nat
        BY <3>1, <4>1
      <4> QED
        BY <1>5, <1>6, <4>2
    <3>2. ASSUME NEW n \in 0 .. counter - 1 PROVE n \in NewUsers \ {Keep}
      <4>1. n # Keep
        BY DEF Keep
      <4>2. CASE n = 0
        BY <1>4, <4>1, <4>2
      <4>3. CASE n # 0
        <5>1. n \in 1 .. counter - 1
          BY <1>5, <4>3
        <5> QED
          BY <1>2, <1>7, <4>1, <5>1
      <4> QED
        BY <4>2, <4>3
    <3> QED
      BY <1>2, <3>1, <3>2
  <2>2. NewUsers \ {Keep, 0} = 1 .. counter - 1
    <3>1. NewUsers \ {Keep, 0} = (0 .. counter - 1) \ {0}
      BY <2>1
    <3> QED
      BY <1>5, <3>1
  <2>3. MaxIdsPrinted = counter - 1
    <3> DEFINE n == counter - 1
    <3>1. n \in Nat
      BY <1>5
    <3> HIDE DEF n
    <3>2. Cardinality(1 .. n) = n
      BY <3>1, FS_Interval
    <3> QED
      BY <2>2, <3>2 DEF MaxIdsPrinted, n
  <2> QED
    BY <2>1, <2>3
<1>9. ASSUME NewUsers \ {Keep} = 0 .. MaxIdsPrinted, NEW u \in uidSet PROVE u \in Nat \cup {Keep}
  <2>1. u \in Int
    BY <1>3
  <2>2. CASE u > 0
    BY <2>1, <2>2
  <2>3. CASE u <= 0
    <3>1. u \in NewUsers
      BY <1>2, <1>6, <2>3
    <3>2. u = Keep \/ u \in 0 .. MaxIdsPrinted
      BY <1>9, <3>1
    <3> QED
      BY <3>2
  <2> QED
    BY <2>1, <2>2, <2>3
<1> QED
  BY <1>4, <1>8, <1>9

\* A caller that may make the call has the edge, and where it leads is a way.
LEMMA WaysAre ==
  ASSUME IsFiniteSet(NewUsers), \A x \in NewUsers : x \in Int, Keep \in NewUsers,
         NEW v, NEW c, AskedFor(c, NewUsers, NewUsers), Allowed(c, v, v.e = 0)
  PROVE  After(c, v, v.e = 0) \in Ways(v)
<1>1. OnePerCall(OutEdges(v, Calls(NewUsers, ExtraParams)), v, NewUsers)
  BY OutEdgesAre
<1>2. EdgeOf(v, c) \in OutEdges(v, Calls(NewUsers, ExtraParams))
  BY <1>1 DEF OnePerCall
<1>3. EdgeOf(v, c).value = 0 /\ EdgeOf(v, c).to = After(c, v, v.e = 0)
  BY DEF EdgeOf
<1> QED
  BY <1>2, <1>3 DEF Ways

\* seteuid(0) and seteuid back are the way there and the way back.
LEMMA NormInvReversible == NormInv => GraphIsReversible
<1> SUFFICES ASSUME NormInv, phase = "map", visited.edges # {},
                    NEW near, near = {e.to : e \in visited.edges},
                    NEW out, out = [w \in near \cup {visited.from} |-> Ways(w)]
             PROVE  V!SomewhatReversible(visited.from, out) /\ V!StartStateHasEdges(visited.from, out)
  BY DEF GraphIsReversible
<1> DEFINE v == visited.from
           N == NewUsers
<1>1. /\ Numbering /\ Numbered /\ uidVect = <<>> /\ Keep \in uidSet
      /\ v \in IdTriples(N \ {Keep}) /\ visited.edges = OutEdges(v, Calls(N, ExtraParams))
  BY DEF NormInv, Searching, Visited
<1>2. IsFiniteSet(N) /\ (\A x \in N : x \in Int) /\ Keep \in N /\ 0 \in N
  <2>1. DOMAIN uidMap = uidSet /\ Renames(uidMap, uidSet) /\ N = {uidMap[u] : u \in uidSet}
    BY <1>1, MapRenames DEF NewUsers
  <2>2. IsFiniteSet(uidSet)
    BY <1>1, UidSetIs
  <2>3. IsFiniteSet({uidMap[u] : u \in uidSet})
    <3> DEFINE f == [x \in uidSet |-> uidMap[x]]
    <3>1. f \in Surjection(uidSet, {uidMap[u] : u \in uidSet})
      BY DEF Surjection
    <3> QED
      BY <2>2, <3>1, FS_Surjection
  <2>4. Keep \in uidSet /\ 0 \in uidSet /\ uidMap[0] = 0 /\ uidMap[Keep] = Keep
        /\ \A x \in uidSet : uidMap[x] \in Int
    BY <2>1 DEF Renames
  <2>5. Keep \in N /\ 0 \in N /\ \A x \in N : x \in Int
    BY <2>1, <2>4
  <2> QED
    BY <2>1, <2>3, <2>5
<1>3. v.r \in N \ {Keep} /\ v.e \in N \ {Keep} /\ v.s \in N \ {Keep} /\ v = [r |-> v.r, e |-> v.e, s |-> v.s]
  BY <1>1 DEF IdTriples
<1>4. Ways(v) = {e.to : e \in {e \in visited.edges : e.value = 0}} /\ Ways(v) \subseteq near
  BY <1>1 DEF Ways
<1> DEFINE keep == SetIdCall("seteuid", <<v.e>>)
<1>5. v \in Ways(v)
  <2>1. AskedFor(keep, N, N)
    BY <1>3 DEF AskedFor
  <2>2. Allowed(keep, v, v.e = 0) /\ After(keep, v, v.e = 0) = v
    BY <1>3 DEF Allowed, After, SetIdCall, Own
  <2> QED
    BY <1>2, <2>1, <2>2, WaysAre
<1>6. ASSUME v.e # 0, 0 \in {v.r, v.s}
      PROVE  \E w \in out[v] : w.e = 0 /\ v \in out[w]
  <2> DEFINE root == SetIdCall("seteuid", <<0>>)
             w    == [v EXCEPT !.e = 0]
  <2>1. AskedFor(root, N, N) /\ AskedFor(keep, N, N)
    BY <1>2, <1>3 DEF AskedFor
  <2>2. Allowed(root, v, v.e = 0) /\ After(root, v, v.e = 0) = w
    BY <1>3, <1>6 DEF Allowed, After, SetIdCall, Own, Keep
  <2>3. w = [r |-> v.r, e |-> 0, s |-> v.s]
    BY <1>3
  <2>4. Allowed(keep, w, w.e = 0) /\ After(keep, w, w.e = 0) = v
    BY <1>3, <2>3 DEF Allowed, After, SetIdCall
  <2>5. w \in Ways(v)
    BY <1>2, <2>1, <2>2, WaysAre
  <2>6. v \in Ways(w)
    BY <1>2, <2>1, <2>4, WaysAre
  <2>7. w \in near /\ out[v] = Ways(v) /\ out[w] = Ways(w)
    BY <1>4, <2>5
  <2> QED
    BY <2>3, <2>5, <2>6, <2>7
<1>7. V!SomewhatReversible(v, out)
  BY <1>6 DEF V!SomewhatReversible
<1>8. V!StartStateHasEdges(v, out)
  BY <1>5 DEF V!StartStateHasEdges
<1> QED
  BY <1>7, <1>8
-----------------------------------------------------------------------------
(***************************************************************************)
(* ModuleGenerator.  Over the ids of the table generateAll puts every call *)
(* in a place of its own, and these are in the order of CallsTo.           *)
(***************************************************************************)
TableIds == (0 .. MaxNormalizedIds) \cup {Keep}
Width    == MaxNormalizedIds + 2

Place1(a)       == a + 2
Place2(a, b)    == (a + 1) * Width + (b + 2)
Place3(a, b, d) == ((a + 1) * Width + (b + 1)) * Width + (d + 2)

Place(c) ==
  IF c.fn = "setuid" THEN Place1(c.args[1])
  ELSE IF c.fn = "seteuid" THEN Width + Place1(c.args[1])
  ELSE IF c.fn = "setreuid" THEN Width + Width + Place2(c.args[1], c.args[2])
  ELSE Width + Width + Width * Width + Place3(c.args[1], c.args[2], c.args[3])

\* -1 comes first, and then every id after the one below it.
LEMMA OrderIs ==
  ASSUME NEW p, InOrder(p, TableIds)
  PROVE  Len(p) = Width /\ \A i \in 1 .. Width : p[i] = i - 2
<1>0. Width \in Nat \ {0, 1} /\ MaxNormalizedIds \in Nat
  BY MaxIdsAssumption DEF Width
<1>1. TableIds = -1 .. MaxNormalizedIds
  BY <1>0 DEF TableIds, Keep
<1>2. \A k \in -1 .. MaxNormalizedIds : Cardinality(-1 .. k) = k + 2
  <2> SUFFICES ASSUME NEW k \in -1 .. MaxNormalizedIds PROVE Cardinality(-1 .. k) = k + 2
    OBVIOUS
  <2>1. k \in Int /\ -1 \in Int /\ -1 <= k
    BY <1>0
  <2>2. Cardinality(-1 .. k) = k - (-1) + 1
    BY <2>1, FS_Interval
  <2> QED
    BY <2>1, <2>2
<1>3. Len(p) = Width
  <2>1. Len(p) = Cardinality(TableIds)
    BY DEF InOrder
  <2> QED
    BY <1>0, <1>1, <1>2, <2>1 DEF Width
<1>4. ASSUME NEW i \in 1 .. Width PROVE p[i] = i - 2
  <2>1. p[i] \in TableIds /\ Cardinality({z \in TableIds : z <= p[i]}) = i
    BY <1>3 DEF InOrder
  <2>2. {z \in TableIds : z <= p[i]} = -1 .. p[i]
    BY <1>0, <1>1, <2>1
  <2>3. p[i] + 2 = i
    BY <1>1, <1>2, <2>1, <2>2
  <2> QED
    BY <1>0, <1>1, <2>1, <2>3
<1> QED
  BY <1>3, <1>4

\* Every call of the table is where Place says, and only there.
LEMMA GraphCallsPlaced ==
  /\ Len(GraphCalls) \in Nat /\ DOMAIN GraphCalls = 1 .. Len(GraphCalls)
  /\ \A x \in 1 .. Len(GraphCalls) : AskedFor(GraphCalls[x], TableIds, TableIds) /\ x = Place(GraphCalls[x])
  /\ \A c : AskedFor(c, TableIds, TableIds) => Place(c) \in 1 .. Len(GraphCalls) /\ GraphCalls[Place(c)] = c
<1> DEFINE n  == Width
           n2 == n * n
           n3 == n * n * n
           g  == GraphCalls
           T  == TableIds
           p  == Params(T, {Keep})
           q  == Params(T, {Keep} \ {Keep})
           pairs == Pairs(p)
           triples == Triples(p)
<1>0. n \in Nat /\ n2 \in Nat /\ n3 \in Nat /\ n >= 2
  BY MaxIdsAssumption DEF Width
<1>1. \A a \in T : a \in Int /\ a + 2 \in 1 .. n /\ (a + 2) - 2 = a
  BY MaxIdsAssumption DEF TableIds, Width, Keep
<1>2. InOrder(p, T) /\ InOrder(q, T) /\ Listed(g, q, Len(q), p, Len(p))
  <2>1. T \cup {Keep} = T /\ T \cup ({Keep} \ {Keep}) = T /\ IsFiniteSet(T) /\ \A x \in T : x \in Int
    <3>1. IsFiniteSet(0 .. MaxNormalizedIds)
      BY MaxIdsAssumption, FS_Interval
    <3> QED
      BY <1>1, <3>1, FS_AddElement DEF TableIds
  <2>2. g = Calls(T, {Keep})
    BY DEF GraphCalls, TableIds
  <2> HIDE DEF T
  <2> QED
    BY <2>1, <2>2, CallsAre
<1>3. Len(p) = n /\ Len(q) = n /\ \A i \in 1 .. n : p[i] = i - 2 /\ q[i] = i - 2
  BY <1>2, OrderIs
<1>4. PairsPlaced(p, n) /\ TriplesPlaced(p, n)
  <2> HIDE DEF p, n
  <2>1. p \in Seq(T) /\ n = Len(p) /\ n \in Nat
    BY <1>0, <1>2, <1>3 DEF InOrder
  <2> QED
    BY <2>1, PairsAt, TriplesAt
<1> HIDE DEF p, q, g
<1>5. /\ DOMAIN g = 1 .. n + n + n2 + n3 /\ Len(g) = n + n + n2 + n3
      /\ \A i \in 1 .. n : /\ g[i] = SetIdCall("setuid", <<q[i]>>)
                           /\ g[n + i] = SetIdCall("seteuid", <<q[i]>>)
      /\ \A x \in 1 .. n2 : g[n + n + x] = SetIdCall("setreuid", pairs[x])
      /\ \A x \in 1 .. n3 : g[n + n + n2 + x] = SetIdCall("setresuid", triples[x])
  BY <1>2, <1>3 DEF Listed
<1>6. ASSUME NEW a \in T
      PROVE  /\ Place1(a) \in 1 .. n
             /\ g[Place1(a)] = SetIdCall("setuid", <<a>>)
             /\ g[n + Place1(a)] = SetIdCall("seteuid", <<a>>)
  <2>1. a + 2 \in 1 .. n /\ q[a + 2] = a
    BY <1>1, <1>3
  <2> QED
    BY <1>5, <2>1 DEF Place1
<1>7. ASSUME NEW a \in T, NEW b \in T
      PROVE  Place2(a, b) \in 1 .. n2 /\ g[n + n + Place2(a, b)] = SetIdCall("setreuid", <<a, b>>)
  <2> DEFINE i == a + 2
             j == b + 2
  <2>1. i \in 1 .. n /\ j \in 1 .. n /\ p[i] = a /\ p[j] = b /\ a + 1 = i - 1
    BY <1>1, <1>3
  <2>2. Place2(a, b) = (i - 1) * n + j
    BY <2>1 DEF Place2
  <2> HIDE DEF i, j, n
  <2>3. Place2(a, b) \in 1 .. n * n /\ pairs[Place2(a, b)] = <<a, b>>
    BY <1>4, <2>1, <2>2 DEF PairsPlaced
  <2> QED
    BY <1>5, <2>3
<1>8. ASSUME NEW a \in T, NEW b \in T, NEW d \in T
      PROVE  Place3(a, b, d) \in 1 .. n3 /\ g[n + n + n2 + Place3(a, b, d)] = SetIdCall("setresuid", <<a, b, d>>)
  <2> DEFINE i == a + 2
             j == b + 2
             k == d + 2
  <2>1. i \in 1 .. n /\ j \in 1 .. n /\ k \in 1 .. n /\ p[i] = a /\ p[j] = b /\ p[k] = d
        /\ a + 1 = i - 1 /\ b + 1 = j - 1
    BY <1>1, <1>3
  <2>2. Place3(a, b, d) = ((i - 1) * n + (j - 1)) * n + k
    BY <2>1 DEF Place3
  <2> HIDE DEF i, j, k, n
  <2>3. Place3(a, b, d) \in 1 .. n * n * n /\ triples[Place3(a, b, d)] = <<a, b, d>>
    <3> DEFINE y == ((i - 1) * n + (j - 1)) * n + k
    <3>1. y \in 1 .. n * n * n /\ Triples(p)[y] = <<p[i], p[j], p[k]>>
      BY <1>4, <2>1 DEF TriplesPlaced
    <3> HIDE DEF y
    <3> QED
      BY <2>1, <2>2, <3>1 DEF y
  <2> QED
    BY <1>5, <2>3
<1>9. ASSUME NEW c, AskedFor(c, T, T)
      PROVE  Place(c) \in 1 .. Len(g) /\ g[Place(c)] = c
  <2> HIDE DEF n, n2, n3, T
  <2>1. ASSUME NEW a \in T, c = SetIdCall("setuid", <<a>>) PROVE Place(c) \in 1 .. Len(g) /\ g[Place(c)] = c
    <3>1. Place(c) = Place1(a)
      BY <2>1 DEF Place, SetIdCall
    <3> QED
      BY <1>0, <1>5, <1>6, <2>1, <3>1
  <2>2. ASSUME NEW a \in T, c = SetIdCall("seteuid", <<a>>) PROVE Place(c) \in 1 .. Len(g) /\ g[Place(c)] = c
    <3>1. Place(c) = n + Place1(a)
      BY <2>2 DEF Place, SetIdCall, n
    <3> QED
      BY <1>0, <1>5, <1>6, <2>2, <3>1
  <2>3. ASSUME NEW a \in T, NEW b \in T, c = SetIdCall("setreuid", <<a, b>>)
        PROVE  Place(c) \in 1 .. Len(g) /\ g[Place(c)] = c
    <3>1. Place(c) = n + n + Place2(a, b)
      BY <2>3 DEF Place, SetIdCall, n
    <3> QED
      BY <1>0, <1>5, <1>7, <2>3, <3>1
  <2>4. ASSUME NEW a \in T, NEW b \in T, NEW d \in T, c = SetIdCall("setresuid", <<a, b, d>>)
        PROVE  Place(c) \in 1 .. Len(g) /\ g[Place(c)] = c
    <3>1. Place(c) = n + n + n2 + Place3(a, b, d)
      BY <2>4 DEF Place, SetIdCall, n, n2
    <3> QED
      BY <1>0, <1>5, <1>8, <2>4, <3>1
  <2> QED
    BY <1>9, <2>1, <2>2, <2>3, <2>4 DEF AskedFor
<1>10. ASSUME NEW x \in 1 .. Len(g)
       PROVE  AskedFor(g[x], T, T) /\ x = Place(g[x])
  <2>0. \A i \in 1 .. n : q[i] \in T /\ p[i] \in T /\ p[i] = i - 2 /\ q[i] = i - 2
    BY <1>2, <1>3 DEF InOrder
  <2> HIDE DEF n, n2, n3, T, pairs, triples
  <2>1. CASE x \in 1 .. n
    <3>1. g[x] = SetIdCall("setuid", <<q[x]>>) /\ q[x] \in T /\ x = q[x] + 2
      BY <1>5, <2>0, <2>1
    <3> QED
      BY <3>1 DEF AskedFor, Place, Place1, SetIdCall
  <2>2. CASE x \in n + 1 .. n + n
    <3> DEFINE i == x - n
    <3>1. i \in 1 .. n /\ n + i = x
      BY <1>0, <2>2
    <3> HIDE DEF i
    <3>2. g[x] = SetIdCall("seteuid", <<q[i]>>) /\ q[i] \in T
      BY <1>5, <2>0, <3>1
    <3>3. q[i] + 2 = i
      BY <1>0, <2>0, <3>1
    <3>4. Place(g[x]) = n + i
      BY <3>2, <3>3 DEF Place, Place1, SetIdCall, n
    <3> QED
      BY <3>1, <3>2, <3>4 DEF AskedFor
  <2>3. CASE x \in n + n + 1 .. n + n + n2
    <3> DEFINE y == x - (n + n)
    <3>1. y \in 1 .. n2 /\ n + n + y = x
      BY <1>0, <2>3
    <3> HIDE DEF y
    <3>2. PICK i \in 1 .. n, j \in 1 .. n : y = (i - 1) * n + j
      BY <1>4, <3>1 DEF PairsPlaced, n2
    <3>3. pairs[y] = <<p[i], p[j]>>
      BY <1>4, <3>2 DEF PairsPlaced, pairs
    <3>4. g[x] = SetIdCall("setreuid", <<p[i], p[j]>>) /\ p[i] \in T /\ p[j] \in T
      BY <1>5, <2>0, <3>1, <3>3
    <3>5. y = Place2(p[i], p[j])
      <4>1. p[i] + 1 = i - 1 /\ p[j] + 2 = j
        BY <1>0, <2>0
      <4> QED
        BY <3>2, <4>1 DEF Place2, n
    <3>6. Place(g[x]) = n + n + Place2(p[i], p[j])
      BY <3>4 DEF Place, SetIdCall, n
    <3> QED
      BY <3>1, <3>4, <3>5, <3>6 DEF AskedFor
  <2>4. CASE x \in n + n + n2 + 1 .. n + n + n2 + n3
    <3> DEFINE y == x - (n + n + n2)
    <3>1. y \in 1 .. n3 /\ n + n + n2 + y = x
      BY <1>0, <2>4
    <3> HIDE DEF y
    <3>2. PICK i \in 1 .. n, j \in 1 .. n, k \in 1 .. n : y = ((i - 1) * n + (j - 1)) * n + k
      BY <1>4, <3>1 DEF TriplesPlaced, n3
    <3>3. triples[y] = <<p[i], p[j], p[k]>>
      BY <1>4, <3>2 DEF TriplesPlaced, triples
    <3>4. g[x] = SetIdCall("setresuid", <<p[i], p[j], p[k]>>) /\ p[i] \in T /\ p[j] \in T /\ p[k] \in T
      BY <1>5, <2>0, <3>1, <3>3
    <3>5. y = Place3(p[i], p[j], p[k])
      <4>1. p[i] + 1 = i - 1 /\ p[j] + 1 = j - 1 /\ p[k] + 2 = k
        BY <1>0, <2>0
      <4> QED
        BY <3>2, <4>1 DEF Place3, n
    <3>6. Place(g[x]) = n + n + n2 + Place3(p[i], p[j], p[k])
      BY <3>4 DEF Place, SetIdCall, n, n2
    <3> QED
      BY <3>1, <3>4, <3>5, <3>6 DEF AskedFor
  <2> QED
    BY <1>0, <1>5, <2>1, <2>2, <2>3, <2>4
<1>11. Len(g) \in Nat /\ DOMAIN g = 1 .. Len(g)
  BY <1>0, <1>5
<1> QED
  BY <1>9, <1>10, <1>11 DEF g
-----------------------------------------------------------------------------
\* CallsTo is in the order of generateAll.
LEMMA CallsToOrdered ==
  ASSUME NEW t \in IdTriples(Normals)
  PROVE  /\ \A i \in 1 .. 12 : AskedFor(CallsTo(t)[i], TableIds, TableIds)
         /\ \A i, j \in 1 .. 12 : i < j => Place(CallsTo(t)[i]) < Place(CallsTo(t)[j])
<1> DEFINE n == Width
           c == CallsTo(t)
           R == t.r + 1
           E == t.e + 1
           S == t.s + 1
           two   == n + n
           three == n + n + n * n
           V2(x, y)    == two + (x * n + y)
           V3(x, y, z) == three + ((x * n + y) * n + z)
           f == <<E + 1, n + (E + 1),
                  two + (E + 1), two + (R * n + 1), two + (R * n + (E + 1)),
                  three + (S + 1), three + (E * n + 1), three + (E * n + (S + 1)),
                  three + ((R * n) * n + 1), three + ((R * n) * n + (S + 1)),
                  three + ((R * n + E) * n + 1), three + ((R * n + E) * n + (S + 1))>>
<1>1. /\ n \in Nat /\ n >= 2 /\ R \in 1 .. n - 1 /\ E \in 1 .. n - 1 /\ S \in 1 .. n - 1
      /\ t.r \in TableIds /\ t.e \in TableIds /\ t.s \in TableIds /\ Keep \in TableIds
      /\ t.r \in Int /\ t.e \in Int /\ t.s \in Int
  BY MaxIdsAssumption DEF IdTriples, Normals, Width, TableIds
<1>2. ASSUME NEW i \in 1 .. 12 PROVE AskedFor(c[i], TableIds, TableIds)
  <2>1. CASE i \in 1 .. 2
    <3>1. c[i] = SetIdCall("setuid", <<t.e>>) \/ c[i] = SetIdCall("seteuid", <<t.e>>)
      BY <2>1 DEF CallsTo
    <3> HIDE DEF c
    <3> QED
      BY <1>1, <3>1 DEF AskedFor
  <2>2. CASE i \in 3 .. 5
    <3>1. \E x \in {Keep, t.r}, y \in {Keep, t.e} : c[i] = SetIdCall("setreuid", <<x, y>>)
      BY <2>2 DEF CallsTo
    <3> QED
      BY <1>1, <3>1 DEF AskedFor
  <2>3. CASE i \in 6 .. 12
    <3>1. \E x \in {Keep, t.r}, y \in {Keep, t.e}, z \in {Keep, t.s} :
            c[i] = SetIdCall("setresuid", <<x, y, z>>)
      <4>1. /\ c[6]  = SetIdCall("setresuid", <<Keep, Keep, t.s>>)
            /\ c[7]  = SetIdCall("setresuid", <<Keep, t.e, Keep>>)
            /\ c[8]  = SetIdCall("setresuid", <<Keep, t.e, t.s>>)
            /\ c[9]  = SetIdCall("setresuid", <<t.r, Keep, Keep>>)
            /\ c[10] = SetIdCall("setresuid", <<t.r, Keep, t.s>>)
            /\ c[11] = SetIdCall("setresuid", <<t.r, t.e, Keep>>)
            /\ c[12] = SetIdCall("setresuid", <<t.r, t.e, t.s>>)
        BY DEF CallsTo
      <4>2. i \in {6, 7, 8, 9, 10, 11, 12}
        BY <2>3
      <4> QED
        BY <4>1, <4>2
    <3>2. {Keep, t.r} \subseteq TableIds /\ {Keep, t.e} \subseteq TableIds /\ {Keep, t.s} \subseteq TableIds
      BY <1>1
    <3> HIDE DEF c
    <3> QED
      BY <3>1, <3>2 DEF AskedFor
  <2> QED
    BY <2>1, <2>2, <2>3
<1>3. \A a, b, d \in TableIds :
        /\ Place(SetIdCall("setuid", <<a>>)) = a + 2
        /\ Place(SetIdCall("seteuid", <<a>>)) = n + (a + 2)
        /\ Place(SetIdCall("setreuid", <<a, b>>)) = V2(a + 1, b + 2)
        /\ Place(SetIdCall("setresuid", <<a, b, d>>)) = V3(a + 1, b + 1, d + 2)
  BY DEF Place, Place1, Place2, Place3, SetIdCall
<1>4. Keep + 1 = 0 /\ Keep + 2 = 1 /\ t.r + 2 = R + 1 /\ t.e + 2 = E + 1 /\ t.s + 2 = S + 1
      /\ t.r + 1 = R /\ t.e + 1 = E /\ t.s + 1 = S
  BY <1>1 DEF Keep
<1>5. n * n \in Nat /\ R * n \in Nat /\ E * n \in Nat /\ (R * n) * n \in Nat /\ (R * n + E) * n \in Nat
  BY <1>1
<1> HIDE DEF n, R, E, S, two, three
<1>6. 0 * n = 0 /\ 0 + 1 = 1 /\ 0 + 0 = 0 /\ R * n + 0 = R * n /\ 0 + E = E
      /\ 0 + (E + 1) = E + 1 /\ 0 + (S + 1) = S + 1
  BY <1>1, <1>5
<1>7. ASSUME NEW i \in 1 .. 12 PROVE Place(c[i]) = f[i]
  <2>1. /\ Place(SetIdCall("setuid", <<t.e>>)) = E + 1
        /\ Place(SetIdCall("seteuid", <<t.e>>)) = n + (E + 1)
    BY <1>1, <1>3, <1>4
  <2>2. /\ Place(SetIdCall("setreuid",  <<Keep, t.e>>)) = two + (E + 1)
        /\ Place(SetIdCall("setreuid",  <<t.r, Keep>>)) = two + (R * n + 1)
        /\ Place(SetIdCall("setreuid",  <<t.r, t.e>>)) = two + (R * n + (E + 1))
    <3>1. /\ V2(0, E + 1) = two + (E + 1) /\ V2(R, 1) = two + (R * n + 1)
          /\ V2(R, E + 1) = two + (R * n + (E + 1))
      BY <1>6
    <3> HIDE DEF V2
    <3>2. /\ Place(SetIdCall("setreuid",  <<Keep, t.e>>)) = V2(Keep + 1, t.e + 2)
          /\ Place(SetIdCall("setreuid",  <<t.r, Keep>>)) = V2(t.r + 1, Keep + 2)
          /\ Place(SetIdCall("setreuid",  <<t.r, t.e>>)) = V2(t.r + 1, t.e + 2)
      BY <1>1, <1>3, Zenon
    <3> QED
      BY <1>4, <3>1, <3>2
  <2>3. /\ Place(SetIdCall("setresuid", <<Keep, Keep, t.s>>)) = three + (S + 1)
        /\ Place(SetIdCall("setresuid", <<Keep, t.e, Keep>>)) = three + (E * n + 1)
        /\ Place(SetIdCall("setresuid", <<Keep, t.e, t.s>>)) = three + (E * n + (S + 1))
    <3>1. /\ V3(0, 0, S + 1) = three + (S + 1) /\ V3(0, E, 1) = three + (E * n + 1)
          /\ V3(0, E, S + 1) = three + (E * n + (S + 1))
      BY <1>6
    <3> HIDE DEF V3
    <3>2. /\ Place(SetIdCall("setresuid", <<Keep, Keep, t.s>>)) = V3(Keep + 1, Keep + 1, t.s + 2)
          /\ Place(SetIdCall("setresuid", <<Keep, t.e, Keep>>)) = V3(Keep + 1, t.e + 1, Keep + 2)
          /\ Place(SetIdCall("setresuid", <<Keep, t.e, t.s>>)) = V3(Keep + 1, t.e + 1, t.s + 2)
      BY <1>1, <1>3, Zenon
    <3> QED
      BY <1>4, <3>1, <3>2
  <2>4. /\ Place(SetIdCall("setresuid", <<t.r, Keep, Keep>>)) = three + ((R * n) * n + 1)
        /\ Place(SetIdCall("setresuid", <<t.r, Keep, t.s>>)) = three + ((R * n) * n + (S + 1))
        /\ Place(SetIdCall("setresuid", <<t.r, t.e, Keep>>)) = three + ((R * n + E) * n + 1)
        /\ Place(SetIdCall("setresuid", <<t.r, t.e, t.s>>)) = three + ((R * n + E) * n + (S + 1))
    <3>1. /\ V3(R, 0, 1) = three + ((R * n) * n + 1) /\ V3(R, 0, S + 1) = three + ((R * n) * n + (S + 1))
          /\ V3(R, E, 1) = three + ((R * n + E) * n + 1)
          /\ V3(R, E, S + 1) = three + ((R * n + E) * n + (S + 1))
      BY <1>6
    <3> HIDE DEF V3
    <3>2. /\ Place(SetIdCall("setresuid", <<t.r, Keep, Keep>>)) = V3(t.r + 1, Keep + 1, Keep + 2)
          /\ Place(SetIdCall("setresuid", <<t.r, Keep, t.s>>)) = V3(t.r + 1, Keep + 1, t.s + 2)
          /\ Place(SetIdCall("setresuid", <<t.r, t.e, Keep>>)) = V3(t.r + 1, t.e + 1, Keep + 2)
          /\ Place(SetIdCall("setresuid", <<t.r, t.e, t.s>>)) = V3(t.r + 1, t.e + 1, t.s + 2)
      BY <1>1, <1>3, Zenon
    <3> QED
      BY <1>4, <3>1, <3>2
  <2> QED
    BY <2>1, <2>2, <2>3, <2>4 DEF CallsTo
<1>8. /\ \A i \in 1 .. 12 : f[i] \in Int
      /\ f[1] < f[2] /\ f[2] < f[3] /\ f[3] < f[4] /\ f[4] < f[5] /\ f[5] < f[6] /\ f[6] < f[7]
      /\ f[7] < f[8] /\ f[8] < f[9] /\ f[9] < f[10] /\ f[10] < f[11] /\ f[11] < f[12]
  <2> DEFINE Rn == R * n
             En == E * n
             nn == n * n
             Rnn == (R * n) * n
  <2>1. Rn >= n /\ En >= n /\ nn >= n /\ Rn <= nn - n /\ En <= nn - n /\ Rnn >= nn
    <3>1. R - 1 \in Nat /\ E - 1 \in Nat /\ n - 1 - R \in Nat /\ n - 1 - E \in Nat /\ n - 1 \in Nat
      BY <1>1
    <3>2. (R - 1) * n >= 0 /\ (E - 1) * n >= 0 /\ (n - 1 - R) * n >= 0 /\ (n - 1 - E) * n >= 0
          /\ (n - 1) * n >= 0
      BY <1>1, <3>1
    <3>3. (R - 1) * nn >= 0
      BY <1>1, <1>5, <3>1
    <3> QED
      BY <1>1, <1>5, <3>2, <3>3
  <2>2. Rn \in Nat /\ En \in Nat /\ nn \in Nat /\ Rnn \in Nat
    BY <1>5
  <2>3. (R * n + E) * n = Rnn + En
    BY <1>1, <1>5
  <2>4. two = n + n /\ three = n + n + nn
    BY DEF two, three
  <2> HIDE DEF Rn, En, nn, Rnn
  <2>5. f = <<E + 1, n + (E + 1),
              two + (E + 1), two + (Rn + 1), two + (Rn + (E + 1)),
              three + (S + 1), three + (En + 1), three + (En + (S + 1)),
              three + (Rnn + 1), three + (Rnn + (S + 1)),
              three + (Rnn + En + 1), three + (Rnn + En + (S + 1))>>
    BY <2>3 DEF Rn, En, Rnn
  <2> HIDE DEF f
  <2> QED
    BY <1>1, <2>1, <2>2, <2>4, <2>5
<1> HIDE DEF f
<1>9. ASSUME NEW i \in 1 .. 12, NEW j \in 1 .. 12, i < j PROVE f[i] < f[j]
  BY <1>8, <1>9
<1> QED
  BY <1>2, <1>7, <1>9

\* None of the calls is the NULL call.
LEMMA AskedForNamed ==
  ASSUME NEW c, NEW Q, NEW P, AskedFor(c, Q, P)
  PROVE  c # NoCall
<1>1. \A fn, args : SetIdCall(fn, args).fn = fn
  BY DEF SetIdCall
<1>2. NoCall.fn = "NULL"
  BY <1>1 DEF NoCall
<1>3. \E fn \in {"setuid", "seteuid", "setreuid", "setresuid"} : \E args : c = SetIdCall(fn, args)
  BY DEF AskedFor
<1> QED
  BY <1>1, <1>2, <1>3

\* A call that changes the state is one of CallsTo.
LEMMA LeadingCall ==
  ASSUME NEW s \in IdTriples(Normals), NEW t \in IdTriples(Normals), s # t,
         NEW c, AskedFor(c, TableIds, TableIds), LeadsTo(c, s, t)
  PROVE  \E i \in 1 .. 12 : c = CallsTo(t)[i]
<1>1. /\ t = [r |-> t.r, e |-> t.e, s |-> t.s] /\ s = [r |-> s.r, e |-> s.e, s |-> s.s]
      /\ Allowed(c, s, s.e = 0) /\ After(c, s, s.e = 0) = t
  BY DEF IdTriples, LeadsTo
<1>2. ASSUME NEW a \in TableIds, NEW fn \in {"setuid", "seteuid"}, c = SetIdCall(fn, <<a>>)
      PROVE  \E i \in 1 .. 12 : c = CallsTo(t)[i]
  <2>1. c.fn = fn /\ c.args[1] = a
    BY <1>2 DEF SetIdCall
  <2>2. a = t.e
    BY <1>1, <2>1 DEF After, AllSame
  <2> QED
    BY <1>2, <2>2 DEF CallsTo
<1>3. ASSUME NEW a \in TableIds, NEW b \in TableIds, c = SetIdCall("setreuid", <<a, b>>)
      PROVE  \E i \in 1 .. 12 : c = CallsTo(t)[i]
  <2>1. c.fn = "setreuid" /\ c.args[1] = a /\ c.args[2] = b
    BY <1>3 DEF SetIdCall
  <2>2. a \in {Keep, t.r} /\ b \in {Keep, t.e} /\ ~(a = Keep /\ b = Keep)
    BY <1>1, <2>1 DEF After, New
  <2> QED
    BY <1>3, <2>2 DEF CallsTo
<1>4. ASSUME NEW a \in TableIds, NEW b \in TableIds, NEW d \in TableIds,
             c = SetIdCall("setresuid", <<a, b, d>>)
      PROVE  \E i \in 1 .. 12 : c = CallsTo(t)[i]
  <2>1. c.fn = "setresuid" /\ c.args[1] = a /\ c.args[2] = b /\ c.args[3] = d
    BY <1>4 DEF SetIdCall
  <2>2. a \in {Keep, t.r} /\ b \in {Keep, t.e} /\ d \in {Keep, t.s} /\ ~(a = Keep /\ b = Keep /\ d = Keep)
    BY <1>1, <2>1 DEF After, New
  <2>3. CallsTo(t)[6] = SetIdCall("setresuid", <<Keep, Keep, t.s>>)
        /\ CallsTo(t)[7] = SetIdCall("setresuid", <<Keep, t.e, Keep>>)
        /\ CallsTo(t)[8] = SetIdCall("setresuid", <<Keep, t.e, t.s>>)
        /\ CallsTo(t)[9] = SetIdCall("setresuid", <<t.r, Keep, Keep>>)
        /\ CallsTo(t)[10] = SetIdCall("setresuid", <<t.r, Keep, t.s>>)
        /\ CallsTo(t)[11] = SetIdCall("setresuid", <<t.r, t.e, Keep>>)
        /\ CallsTo(t)[12] = SetIdCall("setresuid", <<t.r, t.e, t.s>>)
    BY DEF CallsTo
  <2> QED
    BY <1>4, <2>2, <2>3
<1> QED
  BY <1>2, <1>3, <1>4 DEF AskedFor

\* generateCallLists: the head of the sorted list is the first call of StateGraph.
LEMMA FirstOfIs ==
  ASSUME NEW v \in Vertices, NEW w \in Vertices, v # w
  PROVE  /\ FirstOf(v, w) = IF Edge(v, w) THEN FirstCall(v, w) ELSE NoCall
         /\ Edge(v, w) => FirstCall(v, w) # NoCall
<1> DEFINE s == StateOf[v]
           t == StateOf[w]
           g == GraphCalls
           J == {x \in 1 .. Len(g) : LeadsTo(g[x], s, t)}
           I == {i \in 1 .. 12 : LeadsTo(CallsTo(t)[i], s, t)}
<1>1. s \in IdTriples(Normals) /\ t \in IdTriples(Normals) /\ s # t
  BY VertexIsLookup
<1>2. \A x : EdgeOf(s, x).to = t <=> LeadsTo(x, s, t)
  BY <1>1 DEF EdgeOf, LeadsTo
<1>3. FirstOf(v, w) = IF J # {} /\ Min(J) # 0 THEN g[Min(J)] ELSE NoCall
  <2> DEFINE H == {x \in 1 .. Len(g) : EdgeOf(s, g[x]).to = t}
  <2>1. H = J
    BY <1>2
  <2>2. FirstOf(v, w) = LET k == IF H # {} THEN Min(H) ELSE 0 IN IF k = 0 THEN NoCall ELSE g[k]
    BY DEF FirstOf, SelectInSeq
  <2> QED
    BY <2>1, <2>2
<1>4. Adjacent[v][w] = IF I # {} THEN Min(I) ELSE 0
  <2>1. Len(CallsTo(t)) = 12
    BY DEF CallsTo
  <2> QED
    BY <2>1 DEF Adjacent, SelectInSeq
<1>5. Len(g) \in Nat /\ J \in SUBSET Nat /\ 0 \notin J /\ I \in SUBSET Nat /\ 0 \notin I
  BY GraphCallsPlaced
<1>6. ASSUME NEW i \in I
      PROVE  Place(CallsTo(t)[i]) \in J /\ g[Place(CallsTo(t)[i])] = CallsTo(t)[i]
  <2>1. AskedFor(CallsTo(t)[i], TableIds, TableIds)
    BY <1>1, CallsToOrdered
  <2> QED
    BY <2>1, GraphCallsPlaced
<1>7. ASSUME NEW x \in J PROVE \E i \in I : g[x] = CallsTo(t)[i] /\ x = Place(CallsTo(t)[i])
  <2>1. AskedFor(g[x], TableIds, TableIds) /\ x = Place(g[x]) /\ LeadsTo(g[x], s, t)
    BY GraphCallsPlaced
  <2>2. PICK i \in 1 .. 12 : g[x] = CallsTo(t)[i]
    BY <1>1, <2>1, LeadingCall
  <2> QED
    BY <2>1, <2>2
<1>8. CASE I = {}
  <2>1. J = {}
    BY <1>7, <1>8
  <2>2. ~Edge(v, w)
    BY <1>4, <1>8 DEF Edge
  <2> QED
    BY <1>3, <2>1, <2>2
<1>9. CASE I # {}
  <2> DEFINE i == Min(I)
             x == Min(J)
  <2>1. i \in I /\ \A k \in I : i <= k
    BY <1>5, <1>9, FirstExists DEF Min
  <2>2. J # {}
    BY <1>6, <1>9
  <2>3. x \in J /\ \A k \in J : x <= k
    <3> HIDE DEF J
    <3> QED
      BY <1>5, <2>2, FirstExists DEF Min
  <2> HIDE DEF i, x
  <2>4. PICK k \in I : g[x] = CallsTo(t)[k] /\ x = Place(CallsTo(t)[k])
    BY <1>7, <2>3
  <2>5. k = i
    <3>1. x <= Place(CallsTo(t)[i])
      BY <1>6, <2>1, <2>3
    <3>2. i \in 1 .. 12 /\ k \in 1 .. 12 /\ i <= k
      BY <2>1
    <3>3. i < k => Place(CallsTo(t)[i]) < Place(CallsTo(t)[k])
      BY <1>1, <3>2, CallsToOrdered
    <3>4. Place(CallsTo(t)[i]) \in Int /\ x \in Int
      BY <1>5, <1>6, <2>1, <2>3
    <3> QED
      BY <2>4, <3>1, <3>2, <3>3, <3>4
  <2>6. FirstOf(v, w) = CallsTo(t)[i]
    BY <1>3, <1>5, <2>2, <2>3, <2>4, <2>5 DEF x
  <2>7. Edge(v, w) /\ FirstCall(v, w) = CallsTo(t)[i]
    BY <1>4, <1>5, <1>9, <2>1 DEF Edge, FirstCall, i
  <2>8. CallsTo(t)[i] # NoCall
    <3>1. AskedFor(CallsTo(t)[i], TableIds, TableIds)
      BY <1>1, <2>1, CallsToOrdered
    <3> QED
      BY <3>1, AskedForNamed
  <2> QED
    BY <2>6, <2>7, <2>8
<1> QED
  BY <1>8, <1>9
-----------------------------------------------------------------------------
\* The order of the states is that of their numbers.
LEMMA BeforeIff ==
  ASSUME NEW t \in IdTriples(Normals), NEW u \in IdTriples(Normals)
  PROVE  Before(u, t) <=> Lookup(u) < Lookup(t)
<1> DEFINE B  == Base
           tr == t.r
           te == t.e
           ts == t.s
           ur == u.r
           ue == u.e
           us == u.s
           hi == tr * B + te
           lo == ur * B + ue
<1>1. /\ B \in Nat \ {0} /\ tr \in 0 .. B - 1 /\ te \in 0 .. B - 1 /\ ts \in 0 .. B - 1
      /\ ur \in 0 .. B - 1 /\ ue \in 0 .. B - 1 /\ us \in 0 .. B - 1
  BY MaxIdsAssumption DEF IdTriples, Normals, Base
<1>2. Lookup(t) = hi * B + ts /\ Lookup(u) = lo * B + us
  BY DEF Lookup
<1>3. Before(u, t) <=> ur < tr \/ (ur = tr /\ ue < te) \/ (ur = tr /\ ue = te /\ us < ts)
  BY DEF Before
<1> HIDE DEF B, tr, te, ts, ur, ue, us
<1>4. \A x, y \in Nat : \A a, b \in 0 .. B - 1 : (x < y => x * B + a < y * B + b)
  <2> SUFFICES ASSUME NEW x \in Nat, NEW y \in Nat, NEW a \in 0 .. B - 1, NEW b \in 0 .. B - 1, x < y
               PROVE  x * B + a < y * B + b
    OBVIOUS
  <2>1. (y - x - 1) * B >= 0 /\ (y - x - 1) * B = y * B - x * B - B
    <3>1. y - x - 1 \in Nat
      OBVIOUS
    <3> QED
      BY <1>1, <3>1
  <2>2. x * B \in Int /\ y * B \in Int
    BY <1>1
  <2> QED
    BY <1>1, <2>1, <2>2
<1>5. hi \in Nat /\ lo \in Nat
  BY <1>1
<1>6. /\ ur < tr => lo < hi
      /\ tr < ur => hi < lo
  BY <1>1, <1>4
<1>7. /\ ur = tr /\ ue < te => lo < hi
      /\ ur = tr /\ te < ue => hi < lo
      /\ ur = tr /\ ue = te => lo = hi
  <2>1. ur * B \in Int /\ tr * B \in Int
    BY <1>1
  <2> QED
    BY <1>1, <2>1
<1>8. /\ lo < hi => lo * B + us < hi * B + ts
      /\ hi < lo => hi * B + ts < lo * B + us
  <2> HIDE DEF hi, lo
  <2> QED
    BY <1>1, <1>4, <1>5
<1>9. lo = hi => (lo * B + us < hi * B + ts <=> us < ts)
  <2> HIDE DEF hi, lo
  <2>1. lo * B \in Int /\ hi * B \in Int
    BY <1>1, <1>5
  <2> QED
    BY <1>1, <2>1
<1>10. lo * B + us \in Int /\ hi * B + ts \in Int
  <2> HIDE DEF hi, lo
  <2> QED
    BY <1>1, <1>5
<1> HIDE DEF hi, lo
<1> QED
  BY <1>1, <1>2, <1>3, <1>5, <1>6, <1>7, <1>8, <1>9, <1>10

\* streamStateIdxLookup: as many states come before t as Lookup says.
LEMMA StateIdxIs ==
  ASSUME NEW t \in IdTriples(Normals)
  PROVE  StateIdx[t] = Lookup(t)
<1> DEFINE T == {u \in IdTriples(Normals) : Before(u, t)}
           k == Lookup(t)
           f == [v \in 0 .. k - 1 |-> StateOf[v]]
<1>1. k \in Vertices /\ k \in Nat
  BY LookupInverse DEF Vertices
<1>2. \A v \in 0 .. k - 1 : v \in Vertices
  <2>1. Base * Base * Base \in Nat
    BY MaxIdsAssumption DEF Base
  <2> QED
    BY <1>1, <2>1 DEF Vertices
<1>3. \A v \in 0 .. k - 1 : StateOf[v] \in T
  <2> SUFFICES ASSUME NEW v \in 0 .. k - 1 PROVE StateOf[v] \in T
    OBVIOUS
  <2>1. StateOf[v] \in IdTriples(Normals) /\ Lookup(StateOf[v]) = v
    BY <1>2, VertexIsLookup
  <2>2. v < k
    BY <1>1
  <2> QED
    BY <2>1, <2>2, BeforeIff
<1>4. ASSUME NEW u \in T PROVE \E v \in 0 .. k - 1 : f[v] = u
  <2>1. Lookup(u) \in Vertices /\ StateOf[Lookup(u)] = u /\ Lookup(u) < k
    BY LookupInverse, BeforeIff
  <2>2. Lookup(u) \in 0 .. k - 1
    BY <1>1, <2>1 DEF Vertices
  <2> QED
    BY <2>1, <2>2
<1>5. \A v, w \in 0 .. k - 1 : f[v] = f[w] => v = w
  BY <1>2, VertexIsLookup
<1>6. f \in [0 .. k - 1 -> T]
  BY <1>3
<1> HIDE DEF T, f, k
<1>7. f \in Bijection(0 .. k - 1, T)
  BY <1>4, <1>5, <1>6 DEF Bijection, Surjection, Injection, IsInjective
<1>8. IsFiniteSet(0 .. k - 1) /\ Cardinality(0 .. k - 1) = k
  <2>1. 0 \in Int /\ k - 1 \in Int
    BY <1>1
  <2>2. IsFiniteSet(0 .. k - 1) /\ Cardinality(0 .. k - 1) = IF 0 > k - 1 THEN 0 ELSE (k - 1) - 0 + 1
    BY <2>1, FS_Interval
  <2> QED
    BY <1>1, <2>2
<1>9. Cardinality(T) = k
  BY <1>7, <1>8, FS_Bijection DEF ExistsBijection
<1> QED
  BY <1>9 DEF StateIdx, T, k, Normals

(***************************************************************************)
(* The search of a row finds what the row's vertex has an edge to, and, if *)
(* one of these is privileged, everything else by that one.                *)
(***************************************************************************)
\* EdgeIff and ReachedIff for the numbers of the states.
LEMMA VertexEdges ==
  ASSUME NEW v \in Vertices, NEW w \in Vertices
  PROVE  /\ Edge(v, w) <=> StateOf[v].e = 0 \/ Own(StateOf[w]) \subseteq Own(StateOf[v])
         /\ CanSet(v, w) <=> 0 \in Own(StateOf[v]) \/ Own(StateOf[w]) \subseteq Own(StateOf[v])
<1>1. /\ StateOf[v] \in IdTriples(Normals) /\ Lookup(StateOf[v]) = v
      /\ StateOf[w] \in IdTriples(Normals) /\ Lookup(StateOf[w]) = w
  BY VertexIsLookup
<1> QED
  BY <1>1, EdgeIff, ReachedIff

\* The successors that generateCallLists records are the vertices an edge leads to.
LEMMA SuccessorsAre ==
  ASSUME NEW v \in Vertices
  PROVE  /\ Successors[v] \subseteq Vertices
         /\ \A w \in Vertices \ {v} : w \in Successors[v] <=> Edge(v, w)
         /\ \A w \in Vertices \ {v} : CallLists[v][w] = IF Edge(v, w) THEN FirstCall(v, w) ELSE NoCall
<1>1. \A w \in Vertices : CallLists[v][w] = FirstOf(v, w)
  BY DEF CallLists
<1>2. Successors[v] = {w \in Vertices : CallLists[v][w] # NoCall}
  BY DEF Successors
<1>3. ASSUME NEW w \in Vertices \ {v}
      PROVE  /\ FirstOf(v, w) = IF Edge(v, w) THEN FirstCall(v, w) ELSE NoCall
             /\ Edge(v, w) => FirstCall(v, w) # NoCall
  BY FirstOfIs
<1> QED
  BY <1>1, <1>2, <1>3

Near(v) == {w \in Vertices : Edge(v, w)}

RowStarted  == found = {row} /\ pred = [w \in Vertices |-> w]
RowNear     == /\ found = Near(row)
               /\ pred = [w \in Vertices |-> IF w \in Near(row) THEN row ELSE w]
RowEverything ==
  /\ found = Vertices
  /\ \E u \in Near(row) \ {row} :
       /\ StateOf[u].e = 0
       /\ pred = [w \in Vertices |-> IF w \in Near(row) THEN row ELSE u]

Row ==
  found # {} =>
    /\ stage = "rows" /\ row \in Vertices
    /\ cells = CallLists[row]
    /\ CanRegain(row) => jump \in Jumps(row)
    /\ RowStarted \/ RowNear \/ RowEverything

GenInv ==
  /\ stage \in {"waiting", "rows", "generated"}
  /\ row \in Vertices \cup {Cardinality(Vertices)}
  /\ stage = "waiting" => row = 0 /\ found = {}
  /\ stage = "rows" => row \in Vertices
  /\ found \subseteq Vertices
  /\ pred \in [Vertices -> Vertices]
  /\ jump \in Vertices \cup {NoJump}
  /\ Row

\* The vertices are the numbers from 0, and there is at least one.
LEMMA VerticesAre ==
  /\ 0 \in Vertices /\ Cardinality(Vertices) \in Nat /\ Vertices = 0 .. Cardinality(Vertices) - 1
<1> DEFINE n == Base * Base * Base
<1>1. n \in Nat \ {0}
  <2>1. Base \in Nat \ {0}
    BY MaxIdsAssumption DEF Base
  <2>2. Base * Base \in Nat \ {0}
    BY <2>1
  <2> QED
    BY <2>1, <2>2
<1>2. Vertices = 0 .. n - 1
  BY DEF Vertices
<1> HIDE DEF n
<1>3. 0 \in Int /\ n - 1 \in Int
  BY <1>1
<1>4. Cardinality(0 .. n - 1) = IF 0 > n - 1 THEN 0 ELSE (n - 1) - 0 + 1
  BY <1>3, FS_Interval
<1>5. Cardinality(Vertices) = n
  BY <1>1, <1>2, <1>4
<1> QED
  BY <1>1, <1>2, <1>5

\* A state is near itself, and one whose effective id is 0 is near every state.
LEMMA NearAre ==
  ASSUME NEW v \in Vertices
  PROVE  /\ v \in Near(v)
         /\ {v} \cup (Successors[v] \ {v}) = Near(v)
         /\ StateOf[v].e = 0 => Near(v) = Vertices
         /\ \A u \in Near(v) : StateOf[u].e # 0 /\ StateOf[v].e # 0 => Near(u) \subseteq Near(v)
<1>1. v \in Near(v)
  BY VertexEdges DEF Near
<1>2. {v} \cup (Successors[v] \ {v}) = Near(v)
  BY <1>1, SuccessorsAre DEF Near
<1>3. StateOf[v].e = 0 => Near(v) = Vertices
  BY VertexEdges DEF Near
<1>4. ASSUME NEW u \in Near(v), StateOf[u].e # 0, StateOf[v].e # 0, NEW w \in Near(u) PROVE w \in Near(v)
  <2>1. u \in Vertices /\ w \in Vertices /\ Edge(v, u) /\ Edge(u, w)
    BY <1>4 DEF Near
  <2>2. Own(StateOf[u]) \subseteq Own(StateOf[v]) /\ Own(StateOf[w]) \subseteq Own(StateOf[u])
    BY <1>4, <2>1, VertexEdges
  <2>3. Edge(v, w)
    BY <2>1, <2>2, VertexEdges
  <2> QED
    BY <2>1, <2>3 DEF Near
<1> QED
  BY <1>1, <1>2, <1>3, <1>4

\* The generator's assertion: with root's id at the effective place as well, a state is
\* one call away, and can make the call back.
LEMMA JumpExists ==
  ASSUME NEW v \in Vertices, CanRegain(v)
  PROVE  Jumps(v) # {}
<1> DEFINE s == StateOf[v]
           t == [s EXCEPT !.e = 0]
           w == Lookup(t)
<1>1. s \in IdTriples(Normals) /\ 0 \in Normals
  BY VertexIsLookup, MaxIdsAssumption DEF Normals
<1>2. t = [r |-> s.r, e |-> 0, s |-> s.s]
  BY <1>1 DEF IdTriples
<1>3. t \in IdTriples(Normals) /\ t.e = 0 /\ Own(t) \subseteq Own(s)
  BY <1>1, <1>2 DEF IdTriples, Own, CanRegain
<1>4. w \in Vertices /\ StateOf[w] = t
  BY <1>3, LookupInverse
<1>5. w # v
  BY <1>3, <1>4 DEF CanRegain
<1>6. Edge(v, w) /\ Edge(w, v)
  BY <1>3, <1>4, VertexEdges
<1>7. w \in Successors[v] /\ v \in Successors[w]
  BY <1>4, <1>5, <1>6, SuccessorsAre
<1> QED
  BY <1>3, <1>4, <1>7 DEF Jumps

\* A step of the search: what it finds from a vertex found is near or everything.
LEMMA ExpandInv ==
  ASSUME GenInv, NEW u \in Vertices, Expand(u)
  PROVE  GenInv'
<1>1. /\ stage = "rows" /\ u \in found /\ Unknown(u) # {}
      /\ pred' = [w \in Vertices |-> IF w \in Unknown(u) THEN u ELSE pred[w]]
      /\ found' = found \cup Unknown(u)
      /\ UNCHANGED <<stage, row, cells, jump>>
  BY DEF Expand
<1>2. /\ row \in Vertices /\ cells = CallLists[row] /\ (CanRegain(row) => jump \in Jumps(row))
      /\ RowStarted \/ RowNear \/ RowEverything
  BY <1>1 DEF GenInv, Row
<1>3. Unknown(u) = Near(u) \ found
  BY <1>1, NearAre DEF Unknown
<1>4. Near(u) \subseteq Vertices /\ Near(row) \subseteq Vertices /\ row \in Near(row)
  BY <1>2, NearAre DEF Near
<1>5. found' # {} /\ found' \subseteq Vertices /\ pred' \in [Vertices -> Vertices]
  BY <1>1, <1>3, <1>4 DEF GenInv
<1>6. (RowStarted \/ RowNear \/ RowEverything)'
  <2>1. CASE RowStarted
    <3>1. u = row /\ found' = Near(row)
      BY <1>1, <1>3, <1>4, <2>1 DEF RowStarted
    <3>2. pred' = [w \in Vertices |-> IF w \in Near(row) THEN row ELSE w]
      BY <1>1, <1>3, <2>1, <3>1 DEF RowStarted
    <3>3. Near(row)' = Near(row)
      BY <1>1 DEF Near
    <3> QED
      BY <1>1, <3>1, <3>2, <3>3 DEF RowNear
  <2>2. CASE RowNear
    <3>1. u \in Near(row) /\ u # row
      BY <1>1, <1>3, <2>2 DEF RowNear
    <3>2. StateOf[row].e # 0
      <4> SUFFICES ASSUME StateOf[row].e = 0 PROVE FALSE
        OBVIOUS
      <4>1. Near(row) = Vertices
        BY <1>2, NearAre
      <4> QED
        BY <1>1, <1>3, <1>4, <2>2, <4>1 DEF RowNear
    <3>3. StateOf[u].e = 0
      <4> SUFFICES ASSUME StateOf[u].e # 0 PROVE FALSE
        OBVIOUS
      <4>1. Near(u) \subseteq Near(row)
        BY <1>2, <3>1, <3>2, NearAre
      <4> QED
        BY <1>1, <1>3, <2>2, <4>1 DEF RowNear
    <3>4. Near(u) = Vertices
      BY <3>3, NearAre
    <3>5. found' = Vertices
      BY <1>1, <1>3, <1>4, <2>2, <3>4 DEF RowNear
    <3>6. pred' = [w \in Vertices |-> IF w \in Near(row) THEN row ELSE u]
      BY <1>1, <1>3, <2>2, <3>4 DEF RowNear
    <3>7. Near(row)' = Near(row) /\ row' = row
      BY <1>1 DEF Near
    <3> QED
      BY <3>1, <3>3, <3>5, <3>6, <3>7 DEF RowEverything
  <2>3. CASE RowEverything
    BY <1>1, <1>3, <1>4, <2>3 DEF RowEverything
  <2> QED
    BY <1>2, <2>1, <2>2, <2>3
<1>7. Row'
  <2>1. (CanRegain(row))' = CanRegain(row) /\ (Jumps(row))' = Jumps(row) /\ (CallLists[row])' = CallLists[row]
    BY <1>1 DEF CanRegain, Jumps
  <2> QED
    BY <1>1, <1>2, <1>6, <2>1 DEF Row
<1> QED
  BY <1>1, <1>2, <1>5, <1>7 DEF GenInv

\* Each step of the generator leaves a row that is started, near or everything.
LEMMA GenNextInv == GenInv /\ [GenNext]_genVars => GenInv'
<1> SUFFICES ASSUME GenInv, [GenNext]_genVars PROVE GenInv'
  OBVIOUS
<1>1. CASE StartRow
  <2>1. /\ stage = "rows" /\ row \in Vertices
        /\ cells' = CallLists[row]
        /\ IF CanRegain(row) THEN jump' \in Jumps(row) ELSE jump' = NoJump
        /\ pred'  = [w \in Vertices |-> w] /\ found' = {row} /\ stage' = stage /\ row' = row
    BY <1>1, JumpExists DEF StartRow
  <2>2. Jumps(row) \subseteq Vertices
    BY <2>1, SuccessorsAre DEF Jumps
  <2>3. (CanRegain(row))' = CanRegain(row) /\ (Jumps(row))' = Jumps(row) /\ (CallLists[row])' = CallLists[row]
    BY <2>1 DEF CanRegain, Jumps
  <2>4. Row'
    BY <2>1, <2>3 DEF Row, RowStarted
  <2> QED
    BY <2>1, <2>2, <2>4 DEF GenInv
<1>2. ASSUME NEW u \in Vertices, Expand(u) PROVE GenInv'
  BY <1>2, ExpandInv
<1>3. CASE EndRow
  <2>1. stage = "rows" /\ row \in Vertices /\ row' = row + 1 /\ found' = {} /\ jump' = NoJump
        /\ pred' = [w \in Vertices |-> w] /\ stage' = IF row' \in Vertices THEN "rows" ELSE "generated"
    BY <1>3 DEF EndRow, GenInv
  <2>2. row' \in Vertices \cup {Cardinality(Vertices)}
    BY <2>1, VerticesAre
  <2> QED
    BY <2>1, <2>2 DEF GenInv, Row
<1>4. CASE UNCHANGED genVars
  <2>1. UNCHANGED <<stage, row, cells, pred, found, jump>>
    BY <1>4 DEF genVars
  <2> QED
    BY <2>1 DEF GenInv, Row, RowStarted, RowNear, RowEverything, CanRegain, Jumps, Near
<1> QED
  BY <1>1, <1>2, <1>3, <1>4 DEF GenNext
-----------------------------------------------------------------------------
\* The cells of a row are the first calls of the walker's model.
LEMMA GenInvAdjacency == GenInv => AdjacencyAgrees
<1> SUFFICES ASSUME GenInv, found # {}
             PROVE  /\ StateIdx[StateOf[row]] = Lookup(StateOf[row])
                    /\ \A w \in Vertices \ {row} :
                         cells[w] = IF Edge(row, w) THEN FirstCall(row, w) ELSE NoCall
  BY DEF AdjacencyAgrees
<1>1. row \in Vertices /\ cells = CallLists[row]
  BY DEF GenInv, Row
<1>2. StateIdx[StateOf[row]] = Lookup(StateOf[row])
  BY <1>1, VertexIsLookup, StateIdxIs
<1> QED
  BY <1>1, <1>2, SuccessorsAre

\* A jump is a stop on the way to everything; a state without one has no stop at all.
LEMMA GenInvJumps == GenInv => JumpsAreStops
<1> SUFFICES ASSUME GenInv, found # {}, StateOf[row].e # 0, NEW w \in Vertices
             PROVE  Attainable(row, w) <=> jump \in Stops(row, w)
  BY DEF JumpsAreStops, GenInv
<1>1. row \in Vertices /\ (CanRegain(row) => jump \in Jumps(row))
  BY DEF GenInv, Row
<1>2. Attainable(row, w) <=> Stops(row, w) # {}
  BY <1>1 DEF Attainable, AttainableFrom
<1>3. Stops(row, w) = {p \in Vertices : StateOf[p].e = 0 /\ CanSet(row, p) /\ CanSet(p, w)}
  BY DEF Stops, EffectivePrivileged, CanSet
<1>4. CASE CanRegain(row)
  <2>1. jump \in Successors[row] /\ StateOf[jump].e = 0
    BY <1>1, <1>4 DEF Jumps
  <2>2. jump \in Vertices
    BY <1>1, <2>1, SuccessorsAre
  <2>3. 0 \in Own(StateOf[row]) /\ 0 \in Own(StateOf[jump])
    BY <1>4, <2>1 DEF CanRegain, Own
  <2>4. CanSet(row, jump) /\ CanSet(jump, w)
    BY <1>1, <2>2, <2>3, VertexEdges
  <2> QED
    BY <1>2, <1>3, <2>1, <2>2, <2>4
<1>5. CASE ~CanRegain(row)
  <2>1. 0 \notin Own(StateOf[row])
    BY <1>5 DEF CanRegain, Own
  <2>2. \A p \in Vertices : StateOf[p].e = 0 => ~CanSet(row, p)
    BY <1>1, <2>1, VertexEdges DEF Own
  <2> QED
    BY <1>2, <1>3, <2>2
<1> QED
  BY <1>4, <1>5

\* When the search has ended, the vertices it has not found cannot be set.
LEMMA GenInvWalks == GenInv => RowsAreWalks
<1> SUFFICES ASSUME GenInv, stage = "rows", RowSearched, NEW w \in Vertices
             PROVE  /\ CanSet(row, w) <=> w = row \/ pred[w] # w
                    /\ CanSet(row, w) => pred[pred[w]] = row /\ WalkTo(w) \in Walks(row, w)
  BY DEF RowsAreWalks
<1> DEFINE s == StateOf[row]
<1>1. /\ row \in Vertices /\ cells = CallLists[row]
      /\ RowStarted \/ RowNear \/ RowEverything
      /\ \A u \in found : Unknown(u) = {}
  BY DEF GenInv, Row, RowSearched
<1>2. /\ row \in Near(row) /\ (s.e = 0 => Near(row) = Vertices)
      /\ {row} \cup (Successors[row] \ {row}) = Near(row)
  BY <1>1, NearAre
<1>3. \A u \in Vertices : Successors[u] \subseteq found \cup {u} => Near(u) \subseteq found \cup {u}
  BY NearAre
<1>4. \A u \in found : Near(u) \subseteq found
  <2> SUFFICES ASSUME NEW u \in found PROVE Near(u) \subseteq found
    OBVIOUS
  <2>1. u \in Vertices /\ Successors[u] \subseteq found
    BY <1>1 DEF GenInv, Unknown
  <2> QED
    BY <1>3, <2>1
\* A vertex that is near, or the row's own.
<1>5. ASSUME w \in Near(row), w # row => pred[w] = row, pred[row] = row
      PROVE  /\ CanSet(row, w) /\ (w = row \/ pred[w] # w)
             /\ pred[pred[w]] = row /\ WalkTo(w) \in Walks(row, w)
  <2>1. Edge(row, w) /\ CanSet(row, w)
    <3>1. Edge(row, w)
      BY <1>5 DEF Near
    <3> QED
      BY <1>1, <3>1, VertexEdges DEF Own
  <2>2. CASE w = row
    BY <1>5, <2>1, <2>2 DEF WalkTo, Walks
  <2>3. CASE w # row
    <3>1. cells[w] = FirstCall(row, w)
      BY <1>1, <2>1, <2>3, SuccessorsAre
    <3>2. WalkTo(w) = <<FirstCall(row, w)>> /\ Walks(row, w) = {<<FirstCall(row, w)>>}
      BY <1>5, <2>1, <2>3, <3>1 DEF WalkTo, Walks
    <3> QED
      BY <1>5, <2>1, <2>3, <3>2
  <2> QED
    BY <2>2, <2>3
\* One that is not, and not found.
<1>6. ASSUME w \notin Near(row), found = Near(row)
      PROVE  ~CanSet(row, w)
  <2> SUFFICES ASSUME CanSet(row, w) PROVE FALSE
    OBVIOUS
  <2>1. s.e # 0 /\ ~Edge(row, w)
    BY <1>2, <1>6 DEF Near
  <2>2. 0 \in Own(s)
    BY <1>1, <2>1, VertexEdges
  <2>3. s \in IdTriples(Normals) /\ Lookup(s) = row /\ 0 \in Normals
    BY <1>1, VertexIsLookup, MaxIdsAssumption DEF Normals
  <2> DEFINE t == [s EXCEPT !.e = 0]
             u == Lookup(t)
  <2>4. t \in IdTriples(Normals) /\ t.e = 0 /\ Own(t) \subseteq Own(s)
    <3>1. t = [r |-> s.r, e |-> 0, s |-> s.s]
      BY <2>3 DEF IdTriples
    <3> QED
      BY <2>2, <2>3, <3>1 DEF IdTriples, Own
  <2>5. u \in Vertices /\ StateOf[u] = t
    BY <2>4, LookupInverse
  <2>6. u \in Near(row)
    BY <1>1, <2>4, <2>5, VertexEdges DEF Near
  <2>7. Near(u) = Vertices
    BY <2>4, <2>5, NearAre
  <2> QED
    BY <1>4, <1>6, <2>6, <2>7
<1>7. CASE RowStarted
  <2>1. found = Near(row) /\ pred[row] = row /\ pred[w] = w
    BY <1>1, <1>2, <1>4, <1>7 DEF RowStarted
  <2>2. w \in Near(row) => w = row
    BY <1>7, <2>1 DEF RowStarted
  <2>3. w # row => ~CanSet(row, w)
    BY <1>2, <1>6, <1>7, <2>1, <2>2 DEF RowStarted
  <2> QED
    BY <1>2, <1>5, <2>1, <2>3
<1>8. CASE RowNear
  <2>1. found = Near(row) /\ pred[row] = row /\ pred[w] = IF w \in Near(row) THEN row ELSE w
    BY <1>1, <1>2, <1>8 DEF RowNear
  <2>2. CASE w \in Near(row)
    BY <1>5, <2>1, <2>2
  <2>3. CASE w \notin Near(row)
    BY <1>2, <1>6, <2>1, <2>3
  <2> QED
    BY <2>2, <2>3
<1>9. CASE RowEverything
  <2>1. PICK u \in Near(row) \ {row} :
           /\ StateOf[u].e = 0
           /\ pred = [x \in Vertices |-> IF x \in Near(row) THEN row ELSE u]
    BY <1>9 DEF RowEverything
  <2>2. u \in Vertices /\ Edge(row, u) /\ pred[u] = row /\ pred[row] = row
    BY <1>1, <1>2, <2>1 DEF Near
  <2>3. CASE w \in Near(row)
    BY <1>5, <2>1, <2>2, <2>3
  <2>4. CASE w \notin Near(row)
    <3>1. pred[w] = u /\ w # u /\ w # row /\ ~Edge(row, w) /\ s.e # 0
      BY <1>2, <2>1, <2>4 DEF Near
    <3>2. Own(StateOf[u]) \subseteq Own(s)
      BY <1>1, <2>2, <3>1, VertexEdges
    <3>3. 0 \in Own(s)
      BY <2>1, <3>2 DEF Own
    <3>4. CanSet(row, w) /\ Edge(u, w)
      BY <1>1, <2>1, <2>2, <3>3, VertexEdges
    <3>5. u \in Middles(row, w)
      <4>1. StateOf[u] \in IdTriples(Normals) /\ Lookup(StateOf[u]) = u
        BY <2>2, VertexIsLookup
      <4>2. StateOf[u] \in IdTriples(Own(s))
        BY <3>2, <4>1 DEF IdTriples, Own
      <4>3. u \in OwnStates[row]
        BY <1>1, <4>1, <4>2 DEF OwnStates
      <4> QED
        BY <2>2, <3>4, <4>3 DEF Middles
    <3>6. cells[u] = FirstCall(row, u) /\ CallLists[u][w] = FirstCall(u, w)
      BY <1>1, <2>1, <2>2, <3>1, <3>4, SuccessorsAre
    <3>7. WalkTo(w) = <<FirstCall(row, u), FirstCall(u, w)>>
      BY <2>1, <3>1, <3>6 DEF WalkTo
    <3>8. WalkTo(w) \in Walks(row, w)
      BY <3>1, <3>5, <3>7 DEF Walks
    <3> QED
      BY <2>2, <3>1, <3>4, <3>8
  <2> QED
    BY <2>3, <2>4
<1> QED
  BY <1>1, <1>7, <1>8, <1>9
-----------------------------------------------------------------------------
(***************************************************************************)
(* The tool chain.  The programs share no variables, so each invariant is  *)
(* kept by the steps of the others.                                        *)
(***************************************************************************)
ToolInv == NormInv /\ GenInv /\ SlotsInv

\* Each program starts in a state that its invariant allows.
LEMMA ToolInitInv == ToolInit => ToolInv
<1> SUFFICES ASSUME ToolInit PROVE ToolInv
  OBVIOUS
<1>1. NormInv /\ SlotsInv
  BY NormInitInv, SlotsInitInv DEF ToolInit
<1>2. GenInv
  BY VerticesAre DEF ToolInit, GenInit, GenInv, Row
<1> QED
  BY <1>1, <1>2 DEF ToolInv

\* A step of one program leaves the variables of the others alone.
LEMMA ToolNextInv == ToolInv /\ [ToolNext]_toolVars => ToolInv'
<1> SUFFICES ASSUME ToolInv, [ToolNext]_toolVars PROVE ToolInv'
  OBVIOUS
<1>0. NormInv /\ GenInv /\ SlotsInv
  BY DEF ToolInv
<1>1. ASSUME UNCHANGED normVars PROVE NormInv'
  BY <1>0, <1>1, NormNextInv
<1>2. ASSUME UNCHANGED genVars PROVE GenInv'
  BY <1>0, <1>2, GenNextInv
<1>3. ASSUME UNCHANGED callVars PROVE SlotsInv'
  BY <1>0, <1>3, SlotsNextInv
<1>4. CASE Normalize
  <2>1. NormInv'
    BY <1>0, <1>4, NormNextInv DEF Normalize
  <2> QED
    BY <1>2, <1>3, <1>4, <2>1 DEF Normalize, ToolInv
<1>5. CASE GenerateCode
  <2>1. /\ stage = "waiting" /\ stage' = "rows" /\ UNCHANGED <<row, cells, pred, found, jump>>
        /\ UNCHANGED normVars /\ UNCHANGED callVars
    BY <1>5 DEF GenerateCode
  <2>2. GenInv'
    BY <1>0, <2>1, VerticesAre DEF GenInv, Row
  <2> QED
    BY <1>1, <1>3, <2>1, <2>2 DEF ToolInv
<1>6. CASE Generate
  <2>1. GenInv'
    BY <1>0, <1>6, GenNextInv DEF Generate
  <2> QED
    BY <1>1, <1>3, <1>6, <2>1 DEF Generate, ToolInv
<1>7. CASE RunVerification
  <2>1. SlotsInv'
    BY <1>0, <1>7, SlotsNextInv DEF RunVerification
  <2> QED
    BY <1>1, <1>2, <1>7, <2>1 DEF RunVerification, ToolInv
<1>8. CASE UNCHANGED toolVars
  BY <1>1, <1>2, <1>3, <1>8 DEF toolVars, ToolInv
<1> QED
  BY <1>4, <1>5, <1>6, <1>7, <1>8 DEF ToolNext, Finished

\* The three programs keep what each keeps alone.
THEOREM ToolInvariant == ToolSpec => []ToolInv
BY ToolInitInv, ToolNextInv, PTL DEF ToolSpec

\* ids are ints, table entries vertices, and the counter never passes the number
\* of the uids, whatever uids are given and however many ids the table has.
THEOREM ToolTypeCorrect == ToolSpec => []ToolTypeOK
<1>1. ToolInv => ToolTypeOK
  <2> SUFFICES ASSUME ToolInv PROVE ToolTypeOK
    OBVIOUS
  <2>1. NormInv /\ GenInv /\ CallTypeOK
    BY DEF ToolInv, SlotsInv, CallInv
  <2>2. counter \in 1 .. Cardinality(uidSet)
    BY <2>1, CounterBounded
  <2>3. uidMap \in [DOMAIN uidMap -> Int] /\ DOMAIN uidMap \subseteq uidSet
    <3>1. Numbering /\ Numbered /\ (\A u \in uidSet : u \in Int)
      BY <2>1, UidSetIs DEF NormInv
    <3>2. DOMAIN uidMap \subseteq uidSet /\ uidMap = [u \in DOMAIN uidMap |-> uidMap[u]]
      BY <3>1 DEF Numbering
    <3>3. \A u \in DOMAIN uidMap : uidMap[u] \in Int
      BY <3>1, <3>2 DEF Numbered
    <3> QED
      BY <3>2, <3>3
  <2> QED
    BY <2>1, <2>2, <2>3 DEF ToolTypeOK, NormInv, Searching, GenInv
<1> QED
  BY <1>1, ToolInvariant, PTL

\* For every set of uids: the graph NormalizeGraph writes is, edge by edge, the one
\* an exploration with the small ids would yield.
THEOREM RenamedGraphIsExplored == ToolSpec => []RenamedIsExplored
<1>1. ToolInv => RenamedIsExplored
  BY NormInvRenamed DEF ToolInv
<1> QED
  BY <1>1, ToolInvariant, PTL

\* A normalisation that ends was given -1, and yields the ids 0..MAX_NORMALIZED_IDS
\* exactly if no uid was below -1.
THEOREM NormalizedIdsAreTableIds == ToolSpec => []IdsAreTableIds
<1>1. ToolInv => IdsAreTableIds
  BY NormInvTableIds DEF ToolInv
<1> QED
  BY <1>1, ToolInvariant, PTL

\* The verifier's assertions about a whole graph hold of every graph normalised.
THEOREM RenamedGraphIsReversible == ToolSpec => []GraphIsReversible
<1>1. ToolInv => GraphIsReversible
  BY NormInvReversible DEF ToolInv
<1> QED
  BY <1>1, ToolInvariant, PTL

\* The generated adjacency matrix holds the calls the walker's model takes, and the
\* lookup numbers the states alike, for tables of any size.
THEOREM GeneratedAdjacencyAgrees == ToolSpec => []AdjacencyAgrees
<1>1. ToolInv => AdjacencyAgrees
  BY GenInvAdjacency DEF ToolInv
<1> QED
  BY <1>1, ToolInvariant, PTL

\* In whatever order the search takes vertices of equal distance, a finished
\* predecessor row is one of the search trees the walker's model allows.
THEOREM GeneratedRowsAreWalks == ToolSpec => []RowsAreWalks
<1>1. ToolInv => RowsAreWalks
  BY GenInvWalks DEF ToolInv
<1> QED
  BY <1>1, ToolInvariant, PTL

\* The generator's assertion never fails, for tables of any size, and the jumps it
\* prints are the stops the walker would find.
THEOREM GeneratedJumpsAreStops == ToolSpec => []JumpsAreStops
<1>1. ToolInv => JumpsAreStops
  BY GenInvJumps DEF ToolInv
<1> QED
  BY <1>1, ToolInvariant, PTL

\* The bounds of the verifier hold when it runs on generated tables.
THEOREM ToolZombiesBounded == ToolSpec => [](ZombiesBounded /\ NeedsItsSlots)
<1>1. ToolInv => ZombiesBounded /\ NeedsItsSlots
  BY CallInvBounds DEF ToolInv, SlotsInv
<1> QED
  BY <1>1, ToolInvariant, PTL
=============================================================================
