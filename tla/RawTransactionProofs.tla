------------------------ MODULE RawTransactionProofs ------------------------
(***************************************************************************)
(* Theorems about RawTransaction: for all arguments that fit in the buffer *)
(* and all signatures, a reader of the format gets from what is sent what  *)
(* the call was given.  The encoder's length bytes, and the reader, are    *)
(* recursive functions; that they are defined, and what they compute, is   *)
(* proved from the least number principle.                                 *)
(***************************************************************************)
EXTENDS RawTransaction, SequenceTheorems, WellFoundedInduction, TLAPS

-----------------------------------------------------------------------------
(* Recursive functions.                                                    *)

\* A set of natural numbers has a least one.
LEMMA LeastNumber ==
  ASSUME NEW T \in SUBSET Nat, T # {}
  PROVE  \E n \in T : \A k \in T : n <= k
<1>. DEFINE R == OpToRel(<, Nat)
<1>1. IsWellFoundedOn(R, Nat)
  BY NatLessThanWellFounded
<1>2. \A j \in Nat, k \in Nat : <<j, k>> \in R <=> j < k
  BY DEF OpToRel
<1>. HIDE DEF R
<1>3. PICK n \in T : \A k \in T : ~(<<k, n>> \in R)
  BY <1>1, WFMin
<1>4. \A k \in T : k \in Nat
  OBVIOUS
<1>5. \A k \in T : ~(k < n)
  BY <1>2, <1>3, <1>4, Zenon
<1>. QED BY <1>4, <1>5

\* A recursion over the set S with values in V: at the points of N, f is given by
\* step and by its value at another point, whose measure mu is smaller; at the
\* others by base.
Recursive(S, V, N, mu, base, next, step) ==
  /\ N \subseteq S /\ mu \in [S -> Nat]
  /\ base \in [S -> V] /\ next \in [N -> S] /\ step \in [S \X V -> V]
  /\ \A x \in N : mu[next[x]] < mu[x]
Solution(f, S, V, N, base, next, step) ==
  /\ f \in [S -> V]
  /\ \A x \in S : f[x] = IF x \in N THEN step[<<x, f[next[x]]>>] ELSE base[x]

\* There is a function that solves it.
LEMMA Recursion ==
  ASSUME NEW S, NEW V, NEW N, NEW mu, NEW base, NEW next, NEW step,
         Recursive(S, V, N, mu, base, next, step)
  PROVE  \E f : Solution(f, S, V, N, base, next, step)
<1>. /\ N \in SUBSET S /\ mu \in [S -> Nat]
     /\ base \in [S -> V] /\ next \in [N -> S] /\ step \in [S \X V -> V]
     /\ \A x \in N : mu[next[x]] < mu[x]
  BY DEF Recursive
<1>. DEFINE B(m, f) == \A x \in S : mu[x] < m =>
                         f[x] = IF x \in N THEN step[<<x, f[next[x]]>>] ELSE base[x]
            M == {m \in Nat : \E f \in [S -> V] : B(m, f)}
<1>1. 0 \in M
  <2>1. \A x \in S : ~(mu[x] < 0)
    OBVIOUS
  <2>. QED  BY <2>1
<1>2. ASSUME NEW m \in M PROVE m + 1 \in M
  <2>1. PICK f \in [S -> V] : B(m, f)
    OBVIOUS
  <2>. DEFINE g == [x \in S |-> IF x \in N THEN step[<<x, f[next[x]]>>] ELSE base[x]]
  <2>2. g \in [S -> V]
    OBVIOUS
  <2>3. ASSUME NEW x \in S, mu[x] < m + 1
        PROVE  g[x] = IF x \in N THEN step[<<x, g[next[x]]>>] ELSE base[x]
    <3>1. CASE x \in N
      <4>1. next[x] \in S /\ mu[next[x]] < m
        BY <2>3, <3>1
      <4>2. f[next[x]] = g[next[x]]
        BY <2>1, <4>1
      <4>. QED  BY <3>1, <4>2
    <3>. QED  BY <3>1
  <2>4. B(m + 1, g)
    BY <2>3
  <2>5. m + 1 \in Nat
    OBVIOUS
  <2>. HIDE DEF B, g
  <2>. QED  BY <2>2, <2>4, <2>5
<1>3. M = Nat
  <2>. SUFFICES ASSUME Nat \ M # {} PROVE FALSE
    OBVIOUS
  <2>1. PICK n \in Nat \ M : \A k \in Nat \ M : n <= k
    BY LeastNumber
  <2>2. n # 0 /\ n - 1 \in Nat /\ n - 1 \in M /\ (n - 1) + 1 = n
    <3>1. n # 0
      BY <1>1, <2>1
    <3>2. n \in Nat /\ n - 1 \in Nat /\ n - 1 < n /\ (n - 1) + 1 = n
      BY <3>1, <2>1
    <3>. HIDE DEF M
    <3>. QED  BY <2>1, <3>1, <3>2
  <2>. HIDE DEF M
  <2>3. (n - 1) + 1 \in M
    BY <1>2, <2>2
  <2>. QED  BY <2>1, <2>2, <2>3
<1>4. ASSUME NEW m \in Nat, NEW k \in Nat, NEW f, NEW g, B(m, f), B(k, g)
      PROVE  \A x \in S : mu[x] < m /\ mu[x] < k => f[x] = g[x]
  <2>. DEFINE Bad == {n \in Nat : \E x \in S : mu[x] = n /\ n < m /\ n < k /\ f[x] # g[x]}
  <2>. SUFFICES ASSUME Bad # {} PROVE FALSE
    OBVIOUS
  <2>1. PICK n \in Bad : \A j \in Bad : n <= j
    BY LeastNumber
  <2>2. PICK x \in S : mu[x] = n /\ n < m /\ n < k /\ f[x] # g[x]
    BY <2>1
  <2>3. x \in N
    BY <1>4, <2>2
  <2>4. next[x] \in S /\ mu[next[x]] \in Nat /\ mu[next[x]] < n
    BY <2>2, <2>3
  <2>5. f[next[x]] = g[next[x]]
    BY <2>1, <2>2, <2>4
  <2>. QED  BY <1>4, <2>2, <2>3, <2>5
<1>. DEFINE G(m) == CHOOSE f \in [S -> V] : B(m, f)
            h == [x \in S |-> G(mu[x] + 1)[x]]
<1>5. \A m \in Nat : G(m) \in [S -> V] /\ B(m, G(m))
  <2>. SUFFICES ASSUME NEW m \in Nat PROVE G(m) \in [S -> V] /\ B(m, G(m))
    OBVIOUS
  <2>1. \E f \in [S -> V] : B(m, f)
    BY <1>3
  <2>. HIDE DEF B
  <2>. QED  BY <2>1
<1>. HIDE DEF G
<1>6. h \in [S -> V]
  BY <1>5
<1>7. ASSUME NEW x \in S
      PROVE  h[x] = IF x \in N THEN step[<<x, h[next[x]]>>] ELSE base[x]
  <2>1. mu[x] \in Nat /\ mu[x] + 1 \in Nat /\ B(mu[x] + 1, G(mu[x] + 1))
    <3>. HIDE DEF B
    <3>. QED BY <1>5
  <2>2. h[x] = IF x \in N THEN step[<<x, G(mu[x] + 1)[next[x]]>>] ELSE base[x]
    BY <2>1
  <2>3. CASE x \in N
    <3>. DEFINE y == next[x]
    <3>1. y \in S /\ mu[y] \in Nat /\ mu[y] + 1 \in Nat /\ mu[y] < mu[x]
      BY <2>3
    <3>2. B(mu[y] + 1, G(mu[y] + 1))
      <4>. HIDE DEF B, y
      <4>. QED BY <1>5, <3>1
    <3>3. G(mu[x] + 1)[y] = G(mu[y] + 1)[y]
      <4>. HIDE DEF B, y
      <4>. QED  BY SMTT(30), <1>4, <2>1, <3>1, <3>2
    <3>. QED  BY <2>2, <2>3, <3>1, <3>3
  <2>. QED  BY <2>2, <2>3
<1>. QED  BY <1>6, <1>7 DEF Solution

-----------------------------------------------------------------------------
(* The bytes of a length.                                                  *)

\* LenBytes is what its recursion says.
LEMMA LenBytesIs ==
  \A n \in Nat : LenBytes[n] = IF n = 0 THEN <<>>
                                        ELSE Append(LenBytes[n \div 256], n % 256)
<1>. DEFINE V == Seq(Byte)
            N == Nat \ {0}
            mu == [n \in Nat |-> n]
            base == [n \in Nat |-> <<>>]
            next == [n \in N |-> n \div 256]
            step == [z \in Nat \X V |-> Append(z[2], z[1] % 256)]
            Body(f) == [n \in Nat |-> IF n = 0 THEN <<>> ELSE Append(f[n \div 256], n % 256)]
<1>1. \A n \in N : n \div 256 \in Nat /\ n \div 256 < n
  OBVIOUS
<1>2. mu \in [Nat -> Nat] /\ base \in [Nat -> V] /\ next \in [N -> Nat]
  BY <1>1
<1>3. step \in [Nat \X V -> V]
  <2>. SUFFICES ASSUME NEW n \in Nat, NEW s \in V PROVE Append(s, n % 256) \in V
    OBVIOUS
  <2>. QED  BY DEF Byte
<1>4. \A n \in N : mu[next[n]] < mu[n]
  BY <1>1
<1>5. PICK f : Solution(f, Nat, V, N, base, next, step)
  <2>1. Recursive(Nat, V, N, mu, base, next, step)
    BY <1>2, <1>3, <1>4 DEF Recursive
  <2>. QED  BY <2>1, Recursion
<1>6. f = Body(f)
  <2>1. /\ f \in [Nat -> V]
        /\ \A n \in Nat : f[n] = IF n \in N THEN step[<<n, f[next[n]]>>] ELSE base[n]
    <3>. HIDE DEF V, N, base, next, step
    <3>. QED  BY <1>5 DEF Solution
  <2>2. \A n \in N : step[<<n, f[next[n]]>>] = Append(f[n \div 256], n % 256)
    <3>. TAKE n \in N
    <3>1. next[n] = n \div 256 /\ n \in Nat
      OBVIOUS
    <3>2. f[n \div 256] \in V
      BY <1>1, <2>1
    <3>3. <<n, f[n \div 256]>> \in Nat \X V
      BY <3>1, <3>2
    <3>4. step[<<n, f[n \div 256]>>] = Append(f[n \div 256], n % 256)
      BY <3>3, Zenon
    <3>. QED  BY <3>1, <3>4, Zenon
  <2>3. \A n \in Nat : f[n] = IF n = 0 THEN <<>> ELSE Append(f[n \div 256], n % 256)
    <3>. TAKE n \in Nat
    <3>1. n \in N <=> n # 0
      OBVIOUS
    <3>2. base[n] = <<>>
      OBVIOUS
    <3>. HIDE DEF N, base, next, step
    <3>3. CASE n = 0
      BY <2>1, <3>1, <3>2, <3>3, Zenon
    <3>4. CASE n # 0
      BY <2>1, <2>2, <3>1, <3>4, Zenon
    <3>. QED  BY <3>3, <3>4
  <2>. HIDE DEF V
  <2>. QED  BY <2>1, <2>3, Zenon
<1>7. LenBytes = Body(LenBytes)
  <2>1. \E g : g = Body(g)
    <3>. HIDE DEF Body
    <3>. QED  BY <1>6
  <2>. QED  BY <2>1, Zenon DEF LenBytes
<1>. QED  BY <1>7

\* One byte, or two: the lengths that occur are below this limit.
TwoBytes == 65536

LEMMA LenBytesOne == ASSUME NEW n \in Nat, n # 0, n < 256 PROVE LenBytes[n] = <<n>>
<1>1. n \div 256 = 0 /\ n % 256 = n
  OBVIOUS
<1>2. LenBytes[0] = <<>>
  BY LenBytesIs
<1>3. LenBytes[n] = Append(<<>>, n)
  BY ZenonT(30), <1>1, <1>2, LenBytesIs
<1>. QED  BY <1>3

\* A length of more than one byte has two of them.
LEMMA LenBytesTwo ==
  ASSUME NEW n \in Nat, n > 255, n < TwoBytes
  PROVE  /\ LenBytes[n] \in Seq(Byte) /\ Len(LenBytes[n]) = 2
         /\ LenBytes[n][1] = n \div 256 /\ LenBytes[n][2] = n % 256
<1>. DEFINE q == n \div 256
            r == n % 256
<1>1. q \in Nat /\ q # 0 /\ q < 256
  BY DEF TwoBytes
<1>2. r \in Nat /\ r < 256
  OBVIOUS
<1>3. LenBytes[n] = Append(LenBytes[q], r)
  <2>1. n # 0
    OBVIOUS
  <2>2. LenBytes[n] = IF n = 0 THEN <<>> ELSE Append(LenBytes[n \div 256], n % 256)
    BY LenBytesIs
  <2>. QED  BY <2>1, <2>2
<1>. HIDE DEF q, r
<1>4. LenBytes[q] = <<q>>
  BY <1>1, LenBytesOne
<1>5. LenBytes[n] = Append(<<q>>, r)
  BY <1>3, <1>4
<1>6. LenBytes[n] \in Seq(Byte) /\ Len(LenBytes[n]) = 2
      /\ LenBytes[n][1] = q /\ LenBytes[n][2] = r
  BY <1>1, <1>2, <1>5 DEF Byte
<1>. QED  BY <1>6 DEF q, r

\* Where the elements of a concatenation are.
LEMMA ConcatAt ==
  ASSUME NEW S, NEW a \in Seq(S), NEW b \in Seq(S)
  PROVE  /\ a \o b \in Seq(S) /\ Len(a \o b) = Len(a) + Len(b)
         /\ \A i \in 1 .. Len(a) : (a \o b)[i] = a[i]
         /\ \A i \in 1 .. Len(b) : (a \o b)[Len(a) + i] = b[i]
OBVIOUS

\* The header of a string or list of n bytes.
IsHeader(h, short, n) ==
  /\ h \in Seq(Byte)
  /\ n < 56 => Len(h) = 1 /\ h[1] = short + n
  /\ n >= 56 /\ n < 256 => Len(h) = 2 /\ h[1] = short + 56 /\ h[2] = n
  /\ n > 255 => /\ Len(h) = 3 /\ h[1] = short + 57
                /\ h[2] = n \div 256 /\ h[3] = n % 256
HeaderOf(n) == n < TwoBytes =>
  /\ IsHeader(Header(128, 183, n), 128, n)
  /\ IsHeader(Header(192, 247, n), 192, n)

\* Both kinds of headers have one form.
LEMMA HeaderForm ==
  ASSUME NEW short \in 0 .. 192, NEW long \in 0 .. 247, NEW n \in Nat, n < TwoBytes,
         long = short + 55
  PROVE  IsHeader(Header(short, long, n), short, n)
<1>1. CASE n < 56
  BY <1>1 DEF IsHeader, Header, SIZE_THRESHOLD, Byte
<1>2. CASE n >= 56 /\ n < 256
  <2>1. LenBytes[n] = <<n>>
    BY <1>2, LenBytesOne
  <2>2. Header(short, long, n) = <<long + 1>> \o <<n>>
    BY <1>2, <2>1 DEF Header, SIZE_THRESHOLD
  <2>. DEFINE h == Header(short, long, n)
  <2>3. h \in Seq(Byte) /\ Len(h) = 2 /\ h[1] = long + 1 /\ h[2] = n
    <3>. DEFINE m == long + 1
    <3>1. m \in Byte /\ n \in Byte /\ h = <<m>> \o <<n>>
      BY <1>2, <2>2 DEF Byte
    <3>. HIDE DEF m, h
    <3>2. h \in Seq(Byte) /\ Len(h) = 2 /\ h[1] = m /\ h[2] = n
      BY ONLY <3>1
    <3>. QED  BY <3>2 DEF m
  <2>4. long + 1 = short + 56 /\ n >= 56 /\ n < 256
    BY <1>2
  <2>. HIDE DEF h
  <2>5. IsHeader(h, short, n)
    BY <2>3, <2>4 DEF IsHeader
  <2>. QED  BY <2>5 DEF h
<1>3. CASE n > 255
  <2>. DEFINE b == LenBytes[n]
  <2>1. b \in Seq(Byte) /\ Len(b) = 2 /\ b[1] = n \div 256 /\ b[2] = n % 256
    BY <1>3, LenBytesTwo
  <2>2. Header(short, long, n) = <<long + 2>> \o b
    BY <1>3, <2>1 DEF Header, SIZE_THRESHOLD
  <2>. HIDE DEF b
  <2>3. <<long + 2>> \in Seq(Byte) /\ Len(<<long + 2>>) = 1 /\ <<long + 2>>[1] = long + 2
    BY DEF Byte
  <2>4. /\ Header(short, long, n) \in Seq(Byte) /\ Len(Header(short, long, n)) = 3
        /\ Header(short, long, n)[1] = long + 2
        /\ Header(short, long, n)[2] = b[1] /\ Header(short, long, n)[3] = b[2]
    <3>. DEFINE u == <<long + 2>>
    <3>1. u \in Seq(Byte) /\ Len(u) = 1 /\ u[1] = long + 2
      BY <2>3
    <3>. HIDE DEF u
    <3>. DEFINE y == u \o b
    <3>2. /\ y \in Seq(Byte) /\ Len(y) = Len(u) + Len(b)
          /\ \A i \in 1 .. Len(u) : y[i] = u[i]
          /\ \A i \in 1 .. Len(b) : y[Len(u) + i] = b[i]
      <4>1. u \in Seq(Byte) /\ b \in Seq(Byte)
        BY <2>1, <3>1
      <4>. QED  BY <4>1, ConcatAt
    <3>. HIDE DEF y
    <3>3. y[1] = u[1] /\ y[1 + 1] = b[1] /\ y[1 + 2] = b[2]
      BY <2>1, <3>1, <3>2
    <3>4. Len(y) = 3 /\ y[1] = long + 2 /\ y[2] = b[1] /\ y[3] = b[2]
      BY <2>1, <3>1, <3>2, <3>3
    <3>5. Header(short, long, n) = y
      BY <2>2 DEF u, y
    <3>. QED  BY <3>2, <3>4, <3>5
  <2>. DEFINE h == Header(short, long, n)
  <2>5. /\ h \in Seq(Byte) /\ Len(h) = 3 /\ h[1] = long + 2
        /\ h[2] = n \div 256 /\ h[3] = n % 256
    BY <2>1, <2>4
  <2>6. long + 2 = short + 57 /\ n > 255
    BY <1>3
  <2>. HIDE DEF h, b
  <2>7. IsHeader(h, short, n)
    BY <2>5, <2>6 DEF IsHeader
  <2>. QED  BY <2>7 DEF h
<1>. QED  BY <1>1, <1>2, <1>3

\* The headers of strings and of lists have it.
LEMMA HeaderIs == ASSUME NEW n \in Nat PROVE HeaderOf(n)
<1>. SUFFICES ASSUME n < TwoBytes
              PROVE  /\ IsHeader(Header(128, 183, n), 128, n)
                     /\ IsHeader(Header(192, 247, n), 192, n)
  BY DEF HeaderOf
<1>1. /\ 128 \in 0 .. 192 /\ 183 \in 0 .. 247 /\ 183 = 128 + 55
      /\ 192 \in 0 .. 192 /\ 247 \in 0 .. 247 /\ 247 = 192 + 55
  OBVIOUS
<1>2. IsHeader(Header(128, 183, n), 128, n)
  BY <1>1, HeaderForm
<1>3. IsHeader(Header(192, 247, n), 192, n)
  BY <1>1, HeaderForm
<1>. QED  BY <1>2, <1>3

-----------------------------------------------------------------------------
(* The number a sequence of bytes stands for.                              *)

\* The elements of a sequence of bytes are natural numbers.
LEMMA ByteAt ==
  ASSUME NEW b \in Seq(Byte), NEW k \in 1 .. Len(b)
  PROVE  b[k] \in Nat /\ b[k] < 256
<1>1. b[k] \in Byte
  BY ElementOfSeq
<1>2. \A x \in Byte : x \in Nat /\ x < 256
  BY DEF Byte
<1>. QED  BY <1>1, <1>2

\* The function Number defines.
Sums(b) == CHOOSE upTo : upTo = [k \in 0 .. Len(b) |->
                           IF k = 0 THEN 0 ELSE 256 * upTo[k - 1] + b[k]]

\* The prefixes' numbers are what their recursion says.
LEMMA SumsAre ==
  ASSUME NEW b \in Seq(Byte)
  PROVE  /\ Number(b) = Sums(b)[Len(b)]
         /\ Sums(b)[0] = 0
         /\ \A k \in 1 .. Len(b) : Sums(b)[k] = 256 * Sums(b)[k - 1] + b[k]
<1>. DEFINE S == 0 .. Len(b)
            N == 1 .. Len(b)
            mu == [k \in S |-> k]
            base == [k \in S |-> 0]
            next == [k \in N |-> k - 1]
            step == [z \in S \X Nat |-> IF z[1] = 0 THEN 0 ELSE 256 * z[2] + b[z[1]]]
            Body(f) == [k \in 0 .. Len(b) |-> IF k = 0 THEN 0 ELSE 256 * f[k - 1] + b[k]]
<1>0. Len(b) \in Nat /\ \A k \in N : b[k] \in Nat
  BY ByteAt
<1>1. N \subseteq S /\ mu \in [S -> Nat] /\ base \in [S -> Nat] /\ next \in [N -> S]
  BY <1>0
<1>2. step \in [S \X Nat -> Nat]
  <2>. SUFFICES ASSUME NEW k \in S, NEW n \in Nat
                PROVE  (IF k = 0 THEN 0 ELSE 256 * n + b[k]) \in Nat
    OBVIOUS
  <2>1. CASE k # 0
    <3>1. b[k] \in Nat
      BY <1>0, <2>1
    <3>. QED  BY <3>1
  <2>. QED  BY <2>1
<1>3. \A k \in N : mu[next[k]] < mu[k]
  BY <1>0
<1>4. PICK f : Solution(f, S, Nat, N, base, next, step)
  <2>1. Recursive(S, Nat, N, mu, base, next, step)
    BY <1>1, <1>2, <1>3 DEF Recursive
  <2>. QED  BY <2>1, Recursion
<1>5. f = Body(f)
  <2>1. \A k \in N : step[<<k, f[next[k]]>>] = 256 * f[k - 1] + b[k]
    BY <1>0, <1>4 DEF Solution
  <2>2. f \in [S -> Nat] /\ f[0] = 0
    <3>1. 0 \in S /\ 0 \notin N
      BY <1>0
    <3>. QED  BY <1>4, <3>1 DEF Solution
  <2>3. \A k \in N : f[k] = 256 * f[k - 1] + b[k]
    BY SMTT(30), <1>1, <1>4, <2>1 DEF Solution
  <2>. QED  BY <1>0, <2>2, <2>3
<1>6. Sums(b) = Body(Sums(b))
  <2>1. \E g : g = Body(g)
    BY <1>5, Zenon
  <2>. QED  BY <2>1, Zenon DEF Sums
<1>7. Number(b) = Sums(b)[Len(b)]
  BY Zenon DEF Number, Sums
<1>8. Len(b) \in Nat /\ 0 \in 0 .. Len(b)
  BY <1>0
<1>9. Sums(b)[0] = 0
  BY <1>6, <1>8
<1>10. \A k \in 1 .. Len(b) : k \in 0 .. Len(b) /\ k # 0
  BY <1>8
<1>11. \A k \in 1 .. Len(b) : Sums(b)[k] = 256 * Sums(b)[k - 1] + b[k]
  BY <1>6, <1>10
<1>. QED  BY <1>7, <1>9, <1>11

\* They are natural numbers.
LEMMA SumsInNat ==
  ASSUME NEW b \in Seq(Byte)
  PROVE  \A k \in 0 .. Len(b) : Sums(b)[k] \in Nat
<1>. DEFINE Bad == {k \in 0 .. Len(b) : Sums(b)[k] \notin Nat}
<1>. SUFFICES ASSUME Bad # {} PROVE FALSE
  OBVIOUS
<1>1. Len(b) \in Nat /\ Bad \in SUBSET Nat
  OBVIOUS
<1>2. PICK k \in Bad : \A i \in Bad : k <= i
  BY <1>1, LeastNumber
<1>3. k \in 0 .. Len(b) /\ Sums(b)[k] \notin Nat
  BY <1>2
<1>4. k # 0
  BY <1>3, SumsAre
<1>5. k - 1 \in 0 .. Len(b) /\ k - 1 < k /\ k \in 1 .. Len(b)
  BY <1>1, <1>3, <1>4
<1>6. Sums(b)[k - 1] \in Nat
  <2>. DEFINE i == k - 1
  <2>1. i \in 0 .. Len(b) /\ i < k
    BY <1>5
  <2>. HIDE DEF i
  <2>2. i \notin Bad
    BY <1>1, <1>2, <2>1
  <2>. QED  BY <2>1, <2>2 DEF i
<1>7. b[k] \in Nat
  BY <1>5, ByteAt
<1>8. Sums(b)[k] = 256 * Sums(b)[k - 1] + b[k]
  BY <1>5, SumsAre
<1>. QED  BY <1>3, <1>6, <1>7, <1>8

\* So is the number.
LEMMA NumberInNat == ASSUME NEW b \in Seq(Byte) PROVE Number(b) \in Nat
<1>1. Len(b) \in Nat
  OBVIOUS
<1>2. Len(b) \in 0 .. Len(b)
  BY <1>1
<1>. QED  BY <1>2, SumsAre, SumsInNat

\* The number of one or two bytes.
LEMMA NumberOne ==
  ASSUME NEW b \in Seq(Byte), Len(b) = 1
  PROVE  Number(b) = b[1]
<1>1. b[1] \in Nat
  <2>1. 1 \in 1 .. Len(b)
    OBVIOUS
  <2>. QED  BY <2>1, ByteAt
<1>2. Number(b) = Sums(b)[1] /\ Sums(b)[0] = 0 /\ Sums(b)[1] = 256 * Sums(b)[1 - 1] + b[1]
  BY SumsAre
<1>. QED  BY <1>1, <1>2

\* And of two bytes.
LEMMA NumberTwo ==
  ASSUME NEW b \in Seq(Byte), Len(b) = 2
  PROVE  Number(b) = 256 * b[1] + b[2]
<1>1. b[1] \in Nat /\ b[2] \in Nat
  <2>1. 1 \in 1 .. Len(b) /\ 2 \in 1 .. Len(b)
    OBVIOUS
  <2>. QED  BY <2>1, ByteAt
<1>2. /\ Number(b) = Sums(b)[2] /\ Sums(b)[0] = 0
      /\ Sums(b)[1] = 256 * Sums(b)[1 - 1] + b[1]
      /\ Sums(b)[2] = 256 * Sums(b)[2 - 1] + b[2]
  BY SumsAre
<1>. QED  BY <1>1, <1>2

\* A zero in front does not count.
LEMMA NumberAfterZero ==
  ASSUME NEW b \in Seq(Byte), NEW c \in Seq(Byte), Len(b) = Len(c) + 1, b[1] = 0,
         \A i \in 1 .. Len(c) : b[i + 1] = c[i]
  PROVE  Number(b) = Number(c)
<1>. DEFINE Bad == {k \in 0 .. Len(c) : Sums(b)[k + 1] # Sums(c)[k]}
<1>1. Len(c) \in Nat /\ Len(b) \in Nat
  OBVIOUS
<1>2. Bad = {}
  <2>. SUFFICES ASSUME Bad # {} PROVE FALSE
    OBVIOUS
  <2>1. Bad \in SUBSET Nat
    BY <1>1
  <2>2. PICK k \in Bad : \A i \in Bad : k <= i
    BY <2>1, LeastNumber
  <2>3. k \in 0 .. Len(c) /\ Sums(b)[k + 1] # Sums(c)[k]
    BY <2>2
  <2>4. CASE k = 0
    <3>1. 1 \in 1 .. Len(b)
      BY <1>1
    <3>2. Sums(b)[1] = 256 * Sums(b)[1 - 1] + b[1] /\ Sums(b)[0] = 0 /\ Sums(c)[0] = 0
      BY SMTT(30), <3>1, SumsAre
    <3>. QED  BY <2>3, <2>4, <3>2
  <2>5. CASE k # 0
    <3>. DEFINE i == k - 1
    <3>1. i \in 0 .. Len(c) /\ i < k /\ k = i + 1 /\ k \in 1 .. Len(c)
      BY <1>1, <2>3, <2>5
    <3>2. i \notin Bad
      <4>. HIDE DEF i
      <4>. QED  BY <1>1, <2>2, <3>1
    <3>3. Sums(b)[i + 1] = Sums(c)[i]
      BY <3>1, <3>2
    <3>. HIDE DEF i
    <3>4. k \in 1 .. Len(b) /\ k + 1 \in 1 .. Len(b) /\ (k + 1) - 1 = k /\ k - 1 = i
      BY <1>1, <3>1
    <3>5. Sums(b)[k + 1] = 256 * Sums(b)[(k + 1) - 1] + b[k + 1]
      BY <3>4, SumsAre
    <3>6. Sums(c)[k] = 256 * Sums(c)[k - 1] + c[k]
      BY <3>1, SumsAre
    <3>7. b[k + 1] = c[k]
      BY <3>1
    <3>8. Sums(b)[k] = Sums(c)[k - 1]
      BY <3>1, <3>3, <3>4
    <3>. QED  BY <2>3, <3>4, <3>5, <3>6, <3>7, <3>8
  <2>. QED  BY <2>4, <2>5
<1>3. Sums(b)[Len(c) + 1] = Sums(c)[Len(c)]
  BY <1>1, <1>2
<1>. QED  BY <1>3, SumsAre

-----------------------------------------------------------------------------
(* Leading zeros and hexadecimal digits.                                   *)

\* The number of leading zeros exists.
LEMMA LeadingZerosAre ==
  ASSUME NEW b \in Seq(Byte)
  PROVE  /\ LeadingZeros(b) \in 0 .. Len(b)
         /\ \A i \in 1 .. LeadingZeros(b) : b[i] = 0
         /\ LeadingZeros(b) < Len(b) => b[LeadingZeros(b) + 1] # 0
<1>. DEFINE Zeros(k) == /\ \A i \in 1 .. k : b[i] = 0
                        /\ k < Len(b) => b[k + 1] # 0
            Stops == {k \in 0 .. Len(b) : k < Len(b) => b[k + 1] # 0}
<1>1. Len(b) \in Nat
  OBVIOUS
<1>2. Stops \in SUBSET Nat /\ Len(b) \in Stops
  BY <1>1
<1>3. PICK k \in Stops : \A i \in Stops : k <= i
  BY <1>2, LeastNumber
<1>4. k \in 0 .. Len(b) /\ Zeros(k)
  <2>1. k \in 0 .. Len(b) /\ (k < Len(b) => b[k + 1] # 0)
    BY <1>3
  <2>2. ASSUME NEW i \in 1 .. k PROVE b[i] = 0
    <3>. DEFINE m == i - 1
    <3>1. m \in 0 .. Len(b) /\ m < k /\ m < Len(b) /\ m + 1 = i
      BY <1>1, <2>1
    <3>. HIDE DEF m
    <3>2. m \notin Stops
      BY <1>1, <1>3, <2>1, <3>1
    <3>. QED  BY <3>1, <3>2
  <2>. QED  BY <2>1, <2>2
<1>5. \E j \in 0 .. Len(b) : Zeros(j)
  BY <1>4
<1>6. LeadingZeros(b) = CHOOSE j \in 0 .. Len(b) : Zeros(j)
  BY DEF LeadingZeros
<1>7. LeadingZeros(b) \in 0 .. Len(b) /\ Zeros(LeadingZeros(b))
  <2>. HIDE DEF Zeros
  <2>. QED  BY <1>5, <1>6
<1>. QED  BY <1>7

\* What remains of a half of a signature is as long or shorter; it stands for
\* the same number, in the shortest form, unless there were two zeros.
LEMMA WithoutZerosIs ==
  ASSUME NEW b \in Seq(Byte)
  PROVE  /\ WithoutZeros(b) \in Seq(Byte) /\ Len(WithoutZeros(b)) <= Len(b)
         /\ LeadingZeros(b) <= 1 => /\ Number(WithoutZeros(b)) = Number(b)
                                    /\ Shortest(WithoutZeros(b))
<1>. DEFINE k == LeadingZeros(b)
            w == WithoutZeros(b)
<1>1. /\ k \in 0 .. Len(b) /\ Len(b) \in Nat
      /\ \A i \in 1 .. k : b[i] = 0
      /\ k < Len(b) => b[k + 1] # 0
  BY LeadingZerosAre
<1>2. CASE k = 0
  <2>1. w = b
    BY <1>2 DEF WithoutZeros
  <2>2. b = <<>> \/ b[1] # 0
    <3>1. CASE Len(b) = 0
      BY <3>1, EmptySeq
    <3>2. CASE Len(b) # 0
      BY <1>1, <1>2, <3>2
    <3>. QED  BY <3>1, <3>2
  <2>. QED  BY <2>1, <2>2 DEF Shortest
<1>3. CASE k # 0
  <2>. DEFINE m == 1 + Len(b) - k
  <2>0. w = SubSeq(b, 2, m)
    BY <1>3 DEF WithoutZeros
  <2>1. m \in Nat /\ m >= 1 /\ m <= Len(b) /\ k \in Nat /\ k >= 1
    BY <1>1, <1>3
  <2>. HIDE DEF m, k, w
  <2>2. /\ w \in Seq(Byte) /\ Len(w) = m - 1
        /\ \A i \in 1 .. m - 1 : w[i] = b[i + 1]
    BY <1>1, <2>0, <2>1
  <2>3. ASSUME k <= 1 PROVE Number(w) = Number(b) /\ Shortest(w)
    <3>1. k = 1 /\ m = Len(b)
      BY <1>1, <2>1, <2>3 DEF m
    <3>2. Number(w) = Number(b)
      <4>1. Len(b) = Len(w) + 1
        BY <1>1, <2>1, <2>2, <3>1
      <4>2. b[1] = 0
        BY <1>1, <3>1
      <4>3. \A i \in 1 .. Len(w) : b[i + 1] = w[i]
        BY <2>2
      <4>. QED  BY <2>2, <4>1, <4>2, <4>3, NumberAfterZero
    <3>3. CASE m = 1
      <4>1. Len(w) = 0
        BY <2>2, <3>3
      <4>. QED  BY <2>2, <3>2, <4>1, EmptySeq DEF Shortest
    <3>4. CASE m # 1
      <4>1. b[2] # 0
        BY <1>1, <2>1, <3>1, <3>4
      <4>2. w[1] = b[2]
        BY <2>1, <2>2, <3>4
      <4>. QED  BY <3>2, <4>1, <4>2 DEF Shortest
    <3>. QED  BY <3>3, <3>4
  <2>. QED  BY <1>1, <2>1, <2>2, <2>3 DEF k, w
<1>. QED  BY <1>2, <1>3

\* The bytes of hexadecimal digits: half as many, rounded up, and the first is
\* zero only if the first digit is.
LEMMA Hex2ByteIs ==
  ASSUME NEW d \in Seq(Hex)
  PROVE  /\ hex2byte_arr(d) \in Seq(Byte)
         /\ Len(hex2byte_arr(d)) = (Len(d) + 1) \div 2
         /\ d # <<>> /\ d[1] # 0 => hex2byte_arr(d)[1] # 0
<1>. DEFINE n == (Len(d) + 1) \div 2
            L == Len(d)
            digit(i) == IF i = 0 THEN 0 ELSE d[i]
            low(k) == L - 2 * (n - k)
            x == [k \in 1 .. n |-> 16 * digit(low(k) - 1) + digit(low(k))]
<1>1. hex2byte_arr(d) = x
  BY DEF hex2byte_arr
<1>2. L \in Nat /\ n \in Nat /\ (L = 2 * n \/ L = 2 * n - 1)
  <2>1. L \in Nat
    OBVIOUS
  <2>. HIDE DEF L
  <2>2. (L + 1) \div 2 \in Nat /\ (L = 2 * ((L + 1) \div 2) \/ L = 2 * ((L + 1) \div 2) - 1)
    BY <2>1
  <2>. QED  BY <2>1, <2>2 DEF L
<1>3. \A i \in 0 .. L : digit(i) \in 0 .. 15
  <2>1. \A i \in 1 .. L : d[i] \in Hex
    BY ElementOfSeq
  <2>. QED  BY <1>2, <2>1 DEF Hex
<1>. HIDE DEF n, L
<1>4. \A k \in 1 .. n : low(k) \in 1 .. L /\ low(k) - 1 \in 0 .. L /\ low(k) \in 0 .. L
  BY <1>2
<1>. HIDE DEF digit
<1>5. ASSUME NEW k \in 1 .. n PROVE x[k] \in Byte
  <2>1. digit(low(k) - 1) \in 0 .. 15 /\ digit(low(k)) \in 0 .. 15
    BY <1>3, <1>4
  <2>. HIDE DEF low
  <2>. DEFINE high == digit(low(k) - 1)
              rest == digit(low(k))
  <2>2. x[k] = 16 * high + rest
    OBVIOUS
  <2>3. high \in 0 .. 15 /\ rest \in 0 .. 15
    BY <2>1
  <2>. HIDE DEF x, high, rest
  <2>. QED  BY <2>2, <2>3 DEF Byte
<1>. HIDE DEF low
<1>6. x \in Seq(Byte) /\ Len(x) = n
  <2>1. x \in [1 .. n -> Byte]
    <3>1. x = [k \in 1 .. n |-> x[k]]
      OBVIOUS
    <3>. HIDE DEF x
    <3>. QED  BY <1>5, <3>1
  <2>. HIDE DEF x
  <2>. QED  BY <1>2, <2>1
<1>7. ASSUME d # <<>>, d[1] # 0 PROVE x[1] # 0
  <2>1. L # 0
    BY <1>7, EmptySeq DEF L
  <2>2. 1 \in 1 .. n
    BY <1>2, <2>1
  <2>3. x[1] = 16 * digit(low(1) - 1) + digit(low(1))
    BY <2>2
  <2>4. CASE low(1) = 1
    <3>1. digit(1) = d[1] /\ digit(0) = 0 /\ low(1) - 1 = 0
      BY <2>4 DEF digit
    <3>2. digit(1) \in 0 .. 15
      BY <1>2, <1>3, <2>1
    <3>. QED  BY <1>7, <2>3, <2>4, <3>1, <3>2
  <2>5. CASE low(1) = 2
    <3>1. digit(1) = d[1] /\ low(1) - 1 = 1
      BY <2>5 DEF digit
    <3>2. digit(1) \in 0 .. 15 /\ digit(2) \in 0 .. 15
      BY <1>2, <1>3, <1>4, <2>1, <2>2, <2>5
    <3>3. digit(low(1)) = digit(2) /\ digit(low(1) - 1) = digit(1)
      BY <2>5, <3>1
    <3>. HIDE DEF x
    <3>4. x[1] = 16 * digit(1) + digit(2)
      BY <2>3, <3>3
    <3>. DEFINE high == digit(1)
                rest == digit(2)
    <3>5. x[1] = 16 * high + rest /\ high \in 0 .. 15 /\ rest \in 0 .. 15 /\ high # 0
      BY <1>7, <3>1, <3>2, <3>4
    <3>. HIDE DEF high, rest
    <3>. QED  BY <3>5
  <2>6. low(1) \in {1, 2}
    <3>. HIDE DEF x
    <3>. QED  BY <1>2 DEF low
  <2>. HIDE DEF x
  <2>. QED  BY <2>4, <2>5, <2>6
<1>. QED  BY <1>1, <1>6, <1>7 DEF n, L

\* One zero digit, or two, is one zero byte.
LEMMA Hex2ByteZero ==
  ASSUME NEW d \in Seq(Hex), Len(d) \in {1, 2}, \A i \in 1 .. Len(d) : d[i] = 0
  PROVE  /\ hex2byte_arr(d) \in Seq(Byte)
         /\ Len(hex2byte_arr(d)) = 1 /\ hex2byte_arr(d)[1] = 0
<1>1. (Len(d) + 1) \div 2 = 1
  BY SMT
<1>2. hex2byte_arr(d) \in Seq(Byte) /\ Len(hex2byte_arr(d)) = 1
  BY <1>1, Hex2ByteIs
<1>3. hex2byte_arr(d)[1] = 0
  BY <1>1 DEF hex2byte_arr
<1>. QED  BY <1>2, <1>3

-----------------------------------------------------------------------------
(* What the reader finds where an encoding stands.                         *)

\* The sequence e stands in s from position i on.
Occurs(s, i, e) ==
  /\ i + Len(e) <= Len(s) + 1
  /\ \A k \in 1 .. Len(e) : s[i + k - 1] = e[k]

\* Where a concatenation stands, its parts stand one behind the other.
LEMMA OccursConcat ==
  ASSUME NEW s \in Seq(Byte), NEW i \in Nat \ {0},
         NEW a \in Seq(Byte), NEW b \in Seq(Byte), Occurs(s, i, a \o b)
  PROVE  Occurs(s, i, a) /\ Occurs(s, i + Len(a), b)
<1>. DEFINE y == a \o b
<1>1. /\ Len(a) \in Nat /\ Len(b) \in Nat /\ Len(s) \in Nat
      /\ Len(y) = Len(a) + Len(b)
      /\ \A k \in 1 .. Len(a) : y[k] = a[k]
      /\ \A k \in 1 .. Len(b) : y[Len(a) + k] = b[k]
  BY ConcatAt
<1>2. i + Len(y) <= Len(s) + 1 /\ \A k \in 1 .. Len(y) : s[i + k - 1] = y[k]
  BY DEF Occurs
<1>. HIDE DEF y
<1>3. Occurs(s, i, a)
  <2>1. ASSUME NEW k \in 1 .. Len(a) PROVE s[i + k - 1] = a[k]
    <3>1. k \in 1 .. Len(y)
      BY <1>1
    <3>. QED  BY <1>1, <1>2, <3>1
  <2>. QED  BY <1>1, <1>2, <2>1 DEF Occurs
<1>4. Occurs(s, i + Len(a), b)
  <2>1. ASSUME NEW k \in 1 .. Len(b) PROVE s[i + Len(a) + k - 1] = b[k]
    <3>1. Len(a) + k \in 1 .. Len(y) /\ i + (Len(a) + k) - 1 = i + Len(a) + k - 1
      BY <1>1
    <3>2. s[i + (Len(a) + k) - 1] = y[Len(a) + k] /\ y[Len(a) + k] = b[k]
      BY <1>1, <1>2, <3>1
    <3>. QED  BY <3>1, <3>2
  <2>. QED  BY <1>1, <1>2, <2>1 DEF Occurs
<1>. QED  BY <1>3, <1>4

\* What stands there is what is cut out.
LEMMA OccursIsSubSeq ==
  ASSUME NEW s \in Seq(Byte), NEW i \in Nat \ {0}, NEW e \in Seq(Byte), Occurs(s, i, e)
  PROVE  SubSeq(s, i, i + Len(e) - 1) = e
<1>. DEFINE m == i + Len(e) - 1
            x == SubSeq(s, i, m)
<1>1. Len(e) \in Nat /\ Len(s) \in Nat /\ m \in Int /\ m <= Len(s) /\ m - i + 1 = Len(e)
      /\ \A k \in 1 .. Len(e) : s[i + k - 1] = e[k]
  BY DEF Occurs
<1>2. x \in Seq(Byte) /\ Len(x) = Len(e) /\ \A k \in 1 .. Len(e) : x[k] = s[i + k - 1]
  <2>. HIDE DEF m
  <2>. QED  BY <1>1
<1>. HIDE DEF x
<1>3. \A k \in 1 .. Len(x) : x[k] = e[k]
  BY <1>1, <1>2
<1>4. x = e
  BY <1>2, <1>3, SeqEqual
<1>. QED  BY <1>4 DEF x, m

\* The reader always goes forward.
LEMMA ExtentForward ==
  ASSUME NEW s \in Seq(Byte), NEW i \in 1 .. Len(s)
  PROVE  /\ Extent(s, i)[1] \in Nat /\ Extent(s, i)[1] >= i
         /\ Extent(s, i)[2] \in Nat /\ Extent(s, i)[2] >= i
<1>1. s[i] \in Nat /\ s[i] < 256 /\ Len(s) \in Nat /\ i \in Nat
  BY ByteAt
<1>. DEFINE h    == s[i]
            base == IF h < 192 THEN 128 ELSE 192
            k    == IF h <= base + 55 THEN 0 ELSE h - (base + 55)
            last == IF i + k <= Len(s) THEN i + k ELSE Len(s)
            n    == Number(SubSeq(s, i + 1, last))
<1>2. CASE h < 128
  BY <1>1, <1>2 DEF Extent
<1>3. CASE h >= 128
  <2>1. base \in Nat /\ k \in Nat /\ (k = 0 => h - base \in Nat)
    BY <1>1, <1>3
  <2>2. n \in Nat
    <3>1. last \in Nat /\ last <= Len(s)
      BY <1>1, <2>1
    <3>. HIDE DEF last
    <3>2. SubSeq(s, i + 1, last) \in Seq(Byte)
      BY <1>1, <3>1
    <3>. QED  BY <3>2, NumberInNat
  <2>3. Extent(s, i) = <<i + k + 1, i + k + (IF k = 0 THEN h - base ELSE n)>>
    BY <1>1, <1>3 DEF Extent
  <2>. DEFINE size == IF k = 0 THEN h - base ELSE n
  <2>4. size \in Nat /\ Extent(s, i) = <<i + k + 1, i + k + size>>
    BY <2>1, <2>2, <2>3
  <2>. HIDE DEF h, base, k, last, n, size
  <2>. QED  BY <1>1, <2>1, <2>4
<1>. QED  BY <1>1, <1>2, <1>3

\* The extent of a string, or of a list, that has a header.
LEMMA HeaderExtent ==
  ASSUME NEW s \in Seq(Byte), NEW i \in Nat \ {0}, NEW p \in Seq(Byte),
         Len(p) < TwoBytes, NEW short \in {128, 192},
         Occurs(s, i, Header(short, short + 55, Len(p)) \o p)
  PROVE  LET h == Header(short, short + 55, Len(p)) IN
           /\ h \in Seq(Byte) /\ Len(h) \in 1 .. 3
           /\ s[i] \in Nat /\ s[i] >= short
           /\ Extent(s, i) = <<i + Len(h), i + Len(h) + Len(p) - 1>>
           /\ Occurs(s, i + Len(h), p)
<1>. DEFINE n == Len(p)
            h == Header(short, short + 55, n)
<1>1. n \in Nat /\ Len(s) \in Nat
  OBVIOUS
<1>2. IsHeader(h, short, n)
  <2>1. n < TwoBytes /\ 128 + 55 = 183 /\ 192 + 55 = 247
    OBVIOUS
  <2>. HIDE DEF n
  <2>2. HeaderOf(n)
    BY <1>1, HeaderIs
  <2>. QED  BY <2>1, <2>2 DEF HeaderOf
<1>3. Occurs(s, i, h) /\ Occurs(s, i + Len(h), p)
  <2>1. Occurs(s, i, h \o p)
    OBVIOUS
  <2>. HIDE DEF h
  <2>2. h \in Seq(Byte)
    BY <1>2 DEF IsHeader
  <2>. QED  BY <2>1, <2>2, OccursConcat
<1>. HIDE DEF h, n
<1>4. Len(h) \in 1 .. 3
  BY <1>1, <1>2 DEF IsHeader
<1>5. i + Len(h) <= Len(s) + 1 /\ \A k \in 1 .. Len(h) : s[i + k - 1] = h[k]
  BY <1>3 DEF Occurs
<1>6. s[i] = h[1]
  BY <1>4, <1>5
<1>7. ASSUME n < 56
      PROVE  s[i] \in Nat /\ s[i] >= short /\ Extent(s, i) = <<i + Len(h), i + Len(h) + n - 1>>
  <2>1. s[i] = short + n /\ Len(h) = 1
    BY <1>2, <1>6, <1>7 DEF IsHeader
  <2>2. Extent(s, i) = <<i + 1, i + n>>
    <3>. DEFINE base == IF s[i] < 192 THEN 128 ELSE 192
                k == IF s[i] <= base + 55 THEN 0 ELSE s[i] - (base + 55)
    <3>1. base = short /\ k = 0 /\ s[i] - base = n /\ ~(s[i] < 128)
      BY <1>1, <1>7, <2>1
    <3>2. Extent(s, i) = <<i + 0 + 1, i + 0 + n>>
      BY <3>1 DEF Extent
    <3>. QED  BY <1>1, <3>2
  <2>. QED  BY <1>1, <1>7, <2>1, <2>2
<1>8. ASSUME n > 55
      PROVE  s[i] \in Nat /\ s[i] >= short /\ Extent(s, i) = <<i + Len(h), i + Len(h) + n - 1>>
  <2>. DEFINE x == s[i]
              m == Len(h)
              base == IF x < 192 THEN 128 ELSE 192
              k == IF x <= base + 55 THEN 0 ELSE x - (base + 55)
              last == IF i + k <= Len(s) THEN i + k ELSE Len(s)
              b == SubSeq(s, i + 1, last)
  <2>1. x = short + 54 + m /\ m \in {2, 3}
    <3>1. CASE n < 256
      <4>1. Len(h) = 2 /\ h[1] = short + 56
        BY <1>1, <1>2, <1>8, <3>1 DEF IsHeader
      <4>. QED  BY <1>6, <4>1
    <3>2. CASE n > 255
      <4>1. Len(h) = 3 /\ h[1] = short + 57
        BY <1>2, <3>2 DEF IsHeader
      <4>. QED  BY <1>6, <4>1
    <3>. QED  BY <1>1, <3>1, <3>2
  <2>2. base = short /\ k = m - 1 /\ ~(x < 128) /\ k # 0 /\ x \in Nat /\ x >= short
    <3>. HIDE DEF x, m
    <3>. QED  BY <2>1
  <2>3. last = i + k
    <3>. HIDE DEF k
    <3>. QED  BY <1>4, <1>5, <2>2
  <2>4. Extent(s, i) = <<i + k + 1, i + k + Number(b)>>
    BY <2>2 DEF Extent
  <2>. HIDE DEF base, k, last
  <2>5. Number(b) = n
    <3>1. b \in Seq(Byte) /\ Len(b) = k /\ \A j \in 1 .. k : b[j] = s[i + j]
      <4>1. last \in Nat /\ last <= Len(s) /\ k \in Nat /\ last - (i + 1) + 1 = k
        BY <1>1, <1>4, <1>5, <2>2, <2>3
      <4>. HIDE DEF m
      <4>. QED  BY <1>1, <4>1
    <3>2. \A j \in 1 .. k : b[j] = h[j + 1]
      <4>. TAKE j \in 1 .. k
      <4>1. j + 1 \in 1 .. Len(h) /\ i + (j + 1) - 1 = i + j
        BY <1>4, <2>2
      <4>. QED  BY SMTT(30), <1>5, <3>1, <4>1
    <3>. HIDE DEF b
    <3>3. CASE n < 256
      <4>1. Len(h) = 2 /\ h[1 + 1] = n
        BY <1>1, <1>2, <1>8, <3>3 DEF IsHeader
      <4>2. Len(b) = 1 /\ b[1] = n
        BY <2>2, <3>1, <3>2, <4>1
      <4>. QED  BY <3>1, <4>2, NumberOne
    <3>4. CASE n > 255
      <4>1. Len(h) = 3 /\ h[1 + 1] = n \div 256 /\ h[2 + 1] = n % 256
        BY <1>1, <1>2, <3>4 DEF IsHeader
      <4>2. Len(b) = 2 /\ b[1] = n \div 256 /\ b[2] = n % 256
        BY <2>2, <3>1, <3>2, <4>1
      <4>. DEFINE q == n \div 256
                  r == n % 256
      <4>3. n = 256 * q + r
        BY <1>1
      <4>4. Len(b) = 2 /\ b[1] = q /\ b[2] = r
        BY <4>2
      <4>. HIDE DEF q, r
      <4>5. Number(b) = 256 * q + r
        BY <3>1, <4>4, NumberTwo
      <4>. QED  BY <4>3, <4>5
    <3>. QED  BY <1>1, <3>3, <3>4
  <2>. QED  BY <1>1, <1>4, <2>1, <2>2, <2>4, <2>5
<1>. QED  BY <1>1, <1>2, <1>3, <1>4, <1>7, <1>8 DEF IsHeader, h, n

\* e is the encoding of the string p.
Encodes(e, p) ==
  /\ p \in Seq(Byte)
  /\ \/ Len(p) = 1 /\ p[1] < 128 /\ e = p
     \/ Len(p) < TwoBytes /\ e = Header(128, 183, Len(p)) \o p

\* An encoding is at most three bytes longer than the string.
LEMMA EncodingSize ==
  ASSUME NEW e, NEW p, Encodes(e, p)
  PROVE  e \in Seq(Byte) /\ Len(e) \in Nat /\ Len(e) > 0 /\ Len(e) <= Len(p) + 3
<1>. p \in Seq(Byte) /\ Len(p) \in Nat
  BY DEF Encodes
<1>1. CASE Len(p) = 1 /\ e = p
  <2>1. e \in Seq(Byte) /\ Len(e) = 1 /\ Len(p) = 1
    BY <1>1, Zenon
  <2>. QED  BY ONLY <2>1
<1>2. CASE Len(p) < TwoBytes /\ e = Header(128, 183, Len(p)) \o p
  <2>. DEFINE h == Header(128, 183, Len(p))
  <2>1. IsHeader(h, 128, Len(p))
    BY <1>2, HeaderIs DEF HeaderOf
  <2>. HIDE DEF h
  <2>2. h \in Seq(Byte) /\ Len(h) \in 1 .. 3
    BY <2>1 DEF IsHeader
  <2>3. e = h \o p
    BY <1>2 DEF h
  <2>4. e \in Seq(Byte) /\ Len(e) = Len(h) + Len(p)
    BY <2>2, <2>3, ConcatAt
  <2>. DEFINE a == Len(h)
              b == Len(p)
              c == Len(e)
  <2>5. a \in 1 .. 3 /\ b \in Nat /\ c = a + b
    BY <2>2, <2>4
  <2>. HIDE DEF a, b, c
  <2>6. c \in Nat /\ c > 0 /\ c <= b + 3
    BY ONLY <2>5
  <2>. QED  BY <2>4, <2>6 DEF b, c
<1>. QED  BY <1>1, <1>2 DEF Encodes

\* The reader finds the string, and its end.
LEMMA StringExtent ==
  ASSUME NEW s \in Seq(Byte), NEW i \in Nat \ {0}, NEW e, NEW p,
         Encodes(e, p), Occurs(s, i, e)
  PROVE  /\ i <= Len(s) /\ Extent(s, i)[2] = i + Len(e) - 1
         /\ SubSeq(s, Extent(s, i)[1], Extent(s, i)[2]) = p
<1>1. e \in Seq(Byte) /\ Len(e) \in Nat /\ Len(e) > 0
  BY EncodingSize
<1>2. Len(s) \in Nat /\ i + Len(e) <= Len(s) + 1
  BY DEF Occurs
<1>3. p \in Seq(Byte)
  BY DEF Encodes
<1>4. CASE Len(p) = 1 /\ p[1] < 128 /\ e = p
  <2>1. s[i] = p[1]
    <3>1. \A k \in 1 .. Len(e) : s[i + k - 1] = e[k]
      BY DEF Occurs
    <3>2. s[i + 1 - 1] = e[1]
      BY <1>4, <3>1
    <3>. QED  BY <1>4, <3>2
  <2>2. Extent(s, i) = <<i, i>>
    BY <1>4, <2>1 DEF Extent
  <2>3. SubSeq(s, i, i + Len(e) - 1) = e
    BY <1>1, OccursIsSubSeq
  <2>4. Len(e) = 1 /\ i + Len(e) - 1 = i /\ i <= Len(s)
    <3>1. Len(e) = 1
      BY <1>4, Zenon
    <3>. QED  BY <1>2, <3>1
  <2>5. Extent(s, i)[1] = i /\ Extent(s, i)[2] = i
    BY <2>2
  <2>. QED  BY <1>4, <2>3, <2>4, <2>5, Zenon
<1>5. CASE Len(p) < TwoBytes /\ e = Header(128, 183, Len(p)) \o p
  <2>. DEFINE h == Header(128, 128 + 55, Len(p))
  <2>1. e = h \o p
    BY <1>5
  <2>2. /\ h \in Seq(Byte) /\ Len(h) \in 1 .. 3
        /\ Extent(s, i) = <<i + Len(h), i + Len(h) + Len(p) - 1>>
        /\ Occurs(s, i + Len(h), p)
    BY <1>3, <1>5, <2>1, HeaderExtent
  <2>. HIDE DEF h
  <2>3. Len(e) = Len(h) + Len(p)
    BY <1>3, <2>1, <2>2, ConcatAt
  <2>4. SubSeq(s, i + Len(h), i + Len(h) + Len(p) - 1) = p
    <3>. DEFINE j == i + Len(h)
    <3>1. j \in Nat \ {0} /\ Occurs(s, j, p)
      BY <2>2
    <3>. HIDE DEF j
    <3>2. SubSeq(s, j, j + Len(p) - 1) = p
      BY <1>3, <3>1, OccursIsSubSeq
    <3>. QED  BY <3>2 DEF j
  <2>5. Len(p) \in Nat /\ Len(h) \in Nat
    BY <1>3, <2>2
  <2>6. Extent(s, i)[1] = i + Len(h) /\ Extent(s, i)[2] = i + Len(h) + Len(p) - 1
    BY <2>2
  <2>7. i + Len(h) + Len(p) - 1 = i + Len(e) - 1
    BY <2>3, <2>5
  <2>8. i <= Len(s)
    BY <1>1, <1>2
  <2>. QED  BY <2>4, <2>6, <2>7, <2>8
<1>. QED  BY <1>4, <1>5 DEF Encodes

-----------------------------------------------------------------------------
(* Reading the strings one after the other.                                *)

\* The function Strings defines.
Walk(s) == CHOOSE walk : walk = [i \in Nat \ {0} |->
  IF i > Len(s) THEN <<>>
  ELSE LET e == Extent(s, i)
       IN  <<SubSeq(s, e[1], e[2])>> \o walk[e[2] + 1]]

\* The strings there are to read.
Pieces(s) == {SubSeq(s, z[1], z[2]) : z \in Nat \X Nat}
PieceAt(s, i) == SubSeq(s, Extent(s, i)[1], Extent(s, i)[2])

\* Strings is what the recursion of its walk says; from a position in s it goes on
\* behind the string that begins there.
LEMMA StringsAre ==
  ASSUME NEW s \in Seq(Byte)
  PROVE  \A i \in Nat \ {0} :
           /\ Strings(s, i) \in Seq(Pieces(s))
           /\ i > Len(s) => Strings(s, i) = <<>>
           /\ i <= Len(s) => /\ Extent(s, i)[2] + 1 \in Nat \ {0}
                             /\ PieceAt(s, i) \in Pieces(s)
                             /\ Strings(s, i) = <<PieceAt(s, i)>>
                                                  \o Strings(s, Extent(s, i)[2] + 1)
<1>. DEFINE L == Len(s)
            S == Nat \ {0}
            V == Seq(Pieces(s))
            N == 1 .. L
            end(i) == Extent(s, i)[2]
            mu == [i \in S |-> IF i <= L THEN L + 1 - i ELSE 0]
            base == [i \in S |-> <<>>]
            next == [i \in N |-> end(i) + 1]
            step == [z \in S \X V |-> IF z[1] \in N THEN <<PieceAt(s, z[1])>> \o z[2] ELSE <<>>]
            Body(f) == [i \in Nat \ {0} |->
                         IF i > Len(s) THEN <<>>
                         ELSE LET e == Extent(s, i)
                              IN  <<SubSeq(s, e[1], e[2])>> \o f[e[2] + 1]]
<1>1. L \in Nat /\ N \subseteq S
  OBVIOUS
<1>2. \A i \in N : end(i) \in Nat /\ end(i) >= i /\ PieceAt(s, i) \in Pieces(s)
  <2>. SUFFICES ASSUME NEW i \in N
                PROVE  end(i) \in Nat /\ end(i) >= i /\ PieceAt(s, i) \in Pieces(s)
    OBVIOUS
  <2>1. Extent(s, i)[1] \in Nat /\ Extent(s, i)[2] \in Nat /\ Extent(s, i)[2] >= i
    BY ExtentForward
  <2>2. PieceAt(s, i) \in Pieces(s)
    <3>. DEFINE a == Extent(s, i)[1]
                b == Extent(s, i)[2]
    <3>1. PieceAt(s, i) = SubSeq(s, a, b) /\ a \in Nat /\ b \in Nat
      BY <2>1 DEF PieceAt
    <3>. HIDE DEF a, b
    <3>2. <<a, b>> \in Nat \X Nat /\ PieceAt(s, i) = SubSeq(s, <<a, b>>[1], <<a, b>>[2])
      BY <3>1
    <3>. QED  BY <3>2, Zenon DEF Pieces
  <2>. QED  BY <2>1, <2>2
<1>. HIDE DEF end
<1>3. /\ mu \in [S -> Nat] /\ base \in [S -> V] /\ next \in [N -> S]
      /\ \A i \in N : mu[next[i]] < mu[i]
  <2>1. \A i \in N : end(i) + 1 \in S /\ end(i) + 1 > i
    BY <1>1, <1>2
  <2>2. \A i \in S : (IF i <= L THEN L + 1 - i ELSE 0) \in Nat
    BY <1>1
  <2>3. next \in [N -> S]
    BY <2>1
  <2>4. \A i \in N : mu[next[i]] < mu[i]
    BY <1>1, <2>1
  <2>. QED  BY <2>2, <2>3, <2>4
<1>4. step \in [S \X V -> V]
  <2>. SUFFICES ASSUME NEW i \in S, NEW t \in V
                PROVE  (IF i \in N THEN <<PieceAt(s, i)>> \o t ELSE <<>>) \in V
    OBVIOUS
  <2>. QED  BY <1>2
<1>. HIDE DEF L, V, mu, base, next, step
<1>5. PICK f : Solution(f, S, V, N, base, next, step)
  <2>1. Recursive(S, V, N, mu, base, next, step)
    BY <1>1, <1>3, <1>4 DEF Recursive
  <2>. QED  BY <2>1, Recursion
<1>6. \A i \in S : f[i] \in V /\ f[i] = IF i \in N THEN <<PieceAt(s, i)>> \o f[end(i) + 1] ELSE <<>>
  <2>. TAKE i \in S
  <2>1. f \in [S -> V] /\ f[i] = IF i \in N THEN step[<<i, f[next[i]]>>] ELSE base[i]
    BY <1>5 DEF Solution
  <2>2. CASE i \in N
    <3>1. next[i] = end(i) + 1 /\ next[i] \in S
      BY <1>3, <2>2 DEF next
    <3>2. f[next[i]] \in V
      BY <2>1, <3>1
    <3>3. step[<<i, f[next[i]]>>] = <<PieceAt(s, i)>> \o f[next[i]]
      BY <2>2, <3>2 DEF step
    <3>. QED  BY <2>1, <2>2, <3>1, <3>3
  <2>3. CASE i \notin N
    BY <2>1, <2>3 DEF base
  <2>. QED  BY <2>2, <2>3
<1>7. f = Body(f)
  <2>1. f \in [S -> V]
    BY <1>5 DEF Solution
  <2>2. \A i \in S : f[i] = IF i > Len(s) THEN <<>>
                            ELSE LET e == Extent(s, i)
                                 IN  <<SubSeq(s, e[1], e[2])>> \o f[e[2] + 1]
    BY <1>1, <1>6 DEF PieceAt, end, L
  <2>. QED  BY <2>1, <2>2
<1>8. Walk(s) = Body(Walk(s))
  <2>1. \E g : g = Body(g)
    BY <1>7, Zenon
  <2>. QED  BY <2>1, Zenon DEF Walk
<1>9. \A i \in S : Strings(s, i) = Walk(s)[i]
  BY Zenon DEF Strings, Walk
<1>10. \A i \in S : Walk(s)[i] = IF i \in N THEN <<PieceAt(s, i)>> \o Walk(s)[end(i) + 1] ELSE <<>>
  <2>1. \A i \in S : Walk(s)[i] = IF i > Len(s) THEN <<>>
                            ELSE LET e == Extent(s, i)
                                 IN  <<SubSeq(s, e[1], e[2])>> \o Walk(s)[e[2] + 1]
    BY <1>8, Zenon
  <2>. QED  BY <1>1, <2>1 DEF PieceAt, end, L
<1>11. \A i \in S : Walk(s)[i] \in V
  <2>. DEFINE Bad == {n \in Nat : \E i \in S : mu[i] = n /\ Walk(s)[i] \notin V}
  <2>. SUFFICES ASSUME Bad # {} PROVE FALSE
    BY <1>3
  <2>1. PICK n \in Bad : \A k \in Bad : n <= k
    BY LeastNumber
  <2>2. PICK i \in S : mu[i] = n /\ Walk(s)[i] \notin V
    BY <2>1
  <2>3. i \in N
    <3>1. <<>> \in V
      BY DEF V
    <3>2. i \notin N => Walk(s)[i] = <<>>
      BY <1>10, Zenon
    <3>. QED  BY <2>2, <3>1, <3>2, Zenon
  <2>. DEFINE j == next[i]
  <2>4. j \in S /\ mu[j] \in Nat /\ mu[j] < mu[i] /\ j = end(i) + 1
    BY <1>3, <2>3 DEF next
  <2>. HIDE DEF j
  <2>5. Walk(s)[j] \in V
    <3>1. mu[j] \notin Bad
      BY <2>1, <2>2, <2>4
    <3>. QED  BY <2>4, <3>1
  <2>6. Walk(s)[i] = <<PieceAt(s, i)>> \o Walk(s)[j]
    BY <1>10, <2>3, <2>4
  <2>. QED  BY <1>2, <2>2, <2>3, <2>5, <2>6 DEF V
<1>. SUFFICES ASSUME NEW i \in S
              PROVE  /\ Strings(s, i) \in V
                     /\ i > L => Strings(s, i) = <<>>
                     /\ i <= L => /\ end(i) + 1 \in S
                                 /\ PieceAt(s, i) \in Pieces(s)
                                 /\ Strings(s, i) = <<PieceAt(s, i)>> \o Strings(s, end(i) + 1)
  BY DEF end, L, V
<1>12. Strings(s, i) \in V /\ (i > L => Strings(s, i) = <<>>)
  <2>1. Strings(s, i) = Walk(s)[i] /\ Walk(s)[i] \in V
    BY <1>9, <1>11, Zenon
  <2>2. i \notin N => Walk(s)[i] = <<>>
    BY <1>10, Zenon
  <2>3. i > L => i \notin N
    BY <1>1
  <2>. QED  BY <2>1, <2>2, <2>3, Zenon
<1>13. ASSUME i <= L
       PROVE  /\ end(i) + 1 \in S /\ PieceAt(s, i) \in Pieces(s)
              /\ Strings(s, i) = <<PieceAt(s, i)>> \o Strings(s, end(i) + 1)
  <2>1. i \in N
    BY <1>1, <1>13
  <2>2. end(i) + 1 \in S /\ PieceAt(s, i) \in Pieces(s)
    BY <1>2, <2>1
  <2>. QED  BY <1>9, <1>10, <2>1, <2>2
<1>. QED  BY <1>12, <1>13

\* From position i on s holds, to its end, the strings ps[k] to ps[9].
Reads(s, i, k, ps) ==
  /\ Strings(s, i) \in Seq(Pieces(s)) /\ Len(Strings(s, i)) = 10 - k
  /\ \A j \in 1 .. 10 - k : Strings(s, i)[j] = ps[k + j - 1]

\* An encoding in front of them is one string more.
LEMMA ReadsOne ==
  ASSUME NEW s \in Seq(Byte), NEW i \in Nat \ {0}, NEW k \in 1 .. 9, NEW ps, NEW e,
         Encodes(e, ps[k]), Occurs(s, i, e), Reads(s, i + Len(e), k + 1, ps)
  PROVE  Reads(s, i, k, ps)
<1>. DEFINE p == ps[k]
            a == <<p>>
            t == Strings(s, i + Len(e))
            x == Strings(s, i)
<1>1. /\ i <= Len(s) /\ Extent(s, i)[2] = i + Len(e) - 1 /\ PieceAt(s, i) = p
      /\ Len(e) \in Nat
  BY StringExtent, EncodingSize DEF PieceAt
<1>2. i + Len(e) - 1 + 1 = i + Len(e)
  BY <1>1
<1>3. p \in Pieces(s) /\ x \in Seq(Pieces(s)) /\ x = a \o t
  BY <1>1, <1>2, StringsAre
<1>4. /\ t \in Seq(Pieces(s)) /\ Len(t) = 10 - (k + 1)
      /\ \A j \in 1 .. 10 - (k + 1) : t[j] = ps[(k + 1) + j - 1]
  BY DEF Reads
<1>5. a \in Seq(Pieces(s)) /\ Len(a) = 1 /\ a[1] = p
  BY <1>3
<1>. HIDE DEF a, t, x
<1>6. /\ Len(x) = Len(a) + Len(t)
      /\ \A j \in 1 .. Len(a) : x[j] = a[j]
      /\ \A j \in 1 .. Len(t) : x[Len(a) + j] = t[j]
  <2>1. a \in Seq(Pieces(s)) /\ t \in Seq(Pieces(s))
    BY <1>4, <1>5
  <2>. QED  BY <1>3, <2>1, ConcatAt
<1>. HIDE DEF p
<1>7. Len(x) = 10 - k /\ x[1] = p
  BY <1>4, <1>5, <1>6
<1>8. \A j \in 2 .. 10 - k : x[j] = ps[k + j - 1]
  <2>. TAKE j \in 2 .. 10 - k
  <2>. DEFINE m == j - 1
  <2>1. m \in 1 .. 10 - (k + 1) /\ 1 + m = j /\ (k + 1) + m - 1 = k + j - 1
    OBVIOUS
  <2>. HIDE DEF m
  <2>2. x[1 + m] = t[m] /\ t[m] = ps[(k + 1) + m - 1]
    BY <1>4, <1>5, <1>6, <2>1
  <2>. QED  BY <2>1, <2>2
<1>9. \A j \in 1 .. 10 - k : x[j] = ps[k + j - 1]
  <2>. TAKE j \in 1 .. 10 - k
  <2>1. CASE j = 1
    BY <1>7, <2>1 DEF p
  <2>2. CASE j # 1
    <3>1. j \in 2 .. 10 - k
      BY <2>2
    <3>. QED  BY <1>8, <3>1
  <2>. QED  BY <2>1, <2>2
<1>. QED  BY <1>3, <1>7, <1>9 DEF Reads, x

\* The strings of a concatenation are read from its last part back.
ReadsFrom(s, i, q, k, ps) ==
  q \in Seq(Byte) /\ Occurs(s, i, q) /\ Reads(s, i + Len(q), k, ps)

\* The string before those that were read.
LEMMA ReadsBefore ==
  ASSUME NEW s \in Seq(Byte), NEW i \in Nat \ {0}, NEW k \in 1 .. 9, NEW ps,
         NEW q \in Seq(Byte), NEW e, Encodes(e, ps[k]),
         ReadsFrom(s, i, q \o e, k + 1, ps)
  PROVE  ReadsFrom(s, i, q, k, ps)
<1>1. e \in Seq(Byte) /\ Len(e) \in Nat /\ Len(q) \in Nat
  BY EncodingSize
<1>2. Occurs(s, i, q \o e) /\ Reads(s, i + Len(q \o e), k + 1, ps)
  BY DEF ReadsFrom
<1>3. Occurs(s, i, q) /\ Occurs(s, i + Len(q), e)
  BY <1>1, <1>2, OccursConcat
<1>4. Len(q \o e) = Len(q) + Len(e)
  BY <1>1, ConcatAt
<1>. DEFINE j == i + Len(q)
<1>5. j \in Nat \ {0} /\ j + Len(e) = i + Len(q \o e) /\ Occurs(s, j, e)
  BY <1>1, <1>3, <1>4
<1>. HIDE DEF j
<1>6. Reads(s, j + Len(e), k + 1, ps)
  BY <1>2, <1>5
<1>7. Reads(s, j, k, ps)
  BY <1>5, <1>6, ReadsOne
<1>. QED  BY <1>3, <1>7 DEF ReadsFrom, j

\* The nine encodings of a list, of strings that are not too long together.
EncodesAll(elements, v, r, t, ps) ==
  /\ \A f \in 1 .. 6 : Encodes(elements[f], ps[f])
  /\ Encodes(FirstByte(v), ps[7]) /\ Encodes(r, ps[8]) /\ Encodes(t, ps[9])
ListLimit == 60000
Short(ps) ==
  Len(ps[1]) + Len(ps[2]) + Len(ps[3]) + Len(ps[4]) + Len(ps[5]) + Len(ps[6])
    + Len(ps[7]) + Len(ps[8]) + Len(ps[9]) < ListLimit

\* With every encoding that is appended a list grows by the string and three
\* bytes at most.
Within(q, n) == q \in Seq(Byte) /\ n \in Nat /\ Len(q) <= n

\* Such an encoding.
LEMMA Appended ==
  ASSUME NEW q, NEW n, NEW e, NEW p, Within(q, n), Encodes(e, p)
  PROVE  Within(q \o e, n + Len(p) + 3)
<1>1. q \in Seq(Byte) /\ n \in Nat /\ Len(q) <= n
  BY DEF Within
<1>2. e \in Seq(Byte) /\ Len(e) \in Nat /\ Len(e) <= Len(p) + 3
  BY EncodingSize
<1>3. Len(p) \in Nat
  <2>1. p \in Seq(Byte)
    BY DEF Encodes
  <2>. QED  BY <2>1
<1>4. q \o e \in Seq(Byte) /\ Len(q \o e) = Len(q) + Len(e)
  BY <1>1, <1>2, ConcatAt
<1>5. Len(q) \in Nat
  BY <1>1
<1>6. Len(q \o e) <= n + Len(p) + 3 /\ n + Len(p) + 3 \in Nat
  BY <1>1, <1>2, <1>3, <1>4, <1>5
<1>. QED  BY <1>4, <1>6 DEF Within

\* The list of nine encodings reads as the nine strings.
LEMMA ItemsOfList ==
  ASSUME NEW elements, NEW v, NEW r, NEW t, NEW ps,
         EncodesAll(elements, v, r, t, ps), Short(ps)
  PROVE  LET raw == wallet_encode_list(elements, v, r, t) IN
           /\ raw \in Seq(Byte) /\ Items(raw) \in Seq(Pieces(raw)) /\ Len(Items(raw)) = 9
           /\ \A k \in 1 .. 9 : Items(raw)[k] = ps[k]
<1>. DEFINE q1 == elements[1]
            q2 == q1 \o elements[2]
            q3 == q2 \o elements[3]
            q4 == q3 \o elements[4]
            q5 == q4 \o elements[5]
            q6 == q5 \o elements[6]
            q7 == q6 \o FirstByte(v)
            q8 == q7 \o r
            q9 == q8 \o t
            h == Header(192, 247, Len(q9))
            raw == h \o q9
<1>1. wallet_encode_list(elements, v, r, t) = raw
  BY DEF wallet_encode_list
<1>2. Encodes(q1, ps[1])
  BY DEF EncodesAll
<1>3. /\ Encodes(elements[2], ps[2])
      /\ Encodes(elements[3], ps[3])
      /\ Encodes(elements[4], ps[4])
      /\ Encodes(elements[5], ps[5])
      /\ Encodes(elements[6], ps[6])
      /\ Encodes(FirstByte(v), ps[7])
      /\ Encodes(r, ps[8])
      /\ Encodes(t, ps[9])
  BY DEF EncodesAll
<1>. DEFINE l1 == Len(ps[1])
            l2 == Len(ps[2])
            l3 == Len(ps[3])
            l4 == Len(ps[4])
            l5 == Len(ps[5])
            l6 == Len(ps[6])
            l7 == Len(ps[7])
            l8 == Len(ps[8])
            l9 == Len(ps[9])
<1>4. /\ l1 \in Nat /\ l2 \in Nat /\ l3 \in Nat
      /\ l4 \in Nat /\ l5 \in Nat /\ l6 \in Nat
      /\ l7 \in Nat /\ l8 \in Nat /\ l9 \in Nat
  <2>1. \A e, p : Encodes(e, p) => Len(p) \in Nat
    <3>1. \A e, p : Encodes(e, p) => p \in Seq(Byte)
      BY DEF Encodes
    <3>. QED  BY <3>1
  <2>. QED  BY <1>2, <1>3, <2>1, Zenon
<1>. DEFINE n1 == l1 + 3
            n2 == n1 + l2 + 3
            n3 == n2 + l3 + 3
            n4 == n3 + l4 + 3
            n5 == n4 + l5 + 3
            n6 == n5 + l6 + 3
            n7 == n6 + l7 + 3
            n8 == n7 + l8 + 3
            n9 == n8 + l9 + 3
<1>5. n9 < 60000 + 27
  <2>1. l1 + l2 + l3 + l4 + l5 + l6 + l7 + l8 + l9 < ListLimit
    BY Zenon DEF Short
  <2>. HIDE DEF l1, l2, l3, l4, l5, l6, l7, l8, l9
  <2>. QED  BY <1>4, <2>1 DEF ListLimit
<1>6. Within(q1, n1)
  BY SMTT(30), <1>2, <1>4, EncodingSize DEF Within
<1>. HIDE DEF q1, n1
<1>7. Within(q2, n2)
  BY <1>3, <1>6, Appended
<1>. HIDE DEF q2, n2
<1>8. Within(q3, n3)
  BY <1>3, <1>7, Appended
<1>. HIDE DEF q3, n3
<1>9. Within(q4, n4)
  BY <1>3, <1>8, Appended
<1>. HIDE DEF q4, n4
<1>10. Within(q5, n5)
  BY <1>3, <1>9, Appended
<1>. HIDE DEF q5, n5
<1>11. Within(q6, n6)
  BY <1>3, <1>10, Appended
<1>. HIDE DEF q6, n6
<1>12. Within(q7, n7)
  BY <1>3, <1>11, Appended
<1>. HIDE DEF q7, n7
<1>13. Within(q8, n8)
  BY <1>3, <1>12, Appended
<1>. HIDE DEF q8, n8
<1>14. Within(q9, n9)
  BY <1>3, <1>13, Appended
<1>. HIDE DEF q9, n9
<1>15. q9 \in Seq(Byte) /\ Len(q9) \in Nat /\ Len(q9) < TwoBytes
  BY <1>5, <1>14 DEF Within, TwoBytes
<1>16. h \in Seq(Byte) /\ Len(h) \in Nat /\ raw \in Seq(Byte) /\ Len(raw) = Len(h) + Len(q9)
  <2>1. HeaderOf(Len(q9))
    BY <1>15, HeaderIs
  <2>2. h \in Seq(Byte)
    BY <1>15, <2>1 DEF HeaderOf, IsHeader
  <2>. HIDE DEF h
  <2>. QED  BY <1>15, <2>2, ConcatAt
<1>. DEFINE i == 1 + Len(h)
<1>17. raw[1] >= 192 /\ Extent(raw, 1) = <<i, i + Len(q9) - 1>> /\ Occurs(raw, i, q9)
  <2>1. Occurs(raw, 1, raw)
    <3>. HIDE DEF raw
    <3>1. Len(raw) \in Nat
      BY <1>16
    <3>. QED  BY <3>1 DEF Occurs
  <2>2. h = Header(192, 192 + 55, Len(q9))
    OBVIOUS
  <2>3. Occurs(raw, 1, Header(192, 192 + 55, Len(q9)) \o q9)
    BY <2>1, <2>2
  <2>. HIDE DEF raw
  <2>4. /\ raw[1] \in Nat /\ raw[1] >= 192
        /\ Extent(raw, 1) = <<1 + Len(Header(192, 192 + 55, Len(q9))),
                              1 + Len(Header(192, 192 + 55, Len(q9))) + Len(q9) - 1>>
        /\ Occurs(raw, 1 + Len(Header(192, 192 + 55, Len(q9))), q9)
    BY <1>15, <1>16, <2>3, HeaderExtent
  <2>. QED  BY <2>2, <2>4
<1>. HIDE DEF h, raw
<1>18. Items(raw) = Strings(raw, i)
  <2>1. Extent(raw, 1)[1] = i /\ Extent(raw, 1)[2] = i + Len(q9) - 1
    BY <1>17
  <2>2. i + Len(q9) - 1 = Len(raw)
    BY <1>15, <1>16
  <2>. QED  BY <1>17, <2>1, <2>2 DEF Items
<1>19. i \in Nat \ {0} /\ i + Len(q9) = Len(raw) + 1
  BY <1>15, <1>16
<1>. HIDE DEF i
<1>20. ReadsFrom(raw, i, q9, 10, ps)
  <2>1. Len(raw) + 1 \in Nat \ {0} /\ Len(raw) + 1 > Len(raw)
    BY <1>15, <1>16
  <2>2. Strings(raw, Len(raw) + 1) = <<>>
    BY <1>16, <2>1, StringsAre
  <2>3. Reads(raw, Len(raw) + 1, 10, ps)
    <3>. DEFINE x == Strings(raw, Len(raw) + 1)
    <3>1. x \in Seq(Pieces(raw)) /\ Len(x) = 10 - 10 /\ \A j \in 1 .. 10 - 10 : FALSE
      <4>1. x = <<>> /\ 10 - 10 = 0 /\ 1 .. 0 = {}
        BY <2>2
      <4>2. <<>> \in Seq(Pieces(raw)) /\ Len(<<>>) = 0
        OBVIOUS
      <4>. QED  BY <4>1, <4>2, Zenon
    <3>. HIDE DEF x
    <3>2. \A j \in 1 .. 10 - 10 : x[j] = ps[10 + j - 1]
      BY <3>1
    <3>. QED  BY <3>1, <3>2 DEF Reads, x
  <2>. QED  BY <1>15, <1>17, <1>19, <2>3 DEF ReadsFrom
<1>21. ReadsFrom(raw, i, q8, 9, ps)
  <2>1. 9 \in 1 .. 9 /\ 9 + 1 = 10 /\ q8 \in Seq(Byte)
    BY <1>13 DEF Within
  <2>. QED  BY <1>3, <1>16, <1>19, <1>20, <2>1, ReadsBefore DEF q9
<1>22. ReadsFrom(raw, i, q7, 8, ps)
  <2>1. 8 \in 1 .. 9 /\ 8 + 1 = 9 /\ q7 \in Seq(Byte)
    BY <1>12 DEF Within
  <2>. QED  BY <1>3, <1>16, <1>19, <1>21, <2>1, ReadsBefore DEF q8
<1>23. ReadsFrom(raw, i, q6, 7, ps)
  <2>1. 7 \in 1 .. 9 /\ 7 + 1 = 8 /\ q6 \in Seq(Byte)
    BY <1>11 DEF Within
  <2>. QED  BY <1>3, <1>16, <1>19, <1>22, <2>1, ReadsBefore DEF q7
<1>24. ReadsFrom(raw, i, q5, 6, ps)
  <2>1. 6 \in 1 .. 9 /\ 6 + 1 = 7 /\ q5 \in Seq(Byte)
    BY <1>10 DEF Within
  <2>. QED  BY <1>3, <1>16, <1>19, <1>23, <2>1, ReadsBefore DEF q6
<1>25. ReadsFrom(raw, i, q4, 5, ps)
  <2>1. 5 \in 1 .. 9 /\ 5 + 1 = 6 /\ q4 \in Seq(Byte)
    BY <1>9 DEF Within
  <2>. QED  BY <1>3, <1>16, <1>19, <1>24, <2>1, ReadsBefore DEF q5
<1>26. ReadsFrom(raw, i, q3, 4, ps)
  <2>1. 4 \in 1 .. 9 /\ 4 + 1 = 5 /\ q3 \in Seq(Byte)
    BY <1>8 DEF Within
  <2>. QED  BY <1>3, <1>16, <1>19, <1>25, <2>1, ReadsBefore DEF q4
<1>27. ReadsFrom(raw, i, q2, 3, ps)
  <2>1. 3 \in 1 .. 9 /\ 3 + 1 = 4 /\ q2 \in Seq(Byte)
    BY <1>7 DEF Within
  <2>. QED  BY <1>3, <1>16, <1>19, <1>26, <2>1, ReadsBefore DEF q3
<1>28. ReadsFrom(raw, i, q1, 2, ps)
  <2>1. 2 \in 1 .. 9 /\ 2 + 1 = 3 /\ q1 \in Seq(Byte)
    BY <1>6 DEF Within
  <2>. QED  BY <1>3, <1>16, <1>19, <1>27, <2>1, ReadsBefore DEF q2
<1>29. Reads(raw, i, 1, ps)
  <2>1. Encodes(q1, ps[1]) /\ Occurs(raw, i, q1) /\ Reads(raw, i + Len(q1), 1 + 1, ps)
    BY <1>2, <1>28 DEF ReadsFrom, q1
  <2>. QED  BY <1>16, <1>19, <2>1, ReadsOne
<1>30. /\ Items(raw) \in Seq(Pieces(raw)) /\ Len(Items(raw)) = 9
       /\ \A k \in 1 .. 9 : Items(raw)[k] = ps[k]
  <2>. DEFINE x == Strings(raw, i)
  <2>1. /\ x \in Seq(Pieces(raw)) /\ Len(x) = 9
        /\ \A k \in 1 .. 9 : x[k] = ps[k + 1 - 1] /\ ps[k + 1 - 1] = ps[k]
    BY <1>29 DEF Reads
  <2>. QED  BY <1>18, <2>1
<1>. QED  BY <1>1, <1>16, <1>30

-----------------------------------------------------------------------------
(* The elements of a transaction.                                          *)

\* A string is encoded as it is, r and s without their leading zeros.
LEMMA ElementEncodes ==
  ASSUME NEW b \in Seq(Byte), NEW zeros \in BOOLEAN, Len(b) < TwoBytes
  PROVE  Encodes(wallet_encode_element(b, zeros), IF zeros THEN WithoutZeros(b) ELSE b)
<1>. DEFINE p == IF zeros THEN WithoutZeros(b) ELSE b
<1>1. p \in Seq(Byte) /\ Len(p) <= Len(b)
  BY WithoutZerosIs
<1>2. Len(p) \in Nat /\ Len(b) \in Nat
  BY <1>1
<1>3. Len(p) < TwoBytes
  <2>1. TwoBytes \in Nat
    BY DEF TwoBytes
  <2>. QED  BY <1>1, <1>2, <2>1
<1>4. wallet_encode_element(b, zeros)
        = IF Len(p) = 1 /\ p[1] < 128 THEN p ELSE Header(128, 183, Len(p)) \o p
  BY DEF wallet_encode_element
<1>. HIDE DEF p
<1>5. Encodes(wallet_encode_element(b, zeros), p)
  <2>. DEFINE e == wallet_encode_element(b, zeros)
  <2>1. CASE Len(p) = 1 /\ p[1] < 128
    <3>1. e = p
      BY <1>4, <2>1, Zenon
    <3>. QED  BY <1>1, <2>1, <3>1, Zenon DEF Encodes
  <2>2. CASE ~(Len(p) = 1 /\ p[1] < 128)
    <3>1. e = Header(128, 183, Len(p)) \o p
      BY <1>4, <2>2, Zenon
    <3>. QED  BY <1>1, <1>3, <3>1, Zenon DEF Encodes
  <2>. QED  BY <2>1, <2>2, Zenon
<1>. QED  BY <1>5 DEF p

\* The one byte the list takes of a small number's encoding is all of it.
LEMMA IntEncodes ==
  ASSUME NEW n \in 1 .. 127
  PROVE  <<n>> \in Seq(Byte) /\ Encodes(FirstByte(wallet_encode_int(n)), <<n>>)
<1>. DEFINE b == <<n>>
<1>1. b \in Seq(Byte) /\ Len(b) = 1 /\ b[1] < 128
  BY DEF Byte
<1>2. wallet_encode_int(n) = b
  BY DEF wallet_encode_int
<1>. HIDE DEF b
<1>3. SubSeq(b, 1, 1) = b
  <2>. DEFINE x == SubSeq(b, 1, 1)
  <2>1. x \in Seq(Byte) /\ Len(x) = 1 /\ x[1] = b[1]
    BY <1>1
  <2>. HIDE DEF x
  <2>2. \A k \in 1 .. Len(x) : x[k] = b[k]
    BY <2>1
  <2>3. x = b
    BY <1>1, <2>1, <2>2, SeqEqual
  <2>. QED  BY <2>3 DEF x
<1>4. Encodes(FirstByte(wallet_encode_int(n)), b)
  BY <1>1, <1>2, <1>3, Zenon DEF Encodes, FirstByte
<1>. QED  BY <1>1, <1>4 DEF b

\* The bytes of a transaction, and the strings that must be read from them.
RawBytes(t, sig) ==
  wallet_encode_list([f \in 1 .. 6 |-> wallet_encode_element(t[f], FALSE)],
                     wallet_encode_int(sig.v),
                     wallet_encode_element(sig.r, TRUE),
                     wallet_encode_element(sig.s, TRUE))
Fields(t, sig) ==
  [k \in 1 .. 9 |-> IF k <= 6 THEN t[k] ELSE IF k = 7 THEN <<sig.v>>
                    ELSE IF k = 8 THEN WithoutZeros(sig.r) ELSE WithoutZeros(sig.s)]

\* The fields are bytes and fit in the buffer.
FieldsFit(t) ==
  /\ \A f \in 1 .. 6 : t[f] \in Seq(Byte)
  /\ 2 * (Len(t[1]) + Len(t[2]) + Len(t[3]) + Len(t[4]) + Len(t[5]) + Len(t[6]))
       <= 2 * RawTxSize + 6
IsSignature(sig) ==
  /\ sig.v \in 1 .. 127 /\ sig.r \in Seq(Byte) /\ sig.s \in Seq(Byte)
  /\ Len(sig.r) <= HalfSize /\ Len(sig.s) <= HalfSize

\* The reader gets the fields from a transaction's bytes.
LEMMA ItemsAreFields ==
  ASSUME NEW t, NEW sig, FieldsFit(t), IsSignature(sig)
  PROVE  /\ RawBytes(t, sig) \in Seq(Byte)
         /\ Fields(t, sig) \in Seq(Seq(Byte)) /\ Len(Fields(t, sig)) = 9
         /\ Items(RawBytes(t, sig)) = Fields(t, sig)
<1>. DEFINE ps == Fields(t, sig)
            elements == [f \in 1 .. 6 |-> wallet_encode_element(t[f], FALSE)]
            v == wallet_encode_int(sig.v)
            r == wallet_encode_element(sig.r, TRUE)
            u == wallet_encode_element(sig.s, TRUE)
            raw == RawBytes(t, sig)
<1>1. /\ ps[1] = t[1] /\ ps[2] = t[2] /\ ps[3] = t[3]
      /\ ps[4] = t[4] /\ ps[5] = t[5] /\ ps[6] = t[6] /\ ps[7] = <<sig.v>>
      /\ ps[8] = WithoutZeros(sig.r) /\ ps[9] = WithoutZeros(sig.s)
      /\ \A f \in 1 .. 6 : ps[f] = t[f]
  BY DEF Fields
<1>2. /\ \A f \in 1 .. 6 : t[f] \in Seq(Byte)
      /\ sig.v \in 1 .. 127 /\ sig.r \in Seq(Byte) /\ sig.s \in Seq(Byte)
      /\ Len(sig.r) <= HalfSize /\ Len(sig.s) <= HalfSize
  BY DEF FieldsFit, IsSignature
<1>3. <<sig.v>> \in Seq(Byte) /\ Encodes(FirstByte(v), <<sig.v>>)
  BY <1>2, IntEncodes
<1>4. /\ WithoutZeros(sig.r) \in Seq(Byte) /\ Len(WithoutZeros(sig.r)) <= Len(sig.r)
      /\ WithoutZeros(sig.s) \in Seq(Byte) /\ Len(WithoutZeros(sig.s)) <= Len(sig.s)
  BY <1>2, WithoutZerosIs
<1>. DEFINE l1 == Len(t[1])
            l2 == Len(t[2])
            l3 == Len(t[3])
            l4 == Len(t[4])
            l5 == Len(t[5])
            l6 == Len(t[6])
            l8 == Len(WithoutZeros(sig.r))
            l9 == Len(WithoutZeros(sig.s))
<1>5. /\ l1 \in Nat /\ l2 \in Nat /\ l3 \in Nat /\ l4 \in Nat /\ l5 \in Nat /\ l6 \in Nat
      /\ l8 \in Nat /\ l9 \in Nat /\ l8 <= 32 /\ l9 <= 32
  <2>1. l1 \in Nat /\ l2 \in Nat /\ l3 \in Nat /\ l4 \in Nat /\ l5 \in Nat /\ l6 \in Nat
    <3>1. \A x \in Seq(Byte) : Len(x) \in Nat
      OBVIOUS
    <3>2. 1 \in 1 .. 6 /\ 2 \in 1 .. 6 /\ 3 \in 1 .. 6 /\ 4 \in 1 .. 6 /\ 5 \in 1 .. 6 /\ 6 \in 1 .. 6
      OBVIOUS
    <3>. QED  BY <1>2, <3>1, <3>2, Zenon
  <2>2. /\ Len(sig.r) \in Nat /\ Len(sig.s) \in Nat /\ l8 \in Nat /\ l9 \in Nat
        /\ l8 <= Len(sig.r) /\ l9 <= Len(sig.s)
        /\ Len(sig.r) <= 32 /\ Len(sig.s) <= 32
    BY SMTT(30), <1>2, <1>4 DEF HalfSize
  <2>. QED  BY SMTT(30), <2>1, <2>2
<1>6. l1 + l2 + l3 + l4 + l5 + l6 <= 5603
  <2>1. 2 * (l1 + l2 + l3 + l4 + l5 + l6) <= 2 * RawTxSize + 6
    BY Zenon DEF FieldsFit
  <2>. HIDE DEF l1, l2, l3, l4, l5, l6
  <2>. QED  BY <1>5, <2>1 DEF RawTxSize
<1>7. Short(ps)
  <2>. DEFINE l7 == Len(<<sig.v>>)
  <2>1. l7 = 1
    OBVIOUS
  <2>2. l1 + l2 + l3 + l4 + l5 + l6 + l7 + l8 + l9 < ListLimit
    <3>. HIDE DEF l1, l2, l3, l4, l5, l6, l7, l8, l9
    <3>. QED  BY <1>5, <1>6, <2>1 DEF ListLimit
  <2>. HIDE DEF ps
  <2>. QED  BY <1>1, <2>2, Zenon DEF Short
<1>8. EncodesAll(elements, v, r, u, ps)
  <2>1. ASSUME NEW f \in 1 .. 6 PROVE Encodes(elements[f], ps[f])
    <3>1. Len(t[f]) < TwoBytes
      <4>1. f \in {1, 2, 3, 4, 5, 6}
        OBVIOUS
      <4>2. l1 < TwoBytes /\ l2 < TwoBytes /\ l3 < TwoBytes /\ l4 < TwoBytes /\ l5 < TwoBytes /\ l6 < TwoBytes
        <5>. HIDE DEF l1, l2, l3, l4, l5, l6
        <5>. QED  BY <1>5, <1>6 DEF TwoBytes
      <4>. QED  BY <4>1, <4>2, Zenon
    <3>2. Encodes(wallet_encode_element(t[f], FALSE), t[f])
      BY <1>2, <3>1, ElementEncodes
    <3>. QED  BY <1>1, <3>2
  <2>2. Len(sig.r) < TwoBytes /\ Len(sig.s) < TwoBytes
    <3>1. Len(sig.r) \in Nat /\ Len(sig.s) \in Nat /\ Len(sig.r) <= 32 /\ Len(sig.s) <= 32
      BY <1>2 DEF HalfSize
    <3>. QED  BY <3>1 DEF TwoBytes
  <2>3. Encodes(r, WithoutZeros(sig.r)) /\ Encodes(u, WithoutZeros(sig.s))
    BY <1>2, <2>2, ElementEncodes
  <2>. HIDE DEF elements, v, r, u, ps
  <2>. QED  BY <1>1, <1>3, <2>1, <2>3, Zenon DEF EncodesAll
<1>9. raw = wallet_encode_list(elements, v, r, u)
  BY DEF RawBytes
<1>10. /\ raw \in Seq(Byte) /\ Items(raw) \in Seq(Pieces(raw)) /\ Len(Items(raw)) = 9
       /\ \A k \in 1 .. 9 : Items(raw)[k] = ps[k]
  <2>. HIDE DEF elements, v, r, u, ps, raw
  <2>. QED  BY <1>7, <1>8, <1>9, ItemsOfList
<1>11. ps \in Seq(Seq(Byte)) /\ Len(ps) = 9 /\ ps = [k \in 1 .. 9 |-> ps[k]]
  <2>. DEFINE S == Seq(Byte)
  <2>1. \A k \in 1 .. 9 : (IF k <= 6 THEN t[k] ELSE IF k = 7 THEN <<sig.v>>
                    ELSE IF k = 8 THEN WithoutZeros(sig.r) ELSE WithoutZeros(sig.s)) \in S
    BY <1>2, <1>3, <1>4
  <2>2. ps \in [1 .. 9 -> S]
    BY <2>1 DEF Fields
  <2>. HIDE DEF ps, S
  <2>3. ps \in Seq(S) /\ ps = [k \in 1 .. 9 |-> ps[k]]
    <3>1. ps = [k \in 1 .. 9 |-> ps[k]]
      BY <2>2
    <3>2. 9 \in Nat
      OBVIOUS
    <3>3. ps \in Seq(S)
      BY <2>2, <3>2, SeqDef, Zenon
    <3>. QED  BY <3>1, <3>3
  <2>4. DOMAIN ps = 1 .. 9
    BY <2>2
  <2>5. Len(ps) = 9
    BY <2>3, <2>4, LenProperties
  <2>. QED  BY <2>3, <2>5 DEF S
<1>12. Items(raw) = ps
  <2>. DEFINE x == Items(raw)
  <2>. HIDE DEF ps, raw, x
  <2>1. x \in Seq(Pieces(raw)) /\ Len(x) = 9 /\ \A k \in 1 .. 9 : x[k] = ps[k]
    BY <1>10 DEF x
  <2>2. x = [k \in 1 .. 9 |-> x[k]]
    BY <2>1
  <2>3. x = ps
    BY <1>11, <2>1, <2>2
  <2>. QED  BY <2>3 DEF x
<1>. QED  BY <1>10, <1>11, <1>12

-----------------------------------------------------------------------------
(* The invariant of the state machine.                                     *)

\* What stands for the signature in the pass that is hashed.
initialSignature == [v |-> ethereum_chain_id, r |-> hex2byte_arr(r_initial),
                     s |-> hex2byte_arr(s_initial)]

\* The arguments of a call are digits and fit in the buffer.
DigitsFit(a) ==
  /\ \A f \in 1 .. 6 : a[f] \in Seq(Hex)
  /\ Len(a[1]) + Len(a[2]) + Len(a[3]) + Len(a[4]) + Len(a[5]) + Len(a[6])
       <= 2 * RawTxSize
IsCall(a) ==
  a[1] \in Nonces /\ a[2] = GasPrice /\ a[3] = GasLimit /\ a[5] = <<>>

\* tx holds the call's arguments.
TxOK ==
  /\ DigitsFit(arguments)
  /\ \A f \in 1 .. 6 : tx[f] = hex2byte_arr(arguments[f])
  /\ pc # "idle" => IsCall(arguments)

\* In the first pass the signature is the initial one, which was hashed with the
\* same fields when the second pass begins.
PassOK ==
  /\ pc \in {"filled", "assembled"} => signature = initialSignature
  /\ pc \in {"assembled", "sent"} => rawTx = RawBytes(tx, signature)
  /\ pc \in {"signed", "sent"} => /\ IsSignature(signature)
                                  /\ hashed = RawBytes(tx, initialSignature)

IInv == TypeOK /\ TxOK /\ PassOK

\* No digits, no bytes.
LEMMA NoDigits == hex2byte_arr(<<>>) = <<>>
<1>1. <<>> \in Seq(Hex) /\ Len(<<>>) = 0 /\ (0 + 1) \div 2 = 0
  OBVIOUS
<1>2. hex2byte_arr(<<>>) \in Seq(Byte) /\ Len(hex2byte_arr(<<>>)) = 0
  BY <1>1, Hex2ByteIs
<1>. QED  BY <1>2, EmptySeq

\* The bytes of digits that fit, fit.
LEMMA DigitsAreFields ==
  ASSUME NEW a, NEW t, DigitsFit(a), \A f \in 1 .. 6 : t[f] = hex2byte_arr(a[f])
  PROVE  FieldsFit(t)
<1>1. \A f \in 1 .. 6 : a[f] \in Seq(Hex)
  BY DEF DigitsFit
<1>2. ASSUME NEW f \in 1 .. 6
      PROVE  /\ t[f] \in Seq(Byte) /\ Len(t[f]) \in Nat /\ Len(a[f]) \in Nat
             /\ 2 * Len(t[f]) <= Len(a[f]) + 1
  <2>. DEFINE x == t[f]
              d == a[f]
  <2>1. d \in Seq(Hex) /\ x = hex2byte_arr(d)
    BY <1>1
  <2>. HIDE DEF x, d
  <2>2. x \in Seq(Byte) /\ Len(x) = (Len(d) + 1) \div 2
    BY <2>1, Hex2ByteIs
  <2>3. Len(d) \in Nat /\ Len(x) \in Nat
    BY <2>1, <2>2
  <2>. DEFINE n == Len(d)
  <2>4. 2 * ((n + 1) \div 2) <= n + 1
    <3>. HIDE DEF n
    <3>. QED  BY <2>3 DEF n
  <2>. QED  BY <2>2, <2>3, <2>4 DEF x, d
<1>. DEFINE m1 == Len(t[1])
            m2 == Len(t[2])
            m3 == Len(t[3])
            m4 == Len(t[4])
            m5 == Len(t[5])
            m6 == Len(t[6])
            n1 == Len(a[1])
            n2 == Len(a[2])
            n3 == Len(a[3])
            n4 == Len(a[4])
            n5 == Len(a[5])
            n6 == Len(a[6])
<1>3. 1 \in 1 .. 6 /\ 2 \in 1 .. 6 /\ 3 \in 1 .. 6 /\ 4 \in 1 .. 6 /\ 5 \in 1 .. 6 /\ 6 \in 1 .. 6
  OBVIOUS
<1>4. /\ m1 \in Nat /\ n1 \in Nat /\ 2 * m1 <= n1 + 1
      /\ m2 \in Nat /\ n2 \in Nat /\ 2 * m2 <= n2 + 1
      /\ m3 \in Nat /\ n3 \in Nat /\ 2 * m3 <= n3 + 1
      /\ m4 \in Nat /\ n4 \in Nat /\ 2 * m4 <= n4 + 1
      /\ m5 \in Nat /\ n5 \in Nat /\ 2 * m5 <= n5 + 1
      /\ m6 \in Nat /\ n6 \in Nat /\ 2 * m6 <= n6 + 1
  BY <1>2, <1>3, Zenon
<1>5. n1 + n2 + n3 + n4 + n5 + n6 <= 2 * RawTxSize
  BY Zenon DEF DigitsFit
<1>6. 2 * (m1 + m2 + m3 + m4 + m5 + m6) <= 2 * RawTxSize + 6
  <2>. HIDE DEF m1, m2, m3, m4, m5, m6, n1, n2, n3, n4, n5, n6
  <2>1. RawTxSize \in Nat
    BY DEF RawTxSize
  <2>. QED  BY <1>4, <1>5, <2>1
<1>. QED  BY <1>2, <1>6, Zenon DEF FieldsFit

\* The initial signature is one; its r and s are read as empty.
LEMMA InitialIs ==
  /\ IsSignature(initialSignature)
  /\ initialSignature.v = ethereum_chain_id
  /\ WithoutZeros(initialSignature.r) = <<>> /\ WithoutZeros(initialSignature.s) = <<>>
<1>. DEFINE d == <<0, 0>>
            b == hex2byte_arr(d)
<1>1. d \in Seq(Hex) /\ Len(d) \in {1, 2} /\ \A i \in 1 .. Len(d) : d[i] = 0
  BY DEF Hex
<1>. HIDE DEF d
<1>2. b \in Seq(Byte) /\ Len(b) = 1 /\ b[1] = 0
  BY <1>1, Hex2ByteZero
<1>. HIDE DEF b
<1>3. WithoutZeros(b) = <<>>
  <2>1. LeadingZeros(b) = 1
    BY <1>2, LeadingZerosAre
  <2>2. WithoutZeros(b) = SubSeq(b, 2, 1 + Len(b) - 1)
    BY <2>1 DEF WithoutZeros
  <2>3. 1 + Len(b) - 1 = 1
    BY <1>2
  <2>4. SubSeq(b, 2, 1) \in Seq(Byte) /\ Len(SubSeq(b, 2, 1)) = 0
    BY <1>2
  <2>. QED  BY <2>2, <2>3, <2>4, EmptySeq
<1>4. /\ initialSignature.v = ethereum_chain_id
      /\ initialSignature.r = b /\ initialSignature.s = b
  BY DEF initialSignature, r_initial, s_initial, b, d
<1>5. ethereum_chain_id \in 1 .. 127
  BY ChainAssumption
<1>6. Len(b) <= HalfSize
  BY <1>2 DEF HalfSize
<1>. QED  BY <1>2, <1>3, <1>4, <1>5, <1>6, Zenon DEF IsSignature

\* The initial state has the invariant.
LEMMA InitInv == Init => IInv
<1>. SUFFICES ASSUME Init PROVE IInv
  OBVIOUS
<1>. USE DEF Init
<1>1. \A f \in 1 .. 6 : tx[f] = <<>> /\ arguments[f] = <<>>
  OBVIOUS
<1>2. TypeOK
  <2>1. \A f \in 1 .. 6 : tx[f] \in Seq(Byte)
    <3>1. <<>> \in Seq(Byte)
      OBVIOUS
    <3>. QED  BY <1>1, <3>1, Zenon
  <2>2. 0 \in Byte /\ 0 \in 0 .. MaxTransactions
    BY ArgumentsAssumption DEF Byte
  <2>3. /\ signature.v \in Byte /\ signature.r \in Seq(Byte) /\ signature.s \in Seq(Byte)
        /\ rawTx \in Seq(Byte) /\ hashed \in Seq(Byte)
    BY <2>2
  <2>. QED  BY <2>1, <2>2, <2>3 DEF TypeOK
<1>3. TxOK
  <2>1. \A f \in 1 .. 6 : arguments[f] \in Seq(Hex)
    <3>1. <<>> \in Seq(Hex)
      OBVIOUS
    <3>. QED  BY <1>1, <3>1, Zenon
  <2>2. \A f \in 1 .. 6 : Len(arguments[f]) = 0
    BY <1>1
  <2>3. /\ Len(arguments[1]) = 0 /\ Len(arguments[2]) = 0 /\ Len(arguments[3]) = 0
        /\ Len(arguments[4]) = 0 /\ Len(arguments[5]) = 0 /\ Len(arguments[6]) = 0
    BY <2>2
  <2>4. DigitsFit(arguments)
    BY <2>1, <2>3 DEF DigitsFit, RawTxSize
  <2>. QED  BY <1>1, <2>4, NoDigits DEF TxOK
<1>4. PassOK
  BY DEF PassOK
<1>. QED  BY <1>2, <1>3, <1>4 DEF IInv

\* Both calls fill tx from arguments that fit.
LEMMA FillInv ==
  ASSUME IInv, NEW nonce \in Nonces, NEW to, NEW data,
         to \in Seq(Hex), data \in Seq(Hex),
         Len(nonce) + Len(GasPrice) + Len(GasLimit) + Len(to) + Len(data) <= 2 * RawTxSize,
         Fill(nonce, to, data)
  PROVE  IInv'
<1>. DEFINE a == <<nonce, GasPrice, GasLimit, to, <<>>, data>>
<1>1. /\ pc' = "filled" /\ transactions < MaxTransactions
      /\ transactions' = transactions + 1 /\ rawTx' = rawTx /\ hashed' = hashed
      /\ signature' = initialSignature
      /\ arguments' = a /\ tx' = [f \in 1 .. 6 |-> hex2byte_arr(a[f])]
  BY DEF Fill, initialSignature
<1>2. /\ a[1] = nonce /\ a[2] = GasPrice /\ a[3] = GasLimit
      /\ a[4] = to /\ a[5] = <<>> /\ a[6] = data
  OBVIOUS
<1>. HIDE DEF a
<1>3. \A f \in 1 .. 6 : a[f] \in Seq(Hex)
  <2>1. /\ a[1] \in Seq(Hex) /\ a[2] \in Seq(Hex) /\ a[3] \in Seq(Hex)
        /\ a[4] \in Seq(Hex) /\ a[5] \in Seq(Hex) /\ a[6] \in Seq(Hex)
    BY <1>2, ArgumentsAssumption DEF HexString
  <2>. QED  BY SMTT(30), <2>1
<1>4. \A f \in 1 .. 6 : tx'[f] = hex2byte_arr(a[f]) /\ tx'[f] \in Seq(Byte)
  BY <1>1, <1>3, Hex2ByteIs
<1>5. TxOK'
  <2>1. Len(a[1]) + Len(a[2]) + Len(a[3]) + Len(a[4]) + Len(a[5]) + Len(a[6]) <= 2 * RawTxSize
    <3>. DEFINE n1 == Len(nonce)
                n2 == Len(GasPrice)
                n3 == Len(GasLimit)
                n4 == Len(to)
                n6 == Len(data)
    <3>1. /\ n1 \in Nat /\ n2 \in Nat /\ n3 \in Nat /\ n4 \in Nat /\ n6 \in Nat
      BY ArgumentsAssumption DEF HexString
    <3>2. n1 + n2 + n3 + n4 + n6 <= 2 * RawTxSize
      BY Zenon
    <3>3. Len(a[5]) = 0
      BY <1>2
    <3>4. /\ Len(a[1]) = n1 /\ Len(a[2]) = n2 /\ Len(a[3]) = n3
          /\ Len(a[4]) = n4 /\ Len(a[6]) = n6
      BY <1>2, Zenon
    <3>. HIDE DEF n1, n2, n3, n4, n6
    <3>5. n1 + n2 + n3 + n4 + 0 + n6 <= 2 * RawTxSize
      BY <3>1, <3>2
    <3>. QED  BY <3>3, <3>4, <3>5, Zenon
  <2>2. DigitsFit(a)
    BY <1>3, <2>1, Zenon DEF DigitsFit
  <2>3. IsCall(a)
    BY <1>2 DEF IsCall
  <2>. QED  BY <1>1, <1>4, <2>2, <2>3 DEF TxOK
<1>6. TypeOK'
  <2>1. IsSignature(initialSignature)
    BY InitialIs
  <2>2. /\ signature'.v \in Byte
        /\ signature'.r \in Seq(Byte) /\ signature'.s \in Seq(Byte)
    BY <1>1, <2>1 DEF IsSignature, Byte
  <2>3. rawTx' \in Seq(Byte) /\ hashed' \in Seq(Byte)
    BY <1>1 DEF IInv, TypeOK
  <2>4. transactions' \in 0 .. MaxTransactions
    BY <1>1, ArgumentsAssumption DEF IInv, TypeOK
  <2>. QED  BY <1>1, <1>4, <2>2, <2>3, <2>4 DEF TypeOK
<1>7. PassOK'
  BY <1>1 DEF PassOK
<1>. QED  BY <1>5, <1>6, <1>7 DEF IInv

LEMMA DeployInv == IInv /\ generate_deployContract_rawTransaction => IInv'
<1>. SUFFICES ASSUME IInv, NEW nonce \in Nonces, Fill(nonce, <<>>, ContractBin) PROVE IInv'
  BY DEF generate_deployContract_rawTransaction
<1>1. <<>> \in Seq(Hex) /\ ContractBin \in Seq(Hex)
  BY ArgumentsAssumption DEF HexString
<1>2. Len(nonce) + Len(GasPrice) + Len(GasLimit) + Len(<<>>) + Len(ContractBin)
        <= 2 * RawTxSize
  <2>. DEFINE call == <<<<>>, ContractBin>>
  <2>1. call[1] = <<>> /\ call[2] = ContractBin
    OBVIOUS
  <2>2. call \in {<<<<>>, ContractBin>>} \cup {Address} \X MethodDatas
    OBVIOUS
  <2>. HIDE DEF call
  <2>3. Len(nonce) + Len(GasPrice) + Len(GasLimit) + Len(call[1]) + Len(call[2])
          <= 2 * RawTxSize
    BY <2>2, SizesAssumption, Zenon
  <2>. QED  BY <2>1, <2>3, Zenon
<1>. QED  BY <1>1, <1>2, FillInv

LEMMA TransferInv == IInv /\ generate_transferValue_rawTransaction => IInv'
<1>. SUFFICES ASSUME IInv, NEW nonce \in Nonces, NEW data \in MethodDatas,
                     Fill(nonce, Address, data)
              PROVE  IInv'
  BY DEF generate_transferValue_rawTransaction
<1>1. Address \in Seq(Hex) /\ data \in Seq(Hex)
  BY ArgumentsAssumption DEF HexString
<1>2. Len(nonce) + Len(GasPrice) + Len(GasLimit) + Len(Address) + Len(data)
        <= 2 * RawTxSize
  <2>. DEFINE call == <<Address, data>>
  <2>1. call[1] = Address /\ call[2] = data
    OBVIOUS
  <2>2. call \in {<<<<>>, ContractBin>>} \cup {Address} \X MethodDatas
    OBVIOUS
  <2>. HIDE DEF call
  <2>3. Len(nonce) + Len(GasPrice) + Len(GasLimit) + Len(call[1]) + Len(call[2])
          <= 2 * RawTxSize
    BY <2>2, SizesAssumption, Zenon
  <2>. QED  BY <2>1, <2>3, Zenon
<1>. QED  BY <1>1, <1>2, FillInv

\* The list is assembled from fields and a signature that fit.
LEMMA AssembleInv == IInv /\ wallet_ethereum_assemble_tx => IInv'
<1>. SUFFICES ASSUME IInv, wallet_ethereum_assemble_tx PROVE IInv'
  OBVIOUS
<1>1. /\ pc \in {"filled", "signed"} /\ pc' = IF pc = "filled" THEN "assembled" ELSE "sent"
      /\ rawTx' = RawBytes(tx, signature)
      /\ UNCHANGED <<tx, signature, hashed, arguments, transactions>>
  BY DEF wallet_ethereum_assemble_tx, RawBytes
<1>2. FieldsFit(tx)
  BY DigitsAreFields DEF IInv, TxOK
<1>3. IsSignature(signature)
  BY <1>1, InitialIs DEF IInv, PassOK
<1>4. rawTx' \in Seq(Byte)
  BY <1>1, <1>2, <1>3, ItemsAreFields
<1>5. TypeOK'
  BY <1>1, <1>4 DEF IInv, TypeOK
<1>6. TxOK'
  BY <1>1 DEF IInv, TxOK
<1>7. PassOK'
  <2>1. CASE pc = "filled"
    BY <1>1, <2>1 DEF IInv, PassOK
  <2>2. CASE pc = "signed"
    BY <1>1, <2>2 DEF IInv, PassOK
  <2>. QED  BY <1>1, <2>1, <2>2
<1>. QED  BY <1>5, <1>6, <1>7 DEF IInv

\* v keeps its meaning as a byte.
LEMMA SignInv == IInv /\ Sign => IInv'
<1>. SUFFICES ASSUME IInv, Sign PROVE IInv'
  OBVIOUS
<1>1. PICK recovery \in {0, 1}, r \in Signatures, s \in Signatures :
        signature' = [v |-> SignatureV(recovery), r |-> r, s |-> s]
  BY DEF Sign
<1>2. pc = "assembled" /\ pc' = "signed" /\ hashed' = rawTx
      /\ UNCHANGED <<tx, rawTx, arguments, transactions>>
  BY DEF Sign
<1>3. SignatureV(recovery) \in 1 .. 127 /\ SignatureV(recovery) \in Byte
  <2>. DEFINE n == recovery + 2 * ethereum_chain_id + 35
  <2>1. n \in 1 .. 127
    BY ChainAssumption
  <2>. HIDE DEF n
  <2>2. n % 256 = n
    BY <2>1
  <2>. QED  BY <2>1, <2>2 DEF SignatureV, Byte, n
<1>4. IsSignature(signature')
  <2>1. /\ signature'.v = SignatureV(recovery) /\ signature'.r = r /\ signature'.s = s
    BY <1>1
  <2>2. r \in Seq(Byte) /\ s \in Seq(Byte) /\ Len(r) <= HalfSize /\ Len(s) <= HalfSize
    BY ArgumentsAssumption, SizesAssumption
  <2>. QED  BY <1>3, <2>1, <2>2, Zenon DEF IsSignature
<1>5. TypeOK'
  BY <1>2, <1>4 DEF IInv, TypeOK, IsSignature, Byte
<1>6. TxOK'
  BY <1>2 DEF IInv, TxOK
<1>7. PassOK'
  BY <1>2, <1>4 DEF IInv, PassOK
<1>. QED  BY <1>5, <1>6, <1>7 DEF IInv

LEMMA Invariant == Spec => []IInv
<1>1. IInv /\ [Next]_vars => IInv'
  <2>. SUFFICES ASSUME IInv, [Next]_vars PROVE IInv'
    OBVIOUS
  <2>1. CASE generate_deployContract_rawTransaction
    BY <2>1, DeployInv
  <2>2. CASE generate_transferValue_rawTransaction
    BY <2>2, TransferInv
  <2>3. CASE wallet_ethereum_assemble_tx
    BY <2>3, AssembleInv
  <2>4. CASE Sign
    BY <2>4, SignInv
  <2>5. CASE UNCHANGED vars
    BY <2>5 DEF vars, IInv, TypeOK, TxOK, PassOK
  <2>. QED  BY <2>1, <2>2, <2>3, <2>4, <2>5 DEF Next
<1>. QED  BY <1>1, InitInv, PTL DEF Spec

\* The fields and the signatures have their types, whatever the arguments.
THEOREM TypeCorrect == Spec => []TypeOK
<1>1. IInv => TypeOK
  BY DEF IInv
<1>. QED  BY <1>1, Invariant, PTL

\* When the transaction is sent, the reader gets the fields of tx with the
\* signature from it, and with the initial one from what was hashed.
LEMMA SentItems ==
  ASSUME IInv, pc = "sent"
  PROVE  /\ FieldsFit(tx) /\ IsSignature(signature)
         /\ Items(rawTx) = Fields(tx, signature)
         /\ Fields(tx, signature) \in Seq(Seq(Byte)) /\ Len(Fields(tx, signature)) = 9
         /\ Items(hashed) = Fields(tx, initialSignature)
         /\ Fields(tx, initialSignature) \in Seq(Seq(Byte))
         /\ Len(Fields(tx, initialSignature)) = 9
<1>1. FieldsFit(tx)
  BY DigitsAreFields DEF IInv, TxOK
<1>2. /\ IsSignature(signature) /\ rawTx = RawBytes(tx, signature)
      /\ hashed = RawBytes(tx, initialSignature)
  BY DEF IInv, PassOK
<1>3. IsSignature(initialSignature)
  BY InitialIs
<1>4. /\ Items(rawTx) = Fields(tx, signature)
      /\ Fields(tx, signature) \in Seq(Seq(Byte)) /\ Len(Fields(tx, signature)) = 9
  BY <1>1, <1>2, ItemsAreFields
<1>5. /\ Items(hashed) = Fields(tx, initialSignature)
      /\ Fields(tx, initialSignature) \in Seq(Seq(Byte))
      /\ Len(Fields(tx, initialSignature)) = 9
  BY <1>1, <1>2, <1>3, ItemsAreFields
<1>. QED  BY <1>1, <1>2, <1>4, <1>5

\* The first six elements of nine, and the last three.
LEMMA Slice ==
  ASSUME NEW S, NEW z \in Seq(S), Len(z) = 9
  PROVE  /\ SubSeq(z, 1, 6) \in Seq(S) /\ Len(SubSeq(z, 1, 6)) = 6
         /\ \A k \in 1 .. 6 : SubSeq(z, 1, 6)[k] = z[k]
         /\ SubSeq(z, 7, 9) \in Seq(S) /\ Len(SubSeq(z, 7, 9)) = 3
         /\ SubSeq(z, 7, 9)[1] = z[7] /\ SubSeq(z, 7, 9)[2] = z[8]
         /\ SubSeq(z, 7, 9)[3] = z[9]
<1>1. \A i \in 1 .. 9 : z[i] \in S
  BY ElementOfSeq
<1>2. /\ SubSeq(z, 1, 6) \in Seq(S) /\ Len(SubSeq(z, 1, 6)) = 6
      /\ \A k \in 1 .. 6 : SubSeq(z, 1, 6)[k] = z[k]
  <2>. DEFINE u == SubSeq(z, 1, 6)
  <2>1. /\ u \in Seq(S) /\ Len(u) = 6 - 1 + 1
        /\ \A k \in 1 .. 6 - 1 + 1 : u[k] = z[1 + k - 1]
    BY <1>1, SubSeqProperties
  <2>2. \A k \in 1 .. 6 : 1 + k - 1 = k
    OBVIOUS
  <2>. HIDE DEF u
  <2>3. /\ u \in Seq(S) /\ Len(u) = 6 /\ \A k \in 1 .. 6 : u[k] = z[k]
    BY <2>1, <2>2
  <2>. QED  BY <2>3 DEF u
<1>3. /\ SubSeq(z, 7, 9) \in Seq(S) /\ Len(SubSeq(z, 7, 9)) = 3
      /\ SubSeq(z, 7, 9)[1] = z[7] /\ SubSeq(z, 7, 9)[2] = z[8]
      /\ SubSeq(z, 7, 9)[3] = z[9]
  <2>. DEFINE u == SubSeq(z, 7, 9)
  <2>1. /\ u \in Seq(S) /\ Len(u) = 9 - 7 + 1
        /\ \A k \in 1 .. 9 - 7 + 1 : u[k] = z[7 + k - 1]
    BY <1>1, SubSeqProperties
  <2>. HIDE DEF u
  <2>2. /\ u \in Seq(S) /\ Len(u) = 3
        /\ u[1] = z[7 + 1 - 1] /\ u[2] = z[7 + 2 - 1] /\ u[3] = z[7 + 3 - 1]
    BY <2>1
  <2>. QED  BY <2>2 DEF u
<1>. QED  BY <1>2, <1>3

\* What is signed is what is sent, with the chain in place of the signature
\* (EIP-155), whatever the first transaction left in the buffers.
THEOREM Signed == Spec => []SignedIsSent
<1>1. IInv => SignedIsSent
  <2>. SUFFICES ASSUME IInv, pc = "sent"
                PROVE  /\ SubSeq(Items(rawTx), 1, 6) = SubSeq(Items(hashed), 1, 6)
                       /\ SubSeq(Items(hashed), 7, 9) = <<<<ethereum_chain_id>>, <<>>, <<>>>>
    BY DEF SignedIsSent
  <2>. DEFINE x == Items(rawTx)
              y == Items(hashed)
              S == Seq(Byte)
  <2>1. /\ x = Fields(tx, signature) /\ y = Fields(tx, initialSignature)
        /\ x \in Seq(S) /\ Len(x) = 9 /\ y \in Seq(S) /\ Len(y) = 9
    BY SentItems
  <2>2. \A k \in 1 .. 6 : x[k] = tx[k] /\ y[k] = tx[k]
    BY SMTT(30), <2>1 DEF Fields
  <2>3. y[7] = <<ethereum_chain_id>> /\ y[8] = <<>> /\ y[9] = <<>>
    BY <2>1, InitialIs DEF Fields
  <2>4. <<ethereum_chain_id>> \in S /\ <<>> \in S
    BY ChainAssumption DEF Byte
  <2>. HIDE DEF x, y, S
  <2>5. SubSeq(x, 1, 6) = SubSeq(y, 1, 6)
    <3>. DEFINE u == SubSeq(x, 1, 6)
                w == SubSeq(y, 1, 6)
    <3>1. /\ u \in Seq(S) /\ Len(u) = 6 /\ w \in Seq(S) /\ Len(w) = 6
          /\ \A k \in 1 .. 6 : u[k] = x[k] /\ w[k] = y[k]
      <4>1. \A z \in Seq(S) : Len(z) = 9 =>
              /\ SubSeq(z, 1, 6) \in Seq(S) /\ Len(SubSeq(z, 1, 6)) = 6
              /\ \A k \in 1 .. 6 : SubSeq(z, 1, 6)[k] = z[k]
        BY Slice
      <4>. QED  BY <2>1, <4>1
    <3>. HIDE DEF u, w
    <3>2. u = w
      BY <2>2, <3>1, SeqEqual
    <3>. QED  BY <3>2 DEF u, w
  <2>6. SubSeq(y, 7, 9) = <<<<ethereum_chain_id>>, <<>>, <<>>>>
    <3>. DEFINE u == SubSeq(y, 7, 9)
                c == <<ethereum_chain_id>>
                w == <<c, <<>>, <<>>>>
    <3>1. /\ u \in Seq(S) /\ Len(u) = 3
          /\ u[1] = y[7] /\ u[2] = y[8] /\ u[3] = y[9]
      <4>1. \A z \in Seq(S) : Len(z) = 9 =>
              /\ SubSeq(z, 7, 9) \in Seq(S) /\ Len(SubSeq(z, 7, 9)) = 3
              /\ SubSeq(z, 7, 9)[1] = z[7] /\ SubSeq(z, 7, 9)[2] = z[8]
              /\ SubSeq(z, 7, 9)[3] = z[9]
        BY Slice
      <4>. QED  BY <2>1, <4>1
    <3>2. c \in S /\ y[7] = c
      BY <2>3, <2>4
    <3>. HIDE DEF c, u
    <3>3. w \in Seq(S) /\ Len(w) = 3 /\ w[1] = c /\ w[2] = <<>> /\ w[3] = <<>>
      BY <2>4, <3>2
    <3>. HIDE DEF w
    <3>4. \A k \in 1 .. 3 : u[k] = w[k]
      BY <2>3, <3>1, <3>2, <3>3
    <3>5. u = w
      BY <3>1, <3>3, <3>4, SeqEqual
    <3>. QED  BY <3>5 DEF u, w, c
  <2>. QED  BY <2>5, <2>6 DEF x, y
<1>. QED  BY <1>1, Invariant, PTL

\* The node reads the call's arguments and the signature, in the shortest form,
\* for all arguments that fit in the buffer.
THEOREM ReadBack == Spec => []SentIsReadBack
<1>1. IInv => SentIsReadBack
  <2>. SUFFICES ASSUME IInv, pc = "sent", ~Excepted(signature.r), ~Excepted(signature.s)
                PROVE  LET items == Items(rawTx) IN
                         /\ Len(items) = 9
                         /\ \A f \in 1 .. 6 : items[f] = hex2byte_arr(arguments[f])
                         /\ items[7] = <<signature.v>>
                         /\ Number(items[8]) = Number(signature.r)
                         /\ Number(items[9]) = Number(signature.s)
                         /\ \A f \in {1, 2, 3, 5, 7, 8, 9} :
                              Shortest(items[f]) \/ (f = 1 /\ Number(items[1]) = 0)
    BY DEF SentIsReadBack
  <2>. DEFINE x == Items(rawTx)
  <2>1. x = Fields(tx, signature) /\ Len(x) = 9 /\ IsSignature(signature)
    BY SentItems
  <2>2. \A f \in 1 .. 6 : x[f] = hex2byte_arr(arguments[f])
    BY <2>1 DEF Fields, IInv, TxOK
  <2>3. /\ x[7] = <<signature.v>>
        /\ x[8] = WithoutZeros(signature.r) /\ x[9] = WithoutZeros(signature.s)
    BY <2>1 DEF Fields
  <2>. HIDE DEF x
  <2>4. /\ signature.r \in Seq(Byte) /\ signature.s \in Seq(Byte)
        /\ LeadingZeros(signature.r) <= 1 /\ LeadingZeros(signature.s) <= 1
    <3>1. signature.r \in Seq(Byte) /\ signature.s \in Seq(Byte)
      BY <2>1 DEF IsSignature
    <3>2. LeadingZeros(signature.r) \in Nat /\ LeadingZeros(signature.s) \in Nat
      BY <3>1, LeadingZerosAre
    <3>3. ~(LeadingZeros(signature.r) > 1) /\ ~(LeadingZeros(signature.s) > 1)
      BY DEF Excepted
    <3>. QED  BY <3>1, <3>2, <3>3
  <2>5. /\ Number(x[8]) = Number(signature.r) /\ Shortest(x[8])
        /\ Number(x[9]) = Number(signature.s) /\ Shortest(x[9])
    BY <2>3, <2>4, WithoutZerosIs
  <2>6. Shortest(x[7])
    <3>. DEFINE b == <<signature.v>>
    <3>1. b[1] # 0
      <4>1. signature.v # 0
        <5>. DEFINE n == signature.v
        <5>1. n \in 1 .. 127
          BY <2>1 DEF IsSignature
        <5>. HIDE DEF n
        <5>2. n # 0
          BY <5>1
        <5>. QED  BY <5>2 DEF n
      <4>2. b[1] = signature.v
        OBVIOUS
      <4>. QED  BY <4>1, <4>2, Zenon
    <3>. HIDE DEF b
    <3>2. Shortest(b)
      BY <3>1 DEF Shortest
    <3>. QED  BY <2>3, <3>2 DEF b
  <2>7. IsCall(arguments)
    BY DEF IInv, TxOK
  <2>8. Shortest(x[2]) /\ Shortest(x[3]) /\ Shortest(x[5])
    BY <2>2, <2>7, NoDigits, QuantitiesAssumption DEF IsCall, Shortest
  <2>9. Shortest(x[1]) \/ Number(x[1]) = 0
    <3>. DEFINE d == arguments[1]
    <3>1. d \in Nonces /\ d \in Seq(Hex) /\ x[1] = hex2byte_arr(d)
      BY <2>2, <2>7 DEF IsCall, IInv, TxOK, DigitsFit
    <3>2. CASE d = <<0>>
      <4>1. Len(d) \in {1, 2} /\ \A i \in 1 .. Len(d) : d[i] = 0
        BY <3>2
      <4>2. x[1] \in Seq(Byte) /\ Len(x[1]) = 1 /\ x[1][1] = 0
        BY <3>1, <4>1, Hex2ByteZero
      <4>. QED  BY <4>2, NumberOne
    <3>3. CASE d # <<>> /\ d[1] # 0
      BY <3>1, <3>3, Hex2ByteIs DEF Shortest
    <3>. QED  BY <3>1, <3>2, <3>3, QuantitiesAssumption
  <2>10. \A f \in {1, 2, 3, 5, 7, 8, 9} : Shortest(x[f]) \/ (f = 1 /\ Number(x[1]) = 0)
    BY <2>5, <2>6, <2>8, <2>9
  <2>. QED  BY <2>1, <2>2, <2>3, <2>5, <2>10 DEF x
<1>. QED  BY <1>1, Invariant, PTL

=============================================================================
