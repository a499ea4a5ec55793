---------------------------- MODULE SharedLemmas ----------------------------
(***************************************************************************)
(* Facts that the proofs of several components need: about remainders, for *)
(* the indices that wrap; about histories of bounded length, for the files *)
(* that are written in a cycle; and about loops that end, for the searches *)
(* that the models write as recursive functions.                           *)
(***************************************************************************)
EXTENDS Integers, FiniteSets, SequenceTheorems, WellFoundedInduction, TLAPS

(* A remainder is between 0 and the divisor (idx & mask, unsigned wrap). *)
LEMMA RemainderRange ==
    ASSUME NEW M \in Nat \ {0}, NEW x \in Int
    PROVE  x % M \in 0 .. M - 1
BY SMT

(* A number is a multiple of the divisor plus its remainder. *)
LEMMA Division ==
    ASSUME NEW M \in Nat \ {0}, NEW x \in Int
    PROVE  \E q \in Int : x = M * q + (x % M)
<1>1. x = M * (x \div M) + (x % M)
  BY SMT
<1>2. x \div M \in Int
  BY SMT
<1> QED BY <1>1, <1>2

(* That decomposition is unique: it determines the remainder. *)
LEMMA RemainderUnique ==
    ASSUME NEW M \in Nat \ {0}, NEW q \in Int, NEW r \in 0 .. M - 1
    PROVE  (M * q + r) % M = r
BY SMT

(* Multiples of the divisor do not change a remainder. *)
LEMMA RemainderShift ==
    ASSUME NEW M \in Nat \ {0}, NEW x \in Int, NEW k \in Int
    PROVE  (x + M * k) % M = x % M
<1>1. PICK q \in Int : x = M * q + (x % M)
  BY Division
<1> DEFINE r == x % M
<1>2. r \in 0 .. M - 1
  BY RemainderRange
<1>3. x + M * k = M * (q + k) + r
  BY <1>1, <1>2, SMT
<1>4. (M * (q + k) + r) % M = r
  BY <1>2, RemainderUnique
<1> QED BY <1>3, <1>4

(* Numbers less than the divisor apart have different remainders. *)
LEMMA RemainderInjective ==
    ASSUME NEW M \in Nat \ {0}, NEW x \in Int, NEW y \in Int,
           x < y, y - x < M
    PROVE  x % M # y % M
<1> SUFFICES ASSUME x % M = y % M PROVE FALSE
  OBVIOUS
<1>1. PICK p \in Int : x = M * p + (x % M)
  BY Division
<1>2. PICK q \in Int : y = M * q + (y % M)
  BY Division
<1>3. x % M \in 0 .. M - 1
  BY RemainderRange
<1> DEFINE r == x % M
<1> HIDE DEF r
<1>4. y - x = M * (q - p)
  <2>1. r \in Int BY <1>3 DEF r
  <2>2. x = M * p + r /\ y = M * q + r BY <1>1, <1>2 DEF r
  <2> QED BY <2>1, <2>2, SMT
<1>5. CASE q - p <= 0
  <2>1. M * (q - p) <= 0 BY <1>5, SMT
  <2> QED BY <2>1, <1>4, SMT
<1>6. CASE q - p >= 1
  <2>1. M * (q - p) >= M BY <1>6, SMT
  <2> QED BY <2>1, <1>4, SMT
<1> QED BY <1>5, <1>6, SMT

(* Unsigned subtraction of wrapped counters gives their true difference as *)
(* long as that is less than the modulus.                                  *)
LEMMA WrappedDifference ==
    ASSUME NEW M \in Nat \ {0}, NEW a \in Int, NEW b \in Int,
           a <= b, b - a < M
    PROVE  ((b % M) - (a % M)) % M = b - a
<1>1. PICK p \in Int : a = M * p + (a % M)
  BY Division
<1>2. PICK q \in Int : b = M * q + (b % M)
  BY Division
<1> DEFINE ra == a % M
           rb == b % M
<1>3. ra \in 0 .. M - 1 /\ rb \in 0 .. M - 1
  BY RemainderRange
<1>4. ra = a - M * p /\ rb = b - M * q
  BY <1>1, <1>2, <1>3, SMT
<1> HIDE DEF ra, rb
<1>5. rb - ra = (b - a) + M * (p - q)
  BY <1>3, <1>4, SMT
<1>6. ((b - a) + M * (p - q)) % M = (b - a) % M
  <2>1. b - a \in Int /\ p - q \in Int BY SMT
  <2> QED BY <2>1, RemainderShift
<1>7. (b - a) % M = b - a
  BY SMT
<1> QED BY <1>5, <1>6, <1>7 DEF ra, rb

(* Incrementing a wrapped counter wraps the incremented counter. *)
LEMMA WrappedIncrement ==
    ASSUME NEW M \in Nat \ {0}, NEW n \in Int
    PROVE  ((n % M) + 1) % M = (n + 1) % M
<1>1. PICK q \in Int : n = M * q + (n % M)
  BY Division
<1> DEFINE r == n % M
<1>2. r \in 0 .. M - 1
  BY RemainderRange
<1>3. n + 1 = (r + 1) + M * q
  BY <1>1, <1>2, SMT
<1>4. ((r + 1) + M * q) % M = (r + 1) % M
  <2>1. r + 1 \in Int BY <1>2, SMT
  <2> HIDE DEF r
  <2> QED BY <2>1, RemainderShift
<1> QED BY <1>3, <1>4

(* Masking a wrapped counter is masking the counter. *)
LEMMA RemainderOfRemainder ==
    ASSUME NEW C \in Nat \ {0}, NEW M \in Nat \ {0}, M % C = 0, NEW n \in Int
    PROVE  (n % M) % C = n % C
<1> M \in Int
  OBVIOUS
<1>1. PICK k \in Int : M = C * k + (M % C)
  BY Division
<1>2. PICK q \in Int : n = M * q + (n % M)
  BY Division
<1> DEFINE r == n % M
<1>3. r \in Int
  BY RemainderRange
<1>4. M = C * k
  BY <1>1, SMT
<1>5. M * q = C * (k * q)
  BY <1>4, SMT
<1>6. n = r + C * (k * q)
  <2>1. n = M * q + r BY <1>2
  <2>2. M * q \in Int BY SMT
  <2> HIDE DEF r
  <2> QED BY <1>3, <1>5, <2>1, <2>2, SMT
<1>7. (r + C * (k * q)) % C = r % C
  <2>1. k * q \in Int BY SMT
  <2> QED BY <1>3, <2>1, RemainderShift
<1> QED BY <1>6, <1>7

(* Multiples: their sum is one, and the last one below another is a whole    *)
(* divisor below it.                                                         *)
LEMMA MultiplesAdd ==
    ASSUME NEW C \in Nat \ {0}, NEW a \in Int, NEW b \in Int, a % C = 0, b % C = 0
    PROVE  (a + b) % C = 0
<1>1. PICK p \in Int : a = C * p + (a % C)
  BY Division
<1>2. a = C * p
  BY <1>1
<1>3. (b + C * p) % C = b % C
  BY RemainderShift
<1>4. a + b = b + C * p
  BY <1>2
<1> QED BY <1>3, <1>4

LEMMA MultipleBelow ==
    ASSUME NEW C \in Nat \ {0}, NEW a \in Nat, NEW M \in Nat, a % C = 0, M % C = 0, a < M
    PROVE  a + C <= M
<1> a \in Int /\ M \in Int
  OBVIOUS
<1>1. PICK p \in Int : a = C * p + (a % C)
  BY Division
<1>2. PICK r \in Int : M = C * r + (M % C)
  BY Division
<1>3. a = C * p /\ M = C * r
  BY <1>1, <1>2
<1>4. p + 1 <= r
  <2>1. CASE p >= r
    <3>1. C * p >= C * r
      BY <2>1, SMT
    <3> QED BY <1>3, <3>1
  <2> QED BY <2>1
<1>5. C * (p + 1) <= C * r
  BY <1>4, SMT
<1>6. C * (p + 1) = C * p + C
  BY SMT
<1> QED BY <1>3, <1>5, <1>6

(* So the members of a group of C that starts at a multiple of C stay        *)
(* together when their indices wrap at M.                                    *)
LEMMA GroupsWrapWhole ==
    ASSUME NEW C \in Nat \ {0}, NEW M \in Nat \ {0}, M % C = 0,
           NEW n \in Int, n % C = 0, NEW l \in 0 .. C - 1
    PROVE  (n % M) % C = 0 /\ (n + l) % M = (n % M) + l
<1> DEFINE a == n % M
<1>1. a % C = 0 /\ a \in 0 .. M - 1
  BY RemainderOfRemainder, RemainderRange
<1>2. PICK q \in Int : n = M * q + (n % M)
  BY Division
<1>3. n = M * q + a
  BY <1>2
<1> HIDE DEF a
<1>4. a + C <= M
  <2>1. a \in Nat /\ a < M
    BY <1>1
  <2> QED BY <1>1, <2>1, MultipleBelow
<1>5. a + l \in 0 .. M - 1
  BY <1>1, <1>4
<1>6. M * q \in Int
  BY SMT
<1>7. n + l = M * q + (a + l)
  BY <1>1, <1>3, <1>6
<1>8. (n + l) % M = a + l
  BY <1>5, <1>7, RemainderUnique
<1> QED BY <1>1, <1>8 DEF a
-----------------------------------------------------------------------------
(* Dividing a reservation's offset by its size gives the slot it starts.     *)
LEMMA SlotOfMultiple ==
    ASSUME NEW k \in Nat \ {0}, NEW s \in Nat
    PROVE  (s * k) \div k = s
BY SMT

(* A reservation that ends in an arena is one of its slots, and a slot ends  *)
(* in the arena.                                                             *)
LEMMA FitsIsSlot ==
    ASSUME NEW k \in Nat \ {0}, NEW a \in Nat, NEW s \in Nat, s * k + k <= a
    PROVE  s + 1 <= a \div k
BY SMT

LEMMA SlotFits ==
    ASSUME NEW k \in Nat \ {0}, NEW a \in Nat, NEW s \in Nat, s + 1 <= a \div k
    PROVE  s * k + k <= a
BY SMT
-----------------------------------------------------------------------------
\* A history of at most c entries gets one more, and forgets its oldest one if
\* there would be too many.
Slide(w, c, d) ==
    LET v == Append(w, d) IN SubSeq(v, IF Len(v) > c THEN 2 ELSE 1, Len(v))

\* Every entry of r but the newest is one of w, one further back.
MovedBack(w, r) ==
    \A k \in 1 .. Len(r) - 1 :
        \E i \in 1 .. Len(w) : r[k] = w[i] /\ Len(r) - k = Len(w) - i + 1

(* What a history that is pushed holds, and where.                           *)
LEMMA WindowMoves ==
    ASSUME NEW S, NEW w \in Seq(S), NEW c \in Nat \ {0}, Len(w) <= c, NEW d \in S
    PROVE  /\ Slide(w, c, d) \in Seq(S) /\ Len(Slide(w, c, d)) \in 1 .. c
           /\ Slide(w, c, d)[Len(Slide(w, c, d))] = d
           /\ MovedBack(w, Slide(w, c, d))
<1> DEFINE v == Append(w, d)
           first == IF Len(v) > c THEN 2 ELSE 1
           r == SubSeq(v, first, Len(v))
<1>1. /\ v \in Seq(S) /\ Len(v) = Len(w) + 1 /\ v[Len(w) + 1] = d
      /\ \A i \in 1 .. Len(w) : v[i] = w[i]
  BY AppendProperties
<1>2. Len(w) \in Nat /\ Len(v) \in Nat
  BY <1>1, LenProperties
<1>3. first \in 1 .. 2 /\ first <= Len(v) /\ Len(v) - first + 1 \in 1 .. c
      /\ first - 1 <= Len(w)
  BY <1>1, <1>2
<1> HIDE DEF v
<1>4. \A i \in 1 .. Len(v) : v[i] \in S
  BY <1>1, ElementOfSeq
<1>5. first \in Int /\ \A i \in first .. Len(v) : i \in 1 .. Len(v)
  BY <1>2, <1>3
<1> HIDE DEF first
<1>6. \A i \in first .. Len(v) : v[i] \in S
  BY <1>4, <1>5
<1>7. /\ r \in Seq(S) /\ Len(r) = Len(v) - first + 1
      /\ \A i \in 1 .. Len(v) - first + 1 : r[i] = v[first + i - 1]
  BY <1>2, <1>3, <1>5, <1>6, SubSeqProperties
<1> HIDE DEF r
<1>8. r[Len(r)] = d
  <2>1. Len(r) \in 1 .. Len(v) - first + 1 /\ first + Len(r) - 1 = Len(w) + 1
    BY <1>1, <1>2, <1>3, <1>7
  <2>2. r[Len(r)] = v[first + Len(r) - 1]
    BY <1>7, <2>1
  <2> QED BY <1>1, <2>1, <2>2
<1>9. ASSUME NEW k \in 1 .. Len(r) - 1
      PROVE  \E i \in 1 .. Len(w) : r[k] = w[i] /\ Len(r) - k = Len(w) - i + 1
  <2> DEFINE i == first + k - 1
  <2>1. /\ k \in 1 .. Len(v) - first + 1 /\ i \in 1 .. Len(w)
        /\ Len(r) - k = Len(w) - i + 1
    BY <1>1, <1>2, <1>3, <1>7
  <2>2. r[k] = v[i]
    BY <1>7, <2>1
  <2> QED BY <1>1, <2>1, <2>2
<1>10. Slide(w, c, d) = r
  BY DEF Slide, r, v, first
<1> QED BY <1>3, <1>7, <1>8, <1>9, <1>10 DEF MovedBack
-----------------------------------------------------------------------------
\* Of n slots written in a cycle, the one written j + 1 slots before slot h, and
\* the one written after it.
Back(n, h, j) == IF j < h THEN h - 1 - j ELSE h - 1 - j + n
After(n, h)   == IF h + 1 = n THEN 0 ELSE h + 1

(* The slot before a slot is one further back from the slot after it.        *)
LEMMA BackMoves ==
    ASSUME NEW n \in Nat \ {0}, NEW h \in 0 .. n - 1
    PROVE  /\ After(n, h) \in 0 .. n - 1 /\ Back(n, After(n, h), 0) = h
           /\ \A j \in Nat : j < n - 1 =>
                 /\ Back(n, h, j) \in 0 .. n - 1 /\ Back(n, h, j) # h
                 /\ Back(n, After(n, h), j + 1) = Back(n, h, j)
BY DEF After, Back
-----------------------------------------------------------------------------
(* A set of numbers that is not empty has a least one. *)
LEMMA LeastNumber ==
    ASSUME NEW T, T \subseteq Nat, T # {}
    PROVE  \E m \in T : \A n \in T : m <= n
<1> DEFINE R == {p \in Nat \X Nat : p[1] < p[2]}
<1>1. IsWellFoundedOn(R, Nat)
  <2>1. OpToRel(<, Nat) = R
    BY DEF OpToRel
  <2> QED BY <2>1, NatLessThanWellFounded
<1>2. \A m, n \in Nat : m < n => <<m, n>> \in R
  OBVIOUS
<1> HIDE DEF R
<1>3. PICK m \in T : \A n \in T : ~(<<n, m>> \in R)
  BY <1>1, WFMin
<1>4. ASSUME NEW n \in T PROVE m <= n
  <2>1. m \in Nat /\ n \in Nat /\ ~(n < m)
    BY <1>2, <1>3
  <2> QED BY <2>1, SMT
<1> QED BY <1>4

\* A loop over the states in D: from a state outside Stop it goes on at g[x], and
\* m[x] rounds at most are left.  f is what the loop returns when it has base[x]
\* to return at the end and makes comb[x, v] of what the next state returns.
LoopOver(D, V, Stop, g, m, base, comb) ==
    /\ Stop \subseteq D /\ g \in [D -> D] /\ m \in [D -> Nat]
    /\ base \in [D -> V] /\ comb \in [D \X V -> V]
    /\ \A x \in D \ Stop : m[g[x]] < m[x]
LoopRound(Stop, g, base, comb, f, x) == IF x \in Stop THEN base[x] ELSE comb[<<x, f[g[x]]>>]

(* Where a measure falls along g, a set of states that is closed under g     *)
(* has a member of Stop, so nothing is true of a state and of its successors *)
(* for ever.                                                                 *)
LEMMA LoopEnds ==
    ASSUME NEW D, NEW Stop, NEW g, NEW m \in [D -> Nat],
           \A x \in D \ Stop : m[g[x]] < m[x],
           NEW S \in SUBSET D, \A x \in S : x \notin Stop => g[x] \in S,
           \A x \in S : x \notin Stop
    PROVE  S = {}
<1> SUFFICES ASSUME S # {} PROVE FALSE
  OBVIOUS
<1> DEFINE T == {m[x] : x \in S}
<1>1. T \subseteq Nat /\ T # {}
  OBVIOUS
<1>2. PICK n \in T : \A k \in T : n <= k
  <2> HIDE DEF T
  <2> QED BY <1>1, LeastNumber
<1>3. PICK x \in S : n = m[x]
  OBVIOUS
<1>4. g[x] \in S /\ m[g[x]] < m[x]
  OBVIOUS
<1>5. m[g[x]] \in T /\ m[g[x]] \in Nat /\ m[x] \in Nat
  BY <1>4
<1> HIDE DEF T
<1> QED BY <1>2, <1>3, <1>4, <1>5

(* Two functions that the loop gives up to some number of rounds agree there. *)
LEMMA RoundsAgree ==
    ASSUME NEW D, NEW V, NEW Stop, NEW g, NEW m, NEW base, NEW comb,
           LoopOver(D, V, Stop, g, m, base, comb),
           NEW n \in Nat, NEW k \in Nat, NEW f, NEW h,
           \A x \in D : m[x] < n => f[x] = LoopRound(Stop, g, base, comb, f, x),
           \A x \in D : m[x] < k => h[x] = LoopRound(Stop, g, base, comb, h, x)
    PROVE  \A x \in D : m[x] < n /\ m[x] < k => f[x] = h[x]
<1>1. /\ Stop \subseteq D /\ g \in [D -> D] /\ m \in [D -> Nat]
      /\ \A x \in D \ Stop : m[g[x]] < m[x]
  BY DEF LoopOver
<1> DEFINE S == {x \in D : m[x] < n /\ m[x] < k /\ f[x] # h[x]}
<1>2. ASSUME NEW x \in S PROVE x \notin Stop /\ g[x] \in S
  <2>1. f[x] = LoopRound(Stop, g, base, comb, f, x) /\ h[x] = LoopRound(Stop, g, base, comb, h, x)
    OBVIOUS
  <2>2. x \notin Stop
    BY <2>1 DEF LoopRound
  <2>3. f[g[x]] # h[g[x]]
    BY <2>1, <2>2 DEF LoopRound
  <2>4. g[x] \in D /\ m[g[x]] \in Nat /\ m[x] \in Nat /\ m[g[x]] < m[x]
    BY <1>1, <2>2
  <2>5. m[g[x]] < n /\ m[g[x]] < k
    BY <2>4
  <2> QED BY <2>2, <2>3, <2>4, <2>5
<1>3. S \in SUBSET D
  OBVIOUS
<1>4. S = {}
  <2> HIDE DEF S
  <2>1. /\ \A x \in S : x \notin Stop => g[x] \in S
        /\ \A x \in S : x \notin Stop
    BY <1>2
  <2>2. m \in [D -> Nat] /\ \A x \in D \ Stop : m[g[x]] < m[x]
    BY <1>1
  <2> QED BY <1>3, <2>1, <2>2, LoopEnds, Zenon
<1> QED BY <1>4

(* A loop that ends returns something from every state.                      *)
LEMMA LoopReturns ==
    ASSUME NEW D, NEW V, NEW Stop, NEW g, NEW m, NEW base, NEW comb,
           LoopOver(D, V, Stop, g, m, base, comb)
    PROVE  \E f \in [D -> V] : \A x \in D : f[x] = LoopRound(Stop, g, base, comb, f, x)
<1>1. /\ Stop \subseteq D /\ g \in [D -> D] /\ m \in [D -> Nat]
      /\ base \in [D -> V] /\ comb \in [D \X V -> V]
      /\ \A x \in D \ Stop : m[g[x]] < m[x]
  BY DEF LoopOver
<1> DEFINE Upto(n) ==
        {f \in [D -> V] : \A x \in D : m[x] < n => f[x] = LoopRound(Stop, g, base, comb, f, x)}
<1>2. ASSUME NEW n \in Nat, Upto(n) # {} PROVE Upto(n + 1) # {}
  <2>1. PICK f \in Upto(n) : TRUE
    BY <1>2
  <2> DEFINE h == [x \in D |-> IF m[x] = n THEN LoopRound(Stop, g, base, comb, f, x) ELSE f[x]]
  <2>2. f \in [D -> V] /\ \A x \in D : m[x] < n => f[x] = LoopRound(Stop, g, base, comb, f, x)
    BY <2>1
  <2>3. \A x \in D : LoopRound(Stop, g, base, comb, f, x) \in V
    BY <1>1, <2>2 DEF LoopRound
  <2>4. h \in [D -> V] /\ \A x \in D : h[x] = IF m[x] = n THEN LoopRound(Stop, g, base, comb, f, x)
                                              ELSE f[x]
    BY <2>2, <2>3
  <2> HIDE DEF h
  <2>5. ASSUME NEW x \in D, m[x] < n + 1
        PROVE  h[x] = LoopRound(Stop, g, base, comb, h, x)
    <3>1. h[x] = LoopRound(Stop, g, base, comb, f, x)
      <4>1. m[x] \in Nat
        BY <1>1
      <4>2. m[x] = n \/ m[x] < n
        BY <2>5, <4>1
      <4> QED BY <2>2, <2>4, <4>2
    <3>2. x \notin Stop => h[g[x]] = f[g[x]]
      <4> SUFFICES ASSUME x \notin Stop PROVE h[g[x]] = f[g[x]]
        OBVIOUS
      <4>1. g[x] \in D /\ m[g[x]] \in Nat /\ m[x] \in Nat /\ m[g[x]] < m[x]
        BY <1>1
      <4>2. m[g[x]] # n
        BY <2>5, <4>1
      <4> QED BY <2>4, <4>1, <4>2
    <3> QED BY <3>1, <3>2 DEF LoopRound
  <2>6. h \in Upto(n + 1)
    BY <2>4, <2>5
  <2> QED BY <2>6
<1>3. base \in Upto(0)
  BY <1>1
<1>4. \A n \in Nat : Upto(n) # {}
  <2> DEFINE T == {n \in Nat : Upto(n) = {}}
  <2> SUFFICES ASSUME T # {} PROVE FALSE
    OBVIOUS
  <2> HIDE DEF Upto
  <2>1. PICK n \in T : \A k \in T : n <= k
    <3>1. T \subseteq Nat
      OBVIOUS
    <3> HIDE DEF T
    <3> QED BY <3>1, LeastNumber
  <2>2. n # 0 /\ n \in Nat
    BY <1>3
  <2>3. n - 1 \in Nat /\ (n - 1) + 1 = n
    BY <2>2
  <2>4. n - 1 \notin T
    BY <2>1, <2>2, <2>3
  <2> QED BY <1>2, <2>3, <2>4
<1> DEFINE Apx(n) == CHOOSE f \in Upto(n) : TRUE
<1>5. \A n \in Nat : Apx(n) \in Upto(n)
  BY <1>4
<1>6. \A n \in Nat : /\ Apx(n) \in [D -> V]
                     /\ \A x \in D : m[x] < n =>
                          Apx(n)[x] = LoopRound(Stop, g, base, comb, Apx(n), x)
  BY <1>5
<1> HIDE DEF Apx, Upto
<1> DEFINE F == [x \in D |-> Apx(m[x] + 1)[x]]
<1>7. \A x \in D : m[x] \in Nat /\ m[x] + 1 \in Nat /\ m[x] < m[x] + 1
  BY <1>1
<1>8. F \in [D -> V] /\ \A x \in D : F[x] = Apx(m[x] + 1)[x]
  BY <1>6, <1>7
<1> HIDE DEF F
<1>9. ASSUME NEW x \in D PROVE F[x] = LoopRound(Stop, g, base, comb, F, x)
  <2> DEFINE f == Apx(m[x] + 1)
  <2>1. F[x] = LoopRound(Stop, g, base, comb, f, x)
    BY <1>6, <1>7, <1>8
  <2>2. x \notin Stop => f[g[x]] = F[g[x]]
    <3> SUFFICES ASSUME x \notin Stop PROVE f[g[x]] = F[g[x]]
      OBVIOUS
    <3> DEFINE y == g[x]
               h == Apx(m[y] + 1)
    <3>1. y \in D /\ m[y] < m[x] /\ m[y] \in Nat /\ m[x] \in Nat
      BY <1>1
    <3>2. F[y] = h[y]
      BY <1>8, <3>1
    <3>3. /\ m[x] + 1 \in Nat /\ m[y] + 1 \in Nat
          /\ m[y] < m[x] + 1 /\ m[y] < m[y] + 1
      BY <3>1
    <3>4. /\ \A z \in D : m[z] < m[x] + 1 => f[z] = LoopRound(Stop, g, base, comb, f, z)
          /\ \A z \in D : m[z] < m[y] + 1 => h[z] = LoopRound(Stop, g, base, comb, h, z)
      BY <1>6, <3>3
    <3> HIDE DEF f, h, y
    <3>5. f[y] = h[y]
      BY <3>1, <3>3, <3>4, RoundsAgree
    <3> QED BY <3>2, <3>5 DEF y
  <2> HIDE DEF f
  <2> QED BY <2>1, <2>2 DEF LoopRound
<1> QED BY <1>8, <1>9

(* What holds of what a loop returns: a set of pairs of a state and a result *)
(* that has those of the last round, and with a state's successor the state. *)
LEMMA LoopKeeps ==
    ASSUME NEW D, NEW V, NEW Stop, NEW g, NEW m, NEW base, NEW comb,
           LoopOver(D, V, Stop, g, m, base, comb),
           NEW f, \A x \in D : f[x] = LoopRound(Stop, g, base, comb, f, x),
           NEW G, \A x \in Stop : <<x, base[x]>> \in G,
           \A x \in D \ Stop : \A v : <<g[x], v>> \in G => <<x, comb[<<x, v>>]>> \in G
    PROVE  \A x \in D : <<x, f[x]>> \in G
<1>1. /\ Stop \subseteq D /\ g \in [D -> D] /\ m \in [D -> Nat]
      /\ \A x \in D \ Stop : m[g[x]] < m[x]
  BY DEF LoopOver
<1> DEFINE S == {x \in D : <<x, f[x]>> \notin G}
<1>2. ASSUME NEW x \in S PROVE x \notin Stop /\ g[x] \in S
  BY <1>1 DEF LoopRound
<1>3. S \in SUBSET D
  OBVIOUS
<1>4. S = {}
  <2> HIDE DEF S
  <2>1. /\ \A x \in S : x \notin Stop => g[x] \in S
        /\ \A x \in S : x \notin Stop
    BY <1>2
  <2>2. m \in [D -> Nat] /\ \A x \in D \ Stop : m[g[x]] < m[x]
    BY <1>1
  <2> QED BY <1>3, <2>1, <2>2, LoopEnds, Zenon
<1> QED BY <1>4
=============================================================================
