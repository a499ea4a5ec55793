-------------------------- MODULE BumpArenaProofs --------------------------
(***************************************************************************)
(* Proof that an arena with one atomic offset implements RegionAllocator   *)
(* for any number of threads, any rounding and any header: what a          *)
(* fetch_add returns is above everything it returned before.               *)
(***************************************************************************)
EXTENDS BumpArena, SharedLemmas

InCall(t) == t_call[t] # Idle
Past(t)   == t_call[t].off + Need(t_call[t].arena, t_call[t].size)

\* Claims and regions lie below the offset of their arena.
Home ==
    /\ \A t \in Threads : InCall(t) => Past(t) <= m_offset[t_call[t].arena]
    /\ \A g \in live : /\ 0 < g.len
                       /\ g.index + g.len <= Cap[g.arena]
                       /\ g.index + g.len <= m_offset[g.arena]

\* No byte of an arena has two owners.
Apart ==
    /\ \A t, u \in Threads :
          t # u /\ InCall(t) /\ InCall(u) /\ t_call[t].arena = t_call[u].arena =>
             Past(t) <= t_call[u].off \/ Past(u) <= t_call[t].off
    /\ \A t \in Threads, g \in live :
          InCall(t) /\ t_call[t].arena = g.arena =>
             Past(t) <= g.index \/ g.index + g.len <= t_call[t].off
    /\ \A g, h \in live :
          g # h /\ g.arena = h.arena =>
             g.index + g.len <= h.index \/ h.index + h.len <= g.index

IInv == TypeOK /\ Home /\ Apart

\* What the callers of reset() do not do by themselves (arena_atomic.hpp 80-82).
RuleKept == "quiescent" \in Rules
-----------------------------------------------------------------------------
(* Rounding gives at least the object and its header. *)
LEMMA NeedCovers ==
    ASSUME NEW a \in Arenas, NEW size \in Sizes
    PROVE  /\ Need(a, size) \in Nat /\ size + Header[a] \in Nat
           /\ 0 < size + Header[a] /\ size + Header[a] <= Need(a, size)
<1> DEFINE s == size + Header[a]
           r == Round[a]
           x == s + r - 1
           q == x \div r
<1>1. s \in Nat /\ 0 < s /\ r \in Nat \ {0}
  BY SizeAssumption, SMT
<1> HIDE DEF s, r
<1>2. x \in Int /\ q \in Int /\ x = r * q + (x % r) /\ x % r \in 0 .. r - 1
  BY <1>1, SMT
<1> HIDE DEF q
<1>3. q * r \in Int /\ q * r = x - (x % r)
  <2>1. q * r = r * q /\ q * r \in Int
    BY <1>1, <1>2, SMT
  <2> HIDE DEF x
  <2> QED BY <1>1, <1>2, <2>1, SMT
<1>4. s <= q * r
  <2> DEFINE y == x % r
             p == q * r
  <2> HIDE DEF y, p
  <2>1. p = x - y /\ p \in Int /\ y \in 0 .. r - 1
    BY <1>2, <1>3 DEF y, p
  <2>2. s <= p
    BY <1>1, <2>1, SMT
  <2> QED BY <2>2 DEF p
<1>5. Need(a, size) = q * r
  BY DEF Need, RoundUp, q, x, s, r
<1> HIDE DEF x
<1>6. Need(a, size) \in Nat /\ s <= Need(a, size)
  BY <1>1, <1>3, <1>4, <1>5, SMT
<1> QED BY <1>1, <1>6 DEF s

(* Types of the parts of the state, in the form the arithmetic needs. *)
LEMMA Types ==
    ASSUME TypeOK
    PROVE  /\ \A a \in Arenas : m_offset[a] \in Nat
           /\ \A t \in Threads : InCall(t) =>
                 /\ t_call[t].arena \in Arenas /\ t_call[t].size \in Sizes
                 /\ t_call[t].off \in Nat /\ Past(t) \in Nat
           /\ \A g \in live : g.arena \in Arenas /\ g.index \in Nat /\ g.len \in Nat
<1>1. \A a \in Arenas : m_offset[a] \in Nat
  BY SizeAssumption DEF TypeOK
<1>2. \A t \in Threads : InCall(t) => t_call[t] \in Call
  BY DEF TypeOK, InCall
<1>3. \A t \in Threads : InCall(t) => Past(t) \in Nat
  BY <1>2, NeedCovers, SMT DEF Call, Past
<1>4. \A g \in live : g \in Region
  BY DEF TypeOK
<1> QED BY <1>1, <1>2, <1>3, <1>4, SMT DEF Call, Region

(* What the width of the answer cuts off an offset that fits its arena: nothing. *)
LEMMA AnswerTells ==
    ASSUME TypeOK, NEW t \in Threads, InCall(t), Fits(t_call[t])
    PROVE  t_call[t].off % IndexMod[t_call[t].arena] = t_call[t].off
<1> DEFINE c == t_call[t]
           n == Need(c.arena, c.size)
           w == IndexMod[c.arena]
<1>1. c.arena \in Arenas /\ c.size \in Sizes /\ c.off \in Nat
  BY Types
<1>2. n \in Nat /\ 0 < n
  BY <1>1, NeedCovers, SMT
<1>3. w \in Nat \ {0} /\ Cap[c.arena] \in Nat /\ Cap[c.arena] <= w
  BY <1>1, BufferAssumption
<1>4. c.off + n <= Cap[c.arena]
  BY DEF Fits
<1> HIDE DEF c, n, w
<1>5. c.off < w
  BY <1>1, <1>2, <1>3, <1>4, SMT
<1>6. c.off % w = c.off
  BY <1>1, <1>3, <1>5, SMT
<1> QED BY <1>6 DEF c, w

(* Regions of two arenas never overlap. *)
LEMMA OtherArena ==
    ASSUME NEW g \in Region, NEW h \in Region, g.arena # h.arena,
           g.index + g.len <= Cap[g.arena], h.index + h.len <= Cap[h.arena]
    PROVE  Regions!Disjoint(g, h)
<1>1. /\ g.arena \in Arenas /\ h.arena \in Arenas /\ g.index \in Nat
      /\ h.index \in Nat /\ g.len \in Nat /\ h.len \in Nat
  BY SMT DEF Region
<1>2. /\ Base[g.arena] \in Nat /\ Base[h.arena] \in Nat
      /\ Cap[g.arena] \in Nat /\ Cap[h.arena] \in Nat
      /\ \/ Base[g.arena] + Cap[g.arena] <= Base[h.arena]
         \/ Base[h.arena] + Cap[h.arena] <= Base[g.arena]
  BY <1>1, BufferAssumption
<1> QED BY <1>1, <1>2, SMT DEF Regions!Disjoint, Regions!First

(* The initial state. *)
LEMMA InitIInv == Init => IInv
<1> SUFFICES ASSUME Init PROVE IInv
  OBVIOUS
<1>1. live = {} /\ \A t \in Threads : ~InCall(t)
  BY DEF Init, InCall
<1>2. TypeOK
  <2>1. 0 \in 0 .. MaxOffset
    BY SizeAssumption, SMT
  <2> QED BY <2>1 DEF Init, TypeOK
<1> QED BY <1>1, <1>2 DEF IInv, Home, Apart

(* The fetch_add takes bytes above everything the arena gave before. *)
LEMMA ClaimIInv ==
    ASSUME IInv, NEW t \in Threads, NEW a \in Arenas, NEW size \in Sizes,
           Claim(t, a, size)
    PROVE  IInv'
<1> DEFINE n == Need(a, size)
           c == [pc |-> "test", arena |-> a, off |-> m_offset[a], size |-> size]
<1>1. /\ UNCHANGED live
      /\ t_call' = [t_call EXCEPT ![t] = c]
      /\ m_offset' = [m_offset EXCEPT ![a] = @ + n]
      /\ m_offset[a] + n <= MaxOffset /\ n \in Nat /\ m_offset[a] \in Nat
  BY NeedCovers, Types DEF Claim, IInv
<1>2. c \in Call /\ c # Idle
  BY <1>1 DEF Call, Idle
<1>3. /\ t_call' \in [Threads -> Call \cup {Idle}] /\ t_call'[t] = c
      /\ \A u \in Threads \ {t} : t_call'[u] = t_call[u]
  BY <1>1, <1>2 DEF IInv, TypeOK
<1>4. /\ m_offset' \in [Arenas -> 0 .. MaxOffset]
      /\ m_offset'[a] = m_offset[a] + n
      /\ \A b \in Arenas : m_offset[b] \in Nat /\ m_offset'[b] \in Nat
                           /\ m_offset[b] <= m_offset'[b]
  <2> HIDE DEF n
  <2>1. m_offset[a] + n \in 0 .. MaxOffset
    BY <1>1, SizeAssumption, SMT
  <2>2. m_offset \in [Arenas -> 0 .. MaxOffset]
    BY DEF IInv, TypeOK
  <2>3. m_offset' \in [Arenas -> 0 .. MaxOffset]
    BY <1>1, <2>1, <2>2
  <2> QED BY <1>1, <2>2, <2>3, SizeAssumption, SMT
<1>5. /\ InCall(t)' /\ t_call'[t].arena = a /\ t_call'[t].off = m_offset[a]
      /\ Past(t)' = m_offset[a] + n
      /\ \A u \in Threads \ {t} :
            InCall(u)' = InCall(u) /\ Past(u)' = Past(u) /\ t_call'[u] = t_call[u]
  BY <1>2, <1>3 DEF InCall, Past
<1>6. TypeOK'
  BY <1>1, <1>3, <1>4 DEF IInv, TypeOK
<1> HIDE DEF n
<1>7. Home'
  <2>1. ASSUME NEW u \in Threads, InCall(u)'
        PROVE  Past(u)' <= m_offset'[t_call'[u].arena]
    <3>1. CASE u = t
      BY <1>1, <1>4, <1>5, <3>1, SMT
    <3>2. CASE u # t
      BY <1>4, <1>5, <2>1, <3>2, Types, SMT DEF IInv, Home
    <3> QED BY <3>1, <3>2
  <2>2. ASSUME NEW g \in live
        PROVE  /\ 0 < g.len /\ g.index + g.len <= Cap[g.arena]
               /\ g.index + g.len <= m_offset'[g.arena]
    BY <1>4, Types, SMT DEF IInv, Home
  <2> QED BY <1>1, <2>1, <2>2 DEF Home
<1>8. ASSUME NEW u \in Threads \ {t}, InCall(u), t_call[u].arena = a
      PROVE  Past(u) <= m_offset[a]
  BY <1>8 DEF IInv, Home
<1>9. ASSUME NEW g \in live, g.arena = a
      PROVE  g.index + g.len <= m_offset[a]
  BY <1>9 DEF IInv, Home
<1>10. Apart'
  BY <1>1, <1>5, <1>8, <1>9 DEF IInv, Apart
<1> QED BY <1>6, <1>7, <1>10 DEF IInv

(* A call that returns, or an arena that is reset, only gives up bytes. *)
LEMMA FailsIInv ==
    ASSUME IInv, NEW t \in Threads, Fails(t)
    PROVE  IInv'
<1>1. UNCHANGED <<m_offset, live>>
  BY DEF Fails
<1>2. TypeOK'
  BY <1>1 DEF IInv, TypeOK, Fails
<1>3. \A u \in Threads : InCall(u)' =>
         InCall(u) /\ t_call'[u] = t_call[u] /\ Past(u)' = Past(u)
  BY DEF IInv, TypeOK, Fails, InCall, Past
<1> QED BY <1>1, <1>2, <1>3 DEF IInv, Home, Apart

LEMMA ResetIInv ==
    ASSUME RuleKept, IInv, NEW t \in Threads, NEW a \in Arenas, Reset(t, a)
    PROVE  IInv'
<1>1. /\ UNCHANGED t_call
      /\ m_offset' = [m_offset EXCEPT ![a] = 0]
      /\ live' = {g \in live : g.arena # a}
      /\ \A u \in Threads : InCall(u) => t_call[u].arena # a
  BY DEF Reset, Quiescent, RuleKept, InCall
<1>2. TypeOK'
  <2>1. 0 \in 0 .. MaxOffset
    BY SizeAssumption, SMT
  <2> QED BY <1>1, <2>1 DEF IInv, TypeOK
<1>3. \A b \in Arenas : b # a => m_offset'[b] = m_offset[b]
  BY <1>1 DEF IInv, TypeOK
<1>4. \A u \in Threads : InCall(u)' = InCall(u) /\ Past(u)' = Past(u)
  BY <1>1 DEF InCall, Past
<1>5. Home'
  BY <1>1, <1>3, <1>4, Types DEF IInv, Home
<1>6. Apart'
  BY <1>1, <1>4 DEF IInv, Apart
<1> QED BY <1>2, <1>5, <1>6 DEF IInv

(* The claimed bytes become a region. *)
LEMMA GrantsIInv ==
    ASSUME IInv, NEW t \in Threads, Grants(t)
    PROVE  /\ IInv'
           /\ \E g : /\ live' = live \cup {g}
                     /\ Regions!Inside(g)
                     /\ \A h \in live : h # g => Regions!Disjoint(g, h)
<1> DEFINE c == t_call[t]
           n == Need(c.arena, c.size)
           g == RegionFor(c.arena, c.off, c.size)
<1>1. /\ UNCHANGED m_offset
      /\ t_call' = [t_call EXCEPT ![t] = Idle]
      /\ live' = live \cup {g}
      /\ InCall(t) /\ c.off + n <= Cap[c.arena] /\ Past(t) = c.off + n
  BY DEF Grants, InCall, Fits, Past
<1>2. /\ c.arena \in Arenas /\ c.size \in Sizes /\ c.off \in Nat
      /\ m_offset[c.arena] \in Nat /\ Cap[c.arena] \in Nat
      /\ c.off + n <= m_offset[c.arena]
  BY <1>1, Types, BufferAssumption DEF IInv, Home
<1>0. c.off % IndexMod[c.arena] = c.off
  BY AnswerTells DEF IInv, Grants, InCall
<1>3. /\ n \in Nat /\ g.arena = c.arena /\ g.index = c.off
      /\ g.len \in Nat /\ 0 < g.len /\ g.len <= n /\ g \in Region
  BY <1>0, <1>2, NeedCovers DEF RegionFor, Region
<1>4. /\ \A u \in Threads : InCall(u)' => u # t /\ InCall(u)
                            /\ t_call'[u] = t_call[u] /\ Past(u)' = Past(u)
      /\ t_call' \in [Threads -> Call \cup {Idle}]
  BY <1>1 DEF IInv, TypeOK, InCall, Past
<1>5. TypeOK'
  BY <1>1, <1>3, <1>4 DEF IInv, TypeOK
<1> HIDE DEF g, n
<1>6. Past(t) = c.off + n /\ g.index + g.len <= Past(t)
      /\ g.index + g.len <= Cap[c.arena] /\ g.index + g.len <= m_offset[c.arena]
  BY <1>1, <1>2, <1>3, SMT
<1> HIDE DEF c
<1>7. Home'
  BY <1>1, <1>3, <1>4, <1>6 DEF IInv, Home
<1>8. \A h \in live : h.arena = g.arena =>
         g.index + g.len <= h.index \/ h.index + h.len <= g.index
  <2> SUFFICES ASSUME NEW h \in live, h.arena = c.arena
               PROVE  g.index + g.len <= h.index \/ h.index + h.len <= g.index
    BY <1>3
  <2>1. Past(t) <= h.index \/ h.index + h.len <= c.off
    BY <1>1 DEF IInv, Apart, c
  <2> QED BY <1>2, <1>3, <1>6, <2>1, Types, SMT DEF IInv
<1>9. \A u \in Threads : InCall(u)' /\ t_call[u].arena = g.arena =>
         Past(u) <= g.index \/ g.index + g.len <= t_call[u].off
  <2> SUFFICES ASSUME NEW u \in Threads, InCall(u)', t_call[u].arena = c.arena
               PROVE  Past(u) <= g.index \/ g.index + g.len <= t_call[u].off
    BY <1>3
  <2>1. Past(u) <= c.off \/ Past(t) <= t_call[u].off
    BY <1>1, <1>4 DEF IInv, Apart, c
  <2>2. t_call[u].off \in Nat /\ Past(u) \in Nat
    BY <1>4, Types DEF IInv
  <2> QED BY <1>2, <1>3, <1>6, <2>1, <2>2, SMT
<1>10. Apart'
  <2>1. \A u, v \in Threads :
          u # v /\ InCall(u)' /\ InCall(v)' /\ t_call'[u].arena = t_call'[v].arena
            => Past(u)' <= t_call'[v].off \/ Past(v)' <= t_call'[u].off
    BY <1>4 DEF IInv, Apart
  <2>2. \A u \in Threads, h \in live' :
          InCall(u)' /\ t_call'[u].arena = h.arena
            => Past(u)' <= h.index \/ h.index + h.len <= t_call'[u].off
    BY <1>1, <1>4, <1>9 DEF IInv, Apart
  <2>3. \A h, k \in live' : h # k /\ h.arena = k.arena =>
          h.index + h.len <= k.index \/ k.index + k.len <= h.index
    BY <1>1, <1>8 DEF IInv, Apart
  <2> QED BY <2>1, <2>2, <2>3 DEF Apart
<1>11. Regions!Inside(g)
  BY <1>2, <1>3, <1>6, SMT DEF Regions!Inside
<1>12. ASSUME NEW h \in live PROVE Regions!Disjoint(g, h)
  <2>1. h \in Region /\ h.index + h.len <= Cap[h.arena]
    BY DEF IInv, TypeOK, Home
  <2>2. CASE h.arena # g.arena
    BY <1>3, <1>6, <2>1, <2>2, OtherArena
  <2>3. CASE h.arena = g.arena
    <3>1. /\ g.index \in Nat /\ h.index \in Nat /\ g.len \in Nat /\ h.len \in Nat
          /\ Base[g.arena] \in Nat
      BY <1>2, <1>3, Types, BufferAssumption DEF IInv
    <3> QED BY <1>8, <2>3, <3>1, SMT DEF Regions!Disjoint, Regions!First
  <2> QED BY <2>2, <2>3
<1> QED BY <1>1, <1>5, <1>7, <1>10, <1>11, <1>12 DEF IInv
-----------------------------------------------------------------------------
(* Every step keeps the invariant, and grants a region, takes an arena's     *)
(* regions back, or leaves the regions in use as they are.                   *)
LEMMA StepIInv ==
    ASSUME RuleKept, IInv, [Next]_vars
    PROVE  IInv' /\ [Regions!Next]_live
<1>1. CASE UNCHANGED vars
  BY <1>1 DEF vars, IInv, TypeOK, Home, Apart, InCall, Past
<1>2. ASSUME NEW t \in Threads, NEW a \in Arenas, NEW size \in Sizes,
             Claim(t, a, size)
      PROVE  IInv' /\ [Regions!Next]_live
  BY <1>2, ClaimIInv DEF Claim
<1>3. ASSUME NEW t \in Threads, Fails(t)
      PROVE  IInv' /\ [Regions!Next]_live
  BY <1>3, FailsIInv DEF Fails
<1>4. ASSUME NEW t \in Threads, Grants(t)
      PROVE  IInv' /\ [Regions!Next]_live
  <2>1. PICK g : /\ live' = live \cup {g} /\ Regions!Inside(g)
                 /\ \A h \in live : h # g => Regions!Disjoint(g, h)
    BY <1>4, GrantsIInv
  <2>2. CASE g \in live
    BY <1>4, <2>1, <2>2, GrantsIInv
  <2>3. CASE g \notin live
    BY <1>4, <2>1, <2>3, GrantsIInv DEF Regions!Next, Regions!Grant
  <2> QED BY <2>2, <2>3
<1>5. ASSUME NEW t \in Threads, NEW a \in Arenas, Reset(t, a)
      PROVE  IInv' /\ [Regions!Next]_live
  <2>1. Regions!TakeBack(a)
    BY <1>5 DEF Reset, Regions!TakeBack
  <2> QED BY <1>5, <2>1, ResetIInv DEF Regions!Next
<1> QED BY <1>1, <1>2, <1>3, <1>4, <1>5 DEF Next

(* The invariant holds in every reachable state. *)
THEOREM Invariance == ASSUME RuleKept PROVE Spec => []IInv
<1>1. IInv /\ [Next]_vars => IInv'
  BY StepIInv
<1> QED BY InitIInv, <1>1, PTL DEF Spec

(* Each allocation gets bytes of its own, whatever the interleaving: every  *)
(* one-level arena of the repository implements the region allocator, when  *)
(* no thread is inside allocate() while another resets its arena and no     *)
(* arena is larger than its answers can tell (BufferAssumption).            *)
THEOREM BumpImplementsRegions ==
    ASSUME RuleKept PROVE Spec => ImplementsRegions
<1>1. Init => Regions!Init
  BY DEF Init, Regions!Init
<1>2. IInv /\ [Next]_vars => [Regions!Next]_live
  BY StepIInv
<1> QED BY Invariance, <1>1, <1>2, PTL DEF Spec, ImplementsRegions, Regions!Spec

\* NoByteLost of one byte, and of all in any state.
Owned(a, byte) ==
    \/ \E g \in live : /\ g.arena = a /\ g.index <= byte
                       /\ byte < g.index + RoundUp(g.len, Round[a])
    \/ \E t \in Threads : /\ t_call[t] # Idle /\ t_call[t].arena = a
                          /\ t_call[t].off <= byte
                          /\ byte < t_call[t].off + Need(a, t_call[t].size)

(* A byte below the offset that a call has claimed is its own, until the     *)
(* call has tested the capacity: then it is in a region, or the arena is full. *)
LEMMA StepNoByteLost ==
    ASSUME RuleKept, IInv, IInv', NoByteLost, [Next]_vars
    PROVE  NoByteLost'
<1> SUFFICES ASSUME NEW a \in Arenas, NEW byte \in 0 .. m_offset'[a] - 1,
                    m_offset'[a] <= Cap[a]
             PROVE  Owned(a, byte)'
  <2>1. ASSUME NEW a \in Arenas PROVE m_offset'[a] \in Nat /\ Cap[a] \in Nat
    BY BufferAssumption, SizeAssumption DEF IInv, TypeOK
  <2> QED BY <2>1, SMT DEF NoByteLost, Owned
<1>1. m_offset[a] \in Nat /\ m_offset'[a] \in Nat /\ Cap[a] \in Nat /\ byte \in Nat
  BY BufferAssumption, SizeAssumption DEF IInv, TypeOK
<1>2. m_offset[a] <= Cap[a] /\ byte < m_offset[a] => Owned(a, byte)
  BY <1>1, SMT DEF NoByteLost, Owned
<1>3. CASE UNCHANGED vars
  BY <1>1, <1>2, <1>3 DEF vars, Owned
<1>4. ASSUME NEW t \in Threads, NEW b \in Arenas, NEW size \in Sizes, Claim(t, b, size)
      PROVE  Owned(a, byte)'
  <2>1. /\ t_call[t] = Idle /\ live' = live
        /\ t_call' = [t_call EXCEPT ![t] =
                       [pc |-> "test", arena |-> b, off |-> m_offset[b], size |-> size]]
        /\ m_offset' = [m_offset EXCEPT ![b] = @ + Need(b, size)]
        /\ Need(b, size) \in Nat
    BY <1>4, NeedCovers DEF Claim
  <2>2. /\ t_call'[t] = [pc |-> "test", arena |-> b, off |-> m_offset[b], size |-> size]
        /\ t_call'[t] # Idle
        /\ \A u \in Threads : t_call[u] # Idle => t_call'[u] = t_call[u]
    BY <2>1 DEF IInv, TypeOK, Idle
  <2>3. m_offset'[a] = IF a = b THEN m_offset[a] + Need(b, size) ELSE m_offset[a]
    BY <2>1 DEF IInv, TypeOK
  <2>4. CASE byte < m_offset[a]
    <3>1. m_offset[a] <= Cap[a]
      BY <1>1, <2>1, <2>3, SMT
    <3> QED BY <1>2, <2>1, <2>2, <2>4, <3>1 DEF Owned
  <2>5. CASE ~(byte < m_offset[a])
    <3>1. a = b /\ m_offset[a] <= byte /\ byte < m_offset[a] + Need(b, size)
      BY <1>1, <2>1, <2>3, <2>5, SMT
    <3> QED BY <2>2, <3>1 DEF Owned
  <2> QED BY <2>4, <2>5
<1>5. ASSUME NEW t \in Threads, Fails(t)
      PROVE  Owned(a, byte)'
  <2>1. /\ UNCHANGED <<m_offset, live>> /\ ~Fits(t_call[t]) /\ t_call[t] # Idle
        /\ \A u \in Threads : u # t => t_call'[u] = t_call[u]
    BY <1>5 DEF Fails, IInv, TypeOK
  <2>2. t_call[t].arena # a
    <3> SUFFICES ASSUME t_call[t].arena = a PROVE FALSE
      OBVIOUS
    <3>1. Past(t) <= m_offset[a] /\ ~(Past(t) <= Cap[a]) /\ Past(t) \in Nat
      BY <2>1, Types DEF IInv, Home, InCall, Fits, Past
    <3> QED BY <1>1, <2>1, <3>1, SMT
  <2> QED BY <1>1, <1>2, <2>1, <2>2 DEF Owned
<1>6. ASSUME NEW t \in Threads, Grants(t)
      PROVE  Owned(a, byte)'
  <2> DEFINE c == t_call[t]
             g == RegionFor(c.arena, c.off, c.size)
  <2>1. /\ m_offset' = m_offset /\ live' = live \cup {g} /\ c # Idle
        /\ \A u \in Threads : u # t => t_call'[u] = t_call[u]
    BY <1>6 DEF Grants, IInv, TypeOK
  <2>2. /\ g.arena = c.arena /\ g.index = c.off
        /\ RoundUp(g.len, Round[c.arena]) = Need(c.arena, c.size)
    <3>1. c.off % IndexMod[c.arena] = c.off
      BY <1>6, AnswerTells DEF IInv, Grants, InCall
    <3> QED BY <3>1 DEF RegionFor, Need
  <2> HIDE DEF g
  <2> QED BY <1>1, <1>2, <2>1, <2>2 DEF Owned
<1>7. ASSUME NEW t \in Threads, NEW b \in Arenas, Reset(t, b)
      PROVE  Owned(a, byte)'
  <2>1. /\ t_call' = t_call /\ live' = {g \in live : g.arena # b}
        /\ m_offset' = [m_offset EXCEPT ![b] = 0]
    BY <1>7 DEF Reset
  <2>2. a # b /\ m_offset'[a] = m_offset[a]
    <3>1. m_offset'[a] = IF a = b THEN 0 ELSE m_offset[a]
      BY <2>1 DEF IInv, TypeOK
    <3> QED BY <1>1, <3>1, SMT
  <2> QED BY <1>1, <1>2, <2>1, <2>2 DEF Owned
<1> QED BY <1>3, <1>4, <1>5, <1>6, <1>7 DEF Next

(* Until an allocation fails, every byte below an arena's offset is in a     *)
(* region or about to be: what the threads take adds up, when no thread is   *)
(* inside allocate() while another resets its arena.                         *)
THEOREM EveryByteAccounted == ASSUME RuleKept PROVE Spec => []NoByteLost
<1>1. Init => NoByteLost
  <2>1. \A n : n = 0 => 0 .. n - 1 = {}
    OBVIOUS
  <2> QED BY <2>1 DEF Init, NoByteLost
<1>2. IInv /\ IInv' /\ NoByteLost /\ [Next]_vars => NoByteLost'
  BY StepNoByteLost
<1> QED BY Invariance, <1>1, <1>2, PTL DEF Spec
=============================================================================
