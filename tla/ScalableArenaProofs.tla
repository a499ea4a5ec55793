------------------------ MODULE ScalableArenaProofs ------------------------
(***************************************************************************)
(* Proof that ScalableArena keeps the promise of RegionAllocator for any   *)
(* number of threads and arenas, any sizes and any chunk limits, as long   *)
(* as its callers keep the three rules.                                    *)
(*                                                                         *)
(* The invariant follows every byte from the fetch_add that takes it: it   *)
(* belongs to a call that has claimed a chunk, then to the free part of a  *)
(* thread's chunk, then to an object, and never to two of these.           *)
(***************************************************************************)
EXTENDS ScalableArena, SharedLemmas

HasChunk(t) == t_chunk[t].base # 0
Lo(t)       == t_chunk[t].base
FreeLo(t)   == t_chunk[t].base + t_chunk[t].used
Hi(t)       == t_chunk[t].base + t_chunk[t].size

InCall(t)   == t_call[t] # Idle
Claims(t)   == /\ InCall(t)
               /\ t_call[t].off + t_call[t].size <= Cap[t_call[t].arena]
ClaimLo(t)  == Base[t_call[t].arena] + t_call[t].off
ClaimHi(t)  == ClaimLo(t) + t_call[t].size

First(g)    == Base[g.arena] + g.index
Past(g)     == First(g) + g.len

\* Chunks, claims and objects lie below their arena's offset.
ChunksHome ==
    \A t \in Threads : HasChunk(t) =>
        /\ t_chunk[t].used <= t_chunk[t].size /\ 0 < t_chunk[t].size
        /\ \E a \in Arenas : /\ Base[a] <= Lo(t)
                             /\ Hi(t) <= Base[a] + Cap[a]
                             /\ Hi(t) <= Base[a] + m_offset[a]
ClaimsHome ==
    \A t \in Threads : InCall(t) =>
        /\ Need(t_call[t].req) <= t_call[t].size
        /\ t_call[t].off + t_call[t].size <= m_offset[t_call[t].arena]
ObjectsHome ==
    \A g \in live : /\ 0 < g.len
                    /\ g.index + g.len <= Cap[g.arena]
                    /\ g.index + g.len <= m_offset[g.arena]

\* No byte has two owners.
ChunksApart ==
    \A t, u \in Threads : t # u /\ HasChunk(t) /\ HasChunk(u) =>
        Hi(t) <= Lo(u) \/ Hi(u) <= Lo(t)
FreeApart ==
    \A t \in Threads, g \in live : HasChunk(t) =>
        Past(g) <= FreeLo(t) \/ Hi(t) <= First(g)
ClaimsApart ==
    \A t, u \in Threads : t # u /\ Claims(t) /\ Claims(u) =>
        ClaimHi(t) <= ClaimLo(u) \/ ClaimHi(u) <= ClaimLo(t)
ClaimsChunksApart ==
    \A t, u \in Threads : Claims(t) /\ HasChunk(u) =>
        ClaimHi(t) <= Lo(u) \/ Hi(u) <= ClaimLo(t)
ClaimsObjectsApart ==
    \A t \in Threads, g \in live : Claims(t) =>
        ClaimHi(t) <= First(g) \/ Past(g) <= ClaimLo(t)
ObjectsApart ==
    \A g, h \in live : g # h => Past(g) <= First(h) \/ Past(h) <= First(g)

Home  == ChunksHome /\ ClaimsHome /\ ObjectsHome
Apart == /\ ChunksApart /\ FreeApart /\ ClaimsApart
         /\ ClaimsChunksApart /\ ClaimsObjectsApart /\ ObjectsApart

IInv == TypeOK /\ Home /\ Apart

\* The callers keep every rule.
AllRulesKept == {"one arena", "fits", "quiescent"} \subseteq Rules
-----------------------------------------------------------------------------
(* A rounded size is at least the size, and no larger than a chunk if the *)
(* rule "fits" holds (chunk_for, lines 50-55).                             *)
LEMMA NeedFits ==
    ASSUME NEW req \in Requests
    PROVE  /\ Need(req) \in Nat /\ req.size \in Nat /\ 0 < req.size
           /\ req.size <= Need(req)
           /\ ChunkFor(Need(req)) \in Nat /\ 0 < ChunkFor(Need(req))
           /\ Need(req) <= ChunkMax => Need(req) <= ChunkFor(Need(req))
<1>1. req.size \in Nat \ {0} /\ req.align \in Nat \ {0}
  BY RequestAssumption
<1> DEFINE s == req.size
           al == req.align
           x == s + al - 1
           q == x \div al
<1>2. x \in Int /\ q \in Int /\ x = al * q + (x % al) /\ x % al \in 0 .. al - 1
  <2> HIDE DEF s, al
  <2>1. s \in Nat /\ al \in Nat \ {0}
    BY <1>1 DEF s, al
  <2> QED BY <2>1, SMT
<1> HIDE DEF q, x
<1>3. q * al >= s /\ q * al \in Int
  <2>1. x = s + al - 1 BY DEF x
  <2>2. s \in Nat /\ al \in Nat \ {0} BY <1>1 DEF s, al
  <2> HIDE DEF s, al
  <2>3. q * al = al * q /\ q * al \in Int BY <1>2, <2>2, SMT
  <2>4. al * q = x - (x % al) BY <1>2, <2>2, SMT
  <2> QED BY <1>2, <2>1, <2>2, <2>3, <2>4, SMT
<1>4. Need(req) = q * al
  BY DEF Need, RoundUp, q, x, s, al
<1>5. Need(req) \in Nat /\ s <= Need(req)
  <2> HIDE DEF s, al
  <2>1. s \in Nat BY <1>1 DEF s
  <2> QED BY <1>3, <1>4, <2>1, SMT
<1> QED BY <1>1, <1>5, ChunkAssumption, SMT DEF ChunkFor

(* The constants the proofs use. *)
LEMMA Buffers ==
    ASSUME NEW a \in Arenas
    PROVE  /\ Base[a] \in Nat /\ 0 < Base[a] /\ Cap[a] \in Nat
           /\ Cap[a] <= IndexMod /\ IndexMod \in Nat \ {0}
           /\ \A b \in Arenas : a # b => /\ Base[b] \in Nat /\ Cap[b] \in Nat
                                         /\ \/ Base[a] + Cap[a] <= Base[b]
                                            \/ Base[b] + Cap[b] <= Base[a]
BY BufferAssumption, SMT

(* Types of the parts of the state, in the form the arithmetic needs. *)
LEMMA Types ==
    ASSUME TypeOK
    PROVE  /\ \A a \in Arenas : m_offset[a] \in Nat
           /\ \A t \in Threads : /\ t_chunk[t].base \in Nat
                                 /\ t_chunk[t].used \in Nat
                                 /\ t_chunk[t].size \in Nat
           /\ \A t \in Threads : InCall(t) => /\ t_call[t].arena \in Arenas
                                              /\ t_call[t].req \in Requests
                                              /\ t_call[t].off \in Nat
                                              /\ t_call[t].size \in Nat
           /\ \A g \in live : g.arena \in Arenas /\ g.index \in Nat /\ g.len \in Nat
<1>1. \A a \in Arenas : m_offset[a] \in Nat
  BY BoundAssumption DEF TypeOK
<1>2. \A t \in Threads : t_chunk[t] \in Chunk
  BY DEF TypeOK
<1>3. \A t \in Threads : InCall(t) => t_call[t] \in Call
  BY DEF TypeOK, InCall
<1>4. \A g \in live : g \in Region
  BY DEF TypeOK
<1> QED BY <1>1, <1>2, <1>3, <1>4, BufferAssumption, SMT DEF Chunk, Call, Region

(* A handle cut from the arena's own buffer designates what it was cut from: *)
(* the 32-bit offset loses nothing (line 125, line 133).                     *)
LEMMA HandleExact ==
    ASSUME NEW a \in Arenas, NEW req \in Requests, NEW ptr \in Nat,
           Base[a] <= ptr, ptr + req.size <= Base[a] + Cap[a]
    PROVE  LET g == HandleFor(a, ptr, req)
           IN  /\ g \in Region
               /\ g.arena = a /\ g.len = req.size /\ g.index = ptr - Base[a]
<1>1. ptr - Base[a] \in 0 .. IndexMod - 1
  BY Buffers, NeedFits, SMT
<1>2. (ptr - Base[a]) % IndexMod = ptr - Base[a]
  BY <1>1, Buffers, SMT
<1>3. req.size \in Nat /\ req.align \in Nat
  BY RequestAssumption
<1> QED BY <1>1, <1>2, <1>3 DEF HandleFor, Region

(* Bounds of chunks, claims and objects are integers. *)
LEMMA BoundTypes ==
    ASSUME TypeOK
    PROVE  /\ \A t \in Threads : Lo(t) \in Nat /\ FreeLo(t) \in Nat /\ Hi(t) \in Nat
           /\ \A t \in Threads : InCall(t) => ClaimLo(t) \in Nat /\ ClaimHi(t) \in Nat
           /\ \A g \in live : First(g) \in Nat /\ Past(g) \in Nat
BY Types, Buffers, SMT DEF Lo, FreeLo, Hi, ClaimLo, ClaimHi, First, Past

(* A chunk whose start is in a buffer lies in that buffer. *)
LEMMA ChunkInside ==
    ASSUME IInv, NEW t \in Threads, HasChunk(t), NEW a \in Arenas, ChunkIn(t, a)
    PROVE  /\ Base[a] <= Lo(t) /\ Hi(t) <= Base[a] + Cap[a]
           /\ Hi(t) <= Base[a] + m_offset[a]
<1>1. PICK b \in Arenas : /\ Base[b] <= Lo(t) /\ Hi(t) <= Base[b] + Cap[b]
                          /\ Hi(t) <= Base[b] + m_offset[b]
  BY DEF IInv, Home, ChunksHome
<1>2. Base[a] <= Lo(t) /\ Lo(t) < Base[a] + Cap[a]
  BY DEF ChunkIn, Lo
<1>3. Lo(t) < Hi(t) /\ Lo(t) \in Nat /\ Hi(t) \in Nat
  <2>1. 0 < t_chunk[t].size
    BY DEF IInv, Home, ChunksHome
  <2>2. t_chunk[t].base \in Nat /\ t_chunk[t].size \in Nat
    BY Types DEF IInv
  <2> QED BY <2>1, <2>2, SMT DEF Lo, Hi
<1>4. a = b
  BY <1>1, <1>2, <1>3, Buffers, SMT
<1> QED BY <1>1, <1>4

(* The initial state. *)
LEMMA InitIInv == Init => IInv
<1> SUFFICES ASSUME Init PROVE IInv
  OBVIOUS
<1>1. /\ \A t \in Threads : ~HasChunk(t) /\ ~InCall(t)
      /\ live = {}
  BY DEF Init, HasChunk, InCall, NoChunk
<1>2. TypeOK
  <2>1. NoChunk \in Chunk
    BY DEF NoChunk, Chunk
  <2>2. 0 \in 0 .. MaxOffset
    BY BoundAssumption, SMT
  <2> QED BY <2>1, <2>2 DEF Init, TypeOK
<1>3. Home
  BY <1>1 DEF Home, ChunksHome, ClaimsHome, ObjectsHome
<1>4. Apart
  BY <1>1 DEF Apart, ChunksApart, FreeApart, ClaimsApart, ClaimsChunksApart,
              ClaimsObjectsApart, ObjectsApart, Claims
<1> QED BY <1>2, <1>3, <1>4 DEF IInv

(* A thread that only lets go of its chunk, of its claim or of an arena      *)
(* nobody else is using keeps the invariant.                                 *)
LEMMA InitializeThreadIInv ==
    ASSUME IInv, NEW t \in Threads, InitializeThread(t)
    PROVE  IInv'
<1>1. UNCHANGED <<m_offset, t_call, live>>
  BY DEF InitializeThread
<1>2. NoChunk \in Chunk /\ NoChunk.base = 0
  BY DEF NoChunk, Chunk
<1>3. TypeOK'
  BY <1>1, <1>2 DEF IInv, TypeOK, InitializeThread
<1>4. /\ ~HasChunk(t)'
      /\ \A u \in Threads \ {t} : t_chunk'[u] = t_chunk[u]
  BY <1>2 DEF IInv, TypeOK, InitializeThread, HasChunk
<1>5. \A u \in Threads : HasChunk(u)' => t_chunk'[u] = t_chunk[u] /\ HasChunk(u)
  BY <1>4 DEF HasChunk
<1>6. Home'
  BY <1>1, <1>5 DEF IInv, Home, ChunksHome, ClaimsHome, ObjectsHome, InCall, Lo, Hi
<1>7. Apart'
  BY <1>1, <1>5 DEF IInv, Apart, ChunksApart, FreeApart, ClaimsApart,
     ClaimsChunksApart, ClaimsObjectsApart, ObjectsApart, Claims, InCall,
     Lo, FreeLo, Hi, ClaimLo, ClaimHi
<1> QED BY <1>3, <1>6, <1>7 DEF IInv

LEMMA RefillFailsIInv ==
    ASSUME IInv, NEW t \in Threads, RefillFails(t)
    PROVE  IInv'
<1>1. UNCHANGED <<m_offset, t_chunk, live>>
  BY DEF RefillFails
<1>2. TypeOK'
  BY <1>1 DEF IInv, TypeOK, RefillFails
<1>3. \A u \in Threads : InCall(u)' => t_call'[u] = t_call[u] /\ InCall(u)
  BY DEF IInv, TypeOK, RefillFails, InCall
<1>4. Home'
  BY <1>1, <1>3 DEF IInv, Home, ChunksHome, ClaimsHome, ObjectsHome, HasChunk, Lo, Hi
<1>5. Apart'
  BY <1>1, <1>3 DEF IInv, Apart, ChunksApart, FreeApart, ClaimsApart,
     ClaimsChunksApart, ClaimsObjectsApart, ObjectsApart, Claims, HasChunk,
     Lo, FreeLo, Hi, ClaimLo, ClaimHi
<1> QED BY <1>2, <1>4, <1>5 DEF IInv

(* An object cut from the thread's own chunk: its bytes were free. *)
LEMMA AllocateLocalIInv ==
    ASSUME IInv, AllRulesKept, NEW t \in Threads, NEW a \in Arenas,
           NEW req \in Requests, AllocateLocal(t, a, req)
    PROVE  /\ IInv'
           /\ \E g : /\ live' = live \cup {g}
                     /\ Regions!Inside(g)
                     /\ \A h \in live : h # g => Regions!Disjoint(g, h)
<1> DEFINE n == Need(req)
           g == HandleFor(a, FreeLo(t), req)
<1>1. /\ UNCHANGED <<m_offset, t_call>>
      /\ t_chunk' = [t_chunk EXCEPT ![t].used = @ + n]
      /\ live' = live \cup {g}
      /\ HasChunk(t) /\ t_chunk[t].used + n <= t_chunk[t].size
      /\ ChunkIn(t, a)
  BY DEF AllocateLocal, HasSpace, Allowed, AllRulesKept, HasChunk, FreeLo
<1>2. /\ n \in Nat /\ req.size \in Nat /\ 0 < req.size /\ req.size <= n
      /\ Lo(t) \in Nat /\ FreeLo(t) \in Nat /\ Hi(t) \in Nat
      /\ t_chunk[t] \in Chunk /\ t_chunk[t].used \in Nat
      /\ Base[a] \in Nat /\ Cap[a] \in Nat /\ m_offset[a] \in Nat
  BY NeedFits, BoundTypes, Types, Buffers DEF IInv, TypeOK
<1>3. /\ Base[a] <= Lo(t) /\ Hi(t) <= Base[a] + Cap[a]
      /\ Hi(t) <= Base[a] + m_offset[a]
  BY <1>1, ChunkInside
<1>4. FreeLo(t) + n <= Hi(t) /\ Lo(t) <= FreeLo(t)
  <2>1. t_chunk[t].base \in Nat /\ t_chunk[t].size \in Nat
    BY Types DEF IInv
  <2> QED BY <1>1, <1>2, <2>1, SMT DEF FreeLo, Lo, Hi
<1> HIDE DEF n
<1>5. /\ g \in Region /\ g.arena = a /\ g.len = req.size
      /\ g.index = FreeLo(t) - Base[a]
  <2>1. Base[a] <= FreeLo(t) /\ FreeLo(t) + req.size <= Base[a] + Cap[a]
    BY <1>2, <1>3, <1>4, SMT
  <2> QED BY <1>2, <2>1, HandleExact
<1> HIDE DEF g
<1>6. /\ First(g) = FreeLo(t) /\ Past(g) = FreeLo(t) + req.size
      /\ Past(g) <= FreeLo(t) + n /\ Past(g) <= Hi(t)
      /\ First(g) \in Nat /\ Past(g) \in Nat
      /\ 0 < g.len /\ 0 <= g.index
      /\ g.index + g.len <= Cap[a] /\ g.index + g.len <= m_offset[a]
  BY <1>2, <1>3, <1>4, <1>5, SMT DEF First, Past
<1>7. /\ t_chunk' \in [Threads -> Chunk]
      /\ \A u \in Threads : Lo(u)' = Lo(u) /\ Hi(u)' = Hi(u)
                            /\ (HasChunk(u)' <=> HasChunk(u))
                            /\ t_chunk'[u].size = t_chunk[u].size
      /\ \A u \in Threads \ {t} : FreeLo(u)' = FreeLo(u)
                                  /\ t_chunk'[u].used = t_chunk[u].used
      /\ FreeLo(t)' = FreeLo(t) + n
      /\ t_chunk'[t].used = t_chunk[t].used + n
  <2> DEFINE c == [t_chunk[t] EXCEPT !.used = t_chunk[t].used + n]
  <2>1. /\ c \in Chunk /\ c.base = t_chunk[t].base /\ c.size = t_chunk[t].size
        /\ c.used = t_chunk[t].used + n
    BY <1>2, SMT DEF Chunk
  <2>2. t_chunk' = [t_chunk EXCEPT ![t] = c]
    BY <1>1
  <2> HIDE DEF c
  <2>3. t_chunk \in [Threads -> Chunk]
    BY DEF IInv, TypeOK
  <2>4. /\ t_chunk' \in [Threads -> Chunk] /\ t_chunk'[t] = c
        /\ \A u \in Threads \ {t} : t_chunk'[u] = t_chunk[u]
    BY <2>1, <2>2, <2>3
  <2>5. FreeLo(t)' = FreeLo(t) + n
    <3>1. t_chunk[t].base \in Nat
      BY Types DEF IInv
    <3> QED BY <1>2, <2>1, <2>4, <3>1, SMT DEF FreeLo
  <2> QED BY <2>1, <2>4, <2>5 DEF Lo, Hi, HasChunk, FreeLo
<1>8. \A u \in Threads : /\ InCall(u)' = InCall(u) /\ Claims(u)' = Claims(u)
                         /\ ClaimLo(u)' = ClaimLo(u) /\ ClaimHi(u)' = ClaimHi(u)
  BY <1>1 DEF InCall, Claims, ClaimLo, ClaimHi
<1>9. TypeOK'
  BY <1>1, <1>5, <1>7 DEF IInv, TypeOK
<1>10. Home'
  <2>1. ChunksHome'
    BY <1>1, <1>7 DEF IInv, Home, ChunksHome
  <2>2. ClaimsHome' /\ ObjectsHome'
    BY <1>1, <1>5, <1>6, <1>8 DEF IInv, Home, ClaimsHome, ObjectsHome
  <2> QED BY <2>1, <2>2 DEF Home
<1>11. \A h \in live : Past(h) <= First(g) \/ Past(g) <= First(h)
  BY <1>1, <1>2, <1>6, BoundTypes, SMT DEF IInv, Apart, FreeApart
<1>12. Apart'
  <2>1. ChunksApart' /\ ClaimsApart' /\ ClaimsChunksApart'
    BY <1>7, <1>8 DEF IInv, Apart, ChunksApart, ClaimsApart, ClaimsChunksApart
  <2>2. FreeApart'
    <3> SUFFICES ASSUME NEW u \in Threads, NEW h \in live', HasChunk(u)
                 PROVE  Past(h) <= FreeLo(u)' \/ Hi(u) <= First(h)
      BY <1>7 DEF FreeApart, Past, First
    <3>1. CASE h = g /\ u = t
      BY <1>6, <1>7, <3>1
    <3>2. CASE h = g /\ u # t
      <4>1. Hi(t) <= Lo(u) \/ Hi(u) <= Lo(t)
        BY <1>1, <3>2 DEF IInv, Apart, ChunksApart
      <4>2. Lo(u) <= FreeLo(u) /\ Lo(u) \in Nat /\ FreeLo(u) \in Nat /\ Hi(u) \in Nat
        BY BoundTypes, Types, SMT DEF IInv, Lo, FreeLo
      <4> QED BY <1>2, <1>4, <1>6, <1>7, <3>2, <4>1, <4>2, SMT
    <3>3. CASE h # g
      <4>1. h \in live
        BY <1>1, <3>3
      <4>2. Past(h) <= FreeLo(u) \/ Hi(u) <= First(h)
        BY <4>1 DEF IInv, Apart, FreeApart
      <4>3. FreeLo(u)' = FreeLo(u) \/ (u = t /\ FreeLo(u)' = FreeLo(u) + n)
        BY <1>7
      <4> QED BY <1>2, <4>1, <4>2, <4>3, BoundTypes, SMT DEF IInv
    <3> QED BY <3>1, <3>2, <3>3
  <2>3. ClaimsObjectsApart'
    <3> SUFFICES ASSUME NEW u \in Threads, NEW h \in live', Claims(u)
                 PROVE  ClaimHi(u) <= First(h) \/ Past(h) <= ClaimLo(u)
      BY <1>8 DEF ClaimsObjectsApart, Past, First
    <3>1. CASE h = g
      <4>1. ClaimHi(u) <= Lo(t) \/ Hi(t) <= ClaimLo(u)
        BY <1>1 DEF IInv, Apart, ClaimsChunksApart
      <4>2. ClaimLo(u) \in Nat /\ ClaimHi(u) \in Nat
        BY BoundTypes DEF IInv, Claims
      <4> QED BY <1>2, <1>4, <1>6, <3>1, <4>1, <4>2, SMT
    <3>2. CASE h # g
      BY <1>1, <3>2 DEF IInv, Apart, ClaimsObjectsApart
    <3> QED BY <3>1, <3>2
  <2>4. ObjectsApart'
    BY <1>1, <1>11 DEF IInv, Apart, ObjectsApart, Past, First
  <2> QED BY <2>1, <2>2, <2>3, <2>4 DEF Apart
<1>13. Regions!Inside(g)
  BY <1>5, <1>6 DEF Regions!Inside
<1>14. \A h \in live : h # g => Regions!Disjoint(g, h)
  BY <1>11 DEF Regions!Disjoint, Regions!First, First, Past
<1> QED BY <1>1, <1>9, <1>10, <1>12, <1>13, <1>14 DEF IInv

(* The fetch_add takes bytes above everything the arena gave before. *)
LEMMA RefillClaimIInv ==
    ASSUME IInv, AllRulesKept, NEW t \in Threads, NEW a \in Arenas,
           NEW req \in Requests, RefillClaim(t, a, req)
    PROVE  IInv'
<1> DEFINE size == ChunkFor(Need(req))
           off == m_offset[a]
           c == [pc |-> "refill", arena |-> a, req |-> req, off |-> off, size |-> size]
<1>1. /\ UNCHANGED <<t_chunk, live>>
      /\ t_call' = [t_call EXCEPT ![t] = c]
      /\ m_offset' = [m_offset EXCEPT ![a] = @ + size]
      /\ off + size <= MaxOffset
      /\ Need(req) <= ChunkMax
  BY DEF RefillClaim, Allowed, AllRulesKept
<1>2. /\ size \in Nat /\ 0 < size /\ Need(req) <= size
      /\ off \in Nat /\ Base[a] \in Nat /\ Cap[a] \in Nat
  BY <1>1, NeedFits, Types, Buffers DEF IInv
<1>3. c \in Call /\ c # Idle
  BY <1>2 DEF Call, Idle
<1>4. /\ t_call' \in [Threads -> Call \cup {Idle}] /\ t_call'[t] = c
      /\ \A u \in Threads \ {t} : t_call'[u] = t_call[u]
  BY <1>1, <1>3 DEF IInv, TypeOK
<1>5. /\ m_offset' \in [Arenas -> 0 .. MaxOffset]
      /\ m_offset'[a] = off + size
      /\ \A b \in Arenas : m_offset[b] \in Nat /\ m_offset[b] <= m_offset'[b]
                           /\ m_offset'[b] \in Nat
  <2>1. off + size \in 0 .. MaxOffset
    BY <1>1, <1>2, BoundAssumption, SMT
  <2>2. m_offset \in [Arenas -> 0 .. MaxOffset]
    BY DEF IInv, TypeOK
  <2> HIDE DEF size
  <2>3. m_offset' \in [Arenas -> 0 .. MaxOffset]
    BY <1>1, <2>1, <2>2
  <2> QED BY <1>1, <1>2, <2>2, <2>3, BoundAssumption, SMT
<1>6. TypeOK'
  BY <1>1, <1>4, <1>5 DEF IInv, TypeOK
<1>7. \A u \in Threads : /\ Lo(u)' = Lo(u) /\ Hi(u)' = Hi(u)
                         /\ FreeLo(u)' = FreeLo(u) /\ HasChunk(u)' = HasChunk(u)
  BY <1>1 DEF Lo, Hi, FreeLo, HasChunk
<1>8. /\ \A u \in Threads \ {t} :
            /\ InCall(u)' = InCall(u) /\ Claims(u)' = Claims(u)
            /\ ClaimLo(u)' = ClaimLo(u) /\ ClaimHi(u)' = ClaimHi(u)
      /\ Claims(t)' => off + size <= Cap[a]
      /\ ClaimLo(t)' = Base[a] + off /\ ClaimHi(t)' = Base[a] + off + size
  BY <1>3, <1>4 DEF InCall, Claims, ClaimLo, ClaimHi
<1> DEFINE lo == Base[a] + off
           hi == Base[a] + off + size
<1>9. lo \in Nat /\ hi \in Nat /\ lo <= hi
  BY <1>2
<1>10. Home'
  <2>1. ChunksHome'
    <3> SUFFICES ASSUME NEW u \in Threads, HasChunk(u)
                 PROVE  /\ t_chunk[u].used <= t_chunk[u].size /\ 0 < t_chunk[u].size
                        /\ \E b \in Arenas : /\ Base[b] <= Lo(u)
                                             /\ Hi(u) <= Base[b] + Cap[b]
                                             /\ Hi(u) <= Base[b] + m_offset'[b]
      BY <1>1, <1>7 DEF ChunksHome
    <3>1. PICK b \in Arenas : /\ Base[b] <= Lo(u) /\ Hi(u) <= Base[b] + Cap[b]
                              /\ Hi(u) <= Base[b] + m_offset[b]
      BY DEF IInv, Home, ChunksHome
    <3>2. Hi(u) <= Base[b] + m_offset'[b]
      BY <1>5, <3>1, BoundTypes, Buffers, SMT DEF IInv
    <3> QED BY <3>1, <3>2 DEF IInv, Home, ChunksHome
  <2>2. ClaimsHome'
    <3> SUFFICES ASSUME NEW u \in Threads, InCall(u)'
                 PROVE  /\ Need(t_call'[u].req) <= t_call'[u].size
                        /\ t_call'[u].off + t_call'[u].size
                             <= m_offset'[t_call'[u].arena]
      BY DEF ClaimsHome
    <3>1. CASE u = t
      BY <1>2, <1>4, <1>5, <3>1
    <3>2. CASE u # t
      <4>1. InCall(u) /\ t_call'[u] = t_call[u]
        BY <1>4, <1>8, <3>2
      <4>2. /\ Need(t_call[u].req) <= t_call[u].size
            /\ t_call[u].off + t_call[u].size <= m_offset[t_call[u].arena]
            /\ t_call[u].arena \in Arenas
            /\ t_call[u].off \in Nat /\ t_call[u].size \in Nat
        BY <4>1, Types DEF IInv, Home, ClaimsHome
      <4> QED BY <1>5, <4>1, <4>2, SMT
    <3> QED BY <3>1, <3>2
  <2>3. ObjectsHome'
    <3> SUFFICES ASSUME NEW g \in live
                 PROVE  0 < g.len /\ g.index + g.len <= Cap[g.arena]
                        /\ g.index + g.len <= m_offset'[g.arena]
      BY <1>1 DEF ObjectsHome
    <3> QED BY <1>5, Types, SMT DEF IInv, Home, ObjectsHome
  <2> QED BY <2>1, <2>2, <2>3 DEF Home
<1>11. ASSUME off + size <= Cap[a], NEW u \in Threads, HasChunk(u)
       PROVE  hi <= Lo(u) \/ Hi(u) <= lo
  <2>1. PICK b \in Arenas : /\ Base[b] <= Lo(u) /\ Hi(u) <= Base[b] + Cap[b]
                            /\ Hi(u) <= Base[b] + m_offset[b]
    BY <1>11 DEF IInv, Home, ChunksHome
  <2>2. Lo(u) \in Nat /\ Hi(u) \in Nat
    BY BoundTypes DEF IInv
  <2> HIDE DEF size
  <2>3. CASE a = b
    BY <2>1, <2>3
  <2>4. CASE a # b
    <3>1. Base[a] + Cap[a] <= Base[b] \/ Base[b] + Cap[b] <= Base[a]
      BY <2>4, Buffers
    <3>2. Base[b] \in Nat /\ Cap[b] \in Nat
      BY Buffers
    <3> QED BY <1>2, <1>11, <2>1, <2>2, <3>1, <3>2, SMT
  <2> QED BY <2>3, <2>4
<1>12. ASSUME off + size <= Cap[a], NEW g \in live
       PROVE  hi <= First(g) \/ Past(g) <= lo
  <2>1. /\ g.arena \in Arenas /\ g.index \in Nat /\ g.len \in Nat
        /\ g.index + g.len <= Cap[g.arena]
        /\ g.index + g.len <= m_offset[g.arena]
    BY Types DEF IInv, Home, ObjectsHome
  <2> HIDE DEF size
  <2>2. CASE g.arena = a
    BY <1>2, <2>1, <2>2, SMT DEF Past, First
  <2>3. CASE g.arena # a
    <3>1. \/ Base[a] + Cap[a] <= Base[g.arena]
          \/ Base[g.arena] + Cap[g.arena] <= Base[a]
      BY <2>1, <2>3, Buffers
    <3>2. Base[g.arena] \in Nat /\ Cap[g.arena] \in Nat
      BY <2>1, Buffers
    <3> QED BY <1>2, <1>12, <2>1, <3>1, <3>2, SMT DEF Past, First
  <2> QED BY <2>2, <2>3
<1>13. ASSUME off + size <= Cap[a], NEW u \in Threads, Claims(u)
       PROVE  hi <= ClaimLo(u) \/ ClaimHi(u) <= lo
  <2> DEFINE d == t_call[u]
  <2>1. /\ d.arena \in Arenas /\ d.off \in Nat /\ d.size \in Nat
        /\ d.off + d.size <= Cap[d.arena]
        /\ d.off + d.size <= m_offset[d.arena]
    BY <1>13, Types DEF IInv, Home, ClaimsHome, Claims
  <2> HIDE DEF size
  <2>2. ClaimLo(u) = Base[d.arena] + d.off /\ ClaimHi(u) = Base[d.arena] + d.off + d.size
    BY DEF ClaimLo, ClaimHi
  <2> HIDE DEF d
  <2>3. CASE d.arena = a
    BY <1>2, <2>1, <2>2, <2>3, SMT
  <2>4. CASE d.arena # a
    <3>1. \/ Base[a] + Cap[a] <= Base[d.arena]
          \/ Base[d.arena] + Cap[d.arena] <= Base[a]
      BY <2>1, <2>4, Buffers
    <3>2. Base[d.arena] \in Nat /\ Cap[d.arena] \in Nat
      BY <2>1, Buffers
    <3> QED BY <1>2, <1>13, <2>1, <2>2, <3>1, <3>2, SMT
  <2> QED BY <2>3, <2>4
<1>14. Apart'
  <2>1. ChunksApart' /\ FreeApart' /\ ObjectsApart'
    BY <1>1, <1>7 DEF IInv, Apart, ChunksApart, FreeApart, ObjectsApart, First, Past
  <2> HIDE DEF lo, hi, size
  <2>2. ClaimLo(t)' = lo /\ ClaimHi(t)' = hi
    BY <1>8 DEF lo, hi
  <2>3. ClaimsApart'
    BY <1>8, <1>13, <2>2 DEF IInv, Apart, ClaimsApart
  <2>4. ClaimsChunksApart'
    BY <1>7, <1>8, <1>11, <2>2 DEF IInv, Apart, ClaimsChunksApart
  <2>5. ClaimsObjectsApart'
    BY <1>1, <1>8, <1>12, <2>2 DEF IInv, Apart, ClaimsObjectsApart, First, Past
  <2> QED BY <2>1, <2>3, <2>4, <2>5 DEF Apart
<1> QED BY <1>6, <1>10, <1>14 DEF IInv

(* The claimed bytes become the thread's chunk and its first object. *)
LEMMA RefillGrantsIInv ==
    ASSUME IInv, NEW t \in Threads, RefillGrants(t)
    PROVE  /\ IInv'
           /\ \E g : /\ live' = live \cup {g}
                     /\ Regions!Inside(g)
                     /\ \A h \in live : h # g => Regions!Disjoint(g, h)
<1> DEFINE c == t_call[t]
           a == c.arena
           req == c.req
           n == Need(req)
           base == Base[a] + c.off
           g == HandleFor(a, base, req)
           k == [base |-> base, used |-> n, size |-> c.size]
<1>1. /\ UNCHANGED m_offset
      /\ t_call' = [t_call EXCEPT ![t] = Idle]
      /\ t_chunk' = [t_chunk EXCEPT ![t] = k]
      /\ live' = live \cup {g}
      /\ InCall(t) /\ Claims(t)
      /\ c.off + c.size <= Cap[a]
  BY DEF RefillGrants, InCall, Claims
<1>2. /\ a \in Arenas /\ req \in Requests /\ c.off \in Nat /\ c.size \in Nat
      /\ n <= c.size /\ c.off + c.size <= m_offset[a]
  BY <1>1, Types DEF IInv, Home, ClaimsHome
<1>3. /\ n \in Nat /\ req.size \in Nat /\ 0 < req.size /\ req.size <= n
      /\ Base[a] \in Nat /\ 0 < Base[a] /\ Cap[a] \in Nat /\ m_offset[a] \in Nat
  BY <1>2, NeedFits, Types, Buffers DEF IInv
<1>4. ClaimLo(t) = base /\ ClaimHi(t) = base + c.size
  BY DEF ClaimLo, ClaimHi
<1>5. /\ \A u \in Threads \ {t} : t_call'[u] = t_call[u] /\ t_chunk'[u] = t_chunk[u]
      /\ t_call'[t] = Idle /\ t_chunk'[t] = k
      /\ t_call' \in [Threads -> Call \cup {Idle}]
      /\ t_chunk' \in [Threads -> Chunk]
  <2>1. k \in Chunk
    BY <1>2, <1>3 DEF Chunk
  <2> HIDE DEF k
  <2> QED BY <1>1, <2>1 DEF IInv, TypeOK
<1> HIDE DEF n, req, c
<1>6. base \in Nat /\ base # 0
  BY <1>2, <1>3, SMT
<1>7. g \in Region /\ g.arena = a /\ g.len = req.size /\ g.index = c.off
  <2>1. Base[a] <= base /\ base + req.size <= Base[a] + Cap[a]
    BY <1>1, <1>2, <1>3, SMT
  <2>2. base - Base[a] = c.off
    BY <1>2, <1>3, SMT
  <2> HIDE DEF a, base
  <2> QED BY <1>2, <1>6, <2>1, <2>2, HandleExact
<1> HIDE DEF g
<1>8. /\ First(g) = base /\ Past(g) = base + req.size
      /\ Past(g) <= base + n /\ Past(g) <= ClaimHi(t)
      /\ First(g) \in Nat /\ Past(g) \in Nat
      /\ 0 < g.len /\ 0 <= g.index
      /\ g.index + g.len <= Cap[a] /\ g.index + g.len <= m_offset[a]
  BY <1>1, <1>2, <1>3, <1>4, <1>6, <1>7, SMT DEF First, Past
<1>9. /\ HasChunk(t)' /\ Lo(t)' = ClaimLo(t) /\ Hi(t)' = ClaimHi(t)
      /\ FreeLo(t)' = base + n
      /\ t_chunk'[t].used = n /\ t_chunk'[t].size = c.size
      /\ ~InCall(t)' /\ ~Claims(t)'
  BY <1>4, <1>5, <1>6 DEF HasChunk, Lo, Hi, FreeLo, InCall, Claims
<1>10. \A u \in Threads \ {t} :
          /\ HasChunk(u)' = HasChunk(u) /\ Lo(u)' = Lo(u) /\ Hi(u)' = Hi(u)
          /\ FreeLo(u)' = FreeLo(u)
          /\ InCall(u)' = InCall(u) /\ Claims(u)' = Claims(u)
          /\ ClaimLo(u)' = ClaimLo(u) /\ ClaimHi(u)' = ClaimHi(u)
  BY <1>5 DEF HasChunk, Lo, Hi, FreeLo, InCall, Claims, ClaimLo, ClaimHi
<1>11. TypeOK'
  BY <1>1, <1>5, <1>7 DEF IInv, TypeOK
<1>12. Home'
  <2>1. ChunksHome'
    <3> SUFFICES ASSUME NEW u \in Threads, HasChunk(u)'
                 PROVE  /\ t_chunk'[u].used <= t_chunk'[u].size
                        /\ 0 < t_chunk'[u].size
                        /\ \E b \in Arenas : /\ Base[b] <= Lo(u)'
                                             /\ Hi(u)' <= Base[b] + Cap[b]
                                             /\ Hi(u)' <= Base[b] + m_offset'[b]
      BY DEF ChunksHome
    <3>1. CASE u = t
      <4>1. /\ Base[a] <= ClaimLo(t) /\ ClaimHi(t) <= Base[a] + Cap[a]
            /\ ClaimHi(t) <= Base[a] + m_offset[a] /\ 0 < c.size
        BY <1>1, <1>2, <1>3, <1>4, SMT
      <4> QED BY <1>1, <1>2, <1>9, <3>1, <4>1
    <3>2. CASE u # t
      BY <1>1, <1>5, <1>10, <3>2 DEF IInv, Home, ChunksHome
    <3> QED BY <3>1, <3>2
  <2>2. ClaimsHome'
    BY <1>1, <1>5, <1>9, <1>10 DEF IInv, Home, ClaimsHome
  <2>3. ObjectsHome'
    BY <1>1, <1>7, <1>8 DEF IInv, Home, ObjectsHome
  <2> QED BY <2>1, <2>2, <2>3 DEF Home
<1>13. \A h \in live : Past(h) <= First(g) \/ ClaimHi(t) <= First(h)
  BY <1>1, <1>4, <1>8 DEF IInv, Apart, ClaimsObjectsApart
<1>14. \A h \in live : Past(h) <= First(g) \/ Past(g) <= First(h)
  BY <1>8, <1>13, <1>2, <1>6, <1>4, BoundTypes, SMT DEF IInv
<1>15. Apart'
  <2>1. ChunksApart'
    BY <1>1, <1>9, <1>10 DEF IInv, Apart, ChunksApart, ClaimsChunksApart
  <2>2. FreeApart'
    <3> SUFFICES ASSUME NEW u \in Threads, NEW h \in live', HasChunk(u)'
                 PROVE  Past(h) <= FreeLo(u)' \/ Hi(u)' <= First(h)
      BY DEF FreeApart, Past, First
    <3>1. CASE h = g /\ u = t
      BY <1>8, <1>9, <3>1
    <3>2. CASE h = g /\ u # t
      <4>1. ClaimHi(t) <= Lo(u) \/ Hi(u) <= ClaimLo(t)
        BY <1>1, <1>10, <3>2 DEF IInv, Apart, ClaimsChunksApart
      <4>2. Lo(u) <= FreeLo(u) /\ Lo(u) \in Nat /\ FreeLo(u) \in Nat /\ Hi(u) \in Nat
        BY BoundTypes, Types, SMT DEF IInv, Lo, FreeLo
      <4>3. ClaimLo(t) \in Nat /\ ClaimHi(t) \in Nat
        BY <1>1, BoundTypes DEF IInv
      <4> QED BY <1>4, <1>8, <1>10, <3>2, <4>1, <4>2, <4>3, SMT
    <3>3. CASE h # g /\ u = t
      <4>1. h \in live
        BY <1>1, <3>3
      <4>2. Past(h) <= base \/ ClaimHi(t) <= First(h)
        BY <1>8, <1>13, <4>1
      <4>3. Past(h) \in Nat
        BY <4>1, BoundTypes DEF IInv
      <4> QED BY <1>3, <1>6, <1>9, <3>3, <4>2, <4>3, SMT
    <3>4. CASE h # g /\ u # t
      BY <1>1, <1>10, <3>4 DEF IInv, Apart, FreeApart
    <3> QED BY <3>1, <3>2, <3>3, <3>4
  <2>3. ClaimsApart'
    BY <1>9, <1>10 DEF IInv, Apart, ClaimsApart
  <2>4. ClaimsChunksApart'
    BY <1>1, <1>9, <1>10 DEF IInv, Apart, ClaimsChunksApart, ClaimsApart
  <2>5. ClaimsObjectsApart'
    <3> SUFFICES ASSUME NEW u \in Threads, NEW h \in live', Claims(u)'
                 PROVE  ClaimHi(u)' <= First(h) \/ Past(h) <= ClaimLo(u)'
      BY DEF ClaimsObjectsApart, Past, First
    <3>1. u # t /\ Claims(u)
      BY <1>9, <1>10
    <3>2. CASE h = g
      <4>1. ClaimHi(u) <= ClaimLo(t) \/ ClaimHi(t) <= ClaimLo(u)
        BY <1>1, <3>1 DEF IInv, Apart, ClaimsApart
      <4>2. /\ ClaimLo(u) \in Nat /\ ClaimHi(u) \in Nat
            /\ ClaimLo(t) \in Nat /\ ClaimHi(t) \in Nat
        BY <1>1, <3>1, BoundTypes DEF IInv, Claims
      <4> QED BY <1>4, <1>8, <1>10, <3>1, <3>2, <4>1, <4>2, SMT
    <3>3. CASE h # g
      BY <1>1, <1>10, <3>1, <3>3 DEF IInv, Apart, ClaimsObjectsApart
    <3> QED BY <3>2, <3>3
  <2>6. ObjectsApart'
    BY <1>1, <1>14 DEF IInv, Apart, ObjectsApart, Past, First
  <2> QED BY <2>1, <2>2, <2>3, <2>4, <2>5, <2>6 DEF Apart
<1>16. Regions!Inside(g)
  BY <1>7, <1>8 DEF Regions!Inside
<1>17. \A h \in live : h # g => Regions!Disjoint(g, h)
  BY <1>14 DEF Regions!Disjoint, Regions!First, First, Past
<1> QED BY <1>1, <1>11, <1>12, <1>15, <1>16, <1>17 DEF IInv

(* reset() when nobody else is in the arena: what is left is elsewhere. *)
LEMMA ResetIInv ==
    ASSUME IInv, AllRulesKept, NEW t \in Threads, NEW a \in Arenas, Reset(t, a)
    PROVE  IInv'
<1>1. /\ UNCHANGED t_call
      /\ m_offset' = [m_offset EXCEPT ![a] = 0]
      /\ t_chunk' = [t_chunk EXCEPT ![t] = NoChunk]
      /\ live' = {g \in live : g.arena # a}
      /\ ~InCall(t) /\ Quiescent(t, a)
  BY DEF Reset, AllRulesKept, InCall
<1>2. NoChunk \in Chunk /\ NoChunk.base = 0 /\ 0 \in 0 .. MaxOffset
  BY BoundAssumption, SMT DEF NoChunk, Chunk
<1>3. TypeOK'
  BY <1>1, <1>2 DEF IInv, TypeOK
<1>4. \A u \in Threads : HasChunk(u)' =>
         t_chunk'[u] = t_chunk[u] /\ HasChunk(u) /\ ~ChunkIn(u, a)
  BY <1>1, <1>2 DEF IInv, TypeOK, HasChunk, Quiescent
<1>5. \A u \in Threads : InCall(u) => t_call[u].arena # a
  BY <1>1 DEF Quiescent, InCall
<1>6. \A b \in Arenas : b # a => m_offset'[b] = m_offset[b]
  BY <1>1 DEF IInv, TypeOK
<1>7. Home'
  <2>1. ChunksHome'
    <3> SUFFICES ASSUME NEW u \in Threads, HasChunk(u)'
                 PROVE  /\ t_chunk'[u].used <= t_chunk'[u].size
                        /\ 0 < t_chunk'[u].size
                        /\ \E b \in Arenas : /\ Base[b] <= Lo(u)'
                                             /\ Hi(u)' <= Base[b] + Cap[b]
                                             /\ Hi(u)' <= Base[b] + m_offset'[b]
      BY DEF ChunksHome
    <3>1. Lo(u)' = Lo(u) /\ Hi(u)' = Hi(u) /\ HasChunk(u) /\ ~ChunkIn(u, a)
      BY <1>4 DEF Lo, Hi
    <3>2. PICK b \in Arenas : /\ Base[b] <= Lo(u) /\ Hi(u) <= Base[b] + Cap[b]
                              /\ Hi(u) <= Base[b] + m_offset[b]
      BY <3>1 DEF IInv, Home, ChunksHome
    <3>3. 0 < t_chunk[u].size /\ t_chunk[u].used <= t_chunk[u].size
      BY <3>1 DEF IInv, Home, ChunksHome
    <3>4. Lo(u) < Hi(u) /\ Lo(u) \in Nat /\ Hi(u) \in Nat
      <4>1. t_chunk[u].base \in Nat /\ t_chunk[u].size \in Nat
        BY Types DEF IInv
      <4> QED BY <3>3, <4>1, SMT DEF Lo, Hi
    <3>5. b # a
      <4> SUFFICES ASSUME b = a PROVE FALSE
        OBVIOUS
      <4>1. Lo(u) < Base[a] + Cap[a]
        BY <3>2, <3>4, Buffers, SMT
      <4> QED BY <3>1, <3>2, <4>1 DEF ChunkIn, Lo
    <3> QED BY <1>4, <1>6, <3>1, <3>2, <3>3, <3>5
  <2>2. ClaimsHome'
    BY <1>1, <1>5, <1>6, Types DEF IInv, Home, ClaimsHome, InCall
  <2>3. ObjectsHome'
    BY <1>1, <1>6, Types DEF IInv, Home, ObjectsHome
  <2> QED BY <2>1, <2>2, <2>3 DEF Home
<1>8. Apart'
  BY <1>1, <1>4 DEF IInv, Apart, ChunksApart, FreeApart, ClaimsApart,
     ClaimsChunksApart, ClaimsObjectsApart, ObjectsApart, Claims, InCall,
     Lo, FreeLo, Hi, ClaimLo, ClaimHi
<1> QED BY <1>3, <1>7, <1>8 DEF IInv
-----------------------------------------------------------------------------
(* Every step keeps the invariant, and grants a region, takes an arena's     *)
(* regions back, or leaves the regions in use as they are.                   *)
LEMMA StepIInv ==
    ASSUME IInv, AllRulesKept, [Next]_vars
    PROVE  IInv' /\ [Regions!Next]_live
<1>1. CASE UNCHANGED vars
  <2>1. UNCHANGED <<m_offset, t_chunk, t_call, live>>
    BY <1>1 DEF vars
  <2>2. IInv'
    BY <2>1 DEF IInv, TypeOK, Home, ChunksHome, ClaimsHome, ObjectsHome,
       Apart, ChunksApart, FreeApart, ClaimsApart, ClaimsChunksApart,
       ClaimsObjectsApart, ObjectsApart, Claims, InCall, HasChunk,
       Lo, FreeLo, Hi, ClaimLo, ClaimHi
  <2> QED BY <2>1, <2>2
<1>2. ASSUME NEW g, live' = live \cup {g}, Regions!Inside(g),
             \A h \in live : h # g => Regions!Disjoint(g, h)
      PROVE  [Regions!Next]_live
  <2>1. CASE g \in live
    BY <1>2, <2>1
  <2>2. CASE g \notin live
    BY <1>2, <2>2 DEF Regions!Next, Regions!Grant
  <2> QED BY <2>1, <2>2
<1>3. ASSUME NEW t \in Threads, InitializeThread(t)
      PROVE  IInv' /\ [Regions!Next]_live
  BY <1>3, InitializeThreadIInv DEF InitializeThread
<1>4. ASSUME NEW t \in Threads, RefillFails(t)
      PROVE  IInv' /\ [Regions!Next]_live
  BY <1>4, RefillFailsIInv DEF RefillFails
<1>5. ASSUME NEW t \in Threads, RefillGrants(t)
      PROVE  IInv' /\ [Regions!Next]_live
  BY <1>2, <1>5, RefillGrantsIInv
<1>6. ASSUME NEW t \in Threads, NEW a \in Arenas, Reset(t, a)
      PROVE  IInv' /\ [Regions!Next]_live
  <2>1. Regions!TakeBack(a)
    BY <1>6 DEF Reset, Regions!TakeBack
  <2> QED BY <1>6, <2>1, ResetIInv DEF Regions!Next
<1>7. ASSUME NEW t \in Threads, NEW a \in Arenas, NEW req \in Requests,
             AllocateLocal(t, a, req)
      PROVE  IInv' /\ [Regions!Next]_live
  BY <1>2, <1>7, AllocateLocalIInv
<1>8. ASSUME NEW t \in Threads, NEW a \in Arenas, NEW req \in Requests,
             RefillClaim(t, a, req)
      PROVE  IInv' /\ [Regions!Next]_live
  BY <1>8, RefillClaimIInv DEF RefillClaim
<1> QED BY <1>1, <1>3, <1>4, <1>5, <1>6, <1>7, <1>8 DEF Next, Step

(* The invariant holds in every reachable state. *)
THEOREM Invariance == ASSUME AllRulesKept PROVE Spec => []IInv
<1>1. IInv /\ [Next]_vars => IInv'
  BY StepIInv
<1> QED BY InitIInv, <1>1, PTL DEF Spec

(* Every variable keeps its type. *)
THEOREM TypeCorrect == ASSUME AllRulesKept PROVE Spec => []TypeOK
<1>1. IInv => TypeOK
  BY DEF IInv
<1> QED BY Invariance, <1>1, PTL

(* No two objects in use overlap and every handle designates memory of the  *)
(* pool it carries, for any threads, arenas, sizes and interleavings.       *)
THEOREM ObjectsSafe ==
    ASSUME AllRulesKept PROVE Spec => [](LiveDisjoint /\ HandlesInPool)
<1>1. ASSUME IInv PROVE LiveDisjoint /\ HandlesInPool
  <2>1. LiveDisjoint
    BY <1>1 DEF IInv, Apart, ObjectsApart, LiveDisjoint, Regions!Disjoint,
                Regions!First, First, Past
  <2>2. HandlesInPool
    BY <1>1, Types, SMT DEF IInv, Home, ObjectsHome, HandlesInPool, Regions!Inside
  <2> QED BY <2>1, <2>2
<1> QED BY Invariance, <1>1, PTL

(* With callers that keep the three rules the two-level arena implements the *)
(* region allocator: a step grants one fresh region or takes an arena back.  *)
THEOREM ArenaImplementsRegions ==
    ASSUME AllRulesKept PROVE Spec => ImplementsRegions
<1>1. Init => Regions!Init
  BY DEF Init, Regions!Init
<1>2. IInv /\ [Next]_vars => [Regions!Next]_live
  BY StepIInv
<1> QED BY Invariance, <1>1, <1>2, PTL DEF Spec, ImplementsRegions, Regions!Spec
-----------------------------------------------------------------------------
\* x is a multiple of every alignment that callers ask for, and callers who
\* ask for sizes that keep each other's alignment, in arenas and chunks that do.
Aligns(x) == \A r \in Requests : x % r.align = 0
SizesKeepAlignment ==
    /\ \A a \in Arenas : Aligns(Base[a])
    /\ Aligns(IndexMod) /\ Aligns(ChunkMin) /\ Aligns(ChunkMax)
    /\ \A r \in Requests : Aligns(Need(r))

\* Whatever the arena counts or keeps is then a multiple of every alignment.
AllAligned ==
    /\ \A a \in Arenas : Aligns(m_offset[a])
    /\ \A t \in Threads : Aligns(t_chunk[t].base) /\ Aligns(t_chunk[t].used)
    /\ \A t \in Threads : InCall(t) => Aligns(t_call[t].off)
    /\ \A g \in live : Aligns(First(g)) /\ \E r \in Requests : g.align = r.align
AlignIInv == TypeOK /\ AllAligned

(* Multiples add up, and stay multiples when they wrap.                      *)
LEMMA AlignsSum ==
    ASSUME NEW x \in Int, NEW y \in Int, Aligns(x), Aligns(y)
    PROVE  Aligns(x + y) /\ Aligns(x - y)
<1> SUFFICES ASSUME NEW r \in Requests
             PROVE  (x + y) % r.align = 0 /\ (x - y) % r.align = 0
  BY DEF Aligns
<1> DEFINE k == r.align
<1>1. k \in Nat \ {0} /\ x % k = 0 /\ y % k = 0
  BY RequestAssumption DEF Aligns
<1> HIDE DEF k
<1>2. PICK q \in Int : y = k * q + (y % k)
  BY <1>1, Division
<1>3. y = k * q /\ -y = k * (-q) /\ -q \in Int
  BY <1>1, <1>2, SMT
<1>4. (x + k * q) % k = 0 /\ (x + k * (-q)) % k = 0
  BY <1>1, <1>3, RemainderShift
<1>5. x + y = x + k * q /\ x - y = x + k * (-q)
  <2>1. x - y = x + (-y)
    BY SMT
  <2> QED BY <1>3, <2>1
<1> QED BY <1>4, <1>5 DEF k

(* A handle's index is cut to 32 bits, which keeps what it is a multiple of. *)
LEMMA HandleAligned ==
    ASSUME NEW a \in Arenas, NEW req \in Requests, NEW ptr \in Nat,
           SizesKeepAlignment, Aligns(ptr)
    PROVE  LET g == HandleFor(a, ptr, req)
           IN  g \in Region /\ Aligns(First(g)) /\ g.align = req.align
<1> DEFINE g == HandleFor(a, ptr, req)
           d == ptr - Base[a]
<1>1. Base[a] \in Nat /\ d \in Int /\ IndexMod \in Nat \ {0}
  BY Buffers, SMT
<1>2. Aligns(d) /\ Aligns(Base[a])
  <2>1. Aligns(Base[a]) /\ ptr \in Int /\ Base[a] \in Int
    BY <1>1 DEF SizesKeepAlignment
  <2> QED BY <2>1, AlignsSum, Zenon
<1> HIDE DEF d
<1>3. d % IndexMod \in 0 .. IndexMod - 1
  BY <1>1, RemainderRange
<1>4. Aligns(d % IndexMod)
  <2> SUFFICES ASSUME NEW r \in Requests PROVE (d % IndexMod) % r.align = 0
    BY DEF Aligns
  <2>1. r.align \in Nat \ {0} /\ IndexMod % r.align = 0 /\ d % r.align = 0
    BY <1>2, RequestAssumption DEF SizesKeepAlignment, Aligns
  <2> QED BY <1>1, <2>1, RemainderOfRemainder
<1>5. Aligns(Base[a] + (d % IndexMod))
  <2>1. d % IndexMod \in Int /\ Base[a] \in Int
    BY <1>1, <1>3, SMT
  <2> QED BY <1>2, <1>4, <2>1, AlignsSum, Zenon
<1>6. /\ g.arena = a /\ g.index = d % IndexMod /\ g.align = req.align
      /\ req.size \in Nat /\ req.align \in Nat
  BY RequestAssumption DEF HandleFor, d
<1>7. g \in Region
  BY <1>3, <1>6 DEF HandleFor, Region, d
<1>8. First(g) = Base[a] + (d % IndexMod)
  BY <1>6 DEF First
<1> HIDE DEF g
<1>9. g \in Region /\ Aligns(First(g)) /\ g.align = req.align
  BY <1>5, <1>6, <1>7, <1>8
<1> QED BY <1>9 DEF g

(* A chunk's size is a multiple of every alignment.                          *)
LEMMA ChunkAligned ==
    ASSUME NEW req \in Requests, SizesKeepAlignment
    PROVE  Aligns(ChunkFor(Need(req)))
<1>1. Need(req) \in Int /\ Aligns(Need(req))
  BY NeedFits DEF SizesKeepAlignment
<1>2. Aligns(Need(req) + Need(req)) /\ 2 * Need(req) = Need(req) + Need(req)
  <2>1. Aligns(Need(req) + Need(req))
    BY <1>1, AlignsSum, Zenon
  <2> QED BY <1>1, <2>1, SMT
<1> QED BY <1>2 DEF ChunkFor, SizesKeepAlignment

(* Every step keeps it: what is added to a multiple is a multiple.           *)
LEMMA StepAligned ==
    ASSUME AlignIInv, SizesKeepAlignment, [Next]_vars
    PROVE  AlignIInv'
<1> USE DEF AlignIInv
<1>0. Aligns(0)
  <2>1. \A k \in Nat \ {0} : 0 % k = 0
    BY SMT
  <2> QED BY <2>1, RequestAssumption DEF Aligns
<1>1. CASE UNCHANGED vars
  BY <1>1 DEF vars, TypeOK, AllAligned, InCall
<1>2. ASSUME NEW t \in Threads, InitializeThread(t) PROVE AlignIInv'
  <2>1. /\ t_chunk' \in [Threads -> Chunk]
        /\ \A u \in Threads : t_chunk'[u] = t_chunk[u] \/ t_chunk'[u] = NoChunk
    BY <1>2 DEF InitializeThread, TypeOK, NoChunk, Chunk
  <2> QED BY <1>0, <1>2, <2>1 DEF InitializeThread, TypeOK, AllAligned, InCall, NoChunk
<1>3. ASSUME NEW t \in Threads, RefillFails(t) PROVE AlignIInv'
  BY <1>3 DEF RefillFails, TypeOK, AllAligned, InCall
<1>4. ASSUME NEW t \in Threads, RefillGrants(t) PROVE AlignIInv'
  <2> DEFINE c == t_call[t]
             base == Base[c.arena] + c.off
             g == HandleFor(c.arena, base, c.req)
             k == [base |-> base, used |-> Need(c.req), size |-> c.size]
  <2>1. /\ t_chunk' = [t_chunk EXCEPT ![t] = k]
        /\ live' = live \cup {g} /\ m_offset' = m_offset
        /\ t_call' = [t_call EXCEPT ![t] = Idle] /\ InCall(t)
    BY <1>4 DEF RefillGrants, InCall
  <2>2. /\ c.arena \in Arenas /\ c.req \in Requests /\ c.off \in Nat /\ c.size \in Nat
        /\ Base[c.arena] \in Nat /\ base \in Nat /\ Need(c.req) \in Nat
    BY <2>1, Types, Buffers, NeedFits
  <2>3. Aligns(base) /\ Aligns(Need(c.req))
    <3>1. /\ Aligns(Base[c.arena]) /\ Aligns(c.off) /\ Aligns(Need(c.req))
          /\ Base[c.arena] \in Int /\ c.off \in Int
      BY <2>1, <2>2 DEF AllAligned, SizesKeepAlignment
    <3> QED BY <3>1, AlignsSum, Zenon
  <2>4. g \in Region /\ Aligns(First(g)) /\ g.align = c.req.align
    BY <2>2, <2>3, HandleAligned
  <2>5. k \in Chunk /\ k.base = base /\ k.used = Need(c.req)
    BY <2>2 DEF Chunk
  <2> HIDE DEF base, g, k
  <2>6. /\ t_chunk' \in [Threads -> Chunk]
        /\ \A u \in Threads : t_chunk'[u] = t_chunk[u] \/ t_chunk'[u] = k
        /\ t_call' \in [Threads -> Call \cup {Idle}]
        /\ \A u \in Threads : t_call'[u] = t_call[u] \/ t_call'[u] = Idle
    BY <2>1, <2>5 DEF TypeOK
  <2>7. TypeOK'
    BY <2>1, <2>4, <2>6 DEF TypeOK
  <2> QED BY <2>1, <2>2, <2>3, <2>4, <2>5, <2>6, <2>7 DEF AllAligned, InCall
<1>5. ASSUME NEW t \in Threads, NEW a \in Arenas, Reset(t, a) PROVE AlignIInv'
  <2>1. /\ t_chunk' \in [Threads -> Chunk]
        /\ \A u \in Threads : t_chunk'[u] = t_chunk[u] \/ t_chunk'[u] = NoChunk
    BY <1>5 DEF Reset, TypeOK, NoChunk, Chunk
  <2>2. /\ m_offset' \in [Arenas -> 0 .. MaxOffset]
        /\ \A b \in Arenas : m_offset'[b] = m_offset[b] \/ m_offset'[b] = 0
    <3>1. 0 \in 0 .. MaxOffset
      BY BoundAssumption, SMT
    <3> QED BY <1>5, <3>1 DEF Reset, TypeOK
  <2>3. live' \subseteq live /\ t_call' = t_call
    BY <1>5 DEF Reset
  <2> QED BY <1>0, <2>1, <2>2, <2>3 DEF TypeOK, AllAligned, InCall, NoChunk
<1>6. ASSUME NEW t \in Threads, NEW a \in Arenas, NEW req \in Requests,
             AllocateLocal(t, a, req)
      PROVE  AlignIInv'
  <2> DEFINE n == Need(req)
             ptr == t_chunk[t].base + t_chunk[t].used
             g == HandleFor(a, ptr, req)
             used == t_chunk[t].used + n
  <2>1. /\ t_chunk' = [t_chunk EXCEPT ![t].used = @ + n]
        /\ live' = live \cup {g} /\ UNCHANGED <<m_offset, t_call>>
    BY <1>6 DEF AllocateLocal
  <2>2. /\ t_chunk[t].base \in Nat /\ t_chunk[t].used \in Nat
        /\ t_chunk[t].size \in Nat /\ t_chunk[t] \in Chunk /\ n \in Nat
    BY Types, NeedFits DEF TypeOK
  <2>3. Aligns(t_chunk[t].base) /\ Aligns(t_chunk[t].used) /\ Aligns(n)
    BY DEF AllAligned, SizesKeepAlignment
  <2> HIDE DEF n
  <2>4. ptr \in Nat /\ used \in Nat /\ Aligns(ptr) /\ Aligns(used)
    <3>1. /\ t_chunk[t].base \in Int /\ t_chunk[t].used \in Int /\ n \in Int
          /\ ptr \in Nat /\ used \in Nat
      BY <2>2, SMT
    <3> QED BY <2>3, <3>1, AlignsSum, Zenon
  <2>5. g \in Region /\ Aligns(First(g)) /\ g.align = req.align
    BY <2>4, HandleAligned
  <2> HIDE DEF g
  <2>6. /\ t_chunk' \in [Threads -> Chunk]
        /\ \A u \in Threads \ {t} : t_chunk'[u] = t_chunk[u]
        /\ t_chunk'[t].base = t_chunk[t].base /\ t_chunk'[t].used = used
    BY <2>1, <2>2, <2>4 DEF TypeOK, Chunk
  <2>7. TypeOK'
    BY <2>1, <2>5, <2>6 DEF TypeOK
  <2> QED BY <2>1, <2>3, <2>4, <2>5, <2>6, <2>7 DEF AllAligned, InCall
<1>7. ASSUME NEW t \in Threads, NEW a \in Arenas, NEW req \in Requests,
             RefillClaim(t, a, req)
      PROVE  AlignIInv'
  <2> DEFINE n == ChunkFor(Need(req))
             c == [pc |-> "refill", arena |-> a, req |-> req,
                   off |-> m_offset[a], size |-> n]
             sum == m_offset[a] + n
  <2>1. /\ t_call' = [t_call EXCEPT ![t] = c]
        /\ m_offset' = [m_offset EXCEPT ![a] = @ + n]
        /\ m_offset[a] + n <= MaxOffset /\ UNCHANGED <<t_chunk, live>>
    BY <1>7 DEF RefillClaim
  <2>2. m_offset[a] \in Nat /\ n \in Nat /\ Aligns(m_offset[a]) /\ Aligns(n)
    BY Types, NeedFits, ChunkAligned DEF AllAligned
  <2> HIDE DEF n
  <2>3. sum \in 0 .. MaxOffset /\ Aligns(sum)
    <3>1. sum \in 0 .. MaxOffset /\ m_offset[a] \in Int /\ n \in Int
      BY <2>1, <2>2, BoundAssumption, SMT
    <3> QED BY <2>2, <3>1, AlignsSum, Zenon
  <2>4. c \in Call /\ c.off = m_offset[a]
    BY <2>2 DEF Call
  <2> HIDE DEF c
  <2>5. /\ t_call' \in [Threads -> Call \cup {Idle}]
        /\ \A u \in Threads : t_call'[u] = t_call[u] \/ t_call'[u] = c
    BY <2>1, <2>4 DEF TypeOK
  <2>6. /\ m_offset' \in [Arenas -> 0 .. MaxOffset]
        /\ \A b \in Arenas : m_offset'[b] = m_offset[b] \/ m_offset'[b] = sum
    BY <2>1, <2>3 DEF TypeOK
  <2> QED BY <2>1, <2>2, <2>3, <2>4, <2>5, <2>6 DEF TypeOK, AllAligned, InCall
<1> QED BY <1>1, <1>2, <1>3, <1>4, <1>5, <1>6, <1>7 DEF Next, Step

(* Objects are aligned as their types ask although the pointer is not        *)
(* rounded, if the sizes callers ask for keep each other's alignment; no     *)
(* rule of the callers is needed for it.                                     *)
THEOREM ObjectsAligned ==
    ASSUME SizesKeepAlignment PROVE Spec => []Aligned
<1>1. Init => AlignIInv
  <2> SUFFICES ASSUME Init PROVE AlignIInv
    OBVIOUS
  <2>1. TypeOK
    BY InitIInv DEF IInv
  <2>2. Aligns(0)
    <3>1. \A k \in Nat \ {0} : 0 % k = 0
      BY SMT
    <3> QED BY <3>1, RequestAssumption DEF Aligns
  <2> QED BY <2>1, <2>2 DEF Init, AlignIInv, AllAligned, NoChunk, InCall
<1>2. AlignIInv /\ [Next]_vars => AlignIInv'
  BY StepAligned
<1>3. AlignIInv => Aligned
  BY DEF AlignIInv, AllAligned, Aligned, Aligns, First, Regions!First
<1> QED BY <1>1, <1>2, <1>3, PTL DEF Spec
-----------------------------------------------------------------------------
\* Every thread is in one call at most.
CallPerThread == t_call = [t \in Threads |-> t_call[t]]

(* What a thread that calls allocate() and goes to the arena has found.      *)
LEMMA OnlyRefillsCall ==
    ASSUME CallPerThread, [Next]_vars, NEW t \in Threads, t_call[t] = Idle, t_call'[t] # Idle
    PROVE  /\ t_call'[t].req \in Requests
           /\ ~HasSpace(t_chunk[t], Need(t_call'[t].req))
<1>1. PICK u \in Threads : Step(u)
  BY DEF Next, vars
<1>2. \A v : t_call' = [t_call EXCEPT ![u] = v] => t_call'[t] = IF t = u THEN v ELSE t_call[t]
  BY DEF CallPerThread
<1>3. ~InitializeThread(u) /\ ~RefillFails(u) /\ ~RefillGrants(u)
      /\ \A a \in Arenas : ~Reset(u, a) /\ \A req \in Requests : ~AllocateLocal(u, a, req)
  BY <1>2 DEF InitializeThread, RefillFails, RefillGrants, Reset, AllocateLocal
<1>4. PICK a \in Arenas, req \in Requests : RefillClaim(u, a, req)
  BY <1>1, <1>3 DEF Step
<1>5. /\ t_call'[t] = [pc |-> "refill", arena |-> a, req |-> req,
                       off |-> m_offset[a], size |-> ChunkFor(Need(req))]
      /\ t = u /\ ~HasSpace(t_chunk[u], Need(req))
  BY <1>2, <1>4 DEF RefillClaim
<1>6. t_call'[t].req = req
  BY <1>5
<1> QED BY <1>5, <1>6

(* Right after the object that a refill gave it, a thread that asks for one  *)
(* of the same size finds room in its chunk: chunk_for makes the chunk of two *)
(* objects, but where the largest or the smallest chunk is not.              *)
THEOREM RefillsServeTwo == Spec => RefillAmortised
<1>1. Init => CallPerThread
  BY DEF Init, CallPerThread
<1>2. ASSUME CallPerThread, [Next]_vars PROVE CallPerThread'
  <2>1. CASE UNCHANGED vars
    BY <1>2, <2>1 DEF vars, CallPerThread
  <2>2. ASSUME NEW t \in Threads, Step(t) PROVE CallPerThread'
    BY <1>2, <2>2 DEF Step, InitializeThread, RefillFails, RefillGrants, Reset,
                      AllocateLocal, RefillClaim, CallPerThread
  <2> QED BY <1>2, <2>1, <2>2 DEF Next
<1>3. ASSUME CallPerThread, [Next]_vars
      PROVE  [\A t \in Threads :
                LET need == Need(t_call'[t].req)
                IN  /\ t_call[t] = Idle /\ t_call'[t] # Idle
                    /\ t_chunk[t].base # 0 /\ t_chunk[t].used = need
                    /\ t_chunk[t].size = ChunkFor(need)
                    => \/ 2 * need > ChunkMax
                       \/ need <= ChunkMin /\ 2 * need > ChunkMin]_vars
  <2> SUFFICES ASSUME NEW t \in Threads,
                      t_call[t] = Idle, t_call'[t] # Idle,
                      t_chunk[t].base # 0, t_chunk[t].used = Need(t_call'[t].req),
                      t_chunk[t].size = ChunkFor(Need(t_call'[t].req))
               PROVE  LET need == Need(t_call'[t].req)
                      IN  2 * need > ChunkMax \/ (need <= ChunkMin /\ 2 * need > ChunkMin)
    OBVIOUS
  <2> DEFINE need == Need(t_call'[t].req)
  <2>1. t_call'[t].req \in Requests /\ ~HasSpace(t_chunk[t], need)
    BY <1>3, OnlyRefillsCall
  <2>2. need \in Nat
    BY <2>1, NeedFits
  <2>3. ~(need + need <= ChunkFor(need))
    BY <2>1 DEF HasSpace
  <2> HIDE DEF need
  <2>4. 2 * need > ChunkMax \/ (need <= ChunkMin /\ 2 * need > ChunkMin)
    BY <2>2, <2>3, ChunkAssumption DEF ChunkFor
  <2> QED BY <2>4 DEF need
<1> QED BY <1>1, <1>2, <1>3, PTL DEF Spec, RefillAmortised
=============================================================================
