--------------------------- MODULE SessionProofs ---------------------------
(***************************************************************************)
(* Theorems about Session: what the device does with the stream of frames, *)
(* and the phone with the stream of replies, for all keys and cipher texts *)
(* of any length, however the streams are cut, overrun, are lost or meet a *)
(* device that has been reset.                                             *)
(***************************************************************************)
EXTENDS Session, SequenceTheorems, FiniteSetTheorems, WellFoundedInduction, TLAPS

-----------------------------------------------------------------------------
(* The parts of the inductive invariant.                                   *)

\* The frames the phone sends.
Kinds == {<<1, AliceKey>>, <<20, CipherText>>, <<30, <<1>>>>}

Bytes   == [v : Values, n : Nat, at : Nat]
Secrets == {NoSecret} \cup {AliceKey} \X Seq(Values)
Presses == [fc : {1, 20, 30}, data : Seq(Values), settled : BOOLEAN, secret : Secrets]
Answers == [fc : {1, 20}, data : Seq(Values)]

\* Types of the variables that TypeOK leaves out.
HistoryOK ==
  /\ toDevice \in Seq(Bytes) /\ toPhone \in Seq(Bytes) /\ buffer \in Seq(Bytes)
  /\ inbox \in Seq(Nat)
  /\ frames \in Seq(Presses) /\ Len(frames) <= MaxPresses
  /\ \A n \in 1 .. Len(frames) : <<frames[n].fc, frames[n].data>> \in Kinds
  /\ replies \in Seq(Answers)
  /\ dispatched \in Seq(1 .. Len(frames))
  /\ cut.device \subseteq 1 .. Len(frames)
  /\ cut \in [device : SUBSET Nat, phone : SUBSET Nat]

\* The bytes on their way to the device are the rest of the stream of frames.
Follows(b, c) ==
  IF b.at < Len(Message(b.n)) THEN c.n = b.n /\ c.at = b.at + 1
                              ELSE c.n = b.n + 1 /\ c.at = 1
OfFrame(b) == /\ b.n \in 1 .. Len(frames) /\ b.at \in 1 .. Len(Message(b.n))
              /\ b.v = Message(b.n)[b.at]
StreamOK ==
  /\ \A i \in 1 .. Len(toDevice) : OfFrame(toDevice[i])
  /\ \A i \in 1 .. Len(toDevice) - 1 : Follows(toDevice[i], toDevice[i + 1])
  /\ toDevice # <<>> =>
       LET b == toDevice[Len(toDevice)]
       IN  b.n = Len(frames) /\ b.at = Len(Message(b.n))

\* What the automaton holds before place at of frame f.
Holds(p, f, at) ==
  LET l == Len(f.data)
      HasHeader == p.fc = f.fc /\ p.length = l
      HasData(k) == \A i \in 1 .. k : p.data[i] = f.data[i]
  IN  \/ at = 2 /\ p.state = "head_state1"
      \/ at = 3 /\ p.state = "function_state1"
      \/ at = 4 /\ p.state = "function_state2" /\ p.hi = f.fc \div 256
      \/ at = 5 /\ p.state = "date_length1" /\ p.fc = f.fc
      \/ at = 6 /\ p.state = "data_length2" /\ p.fc = f.fc /\ p.hi = l \div 256
      \/ /\ at \in 7 .. 6 + l /\ p.state = "data_receive" /\ p.index = at - 7
         /\ HasHeader /\ HasData(at - 7)
      \/ at = 7 + l /\ p.state = "end1" /\ HasHeader /\ HasData(l)
      \/ at = 8 + l /\ p.state = "end2" /\ HasHeader /\ HasData(l)

\* Before byte b the automaton is inside a frame, has met a single byte 07 that
\* starts none, or goes on with a frame that was cut.
Plain(b) == ~MarkBehind(Message(b.n), b.at)
Inside(p, b) == p.src = {b.n} /\ b.at > 1 /\ Holds(p, frames[b.n], b.at)
Single(p, b) == /\ p.state = "head_state1" /\ b.n \in p.src
                /\ b.at > 2 /\ b.v # 65 /\ Plain(b)
Mixed(p) == p.src \cap cut.device # {}

\* Between frames the next byte starts one, or no mark is left in its frame, or
\* the frame counts as cut.
Safe(b) == b.at = 1 \/ Plain(b) \/ b.n \in cut.device
Between(p, k) == p.state = "none" /\ (k < Len(toDevice) => Safe(toDevice[k + 1]))

\* The automaton p has taken k bytes of toDevice.
Where(p, k) == \/ Between(p, k) \/ Mixed(p)
               \/ /\ k < Len(toDevice)
                  /\ Inside(p, toDevice[k + 1]) \/ Single(p, toDevice[k + 1])
IndexOK(p) == p.state # "data_receive" => p.index = 0

\* A frame that was dispatched does not come again; if there are bytes left of
\* it the automaton is between frames, or goes on with one that was cut.
Passing(p, b) == b.at > 1 /\ (p.state = "none" \/ Single(p, b) \/ Mixed(p))
DoneOK(p, k) ==
  k < Len(toDevice) =>
    LET b == toDevice[k + 1]
    IN  \A m \in dDone : m < b.n \/ (m = b.n /\ Passing(p, b))

DeviceOK == Where(dParser, 0) /\ IndexOK(dParser) /\ DoneOK(dParser, 0)

\* The device writes behind its array only when a frame was cut.
DeviceInside == dpc = "undefined" => cut.device # {}

IInv == TypeOK /\ HistoryOK /\ StreamOK /\ DeviceOK /\ DeviceInside

-----------------------------------------------------------------------------
(* Frames and bytes.                                                       *)

LEMMA Concatenated ==
  ASSUME NEW s \in Seq(Nat), NEW t \in Seq(Nat)
  PROVE  /\ s \o t \in Seq(Nat) /\ Len(s \o t) = Len(s) + Len(t)
         /\ \A i \in 1 .. Len(s) : (s \o t)[i] = s[i]
         /\ \A i \in 1 .. Len(t) : (s \o t)[Len(s) + i] = t[i]
  OBVIOUS

LEMMA FrameIs ==
  ASSUME NEW fc \in Nat, NEW d \in Seq(Nat)
  PROVE  LET s == Frame(fc, d)
         IN  /\ s \in Seq(Nat) /\ Len(s) = Len(d) + 8 /\ Len(d) \in Nat
             /\ s[1] = 7 /\ s[2] = 65 /\ s[3] = fc \div 256 /\ s[4] = fc % 256
             /\ s[5] = Len(d) \div 256 /\ s[6] = Len(d) % 256
             /\ \A i \in 1 .. Len(d) : s[6 + i] = d[i]
             /\ s[7 + Len(d)] = 10 /\ s[8 + Len(d)] = 13
<1>. DEFINE h == <<7, 65, fc \div 256, fc % 256, Len(d) \div 256, Len(d) % 256>>
            e == <<10, 13>>
            l == Len(d)
<1>1. /\ h \in Seq(Nat) /\ Len(h) = 6 /\ e \in Seq(Nat) /\ Len(e) = 2 /\ l \in Nat
      /\ h[1] = 7 /\ h[2] = 65 /\ h[3] = fc \div 256 /\ h[4] = fc % 256
      /\ h[5] = l \div 256 /\ h[6] = l % 256 /\ e[1] = 10 /\ e[2] = 13
  <2>1. fc \div 256 \in Nat /\ fc % 256 \in Nat /\ l \in Nat
    OBVIOUS
  <2>2. l \div 256 \in Nat /\ l % 256 \in Nat
    <3>. HIDE DEF l
    <3>. QED  BY <2>1
  <2>. QED  BY <2>1, <2>2
<1>2. Frame(fc, d) = h \o d \o e
  BY DEF Frame
<1>3. l = Len(d)
  OBVIOUS
<1>. DEFINE q == h \o d
<1>. HIDE DEF h, e, l, q
<1>4. /\ q \in Seq(Nat) /\ Len(q) = 6 + l
      /\ \A i \in 1 .. 6 : q[i] = h[i]
      /\ \A i \in 1 .. l : q[6 + i] = d[i]
  <2>1. h \in Seq(Nat) /\ Len(h) = 6 /\ l \in Nat /\ 6 \in Nat /\ Len(d) = l
    BY <1>1, <1>3, Zenon
  <2>2. /\ q \in Seq(Nat) /\ Len(q) = Len(h) + Len(d)
        /\ \A i \in 1 .. Len(h) : q[i] = h[i]
        /\ \A i \in 1 .. Len(d) : q[Len(h) + i] = d[i]
    BY <2>1, Concatenated, Zenon DEF q
  <2>. QED  BY <2>1, <2>2, Zenon
<1>5. /\ q \o e \in Seq(Nat) /\ Len(q \o e) = 6 + l + 2
      /\ \A i \in 1 .. 6 + l : (q \o e)[i] = q[i]
      /\ \A i \in 1 .. 2 : (q \o e)[6 + l + i] = e[i]
  <2>1. 6 + l \in Nat
    BY <1>1
  <2>2. e \in Seq(Nat) /\ Len(e) = 2 /\ 2 \in Nat
    BY <1>1, Zenon
  <2>3. /\ q \o e \in Seq(Nat) /\ Len(q \o e) = Len(q) + Len(e)
        /\ \A i \in 1 .. Len(q) : (q \o e)[i] = q[i]
        /\ \A i \in 1 .. Len(e) : (q \o e)[Len(q) + i] = e[i]
    BY <1>4, <2>2, Concatenated, Zenon
  <2>. QED  BY <1>4, <2>2, <2>3, Zenon
<1>. DEFINE s == Frame(fc, d)
<1>6. s = q \o e
  BY <1>2 DEF q
<1>. HIDE DEF s
<1>7. s \in Seq(Nat) /\ Len(s) = l + 8
  BY <1>1, <1>5, <1>6
<1>8. \A i \in 1 .. 6 : s[i] = h[i]
  <2>. TAKE i \in 1 .. 6
  <2>1. i \in 1 .. 6 + l
    BY <1>1
  <2>. QED  BY <1>4, <1>5, <1>6, <2>1, Zenon
<1>9. \A i \in 1 .. l : s[6 + i] = d[i]
  BY <1>1, <1>4, <1>5, <1>6, SMTT(30)
<1>10. s[7 + l] = 10 /\ s[8 + l] = 13
  <2>1. 7 + l = 6 + l + 1 /\ 8 + l = 6 + l + 2
    BY <1>1
  <2>2. e[1] = 10 /\ e[2] = 13 /\ 1 \in 1 .. 2 /\ 2 \in 1 .. 2
    BY <1>1
  <2>. QED  BY <1>5, <1>6, <2>1, <2>2, Zenon
<1>11. /\ s[1] = 7 /\ s[2] = 65 /\ s[3] = fc \div 256 /\ s[4] = fc % 256
       /\ s[5] = l \div 256 /\ s[6] = l % 256
  BY <1>1, <1>8
<1>. QED  BY <1>1, <1>3, <1>7, <1>9, <1>10, <1>11 DEF s

-----------------------------------------------------------------------------
(* Loops.                                                                  *)

\* A set of natural numbers has a least one.
LEMMA LeastNumber ==
  ASSUME NEW T \in SUBSET Nat, T # {}
  PROVE  \E n \in T : \A k \in T : n <= k
<1>. DEFINE R == OpToRel(<, Nat)
<1>1. IsWellFoundedOn(R, Nat)
  BY NatLessThanWellFounded
<1>2. \A h \in Nat, k \in Nat : <<h, k>> \in R <=> h < k
  BY DEF OpToRel
<1>. HIDE DEF R
<1>3. PICK n \in T : \A k \in T : ~(<<k, n>> \in R)
  BY <1>1, WFMin
<1>4. \A k \in T : k \in Nat
  OBVIOUS
<1>5. \A k \in T : ~(k < n)
  BY <1>2, <1>3, <1>4, Zenon
<1>. QED BY <1>4, <1>5

\* A loop over the set S ends with base outside N, and goes on with next in N,
\* where a measure mu decreases.  There is a function that says where it ends.
Loop(S, V, N, mu, base, next) ==
  /\ N \subseteq S /\ mu \in [S -> Nat]
  /\ base \in [S -> V] /\ next \in [N -> S]
  /\ \A x \in N : mu[next[x]] < mu[x]
Ending(f, S, V, N, base, next) ==
  /\ f \in [S -> V]
  /\ \A x \in S : f[x] = IF x \in N THEN f[next[x]] ELSE base[x]

LEMMA LoopsEnd ==
  ASSUME NEW S, NEW V, NEW N, NEW mu, NEW base, NEW next,
         Loop(S, V, N, mu, base, next)
  PROVE  \E f : Ending(f, S, V, N, base, next)
<1>. /\ N \in SUBSET S /\ mu \in [S -> Nat]
     /\ base \in [S -> V] /\ next \in [N -> S]
     /\ \A x \in N : mu[next[x]] < mu[x]
  BY DEF Loop
<1>. DEFINE B(m, f) == \A x \in S : mu[x] < m =>
                         f[x] = IF x \in N THEN f[next[x]] ELSE base[x]
            M == {m \in Nat : \E f \in [S -> V] : B(m, f)}
<1>1. 0 \in M
  <2>1. \A x \in S : ~(mu[x] < 0)
    OBVIOUS
  <2>. QED  BY <2>1
<1>2. ASSUME NEW m \in M PROVE m + 1 \in M
  <2>1. PICK f \in [S -> V] : B(m, f)
    OBVIOUS
  <2>. DEFINE g == [x \in S |-> IF x \in N THEN f[next[x]] ELSE base[x]]
  <2>2. g \in [S -> V]
    OBVIOUS
  <2>3. ASSUME NEW x \in S, mu[x] < m + 1
        PROVE  g[x] = IF x \in N THEN g[next[x]] ELSE base[x]
    <3>1. CASE x \in N
      <4>1. next[x] \in S /\ mu[next[x]] < m
        BY <2>3, <3>1
      <4>2. f[next[x]] = g[next[x]]
        BY <2>1, <4>1
      <4>. QED  BY <3>1, <4>2
    <3>. QED  BY <3>1
  <2>4. B(m + 1, g)
    BY <2>3
  <2>5. m + 1 \in Nat
    OBVIOUS
  <2>. HIDE DEF B, g
  <2>. QED  BY <2>2, <2>4, <2>5
<1>3. M = Nat
  <2>. SUFFICES ASSUME Nat \ M # {} PROVE FALSE
    OBVIOUS
  <2>1. PICK n \in Nat \ M : \A k \in Nat \ M : n <= k
    BY LeastNumber
  <2>2. n # 0 /\ n - 1 \in Nat /\ n - 1 \in M /\ (n - 1) + 1 = n
    <3>1. n # 0
      BY <1>1, <2>1
    <3>2. n \in Nat /\ n - 1 \in Nat /\ n - 1 < n /\ (n - 1) + 1 = n
      BY <3>1, <2>1
    <3>. HIDE DEF M
    <3>. QED  BY <2>1, <3>1, <3>2
  <2>. HIDE DEF M
  <2>3. (n - 1) + 1 \in M
    BY <1>2, <2>2
  <2>. QED  BY <2>1, <2>2, <2>3
<1>4. ASSUME NEW m \in Nat, NEW k \in Nat, NEW f, NEW g, B(m, f), B(k, g)
      PROVE  \A x \in S : mu[x] < m /\ mu[x] < k => f[x] = g[x]
  <2>. DEFINE Bad == {n \in Nat : \E x \in S : mu[x] = n /\ n < m /\ n < k /\ f[x] # g[x]}
  <2>. SUFFICES ASSUME Bad # {} PROVE FALSE
    OBVIOUS
  <2>1. PICK n \in Bad : \A h \in Bad : n <= h
    BY LeastNumber
  <2>2. PICK x \in S : mu[x] = n /\ n < m /\ n < k /\ f[x] # g[x]
    BY <2>1
  <2>3. x \in N
    BY <1>4, <2>2
  <2>4. next[x] \in S /\ mu[next[x]] \in Nat /\ mu[next[x]] < n
    BY <2>2, <2>3
  <2>5. f[next[x]] = g[next[x]]
    BY <2>1, <2>2, <2>4
  <2>. QED  BY <1>4, <2>2, <2>3, <2>5
<1>. DEFINE G(m) == CHOOSE f \in [S -> V] : B(m, f)
            h == [x \in S |-> G(mu[x] + 1)[x]]
<1>5. \A m \in Nat : G(m) \in [S -> V] /\ B(m, G(m))
  <2>. SUFFICES ASSUME NEW m \in Nat PROVE G(m) \in [S -> V] /\ B(m, G(m))
    OBVIOUS
  <2>1. \E f \in [S -> V] : B(m, f)
    BY <1>3
  <2>. HIDE DEF B
  <2>. QED  BY <2>1
<1>. HIDE DEF G
<1>6. h \in [S -> V]
  BY <1>5
<1>7. ASSUME NEW x \in S
      PROVE  h[x] = IF x \in N THEN h[next[x]] ELSE base[x]
  <2>1. mu[x] \in Nat /\ mu[x] + 1 \in Nat /\ B(mu[x] + 1, G(mu[x] + 1))
    <3>. HIDE DEF B
    <3>. QED BY <1>5
  <2>2. h[x] = IF x \in N THEN G(mu[x] + 1)[next[x]] ELSE base[x]
    BY <2>1
  <2>3. CASE x \in N
    <3>. DEFINE y == next[x]
    <3>1. y \in S /\ mu[y] \in Nat /\ mu[y] + 1 \in Nat /\ mu[y] < mu[x]
      BY <2>3
    <3>2. B(mu[y] + 1, G(mu[y] + 1))
      <4>. HIDE DEF B, y
      <4>. QED BY <1>5, <3>1
    <3>3. G(mu[x] + 1)[y] = G(mu[y] + 1)[y]
      <4>. HIDE DEF B, y
      <4>. QED  BY SMTT(30), <1>4, <2>1, <3>1, <3>2
    <3>. QED  BY <2>2, <2>3, <3>1, <3>3
  <2>. QED  BY <2>2, <2>3
<1>. QED  BY <1>6, <1>7 DEF Ending

-----------------------------------------------------------------------------
(* The automaton.                                                          *)

\* A step of the automaton, state by state.
LEMMA ParseByteIs ==
  ASSUME NEW p, NEW v, p.state \in States
  PROVE  /\ p.state = "none" /\ v = 7 => ParseByte(p, v) = To(p, "head_state1")
         /\ p.state = "none" /\ v # 7 => ParseByte(p, v) = p
         /\ p.state = "head_state1" /\ v = 65 => ParseByte(p, v) = To(p, "function_state1")
         /\ p.state = "head_state1" /\ v # 65 => ParseByte(p, v) = To(p, "none")
         /\ p.state = "function_state1" =>
              ParseByte(p, v) = [To(p, "function_state2") EXCEPT !.hi = v]
         /\ p.state = "function_state2" =>
              ParseByte(p, v) = [To(p, "date_length1") EXCEPT !.fc = p.hi * 256 + v]
         /\ p.state = "date_length1" =>
              ParseByte(p, v) = [To(p, "data_length2") EXCEPT !.hi = v]
         /\ p.state = "data_length2" =>
              ParseByte(p, v) = [To(p, "data_receive") EXCEPT !.length = p.hi * 256 + v]
         /\ p.state = "data_receive" => ParseByte(p, v) = Store(p, v)
         /\ p.state = "end1" /\ v = 10 => ParseByte(p, v) = To(p, "end2")
         /\ p.state = "end1" /\ v # 10 => ParseByte(p, v) = To(p, "none")
         /\ p.state = "end2" /\ v = 13 => ParseByte(p, v) = To(p, "none")
         /\ p.state = "end2" /\ v # 13 => ParseByte(p, v) = To(p, "end2")
<1>1. CASE p.state = "none" BY <1>1 DEF ParseByte
<1>2. CASE p.state = "head_state1" BY <1>2 DEF ParseByte
<1>3. CASE p.state = "function_state1" BY <1>3 DEF ParseByte
<1>4. CASE p.state = "function_state2" BY <1>4 DEF ParseByte
<1>5. CASE p.state = "date_length1" BY <1>5 DEF ParseByte
<1>6. CASE p.state = "data_length2" BY <1>6 DEF ParseByte
<1>7. CASE p.state = "data_receive" BY <1>7 DEF ParseByte
<1>8. CASE p.state = "end1" BY <1>8 DEF ParseByte
<1>9. CASE p.state = "end2" BY <1>9 DEF ParseByte
<1>. QED  BY <1>1, <1>2, <1>3, <1>4, <1>5, <1>6, <1>7, <1>8, <1>9 DEF States

\* The automaton's values stay in the sets V, H (a byte), W (two bytes), X (an
\* index) and D (the data).
Automata(V, W, X, D) ==
  [state : States, hi : V, fc : W, length : W, index : X, data : D, src : SUBSET Nat]
LEMMA ByteStays ==
  ASSUME NEW V, NEW W, NEW X, NEW D, NEW p \in Automata(V, W, X, D), NEW v \in V,
         0 \in X,
         p.hi * 256 + v \in W,
         p.state = "data_receive" =>
           p.index + 1 \in X /\ [p.data EXCEPT ![p.index + 1] = v] \in D
  PROVE  ParseByte(p, v) \in Automata(V, W, X, D)
<1>. DEFINE q == ParseByte(p, v)
<1>1. p.state \in States
  BY DEF Automata
<1>3. ASSUME NEW s \in States PROVE To(p, s) \in Automata(V, W, X, D) /\ To(p, s).src = p.src
  BY <1>3 DEF To, Automata
<1>4. q \in Automata(V, W, X, D)
  <2>1. CASE p.state = "none"
    BY <1>1, <1>3, <2>1, ParseByteIs DEF States
  <2>2. CASE p.state = "head_state1"
    BY <1>1, <1>3, <2>2, ParseByteIs DEF States
  <2>3. CASE p.state = "function_state1"
    BY <1>1, <1>3, <2>3, ParseByteIs DEF States, Automata
  <2>4. CASE p.state = "function_state2"
    BY <1>1, <1>3, <2>4, ParseByteIs DEF States, Automata
  <2>5. CASE p.state = "date_length1"
    BY <1>1, <1>3, <2>5, ParseByteIs DEF States, Automata
  <2>6. CASE p.state = "data_length2"
    BY <1>1, <1>3, <2>6, ParseByteIs DEF States, Automata
  <2>7. CASE p.state = "data_receive"
    <3>. DEFINE e == [p EXCEPT !.data[p.index + 1] = v, !.index = @ + 1]
    <3>1. e \in Automata(V, W, X, D)
      BY <2>7 DEF Automata
    <3>2. Store(p, v) \in Automata(V, W, X, D)
      <4>. HIDE DEF e
      <4>1. Store(p, v) = IF e.index = p.length THEN [To(e, "end1") EXCEPT !.index = 0] ELSE e
        BY DEF Store, e
      <4>. QED  BY <3>1, <4>1 DEF To, Automata, States
    <3>. QED  BY <1>1, <2>7, <3>2, ParseByteIs
  <2>8. CASE p.state = "end1"
    BY <1>1, <1>3, <2>8, ParseByteIs DEF States
  <2>9. CASE p.state = "end2"
    BY <1>1, <1>3, <2>9, ParseByteIs DEF States
  <2>. QED  BY <1>1, <2>1, <2>2, <2>3, <2>4, <2>5, <2>6, <2>7, <2>8, <2>9 DEF States
<1>. QED  BY <1>4

\* A step takes the tag of its byte.
Same(r, q) == /\ r.state = q.state /\ r.hi = q.hi /\ r.fc = q.fc /\ r.length = q.length
              /\ r.index = q.index /\ r.data = q.data
Took(q, p, b) == /\ p.state = "none" /\ b.at = 1 => q.src = {b.n}
                 /\ ~(p.state = "none" /\ b.at = 1) => q.src = p.src \cup {b.n}
LEMMA ParseStays ==
  ASSUME NEW V, NEW W, NEW X, NEW D, NEW p \in Automata(V, W, X, D), NEW b,
         b.v \in V, b.n \in Nat, 0 \in X,
         p.hi * 256 + b.v \in W,
         p.state = "data_receive" =>
           p.index + 1 \in X /\ [p.data EXCEPT ![p.index + 1] = b.v] \in D
  PROVE  /\ Parse(p, b) \in Automata(V, W, X, D)
         /\ Same(Parse(p, b), ParseByte(p, b.v))
         /\ Took(Parse(p, b), p, b)
<1>. DEFINE q == ParseByte(p, b.v)
            e == IF p.state = "none" /\ b.at = 1 THEN {b.n} ELSE p.src \cup {b.n}
<1>1. q \in Automata(V, W, X, D)
  BY ByteStays
<1>2. Parse(p, b) = [q EXCEPT !.src = e]
  BY DEF Parse
<1>3. e \in SUBSET Nat
  BY DEF Automata
<1>4. (p.state = "none" /\ b.at = 1 => e = {b.n})
      /\ (~(p.state = "none" /\ b.at = 1) => e = p.src \cup {b.n})
  OBVIOUS
<1>. HIDE DEF q, e
<1>5. Parse(p, b) \in Automata(V, W, X, D) /\ Same(Parse(p, b), q) /\ Parse(p, b).src = e
  BY <1>1, <1>2, <1>3 DEF Automata, Same
<1>. QED  BY <1>4, <1>5, Zenon DEF q, Took

-----------------------------------------------------------------------------
(* The loop around the automaton.                                          *)

\* The loop ends, in a set J that every turn stays in.
Inputs == [v : Nat, n : Nat, at : Nat]
Goes(s, x) == /\ x.taken < Len(s) /\ ~Overflows(x.parser)
              /\ ~Success(x.parser, s[x.taken + 1])
Outcome(s, x) == IF x.taken = Len(s) \/ Overflows(x.parser) THEN Ended(x, FALSE)
                                                        ELSE Ended(Taking(s, x), TRUE)

LEMMA TakingStays ==
  ASSUME NEW s \in Seq(Inputs), NEW x \in Progress(s),
         x.taken < Len(s), ~Overflows(x.parser)
  PROVE  Taking(s, x) \in Progress(s) /\ Taking(s, x).taken = x.taken + 1
<1>. DEFINE p == x.parser
            b == s[x.taken + 1]
<1>1. p \in Automata(Nat, Nat, Nat, Seq(Nat))
  BY DEF Progress, Parsers, Automata
<1>2. b \in Inputs /\ x.taken + 1 \in 0 .. Len(s)
  <2>1. x.taken + 1 \in 1 .. Len(s)
    BY DEF Progress
  <2>. QED  BY <2>1
<1>3. ~Overflows(p)
  OBVIOUS
<1>. HIDE DEF p, b
<1>4. b.v \in Nat /\ b.n \in Nat
  BY <1>2 DEF Inputs
<1>5. p.hi \in Nat /\ p.index \in Nat /\ p.data \in Seq(Nat)
  BY <1>1 DEF Automata
<1>6. p.hi * 256 + b.v \in Nat
  BY <1>4, <1>5
<1>7. ASSUME p.state = "data_receive"
      PROVE  p.index + 1 \in Nat /\ [p.data EXCEPT ![p.index + 1] = b.v] \in Seq(Nat)
  <2>1. p.index < Len(p.data)
    BY <1>3, <1>5, <1>7 DEF Overflows
  <2>. QED  BY <1>4, <1>5, <2>1
<1>8. Parse(p, b) \in Parsers
  <2>1. Parse(p, b) \in Automata(Nat, Nat, Nat, Seq(Nat))
    BY <1>1, <1>4, <1>6, <1>7, ParseStays
  <2>. QED  BY <2>1 DEF Parsers, Automata
<1>. QED  BY <1>2, <1>8 DEF Taking, Progress, p, b

LEMMA RunEnds ==
  ASSUME NEW s \in Seq(Inputs), NEW start \in Parsers,
         NEW J \in SUBSET Progress(s), [parser |-> start, taken |-> 0] \in J,
         \A x \in J : Goes(s, x) => Taking(s, x) \in J
  PROVE  \E x \in J : ~Goes(s, x) /\ Run(start, s) = Outcome(s, x)
<1>. DEFINE S == Progress(s)
            N == {x \in S : Goes(s, x)}
            mu == [x \in S |-> Len(s) - x.taken]
            base == [x \in S |-> Outcome(s, x)]
            V == {Outcome(s, x) : x \in S}
            next == [x \in N |-> Taking(s, x)]
            Body(f) == [x \in S |->
                          IF x.taken = Len(s) \/ Overflows(x.parser) THEN Ended(x, FALSE)
                          ELSE IF Success(x.parser, s[x.taken + 1])
                                 THEN Ended(Taking(s, x), TRUE)
                          ELSE f[Taking(s, x)]]
<1>1. \A x \in S : x.taken \in 0 .. Len(s) /\ Len(s) \in Nat
  BY DEF Progress
<1>2. \A x \in N : Taking(s, x) \in S /\ Taking(s, x).taken = x.taken + 1
  BY TakingStays DEF Goes
<1>3. mu \in [S -> Nat]
  BY <1>1
<1>4. base \in [S -> V] /\ next \in [N -> S] /\ N \subseteq S
  BY <1>2
<1>5. \A x \in N : mu[next[x]] < mu[x]
  <2>. TAKE x \in N
  <2>1. next[x] \in S /\ next[x].taken = x.taken + 1 /\ x \in S
    BY <1>2
  <2>2. mu[next[x]] = Len(s) - (x.taken + 1) /\ mu[x] = Len(s) - x.taken
    BY <2>1
  <2>. QED  BY <1>1, <2>1, <2>2
<1>6. PICK f : Ending(f, S, V, N, base, next)
  <2>. HIDE DEF S, N, mu, base, V, next
  <2>1. Loop(S, V, N, mu, base, next)
    BY <1>3, <1>4, <1>5 DEF Loop
  <2>. QED  BY <2>1, LoopsEnd
<1>7. /\ f \in [S -> V]
      /\ \A x \in S : f[x] = IF Goes(s, x) THEN f[Taking(s, x)] ELSE Outcome(s, x)
  <2>1. f \in [S -> V] /\ \A x \in S : f[x] = IF x \in N THEN f[next[x]] ELSE base[x]
    <3>. HIDE DEF S, N, base, V, next
    <3>. QED  BY <1>6 DEF Ending
  <2>. QED  BY <2>1
<1>8. ASSUME NEW x \in S
      PROVE  f[x] = IF x.taken = Len(s) \/ Overflows(x.parser) THEN Ended(x, FALSE)
                    ELSE IF Success(x.parser, s[x.taken + 1])
                           THEN Ended(Taking(s, x), TRUE)
                    ELSE f[Taking(s, x)]
  <2>1. x.taken # Len(s) <=> x.taken < Len(s)
    BY <1>1
  <2>. HIDE DEF S
  <2>. QED  BY <1>7, <2>1 DEF Goes, Outcome
<1>9. f = Body(f)
  <2>1. f = [x \in S |-> f[x]]
    <3>. HIDE DEF S, V
    <3>. QED  BY <1>7
  <2>2. [x \in S |-> f[x]] = Body(f)
    <3>. HIDE DEF S
    <3>. QED  BY <1>8
  <2>. HIDE DEF Body, S
  <2>. QED  BY <2>1, <2>2
<1>10. PICK g : g = Body(g) /\ Run(start, s) = g[[parser |-> start, taken |-> 0]]
  <2>. DEFINE h == CHOOSE h : h = Body(h)
  <2>1. h = Body(h)
    <3>. HIDE DEF Body
    <3>. QED  BY <1>9
  <2>2. Run(start, s) = h[[parser |-> start, taken |-> 0]]
    BY Zenon DEF Run
  <2>. QED  BY <2>1, <2>2, Zenon
<1>11. ASSUME NEW x \in S
       PROVE  g[x] = IF Goes(s, x) THEN g[Taking(s, x)] ELSE Outcome(s, x)
  <2>1. x.taken # Len(s) <=> x.taken < Len(s)
    BY <1>1
  <2>2. g[x] = IF x.taken = Len(s) \/ Overflows(x.parser) THEN Ended(x, FALSE)
               ELSE IF Success(x.parser, s[x.taken + 1])
                      THEN Ended(Taking(s, x), TRUE)
               ELSE g[Taking(s, x)]
    <3>1. Body(g)[x] = IF x.taken = Len(s) \/ Overflows(x.parser) THEN Ended(x, FALSE)
                       ELSE IF Success(x.parser, s[x.taken + 1])
                              THEN Ended(Taking(s, x), TRUE)
                       ELSE g[Taking(s, x)]
      <4>. HIDE DEF S
      <4>. QED  BY Zenon
    <3>. HIDE DEF Body
    <3>. QED  BY <1>10, <3>1, Zenon
  <2>. QED  BY <2>1, <2>2 DEF Goes, Outcome
<1>. DEFINE Ways == {m \in Nat : \E x \in J : Len(s) - x.taken = m /\ g[x] = Run(start, s)}
            x0 == [parser |-> start, taken |-> 0]
<1>12. Len(s) \in Ways
  <2>1. Len(s) \in Nat /\ Len(s) - x0.taken = Len(s) /\ x0 \in J
    OBVIOUS
  <2>. QED  BY <1>10, <2>1
<1>13. PICK m \in Ways : \A k \in Ways : m <= k
  BY <1>12, LeastNumber
<1>14. PICK x \in J : Len(s) - x.taken = m /\ g[x] = Run(start, s)
  BY <1>13
<1>15. ~Goes(s, x)
  <2>. SUFFICES ASSUME Goes(s, x)  PROVE FALSE
    OBVIOUS
  <2>. DEFINE y == Taking(s, x)
  <2>1. y \in J /\ y \in S /\ y.taken = x.taken + 1 /\ x \in S
    BY <1>2
  <2>2. g[y] = Run(start, s)
    BY <1>11, <1>14, <2>1, Zenon
  <2>3. Len(s) - y.taken \in Nat /\ Len(s) - y.taken < m
    <3>. HIDE DEF y, S
    <3>. QED  BY <1>1, <1>14, <2>1
  <2>4. Len(s) - y.taken \in Ways
    <3>. HIDE DEF y
    <3>. QED  BY <2>1, <2>2, <2>3
  <2>5. m \in Nat
    BY <1>13
  <2>. HIDE DEF Ways, y
  <2>. QED  BY <1>13, <2>3, <2>4, <2>5
<1>. QED  BY <1>11, <1>14, <1>15

-----------------------------------------------------------------------------
(* The frames of the phone.                                                *)

\* The bytes of a message, by their places.
Contents(m, fc, d) ==
  /\ m \in Seq(Values) /\ Len(m) = Len(d) + 8
  /\ m[1] = 7 /\ m[2] = 65 /\ m[3] = fc \div 256 /\ m[4] = fc % 256
  /\ m[5] = Len(d) \div 256 /\ m[6] = Len(d) % 256
  /\ \A i \in 1 .. Len(d) : m[6 + i] = d[i]
  /\ m[7 + Len(d)] = 10 /\ m[8 + Len(d)] = 13

LEMMA WiderSeq ==
  ASSUME NEW S, NEW T, S \subseteq T, NEW s \in Seq(S)  PROVE s \in Seq(T)
<1>1. \A i \in 1 .. Len(s) : s[i] \in T
  BY ElementOfSeq
<1>2. Len(s) \in Nat /\ s = [i \in 1 .. Len(s) |-> s[i]]
  OBVIOUS
<1>. QED  BY <1>1, <1>2, SeqDef

LEMMA Halves ==
  ASSUME NEW n \in Nat, n <= 256 * 256 - 1
  PROVE  n \div 256 \in 0 .. 255 /\ n % 256 \in 0 .. 255
<1>1. n \div 256 \in Nat /\ n \div 256 <= 255
  OBVIOUS
<1>2. n % 256 \in 0 .. 255
  OBVIOUS
<1>. QED  BY <1>1, <1>2

LEMMA Numbers ==
  ASSUME NEW w \in Word  PROVE w \div 256 \in Values /\ w % 256 \in Values
<1>1. w \in Nat /\ w <= 256 * 256 - 1
  <2>. DEFINE M == 256 * 256 - 1
  <2>1. w \in 0 .. M
    BY Zenon DEF Word
  <2>2. M \in Int
    OBVIOUS
  <2>. HIDE DEF M
  <2>3. w \in Nat /\ w <= M
    BY <2>1, <2>2
  <2>. QED  BY <2>3, Zenon DEF M
<1>. QED  BY <1>1, Halves, ZenonT(30) DEF Values

LEMMA SmallValues ==
  /\ 0 .. 127 \subseteq Values /\ Values \subseteq Nat /\ Word \subseteq Nat
  /\ {1, 7, 10, 13, 20, 30, 65} \subseteq Values /\ {1, 20, 30} \subseteq Word
BY DEF Values, Word

LEMMA KindsAre ==
  ASSUME NEW kind \in Kinds
  PROVE  /\ kind[1] \in {1, 20, 30} /\ kind[2] \in Seq(Values)
         /\ Len(kind[2]) \in 1 .. DataSize /\ DataSize \in Word
<1>1. /\ AliceKey \in Seq(Values) /\ CipherText \in Seq(Values)
      /\ <<1>> \in Seq(Values) /\ Len(<<1>>) = 1
  <2>1. \A s \in Seq(0 .. 127) : s \in Seq(Values)
    BY SmallValues, WiderSeq, Zenon
  <2>2. <<1>> \in Seq(0 .. 127) /\ Len(<<1>>) = 1
    OBVIOUS
  <2>. QED  BY KeysAssumption, <2>1, <2>2, Zenon
<1>2. /\ Len(AliceKey) \in Nat /\ Len(AliceKey) > 0 /\ DataSize > Len(AliceKey)
      /\ Len(CipherText) \in 1 .. DataSize
  BY KeysAssumption
<1>3. DataSize \in Word
  BY KeysAssumption
<1>4. DataSize \in Nat
  BY <1>3, SmallValues
<1>5. Len(AliceKey) \in 1 .. DataSize /\ 1 \in 1 .. DataSize
  BY <1>2, <1>4
<1>6. CASE kind = <<1, AliceKey>>
  BY <1>1, <1>3, <1>5, <1>6
<1>7. CASE kind = <<20, CipherText>>
  BY <1>1, <1>2, <1>3, <1>7
<1>8. CASE kind = <<30, <<1>>>>
  BY <1>1, <1>3, <1>5, <1>8
<1>. QED  BY <1>6, <1>7, <1>8 DEF Kinds

LEMMA FrameValues ==
  ASSUME NEW fc \in {1, 20, 30}, NEW d \in Seq(Values), Len(d) <= DataSize
  PROVE  Contents(Frame(fc, d), fc, d)
<1>. DEFINE m == Frame(fc, d)
            l == Len(d)
<1>1. l <= DataSize /\ DataSize \in Word
  BY KeysAssumption
<1>2. \A i \in 1 .. l : d[i] \in Values
  BY ElementOfSeq
<1>. HIDE DEF m
<1>3. fc \in Nat /\ d \in Seq(Nat) /\ fc \in Word
  <2>1. \A s \in Seq(Values) : s \in Seq(Nat)
    BY SmallValues, WiderSeq, Zenon
  <2>. QED  BY <2>1, SmallValues, Zenon
<1>4. /\ m \in Seq(Nat) /\ Len(m) = l + 8 /\ l \in Nat
      /\ m[1] = 7 /\ m[2] = 65 /\ m[3] = fc \div 256 /\ m[4] = fc % 256
      /\ m[5] = l \div 256 /\ m[6] = l % 256
      /\ \A i \in 1 .. l : m[6 + i] = d[i]
      /\ m[7 + l] = 10 /\ m[8 + l] = 13
  BY <1>3, FrameIs, ZenonT(30) DEF m
<1>5. l \in Word
  <2>. HIDE DEF l
  <2>1. \A x \in Word, y \in Nat : y <= x => y \in Word
    <3>. DEFINE M == 256 * 256 - 1
    <3>1. Word = 0 .. M /\ M \in Int
      BY DEF Word
    <3>. HIDE DEF M
    <3>. QED  BY <3>1
  <2>2. l <= DataSize
    BY <1>1
  <2>. QED  BY <1>1, <1>4, <2>1, <2>2, Zenon
<1>6. /\ fc \div 256 \in Values /\ fc % 256 \in Values
      /\ l \div 256 \in Values /\ l % 256 \in Values
  BY <1>3, <1>5, Numbers
<1>7. m \in Seq(Values)
  <2>1. \A i \in 1 .. l : d[i] \in Values
    BY <1>2
  <2>. HIDE DEF l
  <2>2. ASSUME NEW i \in 1 .. l + 8  PROVE m[i] \in Values
    <3>1. CASE i \in 1 .. 6
      <4>1. i = 1 \/ i = 2 \/ i = 3 \/ i = 4 \/ i = 5 \/ i = 6
        BY <3>1
      <4>2. 7 \in Values /\ 65 \in Values
        BY SmallValues
      <4>3. /\ m[1] \in Values /\ m[2] \in Values /\ m[3] \in Values
            /\ m[4] \in Values /\ m[5] \in Values /\ m[6] \in Values
        <5>1. m[1] \in Values /\ m[2] \in Values
          BY <1>4, <4>2, Zenon
        <5>2. m[3] \in Values /\ m[4] \in Values
          BY <1>4, <1>6, Zenon
        <5>3. m[5] \in Values /\ m[6] \in Values
          BY <1>4, <1>6, ZenonT(30)
        <5>. QED  BY <5>1, <5>2, <5>3
      <4>. QED  BY <4>1, <4>3, Zenon
    <3>2. CASE i \in 7 .. 6 + l
      <4>1. PICK k \in 1 .. l : i = 6 + k
        <5>1. i - 6 \in 1 .. l /\ i = 6 + (i - 6)
          BY <1>4, <3>2
        <5>. QED  BY <5>1
      <4>. QED  BY <1>4, <2>1, <4>1, ZenonT(30)
    <3>3. CASE i = 7 + l \/ i = 8 + l
      BY <1>4, <3>3, SmallValues, ZenonT(30)
    <3>. QED  BY <1>4, <3>1, <3>2, <3>3
  <2>3. m \in Seq(Nat) /\ \A i \in 1 .. Len(m) : m[i] \in Values
    BY <1>4, <2>2
  <2>. QED  BY <2>3
<1>. QED  BY <1>4, <1>7, Zenon DEF m, l, Contents

LEMMA MessagesAre ==
  ASSUME NEW kind \in Kinds
  PROVE  Contents(Frame(kind[1], kind[2]), kind[1], kind[2])
<1>. DEFINE fc == kind[1]
            d == kind[2]
            m == Frame(fc, d)
            l == Len(d)
<1>1. fc \in {1, 20, 30} /\ d \in Seq(Values) /\ l \in 1 .. DataSize /\ DataSize \in Nat
  BY KindsAre, SmallValues
<1>2. l <= DataSize
  <2>. HIDE DEF l
  <2>. QED  BY <1>1
<1>. HIDE DEF fc, d
<1>3. Contents(m, fc, d)
  <2>1. fc \in {1, 20, 30} /\ d \in Seq(Values) /\ Len(d) <= DataSize
    BY <1>1, <1>2, Zenon
  <2>. QED  BY <2>1, FrameValues
<1>. QED  BY <1>3, Zenon DEF m, fc, d

\* The frame with number n.
LEMMA FrameFacts ==
  ASSUME HistoryOK, NEW n \in 1 .. Len(frames)
  PROVE  /\ Contents(Message(n), frames[n].fc, frames[n].data)
         /\ frames[n].fc \in {1, 20, 30} /\ frames[n].data \in Seq(Values)
         /\ Len(frames[n].data) \in 1 .. DataSize /\ DataSize \in Word
<1>. DEFINE k == <<frames[n].fc, frames[n].data>>
<1>1. k \in Kinds
  BY DEF HistoryOK
<1>2. k[1] = frames[n].fc /\ k[2] = frames[n].data
  OBVIOUS
<1>. HIDE DEF k
<1>3. /\ Contents(Frame(k[1], k[2]), k[1], k[2])
      /\ k[1] \in {1, 20, 30} /\ k[2] \in Seq(Values)
      /\ Len(k[2]) \in 1 .. DataSize /\ DataSize \in Word
  BY <1>1, MessagesAre, KindsAre
<1>. QED  BY <1>2, <1>3, Zenon DEF Message

-----------------------------------------------------------------------------
(* What a byte of the stream does to the automaton.                        *)

LEMMA ParserFields ==
  ASSUME NEW p, ParserOK(p)
  PROVE  /\ p \in Automata(Values, Word, 0 .. DataSize, [1 .. DataSize -> Values])
         /\ p.state \in States /\ p.hi \in Values /\ p.fc \in Word /\ p.length \in Word
         /\ p.index \in 0 .. DataSize /\ p.data \in [1 .. DataSize -> Values]
         /\ p.src \in SUBSET Nat
         /\ p.hi \in Nat /\ p.fc \in Nat /\ p.length \in Nat /\ p.index \in Nat
         /\ DataSize \in Nat /\ Len(p.data) = DataSize /\ p.data \in Seq(Values)
         /\ p \in Parsers
<1>1. /\ p.state \in States /\ p.hi \in Values /\ p.fc \in Word /\ p.length \in Word
      /\ p.index \in 0 .. DataSize /\ p.data \in [1 .. DataSize -> Values]
      /\ p.src \in SUBSET Nat
  BY DEF ParserOK
<1>2. DataSize \in Nat
  BY KeysAssumption, SmallValues
<1>3. p.data \in Seq(Values) /\ Len(p.data) = DataSize
  <2>1. p.data \in Seq(Values)
    BY <1>1, <1>2, SeqDef
  <2>2. DOMAIN p.data = 1 .. DataSize
    BY <1>1
  <2>. QED  BY <1>2, <2>1, <2>2
<1>4. p.data \in Seq(Nat)
  BY <1>3, SmallValues, WiderSeq, Zenon
<1>5. p.hi \in Nat /\ p.fc \in Nat /\ p.length \in Nat /\ p.index \in Nat
  <2>1. p.index \in Nat
    BY <1>1, <1>2
  <2>. QED  BY <1>1, <2>1, SmallValues, Zenon
<1>6. p \in Parsers
  <2>1. p = [state |-> p.state, hi |-> p.hi, fc |-> p.fc, length |-> p.length,
             index |-> p.index, data |-> p.data, src |-> p.src]
    BY DEF ParserOK
  <2>. QED  BY <1>1, <1>4, <1>5, <2>1, Zenon DEF Parsers
<1>7. p \in Automata(Values, Word, 0 .. DataSize, [1 .. DataSize -> Values])
  BY Zenon DEF Automata, ParserOK
<1>. QED  BY <1>1, <1>2, <1>3, <1>5, <1>6, <1>7, Zenon

LEMMA TwoValues ==
  ASSUME NEW h \in Values, NEW v \in Values  PROVE h * 256 + v \in Word
<1>1. h \in 0 .. 255 /\ v \in 0 .. 255
  BY DEF Values
<1>2. ASSUME NEW k \in Nat, NEW l \in Nat, k <= 255, l <= 255
      PROVE  k * 256 + l \in Nat /\ k * 256 + l <= 256 * 256 - 1
  BY <1>2
<1>3. h \in Nat /\ h <= 255 /\ v \in Nat /\ v <= 255
  BY <1>1
<1>4. h * 256 + v \in Nat /\ h * 256 + v <= 256 * 256 - 1
  BY <1>2, <1>3
<1>5. \A w \in Nat : w <= 256 * 256 - 1 => w \in Word
  <2>. DEFINE M == 256 * 256 - 1
  <2>1. Word = 0 .. M /\ M \in Int
    BY DEF Word
  <2>. HIDE DEF M
  <2>2. \A w \in Nat : w <= M => w \in Word
    BY <2>1
  <2>. QED  BY <2>2 DEF M
<1>. QED  BY <1>4, <1>5, Zenon

\* A byte keeps the automaton well typed; what its new fields are.
LEMMA TypedStep ==
  ASSUME NEW p, ParserOK(p), ~Overflows(p), NEW b \in Bytes
  PROVE  /\ ParserOK(Parse(p, b))
         /\ Same(Parse(p, b), ParseByte(p, b.v))
         /\ Took(Parse(p, b), p, b)
<1>1. b.v \in Values /\ b.n \in Nat
  BY DEF Bytes
<1>2. /\ p.index \in 0 .. DataSize /\ DataSize \in Nat /\ Len(p.data) = DataSize
      /\ p.data \in [1 .. DataSize -> Values] /\ p.hi \in Values
  BY ParserFields
<1>3. p.hi * 256 + b.v \in Word
  BY <1>1, <1>2, TwoValues
<1>4. ASSUME p.state = "data_receive"
      PROVE  /\ p.index + 1 \in 0 .. DataSize
             /\ [p.data EXCEPT ![p.index + 1] = b.v] \in [1 .. DataSize -> Values]
  <2>1. p.index < DataSize
    BY <1>2, <1>4 DEF Overflows
  <2>. QED  BY <1>1, <1>2, <2>1
<1>5. 0 \in 0 .. DataSize
  BY <1>2
<1>6. p \in Automata(Values, Word, 0 .. DataSize, [1 .. DataSize -> Values])
  BY ParserFields
<1>. DEFINE X == 0 .. DataSize
            D == [1 .. DataSize -> Values]
<1>7. /\ 0 \in X /\ p \in Automata(Values, Word, X, D)
      /\ p.state = "data_receive" =>
           p.index + 1 \in X /\ [p.data EXCEPT ![p.index + 1] = b.v] \in D
  BY <1>4, <1>5, <1>6, Zenon
<1>. HIDE DEF X, D
<1>8. /\ Parse(p, b) \in Automata(Values, Word, X, D)
      /\ Same(Parse(p, b), ParseByte(p, b.v))
      /\ Took(Parse(p, b), p, b)
  BY <1>1, <1>3, <1>7, ParseStays
<1>9. ParserOK(Parse(p, b))
  BY <1>8, Zenon DEF Automata, ParserOK, X, D
<1>. QED  BY <1>8, <1>9, Zenon

\* Inside a frame the automaton stays inside its array.
LEMMA HoldsFits ==
  ASSUME NEW f, Len(f.data) \in 1 .. DataSize, NEW p, ParserOK(p),
         NEW at \in Nat, Holds(p, f, at)
  PROVE  ~Overflows(p)
<1>. SUFFICES ASSUME Overflows(p) PROVE FALSE
  OBVIOUS
<1>1. p.state = "data_receive" /\ p.index >= Len(p.data)
  BY DEF Overflows
<1>2. at \in 7 .. 6 + Len(f.data) /\ p.index = at - 7
  BY <1>1, Zenon DEF Holds
<1>3. DataSize \in Nat /\ Len(p.data) = DataSize
  BY ParserFields
<1>. DEFINE l == Len(f.data)
<1>4. l \in 1 .. DataSize
  OBVIOUS
<1>. HIDE DEF l
<1>. QED  BY <1>1, <1>2, <1>3, <1>4 DEF l

LEMMA Recombined ==
  ASSUME NEW n \in Nat  PROVE n = (n \div 256) * 256 + (n % 256)
  OBVIOUS

\* A byte of the frame takes the automaton one place on.
FitsIn(f, m) == /\ f.fc \in {1, 20, 30} /\ f.data \in Seq(Values)
                /\ Len(f.data) \in 1 .. DataSize /\ Contents(m, f.fc, f.data)
LEMMA HoldsStep ==
  ASSUME NEW f, NEW m, FitsIn(f, m), NEW p, ParserOK(p), IndexOK(p),
         NEW b \in Bytes, NEW at \in 1 .. Len(m), at > 1, at < Len(m),
         Holds(p, f, at), b.v = m[at]
  PROVE  Holds(Parse(p, b), f, at + 1) /\ IndexOK(Parse(p, b)) /\ p.state # "none"
<1>. DEFINE l == Len(f.data)
            v == b.v
            q == ParseByte(p, v)
            r == Parse(p, b)
<1>1. /\ l \in Nat /\ l > 0 /\ l <= DataSize /\ DataSize \in Nat /\ Len(m) = l + 8
      /\ at \in Nat /\ v = m[at] /\ l = Len(f.data)
  BY ParserFields, SMTT(30) DEF FitsIn, Contents
<1>2. /\ m[2] = 65 /\ m[3] = f.fc \div 256 /\ m[4] = f.fc % 256
      /\ m[5] = l \div 256 /\ m[6] = l % 256
      /\ \A i \in 1 .. l : m[6 + i] = f.data[i]
      /\ m[7 + l] = 10 /\ m[8 + l] = 13
  BY Zenon DEF FitsIn, Contents
<1>3. /\ p.state \in States /\ p \in Automata(Values, Word, 0 .. DataSize, [1 .. DataSize -> Values])
      /\ p.index \in Nat /\ p.data \in [1 .. DataSize -> Values] /\ v \in Values
  BY ParserFields DEF Bytes
<1>4. Same(r, q)
  <2>1. ~Overflows(p)
    BY <1>1, HoldsFits DEF FitsIn
  <2>. QED  BY <2>1, TypedStep
<1>5. /\ l = (l \div 256) * 256 + (l % 256)
      /\ f.fc = (f.fc \div 256) * 256 + (f.fc % 256)
  <2>1. l \in Nat /\ f.fc \in Nat
    BY <1>1 DEF FitsIn
  <2>. HIDE DEF l
  <2>. QED  BY <2>1, Recombined, ZenonT(30)
<1>. HIDE DEF l, v, q, r
<1>6. CASE at = 2 /\ p.state = "head_state1"
  <2>1. q = To(p, "function_state1")
    BY <1>1, <1>2, <1>3, <1>6, ParseByteIs DEF q
  <2>2. r.state = "function_state1" /\ r.index = p.index
    BY <1>3, <1>4, <2>1 DEF To, Same, Automata
  <2>3. at + 1 = 3
    BY <1>6
  <2>. QED  BY <1>6, <2>2, <2>3 DEF Holds, IndexOK, r
<1>7. CASE at = 3 /\ p.state = "function_state1"
  <2>1. q = [To(p, "function_state2") EXCEPT !.hi = v]
    BY <1>3, <1>7, ParseByteIs DEF q
  <2>2. r.state = "function_state2" /\ r.index = p.index /\ r.hi = v
    BY <1>3, <1>4, <2>1 DEF To, Same, Automata
  <2>3. at + 1 = 4 /\ v = f.fc \div 256
    BY <1>1, <1>2, <1>7
  <2>. QED  BY <1>7, <2>2, <2>3 DEF Holds, IndexOK, r
<1>8. CASE at = 4 /\ p.state = "function_state2" /\ p.hi = f.fc \div 256
  <2>1. q = [To(p, "date_length1") EXCEPT !.fc = p.hi * 256 + v]
    BY <1>3, <1>8, ParseByteIs DEF q
  <2>2. r.state = "date_length1" /\ r.index = p.index /\ r.fc = p.hi * 256 + v
    BY <1>3, <1>4, <2>1 DEF To, Same, Automata
  <2>3. at + 1 = 5 /\ v = f.fc % 256
    BY <1>1, <1>2, <1>8
  <2>4. r.fc = f.fc
    <3>1. r.fc = (f.fc \div 256) * 256 + (f.fc % 256)
      BY <1>8, <2>2, <2>3, ZenonT(30)
    <3>. QED  BY <1>5, <3>1, ZenonT(30)
  <2>. QED  BY <1>8, <2>2, <2>3, <2>4 DEF Holds, IndexOK, r
<1>9. CASE at = 5 /\ p.state = "date_length1" /\ p.fc = f.fc
  <2>1. q = [To(p, "data_length2") EXCEPT !.hi = v]
    BY <1>3, <1>9, ParseByteIs DEF q
  <2>2. r.state = "data_length2" /\ r.index = p.index /\ r.fc = p.fc /\ r.hi = v
    BY <1>3, <1>4, <2>1 DEF To, Same, Automata
  <2>3. at + 1 = 6 /\ v = l \div 256
    <3>1. at + 1 = 6
      BY <1>9
    <3>. QED  BY <1>1, <1>2, <1>9, <3>1, Zenon
  <2>. QED  BY <1>9, <2>2, <2>3 DEF Holds, IndexOK, r, l
<1>10. CASE at = 6 /\ p.state = "data_length2" /\ p.fc = f.fc /\ p.hi = l \div 256
  <2>1. q = [To(p, "data_receive") EXCEPT !.length = p.hi * 256 + v]
    BY <1>3, <1>10, ParseByteIs DEF q
  <2>2. /\ r.state = "data_receive" /\ r.index = p.index /\ r.fc = p.fc
        /\ r.length = p.hi * 256 + v
    BY <1>3, <1>4, <2>1 DEF To, Same, Automata
  <2>3. at + 1 = 7 /\ v = l % 256
    <3>1. at + 1 = 7
      BY <1>10
    <3>. QED  BY <1>1, <1>2, <1>10, <3>1, Zenon
  <2>4. r.length = l
    <3>1. r.length = (l \div 256) * 256 + (l % 256)
      BY <1>10, <2>2, <2>3, ZenonT(30)
    <3>. QED  BY <1>5, <3>1, ZenonT(30)
  <2>5. r.index = 7 - 7 /\ 7 \in 7 .. 6 + l /\ \A i \in 1 .. 7 - 7 : r.data[i] = f.data[i]
    BY <1>1, <1>10, <2>2 DEF IndexOK
  <2>6. Holds(r, f, 7)
    BY <1>10, <2>2, <2>4, <2>5, ZenonT(30) DEF Holds, l
  <2>. QED  BY <1>10, <2>2, <2>3, <2>6 DEF IndexOK, r
<1>11. CASE /\ at \in 7 .. 6 + l /\ p.state = "data_receive" /\ p.index = at - 7
            /\ p.fc = f.fc /\ p.length = l /\ \A i \in 1 .. at - 7 : p.data[i] = f.data[i]
  <2>. DEFINE e == [p EXCEPT !.data[p.index + 1] = v, !.index = @ + 1]
  <2>1. q = Store(p, v)
    BY <1>3, <1>11, ParseByteIs DEF q
  <2>2. /\ p.index + 1 = at - 6 /\ at - 6 \in 1 .. l /\ at - 6 \in 1 .. DataSize
        /\ 6 + (at - 6) = at
    BY <1>1, <1>11
  <2>3. v = f.data[at - 6]
    BY <1>1, <1>2, <2>2
  <2>4. /\ e.index = at - 6 /\ e.fc = p.fc /\ e.length = p.length /\ e.state = p.state
        /\ e.data[at - 6] = v
        /\ \A i \in 1 .. DataSize : i # at - 6 => e.data[i] = p.data[i]
    BY <1>3, <2>2 DEF Automata
  <2>5. \A i \in 1 .. at - 6 : e.data[i] = f.data[i]
    <3>. TAKE i \in 1 .. at - 6
    <3>1. i \in 1 .. DataSize /\ (i = at - 6 \/ i \in 1 .. at - 7)
      BY <1>1, <2>2
    <3>. HIDE DEF e
    <3>. QED  BY <1>11, <2>3, <2>4, <3>1, Zenon
  <2>6. q = IF e.index = p.length THEN [To(e, "end1") EXCEPT !.index = 0] ELSE e
    <3>1. e.length = p.length
      BY <2>4
    <3>. QED  BY <2>1, <3>1 DEF Store
  <2>7. e \in Automata(Values, Word, Nat, [1 .. DataSize -> Values])
    <3>1. p \in Automata(Values, Word, Nat, [1 .. DataSize -> Values])
      BY <1>1, <1>3 DEF Automata
    <3>2. /\ p.index + 1 \in Nat
          /\ [p.data EXCEPT ![p.index + 1] = v] \in [1 .. DataSize -> Values]
      <4>1. p.index + 1 \in Nat
        BY <1>3
      <4>2. [p.data EXCEPT ![p.index + 1] = v] \in [1 .. DataSize -> Values]
        BY <1>3, <2>2
      <4>. QED  BY <4>1, <4>2
    <3>. DEFINE D == [1 .. DataSize -> Values]
    <3>3. p \in Automata(Values, Word, Nat, D) /\ [p.data EXCEPT ![p.index + 1] = v] \in D
      BY <3>1, <3>2
    <3>. HIDE DEF D
    <3>4. e \in Automata(Values, Word, Nat, D)
      BY <3>2, <3>3 DEF Automata
    <3>. QED  BY <3>4 DEF D
  <2>. HIDE DEF e
  <2>8. CASE at = 6 + l
    <3>1. e.index = p.length
      BY <1>1, <1>11, <2>4, <2>8
    <3>2. /\ q.state = "end1" /\ q.index = 0 /\ q.fc = e.fc /\ q.length = e.length
          /\ q.data = e.data
      BY <2>6, <2>7, <3>1 DEF To, Automata
    <3>3. at + 1 = 7 + l /\ at - 6 = l
      BY <1>1, <2>8
    <3>4. /\ r.state = "end1" /\ r.index = 0 /\ r.fc = f.fc /\ r.length = l
          /\ \A i \in 1 .. l : r.data[i] = f.data[i]
      <4>1. r.state = "end1" /\ r.index = 0 /\ r.fc = f.fc /\ r.length = l
        BY <1>4, <1>11, <2>4, <3>2, Zenon DEF Same
      <4>2. r.data = e.data
        BY <1>4, <3>2, Zenon DEF Same
      <4>. QED  BY <2>5, <3>3, <4>1, <4>2, Zenon
    <3>5. Holds(r, f, 7 + l)
      BY <3>4, Zenon DEF Holds, l
    <3>. QED  BY <1>11, <3>3, <3>4, <3>5 DEF IndexOK, r
  <2>9. CASE at # 6 + l
    <3>1. e.index # p.length
      BY <1>1, <1>11, <2>4, <2>9
    <3>2. q = e
      BY <2>6, <3>1
    <3>3. at + 1 \in 7 .. 6 + l /\ at - 6 = at + 1 - 7
      BY <1>1, <1>11, <2>9
    <3>4. /\ r.state = "data_receive" /\ r.index = at + 1 - 7 /\ r.fc = f.fc
          /\ r.length = l /\ \A i \in 1 .. at + 1 - 7 : r.data[i] = f.data[i]
      <4>1. /\ r.state = "data_receive" /\ r.index = at + 1 - 7 /\ r.fc = f.fc
            /\ r.length = l
        BY <1>4, <1>11, <2>4, <3>2, <3>3, Zenon DEF Same
      <4>2. r.data = e.data
        BY <1>4, <3>2, Zenon DEF Same
      <4>. QED  BY <2>5, <3>3, <4>1, <4>2, Zenon
    <3>5. Holds(r, f, at + 1)
      <4>. DEFINE a == at + 1
      <4>1. /\ a \in 7 .. 6 + l /\ r.state = "data_receive" /\ r.index = a - 7
            /\ r.fc = f.fc /\ r.length = l /\ \A i \in 1 .. a - 7 : r.data[i] = f.data[i]
        BY <3>3, <3>4
      <4>. HIDE DEF a
      <4>2. Holds(r, f, a)
        BY <4>1, Zenon DEF Holds, l
      <4>. QED  BY <4>2 DEF a
    <3>. QED  BY <1>11, <3>4, <3>5 DEF IndexOK, r
  <2>. QED  BY <2>8, <2>9
<1>12. CASE /\ at = 7 + l /\ p.state = "end1"
            /\ p.fc = f.fc /\ p.length = l /\ \A i \in 1 .. l : p.data[i] = f.data[i]
  <2>1. q = To(p, "end2")
    BY <1>1, <1>2, <1>3, <1>12, ParseByteIs DEF q
  <2>2. /\ r.state = "end2" /\ r.index = p.index /\ r.fc = p.fc /\ r.length = p.length
        /\ r.data = p.data
    BY <1>3, <1>4, <2>1 DEF To, Same, Automata
  <2>3. at + 1 = 8 + l
    BY <1>1, <1>12
  <2>4. Holds(r, f, 8 + l)
    BY <1>12, <2>2, ZenonT(30) DEF Holds, l
  <2>. QED  BY <1>12, <2>2, <2>3, <2>4 DEF IndexOK, r
<1>13. ~(at = 8 + l)
  BY <1>1
<1>. QED  BY <1>6, <1>7, <1>8, <1>9, <1>10, <1>11, <1>12, <1>13, Zenon DEF Holds, l

-----------------------------------------------------------------------------
(* The stream of frames.                                                   *)

\* What was dispatched are numbers of frames.
LEMMA DoneNumbers ==
  ASSUME HistoryOK  PROVE dDone \subseteq 1 .. Len(frames) /\ dDone \subseteq Nat
<1>1. dispatched \in Seq(1 .. Len(frames))
  BY DEF HistoryOK
<1>2. \A i \in 1 .. Len(dispatched) : dispatched[i] \in 1 .. Len(frames)
  BY <1>1, ElementOfSeq
<1>. QED  BY <1>2 DEF dDone

\* The byte behind k bytes, and the one behind that.
LEMMA NextByte ==
  ASSUME HistoryOK, StreamOK, NEW k \in Nat, k < Len(toDevice)
  PROVE  LET b == toDevice[k + 1]
             c == toDevice[k + 2]
         IN  /\ b \in Bytes /\ b.n \in 1 .. Len(frames) /\ b.at \in 1 .. Len(Message(b.n))
             /\ b.v = Message(b.n)[b.at] /\ b.n \in Nat /\ b.at \in Nat
             /\ FitsIn(frames[b.n], Message(b.n))
             /\ b.at < Len(Message(b.n)) =>
                  /\ k + 1 < Len(toDevice) /\ c.n = b.n /\ c.at = b.at + 1
                  /\ c.v = Message(b.n)[b.at + 1]
             /\ k + 1 < Len(toDevice) /\ ~(b.at < Len(Message(b.n))) =>
                  c.n = b.n + 1 /\ c.at = 1
<1>. DEFINE b == toDevice[k + 1]
            c == toDevice[k + 2]
            L == Len(toDevice)
            M == Len(Message(b.n))
            e == toDevice[L]
<1>1. toDevice \in Seq(Bytes) /\ L \in Nat /\ k + 1 \in 1 .. L /\ L = Len(toDevice)
  BY DEF HistoryOK
<1>2. b \in Bytes /\ b.n \in Nat /\ b.at \in Nat
  <2>1. b \in Bytes
    BY <1>1, ElementOfSeq
  <2>. QED  BY <2>1 DEF Bytes
<1>3. OfFrame(b)
  BY <1>1 DEF StreamOK
<1>4. b.n \in 1 .. Len(frames) /\ b.at \in 1 .. M /\ b.v = Message(b.n)[b.at]
  BY <1>3 DEF OfFrame
<1>5. FitsIn(frames[b.n], Message(b.n))
  BY <1>4, FrameFacts DEF FitsIn
<1>6. ASSUME k + 1 < L  PROVE Follows(b, c) /\ OfFrame(c)
  <2>1. k + 1 \in 1 .. L - 1 /\ (k + 1) + 1 = k + 2 /\ k + 2 \in 1 .. L
    BY <1>1, <1>6
  <2>2. Follows(toDevice[k + 1], toDevice[(k + 1) + 1]) /\ OfFrame(toDevice[k + 2])
    BY <2>1 DEF StreamOK
  <2>. QED  BY <2>1, <2>2
<1>7. ASSUME ~(k + 1 < L)  PROVE b.at = M
  <2>1. k + 1 = L
    BY <1>1, <1>7
  <2>2. toDevice # <<>>
    BY <1>1
  <2>3. e.at = Len(Message(e.n))
    BY <2>2 DEF StreamOK
  <2>. QED  BY <2>1, <2>3
<1>. HIDE DEF b, c, L, M
<1>8. ASSUME b.at < M
      PROVE  k + 1 < L /\ c.n = b.n /\ c.at = b.at + 1 /\ c.v = Message(b.n)[b.at + 1]
  <2>1. k + 1 < L
    BY <1>2, <1>7, <1>8
  <2>2. c.n = b.n /\ c.at = b.at + 1
    BY <1>6, <1>8, <2>1 DEF Follows, M
  <2>3. c.v = Message(c.n)[c.at]
    BY <1>6, <2>1 DEF OfFrame
  <2>. QED  BY <2>1, <2>2, <2>3
<1>9. ASSUME k + 1 < L, ~(b.at < M)  PROVE c.n = b.n + 1 /\ c.at = 1
  BY <1>6, <1>9 DEF Follows, M
<1>. QED  BY <1>2, <1>4, <1>5, <1>8, <1>9 DEF b, c, L, M

\* The index is 0 outside the data, whatever bytes come.
LEMMA IndexStays ==
  ASSUME NEW p, ParserOK(p), IndexOK(p), ~Overflows(p), NEW b \in Bytes
  PROVE  IndexOK(Parse(p, b))
<1>. DEFINE v == b.v
            q == ParseByte(p, v)
            r == Parse(p, b)
<1>1. /\ p.state \in States /\ p \in Automata(Values, Word, 0 .. DataSize, [1 .. DataSize -> Values])
      /\ p.index \in Nat /\ v \in Values
  BY ParserFields DEF Bytes
<1>2. r.state = q.state /\ r.index = q.index
  BY TypedStep DEF Same
<1>. HIDE DEF v, q, r
<1>3. \A s \in States : To(p, s).index = p.index
  BY <1>1 DEF To, Automata
<1>4. q.state # "data_receive" => q.index = 0
  <2>1. CASE p.state \in {"none", "head_state1", "end1", "end2"}
    <3>1. q \in {p} \cup {To(p, s) : s \in States}
      BY <1>1, <2>1, ParseByteIs DEF q, States
    <3>. QED  BY <1>3, <2>1, <3>1 DEF IndexOK
  <2>2. CASE p.state \in {"function_state1", "function_state2", "date_length1", "data_length2"}
    <3>. DEFINE s1 == "function_state2"
                s2 == "date_length1"
                s3 == "data_length2"
                s4 == "data_receive"
    <3>1. \/ q = [To(p, s1) EXCEPT !.hi = v]
          \/ q = [To(p, s2) EXCEPT !.fc = p.hi * 256 + v]
          \/ q = [To(p, s3) EXCEPT !.hi = v]
          \/ q = [To(p, s4) EXCEPT !.length = p.hi * 256 + v]
      BY <1>1, <2>2, ParseByteIs DEF q
    <3>2. p.index = 0
      BY <2>2 DEF IndexOK
    <3>. QED  BY <1>1, <3>1, <3>2 DEF To, Automata
  <2>3. CASE p.state = "data_receive"
    <3>. DEFINE e == [p EXCEPT !.data[p.index + 1] = v, !.index = @ + 1]
    <3>1. q = Store(p, v)
      BY <1>1, <2>3, ParseByteIs DEF q
    <3>2. q = IF e.index = p.length THEN [To(e, "end1") EXCEPT !.index = 0] ELSE e
      BY <3>1 DEF Store
    <3>3. e.state = "data_receive" /\ "index" \in DOMAIN To(e, "end1")
      BY <1>1, <2>3 DEF Automata, To
    <3>. HIDE DEF e
    <3>. QED  BY <3>2, <3>3
  <2>. QED  BY <1>1, <2>1, <2>2, <2>3 DEF States
<1>. QED  BY <1>2, <1>4 DEF IndexOK, r

\* No mark is left behind a place, so none behind the next.
LEMMA MarkLater ==
  ASSUME NEW m, NEW at \in Nat, ~MarkBehind(m, at), Len(m) \in Nat
  PROVE  /\ ~MarkBehind(m, at + 1)
         /\ at < Len(m) /\ m[at] = 7 => m[at + 1] # 65
<1>. DEFINE L == Len(m)
<1>1. \A i \in at .. L - 1 : ~(m[i] = 7 /\ m[i + 1] = 65)
  BY DEF MarkBehind
<1>. HIDE DEF L
<1>2. \A i \in at + 1 .. L - 1 : i \in at .. L - 1
  BY DEF L
<1>3. \A i \in at + 1 .. L - 1 : ~(m[i] = 7 /\ m[i + 1] = 65)
  BY <1>1, <1>2, Zenon
<1>4. at < L => at \in at .. L - 1
  BY DEF L
<1>. QED  BY <1>1, <1>3, <1>4, Zenon DEF MarkBehind, L

\* Behind a byte with no mark left in its frame the next byte has none left
\* either, or starts a frame; and a single byte 07 is not followed by 41.
LEMMA PlainNext ==
  ASSUME HistoryOK, StreamOK, NEW k \in Nat, k < Len(toDevice), Plain(toDevice[k + 1])
  PROVE  LET b == toDevice[k + 1]
             c == toDevice[k + 2]
         IN  /\ k + 1 < Len(toDevice) => Safe(c)
             /\ b.v = 7 => /\ k + 1 < Len(toDevice) /\ c.n = b.n /\ c.at = b.at + 1
                           /\ c.v # 65 /\ Plain(c)
<1>. DEFINE b == toDevice[k + 1]
            c == toDevice[k + 2]
            m == Message(b.n)
            f == frames[b.n]
            l == Len(f.data)
<1>1. /\ b.at \in 1 .. Len(m) /\ b.v = m[b.at] /\ FitsIn(f, m) /\ b.at \in Nat
      /\ b.at < Len(m) => /\ k + 1 < Len(toDevice) /\ c.n = b.n /\ c.at = b.at + 1
                          /\ c.v = m[b.at + 1]
      /\ k + 1 < Len(toDevice) /\ ~(b.at < Len(m)) => c.at = 1
  BY NextByte
<1>2. Len(m) = l + 8 /\ m[8 + l] = 13 /\ l \in Nat /\ Len(m) \in Nat
  <2>1. Len(m) = l + 8 /\ m[8 + l] = 13 /\ l \in 1 .. DataSize
    BY <1>1 DEF FitsIn, Contents
  <2>2. DataSize \in Nat
    BY KeysAssumption, SmallValues
  <2>. HIDE DEF l, m
  <2>. QED  BY <2>1, <2>2
<1>3. ~MarkBehind(m, b.at)
  BY DEF Plain
<1>. HIDE DEF b, c, m, l
<1>4. /\ ~MarkBehind(m, b.at + 1)
      /\ b.at < Len(m) /\ m[b.at] = 7 => m[b.at + 1] # 65
  BY <1>1, <1>2, <1>3, MarkLater
<1>5. ASSUME b.at < Len(m)  PROVE Plain(c)
  BY <1>1, <1>4, <1>5, Zenon DEF Plain, m
<1>6. ASSUME b.v = 7  PROVE b.at < Len(m)
  <2>1. ASSUME b.at = Len(m)  PROVE FALSE
    <3>1. Len(m) = 8 + l
      BY <1>2
    <3>2. b.v = 13
      BY <1>1, <1>2, <2>1, <3>1, Zenon
    <3>. QED  BY <1>6, <3>2
  <2>. QED  BY <1>1, <1>2, <2>1
<1>7. k + 1 < Len(toDevice) => Safe(c)
  BY <1>1, <1>5, Zenon DEF Safe
<1>8. ASSUME b.v = 7
      PROVE  k + 1 < Len(toDevice) /\ c.n = b.n /\ c.at = b.at + 1 /\ c.v # 65 /\ Plain(c)
  BY <1>1, <1>4, <1>5, <1>6, <1>8, Zenon
<1>. QED  BY <1>7, <1>8, Zenon DEF b, c

\* Between frames, a byte starts the next one, or is passed over.
LEMMA FromNone ==
  ASSUME HistoryOK, StreamOK, NEW k \in Nat, k < Len(toDevice),
         NEW p, ParserOK(p), p.state = "none", Safe(toDevice[k + 1])
  PROVE  LET b == toDevice[k + 1]
             q == Parse(p, b)
         IN  /\ Where(q, k + 1)
             /\ b.at > 1 => \/ q.state = "none" \/ Mixed(q)
                            \/ k + 1 < Len(toDevice) /\ Single(q, toDevice[k + 2])
<1>. DEFINE b == toDevice[k + 1]
            c == toDevice[k + 2]
            q == Parse(p, b)
            f == frames[b.n]
<1>1. /\ b \in Bytes /\ b.at \in Nat /\ b.at \in 1 .. Len(Message(b.n)) /\ b.v = Message(b.n)[b.at]
      /\ FitsIn(f, Message(b.n))
      /\ b.at < Len(Message(b.n)) =>
           k + 1 < Len(toDevice) /\ c.n = b.n /\ c.at = b.at + 1
  BY NextByte
<1>2. Took(q, p, b) /\ q.state = ParseByte(p, b.v).state
  <2>1. ~Overflows(p)
    BY DEF Overflows
  <2>2. Same(q, ParseByte(p, b.v)) /\ Took(q, p, b)
    <3>. HIDE DEF b
    <3>. QED  BY <1>1, <2>1, TypedStep
  <2>. QED  BY <2>2 DEF Same
<1>3. /\ b.v = 7 => q.state = "head_state1"
      /\ b.v # 7 => q.state = "none"
  <2>1. p.state \in States /\ p \in Automata(Values, Word, 0 .. DataSize, [1 .. DataSize -> Values])
    BY ParserFields
  <2>2. /\ b.v = 7 => ParseByte(p, b.v) = To(p, "head_state1")
        /\ b.v # 7 => ParseByte(p, b.v) = p
    <3>. HIDE DEF b
    <3>. QED  BY <2>1, ParseByteIs
  <2>3. To(p, "head_state1").state = "head_state1"
    BY <2>1 DEF To, Automata
  <2>. HIDE DEF b, q
  <2>. QED  BY <1>2, <2>2, <2>3, Zenon
<1>4. (k + 1) + 1 = k + 2
  OBVIOUS
<1>. DEFINE L == Len(toDevice)
<1>5. CASE b.at = 1
  <2>1. /\ b.v = 7 /\ 1 < Len(Message(b.n))
    <3>. DEFINE m == Message(b.n)
                l == Len(f.data)
    <3>1. Len(m) = l + 8 /\ l \in 1 .. DataSize /\ m[1] = 7
      BY <1>1 DEF FitsIn, Contents
    <3>2. DataSize \in Nat
      BY KeysAssumption, SmallValues
    <3>3. b.v = m[1]
      BY <1>1, <1>5
    <3>. HIDE DEF m, l
    <3>. QED  BY <3>1, <3>2, <3>3 DEF m
  <2>2. k + 1 < L /\ c.n = b.n /\ c.at = 2
    <3>. HIDE DEF b, c
    <3>. QED  BY <1>1, <1>5, <2>1
  <2>. HIDE DEF q, b, c, L, f
  <2>3. Inside(q, c)
    BY <1>2, <1>3, <1>5, <2>1, <2>2 DEF Inside, Holds, Took
  <2>4. Where(q, k + 1)
    BY <1>4, <2>2, <2>3 DEF Where, L, c
  <2>. QED  BY <1>5, <2>4 DEF q, b, c, L
<1>6. CASE b.at # 1 /\ b.n \in cut.device
  <2>. HIDE DEF q, b
  <2>1. Mixed(q)
    BY <1>2, <1>6 DEF Mixed, Took
  <2>. QED  BY <2>1, Zenon DEF q, b, Where
<1>7. CASE b.at # 1 /\ Plain(b)
  <2>1. /\ k + 1 < L => Safe(c)
        /\ b.v = 7 => k + 1 < L /\ c.n = b.n /\ c.at = b.at + 1 /\ c.v # 65 /\ Plain(c)
    BY <1>7, PlainNext
  <2>2. CASE b.v # 7
    <3>. HIDE DEF q, b, c, L
    <3>1. q.state = "none"
      BY <1>3, <2>2, Zenon
    <3>2. Between(q, k + 1)
      BY <1>4, <2>1, <3>1, Zenon DEF Between, L, c
    <3>. QED  BY <3>1, <3>2, Zenon DEF q, Where, b
  <2>3. CASE b.v = 7
    <3>. HIDE DEF q, b, c, L
    <3>1. c.at > 2 /\ q.state = "head_state1"
      BY <1>1, <1>3, <1>7, <2>1, <2>3
    <3>2. Single(q, c)
      BY <1>2, <1>7, <2>1, <2>3, <3>1, Zenon DEF Single, Took
    <3>3. Where(q, k + 1)
      BY <1>4, <2>1, <2>3, <3>2 DEF Where, L, c
    <3>. QED  BY <2>1, <2>3, <3>2, <3>3, Zenon DEF q, b, c, L
  <2>. QED  BY <2>2, <2>3
<1>. QED  BY <1>5, <1>6, <1>7, Zenon DEF Safe, b

\* A byte that ends no frame takes the automaton from one place to the next.
LEMMA WhereStep ==
  ASSUME HistoryOK, StreamOK, NEW k \in Nat, k < Len(toDevice),
         NEW p, ParserOK(p), IndexOK(p), Where(p, k), DoneOK(p, k), ~Overflows(p),
         ~Success(p, toDevice[k + 1])
  PROVE  LET q == Parse(p, toDevice[k + 1])
         IN  ParserOK(q) /\ IndexOK(q) /\ Where(q, k + 1) /\ DoneOK(q, k + 1)
<1>. DEFINE b == toDevice[k + 1]
            c == toDevice[k + 2]
            q == Parse(p, b)
            f == frames[b.n]
            m == Message(b.n)
            L == Len(toDevice)
<1>1. /\ b \in Bytes /\ b.n \in Nat /\ b.at \in Nat /\ b.at \in 1 .. Len(m) /\ b.v = m[b.at]
      /\ FitsIn(f, m)
      /\ b.at < Len(m) => /\ k + 1 < L /\ c.n = b.n /\ c.at = b.at + 1
      /\ k + 1 < L /\ ~(b.at < Len(m)) => c.n = b.n + 1 /\ c.at = 1
  BY NextByte
<1>2. ~Overflows(p) /\ ~Success(p, b) /\ (k + 1) + 1 = k + 2
  OBVIOUS
<1>3. /\ ParserOK(q) /\ IndexOK(q) /\ Same(q, ParseByte(p, b.v))
      /\ Took(q, p, b)
  <2>. HIDE DEF b, m
  <2>. QED  BY <1>1, <1>2, TypedStep, IndexStays
<1>4. ASSUME Single(p, b)
      PROVE  /\ q.state = "none" /\ p.state = "head_state1" /\ Between(q, k + 1)
             /\ b.at > 1
  <2>0. p.state = "head_state1" /\ b.v # 65 /\ Plain(b) /\ b.at > 2
    BY <1>4 DEF Single
  <2>1. p.state = "head_state1" /\ b.v # 65
    BY <2>0
  <2>2. p.state \in States /\ p \in Automata(Values, Word, 0 .. DataSize, [1 .. DataSize -> Values])
    BY ParserFields
  <2>3. ParseByte(p, b.v) = To(p, "none")
    <3>. HIDE DEF b
    <3>. QED  BY <2>1, <2>2, ParseByteIs
  <2>4. To(p, "none").state = "none"
    BY <2>2 DEF To, Automata
  <2>5. k + 1 < L => Safe(c)
    BY <2>0, PlainNext
  <2>6. b.at > 1
    <3>. HIDE DEF b
    <3>. QED  BY <1>1, <2>0
  <2>. HIDE DEF b, q, c, L
  <2>7. q.state = "none"
    BY <1>3, <2>1, <2>3, <2>4 DEF Same
  <2>. QED  BY <1>2, <2>1, <2>5, <2>6, <2>7 DEF Between, L, c
<1>5. ASSUME p.state = "none", Safe(b)
      PROVE  /\ Where(q, k + 1)
             /\ b.at > 1 => q.state = "none" \/ Mixed(q) \/ (k + 1 < L /\ Single(q, c))
  BY <1>5, FromNone
<1>10. ASSUME Mixed(p), ~(p.state = "none" /\ b.at = 1)  PROVE Mixed(q)
  <2>. HIDE DEF b, q
  <2>. QED  BY <1>3, <1>10 DEF Mixed, Took
<1>11. p.state = "none" /\ b.at = 1 => Safe(b)
  BY DEF Safe
<1>6. Where(q, k + 1)
  <2>1. CASE Between(p, k)
    BY <1>5, <2>1, Zenon DEF Between
  <2>2. CASE Mixed(p)
    <3>1. CASE p.state = "none" /\ b.at = 1
      BY <1>5, <1>11, <3>1, Zenon
    <3>2. CASE ~(p.state = "none" /\ b.at = 1)
      <4>1. Mixed(q)
        BY <1>10, <2>2, <3>2, Zenon
      <4>. QED  BY <4>1, Zenon DEF Where
    <3>. QED  BY <3>1, <3>2
  <2>3. CASE Single(p, b)
    <3>1. Between(q, k + 1)
      BY <1>4, <2>3, Zenon
    <3>. QED  BY <3>1, Zenon DEF Where
  <2>4. CASE Inside(p, b)
    <3>1. p.src = {b.n} /\ b.at > 1 /\ Holds(p, f, b.at)
      BY <2>4 DEF Inside
    <3>2. b.at < Len(m)
      <4>. SUFFICES ASSUME ~(b.at < Len(m))  PROVE FALSE
        OBVIOUS
      <4>. DEFINE l == Len(f.data)
      <4>1. Len(m) = l + 8 /\ m[8 + l] = 13 /\ l \in 1 .. DataSize
        BY <1>1 DEF FitsIn, Contents
      <4>2. DataSize \in Nat
        BY KeysAssumption, SmallValues
      <4>. DEFINE at == b.at
      <4>. HIDE DEF m, l, at
      <4>3. l \in Nat /\ l > 0 /\ at = 8 + l /\ b.v = 13
        <5>1. l \in Nat /\ l > 0 /\ at \in 1 .. Len(m) /\ ~(at < Len(m))
          BY <1>1, <4>1, <4>2 DEF at
        <5>2. at = 8 + l
          BY <4>1, <5>1
        <5>3. b.v = 13
          BY <1>1, <4>1, <5>2, Zenon DEF at
        <5>. QED  BY <5>1, <5>2, <5>3
      <4>4. at # 2 /\ at # 3 /\ at # 4 /\ at # 5 /\ at # 6 /\ at # 7 + l /\ ~(at \in 7 .. 6 + l)
        BY <4>3
      <4>5. Holds(p, f, at)
        BY <3>1 DEF at
      <4>6. p.state = "end2"
        BY <4>4, <4>5, Zenon DEF Holds, l
      <4>. HIDE DEF b
      <4>. QED  BY <1>2, <4>3, <4>6, Zenon DEF Success
    <3>3. Holds(q, f, b.at + 1) /\ p.state # "none"
      <4>. DEFINE at == b.at
      <4>1. /\ at \in 1 .. Len(m) /\ at > 1 /\ at < Len(m) /\ Holds(p, f, at) /\ b.v = m[at]
            /\ FitsIn(f, m) /\ b \in Bytes
        BY <1>1, <3>1, <3>2
      <4>. HIDE DEF f, m, b, at
      <4>2. Holds(Parse(p, b), f, at + 1) /\ p.state # "none"
        BY <4>1, HoldsStep
      <4>. QED  BY <4>2 DEF at
    <3>4. k + 1 < L /\ c.n = b.n /\ c.at = b.at + 1
      BY <1>1, <3>2
    <3>. HIDE DEF b, c, q, m, L
    <3>5. q.src = {c.n} /\ c.at > 1 /\ Holds(q, frames[c.n], c.at)
      BY <1>1, <1>3, <3>1, <3>3, <3>4 DEF f, Took
    <3>6. Inside(q, c)
      BY <3>5 DEF Inside
    <3>. QED  BY <1>2, <3>4, <3>6 DEF Where, c, L
  <2>. QED  BY <2>1, <2>2, <2>3, <2>4 DEF Where
<1>7. DoneOK(q, k + 1)
  <2>. SUFFICES ASSUME k + 1 < L, NEW d \in dDone
                PROVE  d < c.n \/ (d = c.n /\ Passing(q, c))
    BY <1>2, Zenon DEF DoneOK
  <2>1. d \in Nat
    BY DoneNumbers
  <2>2. d < b.n \/ (d = b.n /\ Passing(p, b))
    BY DEF DoneOK
  <2>6. ASSUME p.state = "none"  PROVE Safe(b) \/ Mixed(p)
    <3>1. ~Inside(p, b) /\ ~Single(p, b)
      BY <2>6, Zenon DEF Inside, Single, Holds
    <3>. QED  BY <3>1, Zenon DEF Where, Between
  <2>. HIDE DEF b, c, q, m, L
  <2>3. (c.n = b.n /\ c.at = b.at + 1) \/ c.n = b.n + 1
    BY <1>1
  <2>4. CASE d < b.n
    BY <1>1, <2>1, <2>3, <2>4
  <2>5. CASE d = b.n /\ Passing(p, b)
    <3>0. b.at > 1 /\ (p.state = "none" \/ Single(p, b) \/ Mixed(p)) /\ b.at # 1
      BY <2>5 DEF Passing
    <3>1. q.state = "none" \/ Single(q, c) \/ Mixed(q)
      BY <1>4, <1>5, <1>10, <2>6, <3>0, Zenon
    <3>2. c.n = b.n => c.at > 1
      BY <1>1, <2>3, <3>0
    <3>3. c.n = b.n => Passing(q, c)
      BY <3>1, <3>2, Zenon DEF Passing
    <3>. QED  BY <1>1, <2>3, <2>5, <3>3
  <2>. QED  BY <2>2, <2>4, <2>5
<1>. QED  BY <1>3, <1>6, <1>7

\* The byte that ends a frame: it is a whole one, unless one was cut.
LEMMA FrameEnds ==
  ASSUME HistoryOK, StreamOK, NEW k \in Nat, k < Len(toDevice),
         NEW p, ParserOK(p), IndexOK(p), Where(p, k), DoneOK(p, k), ~Overflows(p),
         Success(p, toDevice[k + 1])
  PROVE  LET b == toDevice[k + 1]
             q == Parse(p, b)
         IN  /\ ParserOK(q) /\ IndexOK(q) /\ q.state = "none" /\ Where(q, k + 1)
             /\ \A d \in dDone : d <= b.n
             /\ (Whole(q, b.n) /\ \A d \in dDone : d < b.n) \/ Mixed(q)
<1>. DEFINE b == toDevice[k + 1]
            q == Parse(p, b)
            f == frames[b.n]
            m == Message(b.n)
            l == Len(f.data)
<1>1. /\ b \in Bytes /\ b.n \in Nat /\ b.at \in Nat /\ b.at \in 1 .. Len(m) /\ b.v = m[b.at]
      /\ FitsIn(f, m)
  BY NextByte
<1>2. p.state = "end2" /\ b.v = 13 /\ ~Overflows(p)
  BY DEF Success
<1>3. /\ ParserOK(q) /\ IndexOK(q) /\ Same(q, ParseByte(p, b.v)) /\ q.src = p.src \cup {b.n}
  <2>1. ~(p.state = "none")
    BY <1>2
  <2>. HIDE DEF b, m, q
  <2>2. ParserOK(q) /\ IndexOK(q) /\ Same(q, ParseByte(p, b.v)) /\ Took(q, p, b)
    BY <1>1, <1>2, TypedStep, IndexStays DEF q
  <2>. QED  BY <2>1, <2>2, Zenon DEF Took
<1>4. /\ q.state = "none" /\ q.fc = p.fc /\ q.length = p.length /\ q.data = p.data
  <2>1. p.state \in States /\ p \in Automata(Values, Word, 0 .. DataSize, [1 .. DataSize -> Values])
    BY ParserFields
  <2>. HIDE DEF b, q
  <2>2. ParseByte(p, b.v) = To(p, "none")
    BY <1>2, <2>1, ParseByteIs
  <2>. QED  BY <1>3, <2>1, <2>2 DEF To, Automata, Same
<1>5. ~Single(p, b) /\ p.state # "none"
  BY <1>2 DEF Single
<1>6. /\ \A d \in dDone : d <= b.n
      /\ ~Mixed(p) => \A d \in dDone : d < b.n
  <2>1. \A d \in dDone : d < b.n \/ (d = b.n /\ Passing(p, b))
    BY DEF DoneOK
  <2>2. Passing(p, b) => Mixed(p)
    BY <1>5, Zenon DEF Passing
  <2>3. \A d \in dDone : d \in Nat
    BY DoneNumbers
  <2>. HIDE DEF b
  <2>. QED  BY <1>1, <2>1, <2>2, <2>3
<1>7. Whole(q, b.n) \/ Mixed(p)
  <2>1. CASE Mixed(p)
    BY <2>1
  <2>2. CASE Inside(p, b)
    <3>1. p.src = {b.n} /\ Holds(p, f, b.at)
      BY <2>2 DEF Inside
    <3>. HIDE DEF q, b, f, m
    <3>2. p.fc = f.fc /\ p.length = l /\ \A i \in 1 .. l : p.data[i] = f.data[i]
      BY <1>2, <3>1, Zenon DEF Holds
    <3>3. /\ p.data \in [1 .. DataSize -> Values] /\ DataSize \in Nat
          /\ p.data \in Seq(Values) /\ Len(p.data) = DataSize
      BY ParserFields
    <3>4. l \in 1 .. DataSize /\ f.data \in Seq(Values)
      BY <1>1 DEF FitsIn
    <3>5. SubSeq(p.data, 1, l) = f.data
      <4>. DEFINE s == SubSeq(p.data, 1, l)
                  d == f.data
                  e == p.data
      <4>1. l = Len(d) /\ l \in Nat /\ d \in Seq(Values) /\ e \in Seq(Values) /\ l <= Len(e)
        BY <3>3, <3>4
      <4>2. \A i \in 1 .. l : e[i] = d[i]
        BY <3>2
      <4>. HIDE DEF d, e, l
      <4>3. Len(s) = l /\ s \in Seq(Values) /\ \A i \in 1 .. l : s[i] = e[i]
        BY <4>1 DEF e
      <4>. HIDE DEF s
      <4>4. s = d
        BY <4>1, <4>2, <4>3, SeqEqual, Zenon
      <4>. QED  BY <4>4 DEF s, d
    <3>6. q.src = {b.n} /\ q.fc = frames[b.n].fc /\ SubSeq(q.data, 1, q.length) = frames[b.n].data
      <4>1. q.src = {b.n}
        BY <1>3, <3>1
      <4>. HIDE DEF l
      <4>. QED  BY <1>4, <3>2, <3>5, <4>1 DEF f
    <3>. QED  BY <3>6 DEF Whole
  <2>. QED  BY <1>5, <2>1, <2>2, Zenon DEF Where, Between, b
<1>8. Mixed(p) => Mixed(q)
  <2>. HIDE DEF q, b
  <2>. QED  BY <1>3 DEF Mixed
<1>9. Where(q, k + 1)
  <2>1. CASE Mixed(p)
    BY <1>8, <2>1, Zenon DEF Where
  <2>2. CASE Inside(p, b)
    <3>1. Holds(p, f, b.at)
      BY <2>2 DEF Inside
    <3>2. b.at = 8 + l
      <4>. HIDE DEF f
      <4>. QED  BY <1>2, <3>1, Zenon DEF Holds, l
    <3>3. ~(b.at < Len(m))
      <4>1. Len(m) = l + 8 /\ l \in 1 .. DataSize
        BY <1>1 DEF FitsIn, Contents
      <4>2. DataSize \in Nat
        BY KeysAssumption, SmallValues
      <4>. HIDE DEF l, m
      <4>. QED  BY <3>2, <4>1, <4>2
    <3>4. k + 1 < Len(toDevice) => toDevice[k + 2].at = 1
      BY <3>3, NextByte
    <3>5. (k + 1) + 1 = k + 2
      OBVIOUS
    <3>. HIDE DEF q
    <3>. QED  BY <1>4, <3>4, <3>5, Zenon DEF Where, Between, Safe
  <2>. QED  BY <1>5, <2>1, <2>2, Zenon DEF Where, Between, b
<1>. QED  BY <1>3, <1>4, <1>6, <1>7, <1>8, <1>9, Zenon

-----------------------------------------------------------------------------
(* The loops of the two sides over what they have received.                *)

LEMMA BytesAreInputs ==
  ASSUME NEW s \in Seq(Bytes), NEW a \in Nat, NEW z \in 0 .. Len(s)
  PROVE  /\ SubSeq(s, a + 1, z) \in Seq(Inputs)
         /\ Len(SubSeq(s, a + 1, z)) = IF a < z THEN z - a ELSE 0
         /\ \A i \in 1 .. Len(SubSeq(s, a + 1, z)) :
              SubSeq(s, a + 1, z)[i] = s[a + i] /\ s[a + i] \in Bytes /\ a + i <= z
<1>. DEFINE t == SubSeq(s, a + 1, z)
<1>1. Bytes \subseteq Inputs
  BY SmallValues DEF Bytes, Inputs
<1>2. /\ t \in Seq(Bytes) /\ Len(t) = IF a < z THEN z - a ELSE 0
      /\ \A i \in 1 .. Len(t) : t[i] = s[a + i]
  OBVIOUS
<1>3. \A i \in 1 .. Len(t) : a + i <= z
  <2>1. z \in Int
    OBVIOUS
  <2>. HIDE DEF t
  <2>. QED  BY <1>2, <2>1
<1>. HIDE DEF t
<1>4. t \in Seq(Inputs)
  BY <1>1, <1>2, WiderSeq, Zenon
<1>5. \A i \in 1 .. Len(t) : t[i] \in Bytes
  BY <1>2
<1>. QED  BY <1>2, <1>3, <1>4, <1>5, Zenon DEF t

\* What holds at the end of a loop in the set J.
LEMMA OutcomeIs ==
  ASSUME NEW s \in Seq(Inputs), NEW x \in Progress(s), ~Goes(s, x)
  PROVE  LET r == Outcome(s, x)
             y == Taking(s, x)
         IN  \/ /\ ~r.complete /\ r.parser = x.parser /\ r.taken = x.taken
             \/ /\ r.complete /\ x.taken < Len(s) /\ ~Overflows(x.parser)
                /\ Success(x.parser, s[x.taken + 1])
                /\ r.parser = Parse(x.parser, s[x.taken + 1]) /\ r.taken = x.taken + 1
<1>1. x.taken \in 0 .. Len(s) /\ Len(s) \in Nat
  BY DEF Progress
<1>2. CASE x.taken = Len(s) \/ Overflows(x.parser)
  <2>1. Outcome(s, x) = [parser |-> x.parser, taken |-> x.taken, complete |-> FALSE]
    BY <1>2, Zenon DEF Outcome, Ended
  <2>. QED  BY <2>1
<1>3. CASE ~(x.taken = Len(s) \/ Overflows(x.parser))
  <2>. DEFINE y == Taking(s, x)
  <2>1. Outcome(s, x) = [parser |-> y.parser, taken |-> y.taken, complete |-> TRUE]
    BY <1>3, Zenon DEF Outcome, Ended
  <2>2. y.parser = Parse(x.parser, s[x.taken + 1]) /\ y.taken = x.taken + 1
    BY DEF Taking
  <2>3. x.taken < Len(s)
    BY <1>1, <1>3
  <2>4. Success(x.parser, s[x.taken + 1])
    BY <1>3, <2>3 DEF Goes
  <2>. HIDE DEF y
  <2>. QED  BY <1>3, <2>1, <2>2, <2>3, <2>4
<1>. QED  BY <1>2, <1>3

\* Whatever bytes come, the automaton stays well typed.
LEMMA RunTyped ==
  ASSUME NEW t \in Seq(Bytes), NEW a \in Nat, NEW z \in 0 .. Len(t), NEW p, ParserOK(p)
  PROVE  LET r == Run(p, SubSeq(t, a + 1, z))
         IN  ParserOK(r.parser) /\ r.taken \in Nat
<1>. DEFINE s == SubSeq(t, a + 1, z)
            J == {x \in Progress(s) : ParserOK(x.parser)}
            x0 == [parser |-> p, taken |-> 0]
<1>1. /\ s \in Seq(Inputs) /\ Len(s) \in Nat
      /\ \A i \in 1 .. Len(s) : s[i] \in Bytes
  <2>1. s \in Seq(Inputs) /\ \A i \in 1 .. Len(s) : s[i] = t[a + i] /\ t[a + i] \in Bytes
    BY BytesAreInputs
  <2>. HIDE DEF s
  <2>. QED  BY <2>1
<1>2. p \in Parsers
  BY ParserFields
<1>. HIDE DEF s
<1>3. x0 \in J
  BY <1>1, <1>2 DEF Progress
<1>4. ASSUME NEW x \in J, x.taken < Len(s), ~Overflows(x.parser)
      PROVE  ParserOK(Parse(x.parser, s[x.taken + 1]))
  <2>1. x.taken + 1 \in 1 .. Len(s)
    BY <1>1, <1>4 DEF Progress
  <2>. QED  BY <1>1, <1>4, <2>1, TypedStep
<1>5. ASSUME NEW x \in J, Goes(s, x)  PROVE Taking(s, x) \in J
  <2>1. x.taken < Len(s) /\ ~Overflows(x.parser)
    BY <1>5 DEF Goes
  <2>2. Taking(s, x) \in Progress(s)
    BY <1>1, <2>1, TakingStays
  <2>3. ParserOK(Taking(s, x).parser)
    BY <1>4, <2>1 DEF Taking
  <2>. QED  BY <2>2, <2>3
<1>6. PICK x \in J : ~Goes(s, x) /\ Run(p, s) = Outcome(s, x)
  <2>1. J \in SUBSET Progress(s)
    OBVIOUS
  <2>. HIDE DEF J
  <2>. QED  BY <1>1, <1>2, <1>3, <1>5, <2>1, RunEnds
<1>7. x \in Progress(s) /\ ParserOK(x.parser) /\ x.taken \in 0 .. Len(s)
  BY DEF Progress
<1>. DEFINE r == Run(p, s)
<1>. HIDE DEF J
<1>8. \/ r.parser = x.parser /\ r.taken = x.taken
      \/ /\ x.taken < Len(s) /\ ~Overflows(x.parser)
         /\ r.parser = Parse(x.parser, s[x.taken + 1]) /\ r.taken = x.taken + 1
  BY <1>1, <1>6, <1>7, OutcomeIs
<1>9. ParserOK(r.parser) /\ r.taken \in Nat
  BY <1>1, <1>4, <1>6, <1>7, <1>8
<1>. QED  BY <1>9 DEF s

\* The device's loop over n bytes of the stream: it ends with a whole frame, or
\* with one that mixes with a cut one, or between two places of the stream.
LEMMA ReceiveEnds ==
  ASSUME HistoryOK, StreamOK, ParserOK(dParser), DeviceOK,
         NEW n \in 0 .. Len(toDevice)
  PROVE  LET r == Run(dParser, SubSeq(toDevice, 1, n))
         IN  /\ r.taken \in 0 .. Len(toDevice) /\ ParserOK(r.parser) /\ IndexOK(r.parser)
             /\ \/ ~r.complete /\ Where(r.parser, r.taken) /\ DoneOK(r.parser, r.taken)
                \/ /\ r.complete /\ r.taken > 0 /\ r.parser.state = "none"
                   /\ Where(r.parser, r.taken)
                   /\ \A d \in dDone : d <= toDevice[r.taken].n
                   /\ \/ /\ Whole(r.parser, toDevice[r.taken].n)
                         /\ \A d \in dDone : d < toDevice[r.taken].n
                      \/ Mixed(r.parser)
<1>. DEFINE s == SubSeq(toDevice, 1, n)
            OK(p, k) == ParserOK(p) /\ IndexOK(p) /\ Where(p, k) /\ DoneOK(p, k)
            J == {x \in Progress(s) : OK(x.parser, x.taken)}
            x0 == [parser |-> dParser, taken |-> 0]
            L == Len(toDevice)
<1>1. /\ s \in Seq(Inputs) /\ Len(s) = n /\ n \in Nat /\ L \in Nat /\ n <= L
      /\ \A i \in 1 .. Len(s) : s[i] = toDevice[i]
  <2>1. toDevice \in Seq(Bytes) /\ 0 \in Nat /\ 0 + 1 = 1
    BY DEF HistoryOK
  <2>2. L \in Nat /\ n \in Nat /\ n <= L
    BY <2>1
  <2>3. /\ s \in Seq(Inputs) /\ Len(s) = (IF 0 < n THEN n - 0 ELSE 0)
        /\ \A i \in 1 .. Len(s) : s[i] = toDevice[0 + i]
    <3>1. /\ SubSeq(toDevice, 0 + 1, n) \in Seq(Inputs)
          /\ Len(SubSeq(toDevice, 0 + 1, n)) = IF 0 < n THEN n - 0 ELSE 0
          /\ \A i \in 1 .. Len(SubSeq(toDevice, 0 + 1, n)) :
               SubSeq(toDevice, 0 + 1, n)[i] = toDevice[0 + i]
      BY <2>1, BytesAreInputs, Zenon
    <3>. QED  BY <2>1, <3>1, Zenon
  <2>. HIDE DEF s, L
  <2>4. \A i \in 1 .. Len(s) : 0 + i = i
    BY <2>2, <2>3
  <2>5. Len(s) = n
    BY <2>2, <2>3
  <2>. QED  BY <2>2, <2>3, <2>4, <2>5
<1>2. dParser \in Parsers
  BY ParserFields
<1>. HIDE DEF s, L
<1>3. x0 \in J
  <2>1. x0 \in Progress(s)
    BY <1>1, <1>2 DEF Progress
  <2>2. OK(x0.parser, x0.taken)
    <3>1. OK(dParser, 0)
      BY DEF DeviceOK
    <3>. HIDE DEF OK
    <3>. QED  BY <3>1
  <2>. HIDE DEF OK, x0
  <2>. QED  BY <2>1, <2>2
<1>4. ASSUME NEW x \in J, x.taken < Len(s), ~Overflows(x.parser)
      PROVE  /\ x.taken \in Nat /\ x.taken < Len(toDevice) /\ x.taken + 1 \in 1 .. L
             /\ s[x.taken + 1] = toDevice[x.taken + 1]
  <2>1. x.taken \in Nat /\ x.taken < L /\ x.taken + 1 \in 1 .. Len(s) /\ x.taken + 1 \in 1 .. L
    <3>1. x.taken \in 0 .. Len(s)
      BY DEF Progress
    <3>. QED  BY <1>1, <1>4, <3>1
  <2>2. s[x.taken + 1] = toDevice[x.taken + 1]
    BY <1>1, <2>1, Zenon
  <2>. QED  BY <2>1, <2>2 DEF L
<1>5. ASSUME NEW x \in J, Goes(s, x)  PROVE Taking(s, x) \in J
  <2>1. /\ x.taken < Len(s) /\ ~Overflows(x.parser) /\ ~Success(x.parser, s[x.taken + 1])
        /\ OK(x.parser, x.taken) /\ x \in Progress(s)
    BY <1>5 DEF Goes
  <2>. DEFINE y == Taking(s, x)
              k == x.taken
              q == Parse(x.parser, toDevice[k + 1])
  <2>2. y \in Progress(s)
    BY <1>1, <2>1, TakingStays
  <2>3. k \in Nat /\ k < Len(toDevice) /\ s[k + 1] = toDevice[k + 1]
    BY <1>4, <2>1
  <2>4. y.parser = q /\ y.taken = k + 1
    BY <2>3 DEF Taking
  <2>5. OK(q, k + 1)
    <3>1. ~Success(x.parser, toDevice[k + 1])
      BY <2>1, <2>3
    <3>2. ParserOK(x.parser) /\ IndexOK(x.parser) /\ Where(x.parser, k) /\ DoneOK(x.parser, k)
      BY <2>1
    <3>. HIDE DEF k
    <3>3. ParserOK(q) /\ IndexOK(q) /\ Where(q, k + 1) /\ DoneOK(q, k + 1)
      BY <2>1, <2>3, <3>1, <3>2, WhereStep
    <3>. QED  BY <3>3
  <2>. HIDE DEF OK, y, k, q
  <2>. QED  BY <2>2, <2>4, <2>5 DEF y
<1>6. PICK x \in J : ~Goes(s, x) /\ Run(dParser, s) = Outcome(s, x)
  <2>1. J \in SUBSET Progress(s)
    OBVIOUS
  <2>. HIDE DEF J
  <2>. QED  BY <1>1, <1>2, <1>3, <1>5, <2>1, RunEnds
<1>7. x \in Progress(s) /\ OK(x.parser, x.taken) /\ x.taken \in 0 .. Len(s)
  BY DEF Progress
<1>. DEFINE r == Run(dParser, s)
            k == x.taken
            b == toDevice[k + 1]
<1>8. CASE ~r.complete /\ r.parser = x.parser /\ r.taken = x.taken
  <2>1. r.taken \in 0 .. L
    BY <1>1, <1>7, <1>8
  <2>2. OK(r.parser, r.taken)
    <3>. HIDE DEF OK, r
    <3>. QED  BY <1>7, <1>8
  <2>. HIDE DEF r
  <2>. QED  BY <1>8, <2>1, <2>2 DEF r, s, L
<1>9. CASE /\ r.complete /\ x.taken < Len(s) /\ ~Overflows(x.parser)
           /\ Success(x.parser, s[x.taken + 1])
           /\ r.parser = Parse(x.parser, s[x.taken + 1]) /\ r.taken = x.taken + 1
  <2>1. k \in Nat /\ k < Len(toDevice) /\ k + 1 \in 1 .. L /\ s[k + 1] = b
    BY <1>4, <1>9
  <2>2. /\ ParserOK(Parse(x.parser, b)) /\ IndexOK(Parse(x.parser, b))
        /\ Parse(x.parser, b).state = "none" /\ Where(Parse(x.parser, b), k + 1)
        /\ \A d \in dDone : d <= b.n
        /\ \/ Whole(Parse(x.parser, b), b.n) /\ \A d \in dDone : d < b.n
           \/ Mixed(Parse(x.parser, b))
    <3>1. Success(x.parser, toDevice[k + 1]) /\ ~Overflows(x.parser)
      BY <1>9, <2>1
    <3>. HIDE DEF k
    <3>. QED  BY <1>7, <2>1, <3>1, FrameEnds DEF k
  <2>3. r.parser = Parse(x.parser, b) /\ r.taken = k + 1 /\ r.complete
    BY <1>9, <2>1
  <2>4. r.taken \in 0 .. L /\ r.taken > 0 /\ toDevice[r.taken] = b
    <3>. HIDE DEF r
    <3>. QED  BY <1>1, <2>1, <2>3
  <2>. HIDE DEF r, b, k
  <2>. QED  BY <2>2, <2>3, <2>4 DEF r, s, L
<1>. QED
  <2>1. \/ ~r.complete /\ r.parser = x.parser /\ r.taken = x.taken
        \/ /\ r.complete /\ x.taken < Len(s) /\ ~Overflows(x.parser)
           /\ Success(x.parser, s[x.taken + 1])
           /\ r.parser = Parse(x.parser, s[x.taken + 1]) /\ r.taken = x.taken + 1
    <3>. HIDE DEF J
    <3>. QED  BY <1>1, <1>6, <1>7, OutcomeIs
  <2>. QED  BY <1>8, <1>9, <2>1, Zenon

-----------------------------------------------------------------------------
(* The steps.                                                              *)

LEMMA TaggedIs ==
  ASSUME NEW s \in Seq(Values), NEW n \in Nat
  PROVE  /\ Tagged(s, n) \in Seq(Bytes) /\ Len(Tagged(s, n)) = Len(s)
         /\ \A i \in 1 .. Len(s) :
              /\ Tagged(s, n)[i].v = s[i] /\ Tagged(s, n)[i].n = n /\ Tagged(s, n)[i].at = i
<1>1. Len(s) \in Nat /\ \A i \in 1 .. Len(s) : s[i] \in Values /\ i \in Nat
  BY ElementOfSeq
<1>. DEFINE l == Len(s)
            t == Tagged(s, n)
<1>2. t = [i \in 1 .. l |-> [v |-> s[i], n |-> n, at |-> i]]
  BY DEF Tagged
<1>3. \A i \in 1 .. l : [v |-> s[i], n |-> n, at |-> i] \in Bytes
  BY <1>1 DEF Bytes
<1>. HIDE DEF t, l
<1>4. t \in [1 .. l -> Bytes] /\ DOMAIN t = 1 .. l
  BY <1>2, <1>3
<1>5. l \in Nat
  BY <1>1 DEF l
<1>6. t \in Seq(Bytes) /\ Len(t) = l
  <2>1. t \in Seq(Bytes)
    BY <1>4, <1>5, SeqDef
  <2>. QED  BY <1>4, <1>5, <2>1
<1>7. \A i \in 1 .. l : t[i].v = s[i] /\ t[i].n = n /\ t[i].at = i
  BY <1>2
<1>. QED  BY <1>6, <1>7 DEF t, l

\* The rest of the stream, when its first bytes are gone.
LEMMA Suffix ==
  ASSUME HistoryOK, StreamOK, NEW K \in 0 .. Len(toDevice),
         toDevice' = SubSeq(toDevice, K + 1, Len(toDevice)), frames' = frames
  PROVE  /\ toDevice' \in Seq(Bytes) /\ Len(toDevice') = Len(toDevice) - K
         /\ \A i \in 1 .. Len(toDevice') :
              toDevice'[i] = toDevice[K + i] /\ K + i \in 1 .. Len(toDevice)
         /\ StreamOK'
<1>. DEFINE t == toDevice
            L == Len(toDevice)
            u == toDevice'
            M == Len(u)
<1>1. t \in Seq(Bytes) /\ L \in Nat /\ K \in Nat /\ K <= L
  BY DEF HistoryOK
<1>2. u = SubSeq(t, K + 1, L)
  OBVIOUS
<1>3. /\ u \in Seq(Bytes) /\ Len(u) = L - K
      /\ \A i \in 1 .. L - K : u[i] = t[K + i]
  <2>. HIDE DEF u, t
  <2>1. t \in Seq(Bytes) /\ L = Len(t)
    BY <1>1 DEF t
  <2>. HIDE DEF L
  <2>2. L = Len(t) /\ K \in Nat /\ K <= L /\ L \in Nat
    BY <1>1, <2>1
  <2>3. /\ SubSeq(t, K + 1, L) \in Seq(Bytes) /\ Len(SubSeq(t, K + 1, L)) = L - K
        /\ \A i \in 1 .. L - K : SubSeq(t, K + 1, L)[i] = t[K + i]
    BY <2>1, <2>2, SMTT(30)
  <2>. QED  BY <1>2, <2>3, Zenon
<1>. HIDE DEF t, L, u
<1>4. \A i \in 1 .. M : K + i \in 1 .. L
  BY <1>1, <1>3
<1>5. \A i \in 1 .. M : u[i] = t[K + i]
  BY <1>3
<1>6. \A i \in 1 .. M : OfFrame(u[i])
  <2>. TAKE i \in 1 .. M
  <2>1. OfFrame(t[K + i])
    BY <1>4 DEF StreamOK, t, L
  <2>. QED  BY <1>5, <2>1, Zenon
<1>7. \A i \in 1 .. M - 1 : Follows(u[i], u[i + 1])
  <2>. TAKE i \in 1 .. M - 1
  <2>1. /\ i \in 1 .. M /\ i + 1 \in 1 .. M /\ K + i \in 1 .. L - 1
        /\ K + (i + 1) = (K + i) + 1
    BY <1>1, <1>3
  <2>2. Follows(t[K + i], t[(K + i) + 1])
    BY <2>1 DEF StreamOK, t, L
  <2>3. u[i] = t[K + i] /\ u[i + 1] = t[(K + i) + 1]
    BY <1>5, <2>1
  <2>. QED  BY <2>2, <2>3, Zenon
<1>8. ASSUME u # <<>>
      PROVE  u[M].n = Len(frames) /\ u[M].at = Len(Message(u[M].n))
  <2>1. M \in 1 .. M /\ K + M = L /\ L > 0
    BY <1>1, <1>3, <1>8
  <2>2. u[M] = t[L]
    BY <1>5, <2>1
  <2>3. t # <<>>
    BY <2>1 DEF L, t
  <2>4. t[L].n = Len(frames) /\ t[L].at = Len(Message(t[L].n))
    BY <2>3 DEF StreamOK, t, L
  <2>. QED  BY <2>2, <2>4
<1>9. \A k : Message(k)' = Message(k)
  BY DEF Message
<1>10. StreamOK'
  <2>1. \A i \in 1 .. Len(toDevice') : OfFrame(toDevice[i])'
    BY <1>6, <1>9 DEF OfFrame, u
  <2>2. \A i \in 1 .. Len(toDevice') - 1 : Follows(toDevice[i], toDevice[i + 1])'
    BY <1>7, <1>9 DEF Follows, u
  <2>3. toDevice' # <<>> =>
          /\ toDevice'[Len(toDevice')].n = Len(frames')
          /\ toDevice'[Len(toDevice')].at = Len(Message(toDevice[Len(toDevice)].n)')
    BY <1>8, <1>9 DEF u
  <2>. QED  BY <2>1, <2>2, <2>3 DEF StreamOK
<1>. QED  BY <1>3, <1>4, <1>5, <1>10 DEF t, L, u

\* No byte of the stream comes before its head.
LEMMA HeadFirst ==
  ASSUME HistoryOK, StreamOK, NEW i \in 1 .. Len(toDevice)
  PROVE  LET a == toDevice[1]
             b == toDevice[i]
         IN  a.n < b.n \/ (a.n = b.n /\ a.at <= b.at)
<1>. DEFINE L == Len(toDevice)
            a == toDevice[1]
            Later(b) == a.n < b.n \/ (a.n = b.n /\ a.at <= b.at)
            Bad == {k \in 1 .. L : ~Later(toDevice[k])}
<1>1. toDevice \in Seq(Bytes) /\ L \in Nat
  BY DEF HistoryOK
<1>2. \A k \in 1 .. L : toDevice[k].n \in Nat /\ toDevice[k].at \in Nat
  <2>. TAKE k \in 1 .. L
  <2>1. toDevice[k] \in Bytes
    BY <1>1, ElementOfSeq
  <2>. QED  BY <2>1 DEF Bytes
<1>3. 1 \in 1 .. L
  BY <1>1
<1>. SUFFICES ASSUME Bad # {}  PROVE FALSE
  OBVIOUS
<1>4. PICK k \in Bad : \A x \in Bad : k <= x
  <2>1. Bad \in SUBSET Nat
    OBVIOUS
  <2>. HIDE DEF Bad
  <2>. QED  BY <2>1, LeastNumber
<1>5. k \in 1 .. L /\ ~Later(toDevice[k])
  OBVIOUS
<1>6. k # 1
  BY <1>2, <1>3, <1>5
<1>. DEFINE j0 == k - 1
<1>7. j0 \in 1 .. L - 1 /\ j0 \in 1 .. L /\ j0 + 1 = k /\ j0 < k /\ k \in Nat /\ j0 \in Nat
  BY <1>1, <1>5, <1>6
<1>. DEFINE d == toDevice[j0]
            b == toDevice[k]
<1>8. Later(d)
  <2>1. ~(j0 \in Bad)
    <3>. HIDE DEF Bad, j0
    <3>. QED  BY <1>4, <1>7
  <2>. HIDE DEF Later
  <2>. QED  BY <1>7, <2>1
<1>9. Follows(d, b)
  <2>1. Follows(toDevice[j0], toDevice[j0 + 1])
    BY <1>7 DEF StreamOK
  <2>. QED  BY <1>7, <2>1
<1>10. (b.n = d.n /\ b.at = d.at + 1) \/ b.n = d.n + 1
  <2>. HIDE DEF b, d
  <2>. QED  BY <1>9 DEF Follows
<1>11. /\ a.n \in Nat /\ a.at \in Nat /\ d.n \in Nat /\ d.at \in Nat
       /\ b.n \in Nat /\ b.at \in Nat
  BY <1>2, <1>3, <1>5, <1>7
<1>. HIDE DEF a, b, d
<1>12. Later(b)
  BY <1>8, <1>10, <1>11
<1>. QED  BY <1>5, <1>12 DEF b

LEMMA LengthsAre ==
  ASSUME NEW S, NEW s \in Seq(S), NEW n \in Lengths(s)
  PROVE  n \in 1 .. Len(s) /\ n \in 0 .. Len(s) /\ n \in Nat
<1>1. PICK k \in Cuts \cup {0} : k < Len(s) /\ n = Len(s) - k
  BY DEF Lengths
<1>2. k \in Nat /\ Len(s) \in Nat
  BY SessionBounds
<1>. DEFINE l == Len(s)
<1>. HIDE DEF l
<1>. QED  BY <1>1, <1>2 DEF l

\* The key for the exchange the device answers.
LEMMA KeyLeft ==
  ASSUME HistoryOK
  PROVE  LET n == Cardinality(Exchanges(replies)) + 1
         IN  /\ n \in Nat /\ NewKey(n) \in {DeviceKeys[i] : i \in 1 .. Len(DeviceKeys)}
             /\ NewKey(n) \in Seq(Values) /\ Len(NewKey(n)) = KeyLen
<1>. DEFINE E == Exchanges(replies)
            L == Len(replies)
<1>1. L \in Nat /\ E \subseteq 1 .. L
  BY DEF HistoryOK, Exchanges
<1>. HIDE DEF E, L
<1>2. IsFiniteSet(1 .. L) /\ Cardinality(1 .. L) = L
  BY <1>1, FS_Interval
<1>3. IsFiniteSet(E) /\ Cardinality(E) <= L /\ Cardinality(E) \in Nat
  BY <1>1, <1>2, FS_Subset, FS_CardinalityType
<1>. DEFINE n == Cardinality(E) + 1
            K == Len(DeviceKeys)
            i == 1 + ((n - 1) % K)
<1>4. K \in Nat /\ K > 0 /\ n \in Nat /\ n > 0
  BY <1>3, KeysAssumption
<1>5. i \in 1 .. K
  <2>. HIDE DEF K, n
  <2>. QED  BY <1>4
<1>6. DeviceKeys[i] \in Seq(0 .. 127) /\ Len(DeviceKeys[i]) = Len(AliceKey)
  <2>1. DeviceKeys \in Seq(Seq(0 .. 127)) /\ \A h \in 1 .. K : Len(DeviceKeys[h]) = Len(AliceKey)
    BY KeysAssumption
  <2>. HIDE DEF i
  <2>. QED  BY <1>5, <2>1, ElementOfSeq
<1>7. DeviceKeys[i] \in Seq(Values)
  <2>1. \A s \in Seq(0 .. 127) : s \in Seq(Values)
    BY SmallValues, WiderSeq, Zenon
  <2>. HIDE DEF i
  <2>. QED  BY <1>6, <2>1
<1>8. NewKey(n) = DeviceKeys[i]
  BY DEF NewKey
<1>. HIDE DEF i
<1>. QED  BY <1>4, <1>5, <1>6, <1>7, <1>8, Zenon DEF n, E, K, KeyLen

\* The types of what the device answers.
LEMMA DispatchTypes ==
  ASSUME TypeOK, HistoryOK, NEW d \in [1 .. DataSize -> Values], dpc = "running",
         DispatchKey(d) \/ DispatchCipher \/ DispatchOther
  PROVE  /\ replies' \in Seq(Answers) /\ toPhone' \in Seq(Bytes)
         /\ secret' = NoSecret \/ secret' \in Seq(Values) \X Seq(Values)
         /\ sendmessage' \in {"uninitialised", "freed"} /\ dpc' \in {"running", "stopped"}
<1>1. /\ replies \in Seq(Answers) /\ toPhone \in Seq(Bytes)
      /\ secret = NoSecret \/ secret \in Seq(Values) \X Seq(Values)
      /\ sendmessage \in {"uninitialised", "freed"} /\ dpc = "running"
  BY DEF TypeOK, HistoryOK
<1>2. ASSUME NEW fc \in {1, 20}, NEW data \in Seq(Values), Len(data) <= DataSize,
             Reply(fc, data)
      PROVE  replies' \in Seq(Answers) /\ toPhone' \in Seq(Bytes)
  <2>. DEFINE x == [fc |-> fc, data |-> data]
              m == Frame(fc, data)
              t == Tagged(m, Len(replies) + 1)
  <2>1. replies' = Append(replies, x) /\ toPhone' = toPhone \o t
    BY <1>2 DEF Reply
  <2>2. x \in Answers
    BY DEF Answers
  <2>3. t \in Seq(Bytes)
    <3>1. m \in Seq(Values) /\ Len(replies) + 1 \in Nat
      BY <1>1, <1>2, FrameValues DEF Contents
    <3>. HIDE DEF m
    <3>. QED  BY <3>1, TaggedIs
  <2>. HIDE DEF x, t
  <2>4. toPhone \o t \in Seq(Bytes)
    BY <1>1, <2>3
  <2>5. Append(replies, x) \in Seq(Answers)
    BY <1>1, <2>2
  <2>. QED  BY <2>1, <2>4, <2>5
<1>3. ASSUME NoReply
      PROVE  replies' \in Seq(Answers) /\ toPhone' \in Seq(Bytes)
  BY <1>1, <1>3 DEF NoReply
<1>4. CASE DispatchOther
  BY <1>1, <1>3, <1>4 DEF DispatchOther
<1>5. CASE DispatchCipher
  <2>1. CipherText \in Seq(Values) /\ Len(CipherText) <= DataSize
    <3>1. <<20, CipherText>> \in Kinds
      BY DEF Kinds
    <3>2. CipherText \in Seq(Values) /\ Len(CipherText) \in 1 .. DataSize /\ DataSize \in Nat
      BY <3>1, KindsAre, SmallValues
    <3>. DEFINE l == Len(CipherText)
    <3>3. l \in 1 .. DataSize
      BY <3>2
    <3>. HIDE DEF l
    <3>4. l <= DataSize
      BY <3>2, <3>3
    <3>. QED  BY <3>2, <3>4 DEF l
  <2>2. /\ Reply(20, CipherText) \/ NoReply
        /\ dpc' \in {"running", "stopped"} /\ secret' = secret /\ sendmessage' = sendmessage
    BY <1>1, <1>5 DEF DispatchCipher
  <2>3. 20 \in {1, 20}
    OBVIOUS
  <2>. QED  BY <1>1, <1>2, <1>3, <2>1, <2>2, <2>3, Zenon
<1>6. CASE DispatchKey(d)
  <2>. DEFINE n == Cardinality(Exchanges(replies)) + 1
  <2>1. NewKey(n) \in Seq(Values) /\ Len(NewKey(n)) = KeyLen
    BY KeyLeft
  <2>2. KeyLen \in Nat /\ KeyLen <= DataSize /\ DataSize \in Nat
    <3>1. DataSize \in Nat
      BY KeysAssumption, SmallValues
    <3>2. Len(AliceKey) \in Nat /\ DataSize > Len(AliceKey)
      BY KeysAssumption
    <3>. QED  BY <3>1, <3>2 DEF KeyLen
  <2>3. \/ /\ Reply(1, NewKey(n))
           /\ secret' = DeviceSecret(d, n) /\ sendmessage' = "freed" /\ dpc' = dpc
        \/ NoReply /\ secret' = secret /\ sendmessage' = sendmessage /\ dpc' = dpc
    BY <1>6 DEF DispatchKey
  <2>4. DeviceSecret(d, n) \in Seq(Values) \X Seq(Values)
    <3>1. d \in Seq(Values) /\ Len(d) = DataSize
      <4>1. d \in Seq(Values)
        BY <2>2, SeqDef
      <4>2. DOMAIN d = 1 .. DataSize
        OBVIOUS
      <4>. QED  BY <2>2, <4>1, <4>2
    <3>2. SubSeq(d, 1, KeyLen) \in Seq(Values)
      BY <2>2, <3>1
    <3>. HIDE DEF n
    <3>. QED  BY <2>1, <3>2 DEF DeviceSecret
  <2>. HIDE DEF n
  <2>5. CASE /\ Reply(1, NewKey(n))
             /\ secret' = DeviceSecret(d, n) /\ sendmessage' = "freed" /\ dpc' = dpc
    <3>1. replies' \in Seq(Answers) /\ toPhone' \in Seq(Bytes)
      BY <1>2, <2>1, <2>2, <2>5
    <3>. QED  BY <1>1, <2>4, <2>5, <3>1
  <2>6. CASE NoReply /\ secret' = secret /\ sendmessage' = sendmessage /\ dpc' = dpc
    BY <1>1, <1>3, <2>6
  <2>. QED  BY <2>3, <2>5, <2>6
<1>. QED  BY <1>4, <1>5, <1>6

\* The stream goes on behind byte K, where the automaton is.
LEMMA MovesOn ==
  ASSUME HistoryOK, StreamOK, NEW K \in 0 .. Len(toDevice),
         toDevice' = SubSeq(toDevice, K + 1, Len(toDevice)),
         frames' = frames, cut' = cut, IndexOK(dParser'), Where(dParser', K)
  PROVE  /\ Where(dParser, 0)' /\ IndexOK(dParser)'
         /\ dispatched' = dispatched /\ DoneOK(dParser', K) => DoneOK(dParser, 0)'
<1>. DEFINE p == dParser'
<1>1. /\ Len(toDevice') = Len(toDevice) - K
      /\ \A i \in 1 .. Len(toDevice') : toDevice'[i] = toDevice[K + i]
      /\ Len(toDevice) \in Nat /\ K \in Nat
  BY Suffix, SMTT(30) DEF HistoryOK
<1>2. /\ 0 < Len(toDevice)' <=> K < Len(toDevice)
      /\ 0 < Len(toDevice)' => toDevice'[1] = toDevice[K + 1]
  <2>. DEFINE L == Len(toDevice)
              M == Len(toDevice')
  <2>1. M = L - K /\ L \in Nat /\ K \in Nat /\ \A i \in 1 .. M : toDevice'[i] = toDevice[K + i]
    BY <1>1
  <2>. HIDE DEF L, M
  <2>. QED  BY <2>1 DEF L, M
<1>3. 0 + 1 = 1
  OBVIOUS
<1>4. Where(dParser, 0)'
  <2>0. CASE Between(p, K)
    <3>1. p.state = "none" /\ (K < Len(toDevice) => Safe(toDevice[K + 1]))
      BY <2>0 DEF Between
    <3>2. 0 < Len(toDevice)' => Safe(toDevice[1])'
      BY <1>2, <3>1, Zenon DEF Safe, Plain, Message
    <3>. QED  BY <1>3, <3>1, <3>2, Zenon DEF Where, Between
  <2>1. CASE Mixed(p)
    BY <2>1 DEF Where, Mixed
  <2>2. CASE K < Len(toDevice) /\ (Inside(p, toDevice[K + 1]) \/ Single(p, toDevice[K + 1]))
    <3>. DEFINE b == toDevice[K + 1]
    <3>1. 0 < Len(toDevice)' /\ toDevice'[1] = b
      BY <1>2, <2>2
    <3>2. Inside(p, b) \/ Single(p, b)
      BY <2>2
    <3>. HIDE DEF b
    <3>3. Inside(dParser, toDevice[1])' \/ Single(dParser, toDevice[1])'
      <4>1. ASSUME Single(p, b)  PROVE Single(dParser, toDevice[1])'
        BY <3>1, <4>1, Zenon DEF Single, Plain, Message
      <4>2. ASSUME Inside(p, b)  PROVE Inside(dParser, toDevice[1])'
        BY <3>1, <4>2, ZenonT(30) DEF Inside, Holds
      <4>. QED  BY <3>2, <4>1, <4>2
    <3>. QED  BY <1>3, <3>1, <3>3 DEF Where
  <2>. QED  BY <2>0, <2>1, <2>2 DEF Where
<1>5. ASSUME dispatched' = dispatched, DoneOK(p, K)  PROVE DoneOK(dParser, 0)'
  <2>. DEFINE c == toDevice'[1]
  <2>1. dDone' = dDone
    BY <1>5 DEF dDone
  <2>2. \A b : Passing(p, b) <=> b.at > 1 /\ (p.state = "none" \/ Single(p, b) \/ Mixed(p))
    BY DEF Passing
  <2>3. Passing(dParser, toDevice[1])' <=> Passing(p, c)
    BY Zenon DEF Passing, Single, Plain, Mixed, Message
  <2>4. ASSUME 0 < Len(toDevice)', NEW m \in dDone
        PROVE  m < c.n \/ (m = c.n /\ Passing(p, c))
    BY <1>2, <1>5, <2>4, Zenon DEF DoneOK
  <2>. QED  BY <1>3, <2>1, <2>3, <2>4, Zenon DEF DoneOK
<1>. QED  BY <1>4, <1>5 DEF IndexOK

LEMMA DoneGrows ==
  ASSUME NEW S, dispatched \in Seq(S), NEW x, dispatched' = Append(dispatched, x)
  PROVE  dDone' = dDone \cup {x}
<1>. DEFINE D == Len(dispatched)
            e == dispatched'
<1>1. D \in Nat /\ Len(e) = D + 1 /\ e[D + 1] = x /\ \A i \in 1 .. D : e[i] = dispatched[i]
  OBVIOUS
<1>2. 1 .. Len(e) = 1 .. D \cup {D + 1}
  <2>. HIDE DEF e, D
  <2>. QED  BY <1>1
<1>. HIDE DEF e, D
<1>3. {e[i] : i \in 1 .. Len(e)} = {dispatched[i] : i \in 1 .. D} \cup {x}
  BY <1>1, <1>2
<1>. QED  BY <1>3 DEF dDone, e, D

\* A frame was dispatched with byte K, and does not come again.
LEMMA MovesPast ==
  ASSUME HistoryOK, StreamOK, NEW K \in 1 .. Len(toDevice),
         toDevice' = SubSeq(toDevice, K + 1, Len(toDevice)),
         frames' = frames, cut' = cut, dispatched' = Append(dispatched, toDevice[K].n),
         IndexOK(dParser'), dParser'.state = "none", Where(dParser', K),
         \A d \in dDone : d <= toDevice[K].n
  PROVE  /\ DeviceOK' /\ toDevice[K].n \in 1 .. Len(frames)
         /\ dispatched' \in Seq(1 .. Len(frames))
<1>. DEFINE b == toDevice[K]
            c == toDevice'[1]
            L == Len(toDevice)
            M == Len(toDevice')
<1>1. /\ M = L - K /\ L \in Nat /\ K \in Nat /\ K \in 0 .. L
      /\ \A i \in 1 .. M : toDevice'[i] = toDevice[K + i]
  <2>1. L \in Nat
    BY DEF HistoryOK
  <2>. HIDE DEF L
  <2>2. K \in Nat /\ K \in 0 .. L
    BY <2>1 DEF L
  <2>3. K \in 0 .. Len(toDevice)
    BY <2>2 DEF L
  <2>4. /\ Len(toDevice') = Len(toDevice) - K
        /\ \A i \in 1 .. Len(toDevice') : toDevice'[i] = toDevice[K + i]
    BY <2>3, Suffix
  <2>. QED  BY <2>1, <2>2, <2>4, Zenon DEF L
<1>2. /\ OfFrame(b) /\ b.n \in 1 .. Len(frames) /\ b.n \in Nat /\ b.at \in Nat
  <2>1. OfFrame(b)
    BY DEF StreamOK
  <2>2. b \in Bytes
    BY ElementOfSeq DEF HistoryOK
  <2>. HIDE DEF b
  <2>. QED  BY <2>1, <2>2 DEF OfFrame, Bytes
<1>. HIDE DEF L, M, b
<1>3. ASSUME 0 < M  PROVE Follows(b, c)
  <2>1. K \in 1 .. L - 1 /\ 1 \in 1 .. M
    BY <1>1, <1>3
  <2>2. Follows(toDevice[K], toDevice[K + 1])
    BY <2>1 DEF StreamOK, L
  <2>. QED  BY <1>1, <2>1, <2>2 DEF b
<1>4. ASSUME 0 < M  PROVE (c.n = b.n /\ c.at > 1) \/ c.n = b.n + 1
  <2>. HIDE DEF c
  <2>1. (c.n = b.n /\ c.at = b.at + 1) \/ c.n = b.n + 1
    BY <1>3, <1>4 DEF Follows
  <2>2. b.at >= 1
    BY <1>2 DEF OfFrame
  <2>. QED  BY <1>2, <2>1, <2>2
<1>5. \A d \in dDone : d <= b.n /\ d \in Nat
  BY DoneNumbers DEF b
<1>9. dDone' = dDone \cup {b.n}
  BY DoneGrows DEF b, HistoryOK
<1>6. DoneOK(dParser, 0)'
  <2>. SUFFICES ASSUME 0 < M, NEW m \in dDone'
                PROVE  m < c.n \/ (m = c.n /\ c.at > 1)
    <3>1. c.at > 1 => Passing(dParser, toDevice[1])'
      BY Zenon DEF Passing
    <3>2. 0 + 1 = 1
      OBVIOUS
    <3>. QED  BY <3>1, <3>2, Zenon DEF DoneOK, M
  <2>1. m \in dDone \/ m = b.n
    BY <1>9
  <2>. HIDE DEF c
  <2>2. CASE m = b.n
    BY <1>2, <1>4, <2>2
  <2>3. CASE m \in dDone
    BY <1>2, <1>4, <1>5, <2>3
  <2>. QED  BY <2>1, <2>2, <2>3
<1>7. Where(dParser, 0)' /\ IndexOK(dParser)'
  <2>1. K \in 0 .. Len(toDevice)
    BY <1>1 DEF L
  <2>. QED  BY <2>1, MovesOn
<1>8. dispatched' \in Seq(1 .. Len(frames))
  BY <1>2 DEF b, HistoryOK
<1>. QED  BY <1>2, <1>6, <1>7, <1>8 DEF DeviceOK, b

\* Bytes are received: the automaton goes on, or a frame is dispatched.
LEMMA ReceiveStep ==
  ASSUME IInv, NEW n \in Lengths(toDevice), DeviceReceive(n)
  PROVE  IInv'
<1>1. TypeOK /\ HistoryOK /\ StreamOK /\ DeviceOK /\ DeviceInside /\ ParserOK(dParser)
  BY DEF IInv, TypeOK
<1>2. toDevice \in Seq(Bytes) /\ n \in 0 .. Len(toDevice)
  BY <1>1, LengthsAre DEF HistoryOK
<1>. DEFINE r == Run(dParser, SubSeq(toDevice, 1, n))
            K == r.taken
            x == toDevice[K].n
<1>3. /\ K \in 0 .. Len(toDevice) /\ ParserOK(r.parser) /\ IndexOK(r.parser)
      /\ \/ ~r.complete /\ Where(r.parser, K) /\ DoneOK(r.parser, K)
         \/ /\ r.complete /\ K > 0 /\ r.parser.state = "none" /\ Where(r.parser, K)
            /\ \A d \in dDone : d <= x
  BY <1>1, <1>2, ReceiveEnds
<1>4. /\ toDevice' = SubSeq(toDevice, K + 1, Len(toDevice)) /\ dParser' = r.parser
      /\ dpc = "running"
      /\ UNCHANGED <<phone, reader, frames, pDone, cut, overwritten, coalesced, faults>>
  BY DEF DeviceReceive
<1>5. toDevice' \in Seq(Bytes) /\ StreamOK'
  <2>. HIDE DEF r
  <2>. QED  BY <1>1, <1>3, <1>4, Suffix
<1>6. /\ DeviceOK' /\ dispatched' \in Seq(1 .. Len(frames)) /\ DMIDgeneration_flag' \in BOOLEAN
      /\ replies' \in Seq(Answers)
      /\ toPhone' \in Seq(Bytes)
      /\ secret' = NoSecret \/ secret' \in Seq(Values) \X Seq(Values)
      /\ sendmessage' \in {"uninitialised", "freed"} /\ dpc' \in {"running", "stopped"}
  <2>1. CASE r.complete
    <3>1. dispatched' = Append(dispatched, x)
      BY <2>1 DEF DeviceReceive
    <3>2. DispatchKey(dParser'.data) \/ DispatchCipher \/ DispatchOther
      BY <2>1 DEF DeviceReceive
    <3>3. DMIDgeneration_flag' = (DMIDgeneration_flag \/ dParser'.fc = 30)
      BY <2>1 DEF DeviceReceive
    <3>4. K \in 1 .. Len(toDevice) /\ IndexOK(dParser') /\ dParser'.state = "none"
          /\ Where(dParser', K) /\ \A d \in dDone : d <= x
      <4>. HIDE DEF r
      <4>. QED  BY <1>3, <1>4, <2>1
    <3>5. DeviceOK' /\ dispatched' \in Seq(1 .. Len(frames))
      <4>. HIDE DEF r, K
      <4>. QED  BY <1>1, <1>4, <3>1, <3>4, MovesPast
    <3>. HIDE DEF r, K, x
    <3>8. /\ replies' \in Seq(Answers) /\ toPhone' \in Seq(Bytes)
          /\ secret' = NoSecret \/ secret' \in Seq(Values) \X Seq(Values)
          /\ sendmessage' \in {"uninitialised", "freed"} /\ dpc' \in {"running", "stopped"}
      <4>. DEFINE d == dParser'.data
      <4>1. d \in [1 .. DataSize -> Values]
        BY <1>3, <1>4, ParserFields
      <4>. HIDE DEF d
      <4>2. DispatchKey(d) \/ DispatchCipher \/ DispatchOther
        BY <3>2 DEF d
      <4>. QED  BY <1>1, <1>4, <4>1, <4>2, DispatchTypes
    <3>10. DMIDgeneration_flag' \in BOOLEAN
      BY <3>3, Zenon
    <3>. QED  BY <3>5, <3>8, <3>10
  <2>2. CASE ~r.complete
    <3>1. UNCHANGED <<dispatched, replies, toPhone, secret, sendmessage, dpc, DMIDgeneration_flag>>
      BY <2>2 DEF DeviceReceive
    <3>2. Where(r.parser, K) /\ DoneOK(r.parser, K)
      BY <1>3, <2>2
    <3>3. DeviceOK'
      <4>. HIDE DEF r, K
      <4>1. Where(dParser', K) /\ DoneOK(dParser', K) /\ IndexOK(dParser')
        BY <1>3, <1>4, <3>2
      <4>2. frames' = frames /\ cut' = cut /\ dispatched' = dispatched
        BY <1>4, <3>1
      <4>. QED  BY <1>1, <1>3, <1>4, <4>1, <4>2, MovesOn DEF DeviceOK
    <3>. QED  BY <1>1, <1>4, <3>1, <3>3 DEF TypeOK, HistoryOK
  <2>. QED  BY <2>1, <2>2
<1>7. ParserOK(dParser')
  BY <1>3, <1>4
<1>. HIDE DEF r, K, x
<1>8. TypeOK'
  BY <1>1, <1>4, <1>6, <1>7 DEF TypeOK, phone, reader, ParserOK
<1>9. HistoryOK'
  <2>1. frames' = frames /\ buffer' = buffer /\ inbox' = inbox /\ cut' = cut
    BY <1>4 DEF reader
  <2>2. /\ buffer' \in Seq(Bytes) /\ inbox' \in Seq(Nat)
        /\ frames' \in Seq(Presses) /\ Len(frames') <= MaxPresses
        /\ \A m \in 1 .. Len(frames') : <<frames'[m].fc, frames'[m].data>> \in Kinds
        /\ cut'.device \subseteq 1 .. Len(frames')
        /\ cut' \in [device : SUBSET Nat, phone : SUBSET Nat]
    BY <1>1, <2>1, Zenon DEF HistoryOK
  <2>3. dispatched' \in Seq(1 .. Len(frames'))
    BY <1>6, <2>1
  <2>. QED  BY <1>5, <1>6, <2>2, <2>3 DEF HistoryOK
<1>10. DeviceInside'
  BY <1>6 DEF DeviceInside
<1>. QED  BY <1>5, <1>6, <1>8, <1>9, <1>10 DEF IInv

\* While nothing is received, sent, dispatched or cut.
LEMMA DeviceStands ==
  ASSUME StreamOK, DeviceOK,
         UNCHANGED <<dParser, toDevice, frames, dispatched>>, cut'.device = cut.device
  PROVE  StreamOK' /\ DeviceOK'
<1>1. \A n : Message(n)' = Message(n)
  BY DEF Message
<1>2. StreamOK'
  BY <1>1 DEF StreamOK, OfFrame, Follows
<1>3. Where(dParser, 0)'
  <2>1. Where(dParser, 0)
    BY DEF DeviceOK
  <2>2. Mixed(dParser)' <=> Mixed(dParser)
    BY DEF Mixed
  <2>3. /\ Single(dParser, toDevice[0 + 1])' <=> Single(dParser, toDevice[0 + 1])
        /\ Inside(dParser, toDevice[0 + 1])' <=> Inside(dParser, toDevice[0 + 1])
        /\ Between(dParser, 0)' <=> Between(dParser, 0)
    BY DEF Single, Inside, Holds, Between, Safe, Plain, Message
  <2>. QED  BY <2>1, <2>2, <2>3 DEF Where
<1>4. DoneOK(dParser, 0)'
  <2>1. dDone' = dDone
    BY DEF dDone
  <2>2. Passing(dParser, toDevice[0 + 1])' <=> Passing(dParser, toDevice[0 + 1])
    BY DEF Passing, Single, Plain, Mixed, Message
  <2>. QED  BY <2>1, <2>2 DEF DeviceOK, DoneOK
<1>5. IndexOK(dParser)'
  BY DEF DeviceOK, IndexOK
<1>. QED  BY <1>2, <1>3, <1>4, <1>5 DEF DeviceOK

\* The device writes behind its array only when a frame was cut.
LEMMA OverflowStep ==
  ASSUME IInv, DeviceOverflow
  PROVE  IInv'
<1>1. TypeOK /\ HistoryOK /\ StreamOK /\ DeviceOK /\ DeviceInside /\ ParserOK(dParser)
  BY DEF IInv, TypeOK
<1>2. /\ toDevice # <<>> /\ Overflows(dParser) /\ dpc' = "undefined"
      /\ UNCHANGED <<phone, reader, secret, sendmessage, dParser, DMIDgeneration_flag,
                     links, history, faults>>
  BY DEF DeviceOverflow
<1>3. cut.device # {}
  <2>1. dParser.state = "data_receive"
    BY <1>2 DEF Overflows
  <2>2. CASE Mixed(dParser)
    BY <2>2 DEF Mixed
  <2>3. CASE Inside(dParser, toDevice[1])
    <3>. DEFINE b == toDevice[1]
                f == frames[b.n]
                at == b.at
    <3>1. 0 \in Nat /\ 0 < Len(toDevice) /\ 0 + 1 = 1
      <4>1. toDevice \in Seq(Bytes)
        BY <1>1 DEF HistoryOK
      <4>. QED  BY <1>2, <4>1
    <3>2. FitsIn(f, Message(b.n)) /\ at \in Nat
      <4>1. /\ FitsIn(frames[toDevice[0 + 1].n], Message(toDevice[0 + 1].n))
            /\ toDevice[0 + 1].at \in Nat
        BY <1>1, <3>1, NextByte, Zenon
      <4>. QED  BY <3>1, <4>1, Zenon
    <3>3. Holds(dParser, f, at)
      BY <2>3 DEF Inside
    <3>. HIDE DEF f, at
    <3>4. Len(f.data) \in 1 .. DataSize
      BY <3>2 DEF FitsIn
    <3>. QED  BY <1>1, <1>2, <3>2, <3>3, <3>4, HoldsFits
  <2>. QED
    <3>1. ~Single(dParser, toDevice[1]) /\ dParser.state # "none"
      BY <2>1 DEF Single
    <3>2. 0 + 1 = 1
      OBVIOUS
    <3>. QED  BY <1>1, <2>2, <2>3, <3>1, <3>2, Zenon DEF DeviceOK, Where, Between
<1>4. TypeOK' /\ HistoryOK'
  BY <1>1, <1>2 DEF TypeOK, HistoryOK, phone, reader, links, history, ParserOK
<1>5. StreamOK' /\ DeviceOK'
  BY <1>1, <1>2, DeviceStands DEF links, history
<1>6. DeviceInside'
  BY <1>2, <1>3 DEF DeviceInside, history
<1>. QED  BY <1>4, <1>5, <1>6 DEF IInv

LEMMA OverrunStep ==
  ASSUME IInv, DeviceOverrun
  PROVE  IInv'
<1>1. TypeOK /\ HistoryOK /\ StreamOK /\ DeviceOK /\ DeviceInside
  BY DEF IInv
<1>2. /\ dpc' = "stopped" /\ toPhone' = toPhone \o Tagged(Overrun, 0)
      /\ UNCHANGED <<phone, reader, secret, sendmessage, dParser, DMIDgeneration_flag,
                     toDevice, history, faults>>
  BY DEF DeviceOverrun
<1>3. toPhone' \in Seq(Bytes)
  <2>1. Overrun \in Seq(Values)
    <3>1. Overrun \in Seq(0 .. 127)
      BY KeysAssumption
    <3>. QED  BY <3>1, SmallValues, WiderSeq, Zenon
  <2>2. Tagged(Overrun, 0) \in Seq(Bytes)
    BY <2>1, TaggedIs
  <2>3. toPhone \in Seq(Bytes)
    BY <1>1 DEF HistoryOK
  <2>. QED  BY <1>2, <2>2, <2>3
<1>4. TypeOK'
  BY <1>1, <1>2 DEF TypeOK, phone, reader, history, ParserOK
<1>5. HistoryOK'
  BY <1>1, <1>2, <1>3 DEF HistoryOK, phone, reader, history
<1>6. StreamOK' /\ DeviceOK'
  BY <1>1, <1>2, DeviceStands DEF history
<1>7. DeviceInside'
  BY <1>2 DEF DeviceInside
<1>. QED  BY <1>4, <1>5, <1>6, <1>7 DEF IInv

\* A chunk is read into the shared buffer.
LEMMA ReadStep ==
  ASSUME IInv, NEW n \in Lengths(toPhone), Read(n)
  PROVE  IInv'
<1>1. TypeOK /\ HistoryOK /\ StreamOK /\ DeviceOK /\ DeviceInside
  BY DEF IInv
<1>. DEFINE s == SubSeq(toPhone, 1, n)
<1>2. /\ toPhone' = SubSeq(toPhone, n + 1, Len(toPhone))
      /\ buffer' = Overlay(s, buffer) /\ inbox' = Append(inbox, n)
      /\ overwritten' = (overwritten \/ inbox # <<>> \/ ~Idle)
      /\ coalesced' = (coalesced \/ Cardinality(TagsOf(s)) > 1)
      /\ UNCHANGED <<phone, device, toDevice, frames, replies, dispatched, pDone, cut, faults>>
  BY DEF Read
<1>3. /\ toPhone \in Seq(Bytes) /\ buffer \in Seq(Bytes) /\ inbox \in Seq(Nat)
      /\ n \in 1 .. Len(toPhone) /\ n \in Nat
  <2>1. toPhone \in Seq(Bytes) /\ buffer \in Seq(Bytes) /\ inbox \in Seq(Nat)
    BY <1>1 DEF HistoryOK
  <2>. QED  BY <2>1, LengthsAre
<1>4. s \in Seq(Bytes) /\ Len(s) = n
  BY <1>3
<1>. DEFINE B == Len(buffer)
            C == Len(buffer')
            I == Len(inbox)
<1>5. B \in Nat /\ I \in Nat
  BY <1>3
<1>6. buffer' \in Seq(Bytes) /\ C \in Nat /\ n <= C /\ B <= C
  <2>. DEFINE u == SubSeq(buffer, n + 1, B)
  <2>1. u \in Seq(Bytes) /\ Len(u) = IF n < B THEN B - n ELSE 0
    BY <1>3
  <2>2. buffer' = s \o u
    <3>. HIDE DEF s
    <3>. QED  BY <1>2, <1>4 DEF Overlay
  <2>. HIDE DEF u, s
  <2>3. s \o u \in Seq(Bytes) /\ Len(s \o u) = n + Len(u)
    BY <1>4, <2>1
  <2>4. buffer' \in Seq(Bytes) /\ C = n + Len(u)
    BY <2>2, <2>3
  <2>. HIDE DEF B, C
  <2>5. C \in Nat /\ n <= C /\ B <= C
    BY <1>3, <1>5, <2>1, <2>4
  <2>. QED  BY <2>4, <2>5
<1>. HIDE DEF s
<1>7. inbox' \in Seq(Nat) /\ \A i \in 1 .. Len(inbox') : inbox'[i] \in 1 .. C
  <2>1. /\ inbox' \in Seq(Nat) /\ Len(inbox') = I + 1 /\ inbox'[I + 1] = n
        /\ \A i \in 1 .. I : inbox'[i] = inbox[i]
    BY <1>2, <1>3
  <2>2. \A i \in 1 .. I : inbox[i] \in 1 .. B
    BY <1>1 DEF TypeOK
  <2>. HIDE DEF B, C, I
  <2>3. ASSUME NEW i \in 1 .. I + 1  PROVE inbox'[i] \in 1 .. C
    <3>1. i \in 1 .. I \/ i = I + 1
      BY <1>5, <2>3
    <3>2. \A m \in 1 .. B : m \in 1 .. C
      BY <1>5, <1>6
    <3>3. n \in 1 .. C
      BY <1>3, <1>6
    <3>. QED  BY <2>1, <2>2, <3>1, <3>2, <3>3
  <2>. QED  BY <2>1, <2>3
<1>8. chunk' \in Nat /\ chunk' <= C
  <2>1. chunk \in Nat /\ chunk <= B /\ chunk' = chunk
    BY <1>1, <1>2 DEF TypeOK, phone
  <2>. HIDE DEF B, C
  <2>. QED  BY <1>5, <1>6, <2>1
<1>9. overwritten' \in BOOLEAN /\ coalesced' \in BOOLEAN
  BY <1>2, Zenon
<1>10. TypeOK'
  <2>. HIDE DEF B, I
  <2>1. ParserOK(pParser)' /\ ParserOK(dParser)'
    BY <1>1, <1>2 DEF TypeOK, phone, device, ParserOK
  <2>2. /\ crashed' \in BOOLEAN /\ j' \in Nat
        /\ sendmessage' \in {"uninitialised", "freed"}
        /\ dpc' \in {"running", "stopped", "undefined"} /\ DMIDgeneration_flag' \in BOOLEAN
        /\ faults' \in 0 .. MaxFaults
        /\ alice_shared_secret' = NoSecret \/ alice_shared_secret' \in {AliceKey} \X Seq(Values)
    BY <1>1, <1>2 DEF TypeOK, phone, device
  <2>3. secret' = NoSecret \/ secret' \in Seq(Values) \X Seq(Values)
    BY <1>1, <1>2 DEF TypeOK, device
  <2>. QED  BY <1>7, <1>8, <1>9, <2>1, <2>2, <2>3 DEF TypeOK
<1>11. HistoryOK'
  <2>1. toPhone' \in Seq(Bytes)
    BY <1>2, <1>3
  <2>. QED  BY <1>1, <1>2, <1>6, <1>7, <2>1 DEF HistoryOK
<1>12. StreamOK' /\ DeviceOK' /\ DeviceInside'
  <2>1. StreamOK' /\ DeviceOK'
    BY <1>1, <1>2, DeviceStands DEF device
  <2>2. DeviceInside'
    BY <1>1, <1>2 DEF DeviceInside, device
  <2>. QED  BY <2>1, <2>2
<1>. QED  BY <1>10, <1>11, <1>12 DEF IInv

\* What is ahead of the handler are bytes.
LEMMA AheadIs ==
  ASSUME TypeOK, HistoryOK, NEW h \in Nat
  PROVE  Ahead(h) \in Seq(Bytes) /\ TornReply(Ahead(h)) \subseteq Nat
<1>1. /\ buffer \in Seq(Bytes) /\ toPhone \in Seq(Bytes) /\ chunk \in Nat
      /\ chunk <= Len(buffer)
  BY DEF TypeOK, HistoryOK
<1>2. SubSeq(buffer, h + 1, chunk) \in Seq(Bytes)
  BY <1>1
<1>. DEFINE s == Ahead(h)
<1>3. s \in Seq(Bytes)
  <2>. DEFINE u == SubSeq(buffer, h + 1, chunk)
  <2>1. u \in Seq(Bytes)
    BY <1>2
  <2>. HIDE DEF u
  <2>2. u \o toPhone \in Seq(Bytes)
    BY <1>1, <2>1
  <2>. QED  BY <2>2 DEF Ahead, u
<1>. HIDE DEF s
<1>4. \A i \in 1 .. Len(s) : s[i].n \in Nat
  <2>1. \A i \in 1 .. Len(s) : s[i] \in Bytes
    BY <1>3, ElementOfSeq
  <2>. QED  BY <2>1 DEF Bytes
<1>5. TornReply(s) \subseteq Nat
  BY <1>4 DEF TornReply, TagsOf
<1>. QED  BY <1>3, <1>5 DEF s

\* The handler's index.
LEMMA HandlerIndex ==
  ASSUME TypeOK, HistoryOK, HandleBytes
  PROVE  j' \in Nat
<1>. DEFINE r == Run(pParser, SubSeq(buffer, j + 1, chunk))
            next == j + r.taken
<1>1. j' = IF r.complete THEN JAfter(r.parser.fc, next) ELSE next
  BY DEF HandleBytes
<1>2. r.taken \in Nat
  <2>1. chunk \in 0 .. Len(buffer) /\ j \in Nat /\ ParserOK(pParser) /\ buffer \in Seq(Bytes)
    BY DEF TypeOK, HistoryOK
  <2>. QED  BY <2>1, RunTyped
<1>3. next \in Nat
  BY <1>2 DEF TypeOK
<1>. HIDE DEF r, next
<1>4. KeyLen \in Nat /\ CipherLen \in Nat
  BY KeysAssumption DEF KeyLen, CipherLen
<1>5. JAfter(r.parser.fc, next) \in Nat
  BY <1>3, <1>4 DEF JAfter
<1>. QED  BY <1>1, <1>3, <1>5

\* The phone's handler.
LEMMA HandlerStep ==
  ASSUME IInv, Handler
  PROVE  IInv'
<1>1. TypeOK /\ HistoryOK /\ StreamOK /\ DeviceOK /\ DeviceInside
  BY DEF IInv
<1>2. UNCHANGED <<device, links, frames, replies, dispatched, overwritten, coalesced, faults>>
  BY DEF Handler, TakeChunk, HandleBytes, Crash, EndChunk, history
<1>8. cut'.device = cut.device /\ cut' \in [device : SUBSET Nat, phone : SUBSET Nat]
  <2>1. cut \in [device : SUBSET Nat, phone : SUBSET Nat]
    BY <1>1 DEF HistoryOK
  <2>2. CASE UNCHANGED cut
    BY <2>1, <2>2
  <2>3. CASE HandleBytes /\ ~UNCHANGED cut
    <3>. DEFINE s == Ahead(j')
    <3>1. cut' = [cut EXCEPT !.phone = @ \cup TornReply(s)]
      BY <2>3 DEF HandleBytes
    <3>2. TornReply(s) \subseteq Nat
      BY <1>1, <2>3, HandlerIndex, AheadIs
    <3>. HIDE DEF s
    <3>. QED  BY <2>1, <3>1, <3>2
  <2>. QED  BY <2>2, <2>3 DEF Handler, TakeChunk, HandleBytes, Crash, EndChunk, history
<1>3. StreamOK' /\ DeviceOK' /\ DeviceInside'
  <2>1. StreamOK' /\ DeviceOK'
    BY <1>1, <1>2, <1>8, DeviceStands DEF device, links
  <2>2. DeviceInside'
    BY <1>1, <1>2, <1>8 DEF DeviceInside, device
  <2>. QED  BY <2>1, <2>2
<1>4. /\ inbox \in Seq(Nat) /\ buffer \in Seq(Bytes) /\ chunk <= Len(buffer) /\ chunk \in Nat
      /\ j \in Nat /\ ParserOK(pParser)
      /\ \A i \in 1 .. Len(inbox) : inbox[i] \in 1 .. Len(buffer)
  BY <1>1 DEF TypeOK, HistoryOK
<1>5. /\ ParserOK(pParser') /\ crashed' \in BOOLEAN /\ j' \in Nat /\ chunk' \in Nat
      /\ chunk' <= Len(buffer') /\ \A i \in 1 .. Len(inbox') : inbox'[i] \in 1 .. Len(buffer')
      /\ alice_shared_secret' = NoSecret \/ alice_shared_secret' \in {AliceKey} \X Seq(Values)
      /\ inbox' \in Seq(Nat) /\ buffer' \in Seq(Bytes)
  <2>1. CASE TakeChunk
    <3>1. /\ inbox # <<>> /\ inbox' = Tail(inbox) /\ chunk' = Head(inbox) /\ j' = 0
          /\ UNCHANGED <<alice_shared_secret, pParser, crashed, buffer>>
      BY <2>1 DEF TakeChunk
    <3>2. /\ inbox' \in Seq(Nat) /\ Len(inbox') = Len(inbox) - 1 /\ Len(inbox) \in Nat
          /\ \A i \in 1 .. Len(inbox') : inbox'[i] = inbox[i + 1]
          /\ chunk' = inbox[1] /\ Len(inbox) > 0
      BY <1>4, <3>1
    <3>. DEFINE L == Len(inbox)
                M == Len(inbox')
    <3>3. /\ 1 \in 1 .. L /\ \A i \in 1 .. M : i + 1 \in 1 .. L
      <4>. HIDE DEF L, M
      <4>1. M = L - 1 /\ L \in Nat /\ L > 0
        BY <3>2 DEF L, M
      <4>. QED  BY <4>1
    <3>4. chunk' \in 1 .. Len(buffer) /\ \A i \in 1 .. M : inbox'[i] \in 1 .. Len(buffer)
      BY <1>4, <3>2, <3>3
    <3>5. chunk' \in Nat /\ chunk' <= Len(buffer)
      BY <1>4, <3>4
    <3>6. 0 \in Nat /\ buffer' = buffer
      BY <3>1
    <3>7. ParserOK(pParser') /\ crashed' \in BOOLEAN /\ j' \in Nat
      BY <1>1, <1>4, <3>1 DEF TypeOK
    <3>8. alice_shared_secret' = NoSecret \/ alice_shared_secret' \in {AliceKey} \X Seq(Values)
      BY <1>1, <3>1 DEF TypeOK
    <3>. QED  BY <1>4, <3>2, <3>4, <3>5, <3>6, <3>7, <3>8
  <2>2. CASE HandleBytes
    <3>. DEFINE r == Run(pParser, SubSeq(buffer, j + 1, chunk))
                next == j + r.taken
    <3>1. /\ pParser' = r.parser
          /\ j' = IF r.complete THEN JAfter(r.parser.fc, next) ELSE next
          /\ alice_shared_secret' = IF r.complete /\ r.parser.fc = 1
                                      THEN PhoneSecret(r.parser.data)
                                      ELSE alice_shared_secret
          /\ UNCHANGED <<chunk, crashed, inbox, buffer>>
      BY <2>2 DEF HandleBytes, reader
    <3>2. ParserOK(r.parser) /\ r.taken \in Nat
      <4>1. chunk \in 0 .. Len(buffer)
        BY <1>4
      <4>. QED  BY <1>4, <4>1, RunTyped
    <3>. HIDE DEF r
    <3>3. KeyLen \in Nat /\ KeyLen <= DataSize /\ CipherLen \in Nat /\ DataSize \in Nat
      <4>1. DataSize \in Nat
        BY KeysAssumption, SmallValues
      <4>2. /\ Len(AliceKey) \in Nat /\ DataSize > Len(AliceKey)
            /\ Len(CipherText) \in Nat
        BY KeysAssumption
      <4>. QED  BY <4>1, <4>2 DEF KeyLen, CipherLen
    <3>4. j' \in Nat
      <4>1. next \in Nat
        BY <1>4, <3>2
      <4>. HIDE DEF next
      <4>2. JAfter(r.parser.fc, next) \in Nat
        BY <3>3, <4>1 DEF JAfter
      <4>. QED  BY <3>1, <4>1, <4>2
    <3>5. PhoneSecret(r.parser.data) \in {AliceKey} \X Seq(Values)
      <4>1. r.parser.data \in Seq(Values) /\ Len(r.parser.data) = DataSize
        BY <3>2, ParserFields
      <4>2. SubSeq(r.parser.data, 1, KeyLen) \in Seq(Values)
        BY <3>3, <4>1
      <4>. QED  BY <4>2 DEF PhoneSecret
    <3>6. alice_shared_secret' = NoSecret \/ alice_shared_secret' \in {AliceKey} \X Seq(Values)
      BY <1>1, <3>1, <3>5 DEF TypeOK
    <3>7. ParserOK(pParser') /\ crashed' \in BOOLEAN
      BY <1>1, <3>1, <3>2 DEF TypeOK
    <3>. QED  BY <1>4, <3>1, <3>4, <3>6, <3>7
  <2>3. CASE Crash
    <3>1. crashed' = TRUE /\ UNCHANGED <<alice_shared_secret, pParser, j, chunk, inbox, buffer>>
      BY <2>3 DEF Crash, reader
    <3>. QED  BY <1>1, <1>4, <3>1 DEF TypeOK
  <2>4. CASE EndChunk
    <3>1. /\ chunk' = 0 /\ j' = 0 /\ buffer' = IF inbox = <<>> THEN <<>> ELSE buffer
          /\ UNCHANGED <<alice_shared_secret, pParser, crashed, inbox>>
      BY <2>4 DEF EndChunk
    <3>2. buffer' \in Seq(Bytes) /\ 0 <= Len(buffer')
      BY <1>4, <3>1
    <3>3. \A i \in 1 .. Len(inbox') : inbox'[i] \in 1 .. Len(buffer')
      BY <1>4, <3>1
    <3>. QED  BY <1>1, <1>4, <3>1, <3>2, <3>3 DEF TypeOK
  <2>. QED  BY <2>1, <2>2, <2>3, <2>4 DEF Handler
<1>6. TypeOK'
  BY <1>1, <1>2, <1>5 DEF TypeOK, device, ParserOK
<1>7. HistoryOK'
  <2>1. cut'.device \subseteq 1 .. Len(frames')
    BY <1>1, <1>2, <1>8 DEF HistoryOK
  <2>. QED  BY <1>1, <1>2, <1>5, <1>8, <2>1 DEF HistoryOK, links
<1>. QED  BY <1>3, <1>6, <1>7 DEF IInv

\* A button is pressed: the frame goes behind the stream.
LEMMA PressKeepsStream ==
  ASSUME HistoryOK, StreamOK,
         NEW fc, NEW d, <<fc, d>> \in Kinds,
         NEW e, e.fc = fc, e.data = d, frames' = Append(frames, e),
         toDevice' = toDevice \o Tagged(Frame(fc, d), Len(frames) + 1)
  PROVE  /\ StreamOK' /\ toDevice' \in Seq(Bytes)
         /\ Len(frames') = Len(frames) + 1
         /\ \A n \in 1 .. Len(frames) : frames'[n] = frames[n]
         /\ Len(toDevice') > 0
         /\ toDevice # <<>> => toDevice'[1] = toDevice[1] /\ toDevice[1].n \in 1 .. Len(frames)
         /\ toDevice = <<>> => toDevice'[1].n = Len(frames) + 1 /\ toDevice'[1].at = 1
<1>. DEFINE F == Len(frames)
            m == Frame(fc, d)
            t == Tagged(m, F + 1)
            T == toDevice
            L == Len(T)
            U == toDevice'
            l == Len(m)
<1>1. /\ frames \in Seq(Presses) /\ F \in Nat /\ T \in Seq(Bytes) /\ L \in Nat
  BY DEF HistoryOK
<1>2. m \in Seq(Values) /\ l = Len(d) + 8 /\ Len(d) \in Nat
  <2>. DEFINE k == <<fc, d>>
  <2>1. k \in Kinds /\ k[1] = fc /\ k[2] = d
    OBVIOUS
  <2>. HIDE DEF k
  <2>2. Contents(Frame(k[1], k[2]), k[1], k[2]) /\ k[2] \in Seq(Values)
    BY <2>1, MessagesAre, KindsAre
  <2>3. Contents(m, fc, d) /\ d \in Seq(Values)
    BY <2>1, <2>2, Zenon
  <2>. HIDE DEF m
  <2>. QED  BY <2>3 DEF Contents
<1>3. l \in Nat /\ l > 1
  BY <1>2
<1>4. /\ frames' = Append(frames, e) /\ Len(frames') = F + 1 /\ frames'[F + 1] = e
      /\ \A n \in 1 .. F : frames'[n] = frames[n]
  <2>. HIDE DEF F
  <2>1. Len(frames) = F /\ F \in Nat
    BY <1>1 DEF F
  <2>2. Len(Append(frames, e)) = F + 1 /\ Append(frames, e)[F + 1] = e
    BY <1>1, <2>1
  <2>3. \A n \in 1 .. F : Append(frames, e)[n] = frames[n]
    BY <1>1, <2>1
  <2>. QED  BY <2>2, <2>3
<1>5. /\ t \in Seq(Bytes) /\ Len(t) = l
      /\ \A i \in 1 .. l : t[i].v = m[i] /\ t[i].n = F + 1 /\ t[i].at = i
  <2>1. F + 1 \in Nat
    BY <1>1
  <2>. HIDE DEF m, F
  <2>. QED  BY <1>2, <2>1, TaggedIs
<1>. HIDE DEF F, t, m, l
<1>6. U = T \o t
  BY DEF t, m, F
<1>7. /\ U \in Seq(Bytes) /\ Len(U) = L + l
      /\ \A i \in 1 .. L : U[i] = T[i]
      /\ \A i \in 1 .. l : U[L + i] = t[i]
  <2>1. T \in Seq(Bytes) /\ t \in Seq(Bytes) /\ L = Len(T) /\ l = Len(t)
    BY <1>1, <1>5
  <2>. HIDE DEF T, L, U
  <2>2. T \o t \in Seq(Bytes) /\ Len(T \o t) = L + l
    BY <2>1
  <2>3. \A i \in 1 .. L : (T \o t)[i] = T[i]
    BY <2>1
  <2>4. \A i \in 1 .. l : (T \o t)[L + i] = t[i]
    BY <2>1
  <2>. QED  BY <1>6, <2>2, <2>3, <2>4
<1>. DEFINE M(n) == Frame(frames'[n].fc, frames'[n].data)
            Next2(b, c) == IF b.at < Len(M(b.n)) THEN c.n = b.n /\ c.at = b.at + 1
                                                 ELSE c.n = b.n + 1 /\ c.at = 1
            Of2(b) == /\ b.n \in 1 .. F + 1 /\ b.at \in 1 .. Len(M(b.n))
                      /\ b.v = M(b.n)[b.at]
<1>8. (\A n \in 1 .. F : M(n) = Message(n)) /\ M(F + 1) = m
  BY <1>4 DEF Message, m
<1>9. \A i \in 1 .. L : T[i].n \in 1 .. F /\ OfFrame(T[i])
  BY DEF StreamOK, OfFrame, F
<1>. HIDE DEF L, U, T, M
<1>10. \A i \in 1 .. L + l : Of2(U[i])
  <2>. TAKE i \in 1 .. L + l
  <2>1. CASE i \in 1 .. L
    <3>. DEFINE b == T[i]
    <3>1. U[i] = b /\ b.n \in 1 .. F /\ OfFrame(b)
      BY <1>7, <1>9, <2>1
    <3>. HIDE DEF b
    <3>2. M(b.n) = Message(b.n) /\ b.n \in 1 .. F + 1
      BY <1>1, <1>8, <3>1
    <3>. QED  BY <3>1, <3>2, Zenon DEF OfFrame
  <2>2. CASE i \in L + 1 .. L + l
    <3>. DEFINE k == i - L
                b == t[k]
    <3>1. k \in 1 .. l /\ L + k = i
      BY <1>1, <1>3, <2>2
    <3>. HIDE DEF k
    <3>2. U[i] = b /\ b.v = m[k] /\ b.n = F + 1 /\ b.at = k
      BY <1>5, <1>7, <3>1
    <3>. HIDE DEF b
    <3>3. M(b.n) = m /\ b.n \in 1 .. F + 1
      BY <1>1, <1>8, <3>2
    <3>. QED  BY <3>1, <3>2, <3>3, Zenon DEF l
  <2>. QED  BY <1>1, <1>3, <2>1, <2>2
<1>11. \A i \in 1 .. L + l - 1 : Next2(U[i], U[i + 1])
  <2>. TAKE i \in 1 .. L + l - 1
  <2>1. CASE i \in 1 .. L - 1
    <3>1. i \in 1 .. L /\ i + 1 \in 1 .. L
      BY <1>1, <2>1
    <3>2. U[i] = T[i] /\ U[i + 1] = T[i + 1] /\ T[i].n \in 1 .. F
      BY <1>7, <1>9, <3>1
    <3>3. Follows(T[i], T[i + 1])
      BY <2>1 DEF StreamOK, T, L
    <3>4. M(T[i].n) = Message(T[i].n)
      BY <1>8, <3>2
    <3>. QED  BY <3>2, <3>3, <3>4, Zenon DEF Follows
  <2>2. CASE i = L
    <3>1. L \in 1 .. L /\ 1 \in 1 .. l
      BY <1>1, <1>3, <2>2
    <3>2. U[i] = T[L] /\ U[i + 1] = t[1]
      BY <1>7, <2>2, <3>1
    <3>3. T[L].n = F /\ T[L].at = Len(Message(F)) /\ T[L].n \in 1 .. F
      <4>1. T # <<>>
        BY <1>1, <2>2 DEF L, T
      <4>2. T[L].n = F /\ T[L].at = Len(Message(T[L].n))
        BY <4>1 DEF StreamOK, T, L, F
      <4>. QED  BY <1>9, <3>1, <4>2
    <3>4. t[1].n = F + 1 /\ t[1].at = 1
      BY <1>5, <3>1
    <3>5. M(F) = Message(F) /\ ~(Len(Message(F)) < Len(Message(F)))
      <4>1. F \in 1 .. F
        BY <3>3
      <4>2. Message(F) \in Seq(Values)
        <5>1. F \in 1 .. Len(frames)
          BY <4>1 DEF F
        <5>. HIDE DEF F
        <5>. QED  BY <5>1, FrameFacts DEF Contents
      <4>. DEFINE x == Message(F)
      <4>. HIDE DEF x
      <4>3. ~(Len(x) < Len(x))
        BY <4>2 DEF x
      <4>. QED  BY <1>8, <4>1, <4>3 DEF x
    <3>. QED  BY <3>2, <3>3, <3>4, <3>5, Zenon
  <2>3. CASE i \in L + 1 .. L + l - 1
    <3>. DEFINE k == i - L
    <3>1. k \in 1 .. l /\ k + 1 \in 1 .. l /\ L + k = i /\ L + (k + 1) = i + 1 /\ k < l
      BY <1>1, <1>3, <2>3
    <3>. HIDE DEF k
    <3>2. U[i] = t[k] /\ U[i + 1] = t[k + 1]
      BY <1>7, <3>1
    <3>3. /\ t[k].n = F + 1 /\ t[k].at = k /\ t[k + 1].n = F + 1 /\ t[k + 1].at = k + 1
      BY <1>5, <3>1
    <3>4. M(t[k].n) = m /\ t[k].at < Len(m)
      BY <1>8, <3>1, <3>3 DEF l
    <3>. QED  BY <3>2, <3>3, <3>4, Zenon
  <2>4. L \in Nat /\ l \in Nat
    BY <1>1, <1>3
  <2>5. i \in 1 .. L - 1 \/ i = L \/ i \in L + 1 .. L + l - 1
    BY <2>4
  <2>. QED  BY <2>1, <2>2, <2>3, <2>5
<1>12. U[L + l].n = F + 1 /\ U[L + l].at = l /\ l = Len(M(F + 1))
  <2>1. l \in 1 .. l
    BY <1>3
  <2>. QED  BY <1>5, <1>7, <1>8, <2>1 DEF l
<1>13. StreamOK'
  <2>1. Len(toDevice') = L + l /\ Len(frames') = F + 1
    BY <1>4, <1>7 DEF U
  <2>2. \A i \in 1 .. Len(toDevice') : OfFrame(toDevice[i])'
    BY <1>10, <2>1 DEF OfFrame, Message, U, M
  <2>3. \A i \in 1 .. Len(toDevice') - 1 : Follows(toDevice[i], toDevice[i + 1])'
    <3>1. \A i \in 1 .. L + l - 1 : Follows(toDevice[i], toDevice[i + 1])'
      BY <1>11, Zenon DEF Follows, Message, U, M
    <3>2. 1 .. Len(toDevice') - 1 = 1 .. L + l - 1
      <4>. DEFINE k == Len(toDevice')
      <4>1. k = L + l /\ L \in Nat /\ l \in Nat
        BY <1>1, <1>3, <2>1
      <4>. HIDE DEF k
      <4>2. k - 1 = L + l - 1
        BY <4>1
      <4>. QED  BY <4>2, Zenon DEF k
    <3>. QED  BY <3>1, <3>2, Zenon
  <2>4. LET b == toDevice'[Len(toDevice')]
        IN  b.n = Len(frames') /\ b.at = Len(Frame(frames'[b.n].fc, frames'[b.n].data))
    BY <1>12, <2>1 DEF U, M
  <2>. QED  BY <2>2, <2>3, <2>4 DEF StreamOK, Message
<1>14. ASSUME T # <<>>  PROVE U[1] = T[1] /\ T[1].n \in 1 .. F
  <2>1. 1 \in 1 .. L
    BY <1>1, <1>14 DEF L
  <2>. QED  BY <1>7, <1>9, <2>1
<1>15. ASSUME T = <<>>  PROVE U[1].n = F + 1 /\ U[1].at = 1
  <2>1. L = 0 /\ 1 \in 1 .. l /\ L + 1 = 1
    BY <1>3, <1>15 DEF L
  <2>. QED  BY <1>5, <1>7, <2>1
<1>16. Len(U) > 0
  BY <1>1, <1>3, <1>7
<1>. QED  BY <1>4, <1>7, <1>13, <1>14, <1>15, <1>16 DEF U, T, F

LEMMA PressStep ==
  ASSUME IInv, NEW fc, NEW d, <<fc, d>> \in Kinds, Press(fc, d)
  PROVE  IInv'
<1>1. TypeOK /\ HistoryOK /\ StreamOK /\ DeviceOK /\ DeviceInside
  BY DEF IInv
<1>. DEFINE e == [fc |-> fc, data |-> d, settled |-> Settled, secret |-> alice_shared_secret]
            F == Len(frames)
<1>2. /\ frames' = Append(frames, e) /\ F < MaxPresses
      /\ toDevice' = toDevice \o Tagged(Frame(fc, d), F + 1)
      /\ UNCHANGED <<phone, reader, device, toPhone, replies, dispatched, pDone, cut,
                     overwritten, coalesced, faults>>
  BY DEF Press
<1>3. /\ frames \in Seq(Presses) /\ F \in Nat /\ MaxPresses \in Nat
      /\ toDevice \in Seq(Bytes)
  BY <1>1, SessionBounds DEF HistoryOK
<1>4. e.fc = fc /\ e.data = d /\ <<e.fc, e.data>> \in Kinds
  OBVIOUS
<1>5. e \in Presses
  <2>. DEFINE k == <<fc, d>>
  <2>1. k \in Kinds /\ k[1] = fc /\ k[2] = d
    OBVIOUS
  <2>. HIDE DEF k
  <2>2. fc \in {1, 20, 30} /\ d \in Seq(Values)
    <3>1. k[1] \in {1, 20, 30} /\ k[2] \in Seq(Values)
      BY <2>1, KindsAre
    <3>. QED  BY <2>1, <3>1, Zenon
  <2>3. Settled \in BOOLEAN
    BY Zenon DEF Settled
  <2>4. alice_shared_secret \in Secrets
    BY <1>1 DEF TypeOK, Secrets
  <2>. QED  BY <2>2, <2>3, <2>4, Zenon DEF Presses
<1>. HIDE DEF e
<1>6. /\ StreamOK' /\ toDevice' \in Seq(Bytes)
      /\ Len(frames') = F + 1
      /\ \A n \in 1 .. F : frames'[n] = frames[n]
      /\ Len(toDevice') > 0
      /\ toDevice # <<>> => toDevice'[1] = toDevice[1] /\ toDevice[1].n \in 1 .. F
      /\ toDevice = <<>> => toDevice'[1].n = F + 1 /\ toDevice'[1].at = 1
  BY <1>1, <1>2, <1>4, PressKeepsStream
<1>7. /\ frames' \in Seq(Presses) /\ Len(frames') <= MaxPresses
      /\ \A n \in 1 .. Len(frames') : <<frames'[n].fc, frames'[n].data>> \in Kinds
      /\ \A n \in 1 .. F : n \in 1 .. Len(frames')
  <2>1. frames' \in Seq(Presses) /\ frames'[F + 1] = e
    BY <1>2, <1>3, <1>5
  <2>2. \A n \in 1 .. F : <<frames[n].fc, frames[n].data>> \in Kinds
    BY <1>1 DEF HistoryOK
  <2>. HIDE DEF F
  <2>3. Len(frames') <= MaxPresses /\ 1 .. Len(frames') = 1 .. F \cup {F + 1}
    BY <1>2, <1>3, <1>6
  <2>4. ASSUME NEW n \in 1 .. Len(frames')  PROVE <<frames'[n].fc, frames'[n].data>> \in Kinds
    <3>1. n \in 1 .. F \/ n = F + 1
      BY <2>3
    <3>. QED  BY <1>4, <1>6, <2>1, <2>2, <3>1
  <2>. QED  BY <2>1, <2>3, <2>4
<1>8. HistoryOK'
  <2>1. /\ toPhone' \in Seq(Bytes) /\ buffer' \in Seq(Bytes) /\ inbox' \in Seq(Nat)
        /\ replies' \in Seq(Answers) /\ cut' \in [device : SUBSET Nat, phone : SUBSET Nat]
    BY <1>1, <1>2 DEF HistoryOK, reader
  <2>2. dispatched' \in Seq(1 .. Len(frames')) /\ cut'.device \subseteq 1 .. Len(frames')
    <3>1. dispatched \in Seq(1 .. F) /\ cut.device \subseteq 1 .. F
      BY <1>1 DEF HistoryOK
    <3>2. 1 .. F \subseteq 1 .. Len(frames')
      BY <1>7
    <3>. HIDE DEF F
    <3>3. dispatched \in Seq(1 .. Len(frames'))
      BY <3>1, <3>2, WiderSeq, Zenon
    <3>. QED  BY <1>2, <3>1, <3>2, <3>3
  <2>. QED  BY <1>6, <1>7, <2>1, <2>2 DEF HistoryOK
<1>9. TypeOK'
  BY <1>1, <1>2 DEF TypeOK, phone, reader, device, ParserOK
<1>10. DeviceInside'
  BY <1>1, <1>2 DEF DeviceInside, device
<1>11. dParser' = dParser /\ cut' = cut /\ dDone' = dDone
  BY <1>2 DEF device, dDone
<1>12. 0 + 1 = 1 /\ 0 < Len(toDevice')
  <2>1. Len(toDevice') \in Nat
    BY <1>6
  <2>. QED  BY <1>6, <2>1
<1>16. ASSUME toDevice # <<>>
       PROVE  LET b == toDevice[1]
              IN  toDevice'[1] = b /\ b.n \in 1 .. F /\ frames'[b.n] = frames[b.n]
  BY <1>6, <1>16
<1>13. Where(dParser, 0)'
  <2>1. CASE Mixed(dParser)
    BY <1>11, <2>1 DEF Where, Mixed
  <2>3. CASE Between(dParser, 0)
    <3>1. dParser'.state = "none" /\ (0 < Len(toDevice) => Safe(toDevice[1]))
      BY <1>11, <1>12, <2>3 DEF Between
    <3>2. Safe(toDevice[1])'
      <4>1. CASE toDevice = <<>>
        BY <1>6, <4>1 DEF Safe
      <4>2. CASE toDevice # <<>>
        <5>1. 0 < Len(toDevice)
          BY <1>3, <4>2
        <5>. DEFINE b == toDevice[1]
        <5>2. toDevice'[1] = b /\ frames'[b.n] = frames[b.n] /\ Safe(b)
          BY <1>16, <3>1, <4>2, <5>1
        <5>. HIDE DEF b
        <5>3. Message(toDevice[1].n)' = Message(b.n)
          BY <5>2, Zenon DEF Message
        <5>. QED  BY <1>11, <5>2, <5>3, Zenon DEF Safe, Plain
      <4>. QED  BY <4>1, <4>2
    <3>. QED  BY <1>12, <3>1, <3>2, Zenon DEF Where, Between
  <2>2. CASE /\ 0 < Len(toDevice)
             /\ Inside(dParser, toDevice[1]) \/ Single(dParser, toDevice[1])
    <3>. DEFINE b == toDevice[1]
    <3>1. toDevice'[1] = b /\ b.n \in 1 .. F
      <4>1. toDevice # <<>>
        BY <2>2
      <4>. QED  BY <1>6, <4>1
    <3>2. frames'[b.n] = frames[b.n]
      BY <1>6, <3>1
    <3>3. Inside(dParser, b) \/ Single(dParser, b)
      BY <2>2
    <3>. HIDE DEF b
    <3>4. Inside(dParser, toDevice[1])' \/ Single(dParser, toDevice[1])'
      <4>1. ASSUME Single(dParser, b)  PROVE Single(dParser, toDevice[1])'
        BY <1>11, <3>1, <3>2, <4>1, Zenon DEF Single, Plain, Message
      <4>2. ASSUME Inside(dParser, b)  PROVE Inside(dParser, toDevice[1])'
        <5>. DEFINE f == frames[b.n]
        <5>1. Holds(dParser, f, b.at) /\ dParser.src = {b.n} /\ b.at > 1
          BY <4>2 DEF Inside
        <5>2. frames'[toDevice'[1].n] = f
          BY <3>1, <3>2
        <5>. HIDE DEF f
        <5>. QED  BY <1>11, <3>1, <5>1, <5>2, ZenonT(30) DEF Inside, Holds
      <4>. QED  BY <3>3, <4>1, <4>2
    <3>. QED  BY <1>12, <3>4, Zenon DEF Where
  <2>. QED  BY <1>1, <1>12, <2>1, <2>2, <2>3, Zenon DEF DeviceOK, Where
<1>14. DoneOK(dParser, 0)'
  <2>. DEFINE c == toDevice'[1]
  <2>. SUFFICES ASSUME NEW m \in dDone
                PROVE  m < c.n \/ (m = c.n /\ Passing(dParser, toDevice[1])')
    BY <1>11, <1>12, Zenon DEF DoneOK
  <2>1. CASE toDevice = <<>>
    <3>1. m \in 1 .. F /\ c.n = F + 1
      BY <1>1, <1>6, <2>1, DoneNumbers
    <3>. HIDE DEF F, c
    <3>2. m < c.n
      BY <1>3, <3>1
    <3>. QED  BY <3>2
  <2>2. CASE toDevice # <<>>
    <3>1. 0 < Len(toDevice) /\ c = toDevice[1]
      BY <1>3, <1>6, <2>2
    <3>2. m < toDevice[1].n \/ (m = toDevice[1].n /\ Passing(dParser, toDevice[1]))
      BY <1>1, <1>12, <3>1, Zenon DEF DeviceOK, DoneOK
    <3>3. Passing(dParser, toDevice[1]) => Passing(dParser, toDevice[1])'
      BY <1>11, <1>16, <2>2, Zenon DEF Passing, Single, Plain, Mixed, Message
    <3>. QED  BY <3>1, <3>2, <3>3, Zenon
  <2>. QED  BY <2>1, <2>2
<1>15. IndexOK(dParser)'
  BY <1>1, <1>11 DEF DeviceOK, IndexOK
<1>. QED  BY <1>6, <1>8, <1>9, <1>10, <1>13, <1>14, <1>15 DEF IInv, DeviceOK

LEMMA StartIs ==
  LET p == Start(DataSize)
  IN  ParserOK(p) /\ p.state = "none" /\ p.index = 0
<1>1. DataSize \in Nat
  BY KeysAssumption, SmallValues
<1>2. 0 \in Values /\ 0 \in Word /\ 0 \in 0 .. DataSize /\ "none" \in States
  <2>1. 0 \in Values /\ 0 \in 0 .. DataSize
    BY <1>1 DEF Values
  <2>2. 0 \in Word
    BY DEF Word
  <2>. QED  BY <2>1, <2>2 DEF States
<1>. DEFINE z == [k \in 1 .. DataSize |-> 0]
<1>3. z \in [1 .. DataSize -> Values]
  BY <1>2
<1>. HIDE DEF z
<1>4. Start(DataSize) = [state |-> "none", hi |-> 0, fc |-> 0, length |-> 0,
                         index |-> 0, data |-> z, src |-> {}]
  BY DEF Start, z
<1>. QED  BY <1>2, <1>3, <1>4 DEF ParserOK

\* The connection is lost: what the automaton has begun is cut.
LEMMA LinkLostStep ==
  ASSUME IInv, LinkLost
  PROVE  IInv'
<1>1. TypeOK /\ HistoryOK /\ StreamOK /\ DeviceOK /\ DeviceInside
  BY DEF IInv
<1>2. /\ faults < MaxFaults /\ faults' = faults + 1
      /\ toDevice' = <<>> /\ toPhone' = <<>>
      /\ cut' = [device |-> cut.device \cup TagsOf(toDevice),
                 phone |-> cut.phone \cup TagsOf(toPhone)]
      /\ UNCHANGED <<phone, reader, device, frames, replies, dispatched, pDone,
                     overwritten, coalesced>>
  BY DEF LinkLost
<1>3. TagsOf(toDevice) \subseteq 1 .. Len(frames)
  <2>1. \A i \in 1 .. Len(toDevice) : toDevice[i].n \in 1 .. Len(frames)
    BY <1>1 DEF StreamOK, OfFrame
  <2>. QED  BY <2>1 DEF TagsOf
<1>4. TagsOf(toPhone) \subseteq Nat
  <2>1. \A i \in 1 .. Len(toPhone) : toPhone[i] \in Bytes
    BY <1>1, ElementOfSeq DEF HistoryOK
  <2>. QED  BY <2>1 DEF TagsOf, Bytes
<1>5. /\ toDevice' \in Seq(Bytes) /\ toPhone' \in Seq(Bytes)
      /\ Len(toDevice') = 0 /\ Len(toPhone') = 0
  BY <1>2
<1>6. /\ cut'.device = cut.device \cup TagsOf(toDevice)
      /\ cut'.phone = cut.phone \cup TagsOf(toPhone)
  BY <1>2
<1>7. HistoryOK'
  <2>1. /\ buffer' \in Seq(Bytes) /\ inbox' \in Seq(Nat)
        /\ frames' \in Seq(Presses) /\ Len(frames') <= MaxPresses
        /\ \A n \in 1 .. Len(frames') : <<frames'[n].fc, frames'[n].data>> \in Kinds
        /\ replies' \in Seq(Answers) /\ dispatched' \in Seq(1 .. Len(frames'))
    BY <1>1, <1>2, Zenon DEF HistoryOK, reader
  <2>2. cut.device \subseteq 1 .. Len(frames) /\ cut.device \subseteq Nat /\ cut.phone \subseteq Nat
    BY <1>1 DEF HistoryOK
  <2>3. frames' = frames
    BY <1>2
  <2>4. cut'.device \subseteq 1 .. Len(frames')
    BY <1>3, <1>6, <2>2, <2>3
  <2>5. TagsOf(toDevice) \subseteq Nat
    BY <1>3
  <2>6. cut' \in [device : SUBSET Nat, phone : SUBSET Nat]
    BY <1>2, <1>4, <2>2, <2>5
  <2>. QED  BY <1>5, <2>1, <2>4, <2>6 DEF HistoryOK
<1>8. TypeOK'
  <2>1. faults' \in 0 .. MaxFaults
    BY <1>1, <1>2, SessionBounds DEF TypeOK
  <2>. QED  BY <1>1, <1>2, <2>1 DEF TypeOK, phone, reader, device, ParserOK
<1>9. StreamOK'
  BY <1>2, <1>5 DEF StreamOK
<1>10. DeviceInside'
  BY <1>1, <1>2, <1>6 DEF DeviceInside, device
<1>11. dParser' = dParser
  BY <1>2 DEF device
<1>12. Where(dParser, 0)'
  <2>. SUFFICES ASSUME dParser.state # "none"  PROVE Mixed(dParser)'
    <3>1. ~(0 < Len(toDevice'))
      BY <1>5
    <3>. QED  BY <1>11, <3>1, Zenon DEF Where, Between
  <2>1. Mixed(dParser) \/ \E i \in 1 .. Len(toDevice) : toDevice[i].n \in dParser.src
    <3>1. CASE Mixed(dParser)
      BY <3>1
    <3>2. CASE /\ 0 < Len(toDevice)
               /\ Inside(dParser, toDevice[1]) \/ Single(dParser, toDevice[1])
      <4>1. 1 \in 1 .. Len(toDevice)
        BY <1>1, <3>2 DEF HistoryOK
      <4>2. toDevice[1].n \in dParser.src
        BY <3>2 DEF Inside, Single
      <4>. QED  BY <4>1, <4>2
    <3>3. 0 + 1 = 1
      OBVIOUS
    <3>. QED  BY <1>1, <3>1, <3>2, <3>3, Zenon DEF DeviceOK, Where, Between
  <2>2. \A i \in 1 .. Len(toDevice) : toDevice[i].n \in TagsOf(toDevice)
    BY DEF TagsOf
  <2>. QED  BY <1>6, <1>11, <2>1, <2>2 DEF Mixed
<1>13. DoneOK(dParser, 0)'
  BY <1>5 DEF DoneOK
<1>14. IndexOK(dParser)'
  BY <1>1, <1>11 DEF DeviceOK, IndexOK
<1>. QED  BY <1>7, <1>8, <1>9, <1>10, <1>12, <1>13, <1>14 DEF IInv, DeviceOK

\* The device is reset, possibly inside a frame that it has not dispatched: what
\* is left of that frame is no frame, or the frame counts as cut.
LEMMA ResetStep ==
  ASSUME IInv, NEW k \in Lengths(toDevice) \cup {0}, DeviceReset(k)
  PROVE  IInv'
<1>1. TypeOK /\ HistoryOK /\ StreamOK /\ DeviceOK /\ DeviceInside
  BY DEF IInv
<1>2. /\ faults < MaxFaults /\ faults' = faults + 1
      /\ toDevice' = SubSeq(toDevice, k + 1, Len(toDevice))
      /\ secret' = NoSecret /\ sendmessage' = "uninitialised"
      /\ dParser' = Start(DataSize) /\ dpc' = "running"
      /\ DMIDgeneration_flag' = FALSE
      /\ cut' = [cut EXCEPT !.device = @ \cup TornFrame(toDevice')]
      /\ UNCHANGED <<phone, reader, toPhone, frames, replies, dispatched, pDone,
                     overwritten, coalesced>>
  BY DEF DeviceReset
<1>3. toDevice \in Seq(Bytes) /\ Len(toDevice) \in Nat /\ k \in 0 .. Len(toDevice)
  <2>1. toDevice \in Seq(Bytes)
    BY <1>1 DEF HistoryOK
  <2>2. Len(toDevice) \in Nat
    BY <2>1
  <2>3. k \in Lengths(toDevice) => k \in 0 .. Len(toDevice)
    BY <2>1, LengthsAre
  <2>. QED  BY <2>1, <2>2, <2>3
<1>4. /\ toDevice' \in Seq(Bytes) /\ StreamOK'
      /\ \A i \in 1 .. Len(toDevice') :
           toDevice'[i] = toDevice[k + i] /\ k + i \in 1 .. Len(toDevice)
  BY <1>1, <1>2, <1>3, Suffix
<1>5. ParserOK(dParser') /\ dParser'.state = "none" /\ dParser'.index = 0
  BY <1>2, StartIs
<1>6. TypeOK'
  <2>1. faults' \in 0 .. MaxFaults
    BY <1>1, <1>2, SessionBounds DEF TypeOK
  <2>. QED  BY <1>1, <1>2, <1>5, <2>1 DEF TypeOK, phone, reader, ParserOK
<1>11. /\ cut \in [device : SUBSET Nat, phone : SUBSET Nat]
       /\ cut.device \subseteq 1 .. Len(frames)
  BY <1>1 DEF HistoryOK
<1>12. TornFrame(toDevice') \subseteq 1 .. Len(frames)
  <2>1. \A i \in 1 .. Len(toDevice') : toDevice'[i].n \in 1 .. Len(frames)
    BY <1>1, <1>4 DEF StreamOK, OfFrame
  <2>. QED  BY <2>1 DEF TornFrame, TagsOf
<1>13. /\ cut' \in [device : SUBSET Nat, phone : SUBSET Nat]
       /\ cut'.device = cut.device \cup TornFrame(toDevice')
  BY <1>2, <1>11, <1>12
<1>7. HistoryOK'
  <2>1. cut'.device \subseteq 1 .. Len(frames')
    BY <1>2, <1>11, <1>12, <1>13
  <2>. QED  BY <1>1, <1>2, <1>4, <1>13, <2>1 DEF HistoryOK, reader
<1>8. DeviceInside'
  BY <1>2 DEF DeviceInside
<1>9. Where(dParser, 0)' /\ IndexOK(dParser)'
  <2>1. ASSUME 0 < Len(toDevice')  PROVE Safe(toDevice[1])'
    <3>. DEFINE c == toDevice'[1]
    <3>1. 1 \in 1 .. Len(toDevice')
      BY <1>4, <2>1
    <3>2. c.n \in TagsOf(toDevice') /\ c \in Bytes
      BY <1>4, <3>1 DEF TagsOf
    <3>3. c.at = 1 \/ c.at > 1
      <4>1. c.at \in Nat /\ OfFrame(toDevice[k + 1]) /\ c = toDevice[k + 1]
        BY <1>1, <1>4, <3>1, <3>2 DEF StreamOK, Bytes
      <4>2. c.at \in 1 .. Len(Message(c.n))
        BY <4>1, Zenon DEF OfFrame
      <4>. HIDE DEF c
      <4>. QED  BY <4>1, <4>2
    <3>4. c.at > 1 /\ MarkBehind(Message(c.n), c.at) => c.n \in TornFrame(toDevice')
      BY <3>2, Zenon DEF TornFrame
    <3>. QED  BY <1>2, <1>13, <3>3, <3>4, Zenon DEF Safe, Plain, Message
  <2>2. 0 + 1 = 1
    OBVIOUS
  <2>. QED  BY <1>5, <2>1, <2>2, Zenon DEF Where, Between, IndexOK
<1>10. DoneOK(dParser, 0)'
  <2>. DEFINE a == toDevice[1]
              c == toDevice'[1]
  <2>1. SUFFICES ASSUME 0 < Len(toDevice'), NEW m \in dDone
                 PROVE  m < c.n \/ (m = c.n /\ c.at > 1)
    <3>1. dDone' = dDone
      BY <1>2 DEF dDone
    <3>2. c.at > 1 => Passing(dParser, toDevice[1])'
      BY <1>5, Zenon DEF Passing
    <3>3. 0 + 1 = 1
      OBVIOUS
    <3>. QED  BY <3>1, <3>2, <3>3, Zenon DEF DoneOK
  <2>2. c = toDevice[k + 1] /\ k + 1 \in 1 .. Len(toDevice) /\ 0 < Len(toDevice)
    <3>1. 1 \in 1 .. Len(toDevice')
      BY <1>4, <2>1
    <3>2. c = toDevice[k + 1] /\ k + 1 \in 1 .. Len(toDevice)
      BY <1>4, <3>1
    <3>. QED  BY <1>3, <3>2
  <2>3. m < a.n \/ (m = a.n /\ a.at > 1)
    <3>1. 0 + 1 = 1
      OBVIOUS
    <3>. QED  BY <1>1, <2>2, <3>1, Zenon DEF DeviceOK, DoneOK, Passing
  <2>4. a.n < c.n \/ (a.n = c.n /\ a.at <= c.at)
    <3>. DEFINE i == k + 1
    <3>1. i \in 1 .. Len(toDevice) /\ c = toDevice[i]
      BY <2>2
    <3>. HIDE DEF i
    <3>2. a.n < toDevice[i].n \/ (a.n = toDevice[i].n /\ a.at <= toDevice[i].at)
      BY <1>1, <3>1, HeadFirst
    <3>. QED  BY <3>1, <3>2, Zenon
  <2>5. a \in Bytes /\ c \in Bytes /\ m \in Nat
    <3>1. 1 \in 1 .. Len(toDevice)
      BY <1>3, <2>2
    <3>2. a \in Bytes /\ toDevice[k + 1] \in Bytes
      BY <1>3, <2>2, <3>1, ElementOfSeq
    <3>3. m \in Nat
      BY <1>1, DoneNumbers
    <3>. QED  BY <2>2, <3>2, <3>3
  <2>6. a.n \in Nat /\ a.at \in Nat /\ c.n \in Nat /\ c.at \in Nat
    BY <2>5 DEF Bytes
  <2>. HIDE DEF a, c
  <2>. QED  BY <2>3, <2>4, <2>5, <2>6
<1>. QED  BY <1>4, <1>6, <1>7, <1>8, <1>9, <1>10 DEF IInv, DeviceOK

-----------------------------------------------------------------------------
(* The invariant, and what follows from it.                                *)

LEMMA InitHolds == Init => IInv
<1>. SUFFICES ASSUME Init  PROVE IInv
  OBVIOUS
<1>1. /\ ParserOK(pParser) /\ ParserOK(dParser)
      /\ dParser.state = "none" /\ dParser.index = 0
  BY StartIs DEF Init
<1>2. /\ toDevice = <<>> /\ toPhone = <<>> /\ buffer = <<>> /\ inbox = <<>>
      /\ frames = <<>> /\ replies = <<>> /\ dispatched = <<>> /\ pDone = {}
      /\ cut = [device |-> {}, phone |-> {}] /\ dpc = "running"
      /\ j = 0 /\ chunk = 0 /\ faults = 0
  BY DEF Init
<1>3. Len(toDevice) = 0 /\ Len(frames) = 0 /\ Len(replies) = 0 /\ Len(inbox) = 0
      /\ Len(buffer) = 0
  BY <1>2
<1>4. TypeOK
  <2>1. /\ crashed = FALSE /\ sendmessage = "uninitialised" /\ DMIDgeneration_flag = FALSE
        /\ alice_shared_secret = NoSecret /\ secret = NoSecret
        /\ overwritten = FALSE /\ coalesced = FALSE
    BY DEF Init
  <2>2. faults \in 0 .. MaxFaults
    BY <1>2, SessionBounds
  <2>3. /\ j \in Nat /\ chunk \in Nat /\ chunk <= Len(buffer)
        /\ \A i \in 1 .. Len(inbox) : inbox[i] \in 1 .. Len(buffer)
    BY <1>2, <1>3
  <2>4. /\ crashed \in BOOLEAN /\ DMIDgeneration_flag \in BOOLEAN
        /\ overwritten \in BOOLEAN /\ coalesced \in BOOLEAN
    BY <2>1
  <2>. QED  BY <1>1, <1>2, <2>1, <2>2, <2>3, <2>4 DEF TypeOK
<1>5. HistoryOK
  <2>1. 0 <= MaxPresses
    BY SessionBounds
  <2>. QED  BY <1>2, <1>3, <2>1 DEF HistoryOK
<1>6. StreamOK
  BY <1>2, <1>3 DEF StreamOK
<1>7. DeviceOK
  BY <1>1, <1>3 DEF DeviceOK, Where, Between, IndexOK, DoneOK
<1>8. DeviceInside
  BY <1>2 DEF DeviceInside
<1>. QED  BY <1>4, <1>5, <1>6, <1>7, <1>8 DEF IInv

LEMMA NextHolds ==
  ASSUME IInv, [Next]_vars
  PROVE  IInv'
<1>1. CASE Buttons
  <2>1. /\ <<1, AliceKey>> \in Kinds /\ <<20, CipherText>> \in Kinds
        /\ <<30, <<1>>>> \in Kinds
    BY DEF Kinds
  <2>2. CASE BuildEncryptionChannel
    BY <2>1, <2>2, PressStep DEF BuildEncryptionChannel
  <2>3. CASE SendEncryptionMessage
    BY <2>1, <2>3, PressStep DEF SendEncryptionMessage
  <2>4. CASE TriggerCreateDMID
    BY <2>1, <2>4, PressStep DEF TriggerCreateDMID
  <2>. QED  BY <1>1, <2>2, <2>3, <2>4 DEF Buttons
<1>2. CASE Device
  <2>1. CASE \E n \in Lengths(toDevice) : DeviceReceive(n)
    BY <2>1, ReceiveStep
  <2>2. CASE DeviceOverflow
    BY <2>2, OverflowStep
  <2>3. CASE DeviceOverrun
    BY <2>3, OverrunStep
  <2>. QED  BY <1>2, <2>1, <2>2, <2>3 DEF Device
<1>3. CASE Reader
  BY <1>3, ReadStep DEF Reader
<1>4. CASE Handler
  BY <1>4, HandlerStep
<1>5. CASE Faults
  <2>1. CASE LinkLost
    BY <2>1, LinkLostStep
  <2>2. CASE \E k \in Lengths(toDevice) \cup {0} : DeviceReset(k)
    BY <2>2, ResetStep
  <2>. QED  BY <1>5, <2>1, <2>2 DEF Faults
<1>6. CASE UNCHANGED vars
  <2>1. /\ UNCHANGED <<alice_shared_secret, pParser, j, chunk, crashed, inbox, buffer>>
        /\ UNCHANGED <<secret, sendmessage, dParser, dpc, DMIDgeneration_flag>>
        /\ UNCHANGED <<toDevice, toPhone, frames, replies, dispatched, pDone, cut>>
        /\ UNCHANGED <<overwritten, coalesced, faults>>
    BY <1>6 DEF vars, phone, reader, device, links, history
  <2>2. TypeOK /\ HistoryOK /\ StreamOK /\ DeviceOK /\ DeviceInside
    BY DEF IInv
  <2>3. TypeOK'
    BY <2>1, <2>2 DEF TypeOK, ParserOK
  <2>4. HistoryOK'
    BY <2>1, <2>2 DEF HistoryOK
  <2>5. StreamOK' /\ DeviceOK'
    BY <2>1, <2>2, DeviceStands
  <2>6. DeviceInside'
    BY <2>1, <2>2 DEF DeviceInside
  <2>. QED  BY <2>3, <2>4, <2>5, <2>6 DEF IInv
<1>. QED  BY <1>1, <1>2, <1>3, <1>4, <1>5, <1>6 DEF Next

\* A frame is dispatched by DeviceReceive only.
LEMMA FrameDispatched ==
  ASSUME IInv, [Next]_vars, Dispatches
  PROVE  LET n == dispatched'[Len(dispatched')] IN
           \/ Whole(dParser', n) /\ \A m \in dDone : m < n
           \/ dParser'.src \cap cut.device # {}
<1>1. PICK n \in Lengths(toDevice) : DeviceReceive(n)
  <2>1. ~UNCHANGED dispatched
    BY DEF Dispatches
  <2>. QED  BY <2>1 DEF Next, Buttons, Device, Reader, Handler, Faults,
         BuildEncryptionChannel, SendEncryptionMessage, TriggerCreateDMID, Press,
         DeviceOverflow, DeviceOverrun, Read, TakeChunk, HandleBytes, Crash, EndChunk,
         LinkLost, DeviceReset, vars, history
<1>2. /\ HistoryOK /\ StreamOK /\ DeviceOK /\ ParserOK(dParser)
      /\ toDevice \in Seq(Bytes) /\ dispatched \in Seq(1 .. Len(frames))
  BY DEF IInv, TypeOK, HistoryOK
<1>3. n \in 0 .. Len(toDevice)
  BY <1>2, LengthsAre
<1>. DEFINE r == Run(dParser, SubSeq(toDevice, 1, n))
            y == toDevice[r.taken].n
<1>4. /\ r.complete /\ dParser' = r.parser /\ dispatched' = Append(dispatched, y)
  <2>1. ~UNCHANGED dispatched
    BY DEF Dispatches
  <2>. QED  BY <1>1, <2>1 DEF DeviceReceive
<1>5. (Whole(r.parser, y) /\ \A d \in dDone : d < y) \/ Mixed(r.parser)
  BY <1>2, <1>3, <1>4, ReceiveEnds
<1>. HIDE DEF r, y
<1>6. dispatched'[Len(dispatched')] = y
  BY <1>2, <1>4
<1>. QED  BY <1>4, <1>5, <1>6, Zenon DEF Mixed

THEOREM Inductive == Spec => []IInv
<1>1. Init => IInv
  BY InitHolds
<1>2. IInv /\ [Next]_vars => IInv'
  BY NextHolds
<1>. QED  BY <1>1, <1>2, PTL DEF Spec

\* For all keys and cipher texts: the types of both automata, the handler's index
\* and the secrets, in freertos_usart.c and DeviceFragment.java.
THEOREM TypeCorrect == Spec => []TypeOK
<1>1. IInv => TypeOK
  BY DEF IInv
<1>. QED  BY <1>1, Inductive, PTL

\* The device dispatches (bluetooth_uart_task) whole frames of the phone only, in
\* their order and once each, wherever the task stops reading, the ring overflows
\* or the device is reset, and whatever bytes the keys are made of; what is not
\* such a frame contains bytes of one that was cut.
THEOREM WholeFrames == Spec => DeviceWholeFrames
<1>1. ASSUME IInv, [Next]_vars
      PROVE  [Dispatches => LET n == dispatched'[Len(dispatched')] IN
                \/ Whole(dParser', n) /\ \A m \in dDone : m < n
                \/ dParser'.src \cap cut.device # {}]_vars
  BY <1>1, FrameDispatched
<1>. QED  BY <1>1, Inductive, PTL DEF Spec, DeviceWholeFrames

\* The device writes behind dataReceive (serialDataProcess) only when a frame was
\* cut: the device's half of WritesStayInside.
THEOREM DeviceStaysInside == Spec => []DeviceInside
<1>1. IInv => DeviceInside
  BY DEF IInv
<1>. QED  BY <1>1, Inductive, PTL

-----------------------------------------------------------------------------
(* The phone's side: what its automaton finds in the replies.              *)

\* The frames the device sends.
AnswerKinds == {<<1, DeviceKeys[i]>> : i \in 1 .. Len(DeviceKeys)} \cup {<<20, CipherText>>}

\* The frames of the answers rs, by their numbers; 0 is the text.
Said(rs, n) == [fc |-> rs[n].fc, data |-> rs[n].data]
Text(rs, n) == IF n = 0 THEN Overrun ELSE Frame(Said(rs, n).fc, Said(rs, n).data)
AnswersOK(rs) ==
  /\ rs \in Seq(Answers)
  /\ \A n \in 1 .. Len(rs) : <<Said(rs, n).fc, Said(rs, n).data>> \in AnswerKinds

\* The bytes s are the rest of a stream of answers and texts.
OfText(rs, b) == /\ b.n \in 0 .. Len(rs) /\ b.at \in 1 .. Len(Text(rs, b.n))
                 /\ b.v = Text(rs, b.n)[b.at]
GoesOn(rs, b, c) == IF b.at < Len(Text(rs, b.n)) THEN c.n = b.n /\ c.at = b.at + 1
                                                 ELSE c.at = 1
FlowOK(rs, s) ==
  /\ \A i \in 1 .. Len(s) : OfText(rs, s[i])
  /\ \A i \in 1 .. Len(s) - 1 : GoesOn(rs, s[i], s[i + 1])
  /\ s # <<>> => s[Len(s)].at = Len(Text(rs, s[Len(s)].n))

\* Behind k bytes of s the automaton is inside a frame, has met a single byte 07
\* that starts none, or is between frames: the next byte then starts one, or no
\* mark is left in its frame.
Quiet(rs, b) == ~MarkBehind(Text(rs, b.n), b.at)
Among(rs, p, b) == b.n > 0 /\ b.at > 1 /\ Holds(p, Said(rs, b.n), b.at)
Alone(rs, p, b) == p.state = "head_state1" /\ b.v # 65 /\ Quiet(rs, b)
Apart(rs, s, k) == k < Len(s) => s[k + 1].at = 1 \/ Quiet(rs, s[k + 1])
Stands(rs, p, s, k) ==
  \/ p.state = "none" /\ Apart(rs, s, k)
  \/ k < Len(s) /\ (Among(rs, p, s[k + 1]) \/ Alone(rs, p, s[k + 1]))

\* What the phone has still to parse: the chunk in hand, or the one queued, and
\* what is on its way; and how much of it the handler has behind it.
Window == IF ~Idle THEN chunk ELSE IF inbox = <<>> THEN 0 ELSE inbox[1]
Rest   == SubSeq(buffer, 1, Window) \o toPhone
Place  == IF j < Window THEN j ELSE Window

\* No chunk was overwritten and no reply was cut.
Clean  == ~overwritten /\ cut.phone = {}

PhoneAt ==
  /\ FlowOK(replies, Rest) /\ Stands(replies, pParser, Rest, Place) /\ IndexOK(pParser)
  /\ crashed = FALSE /\ (inbox = <<>> \/ (Idle /\ Len(inbox) = 1))
PhoneOK ==
  /\ Idle => j = 0
  /\ AnswersOK(replies)
  /\ Clean => PhoneAt
  /\ PhoneSecretIsSent

\* A frame of the device.
LEMMA AnswersAre ==
  ASSUME NEW kind \in AnswerKinds
  PROVE  /\ kind[1] \in {1, 20} /\ kind[2] \in Seq(Values)
         /\ Len(kind[2]) \in 1 .. DataSize
         /\ kind[1] = 1 => Len(kind[2]) = KeyLen
         /\ Contents(Frame(kind[1], kind[2]), kind[1], kind[2])
<1>. DEFINE fc == kind[1]
            d == kind[2]
            m == Frame(fc, d)
            l == Len(d)
<1>1. fc \in {1, 20} /\ d \in Seq(0 .. 127) /\ l \in 1 .. DataSize /\ (fc = 1 => l = KeyLen)
  <2>1. CASE kind = <<20, CipherText>>
    BY <2>1, KeysAssumption
  <2>2. CASE \E i \in 1 .. Len(DeviceKeys) : kind = <<1, DeviceKeys[i]>>
    <3>1. PICK i \in 1 .. Len(DeviceKeys) : kind = <<1, DeviceKeys[i]>>
      BY <2>2
    <3>2. DeviceKeys[i] \in Seq(0 .. 127) /\ Len(DeviceKeys[i]) = KeyLen
      BY KeysAssumption, ElementOfSeq DEF KeyLen
    <3>3. KeyLen \in Nat /\ KeyLen > 0 /\ DataSize > KeyLen /\ DataSize \in Nat
      <4>1. DataSize \in Nat
        BY KeysAssumption, SmallValues
      <4>2. Len(AliceKey) \in Nat /\ Len(AliceKey) > 0 /\ DataSize > Len(AliceKey)
        BY KeysAssumption
      <4>. QED  BY <4>1, <4>2 DEF KeyLen
    <3>4. KeyLen \in 1 .. DataSize
      BY <3>3
    <3>. QED  BY <3>1, <3>2, <3>4
  <2>. QED  BY <2>1, <2>2 DEF AnswerKinds
<1>2. l <= DataSize
  <2>1. DataSize \in Nat
    BY KeysAssumption, SmallValues
  <2>. HIDE DEF l
  <2>. QED  BY <1>1, <2>1
<1>. HIDE DEF fc, d
<1>3. d \in Seq(Values)
  BY <1>1, SmallValues, WiderSeq, Zenon
<1>4. Contents(m, fc, d)
  <2>1. fc \in {1, 20, 30}
    BY <1>1
  <2>2. Len(d) <= DataSize
    BY <1>2, Zenon
  <2>. QED  BY <1>3, <2>1, <2>2, FrameValues
<1>. HIDE DEF m
<1>. QED  BY <1>1, <1>3, <1>4, Zenon DEF m, fc, d, l

\* The frame with number n.
LEMMA SaidIs ==
  ASSUME NEW rs, AnswersOK(rs), NEW n \in 1 .. Len(rs)
  PROVE  /\ FitsIn(Said(rs, n), Text(rs, n))
         /\ Said(rs, n).fc = 1 => n \in Exchanges(rs) /\ Said(rs, n).data = rs[n].data
                                  /\ Len(Said(rs, n).data) = KeyLen
<1>. DEFINE f == Said(rs, n)
            k == <<f.fc, f.data>>
<1>1. k \in AnswerKinds /\ k[1] = f.fc /\ k[2] = f.data
  BY DEF AnswersOK
<1>2. n # 0
  OBVIOUS
<1>3. f.fc = 1 => f.data = rs[n].data /\ n \in Exchanges(rs)
  BY DEF Said, Exchanges
<1>4. Text(rs, n) = Frame(f.fc, f.data)
  BY <1>2 DEF Text
<1>. HIDE DEF k, f
<1>5. /\ k[1] \in {1, 20} /\ k[2] \in Seq(Values) /\ Len(k[2]) \in 1 .. DataSize
      /\ k[1] = 1 => Len(k[2]) = KeyLen
      /\ Contents(Frame(k[1], k[2]), k[1], k[2])
  BY <1>1, AnswersAre
<1>6. k[1] \in {1, 20, 30}
  BY <1>5
<1>7. FitsIn(f, Text(rs, n))
  BY <1>1, <1>4, <1>5, <1>6, Zenon DEF FitsIn
<1>. QED  BY <1>1, <1>3, <1>5, <1>7, Zenon DEF f

\* The last byte of a frame is 0D, and finds the automaton at its end.
LEMMA LastByte ==
  ASSUME NEW f, NEW m, FitsIn(f, m), NEW at \in 1 .. Len(m), ~(at < Len(m))
  PROVE  m[at] = 13 /\ \A p : Holds(p, f, at) => p.state = "end2"
<1>. DEFINE l == Len(f.data)
<1>1. Len(m) = l + 8 /\ m[8 + l] = 13 /\ l \in 1 .. DataSize
  BY DEF FitsIn, Contents
<1>2. DataSize \in Nat
  BY KeysAssumption, SmallValues
<1>. HIDE DEF l
<1>3. l \in Nat /\ l > 0 /\ at = 8 + l
  BY <1>1, <1>2
<1>4. at # 2 /\ at # 3 /\ at # 4 /\ at # 5 /\ at # 6 /\ at # 7 + l /\ ~(at \in 7 .. 6 + l)
  BY <1>3
<1>5. ASSUME NEW p, Holds(p, f, at)  PROVE p.state = "end2"
  BY <1>4, <1>5, Zenon DEF Holds, l
<1>. QED  BY <1>1, <1>3, <1>5, Zenon

\* The byte of the stream behind k bytes, and the one behind that.
LEMMA NextOf ==
  ASSUME NEW rs, AnswersOK(rs), NEW s \in Seq(Bytes), FlowOK(rs, s),
         NEW k \in Nat, k < Len(s)
  PROVE  LET b == s[k + 1]
             c == s[k + 2]
             m == Text(rs, b.n)
         IN  /\ b \in Bytes /\ b.n \in Nat /\ b.at \in Nat /\ b.at \in 1 .. Len(m)
             /\ b.v = m[b.at]
             /\ b.n = 0 => b.v # 7 /\ Quiet(rs, b)
             /\ b.n > 0 => b.n \in 1 .. Len(rs) /\ FitsIn(Said(rs, b.n), m)
             /\ Len(m) \in Nat
             /\ b.at < Len(m) => /\ k + 1 < Len(s) /\ c.n = b.n /\ c.at = b.at + 1
                                 /\ c.v = m[b.at + 1]
             /\ k + 1 < Len(s) /\ ~(b.at < Len(m)) => c.at = 1
<1>. DEFINE b == s[k + 1]
            c == s[k + 2]
            L == Len(s)
            m == Text(rs, b.n)
            e == s[L]
<1>1. L \in Nat /\ k + 1 \in 1 .. L /\ Len(rs) \in Nat
  BY DEF AnswersOK
<1>2. b \in Bytes /\ b.n \in Nat /\ b.at \in Nat
  <2>1. b \in Bytes
    BY <1>1, ElementOfSeq
  <2>. QED  BY <2>1 DEF Bytes
<1>3. OfText(rs, b)
  BY <1>1 DEF FlowOK
<1>4. b.n \in 0 .. Len(rs) /\ b.at \in 1 .. Len(m) /\ b.v = m[b.at]
  BY <1>3 DEF OfText
<1>5. ASSUME k + 1 < L  PROVE GoesOn(rs, b, c) /\ OfText(rs, c)
  <2>1. k + 1 \in 1 .. L - 1 /\ (k + 1) + 1 = k + 2 /\ k + 2 \in 1 .. L
    BY <1>1, <1>5
  <2>2. GoesOn(rs, s[k + 1], s[(k + 1) + 1]) /\ OfText(rs, s[k + 2])
    BY <2>1 DEF FlowOK
  <2>. QED  BY <2>1, <2>2
<1>6. ASSUME ~(k + 1 < L)  PROVE b.at = Len(m)
  <2>1. k + 1 = L
    BY <1>1, <1>6
  <2>2. s # <<>>
    BY <1>1
  <2>3. e.at = Len(Text(rs, e.n))
    BY <2>2 DEF FlowOK
  <2>. QED  BY <2>1, <2>3
<1>7. /\ b.n = 0 => m = Overrun
      /\ \A i \in 1 .. Len(Overrun) : Overrun[i] # 7
      /\ Len(Overrun) \in Nat
  <2>1. Overrun \in Seq(0 .. 127) /\ \A i \in 1 .. Len(Overrun) : Overrun[i] # 7
    BY KeysAssumption
  <2>2. Len(Overrun) \in Nat
    BY <2>1
  <2>3. b.n = 0 => m = Overrun
    BY DEF Text
  <2>. HIDE DEF b, m
  <2>. QED  BY <2>1, <2>2, <2>3, Zenon
<1>. HIDE DEF b, c, L, m
<1>8. b.n = 0 => b.v # 7 /\ Quiet(rs, b)
  <2>. SUFFICES ASSUME b.n = 0  PROVE b.v # 7 /\ Quiet(rs, b)
    OBVIOUS
  <2>1. m = Overrun /\ m = Text(rs, b.n)
    BY <1>7 DEF m
  <2>2. b.v # 7
    BY <1>4, <1>7, <2>1
  <2>3. ~MarkBehind(m, b.at)
    <3>. DEFINE l == Len(Overrun)
    <3>1. l \in Nat /\ b.at \in 1 .. l /\ \A i \in 1 .. l : Overrun[i] # 7
      BY <1>4, <1>7, <2>1
    <3>2. Len(m) = l
      BY <2>1
    <3>. HIDE DEF l
    <3>3. \A i \in b.at .. l - 1 : i \in 1 .. l
      BY <3>1
    <3>. QED  BY <2>1, <3>1, <3>2, <3>3 DEF MarkBehind
  <2>. QED  BY <2>1, <2>2, <2>3 DEF Quiet
<1>9. b.n > 0 => b.n \in 1 .. Len(rs) /\ FitsIn(Said(rs, b.n), m)
  <2>. SUFFICES ASSUME b.n > 0  PROVE b.n \in 1 .. Len(rs) /\ FitsIn(Said(rs, b.n), m)
    OBVIOUS
  <2>1. b.n \in 1 .. Len(rs)
    BY <1>1, <1>2, <1>4
  <2>. QED  BY <2>1, SaidIs DEF m
<1>10. ASSUME b.at < Len(m)
       PROVE  k + 1 < L /\ c.n = b.n /\ c.at = b.at + 1 /\ c.v = m[b.at + 1]
  <2>1. k + 1 < L
    BY <1>2, <1>6, <1>10
  <2>2. c.n = b.n /\ c.at = b.at + 1
    BY <1>5, <1>10, <2>1 DEF GoesOn, m
  <2>3. c.v = Text(rs, c.n)[c.at]
    BY <1>5, <2>1 DEF OfText
  <2>. QED  BY <2>1, <2>2, <2>3 DEF m
<1>11. Len(m) \in Nat
  <2>1. CASE b.n = 0
    BY <1>7, <2>1
  <2>2. CASE b.n > 0
    <3>1. Len(m) = Len(Said(rs, b.n).data) + 8 /\ Len(Said(rs, b.n).data) \in 1 .. DataSize
      BY <1>9, <2>2 DEF FitsIn, Contents
    <3>2. DataSize \in Nat
      BY KeysAssumption, SmallValues
    <3>. QED  BY <3>1, <3>2
  <2>. QED  BY <1>2, <2>1, <2>2
<1>12. ASSUME k + 1 < L, ~(b.at < Len(m))  PROVE c.at = 1
  BY <1>5, <1>12 DEF GoesOn, m
<1>. QED  BY <1>2, <1>4, <1>8, <1>9, <1>10, <1>11, <1>12 DEF b, c, L, m

\* Behind a byte with no mark left in its frame the next byte has none left
\* either, or starts a frame; and a single byte 07 is not followed by 41.
LEMMA QuietNext ==
  ASSUME NEW rs, AnswersOK(rs), NEW s \in Seq(Bytes), FlowOK(rs, s),
         NEW k \in Nat, k < Len(s), Quiet(rs, s[k + 1])
  PROVE  LET b == s[k + 1]
             c == s[k + 2]
         IN  /\ Apart(rs, s, k + 1)
             /\ b.at < Len(Text(rs, b.n)) => Quiet(rs, c) /\ (b.v = 7 => c.v # 65)
<1>. DEFINE b == s[k + 1]
            c == s[k + 2]
            m == Text(rs, b.n)
<1>1. /\ b.at \in Nat /\ b.v = m[b.at] /\ Len(m) \in Nat
      /\ b.at < Len(m) => c.n = b.n /\ c.at = b.at + 1 /\ c.v = m[b.at + 1]
      /\ k + 1 < Len(s) /\ ~(b.at < Len(m)) => c.at = 1
  BY NextOf
<1>2. ~MarkBehind(m, b.at)
  BY DEF Quiet
<1>3. (k + 1) + 1 = k + 2
  OBVIOUS
<1>. HIDE DEF b, c, m
<1>4. /\ ~MarkBehind(m, b.at + 1)
      /\ b.at < Len(m) /\ m[b.at] = 7 => m[b.at + 1] # 65
  BY <1>1, <1>2, MarkLater
<1>5. ASSUME b.at < Len(m)  PROVE Quiet(rs, c) /\ (b.v = 7 => c.v # 65)
  <2>1. Text(rs, c.n) = m
    BY <1>1, <1>5 DEF m
  <2>. QED  BY <1>1, <1>4, <1>5, <2>1 DEF Quiet
<1>6. k + 1 < Len(s) => c.at = 1 \/ Quiet(rs, c)
  BY <1>1, <1>5
<1>7. Apart(rs, s, k + 1)
  BY <1>3, <1>6 DEF Apart, c
<1>. QED  BY <1>5, <1>7 DEF b, c, m

\* Between frames, a byte starts the next one, or is passed over.
LEMMA MarkStarts ==
  ASSUME NEW rs, AnswersOK(rs), NEW s \in Seq(Bytes), FlowOK(rs, s),
         NEW k \in Nat, k < Len(s), NEW p, ParserOK(p), p.state = "none", Apart(rs, s, k)
  PROVE  Stands(rs, Parse(p, s[k + 1]), s, k + 1)
<1>. DEFINE b == s[k + 1]
            c == s[k + 2]
            q == Parse(p, b)
            m == Text(rs, b.n)
            f == Said(rs, b.n)
            l == Len(f.data)
            L == Len(s)
<1>1. /\ b \in Bytes /\ b.n \in Nat /\ b.at \in Nat /\ b.at \in 1 .. Len(m) /\ b.v = m[b.at]
      /\ b.n = 0 => b.v # 7 /\ Quiet(rs, b)
      /\ b.n > 0 => FitsIn(f, m)
      /\ b.at < Len(m) => k + 1 < L /\ c.n = b.n /\ c.at = b.at + 1 /\ c.v = m[b.at + 1]
  BY NextOf
<1>2. q.state = IF b.v = 7 THEN "head_state1" ELSE "none"
  <2>. HIDE DEF b, m
  <2>1. p.state \in States /\ p \in Automata(Values, Word, 0 .. DataSize, [1 .. DataSize -> Values])
    BY ParserFields
  <2>2. /\ b.v = 7 => ParseByte(p, b.v) = To(p, "head_state1")
        /\ b.v # 7 => ParseByte(p, b.v) = p
    BY <2>1, ParseByteIs
  <2>3. To(p, "head_state1").state = "head_state1"
    BY <2>1 DEF To, Automata
  <2>4. ~Overflows(p)
    BY DEF Overflows
  <2>5. q.state = ParseByte(p, b.v).state
    BY <1>1, <2>4, TypedStep DEF Same
  <2>. HIDE DEF q
  <2>. QED  BY <2>2, <2>3, <2>5, Zenon
<1>3. (k + 1) + 1 = k + 2
  OBVIOUS
<1>4. b.at = 1 \/ Quiet(rs, b)
  BY DEF Apart
<1>5. Quiet(rs, b) => /\ Apart(rs, s, k + 1)
                      /\ b.at < Len(m) => Quiet(rs, c) /\ (b.v = 7 => c.v # 65)
  BY QuietNext
<1>6. CASE b.v # 7
  <2>1. Quiet(rs, b)
    <3>1. ASSUME b.at = 1, b.n > 0  PROVE FALSE
      <4>1. m[1] = 7
        BY <1>1, <3>1 DEF FitsIn, Contents
      <4>. HIDE DEF b, m
      <4>. QED  BY <1>1, <1>6, <3>1, <4>1
    <3>. HIDE DEF b, m
    <3>. QED  BY <1>1, <1>4, <3>1
  <2>. HIDE DEF b, q
  <2>2. Stands(rs, q, s, k + 1)
    BY <1>2, <1>6, <1>5, <2>1, Zenon DEF Stands
  <2>. QED  BY <2>2 DEF b, q
<1>7. CASE b.v = 7
  <2>1. b.n > 0 /\ FitsIn(f, m)
    <3>. HIDE DEF b, f, m
    <3>. QED  BY <1>1, <1>7
  <2>2. Len(m) = l + 8 /\ l \in 1 .. DataSize /\ m[Len(m)] = 13
    <3>1. Len(m) = l + 8 /\ l \in 1 .. DataSize /\ m[8 + l] = 13
      BY <2>1 DEF FitsIn, Contents
    <3>2. DataSize \in Nat
      BY KeysAssumption, SmallValues
    <3>. HIDE DEF l, m
    <3>3. l + 8 = 8 + l
      BY <3>1, <3>2
    <3>. QED  BY <3>1, <3>3
  <2>3. l \in Nat /\ Len(m) \in Nat /\ Len(m) > 8
    <3>1. DataSize \in Nat
      BY KeysAssumption, SmallValues
    <3>. HIDE DEF l, m
    <3>. QED  BY <2>2, <3>1
  <2>. HIDE DEF b, c, f, l, L, m, q
  <2>4. b.at < Len(m)
    <3>1. ASSUME b.at = Len(m)  PROVE FALSE
      <4>1. b.v = 13
        BY <1>1, <2>2, <3>1, Zenon
      <4>. QED  BY <1>7, <4>1
    <3>. QED  BY <1>1, <2>3, <3>1
  <2>5. k + 1 < L /\ c.n = b.n /\ c.at = b.at + 1 /\ c.v = m[b.at + 1]
    BY <1>1, <2>4
  <2>6. Among(rs, q, c) \/ Alone(rs, q, c)
    <3>1. CASE b.at = 1
      <4>1. Holds(q, Said(rs, c.n), 2)
        BY <1>2, <1>7 DEF Holds
      <4>2. c.at = 2 /\ c.n > 0
        BY <2>1, <2>5, <3>1
      <4>. QED  BY <4>1, <4>2 DEF Among
    <3>2. CASE b.at # 1
      <4>1. Quiet(rs, c) /\ c.v # 65
        BY <1>7, <1>4, <1>5, <2>4, <3>2
      <4>. QED  BY <1>2, <1>7, <4>1 DEF Alone
    <3>. QED  BY <3>1, <3>2
  <2>7. Stands(rs, q, s, k + 1)
    BY <1>3, <2>5, <2>6, Zenon DEF Stands, L, c
  <2>. QED  BY <2>7 DEF b, q
<1>. QED  BY <1>6, <1>7

\* A byte that ends no frame takes the automaton from one place to the next.
LEMMA StandsStep ==
  ASSUME NEW rs, AnswersOK(rs), NEW s \in Seq(Bytes), FlowOK(rs, s),
         NEW k \in Nat, k < Len(s), NEW p, ParserOK(p), IndexOK(p), Stands(rs, p, s, k),
         ~Success(p, s[k + 1])
  PROVE  LET q == Parse(p, s[k + 1])
         IN  ~Overflows(p) /\ ParserOK(q) /\ IndexOK(q) /\ Stands(rs, q, s, k + 1)
<1>. DEFINE b == s[k + 1]
            c == s[k + 2]
            q == Parse(p, b)
            m == Text(rs, b.n)
            f == Said(rs, b.n)
            L == Len(s)
            at == b.at
<1>1. /\ b \in Bytes /\ b.n \in Nat /\ at \in Nat /\ at \in 1 .. Len(m) /\ b.v = m[at]
      /\ b.n > 0 => FitsIn(f, m)
      /\ at < Len(m) => k + 1 < L /\ c.n = b.n /\ c.at = at + 1
  BY NextOf
<1>2. ~Success(p, b) /\ (k + 1) + 1 = k + 2
  OBVIOUS
<1>3. p.state \in States /\ p \in Automata(Values, Word, 0 .. DataSize, [1 .. DataSize -> Values])
  BY ParserFields
<1>4. (p.state = "none" /\ Apart(rs, s, k)) \/ Among(rs, p, b) \/ Alone(rs, p, b)
  BY DEF Stands
<1>5. ~Overflows(p)
  <2>1. ASSUME Among(rs, p, b)  PROVE ~Overflows(p)
    <3>1. Holds(p, f, at) /\ FitsIn(f, m)
      BY <1>1, <2>1 DEF Among
    <3>. HIDE DEF b, f, m, at
    <3>2. Len(f.data) \in 1 .. DataSize
      BY <3>1 DEF FitsIn
    <3>. QED  BY <1>1, <3>1, <3>2, HoldsFits
  <2>. HIDE DEF b
  <2>. QED  BY <1>4, <2>1 DEF Overflows, Alone
<1>6. Quiet(rs, b) => Apart(rs, s, k + 1)
  BY QuietNext
<1>. HIDE DEF b, c, q, m, f, L, at
<1>7. ParserOK(q) /\ IndexOK(q) /\ Same(q, ParseByte(p, b.v))
  BY <1>1, <1>5, TypedStep, IndexStays DEF q
<1>8. Stands(rs, q, s, k + 1)
  <2>1. CASE p.state = "none" /\ Apart(rs, s, k)
    BY <2>1, MarkStarts DEF q, b
  <2>2. CASE Alone(rs, p, b)
    <3>1. ParseByte(p, b.v) = To(p, "none")
      BY <1>3, <2>2, ParseByteIs DEF Alone
    <3>2. To(p, "none").state = "none"
      BY <1>3 DEF To, Automata
    <3>3. q.state = "none"
      BY <1>7, <3>1, <3>2 DEF Same
    <3>. QED  BY <1>6, <2>2, <3>3 DEF Stands, Alone
  <2>3. CASE Among(rs, p, b)
    <3>1. b.n > 0 /\ at > 1 /\ Holds(p, f, at) /\ FitsIn(f, m)
      BY <1>1, <2>3 DEF Among, f, at
    <3>2. at < Len(m)
      <4>. SUFFICES ASSUME ~(at < Len(m))  PROVE FALSE
        OBVIOUS
      <4>1. b.v = 13 /\ p.state = "end2"
        BY <1>1, <3>1, LastByte
      <4>. QED  BY <1>2, <4>1 DEF Success
    <3>3. Holds(q, f, at + 1)
      BY <1>1, <3>1, <3>2, HoldsStep DEF q
    <3>4. k + 1 < L /\ c.n = b.n /\ c.at = at + 1 /\ c.at > 1
      BY <1>1, <3>1, <3>2
    <3>5. Holds(q, Said(rs, c.n), c.at)
      BY <3>3, <3>4, Zenon DEF f
    <3>6. Among(rs, q, c)
      BY <3>1, <3>4, <3>5, Zenon DEF Among
    <3>. QED  BY <1>2, <3>4, <3>6, Zenon DEF Stands, L, c
  <2>. QED  BY <1>4, <2>1, <2>2, <2>3
<1>. QED  BY <1>5, <1>7, <1>8 DEF q, b

\* The array's first cells, where they are known one by one.
LEMMA DataIs ==
  ASSUME NEW p, ParserOK(p), NEW d \in Seq(Values), Len(d) \in 1 .. DataSize,
         \A i \in 1 .. Len(d) : p.data[i] = d[i]
  PROVE  SubSeq(p.data, 1, Len(d)) = d
<1>. DEFINE l == Len(d)
            e == p.data
            u == SubSeq(e, 1, l)
<1>1. e \in Seq(Values) /\ Len(e) = DataSize /\ DataSize \in Nat /\ l \in 1 .. DataSize
  BY ParserFields
<1>2. l \in Nat /\ l <= Len(e) /\ \A i \in 1 .. l : e[i] = d[i]
  <2>1. \A i \in 1 .. l : e[i] = d[i]
    OBVIOUS
  <2>. HIDE DEF e, l
  <2>. QED  BY <1>1, <2>1
<1>. HIDE DEF e
<1>3. d \in Seq(Values) /\ l = Len(d)
  OBVIOUS
<1>. HIDE DEF l
<1>4. Len(u) = l /\ u \in Seq(Values) /\ \A i \in 1 .. l : u[i] = e[i]
  BY <1>1, <1>2
<1>. HIDE DEF u
<1>5. u = d
  BY <1>2, <1>3, <1>4, SeqEqual, Zenon
<1>. QED  BY <1>5 DEF u, l, e

\* The byte that ends a frame: the data of function code 1 is a key that was sent.
LEMMA AnswerEnds ==
  ASSUME NEW rs, AnswersOK(rs), NEW s \in Seq(Bytes), FlowOK(rs, s),
         NEW k \in Nat, k < Len(s), NEW p, ParserOK(p), IndexOK(p), Stands(rs, p, s, k),
         Success(p, s[k + 1])
  PROVE  LET q == Parse(p, s[k + 1])
         IN  /\ ParserOK(q) /\ IndexOK(q) /\ q.state = "none"
             /\ q.fc = 1 => \E n \in Exchanges(rs) : SubSeq(q.data, 1, KeyLen) = rs[n].data
<1>. DEFINE b == s[k + 1]
            q == Parse(p, b)
            m == Text(rs, b.n)
            f == Said(rs, b.n)
            at == b.at
            l == Len(f.data)
<1>1. /\ b \in Bytes /\ b.n \in Nat /\ at \in Nat
      /\ b.n > 0 => b.n \in 1 .. Len(rs) /\ FitsIn(f, m)
  BY NextOf
<1>2. p.state = "end2" /\ b.v = 13 /\ ~Overflows(p)
  BY DEF Success, Overflows
<1>3. p.state \in States /\ p \in Automata(Values, Word, 0 .. DataSize, [1 .. DataSize -> Values])
  BY ParserFields
<1>4. Among(rs, p, b)
  BY <1>2 DEF Stands, Alone
<1>5. b.n > 0 /\ Holds(p, f, at)
  BY <1>4 DEF Among
<1>. HIDE DEF b, m, f, at, q
<1>6. ParserOK(q) /\ IndexOK(q) /\ Same(q, ParseByte(p, b.v))
  BY <1>1, <1>2, TypedStep, IndexStays DEF q
<1>7. q.state = "none" /\ q.fc = p.fc /\ q.data = p.data
  <2>1. ParseByte(p, b.v) = To(p, "none")
    BY <1>2, <1>3, ParseByteIs
  <2>. QED  BY <1>3, <1>6, <2>1 DEF To, Automata, Same
<1>8. p.fc = f.fc /\ \A i \in 1 .. l : p.data[i] = f.data[i]
  BY <1>2, <1>5, Zenon DEF Holds
<1>9. FitsIn(f, m) /\ b.n \in 1 .. Len(rs)
  BY <1>1, <1>5
<1>10. SubSeq(p.data, 1, l) = f.data
  <2>1. f.data \in Seq(Values) /\ l \in 1 .. DataSize
    BY <1>9 DEF FitsIn
  <2>. QED  BY <1>8, <2>1, DataIs
<1>11. ASSUME q.fc = 1
       PROVE  \E n \in Exchanges(rs) : SubSeq(q.data, 1, KeyLen) = rs[n].data
  <2>1. b.n \in Exchanges(rs) /\ f.data = rs[b.n].data /\ l = KeyLen
    BY <1>7, <1>8, <1>9, <1>11, SaidIs DEF f
  <2>2. SubSeq(q.data, 1, KeyLen) = rs[b.n].data
    BY <1>7, <1>10, <2>1, Zenon
  <2>. QED  BY <2>1, <2>2
<1>. QED  BY <1>6, <1>7, <1>11 DEF q, b

\* The phone's loop over the bytes of s from a to z.
LEMMA HandleEnds ==
  ASSUME NEW rs, AnswersOK(rs), NEW s \in Seq(Bytes), FlowOK(rs, s),
         NEW p, ParserOK(p), IndexOK(p), NEW a \in Nat, Stands(rs, p, s, a),
         NEW t \in Seq(Inputs), a + Len(t) <= Len(s),
         \A i \in 1 .. Len(t) : t[i] = s[a + i]
  PROVE  LET r == Run(p, t)
         IN  /\ r.taken \in 0 .. Len(t) /\ ParserOK(r.parser) /\ IndexOK(r.parser)
             /\ \/ ~r.complete /\ Stands(rs, r.parser, s, a + r.taken)
                \/ /\ r.complete /\ r.parser.state = "none"
                   /\ r.parser.fc = 1 => \E n \in Exchanges(rs) :
                                           SubSeq(r.parser.data, 1, KeyLen) = rs[n].data
<1>. DEFINE OK(q, k) == ParserOK(q) /\ IndexOK(q) /\ Stands(rs, q, s, a + k)
            J == {x \in Progress(t) : OK(x.parser, x.taken)}
            x0 == [parser |-> p, taken |-> 0]
            r == Run(p, t)
<1>1. Len(t) \in Nat /\ Len(s) \in Nat /\ a + 0 = a
  OBVIOUS
<1>2. p \in Parsers
  BY ParserFields
<1>3. x0 \in J
  <2>1. x0 \in Progress(t)
    BY <1>1, <1>2 DEF Progress
  <2>2. OK(p, 0)
    BY <1>1
  <2>. HIDE DEF OK
  <2>. QED  BY <2>1, <2>2
<1>4. ASSUME NEW x \in J, x.taken < Len(t)
      PROVE  /\ a + x.taken \in Nat /\ a + x.taken < Len(s) /\ x.taken \in Nat
             /\ t[x.taken + 1] = s[(a + x.taken) + 1]
             /\ a + (x.taken + 1) = (a + x.taken) + 1
  <2>1. x.taken \in 0 .. Len(t)
    BY DEF Progress
  <2>. DEFINE k == x.taken
              l == Len(t)
              L == Len(s)
  <2>2. k \in 0 .. l /\ k < l /\ l \in Nat /\ L \in Nat /\ a + l <= L
    BY <1>1, <1>4, <2>1
  <2>. HIDE DEF k, l, L
  <2>3. /\ a + k \in Nat /\ a + k < L /\ k \in Nat /\ k + 1 \in 1 .. l
        /\ a + (k + 1) = (a + k) + 1
    BY <2>2
  <2>4. t[k + 1] = s[(a + k) + 1]
    <3>1. t[k + 1] = s[a + (k + 1)]
      BY <2>3 DEF l
    <3>. QED  BY <2>3, <3>1
  <2>. QED  BY <2>3, <2>4 DEF k, L
<1>5. ASSUME NEW x \in J, Goes(t, x)  PROVE Taking(t, x) \in J
  <2>. DEFINE y == Taking(t, x)
              k == a + x.taken
              q == Parse(x.parser, s[k + 1])
  <2>1. /\ x.taken < Len(t) /\ ~Overflows(x.parser) /\ ~Success(x.parser, t[x.taken + 1])
        /\ OK(x.parser, x.taken) /\ x \in Progress(t)
    BY <1>5 DEF Goes
  <2>2. y \in Progress(t)
    BY <2>1, TakingStays
  <2>3. k \in Nat /\ k < Len(s) /\ t[x.taken + 1] = s[k + 1] /\ a + (x.taken + 1) = k + 1
    BY <1>4, <2>1
  <2>4. y.parser = q /\ y.taken = x.taken + 1
    BY <2>3 DEF Taking
  <2>5. OK(q, x.taken + 1)
    <3>1. /\ ParserOK(x.parser) /\ IndexOK(x.parser) /\ Stands(rs, x.parser, s, k)
          /\ ~Success(x.parser, s[k + 1])
      BY <2>1, <2>3
    <3>. HIDE DEF k
    <3>2. ParserOK(q) /\ IndexOK(q) /\ Stands(rs, q, s, k + 1)
      BY <2>3, <3>1, StandsStep
    <3>. HIDE DEF q
    <3>. QED  BY <2>3, <3>2
  <2>. HIDE DEF OK, y, k, q
  <2>. QED  BY <2>2, <2>4, <2>5 DEF y
<1>6. PICK x \in J : ~Goes(t, x) /\ r = Outcome(t, x)
  <2>1. J \in SUBSET Progress(t)
    OBVIOUS
  <2>. HIDE DEF J
  <2>. QED  BY <1>2, <1>3, <1>5, <2>1, RunEnds
<1>7. x \in Progress(t) /\ OK(x.parser, x.taken) /\ x.taken \in 0 .. Len(t)
  BY DEF Progress
<1>8. \/ ~r.complete /\ r.parser = x.parser /\ r.taken = x.taken
      \/ /\ r.complete /\ x.taken < Len(t) /\ ~Overflows(x.parser)
         /\ Success(x.parser, t[x.taken + 1])
         /\ r.parser = Parse(x.parser, t[x.taken + 1]) /\ r.taken = x.taken + 1
  <2>. HIDE DEF J, OK
  <2>. QED  BY <1>6, <1>7, OutcomeIs
<1>9. CASE ~r.complete /\ r.parser = x.parser /\ r.taken = x.taken
  <2>. HIDE DEF r, J
  <2>. QED  BY <1>7, <1>9 DEF r
<1>10. CASE /\ r.complete /\ x.taken < Len(t) /\ Success(x.parser, t[x.taken + 1])
            /\ r.parser = Parse(x.parser, t[x.taken + 1]) /\ r.taken = x.taken + 1
  <2>. DEFINE k == a + x.taken
  <2>1. k \in Nat /\ k < Len(s) /\ t[x.taken + 1] = s[k + 1]
    BY <1>4, <1>10
  <2>2. /\ ParserOK(x.parser) /\ IndexOK(x.parser) /\ Stands(rs, x.parser, s, k)
        /\ Success(x.parser, s[k + 1]) /\ r.parser = Parse(x.parser, s[k + 1])
    BY <1>7, <1>10, <2>1
  <2>3. r.taken \in 0 .. Len(t)
    <3>. HIDE DEF r, J, OK
    <3>. QED  BY <1>1, <1>7, <1>10
  <2>. HIDE DEF r, k, J, OK
  <2>4. /\ ParserOK(r.parser) /\ IndexOK(r.parser) /\ r.parser.state = "none"
        /\ r.parser.fc = 1 => \E n \in Exchanges(rs) :
                                SubSeq(r.parser.data, 1, KeyLen) = rs[n].data
    BY <2>1, <2>2, AnswerEnds, SMTT(40)
  <2>. QED  BY <1>10, <2>3, <2>4 DEF r
<1>. QED
  <2>. HIDE DEF r, J, OK
  <2>. QED  BY <1>8, <1>9, <1>10 DEF r

\* Streams of answers, put together and taken apart.
LEMMA FlowMore ==
  ASSUME NEW rs, NEW ts, AnswersOK(rs), AnswersOK(ts), Len(rs) <= Len(ts),
         \A n \in 1 .. Len(rs) : ts[n] = rs[n], NEW s \in Seq(Bytes), FlowOK(rs, s)
  PROVE  /\ FlowOK(ts, s)
         /\ \A p, k : k \in Nat /\ Stands(rs, p, s, k) => Stands(ts, p, s, k)
<1>1. /\ Len(rs) \in Nat /\ Len(ts) \in Nat
      /\ \A n \in 0 .. Len(rs) : n \in 0 .. Len(ts) /\ (n = 0 \/ n \in 1 .. Len(rs))
  BY DEF AnswersOK
<1>2. \A n \in 1 .. Len(rs) : Said(ts, n) = Said(rs, n)
  BY DEF Said
<1>3. \A n \in 0 .. Len(rs) : Text(ts, n) = Text(rs, n)
  BY <1>1, <1>2, Zenon DEF Text
<1>4. Len(s) \in Nat
  OBVIOUS
<1>5. \A i \in 1 .. Len(s) : OfText(ts, s[i]) /\ Text(ts, s[i].n) = Text(rs, s[i].n)
                             /\ s[i].n \in 0 .. Len(rs)
  <2>1. \A b : OfText(rs, b) => OfText(ts, b) /\ Text(ts, b.n) = Text(rs, b.n)
                                /\ b.n \in 0 .. Len(rs)
    BY <1>1, <1>3, Zenon DEF OfText
  <2>. QED  BY <2>1 DEF FlowOK
<1>6. \A i \in 1 .. Len(s) - 1 : GoesOn(ts, s[i], s[i + 1])
  <2>. TAKE i \in 1 .. Len(s) - 1
  <2>1. GoesOn(rs, s[i], s[i + 1]) /\ i \in 1 .. Len(s)
    BY <1>4 DEF FlowOK
  <2>. QED  BY <1>5, <2>1 DEF GoesOn
<1>7. ASSUME s # <<>>  PROVE s[Len(s)].at = Len(Text(ts, s[Len(s)].n))
  <2>1. Len(s) \in 1 .. Len(s)
    BY <1>4, <1>7
  <2>. QED  BY <1>5, <1>7, <2>1 DEF FlowOK
<1>8. ASSUME NEW p, NEW k \in Nat, Stands(rs, p, s, k)  PROVE Stands(ts, p, s, k)
  <2>1. ASSUME k < Len(s)
        PROVE  /\ Quiet(ts, s[k + 1]) <=> Quiet(rs, s[k + 1])
               /\ Alone(ts, p, s[k + 1]) <=> Alone(rs, p, s[k + 1])
    <3>1. k + 1 \in 1 .. Len(s)
      BY <1>4, <2>1
    <3>2. Text(ts, s[k + 1].n) = Text(rs, s[k + 1].n)
      BY <1>5, <3>1
    <3>. QED  BY <3>2 DEF Quiet, Alone
  <2>2. ASSUME k < Len(s), Among(rs, p, s[k + 1])  PROVE Among(ts, p, s[k + 1])
    <3>. DEFINE b == s[k + 1]
    <3>1. k + 1 \in 1 .. Len(s)
      BY <1>4, <2>2
    <3>2. b.n \in 0 .. Len(rs) /\ b.n > 0 /\ b.at > 1 /\ Holds(p, Said(rs, b.n), b.at)
      BY <1>5, <2>2, <3>1 DEF Among
    <3>. HIDE DEF b
    <3>3. Said(ts, b.n) = Said(rs, b.n)
      BY <1>1, <1>2, <3>2
    <3>. QED  BY <3>2, <3>3 DEF Among, b
  <2>3. Apart(ts, s, k) <=> Apart(rs, s, k)
    BY <2>1 DEF Apart
  <2>. QED  BY <1>8, <2>1, <2>2, <2>3, Zenon DEF Stands
<1>. QED  BY <1>5, <1>6, <1>7, <1>8 DEF FlowOK

LEMMA FlowAppend ==
  ASSUME NEW rs, NEW s \in Seq(Bytes), NEW t \in Seq(Bytes), FlowOK(rs, s), FlowOK(rs, t),
         t # <<>> => t[1].at = 1
  PROVE  /\ s \o t \in Seq(Bytes) /\ FlowOK(rs, s \o t)
         /\ \A p, k : k \in Nat /\ k <= Len(s) /\ Stands(rs, p, s, k)
                      => Stands(rs, p, s \o t, k)
<1>. DEFINE u == s \o t
            l == Len(s)
            m == Len(t)
<1>1. /\ u \in Seq(Bytes) /\ Len(u) = l + m /\ l \in Nat /\ m \in Nat
      /\ \A i \in 1 .. l : u[i] = s[i]
      /\ \A i \in 1 .. l + m : i > l => u[i] = t[i - l]
      /\ (s = <<>> <=> l = 0) /\ (t = <<>> <=> m = 0) /\ (u = <<>> <=> l + m = 0)
  OBVIOUS
<1>2. /\ \A i \in 1 .. l : OfText(rs, s[i])
      /\ \A i \in 1 .. l - 1 : GoesOn(rs, s[i], s[i + 1])
      /\ l > 0 => s[l].at = Len(Text(rs, s[l].n))
      /\ \A i \in 1 .. m : OfText(rs, t[i])
      /\ \A i \in 1 .. m - 1 : GoesOn(rs, t[i], t[i + 1])
      /\ m > 0 => t[m].at = Len(Text(rs, t[m].n)) /\ t[1].at = 1
  BY <1>1 DEF FlowOK
<1>. HIDE DEF u, l, m
<1>3. \A i \in 1 .. l + m : i \in 1 .. l \/ (i > l /\ i - l \in 1 .. m)
  BY <1>1
<1>4. ASSUME NEW i \in 1 .. l + m  PROVE OfText(rs, u[i])
  BY <1>1, <1>2, <1>3
<1>5. ASSUME NEW i \in 1 .. (l + m) - 1  PROVE GoesOn(rs, u[i], u[i + 1])
  <2>1. CASE i < l
    <3>1. i \in 1 .. l - 1 /\ i \in 1 .. l /\ i + 1 \in 1 .. l
      BY <1>1, <2>1
    <3>. QED  BY <1>1, <1>2, <3>1
  <2>2. CASE i = l
    <3>1. i \in 1 .. l /\ i + 1 \in 1 .. l + m /\ i + 1 > l /\ (i + 1) - l = 1 /\ m > 0 /\ l > 0
      BY <1>1, <2>2
    <3>2. u[i] = s[l] /\ u[i + 1] = t[1]
      BY <1>1, <2>2, <3>1
    <3>3. u[i].at = Len(Text(rs, u[i].n)) /\ u[i + 1].at = 1
      BY <1>2, <3>1, <3>2
    <3>4. u[i].at \in Nat
      <4>1. s[l] \in Bytes
        BY <2>2, <3>1, ElementOfSeq DEF l
      <4>. QED  BY <3>2, <4>1 DEF Bytes
    <3>. QED  BY <3>3, <3>4 DEF GoesOn
  <2>3. CASE i > l
    <3>1. /\ i \in 1 .. l + m /\ i + 1 \in 1 .. l + m /\ i + 1 > l
          /\ (i + 1) - l = (i - l) + 1 /\ i - l \in 1 .. m - 1
      BY <1>1, <2>3, SMTT(30)
    <3>2. \A k \in 1 .. l + m : k > l => u[k] = t[k - l]
      BY <1>1
    <3>3. u[i] = t[i - l] /\ u[i + 1] = t[(i + 1) - l]
      BY <2>3, <3>1, <3>2, Zenon
    <3>4. u[i] = t[i - l] /\ u[i + 1] = t[(i - l) + 1]
      BY <3>1, <3>3, Zenon
    <3>. QED  BY <1>2, <3>1, <3>4
  <2>. QED  BY <1>1, <2>1, <2>2, <2>3
<1>6. ASSUME l + m > 0  PROVE u[l + m].at = Len(Text(rs, u[l + m].n))
  <2>1. CASE m = 0
    <3>1. l + m = l /\ l > 0 /\ l \in 1 .. l
      BY <1>1, <1>6, <2>1
    <3>. QED  BY <1>1, <1>2, <3>1
  <2>2. CASE m > 0
    <3>1. l + m \in 1 .. l + m /\ l + m > l /\ (l + m) - l = m
      BY <1>1, <2>2
    <3>2. u[l + m] = t[m]
      BY <1>1, <3>1
    <3>. QED  BY <1>2, <2>2, <3>2
  <2>. QED  BY <1>1, <2>1, <2>2
<1>7. FlowOK(rs, u)
  <2>1. u # <<>> => Len(u) > 0
    BY <1>1
  <2>. QED  BY <1>1, <1>4, <1>5, <1>6, <2>1 DEF FlowOK
<1>8. ASSUME NEW p, NEW k \in Nat, k <= l, Stands(rs, p, s, k)  PROVE Stands(rs, p, u, k)
  <2>1. ASSUME k < l  PROVE k < Len(u) /\ u[k + 1] = s[k + 1]
    <3>1. k + 1 \in 1 .. l /\ k < l + m
      BY <1>1, <2>1
    <3>. QED  BY <1>1, <3>1
  <2>2. ASSUME k = l, k < Len(u)  PROVE u[k + 1].at = 1
    <3>1. k + 1 \in 1 .. l + m /\ k + 1 > l /\ (k + 1) - l = 1 /\ m > 0
      BY <1>1, <2>2
    <3>2. u[k + 1] = t[1]
      BY <1>1, <3>1
    <3>. QED  BY <1>2, <3>1, <3>2
  <2>3. Apart(rs, s, k) => Apart(rs, u, k)
    <3>1. k < l \/ k = l
      BY <1>1, <1>8
    <3>. QED  BY <2>1, <2>2, <3>1 DEF Apart, l
  <2>. QED  BY <1>8, <2>1, <2>3, Zenon DEF Stands, l
<1>. QED  BY <1>1, <1>7, <1>8 DEF u, l

LEMMA FlowSuffix ==
  ASSUME NEW rs, NEW s \in Seq(Bytes), NEW t \in Seq(Bytes), FlowOK(rs, s),
         NEW K \in Nat, Len(s) = K + Len(t), \A i \in 1 .. Len(t) : t[i] = s[K + i]
  PROVE  /\ FlowOK(rs, t)
         /\ \A p : Stands(rs, p, s, K) => Stands(rs, p, t, 0)
<1>. DEFINE l == Len(s)
            m == Len(t)
<1>1. l \in Nat /\ m \in Nat /\ l = K + m /\ (t = <<>> <=> m = 0) /\ (s = <<>> <=> l = 0)
  OBVIOUS
<1>2. \A i \in 1 .. m : t[i] = s[K + i]
  OBVIOUS
<1>. HIDE DEF l, m
<1>3. ASSUME NEW i \in 1 .. m  PROVE OfText(rs, t[i])
  <2>1. K + i \in 1 .. l
    BY <1>1
  <2>2. OfText(rs, s[K + i])
    BY <2>1 DEF FlowOK, l
  <2>. QED  BY <1>2, <2>2
<1>4. ASSUME NEW i \in 1 .. m - 1  PROVE GoesOn(rs, t[i], t[i + 1])
  <2>1. K + i \in 1 .. l - 1 /\ i \in 1 .. m /\ i + 1 \in 1 .. m /\ K + (i + 1) = (K + i) + 1
    BY <1>1
  <2>2. GoesOn(rs, s[K + i], s[(K + i) + 1])
    BY <2>1 DEF FlowOK, l
  <2>3. t[i] = s[K + i] /\ t[i + 1] = s[(K + i) + 1]
    BY <1>2, <2>1
  <2>. QED  BY <2>2, <2>3
<1>5. ASSUME t # <<>>  PROVE t[m].at = Len(Text(rs, t[m].n))
  <2>1. m \in 1 .. m /\ K + m = l /\ s # <<>>
    BY <1>1, <1>5
  <2>2. t[m] = s[l]
    BY <1>2, <2>1
  <2>. QED  BY <2>1, <2>2 DEF FlowOK, l
<1>6. ASSUME NEW p, Stands(rs, p, s, K)  PROVE Stands(rs, p, t, 0)
  <2>1. ASSUME K < l  PROVE 0 < m /\ t[0 + 1] = s[K + 1]
    <3>1. 0 < m /\ 1 \in 1 .. m /\ 0 + 1 = 1
      BY <1>1, <2>1
    <3>. QED  BY <1>2, <3>1
  <2>2. 0 < m => K < l
    BY <1>1
  <2>3. Apart(rs, s, K) => Apart(rs, t, 0)
    BY <2>1, <2>2 DEF Apart, l, m
  <2>. QED  BY <1>6, <2>1, <2>3, Zenon DEF Stands, l, m
<1>. QED  BY <1>3, <1>4, <1>5, <1>6 DEF FlowOK, m

\* A whole answer, or text, is a stream.
LEMMA TextFlows ==
  ASSUME NEW rs, AnswersOK(rs), NEW n \in 0 .. Len(rs)
  PROVE  LET t == Tagged(Text(rs, n), n)
         IN  t \in Seq(Bytes) /\ FlowOK(rs, t) /\ (t # <<>> => t[1].at = 1)
<1>. DEFINE m == Text(rs, n)
            t == Tagged(m, n)
            l == Len(m)
<1>1. Len(rs) \in Nat /\ n \in Nat
  BY DEF AnswersOK
<1>2. m \in Seq(Values)
  <2>1. CASE n = 0
    <3>1. Overrun \in Seq(0 .. 127)
      BY KeysAssumption
    <3>. QED  BY <2>1, <3>1, SmallValues, WiderSeq, Zenon DEF Text
  <2>2. CASE n # 0
    <3>1. n \in 1 .. Len(rs)
      BY <1>1, <2>2
    <3>2. FitsIn(Said(rs, n), m)
      BY <3>1, SaidIs
    <3>. HIDE DEF m
    <3>. QED  BY <3>2 DEF FitsIn, Contents
  <2>. QED  BY <2>1, <2>2
<1>. HIDE DEF m
<1>3. /\ t \in Seq(Bytes) /\ Len(t) = l /\ l \in Nat
      /\ \A i \in 1 .. l : t[i].v = m[i] /\ t[i].n = n /\ t[i].at = i
  <2>1. /\ t \in Seq(Bytes) /\ Len(t) = l
        /\ \A i \in 1 .. l : t[i].v = m[i] /\ t[i].n = n /\ t[i].at = i
    BY <1>1, <1>2, TaggedIs
  <2>2. l \in Nat
    BY <1>2
  <2>. QED  BY <2>1, <2>2
<1>. HIDE DEF t, l
<1>4. \A i \in 1 .. l : OfText(rs, t[i])
  BY <1>3, Zenon DEF OfText, m, l
<1>5. ASSUME NEW i \in 1 .. l - 1  PROVE GoesOn(rs, t[i], t[i + 1])
  <2>1. i \in 1 .. l /\ i + 1 \in 1 .. l /\ i < l
    BY <1>3
  <2>2. t[i].at = i /\ t[i].n = n /\ t[i + 1].n = n /\ t[i + 1].at = i + 1
    BY <1>3, <2>1
  <2>. QED  BY <2>1, <2>2 DEF GoesOn, m, l
<1>6. ASSUME t # <<>>  PROVE t[l].at = Len(Text(rs, t[l].n)) /\ t[1].at = 1
  <2>1. l \in 1 .. l /\ 1 \in 1 .. l
    BY <1>3, <1>6
  <2>2. t[l].at = l /\ t[l].n = n /\ t[1].at = 1
    BY <1>3, <2>1
  <2>. QED  BY <2>2 DEF m, l
<1>. QED  BY <1>3, <1>4, <1>5, <1>6 DEF FlowOK, t, m

-----------------------------------------------------------------------------
(* The steps, as the phone sees them.                                      *)

LEMMA ThreeParts ==
  ASSUME NEW S, NEW s \in Seq(S), NEW t \in Seq(S), NEW u \in Seq(S)
  PROVE  s \o (t \o u) = (s \o t) \o u
  OBVIOUS

\* The rest of the stream: w bytes of the buffer, and what is on its way.
LEMMA JoinIs ==
  ASSUME NEW b \in Seq(Bytes), NEW w \in 0 .. Len(b), NEW t \in Seq(Bytes)
  PROVE  LET s == SubSeq(b, 1, w) \o t
         IN  /\ s \in Seq(Bytes) /\ Len(s) = w + Len(t)
             /\ \A i \in 1 .. w : s[i] = b[i]
             /\ \A i \in 1 .. Len(t) : s[w + i] = t[i]
             /\ w = 0 => s = t
<1>. DEFINE a == SubSeq(b, 1, w)
            s == a \o t
            m == Len(t)
<1>1. a \in Seq(Bytes) /\ Len(a) = w /\ w \in Nat /\ \A i \in 1 .. w : a[i] = b[i]
  OBVIOUS
<1>2. t \in Seq(Bytes) /\ m \in Nat /\ Len(t) = m
  OBVIOUS
<1>. HIDE DEF a, m
<1>3. /\ s \in Seq(Bytes) /\ Len(s) = w + m
      /\ \A i \in 1 .. w : s[i] = a[i]
      /\ \A i \in 1 .. w + m : i > w => s[i] = t[i - w]
  BY <1>1, <1>2
<1>. HIDE DEF s
<1>4. ASSUME NEW i \in 1 .. m  PROVE s[w + i] = t[i]
  <2>1. w + i \in 1 .. w + m /\ w + i > w /\ (w + i) - w = i
    BY <1>1, <1>2
  <2>. QED  BY <1>3, <2>1
<1>5. ASSUME w = 0  PROVE s = t
  <2>1. Len(s) = Len(t) /\ \A i \in 1 .. m : s[i] = t[i]
    <3>1. \A i \in 1 .. m : w + i = i
      BY <1>2, <1>5
    <3>. QED  BY <1>2, <1>3, <1>4, <1>5, <3>1
  <2>. QED  BY <1>2, <1>3, <2>1, SeqEqual
<1>. QED  BY <1>1, <1>2, <1>3, <1>4, <1>5 DEF s, a, m

LEMMA WindowIs ==
  ASSUME TypeOK, HistoryOK
  PROVE  /\ Window \in 0 .. Len(buffer) /\ Window \in Nat /\ Place \in 0 .. Window
         /\ Idle /\ inbox = <<>> => Window = 0
         /\ (Idle => j = 0) => (Idle => Place = 0)
<1>1. /\ chunk \in Nat /\ chunk <= Len(buffer) /\ j \in Nat /\ Len(buffer) \in Nat
      /\ inbox \in Seq(Nat)
  BY DEF TypeOK, HistoryOK
<1>2. inbox # <<>> => inbox[1] \in 1 .. Len(buffer)
  <2>1. inbox # <<>> => 1 \in 1 .. Len(inbox)
    BY <1>1
  <2>. QED  BY <2>1 DEF TypeOK
<1>. DEFINE L == Len(buffer)
<1>. HIDE DEF L
<1>3. Window \in 0 .. L /\ Window \in Nat
  <2>1. chunk <= L /\ L \in Nat /\ (inbox # <<>> => inbox[1] \in 1 .. L)
    BY <1>1, <1>2 DEF L
  <2>. QED  BY <1>1, <2>1 DEF Window
<1>4. Place \in 0 .. Window /\ ((Idle => j = 0) => (Idle => Place = 0))
  BY <1>1, <1>3 DEF Place
<1>. QED  BY <1>3, <1>4 DEF Window, L

\* While nothing of the phone's is touched and the device sends nothing, or an
\* answer or a text more.
LEMMA PhoneHears ==
  ASSUME TypeOK, HistoryOK, PhoneOK,
         UNCHANGED <<phone, reader>>, overwritten' = overwritten, cut'.phone = cut.phone,
         AnswersOK(replies'), Len(replies) <= Len(replies'),
         \A n \in 1 .. Len(replies) : replies'[n] = replies[n],
         \/ toPhone' = toPhone
         \/ \E n \in 0 .. Len(replies') : toPhone' = toPhone \o Tagged(Text(replies', n), n)
  PROVE  PhoneOK'
<1>. DEFINE W == Window
            s == SubSeq(buffer, 1, W) \o toPhone
            rs == replies
            ts == replies'
<1>1. /\ buffer \in Seq(Bytes) /\ toPhone \in Seq(Bytes) /\ W \in 0 .. Len(buffer)
      /\ Place \in 0 .. W /\ W \in Nat
  BY WindowIs DEF HistoryOK
<1>2. s \in Seq(Bytes) /\ Place \in Nat /\ Place <= Len(s)
  <2>. HIDE DEF W
  <2>1. s \in Seq(Bytes) /\ Len(s) = W + Len(toPhone)
    BY <1>1, JoinIs
  <2>2. Len(toPhone) \in Nat
    BY <1>1
  <2>. HIDE DEF s
  <2>. QED  BY <1>1, <2>1, <2>2
<1>3. /\ UNCHANGED <<alice_shared_secret, pParser, j, chunk, crashed, inbox, buffer>>
  BY DEF phone, reader
<1>4. Window' = W /\ Place' = Place /\ Idle' = Idle /\ Clean' = Clean
  BY <1>3 DEF Window, Place, Idle, Clean
<1>5. Rest = s /\ Rest' = SubSeq(buffer, 1, W) \o toPhone'
  BY <1>3, <1>4 DEF Rest
<1>. HIDE DEF W, s
<1>6. AnswersOK(rs) /\ (Idle => j = 0) /\ (Clean => PhoneAt)
  BY DEF PhoneOK
<1>7. ASSUME Clean  PROVE FlowOK(ts, Rest') /\ Stands(ts, pParser, Rest', Place)
  <2>1. FlowOK(rs, s) /\ Stands(rs, pParser, s, Place)
    BY <1>5, <1>6, <1>7 DEF PhoneAt
  <2>2. FlowOK(ts, s) /\ Stands(ts, pParser, s, Place)
    BY <1>1, <1>2, <1>6, <2>1, FlowMore
  <2>3. CASE toPhone' = toPhone
    BY <1>5, <2>2, <2>3 DEF s
  <2>4. CASE \E n \in 0 .. Len(ts) : toPhone' = toPhone \o Tagged(Text(ts, n), n)
    <3>1. PICK n \in 0 .. Len(ts) : toPhone' = toPhone \o Tagged(Text(ts, n), n)
      BY <2>4
    <3>. DEFINE t == Tagged(Text(ts, n), n)
    <3>2. t \in Seq(Bytes) /\ FlowOK(ts, t) /\ (t # <<>> => t[1].at = 1)
      BY TextFlows
    <3>3. Rest' = s \o t
      <4>. DEFINE a == SubSeq(buffer, 1, W)
      <4>1. a \in Seq(Bytes)
        BY <1>1
      <4>. HIDE DEF a, t
      <4>2. a \o (toPhone \o t) = (a \o toPhone) \o t
        <5>. DEFINE q == toPhone
        <5>1. q \in Seq(Bytes) /\ t \in Seq(Bytes)
          BY <1>1, <3>2
        <5>. HIDE DEF q
        <5>2. a \o (q \o t) = (a \o q) \o t
          BY <4>1, <5>1, ThreeParts, SMTT(30)
        <5>. QED  BY <5>2 DEF q
      <4>. QED  BY <1>5, <3>1, <4>2 DEF a, s, t
    <3>. HIDE DEF t
    <3>4. FlowOK(ts, s \o t) /\ Stands(ts, pParser, s \o t, Place)
      BY <1>1, <1>2, <2>2, <3>2, FlowAppend
    <3>. QED  BY <3>3, <3>4
  <2>. QED  BY <2>3, <2>4
<1>8. Clean' => PhoneAt'
  BY <1>3, <1>4, <1>6, <1>7 DEF PhoneAt, IndexOK
<1>9. PhoneSecretIsSent'
  <2>1. \A n \in Exchanges(rs) : n \in Exchanges(ts) /\ ts[n] = rs[n]
    <3>1. Len(rs) \in Nat /\ Len(ts) \in Nat
      BY <1>6 DEF AnswersOK
    <3>. QED  BY <3>1 DEF Exchanges
  <2>. QED  BY <1>3, <2>1 DEF PhoneOK, PhoneSecretIsSent
<1>10. (Idle => j = 0)'
  BY <1>3, <1>4, <1>6
<1>. QED  BY <1>8, <1>9, <1>10 DEF PhoneOK

\* A chunk is read: it is overwritten, or the only one there is.
LEMMA PhoneReads ==
  ASSUME TypeOK, HistoryOK, PhoneOK, NEW n \in Lengths(toPhone), Read(n)
  PROVE  PhoneOK'
<1>. DEFINE s == SubSeq(toPhone, 1, n)
            L == Len(toPhone)
<1>1. /\ toPhone' = SubSeq(toPhone, n + 1, L) /\ buffer' = Overlay(s, buffer)
      /\ inbox' = Append(inbox, n)
      /\ overwritten' = (overwritten \/ inbox # <<>> \/ ~Idle)
      /\ UNCHANGED <<phone, replies, cut>>
  BY DEF Read
<1>2. UNCHANGED <<alice_shared_secret, pParser, j, chunk, crashed>> /\ Idle' = Idle
  BY <1>1 DEF phone, Idle
<1>3. /\ toPhone \in Seq(Bytes) /\ buffer \in Seq(Bytes) /\ L \in Nat
      /\ n \in 1 .. L /\ n \in Nat /\ n # 0
  <2>1. toPhone \in Seq(Bytes) /\ buffer \in Seq(Bytes)
    BY DEF HistoryOK
  <2>2. n \in 1 .. L /\ n \in Nat
    BY <2>1, LengthsAre
  <2>. QED  BY <2>1, <2>2
<1>4. AnswersOK(replies) /\ (Idle => j = 0) /\ (Clean => PhoneAt)
  BY DEF PhoneOK
<1>5. ASSUME Clean'  PROVE PhoneAt'
  <2>1. Clean /\ inbox = <<>> /\ Idle
    BY <1>1, <1>5 DEF Clean
  <2>2. /\ FlowOK(replies, Rest) /\ Stands(replies, pParser, Rest, Place) /\ crashed = FALSE
        /\ IndexOK(pParser)
    BY <1>4, <2>1 DEF PhoneAt
  <2>3. Window = 0 /\ Place = 0
    BY <1>4, <2>1, WindowIs
  <2>4. Rest = toPhone
    BY <1>3, <2>3, JoinIs DEF Rest
  <2>5. inbox' = <<n>> /\ inbox' # <<>> /\ inbox'[1] = n /\ Len(inbox') = 1
    BY <1>1, <2>1
  <2>6. Window' = n /\ Place' = 0
    <3>1. Window' = n
      BY <1>2, <2>1, <2>5 DEF Window
    <3>2. j' = 0
      BY <1>2, <1>4, <2>1
    <3>. QED  BY <1>3, <3>1, <3>2 DEF Place
  <2>7. Rest' = toPhone
    <3>. DEFINE u == SubSeq(buffer, n + 1, Len(buffer))
                v == SubSeq(toPhone, n + 1, L)
    <3>1. s \in Seq(Bytes) /\ Len(s) = n /\ u \in Seq(Bytes) /\ v \in Seq(Bytes)
      BY <1>3
    <3>2. toPhone = s \o v
      BY <1>3
    <3>3. buffer' = s \o u
      <4>. HIDE DEF s
      <4>. QED  BY <1>1, <3>1 DEF Overlay
    <3>. HIDE DEF s, u, v
    <3>4. SubSeq(s \o u, 1, n) = s
      BY <1>3, <3>1
    <3>5. toPhone' = v
      BY <1>1 DEF v
    <3>. QED  BY <2>6, <3>2, <3>3, <3>4, <3>5 DEF Rest
  <2>8. FlowOK(replies', Rest') /\ Stands(replies', pParser', Rest', Place')
    BY <1>1, <1>2, <2>2, <2>3, <2>4, <2>6, <2>7
  <2>. QED  BY <1>2, <2>1, <2>2, <2>5, <2>8 DEF PhoneAt, IndexOK
<1>6. PhoneSecretIsSent'
  BY <1>1, <1>2 DEF PhoneOK, PhoneSecretIsSent
<1>7. (Idle => j = 0)' /\ AnswersOK(replies)'
  <2>1. replies' = replies
    BY <1>1
  <2>. QED  BY <1>2, <1>4, <2>1
<1>. QED  BY <1>5, <1>6, <1>7 DEF PhoneOK

LEMMA PhoneTakes ==
  ASSUME TypeOK, HistoryOK, PhoneOK, TakeChunk
  PROVE  PhoneOK'
<1>1. /\ Idle /\ inbox # <<>> /\ inbox' = Tail(inbox) /\ chunk' = Head(inbox) /\ j' = 0
      /\ UNCHANGED <<alice_shared_secret, pParser, crashed, buffer, toPhone, replies, cut,
                     overwritten>>
  BY DEF TakeChunk, links, history
<1>2. inbox \in Seq(Nat) /\ chunk' = inbox[1] /\ inbox[1] \in 1 .. Len(buffer)
      /\ Len(buffer) \in Nat
  <2>1. inbox \in Seq(Nat) /\ buffer \in Seq(Bytes)
    BY DEF HistoryOK
  <2>2. 1 \in 1 .. Len(inbox) /\ Head(inbox) = inbox[1]
    BY <1>1, <2>1
  <2>. QED  BY <1>1, <2>1, <2>2 DEF TypeOK
<1>3. inbox[1] \in Nat /\ inbox[1] # 0
  BY <1>2
<1>4. AnswersOK(replies) /\ (Idle => j = 0) /\ (Clean => PhoneAt)
  BY DEF PhoneOK
<1>5. ~Idle' /\ Clean' = Clean
  BY <1>1, <1>2, <1>3 DEF Idle, Clean
<1>6. ASSUME Clean  PROVE PhoneAt'
  <2>1. FlowOK(replies, Rest) /\ Stands(replies, pParser, Rest, Place)
        /\ crashed = FALSE /\ Len(inbox) = 1 /\ IndexOK(pParser)
    BY <1>1, <1>4, <1>6 DEF PhoneAt
  <2>2. inbox' = <<>>
    BY <1>1, <1>2, <2>1
  <2>3. Window = inbox[1] /\ Window' = inbox[1] /\ Place = 0 /\ Place' = 0
    <3>1. Window = inbox[1] /\ Window' = inbox[1]
      BY <1>1, <1>2, <1>5 DEF Window
    <3>. QED  BY <1>1, <1>3, <1>4, <3>1 DEF Place
  <2>4. Rest' = Rest
    BY <1>1, <2>3 DEF Rest
  <2>5. FlowOK(replies', Rest') /\ Stands(replies', pParser', Rest', Place')
    BY <1>1, <2>1, <2>3, <2>4
  <2>. QED  BY <1>1, <2>1, <2>2, <2>5 DEF PhoneAt, IndexOK
<1>7. PhoneSecretIsSent'
  BY <1>1 DEF PhoneOK, PhoneSecretIsSent
<1>8. (Idle => j = 0)' /\ AnswersOK(replies)'
  BY <1>1, <1>4, <1>5
<1>. QED  BY <1>5, <1>6, <1>7, <1>8 DEF PhoneOK

\* Where the index goes behind a dispatched frame, a frame starts, or no mark is
\* left of the one there.
LEMMA AheadApart ==
  ASSUME TypeOK, HistoryOK, NEW h \in Nat, TornReply(Ahead(h)) = {},
         FlowOK(replies, SubSeq(buffer, 1, chunk) \o toPhone)
  PROVE  Apart(replies, SubSeq(buffer, 1, chunk) \o toPhone, IF h < chunk THEN h ELSE chunk)
<1>. DEFINE w == IF h < chunk THEN h ELSE chunk
            s == SubSeq(buffer, 1, chunk) \o toPhone
            a == Ahead(h)
            u == SubSeq(buffer, h + 1, chunk)
            n == a[1].n
            l == Len(toPhone)
<1>1. /\ buffer \in Seq(Bytes) /\ toPhone \in Seq(Bytes) /\ chunk \in 0 .. Len(buffer)
      /\ chunk \in Nat /\ l \in Nat
  <2>1. /\ buffer \in Seq(Bytes) /\ toPhone \in Seq(Bytes) /\ chunk \in Nat
        /\ chunk <= Len(buffer)
    BY DEF TypeOK, HistoryOK
  <2>. QED  BY <2>1
<1>2. /\ s \in Seq(Bytes) /\ Len(s) = chunk + l
      /\ \A i \in 1 .. chunk : s[i] = buffer[i]
      /\ \A i \in 1 .. l : s[chunk + i] = toPhone[i]
  BY <1>1, JoinIs
<1>3. a = u \o toPhone /\ a \in Seq(Bytes)
  BY AheadIs DEF Ahead
<1>4. /\ u \in Seq(Bytes) /\ Len(u) = IF h < chunk THEN chunk - h ELSE 0
      /\ \A i \in 1 .. Len(u) : u[i] = buffer[h + i]
  <2>. HIDE DEF u
  <2>. QED  BY <1>1, BytesAreInputs DEF u
<1>. HIDE DEF s, u, a, l
<1>5. ASSUME w < Len(s)  PROVE 1 \in 1 .. Len(a) /\ a[1] = s[w + 1] /\ w + 1 \in 1 .. Len(s)
  <2>1. CASE h < chunk
    <3>1. 1 \in 1 .. Len(u) /\ Len(u) > 0 /\ h + 1 \in 1 .. chunk /\ w = h /\ h + 1 <= chunk + l
      BY <1>1, <1>4, <2>1
    <3>2. u[1] = buffer[h + 1] /\ s[h + 1] = buffer[h + 1]
      BY <1>2, <1>4, <3>1
    <3>3. Len(a) >= 1 /\ a[1] = u[1]
      BY <1>1, <1>3, <1>4, <3>1
    <3>. QED  BY <1>1, <1>2, <1>3, <3>1, <3>2, <3>3
  <2>2. CASE ~(h < chunk)
    <3>1. w = chunk /\ 1 \in 1 .. l /\ Len(u) = 0
      BY <1>1, <1>2, <1>4, <1>5, <2>2
    <3>2. s[chunk + 1] = toPhone[1]
      BY <1>2, <3>1
    <3>3. a = toPhone
      BY <1>1, <1>3, <1>4, <3>1
    <3>. QED  BY <1>1, <1>2, <3>1, <3>2, <3>3 DEF l
  <2>. QED  BY <2>1, <2>2
<1>6. ASSUME w < Len(s)  PROVE s[w + 1].at = 1 \/ Quiet(replies, s[w + 1])
  <2>. DEFINE b == s[w + 1]
  <2>1. a[1] = b /\ b \in Bytes /\ OfText(replies, b) /\ b.n \in TagsOf(a)
    <3>1. s[w + 1] \in Bytes
      BY <1>2, <1>5, <1>6, ElementOfSeq
    <3>2. OfText(replies, s[w + 1])
      BY <1>5, <1>6 DEF FlowOK, s
    <3>3. s[w + 1].n \in TagsOf(a)
      BY <1>5, <1>6 DEF TagsOf
    <3>. QED  BY <1>5, <1>6, <3>1, <3>2, <3>3
  <2>. HIDE DEF b, w
  <2>2. b.at \in Nat /\ b.at >= 1
    <3>1. b.at \in 1 .. Len(Text(replies, b.n)) /\ b.at \in Nat
      BY <2>1 DEF OfText, Bytes
    <3>. QED  BY <3>1
  <2>3. Answer(b.n) = Text(replies, b.n)
    BY DEF Answer, Text, Said
  <2>4. ~(b.at > 1 /\ MarkBehind(Answer(b.n), b.at))
    <3>1. \A m \in TagsOf(a) : ~(m = a[1].n /\ a[1].at > 1 /\ MarkBehind(Answer(m), a[1].at))
      BY DEF TornReply, a
    <3>. QED  BY <2>1, <3>1, Zenon
  <2>5. b.at = 1 \/ ~MarkBehind(Text(replies, b.n), b.at)
    BY <2>2, <2>3, <2>4
  <2>. QED  BY <2>5 DEF Quiet, b
<1>. QED  BY <1>6 DEF Apart, s

\* The handler goes on, or dispatches an answer.
LEMMA PhoneHandles ==
  ASSUME TypeOK, HistoryOK, PhoneOK, HandleBytes
  PROVE  PhoneOK'
<1>. DEFINE t == SubSeq(buffer, j + 1, chunk)
            r == Run(pParser, t)
            next == j + r.taken
<1>1. /\ ~Idle /\ j < chunk /\ pParser' = r.parser
      /\ j' = IF r.complete THEN JAfter(r.parser.fc, next) ELSE next
      /\ alice_shared_secret' = IF r.complete /\ r.parser.fc = 1
                                  THEN PhoneSecret(r.parser.data)
                                  ELSE alice_shared_secret
      /\ UNCHANGED <<chunk, crashed, inbox, buffer, toPhone, replies, overwritten>>
  BY DEF HandleBytes, reader, links
<1>2. /\ buffer \in Seq(Bytes) /\ chunk \in Nat /\ chunk <= Len(buffer) /\ j \in Nat
      /\ ParserOK(pParser) /\ toPhone \in Seq(Bytes) /\ Len(buffer) \in Nat
      /\ chunk \in 0 .. Len(buffer)
  BY DEF TypeOK, HistoryOK
<1>3. AnswersOK(replies) /\ (Clean => PhoneAt)
  BY DEF PhoneOK
<1>4. Window = chunk /\ Window' = chunk /\ Idle' = Idle /\ Place = j
  <2>1. Window = chunk /\ Window' = chunk /\ Idle' = Idle
    BY <1>1 DEF Window, Idle
  <2>. QED  BY <1>1, <2>1 DEF Place
<1>5. ASSUME Clean'
       PROVE  Clean /\ (r.complete => TornReply(Ahead(j')) = {})
  <2>. DEFINE T == TornReply(Ahead(j'))
  <2>1. cut \in [device : SUBSET Nat, phone : SUBSET Nat]
    BY DEF HistoryOK
  <2>2. /\ cut' = IF r.complete THEN [cut EXCEPT !.phone = @ \cup T] ELSE cut
        /\ overwritten' = overwritten
    BY DEF HandleBytes
  <2>3. ~overwritten' /\ cut'.phone = {}
    BY <1>5 DEF Clean
  <2>. HIDE DEF T, r
  <2>4. r.complete => cut'.phone = cut.phone \cup T
    BY <2>1, <2>2
  <2>5. cut.phone = {} /\ (r.complete => T = {})
    BY <2>2, <2>3, <2>4
  <2>. QED  BY <2>2, <2>3, <2>5 DEF Clean, T
<1>6. /\ t \in Seq(Inputs) /\ Len(t) = chunk - j
      /\ \A i \in 1 .. Len(t) : t[i] = buffer[j + i] /\ t[i] \in Bytes /\ j + i <= chunk
  <2>1. /\ t \in Seq(Inputs) /\ Len(t) = IF j < chunk THEN chunk - j ELSE 0
        /\ \A i \in 1 .. Len(t) : t[i] = buffer[j + i] /\ buffer[j + i] \in Bytes
                                  /\ j + i <= chunk
    BY <1>2, BytesAreInputs
  <2>. HIDE DEF t
  <2>. QED  BY <1>1, <2>1
<1>. HIDE DEF t
<1>7. r.taken \in Nat
  <2>. HIDE DEF r
  <2>1. Run(pParser, t).taken \in Nat
    BY <1>2, RunTyped DEF t
  <2>. QED  BY <2>1 DEF r
<1>8. ASSUME Clean'
      PROVE  /\ PhoneAt'
             /\ r.complete /\ r.parser.fc = 1 =>
                  \E n \in Exchanges(replies) : SubSeq(r.parser.data, 1, KeyLen) = replies[n].data
  <2>. DEFINE s == Rest
  <2>1. /\ FlowOK(replies, s) /\ Stands(replies, pParser, s, j) /\ crashed = FALSE
        /\ IndexOK(pParser) /\ inbox = <<>>
    BY <1>1, <1>3, <1>4, <1>8, <1>5 DEF PhoneAt
  <2>2. /\ s \in Seq(Bytes) /\ Len(s) = chunk + Len(toPhone)
        /\ \A i \in 1 .. chunk : s[i] = buffer[i]
    <3>1. s = SubSeq(buffer, 1, chunk) \o toPhone
      BY <1>4 DEF Rest
    <3>. HIDE DEF s
    <3>. QED  BY <1>2, <3>1, JoinIs
  <2>. HIDE DEF s
  <2>3. j + Len(t) <= Len(s) /\ \A i \in 1 .. Len(t) : t[i] = s[j + i]
    <3>. DEFINE l == Len(t)
                m == Len(toPhone)
    <3>1. m \in Nat
      BY <1>2
    <3>2. l = chunk - j /\ \A i \in 1 .. l : j + i <= chunk /\ t[i] = buffer[j + i]
      BY <1>6
    <3>. HIDE DEF l, m
    <3>3. j + l = chunk /\ chunk <= chunk + m
      BY <1>1, <1>2, <3>1, <3>2
    <3>4. \A i \in 1 .. l : j + i \in 1 .. chunk
      BY <1>2, <3>2
    <3>5. \A i \in 1 .. l : t[i] = s[j + i]
      BY <2>2, <3>2, <3>4
    <3>. QED  BY <2>2, <3>3, <3>5 DEF l, m
  <2>4. /\ r.taken \in 0 .. Len(t) /\ IndexOK(r.parser)
        /\ \/ ~r.complete /\ Stands(replies, r.parser, s, j + r.taken)
           \/ /\ r.complete /\ r.parser.state = "none"
              /\ r.parser.fc = 1 =>
                   \E n \in Exchanges(replies) :
                     SubSeq(r.parser.data, 1, KeyLen) = replies[n].data
    <3>1. /\ AnswersOK(replies) /\ s \in Seq(Bytes) /\ FlowOK(replies, s) /\ ParserOK(pParser)
          /\ IndexOK(pParser) /\ j \in Nat /\ Stands(replies, pParser, s, j)
          /\ t \in Seq(Inputs) /\ j + Len(t) <= Len(s) /\ \A i \in 1 .. Len(t) : t[i] = s[j + i]
      BY <1>2, <1>3, <1>6, <2>1, <2>2, <2>3, Zenon
    <3>. DEFINE rs == replies
                p == pParser
                a == j
    <3>2. /\ AnswersOK(rs) /\ s \in Seq(Bytes) /\ FlowOK(rs, s) /\ ParserOK(p)
          /\ IndexOK(p) /\ a \in Nat /\ Stands(rs, p, s, a)
          /\ t \in Seq(Inputs) /\ a + Len(t) <= Len(s) /\ \A i \in 1 .. Len(t) : t[i] = s[a + i]
      BY <3>1
    <3>. HIDE DEF rs, p, a
    <3>3. LET q == Run(p, t)
          IN  /\ q.taken \in 0 .. Len(t) /\ IndexOK(q.parser)
              /\ \/ ~q.complete /\ Stands(rs, q.parser, s, a + q.taken)
                 \/ /\ q.complete /\ q.parser.state = "none"
                    /\ q.parser.fc = 1 =>
                         \E n \in Exchanges(rs) : SubSeq(q.parser.data, 1, KeyLen) = rs[n].data
      BY <3>2, HandleEnds
    <3>. QED  BY <3>3 DEF rs, p, a
  <2>. HIDE DEF r
  <2>5. Rest' = s
    BY <1>1, <1>4 DEF Rest, s
  <2>6. Stands(replies, r.parser, s, Place')
    <3>1. CASE r.complete
      <4>1. r.parser.state = "none"
        BY <2>4, <3>1
      <4>. DEFINE h == j'
                  w == IF h < chunk THEN h ELSE chunk
      <4>2. h \in Nat
        BY HandlerIndex
      <4>3. TornReply(Ahead(h)) = {}
        BY <1>8, <1>5, <3>1
      <4>4. s = SubSeq(buffer, 1, chunk) \o toPhone /\ FlowOK(replies, s)
        BY <1>4, <2>1 DEF Rest, s
      <4>5. Place' = w
        BY <1>4 DEF Place
      <4>. HIDE DEF h
      <4>6. Apart(replies, s, w)
        BY <4>2, <4>3, <4>4, AheadApart
      <4>. QED  BY <4>1, <4>5, <4>6 DEF Stands
    <3>2. CASE ~r.complete
      <4>1. next \in Nat /\ next <= chunk /\ j' = next
        <5>1. j' = next
          BY <1>1, <3>2
        <5>. DEFINE l == Len(t)
                    k == r.taken
        <5>2. k \in 0 .. l /\ l = chunk - j
          BY <1>6, <2>4
        <5>. HIDE DEF l, k
        <5>3. j + k \in Nat /\ j + k <= chunk
          BY <1>1, <1>2, <5>2
        <5>. QED  BY <5>1, <5>3 DEF k
      <4>2. Place' = next
        <5>. HIDE DEF next
        <5>. QED  BY <1>2, <1>4, <4>1 DEF Place
      <4>3. Stands(replies, r.parser, s, next)
        BY <2>4, <3>2
      <4>. QED  BY <4>2, <4>3
    <3>. QED  BY <3>1, <3>2
  <2>7. PhoneAt'
    <3>1. FlowOK(replies', Rest') /\ Stands(replies', pParser', Rest', Place') /\ IndexOK(pParser)'
      BY <1>1, <2>1, <2>4, <2>5, <2>6 DEF IndexOK
    <3>. QED  BY <1>1, <2>1, <3>1 DEF PhoneAt
  <2>. QED  BY <2>4, <2>7
<1>. HIDE DEF r, next
<1>9. PhoneSecretIsSent'
  <2>. SUFFICES ASSUME alice_shared_secret' # NoSecret, Clean'
                PROVE  \E n \in Exchanges(replies) : alice_shared_secret'[2] = replies[n].data
    BY <1>1, Zenon DEF PhoneSecretIsSent, Clean
  <2>1. CASE r.complete /\ r.parser.fc = 1
    <3>1. alice_shared_secret'[2] = SubSeq(r.parser.data, 1, KeyLen)
      BY <1>1, <2>1 DEF PhoneSecret
    <3>. QED  BY <1>8, <2>1, <3>1
  <2>2. CASE ~(r.complete /\ r.parser.fc = 1)
    BY <1>1, <1>5, <2>2 DEF PhoneOK, PhoneSecretIsSent, Clean
  <2>. QED  BY <2>1, <2>2
<1>10. (Idle => j = 0)' /\ AnswersOK(replies)'
  BY <1>1, <1>3, <1>4
<1>. QED  BY <1>4, <1>8, <1>9, <1>10 DEF PhoneOK

\* No byte goes behind the array.
LEMMA PhoneCrashes ==
  ASSUME TypeOK, HistoryOK, PhoneOK, Crash
  PROVE  PhoneOK'
<1>1. /\ ~Idle /\ j < chunk /\ Overflows(pParser)
      /\ UNCHANGED <<alice_shared_secret, pParser, j, chunk, inbox, buffer, toPhone, replies,
                     cut, overwritten>>
  BY DEF Crash, reader, links, history
<1>2. /\ buffer \in Seq(Bytes) /\ chunk \in Nat /\ j \in Nat /\ ParserOK(pParser)
      /\ toPhone \in Seq(Bytes) /\ chunk \in 0 .. Len(buffer)
  <2>1. /\ buffer \in Seq(Bytes) /\ chunk \in Nat /\ j \in Nat /\ ParserOK(pParser)
        /\ toPhone \in Seq(Bytes) /\ chunk <= Len(buffer)
    BY DEF TypeOK, HistoryOK
  <2>. QED  BY <2>1
<1>3. AnswersOK(replies) /\ (Clean => PhoneAt) /\ (Idle => j = 0)
  BY DEF PhoneOK
<1>4. ~Clean
  <2>. SUFFICES ASSUME Clean  PROVE FALSE
    OBVIOUS
  <2>. DEFINE s == Rest
              b == s[j + 1]
              f == Said(replies, b.n)
  <2>1. FlowOK(replies, s) /\ Stands(replies, pParser, s, Place)
    BY <1>3 DEF PhoneAt
  <2>2. Window = chunk /\ Place = j
    <3>1. Window = chunk
      BY <1>1 DEF Window
    <3>. QED  BY <1>1, <3>1 DEF Place
  <2>3. s \in Seq(Bytes)
    <3>1. s = SubSeq(buffer, 1, chunk) \o toPhone
      BY <2>2 DEF Rest
    <3>. HIDE DEF s
    <3>. QED  BY <1>2, <3>1, JoinIs
  <2>4. pParser.state = "data_receive"
    BY <1>1 DEF Overflows
  <2>5. j < Len(s) /\ Among(replies, pParser, b)
    <3>. HIDE DEF s
    <3>. QED  BY <2>1, <2>2, <2>4, Zenon DEF Stands, Alone
  <2>6. b.n > 0 /\ Holds(pParser, f, b.at)
    BY <2>5 DEF Among
  <2>7. b.at \in Nat /\ FitsIn(f, Text(replies, b.n))
    <3>. HIDE DEF s
    <3>. QED  BY <1>2, <1>3, <2>1, <2>3, <2>5, <2>6, NextOf
  <2>. HIDE DEF s, b, f
  <2>8. Len(f.data) \in 1 .. DataSize
    BY <2>7 DEF FitsIn
  <2>. QED  BY <1>1, <1>2, <2>6, <2>7, <2>8, HoldsFits
<1>5. ~Clean' /\ Idle' = Idle
  BY <1>1, <1>4 DEF Clean, Idle
<1>6. PhoneSecretIsSent'
  BY <1>5 DEF PhoneSecretIsSent, Clean
<1>. QED  BY <1>1, <1>3, <1>5, <1>6 DEF PhoneOK

\* The handler is behind the chunk: what is left is on its way.
LEMMA PhoneEnds ==
  ASSUME TypeOK, HistoryOK, PhoneOK, EndChunk
  PROVE  PhoneOK'
<1>1. /\ ~Idle /\ j >= chunk /\ chunk' = 0 /\ j' = 0
      /\ buffer' = IF inbox = <<>> THEN <<>> ELSE buffer
      /\ UNCHANGED <<alice_shared_secret, pParser, crashed, inbox, toPhone, replies, cut,
                     overwritten>>
  BY DEF EndChunk, links, history
<1>2. /\ buffer \in Seq(Bytes) /\ chunk \in Nat /\ j \in Nat
      /\ toPhone \in Seq(Bytes) /\ chunk \in 0 .. Len(buffer)
  <2>1. /\ buffer \in Seq(Bytes) /\ chunk \in Nat /\ j \in Nat
        /\ toPhone \in Seq(Bytes) /\ chunk <= Len(buffer)
    BY DEF TypeOK, HistoryOK
  <2>. QED  BY <2>1
<1>3. AnswersOK(replies) /\ (Clean => PhoneAt)
  BY DEF PhoneOK
<1>4. Clean' = Clean /\ Idle'
  BY <1>1 DEF Clean, Idle
<1>5. ASSUME Clean  PROVE PhoneAt'
  <2>1. /\ FlowOK(replies, Rest) /\ Stands(replies, pParser, Rest, Place) /\ crashed = FALSE
        /\ IndexOK(pParser) /\ inbox = <<>>
    BY <1>1, <1>3, <1>5 DEF PhoneAt
  <2>2. Window = chunk /\ Place = chunk /\ Window' = 0 /\ Place' = 0 /\ buffer' = <<>>
    <3>1. Window = chunk /\ Window' = 0 /\ buffer' = <<>>
      BY <1>1, <1>4, <2>1 DEF Window
    <3>. QED  BY <1>1, <1>2, <3>1 DEF Place
  <2>3. /\ Rest \in Seq(Bytes) /\ Len(Rest) = chunk + Len(toPhone)
        /\ \A i \in 1 .. Len(toPhone) : Rest[chunk + i] = toPhone[i]
    BY <1>2, <2>2, JoinIs DEF Rest
  <2>4. Rest' = toPhone
    <3>1. <<>> \in Seq(Bytes) /\ 0 \in 0 .. Len(<<>>)
      OBVIOUS
    <3>2. SubSeq(<<>>, 1, 0) \o toPhone = toPhone
      BY <1>2, <3>1, JoinIs
    <3>. QED  BY <1>1, <2>2, <3>2 DEF Rest
  <2>5. FlowOK(replies, toPhone) /\ Stands(replies, pParser, toPhone, 0)
    BY <1>2, <2>1, <2>2, <2>3, FlowSuffix
  <2>6. FlowOK(replies', Rest') /\ Stands(replies', pParser', Rest', Place')
    BY <1>1, <2>2, <2>4, <2>5
  <2>. QED  BY <1>1, <2>1, <2>6 DEF PhoneAt, IndexOK
<1>6. PhoneSecretIsSent'
  BY <1>1 DEF PhoneOK, PhoneSecretIsSent
<1>7. (Idle => j = 0)' /\ AnswersOK(replies)'
  BY <1>1, <1>3
<1>. QED  BY <1>4, <1>5, <1>6, <1>7 DEF PhoneOK

\* The connection is lost: a reply is cut, or nothing was on its way.
LEMMA PhoneLoses ==
  ASSUME TypeOK, HistoryOK, PhoneOK, LinkLost
  PROVE  PhoneOK'
<1>1. /\ toPhone' = <<>> /\ cut'.phone = cut.phone \cup TagsOf(toPhone)
      /\ UNCHANGED <<alice_shared_secret, pParser, j, chunk, crashed, inbox, buffer, replies,
                     overwritten>>
  BY DEF LinkLost, phone, reader
<1>2. AnswersOK(replies) /\ (Clean => PhoneAt) /\ (Idle => j = 0)
  BY DEF PhoneOK
<1>3. ASSUME Clean'  PROVE Clean /\ toPhone' = toPhone
  <2>1. TagsOf(toPhone) = {} /\ cut.phone = {} /\ ~overwritten
    BY <1>1, <1>3 DEF Clean
  <2>2. toPhone \in Seq(Bytes)
    BY DEF HistoryOK
  <2>3. ASSUME toPhone # <<>>  PROVE FALSE
    <3>1. 1 \in 1 .. Len(toPhone)
      BY <2>2, <2>3
    <3>. QED  BY <2>1, <3>1 DEF TagsOf
  <2>. QED  BY <1>1, <2>1, <2>3 DEF Clean
<1>4. Window' = Window /\ Place' = Place /\ Idle' = Idle
  BY <1>1 DEF Window, Place, Idle
<1>5. ASSUME Clean'  PROVE PhoneAt'
  <2>1. Rest' = Rest
    BY <1>1, <1>3, <1>4, <1>5 DEF Rest
  <2>2. PhoneAt
    BY <1>2, <1>3, <1>5
  <2>. QED  BY <1>1, <1>4, <2>1, <2>2 DEF PhoneAt, IndexOK
<1>6. PhoneSecretIsSent'
  <2>1. Clean' => Clean
    BY <1>3
  <2>. QED  BY <1>1, <2>1 DEF PhoneOK, PhoneSecretIsSent, Clean
<1>7. (Idle => j = 0)' /\ AnswersOK(replies)'
  BY <1>1, <1>2, <1>4
<1>. QED  BY <1>5, <1>6, <1>7 DEF PhoneOK

\* What the device sends, if it sends anything, is an answer.
LEMMA DeviceAnswers ==
  ASSUME HistoryOK, HistoryOK', AnswersOK(replies), NEW d,
         DispatchKey(d) \/ DispatchCipher \/ DispatchOther
  PROVE  /\ AnswersOK(replies') /\ Len(replies) <= Len(replies')
         /\ \A n \in 1 .. Len(replies) : replies'[n] = replies[n]
         /\ \/ toPhone' = toPhone
            \/ \E n \in 0 .. Len(replies') :
                 toPhone' = toPhone \o Tagged(Text(replies', n), n)
<1>. DEFINE R == Len(replies)
<1>1. replies \in Seq(Answers) /\ replies' \in Seq(Answers) /\ R \in Nat
  BY DEF HistoryOK
<1>2. CASE NoReply
  <2>1. replies' = replies /\ toPhone' = toPhone
    BY <1>2 DEF NoReply
  <2>. QED  BY <1>1, <2>1
<1>3. ASSUME NEW fc, NEW data, Reply(fc, data), <<fc, data>> \in AnswerKinds
      PROVE  /\ AnswersOK(replies') /\ Len(replies) <= Len(replies')
             /\ \A n \in 1 .. Len(replies) : replies'[n] = replies[n]
             /\ \E n \in 0 .. Len(replies') :
                  toPhone' = toPhone \o Tagged(Text(replies', n), n)
  <2>. DEFINE x == [fc |-> fc, data |-> data]
              N == R + 1
  <2>1. replies' = Append(replies, x) /\ toPhone' = toPhone \o Tagged(Frame(fc, data), N)
    BY <1>3 DEF Reply
  <2>2. /\ Len(replies') = N /\ N \in Nat /\ N # 0 /\ N \in 0 .. N /\ R <= N
        /\ replies'[N] = x /\ \A n \in 1 .. R : replies'[n] = replies[n]
        /\ \A n \in 1 .. N : n \in 1 .. R \/ n = N
    BY <1>1, <2>1
  <2>3. Said(replies', N).fc = fc /\ Said(replies', N).data = data
    <3>1. x.fc = fc /\ x.data = data
      OBVIOUS
    <3>. HIDE DEF x, N
    <3>2. replies'[N].fc = fc /\ replies'[N].data = data
      BY <2>2, <3>1
    <3>. QED  BY <3>2 DEF Said
  <2>4. Text(replies', N) = Frame(fc, data)
    BY <2>2, <2>3 DEF Text
  <2>5. \A n \in 1 .. R : Said(replies', n) = Said(replies, n)
    BY <2>2 DEF Said
  <2>. HIDE DEF x, N
  <2>6. AnswersOK(replies')
    <3>1. ASSUME NEW n \in 1 .. N
          PROVE  <<Said(replies', n).fc, Said(replies', n).data>> \in AnswerKinds
      <4>1. CASE n = N
        BY <1>3, <2>3, <4>1
      <4>2. CASE n \in 1 .. R
        BY <2>5, <4>2 DEF AnswersOK
      <4>. QED  BY <2>2, <4>1, <4>2
    <3>. QED  BY <1>1, <2>2, <3>1 DEF AnswersOK
  <2>7. \E n \in 0 .. Len(replies') : toPhone' = toPhone \o Tagged(Text(replies', n), n)
    BY <2>1, <2>2, <2>4
  <2>. QED  BY <2>2, <2>6, <2>7
<1>4. CASE DispatchKey(d) /\ ~NoReply
  <2>. DEFINE n == Cardinality(Exchanges(replies)) + 1
              k == NewKey(n)
  <2>1. Reply(1, k)
    BY <1>4 DEF DispatchKey
  <2>2. <<1, k>> \in AnswerKinds
    <3>1. k \in {DeviceKeys[i] : i \in 1 .. Len(DeviceKeys)}
      BY KeyLeft
    <3>. HIDE DEF k
    <3>. QED  BY <3>1 DEF AnswerKinds
  <2>. HIDE DEF n, k, R
  <2>. QED  BY <1>3, <2>1, <2>2
<1>5. CASE DispatchCipher /\ ~NoReply
  <2>1. Reply(20, CipherText)
    BY <1>5 DEF DispatchCipher
  <2>2. <<20, CipherText>> \in AnswerKinds
    BY DEF AnswerKinds
  <2>. QED  BY <1>3, <2>1, <2>2
<1>6. CASE DispatchOther
  BY <1>2, <1>6 DEF DispatchOther
<1>. QED  BY <1>2, <1>4, <1>5, <1>6

LEMMA PhoneInit == Init => PhoneOK
<1>. SUFFICES ASSUME Init  PROVE PhoneOK
  OBVIOUS
<1>1. /\ alice_shared_secret = NoSecret /\ pParser = Start(DataSize) /\ j = 0 /\ chunk = 0
      /\ crashed = FALSE /\ inbox = <<>> /\ buffer = <<>> /\ toPhone = <<>> /\ replies = <<>>
  BY DEF Init
<1>2. pParser.state = "none" /\ IndexOK(pParser)
  BY <1>1, StartIs DEF IndexOK
<1>3. AnswersOK(replies)
  BY <1>1 DEF AnswersOK
<1>4. Rest = <<>>
  <2>1. Idle /\ Window = 0
    BY <1>1 DEF Idle, Window
  <2>2. <<>> \in Seq(Bytes) /\ 0 \in 0 .. Len(<<>>)
    OBVIOUS
  <2>3. SubSeq(<<>>, 1, 0) \o <<>> = <<>>
    BY <2>2, JoinIs
  <2>. QED  BY <1>1, <2>1, <2>3 DEF Rest
<1>5. FlowOK(replies, Rest)
  BY <1>4 DEF FlowOK
<1>6. PhoneAt
  <2>1. Apart(replies, Rest, Place)
    <3>1. Len(Rest) = 0 /\ Place = 0
      BY <1>1, <1>4 DEF Place, Window, Idle
    <3>. QED  BY <3>1 DEF Apart
  <2>. QED  BY <1>1, <1>2, <1>5, <2>1 DEF PhoneAt, Stands
<1>. QED  BY <1>1, <1>3, <1>6 DEF PhoneOK, PhoneSecretIsSent

LEMMA PhoneNext ==
  ASSUME IInv, IInv', PhoneOK, [Next]_vars
  PROVE  PhoneOK'
<1>1. TypeOK /\ HistoryOK /\ HistoryOK' /\ AnswersOK(replies)
  BY DEF IInv, PhoneOK
<1>2. ASSUME UNCHANGED <<phone, reader, toPhone, replies, overwritten>>,
             cut'.phone = cut.phone
      PROVE  PhoneOK'
  <2>1. AnswersOK(replies') /\ Len(replies) <= Len(replies')
        /\ \A n \in 1 .. Len(replies) : replies'[n] = replies[n]
    <3>1. replies' = replies /\ Len(replies) \in Nat
      BY <1>1, <1>2 DEF HistoryOK
    <3>. QED  BY <1>1, <3>1
  <2>. QED  BY <1>1, <1>2, <2>1, PhoneHears
<1>3. CASE Buttons
  <2>1. UNCHANGED <<phone, reader, toPhone, replies, overwritten, cut>>
    BY <1>3 DEF Buttons, BuildEncryptionChannel, SendEncryptionMessage, TriggerCreateDMID, Press
  <2>. QED  BY <1>2, <2>1
<1>4. ASSUME NEW n \in Lengths(toDevice), DeviceReceive(n)  PROVE PhoneOK'
  <2>. DEFINE r == Run(dParser, SubSeq(toDevice, 1, n))
  <2>1. UNCHANGED <<phone, reader, overwritten, cut>>
    BY <1>4 DEF DeviceReceive
  <2>2. CASE ~r.complete
    <3>1. UNCHANGED <<replies, toPhone>>
      BY <1>4, <2>2 DEF DeviceReceive
    <3>. QED  BY <1>2, <2>1, <3>1
  <2>3. CASE r.complete
    <3>. DEFINE d == dParser'.data
    <3>1. DispatchKey(d) \/ DispatchCipher \/ DispatchOther
      BY <1>4, <2>3 DEF DeviceReceive
    <3>. HIDE DEF d, r
    <3>2. /\ AnswersOK(replies') /\ Len(replies) <= Len(replies')
          /\ \A m \in 1 .. Len(replies) : replies'[m] = replies[m]
          /\ \/ toPhone' = toPhone
             \/ \E m \in 0 .. Len(replies') :
                  toPhone' = toPhone \o Tagged(Text(replies', m), m)
      BY <1>1, <3>1, DeviceAnswers
    <3>. QED  BY <1>1, <2>1, <3>2, PhoneHears
  <2>. QED  BY <2>2, <2>3
<1>5. CASE DeviceOverflow
  <2>1. UNCHANGED <<phone, reader, toPhone, replies, overwritten, cut>>
    BY <1>5 DEF DeviceOverflow, links, history
  <2>. QED  BY <1>2, <2>1
<1>6. CASE DeviceOverrun
  <2>1. /\ UNCHANGED <<phone, reader, replies, overwritten, cut>>
        /\ toPhone' = toPhone \o Tagged(Overrun, 0)
    BY <1>6 DEF DeviceOverrun, history
  <2>2. Len(replies) \in Nat /\ replies' = replies
    BY <1>1, <2>1 DEF HistoryOK
  <2>3. 0 \in 0 .. Len(replies') /\ Text(replies', 0) = Overrun /\ Len(replies) <= Len(replies')
    BY <2>2 DEF Text
  <2>4. \E n \in 0 .. Len(replies') : toPhone' = toPhone \o Tagged(Text(replies', n), n)
    BY <2>1, <2>3
  <2>5. AnswersOK(replies') /\ \A n \in 1 .. Len(replies) : replies'[n] = replies[n]
    BY <1>1, <2>2
  <2>. QED  BY <1>1, <2>1, <2>3, <2>4, <2>5, PhoneHears
<1>7. CASE Reader
  BY <1>1, <1>7, PhoneReads DEF Reader
<1>8. CASE Handler
  BY <1>1, <1>8, PhoneTakes, PhoneHandles, PhoneCrashes, PhoneEnds DEF Handler
<1>9. CASE LinkLost
  BY <1>1, <1>9, PhoneLoses
<1>10. ASSUME NEW k \in Lengths(toDevice) \cup {0}, DeviceReset(k)  PROVE PhoneOK'
  <2>1. /\ UNCHANGED <<phone, reader, toPhone, replies, overwritten>>
        /\ cut' = [cut EXCEPT !.device = @ \cup TornFrame(toDevice')]
    BY <1>10 DEF DeviceReset
  <2>2. cut'.phone = cut.phone
    <3>. DEFINE T == TornFrame(toDevice')
    <3>1. cut' = [cut EXCEPT !.device = @ \cup T]
      BY <2>1
    <3>2. cut \in [device : SUBSET Nat, phone : SUBSET Nat]
      BY <1>1 DEF HistoryOK
    <3>. HIDE DEF T
    <3>. QED  BY <3>1, <3>2
  <2>. QED  BY <1>2, <2>1, <2>2
<1>11. CASE UNCHANGED vars
  <2>1. UNCHANGED <<phone, reader, toPhone, replies, overwritten, cut>>
    BY <1>11 DEF vars, links, history
  <2>. QED  BY <1>2, <2>1
<1>. QED
  BY <1>3, <1>4, <1>5, <1>6, <1>7, <1>8, <1>9, <1>10, <1>11 DEF Next, Device, Faults

\* The phone's side of the invariant.
THEOREM PhoneInductive == Spec => []PhoneOK
<1>1. Init => PhoneOK
  BY PhoneInit
<1>2. IInv /\ IInv' /\ PhoneOK /\ [Next]_vars => PhoneOK'
  BY PhoneNext
<1>. QED  BY <1>1, <1>2, Inductive, PTL DEF Spec

\* The secret of the phone (serialDataProcess in DeviceFragment.java, function code
\* 1) comes from a public key that the device has sent, however the replies are
\* cut into chunks and chunks run together, wherever the shared index j jumps,
\* as long as no chunk was overwritten and no reply was cut, by a lost connection or
\* by a jump of the index to the rest of a key with the mark of a frame inside.
THEOREM SecretWasSent == Spec => []PhoneSecretIsSent
<1>1. PhoneOK => PhoneSecretIsSent
  BY DEF PhoneOK
<1>. QED  BY <1>1, PhoneInductive, PTL

\* Neither automaton writes behind dataReceive, unless a frame or a reply was cut
\* or a chunk overwritten.
THEOREM BothStayInside == Spec => []WritesStayInside
<1>1. IInv /\ PhoneOK => WritesStayInside
  <2>1. ASSUME IInv, PhoneOK  PROVE WritesStayInside
    <3>1. DeviceInside /\ overwritten \in BOOLEAN /\ (Clean => crashed = FALSE)
      BY <2>1 DEF IInv, TypeOK, PhoneOK, PhoneAt
    <3>. QED  BY <3>1 DEF WritesStayInside, DeviceInside, Clean
  <2>. QED  BY <2>1
<1>. QED  BY <1>1, Inductive, PhoneInductive, PTL

=============================================================================
