-------------------------- MODULE SerialTeeProofs --------------------------
(***************************************************************************)
(* The serial tee loses, repeats and reorders nothing but what it drops    *)
(* for slow terminals: for every ring, channel and chunk size, any output  *)
(* and any number of terminals.                                            *)
(*                                                                         *)
(* None of the properties is inductive.  Stream relates the three places   *)
(* where a terminal's bytes are: what it has seen, its channel, and the    *)
(* bytes dropped for it.  StreamInv adds the chunk in drain's hands, and   *)
(* that the terminal subscribed now is owed everything up to `written';    *)
(* the replay joins on because the ring ends at `written' (RingIsTail).    *)
(***************************************************************************)
EXTENDS SerialTee, SequenceTheorems, TLAPS

(* Zenon first, with more time than the default; leaves that need          *)
(* arithmetic are marked for SMT.                                          *)
USE ZenonT(20), SMTT(60)

-----------------------------------------------------------------------------
(* Bytes in order: runs of consecutive bytes, streams (what a terminal has  *)
(* seen, its channel and what was dropped for it), and the ring.           *)

(* Consecutive bytes, as in a chunk. *)
Run(r) ==
  /\ r \in Seq(Nat) /\ Len(r) > 0
  /\ \A i \in 1..Len(r) : r[i] = r[1] + i - 1

High(r) == r[Len(r)]
Top(s) == IF s = <<>> THEN 0 ELSE s[Len(s)]

(* Between x and the run r there are only bytes of D. *)
Follows(x, r, D) == x < r[1] /\ (x + 1)..(r[1] - 1) \subseteq D

InOrder(s, D) ==
  \A i \in 1..(Len(s) - 1) : s[i] < s[i + 1] /\ (s[i] + 1)..(s[i + 1] - 1) \subseteq D

(* The last byte that was put in the channel q, or seen if q is empty. *)
End(q, s) == IF q = <<>> THEN Top(s) ELSE High(q[Len(q)])

Holds(q, x) == \E i \in 1..Len(q) : x \in q[i][1]..High(q[i])

(* What a terminal has seen, s, and its channel, q, are the VM's output in *)
(* order but for the bytes D that were dropped.                            *)
Stream(q, s, D) ==
  /\ q \in Seq(Seq(Nat)) /\ s \in Seq(Nat) /\ D \subseteq Nat
  /\ \A i \in 1..Len(q) : Run(q[i])
  /\ \A i \in 1..(Len(q) - 1) : Follows(High(q[i]), q[i + 1], D)
  /\ q # <<>> => Follows(Top(s), q[1], D)
  /\ InOrder(s, D)
  /\ \A x \in (Top(s) + 1)..End(q, s) : Holds(q, x) \/ x \in D

-----------------------------------------------------------------------------
(* Streams.                                                                *)

(* Where a run begins and ends. *)
LEMMA RunEnds ==
  ASSUME NEW r, Run(r)
  PROVE  /\ r[1] \in Nat /\ High(r) \in Nat /\ Len(r) \in Nat
         /\ High(r) = r[1] + Len(r) - 1 /\ r[1] <= High(r)
<1>1. Len(r) \in Nat /\ Len(r) > 0 BY DEF Run
<1>2. 1 \in 1..Len(r) /\ Len(r) \in 1..Len(r) BY <1>1
<1>3. r[1] \in Nat /\ r[Len(r)] \in Nat BY <1>2 DEF Run
<1>4. r[Len(r)] = r[1] + Len(r) - 1 BY <1>2 DEF Run
<1> QED BY <1>1, <1>3, <1>4 DEF High

(* A run holds exactly the bytes between its ends. *)
LEMMA RunSet ==
  ASSUME NEW r, Run(r)
  PROVE  Range(r) = r[1]..High(r)
<1>1. r[1] \in Nat /\ High(r) \in Nat /\ Len(r) \in Nat /\ High(r) = r[1] + Len(r) - 1
  BY RunEnds
<1>2. ASSUME NEW x \in r[1]..High(r) PROVE x \in Range(r)
  <2>1. x - r[1] + 1 \in 1..Len(r) BY <1>1
  <2>2. r[x - r[1] + 1] = x BY <1>1, <2>1 DEF Run
  <2> QED BY <2>1, <2>2, SMTT(60) DEF Range, Run
<1>3. ASSUME NEW x \in Range(r) PROVE x \in r[1]..High(r)
  <2>1. PICK i \in 1..Len(r) : r[i] = x BY DEF Range, Run
  <2>2. x = r[1] + i - 1 BY <2>1 DEF Run
  <2> QED BY <1>1, <2>1, <2>2
<1> QED BY <1>2, <1>3

(* The last byte seen, and the last one in the channel, are numbers. *)
LEMMA EndType ==
  ASSUME NEW q, NEW s, NEW D, Stream(q, s, D)
  PROVE  Top(s) \in Nat /\ End(q, s) \in Nat
<1>1. Top(s) \in Nat
  <2>1. s \in Seq(Nat) BY DEF Stream
  <2>2. s # <<>> => Len(s) \in 1..Len(s) BY <2>1
  <2> QED BY <2>1, <2>2 DEF Top
<1>2. CASE q = <<>> BY <1>1, <1>2 DEF End
<1>3. CASE q # <<>>
  <2>1. Len(q) \in 1..Len(q) BY <1>3 DEF Stream
  <2>2. Run(q[Len(q)]) BY <2>1 DEF Stream
  <2> QED BY <1>1, <1>3, <2>2, RunEnds DEF End
<1> QED BY <1>2, <1>3

(* Dropping more keeps a stream a stream. *)
LEMMA StreamDrop ==
  ASSUME NEW q, NEW s, NEW D, NEW E, Stream(q, s, D), E \subseteq Nat
  PROVE  Stream(q, s, D \cup E)
  BY DEF Stream, InOrder, Follows

(* A chunk that follows the end of a stream can be put in its channel. *)
LEMMA StreamAppend ==
  ASSUME NEW q, NEW s, NEW D, NEW r, Stream(q, s, D), Run(r), Follows(End(q, s), r, D)
  PROVE  Stream(Append(q, r), s, D) /\ End(Append(q, r), s) = High(r)
<1> DEFINE p == Append(q, r)
           n == Len(q)
<1>1. q \in Seq(Seq(Nat)) /\ r \in Seq(Nat) BY DEF Stream, Run
<1>2. /\ p \in Seq(Seq(Nat)) /\ Len(p) = n + 1 /\ n \in Nat /\ p # <<>>
      /\ p[n + 1] = r /\ \A i \in 1..n : p[i] = q[i]
  <2>1. n \in Nat BY <1>1
  <2>2. p \in Seq(Seq(Nat)) /\ Len(p) = n + 1 BY <1>1
  <2>3. p # <<>>
    <3>1. Len(<<>>) = 0 OBVIOUS
    <3>2. \A m \in Nat : m + 1 # 0 OBVIOUS
    <3> QED BY <2>1, <2>2, <3>1, <3>2
  <2>4. p[n + 1] = r BY <1>1
  <2>5. ASSUME NEW i \in 1..n PROVE p[i] = q[i] BY <1>1
  <2> QED BY <2>1, <2>2, <2>3, <2>4, <2>5
<1> HIDE DEF p
<1>3. End(p, s) = High(r) BY <1>2 DEF End
<1>4. ASSUME NEW i \in 1..Len(p) PROVE Run(p[i])
  <2>1. CASE i = n + 1 BY <1>2, <2>1
  <2>2. CASE i # n + 1
    <3>1. i \in 1..n /\ p[i] = q[i] BY <1>2, <2>2
    <3> QED BY <3>1 DEF Stream
  <2> QED BY <2>1, <2>2
<1>5. ASSUME NEW i \in 1..(Len(p) - 1) PROVE Follows(High(p[i]), p[i + 1], D)
  <2>1. CASE i < n
    <3>1. i \in 1..(n - 1) /\ p[i] = q[i] /\ p[i + 1] = q[i + 1] BY <1>2, <2>1
    <3> QED BY <3>1 DEF Stream
  <2>2. CASE i = n
    <3>1. q # <<>> /\ p[i] = q[n] /\ p[i + 1] = r BY <1>1, <1>2, <2>2
    <3>2. End(q, s) = High(p[i]) BY <3>1, <2>2 DEF End
    <3> QED BY <3>1, <3>2
  <2> QED BY <1>2, <2>1, <2>2
<1>6. Follows(Top(s), p[1], D)
  <2>1. CASE q = <<>>
    <3>1. p[1] = r /\ End(q, s) = Top(s) BY <1>2, <2>1, SMTT(60) DEF End
    <3> QED BY <3>1
  <2>2. CASE q # <<>>
    <3>1. p[1] = q[1] BY <1>1, <1>2, <2>2, SMTT(60)
    <3> QED BY <3>1, <2>2 DEF Stream
  <2> QED BY <2>1, <2>2
<1>7. ASSUME NEW x \in (Top(s) + 1)..End(p, s) PROVE Holds(p, x) \/ x \in D
  <2>1. /\ Top(s) \in Nat /\ End(q, s) \in Nat /\ r[1] \in Nat /\ High(r) \in Nat
    BY EndType, RunEnds
  <2>2. x \in Int /\ Top(s) + 1 <= x /\ x <= High(r) BY <1>3, <1>7, <2>1
  <2>3. CASE x <= End(q, s)
    <3>1. x \in (Top(s) + 1)..End(q, s) BY <2>1, <2>2, <2>3
    <3>2. Holds(q, x) \/ x \in D BY <3>1 DEF Stream
    <3>3. Holds(q, x) => Holds(p, x) BY <1>2, SMTT(60) DEF Holds
    <3> QED BY <3>2, <3>3
  <2>4. CASE End(q, s) < x /\ x < r[1]
    <3>1. x \in (End(q, s) + 1)..(r[1] - 1) BY <2>1, <2>2, <2>4
    <3> QED BY <3>1 DEF Follows
  <2>5. CASE r[1] <= x
    <3>1. x \in r[1]..High(r) BY <2>1, <2>2, <2>5
    <3>2. n + 1 \in 1..Len(p) /\ p[n + 1] = r BY <1>2
    <3> QED BY <3>1, <3>2 DEF Holds
  <2> QED BY <2>1, <2>2, <2>3, <2>4, <2>5
<1> QED
  <2>1. Stream(p, s, D) BY <1>2, <1>4, <1>5, <1>6, <1>7 DEF Stream
  <2> QED BY <2>1, <1>3 DEF p

(* Bytes in order stay in order when a run that follows them is added. *)
LEMMA OrderAppend ==
  ASSUME NEW s \in Seq(Nat), NEW r, NEW D, InOrder(s, D), Run(r),
         s # <<>> => Follows(Top(s), r, D)
  PROVE  InOrder(s \o r, D)
<1> DEFINE t == s \o r
           n == Len(s)
<1>1. r \in Seq(Nat) /\ n \in Nat /\ Len(r) \in Nat BY DEF Run
<1>2. /\ Len(t) = n + Len(r)
      /\ \A i \in 1..n : t[i] = s[i]
      /\ \A i \in 1..Len(r) : t[n + i] = r[i]
  BY <1>1
<1>l. n \in Nat /\ Len(r) \in Nat /\ Len(t) = n + Len(r)
  BY <1>1, <1>2
<1> HIDE DEF t, n
<1>3. ASSUME NEW i \in 1..(Len(t) - 1)
      PROVE  t[i] < t[i + 1] /\ (t[i] + 1)..(t[i + 1] - 1) \subseteq D
  <2>1. CASE i < n
    <3>1. i \in 1..(n - 1) /\ i \in 1..n /\ i + 1 \in 1..n BY <1>l, <2>1, SMTT(60)
    <3>2. t[i] = s[i] /\ t[i + 1] = s[i + 1] BY <1>2, <3>1
    <3> QED BY <3>1, <3>2 DEF InOrder, n
  <2>2. CASE i = n
    <3>0. i \in 1..n /\ n # 0 /\ 1 \in 1..Len(r) BY <1>l, <2>2, SMTT(60)
    <3>1. s # <<>> /\ t[i] = s[n] /\ 1 \in 1..Len(r) BY <1>2, <2>2, <3>0, SMTT(60) DEF n
    <3>2. t[n + 1] = r[1] BY <1>2, <3>1
    <3>3. t[i] = Top(s) /\ t[i + 1] = r[1] BY <2>2, <3>1, <3>2 DEF Top, n
    <3> QED BY <3>1, <3>3 DEF Follows
  <2>3. CASE i > n
    <3> DEFINE j == i - n
    <3>1. j \in 1..Len(r) /\ j + 1 \in 1..Len(r) /\ i = n + j /\ i + 1 = n + (j + 1)
      BY <1>l, <2>3, SMTT(60)
    <3> HIDE DEF j
    <3>2. t[i] = r[j] /\ t[i + 1] = r[j + 1] BY <1>2, <3>1
    <3>3. r[1] \in Nat BY RunEnds
    <3>4. r[j] = r[1] + j - 1 /\ r[j + 1] = r[1] + (j + 1) - 1 BY <3>1 DEF Run
    <3>5. j \in Int BY <3>1
    <3>6. \A a, b, d : d \in Int /\ a = d /\ b = d + 1 => a < b /\ (a + 1)..(b - 1) = {}
      OBVIOUS
    <3>7. r[1] + j - 1 \in Int /\ r[1] + (j + 1) - 1 = (r[1] + j - 1) + 1 BY <3>3, <3>5
    <3>8. t[i] = r[1] + j - 1 /\ t[i + 1] = (r[1] + j - 1) + 1 BY <3>2, <3>4, <3>7
    <3>9. t[i] < t[i + 1] /\ (t[i] + 1)..(t[i + 1] - 1) = {} BY <3>6, <3>7, <3>8
    <3> QED BY <3>9
  <2> QED BY <1>l, <2>1, <2>2, <2>3
<1> QED BY <1>3 DEF InOrder, t

(* The pump takes a chunk from the channel. *)
LEMMA StreamReceive ==
  ASSUME NEW q, NEW s, NEW D, Stream(q, s, D), q # <<>>
  PROVE  Stream(Tail(q), s \o Head(q), D) /\ End(Tail(q), s \o Head(q)) = End(q, s)
<1> DEFINE p == Tail(q)
           r == q[1]
           t == s \o r
           n == Len(q)
<1>1. q \in Seq(Seq(Nat)) /\ s \in Seq(Nat) /\ n \in Nat /\ n > 0 /\ Head(q) = r
  BY DEF Stream
<1>2. Run(r) BY <1>1 DEF Stream
<1>3. /\ p \in Seq(Seq(Nat)) /\ Len(p) = n - 1
      /\ \A i \in 1..(n - 1) : p[i] = q[i + 1]
  BY <1>1
<1>4. /\ t \in Seq(Nat) /\ t # <<>> /\ Top(t) = High(r)
  <2>1. r \in Seq(Nat) /\ Len(r) \in Nat /\ Len(r) > 0 /\ Len(s) \in Nat BY <1>1, <1>2 DEF Run
  <2>2. t \in Seq(Nat) /\ Len(t) = Len(s) + Len(r) BY <1>1, <2>1
  <2>3. t[Len(s) + Len(r)] = r[Len(r)] BY <1>1, <2>1
  <2>4. t # <<>> BY <2>1, <2>2
  <2> QED BY <2>2, <2>3, <2>4 DEF Top, High
<1>5. InOrder(t, D) BY <1>1, <1>2, OrderAppend DEF Stream
<1> HIDE DEF p, r, t
<1>6. End(p, t) = End(q, s)
  <2>1. CASE n = 1
    <3>1. p = <<>> BY <1>3, <2>1
    <3> QED BY <3>1, <1>1, <1>4, <2>1 DEF End, r
  <2>2. CASE n > 1
    <3>1. p # <<>> /\ p[n - 1] = q[n] BY <1>1, <1>3, <2>2
    <3> QED BY <3>1, <1>3 DEF End
  <2>3. \A m \in Nat : m > 0 => m = 1 \/ m > 1 OBVIOUS
  <2> QED BY <1>1, <2>1, <2>2, <2>3
<1>7. \A i \in 1..Len(p) : Run(p[i])
  <2>1. \A i \in 1..(n - 1) : i + 1 \in 1..n BY <1>1
  <2> QED BY <1>3, <2>1 DEF Stream
<1>8. ASSUME NEW i \in 1..(Len(p) - 1) PROVE Follows(High(p[i]), p[i + 1], D)
  <2>1. i + 1 \in 1..(n - 1) /\ i \in 1..(n - 1) BY <1>1, <1>3
  <2>2. p[i] = q[i + 1] /\ p[i + 1] = q[i + 1 + 1] BY <1>3, <2>1
  <2> QED BY <2>1, <2>2 DEF Stream
<1>9. ASSUME p # <<>> PROVE Follows(Top(t), p[1], D)
  <2>1. n > 1 BY <1>1, <1>3, <1>9
  <2>2. 1 \in 1..(n - 1) /\ p[1] = q[1 + 1] BY <1>1, <1>3, <2>1, SMTT(60)
  <2> QED BY <1>4, <2>2 DEF Stream, r
<1>10. ASSUME NEW x \in (Top(t) + 1)..End(p, t) PROVE Holds(p, x) \/ x \in D
  <2>1. Top(s) \in Nat /\ End(q, s) \in Nat /\ r[1] \in Nat /\ High(r) \in Nat /\ r[1] <= High(r)
    BY EndType, RunEnds, <1>2
  <2>2. Top(s) < r[1] BY DEF Stream, Follows, r
  <2>3. x \in Int /\ High(r) < x /\ x <= End(q, s) BY <1>4, <1>6, <1>10, <2>1
  <2>4. x \in (Top(s) + 1)..End(q, s) BY <2>1, <2>2, <2>3
  <2>5. CASE x \in D BY <2>5
  <2>6. CASE Holds(q, x)
    <3>1. PICK i \in 1..Len(q) : x \in q[i][1]..High(q[i]) BY <2>6 DEF Holds
    <3>2. i # 1 BY <3>1, <2>1, <2>3 DEF r
    <3>3. i - 1 \in 1..(n - 1) BY <1>1, <3>1, <3>2
    <3>4. p[i - 1] = q[(i - 1) + 1] /\ (i - 1) + 1 = i BY <1>3, <3>3
    <3>5. i - 1 \in 1..Len(p) BY <1>3, <3>3
    <3> QED BY <3>1, <3>4, <3>5 DEF Holds
  <2> QED BY <2>4, <2>5, <2>6 DEF Stream
<1>11. Stream(p, t, D) BY <1>3, <1>4, <1>5, <1>7, <1>8, <1>9, <1>10 DEF Stream
<1>12. Tail(q) = p /\ s \o Head(q) = t BY <1>1 DEF p, t
<1> QED BY <1>6, <1>11, <1>12

-----------------------------------------------------------------------------
(* The ring.                                                               *)

Held(w) == IF w < ringLimit THEN w ELSE ringLimit
RingOf(w) == [i \in 1..Held(w) |-> w - Held(w) + i]

(* The ring's length and bytes. *)
LEMMA RingFacts ==
  ASSUME NEW w \in Nat
  PROVE  /\ Held(w) \in Nat /\ Held(w) <= w /\ Held(w) <= ringLimit
         /\ Held(w) < ringLimit => Held(w) = w
         /\ RingOf(w) \in Seq(Nat) /\ Len(RingOf(w)) = Held(w)
         /\ \A i \in 1..Held(w) : RingOf(w)[i] = w - Held(w) + i
<1>1. ringLimit \in Nat BY TeeAssumption
<1>2. Held(w) \in Nat /\ Held(w) <= w /\ Held(w) <= ringLimit /\ (Held(w) < ringLimit => Held(w) = w)
  BY <1>1 DEF Held
<1> QED BY <1>2 DEF RingOf

(* Adding a chunk and trimming leaves the last ringLimit bytes. *)
LEMMA TrimKeepsTail ==
  ASSUME NEW w \in Nat, NEW n \in Nat \ {0}
  PROVE  Trim(RingOf(w) \o [i \in 1..n |-> w + i]) = RingOf(w + n)
<1> DEFINE m == Held(w)
           r == RingOf(w)
           k == [i \in 1..n |-> w + i]
           s == r \o k
           L == ringLimit
           h == Held(w + n)
           t == RingOf(w + n)
<1>1. L \in Nat /\ L > 0 BY TeeAssumption
<1>2. /\ m \in Nat /\ m <= w /\ m <= L /\ (m < L => m = w)
      /\ r \in Seq(Nat) /\ Len(r) = m /\ \A i \in 1..m : r[i] = w - m + i
  BY RingFacts
<1>3. /\ h \in Nat /\ h <= w + n /\ h <= L /\ (h < L => h = w + n)
      /\ t \in Seq(Nat) /\ Len(t) = h /\ \A i \in 1..h : t[i] = w + n - h + i
  <2>1. w + n \in Nat OBVIOUS
  <2> HIDE DEF h, t
  <2> QED BY <2>1, RingFacts, SMTT(60) DEF h, t
<1>4. k \in Seq(Nat) /\ Len(k) = n /\ \A i \in 1..n : k[i] = w + i
  OBVIOUS
<1> HIDE DEF m, r, k, L, h, t
<1>5. s \in Seq(Nat) /\ Len(s) = m + n
  <2>1. s \in Seq(Nat) /\ Len(s) = Len(r) + Len(k)
    BY <1>2, <1>4, ConcatProperties
  <2> QED BY <2>1, <1>2, <1>4
<1>6. ASSUME NEW i \in 1..(m + n) PROVE s[i] = w - m + i
  <2>1. CASE i <= m
    <3>1. i \in 1..m BY <1>2, <2>1
    <3>2. s[i] = r[i] BY <1>2, <1>4, <3>1
    <3> QED BY <1>2, <3>1, <3>2
  <2>2. CASE i > m
    <3>1. i - m \in 1..n BY <1>2, <2>2
    <3>2. s[i] = k[i - m] BY <1>2, <1>4, <3>1, <2>2, SMTT(60)
    <3>3. k[i - m] = w + (i - m) BY <1>4, <3>1
    <3>4. w + (i - m) = w - m + i BY <1>2
    <3> QED BY <3>2, <3>3, <3>4
  <2>3. \A a, b \in Int : a <= b \/ a > b OBVIOUS
  <2>4. i \in Int /\ m \in Int BY <1>2
  <2> QED BY <2>1, <2>2, <2>3, <2>4
<1> HIDE DEF s
<1>7. CASE m + n > L
  <2> DEFINE d == m + n - L
             u == SubSeq(s, d + 1, m + n)
  <2>1. h = L BY <1>1, <1>2, <1>3, <1>7
  <2>2. Trim(s) = u
    <3>1. Len(s) > ringLimit BY <1>5, <1>7 DEF L
    <3>2. Trim(s) = SubSeq(s, Len(s) - ringLimit + 1, Len(s)) BY <3>1 DEF Trim
    <3>3. Len(s) - ringLimit + 1 = d + 1 BY <1>1, <1>2, <1>5, SMTT(60) DEF L
    <3> HIDE DEF d
    <3> QED BY <3>2, <3>3, <1>5
  <2>3. d \in Nat /\ d + L = m + n BY <1>1, <1>2, <1>7
  <2> HIDE DEF d
  <2>4. u \in Seq(Nat) /\ Len(u) = L /\ \A i \in 1..L : u[i] = s[d + i]
    <3> DEFINE a == d + 1
               b == m + n
    <3>1. /\ a \in Int /\ b \in Int /\ a <= b /\ b - a + 1 = L
          /\ \A i \in 1..L : a + i - 1 = d + i
      BY <2>3, <1>1, <1>2
    <3>2. \A i \in a..b : s[i] \in Nat
      <4>1. \A i \in a..b : i \in 1..Len(s) BY <1>5, <2>3, <1>2, SMTT(60)
      <4> QED BY <4>1, <1>5, ElementOfSeq
    <3>3. u = SubSeq(s, a, b) OBVIOUS
    <3> HIDE DEF a, b, u
    <3>4. /\ u \in Seq(Nat) /\ Len(u) = b - a + 1
          /\ \A i \in 1..(b - a + 1) : u[i] = s[a + i - 1]
      BY <3>1, <3>2, <3>3, SubSeqProperties, SMTT(60)
    <3> QED BY <3>1, <3>4
  <2>5. ASSUME NEW i \in 1..Len(u) PROVE u[i] = t[i]
    <3>1. i \in 1..L BY <2>4
    <3>2. d + i \in 1..(m + n) BY <3>1, <2>3, <1>1, <1>2
    <3>3. u[i] = w - m + (d + i) BY <3>1, <3>2, <2>4, <1>6
    <3>4. t[i] = w + n - L + i BY <3>1, <2>1, <1>3
    <3>5. w - m + (d + i) = w + n - L + i BY <2>3, <3>1, <1>1, <1>2
    <3> QED BY <3>3, <3>4, <3>5
  <2>6. u = t
    <3> HIDE DEF u
    <3> QED BY <2>1, <2>4, <2>5, <1>3, SeqEqual
  <2> QED BY <2>2, <2>6 DEF s, r, k, t
<1>8. CASE ~(m + n > L)
  <2>1. m = w /\ h = m + n BY <1>1, <1>2, <1>3, <1>8, SMTT(60)
  <2>2. Trim(s) = s BY <1>5, <1>8 DEF Trim, L
  <2>3. ASSUME NEW i \in 1..Len(s) PROVE s[i] = t[i]
    <3>1. i \in 1..(m + n) /\ i \in 1..h BY <1>5, <2>1
    <3>2. s[i] = w - m + i /\ t[i] = w + n - h + i BY <3>1, <1>6, <1>3
    <3>3. w - m + i = w + n - h + i BY <2>1, <3>1, <1>2
    <3> QED BY <3>2, <3>3
  <2>4. s = t BY <2>1, <2>3, <1>3, <1>5, SeqEqual
  <2> QED BY <2>2, <2>4 DEF s, r, k, t
<1> QED BY <1>7, <1>8

(* The replay of a ring is a stream that ends at the last byte written. *)
LEMMA RingStream ==
  ASSUME NEW w \in Nat, NEW D \in SUBSET Nat
  PROVE  Stream(<<>>, RingOf(w), D) /\ End(<<>>, RingOf(w)) = w
<1> DEFINE m == Held(w)
           r == RingOf(w)
<1>1. ringLimit \in Nat /\ ringLimit > 0 BY TeeAssumption
<1>2. m \in Nat /\ m <= w /\ (m = 0 => w = 0) BY <1>1 DEF Held
<1>3. r \in Seq(Nat) /\ Len(r) = m /\ \A i \in 1..m : r[i] = w - m + i
  BY RingFacts
<1> HIDE DEF m, r
<1>4. Top(r) = w
  <2>1. CASE m = 0
    <3>1. r = <<>> BY <1>3, <2>1
    <3> QED BY <3>1, <1>2, <2>1 DEF Top
  <2>2. CASE m # 0
    <3>1. m \in 1..m /\ r # <<>> BY <1>2, <1>3, <2>2
    <3>2. r[m] = w - m + m BY <1>3, <3>1
    <3>3. w - m + m = w BY <1>2
    <3> QED BY <1>3, <3>1, <3>2, <3>3 DEF Top
  <2> QED BY <2>1, <2>2
<1>5. InOrder(r, D)
  <2> SUFFICES ASSUME NEW i \in 1..(Len(r) - 1)
               PROVE  r[i] < r[i + 1] /\ (r[i] + 1)..(r[i + 1] - 1) = {}
    BY DEF InOrder
  <2>1. i \in 1..m /\ i + 1 \in 1..m BY <1>2, <1>3
  <2>2. r[i] = w - m + i /\ r[i + 1] = w - m + (i + 1) BY <1>3, <2>1
  <2>3. w - m + i \in Int /\ w - m + (i + 1) = (w - m + i) + 1 BY <1>2
  <2>4. \A a, b, d : d \in Int /\ a = d /\ b = d + 1 => a < b /\ (a + 1)..(b - 1) = {}
    OBVIOUS
  <2> QED BY <2>2, <2>3, <2>4
<1>6. <<>> \in Seq(Seq(Nat)) /\ Len(<<>>) = 0 OBVIOUS
<1>7. End(<<>>, r) = Top(r) BY DEF End
<1>8. Stream(<<>>, r, D)
  <2>1. (Top(r) + 1)..End(<<>>, r) = {} BY <1>4, <1>7
  <2> QED BY <1>3, <1>5, <1>6, <2>1 DEF Stream
<1> QED BY <1>4, <1>7, <1>8 DEF r

-----------------------------------------------------------------------------
EndFor(c) == End(updates[c], seen[c])
Pending(c) == drain = "send" /\ sub = c

TeeInv ==
  /\ written \in Nat
  /\ subscriber \in Clients \cup {None}
  /\ drain = "send" => sub \in Clients /\ Run(chunk) /\ High(chunk) = written
  /\ at \in [Clients -> {"none", "attached", "unsubscribed", "closed"}]
  /\ updates \in [Clients -> Seq(Seq(Nat))]
  /\ seen \in [Clients -> Seq(Nat)]
  /\ dropped \in [Clients -> SUBSET Nat]
  /\ RingIsTail

StreamInv(c) ==
  /\ Stream(updates[c], seen[c], dropped[c])
  /\ at[c] = "none" => subscriber # c /\ ~Pending(c) /\ updates[c] = <<>>
  /\ Pending(c) => Follows(EndFor(c), chunk, dropped[c])
  /\ subscriber = c /\ ~Pending(c)
       => EndFor(c) <= written /\ (EndFor(c) + 1)..written \subseteq dropped[c]
  /\ at[c] = "attached" /\ latest = c => subscriber = c

IInv == TeeInv /\ \A c \in Clients : StreamInv(c)

-----------------------------------------------------------------------------
(* Steps.  Each lemma is about one action.                                 *)

(* drain reads a chunk: the subscriber is owed it from now on. *)
LEMMA ReadKeeps ==
  ASSUME IInv, NEW n \in 1..MaxChunk, Read(n)
  PROVE  IInv'
<1>1. n \in Nat \ {0} /\ written \in Nat BY TeeAssumption, SMTT(60) DEF IInv, TeeInv
<1>2. Run(chunk') /\ chunk'[1] = written + 1 /\ High(chunk') = written'
  <2>1. chunk' = [i \in 1..n |-> written + i] /\ written' = written + n BY DEF Read
  <2>2. chunk' \in Seq(Nat) /\ Len(chunk') = n BY <1>1, <2>1
  <2>3. 1 \in 1..n /\ n \in 1..n BY <1>1
  <2>4. chunk'[1] = written + 1 /\ chunk'[n] = written + n BY <2>1, <2>3
  <2>5. \A i \in 1..n : chunk'[i] = chunk'[1] + i - 1
    <3> SUFFICES ASSUME NEW i \in 1..n PROVE chunk'[i] = chunk'[1] + i - 1
      OBVIOUS
    <3>1. chunk'[i] = written + i BY <2>1
    <3>2. written + i = (written + 1) + i - 1 BY <1>1
    <3> QED BY <3>1, <3>2, <2>4
  <2> QED BY <1>1, <2>1, <2>2, <2>4, <2>5 DEF Run, High
<1>3. RingIsTail'
  <2>1. ring = RingOf(written) BY DEF IInv, TeeInv, RingIsTail, RingOf, Held
  <2>2. ring' = Trim(RingOf(written) \o [i \in 1..n |-> written + i]) BY <2>1 DEF Read
  <2>3. ring' = RingOf(written + n) BY <1>1, <2>2, TrimKeepsTail
  <2>4. written' = written + n BY DEF Read
  <2> QED BY <2>3, <2>4 DEF RingIsTail, RingOf, Held
<1>4. drain = "read" /\ sub' = subscriber /\ (drain' = "send" <=> subscriber # None)
  BY DEF Read
<1>5. TeeInv'
  <2>1. written' \in Nat BY <1>1 DEF Read
  <2>2. drain' = "send" => sub' \in Clients BY <1>4 DEF IInv, TeeInv
  <2> QED BY <1>2, <1>3, <2>1, <2>2 DEF IInv, TeeInv, Read
<1>6. ASSUME NEW c \in Clients PROVE StreamInv(c)'
  <2>1. StreamInv(c) BY DEF IInv
  <2>2. /\ updates' = updates /\ seen' = seen /\ dropped' = dropped /\ at' = at
        /\ subscriber' = subscriber /\ latest' = latest
    BY DEF Read
  <2>3. EndFor(c)' = EndFor(c) /\ Stream(updates[c], seen[c], dropped[c])'
    BY <2>1, <2>2 DEF EndFor, StreamInv
  <2>4. ~Pending(c) BY <1>4 DEF Pending
  <2>5. CASE subscriber = c
    <3>1. Pending(c)' BY <1>4, <2>5, TeeAssumption DEF Pending
    <3>2. EndFor(c) \in Nat BY <2>1, EndType DEF StreamInv, EndFor
    <3>3. EndFor(c) <= written /\ (EndFor(c) + 1)..written \subseteq dropped[c]
      BY <2>1, <2>4, <2>5 DEF StreamInv
    <3>4. EndFor(c) < written + 1 /\ (written + 1) - 1 = written BY <1>1, <3>2, <3>3
    <3>5. Follows(EndFor(c), chunk', dropped[c]) BY <1>2, <3>3, <3>4 DEF Follows
    <3>6. Follows(EndFor(c), chunk, dropped[c])' BY <3>5, <2>2, <2>3 DEF Follows
    <3>7. at[c] # "none" BY <2>1, <2>5 DEF StreamInv
    <3> QED BY <2>2, <2>3, <2>5, <3>1, <3>6, <3>7 DEF StreamInv
  <2>6. CASE subscriber # c
    <3>1. ~Pending(c)' BY <1>4, <2>6 DEF Pending
    <3> QED BY <2>1, <2>2, <2>3, <2>6, <3>1 DEF StreamInv
  <2> QED BY <2>5, <2>6
<1> QED BY <1>5, <1>6 DEF IInv

(* drain hands its chunk over, drops it or panics. *)
LEMMA SendKeeps ==
  ASSUME IInv, Send
  PROVE  IInv'
<1>1. /\ sub \in Clients /\ Run(chunk) /\ High(chunk) = written /\ written \in Nat
      /\ drain = "send" /\ Pending(sub)
  BY DEF IInv, TeeInv, Send, Pending
<1>2. /\ written' = written /\ ring' = ring /\ subscriber' = subscriber /\ chunk' = chunk
      /\ sub' = sub /\ at' = at /\ seen' = seen /\ latest' = latest
  BY DEF Send
<1>3. RingIsTail' BY <1>2 DEF IInv, TeeInv, RingIsTail
<1>4. CASE at[sub] = "closed"
  <2>1. drain' = drain /\ updates' = updates /\ dropped' = dropped BY <1>4 DEF Send
  <2>2. TeeInv' BY <1>2, <1>3, <2>1 DEF IInv, TeeInv
  <2>3. \A c \in Clients : StreamInv(c)'
    BY <1>2, <2>1 DEF IInv, StreamInv, Pending, EndFor
  <2> QED BY <2>2, <2>3 DEF IInv
<1>5. CASE at[sub] # "closed"
  <2> PICK b \in Clients : b = sub BY <1>1
  <2>1. drain' = "read" BY <1>5 DEF Send
  <2>2. \A c \in Clients : ~Pending(c)' BY <2>1 DEF Pending
  <2>3. StreamInv(b) /\ Stream(updates[b], seen[b], dropped[b])
        /\ Follows(EndFor(b), chunk, dropped[b]) /\ at[b] # "none"
    BY <1>1 DEF IInv, StreamInv
  <2>4. updates \in [Clients -> Seq(Seq(Nat))] /\ dropped \in [Clients -> SUBSET Nat]
    BY DEF IInv, TeeInv
  <2>5. chunk \in Seq(Nat) /\ chunk[1] \in Nat /\ Range(chunk) = chunk[1]..written
    BY <1>1, RunEnds, RunSet DEF Run
  <2>6. ASSUME NEW c \in Clients, c # b, updates'[c] = updates[c], dropped'[c] = dropped[c]
        PROVE  StreamInv(c)'
    <3>1. StreamInv(c) /\ ~Pending(c) BY <2>6 DEF IInv, Pending
    <3>2. EndFor(c)' = EndFor(c) BY <1>2, <2>6 DEF EndFor
    <3>3. Stream(updates[c], seen[c], dropped[c])' BY <1>2, <2>6, <3>1 DEF StreamInv
    <3>4. ~Pending(c)' BY <2>2
    <3> QED BY <1>2, <2>6, <3>1, <3>2, <3>3, <3>4 DEF StreamInv
  <2>7. CASE Len(updates[b]) < ChanCap
    <3>1. updates' = [updates EXCEPT ![b] = Append(@, chunk)] /\ dropped' = dropped
      BY <1>5, <2>7 DEF Send
    <3>2. Append(updates[b], chunk) \in Seq(Seq(Nat)) BY <1>1, <2>4, <2>5, AppendProperties
    <3>3. updates' \in [Clients -> Seq(Seq(Nat))] /\ updates'[b] = Append(updates[b], chunk)
      BY <1>1, <2>4, <3>1, <3>2
    <3>4. TeeInv' BY <1>2, <1>3, <2>1, <3>1, <3>3 DEF IInv, TeeInv
    <3>5. Stream(updates'[b], seen[b], dropped[b]) /\ End(updates'[b], seen[b]) = written
      BY <1>1, <2>3, <3>3, StreamAppend, SMTT(60) DEF EndFor
    <3>6. Stream(updates[b], seen[b], dropped[b])' /\ EndFor(b)' = written
      BY <1>2, <3>1, <3>5 DEF EndFor
    <3>7. (written + 1)..written = {} BY <1>1
    <3>8. StreamInv(b)' BY <1>1, <1>2, <2>2, <2>3, <3>6, <3>7 DEF StreamInv
    <3>9. ASSUME NEW c \in Clients, c # b PROVE StreamInv(c)'
      <4>1. updates'[c] = updates[c] /\ dropped'[c] = dropped[c] BY <3>1, <3>9, <2>4
      <4> QED BY <2>6, <3>9, <4>1
    <3> QED BY <3>4, <3>8, <3>9 DEF IInv
  <2>8. CASE ~(Len(updates[b]) < ChanCap)
    <3>1. dropped' = [dropped EXCEPT ![b] = @ \cup Range(chunk)] /\ updates' = updates
      BY <1>5, <2>8 DEF Send
    <3>2. Range(chunk) \subseteq Nat BY <1>1, <2>5
    <3>3. dropped' \in [Clients -> SUBSET Nat] /\ dropped'[b] = dropped[b] \cup Range(chunk)
      BY <1>1, <2>4, <3>1, <3>2
    <3>4. TeeInv' BY <1>2, <1>3, <2>1, <3>1, <3>3 DEF IInv, TeeInv
    <3>5. Stream(updates[b], seen[b], dropped'[b]) BY <2>3, <3>2, <3>3, StreamDrop, SMTT(60)
    <3>6. Stream(updates[b], seen[b], dropped[b])' /\ EndFor(b)' = EndFor(b)
      BY <1>2, <3>1, <3>5 DEF EndFor
    <3>7. EndFor(b) \in Nat BY <2>3, EndType DEF EndFor
    <3>8. EndFor(b) <= written /\ (EndFor(b) + 1)..written \subseteq dropped'[b]
      <4>1. EndFor(b) < chunk[1] /\ (EndFor(b) + 1)..(chunk[1] - 1) \subseteq dropped[b]
        BY <2>3 DEF Follows
      <4>2. chunk[1] <= written BY <1>1, RunEnds
      <4>3. ASSUME NEW x \in (EndFor(b) + 1)..written PROVE x \in dropped'[b]
        <5>1. x \in Int BY <1>1, <3>7
        <5>2. CASE x < chunk[1]
          <6>1. x \in (EndFor(b) + 1)..(chunk[1] - 1) BY <5>1, <5>2, <2>5, <3>7
          <6> QED BY <6>1, <4>1, <3>3
        <5>3. CASE ~(x < chunk[1])
          <6>1. x \in chunk[1]..written BY <5>1, <5>3, <2>5, <1>1, <3>7
          <6> QED BY <6>1, <2>5, <3>3
        <5> QED BY <5>2, <5>3
      <4> QED BY <4>1, <4>2, <4>3, <1>1, <2>5, <3>7
    <3>9. StreamInv(b)' BY <1>1, <1>2, <2>2, <2>3, <3>6, <3>8 DEF StreamInv
    <3>10. ASSUME NEW c \in Clients, c # b PROVE StreamInv(c)'
      <4>1. updates'[c] = updates[c] /\ dropped'[c] = dropped[c] BY <3>1, <3>10, <2>4
      <4> QED BY <2>6, <3>10, <4>1
    <3> QED BY <3>4, <3>9, <3>10 DEF IInv
  <2> QED BY <2>7, <2>8
<1> QED BY <1>4, <1>5

(* A terminal attaches: the replay ends where the stream goes on. *)
LEMMA AttachKeeps ==
  ASSUME IInv, NEW c \in Clients, Attach(c)
  PROVE  IInv'
<1>1. /\ written' = written /\ ring' = ring /\ drain' = drain /\ chunk' = chunk /\ sub' = sub
      /\ updates' = updates /\ dropped' = dropped /\ subscriber' = c /\ latest' = c
      /\ at[c] = "none" /\ at' = [at EXCEPT ![c] = "attached"] /\ seen' = [seen EXCEPT ![c] = ring]
  BY DEF Attach
<1>2. /\ written \in Nat /\ dropped[c] \subseteq Nat /\ seen \in [Clients -> Seq(Nat)]
      /\ at \in [Clients -> {"none", "attached", "unsubscribed", "closed"}]
  BY DEF IInv, TeeInv
<1>3. ring = RingOf(written) BY DEF IInv, TeeInv, RingIsTail, RingOf, Held
<1>4. Stream(<<>>, ring, dropped[c]) /\ End(<<>>, ring) = written
  <2>1. dropped[c] \in SUBSET Nat BY <1>2
  <2>2. Stream(<<>>, RingOf(written), dropped[c]) BY <1>2, <2>1, RingStream
  <2>3. End(<<>>, RingOf(written)) = written BY <1>2, <2>1, RingStream
  <2> QED BY <2>2, <2>3, <1>3
<1>5. TeeInv'
  <2>1. ring \in Seq(Nat) BY <1>2, <1>3, RingFacts
  <2>2. seen' \in [Clients -> Seq(Nat)] BY <1>1, <1>2, <2>1
  <2>3. at' \in [Clients -> {"none", "attached", "unsubscribed", "closed"}] BY <1>1, <1>2
  <2>4. RingIsTail' BY <1>1 DEF IInv, TeeInv, RingIsTail
  <2> QED BY <1>1, <2>2, <2>3, <2>4 DEF IInv, TeeInv
<1>6. StreamInv(c)'
  <2>1. updates[c] = <<>> /\ ~Pending(c) BY <1>1 DEF IInv, StreamInv
  <2>2. updates'[c] = <<>> /\ seen'[c] = ring /\ dropped'[c] = dropped[c] /\ at'[c] = "attached"
    BY <1>1, <1>2, <2>1
  <2>3. Stream(updates[c], seen[c], dropped[c])' /\ EndFor(c)' = written
    BY <1>4, <2>2 DEF EndFor
  <2>4. ~Pending(c)' BY <1>1, <2>1 DEF Pending
  <2>5. (written + 1)..written = {} /\ written <= written BY <1>2
  <2> QED BY <1>1, <2>2, <2>3, <2>4, <2>5 DEF StreamInv
<1>7. ASSUME NEW d \in Clients, d # c PROVE StreamInv(d)'
  <2>1. StreamInv(d) BY DEF IInv
  <2>2. seen'[d] = seen[d] /\ at'[d] = at[d] BY <1>1, <1>2, <1>7
  <2>3. EndFor(d)' = EndFor(d) /\ (Pending(d)' <=> Pending(d)) BY <1>1, <2>2 DEF EndFor, Pending
  <2>4. Stream(updates[d], seen[d], dropped[d])' BY <1>1, <2>1, <2>2 DEF StreamInv
  <2> QED BY <1>1, <1>7, <2>1, <2>2, <2>3, <2>4 DEF StreamInv
<1> QED BY <1>5, <1>6, <1>7 DEF IInv

(* The pump forwards a chunk. *)
LEMMA ReceiveKeeps ==
  ASSUME IInv, NEW c \in Clients, Receive(c)
  PROVE  IInv'
<1>1. /\ written' = written /\ ring' = ring /\ subscriber' = subscriber /\ drain' = drain
      /\ chunk' = chunk /\ sub' = sub /\ at' = at /\ dropped' = dropped /\ latest' = latest
      /\ updates[c] # <<>> /\ at[c] = "attached"
      /\ seen' = [seen EXCEPT ![c] = @ \o Head(updates[c])]
      /\ updates' = [updates EXCEPT ![c] = Tail(@)]
  BY DEF Receive, teeVars
<1>2. updates \in [Clients -> Seq(Seq(Nat))] /\ seen \in [Clients -> Seq(Nat)]
  BY DEF IInv, TeeInv
<1>3. StreamInv(c) /\ Stream(updates[c], seen[c], dropped[c]) BY DEF IInv, StreamInv
<1>4. /\ updates'[c] = Tail(updates[c]) /\ seen'[c] = seen[c] \o Head(updates[c])
      /\ \A d \in Clients \ {c} : updates'[d] = updates[d] /\ seen'[d] = seen[d]
  <2>1. updates'[c] = Tail(updates[c]) BY <1>1, <1>2
  <2>2. seen'[c] = seen[c] \o Head(updates[c]) BY <1>1, <1>2
  <2>3. ASSUME NEW d \in Clients \ {c} PROVE updates'[d] = updates[d] /\ seen'[d] = seen[d]
    BY <1>1, <1>2
  <2> QED BY <2>1, <2>2, <2>3
<1>5. Stream(updates'[c], seen'[c], dropped[c]) /\ End(updates'[c], seen'[c]) = End(updates[c], seen[c])
  <2>1. /\ Stream(Tail(updates[c]), seen[c] \o Head(updates[c]), dropped[c])
        /\ End(Tail(updates[c]), seen[c] \o Head(updates[c])) = End(updates[c], seen[c])
    BY <1>1, <1>3, StreamReceive
  <2> QED BY <2>1, <1>4
<1>6. TeeInv'
  <2>1. updates'[c] \in Seq(Seq(Nat)) /\ seen'[c] \in Seq(Nat) BY <1>5 DEF Stream
  <2>2. updates' \in [Clients -> Seq(Seq(Nat))] BY <1>1, <1>2, <1>4, <2>1
  <2>3. seen' \in [Clients -> Seq(Nat)] BY <1>1, <1>2, <1>4, <2>1
  <2>4. RingIsTail' BY <1>1 DEF IInv, TeeInv, RingIsTail
  <2> QED BY <1>1, <2>2, <2>3, <2>4 DEF IInv, TeeInv
<1>7. StreamInv(c)'
  <2>1. Stream(updates[c], seen[c], dropped[c])' /\ EndFor(c)' = EndFor(c)
    BY <1>1, <1>5 DEF EndFor
  <2>2. Pending(c)' <=> Pending(c) BY <1>1 DEF Pending
  <2> QED BY <1>1, <1>3, <2>1, <2>2 DEF StreamInv
<1>8. ASSUME NEW d \in Clients, d # c PROVE StreamInv(d)'
  <2>1. StreamInv(d) BY DEF IInv
  <2>2. updates'[d] = updates[d] /\ seen'[d] = seen[d] BY <1>4, <1>8
  <2>3. EndFor(d)' = EndFor(d) /\ (Pending(d)' <=> Pending(d)) BY <1>1, <2>2 DEF EndFor, Pending
  <2>4. Stream(updates[d], seen[d], dropped[d])' BY <1>1, <2>1, <2>2 DEF StreamInv
  <2> QED BY <1>1, <2>1, <2>2, <2>3, <2>4 DEF StreamInv
<1> QED BY <1>6, <1>7, <1>8 DEF IInv

(* A terminal leaves: only its own subscription ends. *)
LEMMA UnsubscribeKeeps ==
  ASSUME IInv, NEW c \in Clients, Unsubscribe(c)
  PROVE  IInv'
<1>1. /\ written' = written /\ ring' = ring /\ drain' = drain /\ chunk' = chunk /\ sub' = sub
      /\ updates' = updates /\ seen' = seen /\ dropped' = dropped /\ latest' = latest
      /\ at[c] = "attached" /\ at' = [at EXCEPT ![c] = "unsubscribed"]
      /\ subscriber' = IF subscriber = c THEN None ELSE subscriber
  BY DEF Unsubscribe
<1>2. at \in [Clients -> {"none", "attached", "unsubscribed", "closed"}] BY DEF IInv, TeeInv
<1>3. TeeInv'
  <2>1. at' \in [Clients -> {"none", "attached", "unsubscribed", "closed"}] BY <1>1, <1>2
  <2>2. RingIsTail' BY <1>1 DEF IInv, TeeInv, RingIsTail
  <2> QED BY <1>1, <2>1, <2>2 DEF IInv, TeeInv
<1>4. ASSUME NEW d \in Clients PROVE StreamInv(d)'
  <2>1. StreamInv(d) BY DEF IInv
  <2>2. EndFor(d)' = EndFor(d) /\ (Pending(d)' <=> Pending(d)) BY <1>1 DEF EndFor, Pending
  <2>3. Stream(updates[d], seen[d], dropped[d])' BY <1>1, <2>1 DEF StreamInv
  <2>4. subscriber' = d => subscriber = d /\ d # c BY <1>1, TeeAssumption
  <2>5. CASE d = c
    <3>1. at'[d] = "unsubscribed" BY <1>1, <1>2, <2>5
    <3> QED BY <1>1, <2>1, <2>2, <2>3, <2>4, <3>1 DEF StreamInv
  <2>6. CASE d # c
    <3>1. at'[d] = at[d] /\ (subscriber = d => subscriber' = d) BY <1>1, <1>2, <2>6
    <3> QED BY <1>1, <2>1, <2>2, <2>3, <2>4, <3>1 DEF StreamInv
  <2> QED BY <2>5, <2>6
<1> QED BY <1>3, <1>4 DEF IInv

(* A terminal closes its channel, and so is not attached before or after. *)
LEMMA CloseKeeps ==
  ASSUME IInv, NEW c \in Clients, CloseChannel(c)
  PROVE  IInv'
<1>1. /\ written' = written /\ ring' = ring /\ drain' = drain /\ chunk' = chunk /\ sub' = sub
      /\ updates' = updates /\ seen' = seen /\ dropped' = dropped /\ latest' = latest
      /\ subscriber' = subscriber
      /\ at[c] = "unsubscribed" /\ at' = [at EXCEPT ![c] = "closed"]
  BY DEF CloseChannel, teeVars
<1>2. at \in [Clients -> {"none", "attached", "unsubscribed", "closed"}] BY DEF IInv, TeeInv
<1>3. TeeInv'
  <2>1. at' \in [Clients -> {"none", "attached", "unsubscribed", "closed"}] BY <1>1, <1>2
  <2>2. RingIsTail' BY <1>1 DEF IInv, TeeInv, RingIsTail
  <2> QED BY <1>1, <2>1, <2>2 DEF IInv, TeeInv
<1>4. ASSUME NEW d \in Clients PROVE StreamInv(d)'
  <2>1. StreamInv(d) BY DEF IInv
  <2>2. EndFor(d)' = EndFor(d) /\ (Pending(d)' <=> Pending(d)) BY <1>1 DEF EndFor, Pending
  <2>3. Stream(updates[d], seen[d], dropped[d])' BY <1>1, <2>1 DEF StreamInv
  <2>4. (at'[d] = "none" => at[d] = "none") /\ (at'[d] = "attached" => at[d] = "attached")
    BY <1>1, <1>2
  <2> QED BY <1>1, <2>1, <2>2, <2>3, <2>4 DEF StreamInv
<1> QED BY <1>3, <1>4 DEF IInv

(* Only drain's place changes, and it is not sending; or nothing changes.  *)
LEMMA EndKeeps ==
  ASSUME IInv, EndOfOutput \/ UNCHANGED vars
  PROVE  IInv'
<1>1. /\ written' = written /\ ring' = ring /\ chunk' = chunk /\ sub' = sub /\ at' = at
      /\ updates' = updates /\ seen' = seen /\ dropped' = dropped /\ latest' = latest
      /\ subscriber' = subscriber /\ (drain' = "send" <=> drain = "send")
  BY DEF EndOfOutput, vars, teeVars
<1>2. TeeInv'
  <2>1. RingIsTail' BY <1>1 DEF IInv, TeeInv, RingIsTail
  <2> QED BY <1>1, <2>1 DEF IInv, TeeInv
<1>3. ASSUME NEW d \in Clients PROVE StreamInv(d)'
  <2>1. StreamInv(d) BY DEF IInv
  <2>2. EndFor(d)' = EndFor(d) /\ (Pending(d)' <=> Pending(d)) BY <1>1 DEF EndFor, Pending
  <2>3. Stream(updates[d], seen[d], dropped[d])' BY <1>1, <2>1 DEF StreamInv
  <2> QED BY <1>1, <2>1, <2>2, <2>3 DEF StreamInv
<1> QED BY <1>2, <1>3 DEF IInv

-----------------------------------------------------------------------------
(* IInv holds initially and every step keeps it. *)
LEMMA Inductive ==
  /\ Init => IInv
  /\ IInv /\ [Next]_vars => IInv'
<1>1. ASSUME Init PROVE IInv
  <2>1. 0 \in Nat /\ ringLimit \in Nat /\ ringLimit > 0 BY TeeAssumption
  <2>2. RingOf(0) = <<>>
    <3>1. Held(0) = 0 BY <2>1 DEF Held
    <3>2. RingOf(0) \in Seq(Nat) /\ Len(RingOf(0)) = 0 BY <3>1, RingFacts
    <3> QED BY <3>2, EmptySeq
  <2>3. RingIsTail BY <1>1, <2>2 DEF Init, RingIsTail, RingOf, Held
  <2>4. <<>> \in Seq(Nat) /\ <<>> \in Seq(Seq(Nat)) BY EmptySeq
  <2>5. TeeInv
    <3>1. /\ written \in Nat /\ subscriber \in Clients \cup {None} /\ drain # "send"
      BY <1>1 DEF Init
    <3>2. at \in [Clients -> {"none", "attached", "unsubscribed", "closed"}] BY <1>1 DEF Init
    <3>3. /\ updates \in [Clients -> Seq(Seq(Nat))] /\ seen \in [Clients -> Seq(Nat)]
          /\ dropped \in [Clients -> SUBSET Nat]
      BY <1>1, <2>4 DEF Init
    <3> QED BY <2>3, <3>1, <3>2, <3>3 DEF TeeInv
  <2>6. ASSUME NEW c \in Clients PROVE StreamInv(c)
    <3>1. updates[c] = <<>> /\ seen[c] = <<>> /\ dropped[c] = {} /\ at[c] = "none"
      BY <1>1 DEF Init
    <3>2. subscriber # c /\ ~Pending(c) BY <1>1, TeeAssumption DEF Init, Pending
    <3>3. Stream(<<>>, <<>>, {}) BY <2>1, <2>2, RingStream
    <3> QED BY <3>1, <3>2, <3>3 DEF StreamInv
  <2> QED BY <2>5, <2>6 DEF IInv
<1>2. ASSUME IInv, [Next]_vars PROVE IInv'
  <2>1. ASSUME NEW n \in 1..MaxChunk, Read(n) PROVE IInv' BY <1>2, <2>1, ReadKeeps
  <2>2. CASE Send BY <1>2, <2>2, SendKeeps
  <2>3. CASE EndOfOutput \/ UNCHANGED vars BY <1>2, <2>3, EndKeeps
  <2>4. ASSUME NEW c \in Clients, Attach(c) PROVE IInv' BY <1>2, <2>4, AttachKeeps
  <2>5. ASSUME NEW c \in Clients, Receive(c) PROVE IInv' BY <1>2, <2>5, ReceiveKeeps
  <2>6. ASSUME NEW c \in Clients, Unsubscribe(c) PROVE IInv' BY <1>2, <2>6, UnsubscribeKeeps
  <2>7. ASSUME NEW c \in Clients, CloseChannel(c) PROVE IInv' BY <1>2, <2>7, CloseKeeps
  <2> QED BY <1>2, <2>1, <2>2, <2>3, <2>4, <2>5, <2>6, <2>7 DEF Next
<1> QED BY <1>1, <1>2

(* A terminal that attaches is replayed exactly the last ringLimit bytes,  *)
(* for every size of the ring and of the chunks.                           *)
THEOREM ReplayIsTail == Safety => []RingIsTail
<1>1. IInv => RingIsTail BY DEF IInv, TeeInv
<1> QED BY <1>1, Inductive, PTL DEF Safety

(* Replay and stream together are the VM's output in order, without        *)
(* repetition, and with no gap but the bytes dropped for a slow terminal.  *)
THEOREM OutputIsInOrder == Safety => []SeesOutputInOrder
<1>1. IInv => SeesOutputInOrder
  BY DEF IInv, StreamInv, Stream, InOrder, SeesOutputInOrder
<1> QED BY <1>1, Inductive, PTL DEF Safety

(* The terminal attached last misses nothing that was not dropped for it,  *)
(* whoever else attaches before it or leaves after it.                     *)
THEOREM LatestIsServed == Safety => []LatestMissesNothing
<1>1. IInv => LatestMissesNothing
  <2> SUFFICES ASSUME IInv, NEW c \in Clients, at[c] = "attached", latest = c,
                      NEW x \in (LastSeen(c) + 1)..written
               PROVE  x \in InChannel(c) \cup dropped[c]
                              \cup (IF drain = "send" /\ sub = c THEN Range(chunk) ELSE {})
    BY DEF LatestMissesNothing
  <2>1. /\ StreamInv(c) /\ Stream(updates[c], seen[c], dropped[c]) /\ subscriber = c
        /\ written \in Nat
    BY DEF IInv, TeeInv, StreamInv
  <2>2. LastSeen(c) = Top(seen[c]) BY DEF LastSeen, Top
  <2>3. Top(seen[c]) \in Nat /\ EndFor(c) \in Nat BY <2>1, EndType DEF EndFor
  <2>4. x \in Int /\ Top(seen[c]) + 1 <= x /\ x <= written BY <2>1, <2>2, <2>3
  <2>5. CASE x <= EndFor(c)
    <3>1. x \in (Top(seen[c]) + 1)..End(updates[c], seen[c]) BY <2>3, <2>4, <2>5 DEF EndFor
    <3>2. Holds(updates[c], x) \/ x \in dropped[c] BY <2>1, <3>1 DEF Stream
    <3>3. ASSUME Holds(updates[c], x) PROVE x \in InChannel(c)
      <4>1. PICK i \in 1..Len(updates[c]) : x \in updates[c][i][1]..High(updates[c][i])
        BY <3>3 DEF Holds
      <4>2. Run(updates[c][i]) BY <2>1 DEF Stream
      <4>3. Range(updates[c][i]) = updates[c][i][1]..High(updates[c][i]) BY <4>2, RunSet
      <4>4. x \in Range(updates[c][i]) BY <4>1, <4>3
      <4> QED BY <4>1, <4>4 DEF InChannel
    <3> QED BY <3>2, <3>3
  <2>6. CASE ~(x <= EndFor(c)) /\ ~Pending(c)
    <3>1. x \in (EndFor(c) + 1)..written BY <2>1, <2>3, <2>4, <2>6
    <3>2. (EndFor(c) + 1)..written \subseteq dropped[c] BY <2>1, <2>6 DEF StreamInv
    <3> QED BY <3>1, <3>2
  <2>7. CASE ~(x <= EndFor(c)) /\ Pending(c)
    <3>1. Run(chunk) /\ High(chunk) = written BY <2>7 DEF IInv, TeeInv, Pending
    <3>2. chunk[1] \in Nat /\ Range(chunk) = chunk[1]..written BY <3>1, RunEnds, RunSet
    <3>3. (EndFor(c) + 1)..(chunk[1] - 1) \subseteq dropped[c]
      BY <2>1, <2>7 DEF StreamInv, Follows
    <3>4. CASE x < chunk[1]
      <4>1. x \in (EndFor(c) + 1)..(chunk[1] - 1) BY <2>3, <2>4, <2>7, <3>2, <3>4
      <4> QED BY <4>1, <3>3
    <3>5. CASE ~(x < chunk[1])
      <4>1. x \in chunk[1]..written BY <2>1, <2>4, <3>2, <3>5
      <4> QED BY <4>1, <3>2, <2>7 DEF Pending
    <3> QED BY <3>4, <3>5
  <2> QED BY <2>5, <2>6, <2>7
<1> QED BY <1>1, Inductive, PTL DEF Safety
=============================================================================
