-------------------------- MODULE StreamUsageProofs --------------------------
(***************************************************************************)
(* What the proxy finds in a body, for every body whose counts are running *)
(* totals and wherever the copy breaks off: what the upstream had reported *)
(* if the body is readable, and nothing if it is not.                      *)
(*                                                                         *)
(* streamSSE and streamJSON are loops, modelled as recursive functions on  *)
(* the rounds.  Such a function exists and equals its right-hand side by   *)
(* induction over the rounds, and induction gives what the loop has after  *)
(* each: the largest total so far, which is the last one, and the bytes so *)
(* far, cut at the size of the buffer.                                     *)
(***************************************************************************)
EXTENDS StreamUsage, WellFoundedInduction, TLAPS

(* Zenon first, with more time than the default; leaves that need          *)
(* arithmetic are marked for SMT.                                          *)
USE ZenonT(20), SMTT(60)

(* Every set of numbers has a least one: the order on Nat is well founded. *)
LEMMA LeastNumber ==
  ASSUME NEW T, T \subseteq Nat, T # {}
  PROVE  \E x \in T : \A y \in T : ~(y < x)
<1>1. PICK x \in T : \A y \in T : ~(<<y, x>> \in OpToRel(<, Nat))
  BY NatLessThanWellFounded, WFMin
<1>2. \A y \in T : <<y, x>> \in OpToRel(<, Nat) <=> y < x
  BY DEF OpToRel
<1> QED BY <1>1, <1>2

(* A set of numbers that has a bound has a largest one.                    *)
LEMMA LargestNumber ==
  ASSUME NEW N \in Nat, NEW T, T \subseteq 1..N, T # {}
  PROVE  \E x \in T : \A y \in T : y <= x
<1> DEFINE B == {m \in Nat : \A y \in T : y <= m}
<1>1. N \in B
  OBVIOUS
<1>2. PICK x \in B : \A y \in B : ~(y < x)
  BY <1>1, LeastNumber
<1>3. ASSUME x \notin T PROVE FALSE
  <2>0. PICK y \in T : TRUE
    OBVIOUS
  <2>1. y \in Nat /\ y <= x /\ 1 <= y
    <3>1. y \in 1..N /\ y <= x
      BY <1>2, <2>0
    <3> QED BY <3>1
  <2>2. x - 1 \in Nat /\ x - 1 < x
    BY <1>2, <2>1
  <2>3. \A z \in T : z <= x - 1
    BY <1>2, <1>3
  <2>4. x - 1 \in B
    BY <2>2, <2>3
  <2> QED BY <1>2, <2>2, <2>4
<1> QED BY <1>2, <1>3

(* Induction over the numbers, for a set instead of a predicate. *)
LEMMA SetInduction ==
  ASSUME NEW S, 0 \in S, \A n \in Nat : n \in S => n + 1 \in S
  PROVE  Nat \subseteq S
<1> SUFFICES ASSUME Nat \ S # {} PROVE FALSE
  OBVIOUS
<1>1. PICK x \in Nat \ S : \A y \in Nat \ S : ~(y < x)
  BY LeastNumber
<1>2. x # 0 /\ x - 1 \in Nat /\ x - 1 < x /\ (x - 1) + 1 = x
  BY <1>1
<1> QED BY <1>1, <1>2

(* A loop over the parts of a body: f[n] is what it has after n rounds.    *)
LoopOf(f, V, z, step, m) ==
  /\ f \in [0..m -> V]
  /\ \A n \in 0..m : f[n] = IF n = 0 THEN z ELSE step[n][f[n - 1]]

RoundsIn(V, step, m) == \A n \in 1..m : \A v \in V : step[n][v] \in V

(* There is such a function when every round gives a value of V.           *)
LEMMA LoopExists ==
  ASSUME NEW V, NEW z \in V, NEW m \in Nat, NEW step, RoundsIn(V, step, m)
  PROVE  \E f : LoopOf(f, V, z, step, m)
<1> DEFINE Upto(f, k) == LoopOf(f, V, z, step, k)
           S == {k \in Nat : k <= m => \E f : Upto(f, k)}
<1>1. 0 \in S
  <2>1. Upto([n \in 0..0 |-> z], 0)
    BY DEF LoopOf
  <2> QED BY <2>1
<1>2. ASSUME NEW k \in Nat, k \in S PROVE k + 1 \in S
  <2>1. SUFFICES ASSUME k + 1 <= m PROVE \E f : Upto(f, k + 1)
    OBVIOUS
  <2>2. PICK f : Upto(f, k)
    BY <1>2, <2>1
  <2> DEFINE g == [n \in 0..(k + 1) |-> IF n = k + 1 THEN step[k + 1][f[k]] ELSE f[n]]
  <2>3. k \in 0..k /\ k + 1 \in 1..m /\ f[k] \in V
    BY <2>1, <2>2, SMTT(60) DEF LoopOf
  <2>4. step[k + 1][f[k]] \in V
    BY <2>3 DEF RoundsIn
  <2>5. /\ g \in [0..(k + 1) -> V]
        /\ \A n \in 0..k : g[n] = f[n]
        /\ g[k + 1] = step[k + 1][f[k]] /\ k + 1 # 0 /\ (k + 1) - 1 = k
    BY <2>2, <2>4 DEF LoopOf
  <2> HIDE DEF g
  <2>6. ASSUME NEW n \in 0..(k + 1) PROVE g[n] = IF n = 0 THEN z ELSE step[n][g[n - 1]]
    <3>1. CASE n = k + 1
      BY <2>3, <2>5, <3>1
    <3>2. CASE n # k + 1
      <4>1. n \in 0..k /\ (n # 0 => n - 1 \in 0..k)
        BY <3>2
      <4> QED BY <2>2, <2>5, <4>1 DEF LoopOf
    <3> QED BY <3>1, <3>2
  <2>7. Upto(g, k + 1)
    BY <2>5, <2>6 DEF LoopOf
  <2> QED BY <2>7
<1> HIDE DEF S
<1>3. Nat \subseteq S
  BY <1>1, <1>2, SetInduction
<1>4. \E f : Upto(f, m)
  <2> HIDE DEF Upto
  <2>1. m \in S /\ m <= m
    BY <1>3
  <2> QED BY <2>1 DEF S
<1> QED BY <1>4

(* Tokens are a pair of numbers.                                           *)
Pairs == [1..2 -> Nat]

(* What one document says: nothing, or one of the totals it holds.         *)
LEMMA DocumentSays ==
  ASSUME NEW doc \in Docs, NEW i \in 1..2
  PROVE  /\ parseUsage(doc) \in Pairs
         /\ Place(doc, i) # {} => parseUsage(doc)[i] \in Place(doc, i)
         /\ Place(doc, i) = {} => parseUsage(doc)[i] = 0
<1>1. \A j \in 1..2 : doc.usage[j] \in Nat /\ doc.message[j] \in Nat /\ doc.delta[j] \in Nat
  BY SMTT(60) DEF Docs
<1>2. \A a, b, c \in Nat : /\ max64(a, b, c) \in {a, b, c}
                          /\ a <= max64(a, b, c) /\ b <= max64(a, b, c) /\ c <= max64(a, b, c)
  BY DEF max64, larger
<1>3. parseUsage(doc) \in Pairs
  <2>1. \A j \in 1..2 : max64(doc.usage[j], doc.message[j], doc.delta[j]) \in Nat
    BY <1>1 DEF max64, larger
  <2> QED BY <2>1 DEF Pairs, parseUsage
<1>4. parseUsage(doc)[i] = max64(doc.usage[i], doc.message[i], doc.delta[i])
  BY DEF parseUsage
<1> DEFINE t == parseUsage(doc)[i]
<1>5. /\ t \in {doc.usage[i], doc.message[i], doc.delta[i]} /\ t \in Nat
      /\ doc.usage[i] <= t /\ doc.message[i] <= t /\ doc.delta[i] <= t
  BY <1>1, <1>2, <1>4, SMTT(60)
<1> HIDE DEF t
<1>6. Place(doc, i) # {} => t \in Place(doc, i)
  BY <1>1, <1>5, SMTT(60) DEF Place
<1>7. Place(doc, i) = {} => t = 0
  BY <1>5 DEF Place
<1> QED BY <1>3, <1>6, <1>7 DEF t

(* A body that cannot be parsed is as good as one that says nothing.       *)
LEMMA GarbageSaysNothing ==
  /\ Garbage \in Docs /\ \A i \in 1..2 : Place(Garbage, i) = {}
  /\ parseUsage(Garbage) = Zero
<1>1. Garbage.usage = <<0, 0>> /\ Garbage.message = <<0, 0>> /\ Garbage.delta = <<0, 0>>
  BY DEF Garbage, Doc, Zero
<1>2. Garbage \in Docs
  BY DEF Garbage, Doc, Zero, Docs
<1>3. \A i \in 1..2 : Place(Garbage, i) = {}
  BY <1>1 DEF Place
<1>4. parseUsage(Garbage) = Zero
  <2>1. max64(0, 0, 0) = 0
    BY DEF max64, larger
  <2>2. \A i \in 1..2 : <<0, 0>>[i] = 0
    OBVIOUS
  <2>3. parseUsage(Garbage) = [i \in 1..2 |-> 0]
    BY <1>1, <2>1, <2>2 DEF parseUsage
  <2> QED BY <2>3 DEF Zero
<1> QED BY <1>2, <1>3, <1>4

(* What streamSSE has after each line, as its loop leaves it.              *)
LEMMA StreamLoop ==
  ASSUME NEW lines \in Seq(Docs), NEW read \in 0..Len(lines)
  PROVE  \E f \in [0..read -> Pairs] :
           /\ \A n \in 0..read : f[n] = IF n = 0 THEN Zero ELSE mergeUsage(f[n - 1], parseUsage(lines[n]))
           /\ streamSSE(lines, read) = f[read]
<1> DEFINE step == [n \in 1..read |-> [v \in Pairs |-> mergeUsage(v, parseUsage(lines[n]))]]
           Loop(f) == f = [n \in 0..read |->
                             IF n = 0 THEN Zero ELSE mergeUsage(f[n - 1], parseUsage(lines[n]))]
<1>1. Zero \in Pairs /\ read \in Nat
  BY DEF Zero, Pairs
<1>2. \A n \in 1..read : lines[n] \in Docs /\ parseUsage(lines[n]) \in Pairs
  <2>1. \A n \in 1..read : lines[n] \in Docs
    OBVIOUS
  <2> QED BY <2>1, DocumentSays
<1>3. \A n \in 1..read : \A v \in Pairs : /\ step[n][v] = mergeUsage(v, parseUsage(lines[n]))
                                          /\ step[n][v] \in Pairs
  BY <1>2 DEF mergeUsage, Pairs
<1> HIDE DEF step
<1>4. PICK f : LoopOf(f, Pairs, Zero, step, read)
  <2>1. RoundsIn(Pairs, step, read)
    BY <1>3 DEF RoundsIn
  <2> QED BY <1>1, <2>1, LoopExists
<1>5. \A n \in 0..read : f[n] = IF n = 0 THEN Zero ELSE mergeUsage(f[n - 1], parseUsage(lines[n]))
  BY <1>1, <1>3, <1>4, SMTT(60) DEF LoopOf
<1>6. Loop(f)
  BY <1>4, <1>5 DEF LoopOf
<1> DEFINE F == CHOOSE g : Loop(g)
<1>7. Loop(F)
  BY <1>6
<1>8. streamSSE(lines, read) = F[read]
  BY DEF streamSSE
<1> HIDE DEF F
<1>9. \A n \in 0..read : F[n] = IF n = 0 THEN Zero ELSE mergeUsage(F[n - 1], parseUsage(lines[n]))
  BY <1>7
<1>10. F \in [0..read -> Pairs]
  <2> DEFINE S == {k \in Nat : k <= read => F[k] \in Pairs}
  <2>1. 0 \in S
    BY <1>1, <1>9
  <2>2. ASSUME NEW k \in Nat, k \in S PROVE k + 1 \in S
    <3> SUFFICES ASSUME k + 1 <= read PROVE F[k + 1] \in Pairs
      OBVIOUS
    <3>1. F[k] \in Pairs /\ F[k + 1] = mergeUsage(F[k], parseUsage(lines[k + 1]))
      BY <1>1, <1>9, <2>2
    <3>2. k + 1 \in 1..read
      BY <1>1
    <3> QED BY <1>2, <3>1, <3>2 DEF mergeUsage, Pairs
  <2> HIDE DEF S
  <2>3. Nat \subseteq S
    BY <2>1, <2>2, SetInduction
  <2>4. \A k \in 0..read : F[k] \in Pairs
    BY <2>3 DEF S
  <2>5. F = [n \in 0..read |-> F[n]]
    BY <1>7
  <2> QED BY <2>4, <2>5
<1> QED BY <1>8, <1>9, <1>10

(* The lines that say something of the tokens i, among the first k.        *)
Saying(lines, i, k) == {l \in 1..k : Place(lines[l], i) # {}}

(* t is the total of the last of them, or zero.                            *)
LastTotal(t, lines, i, k) ==
  \/ Saying(lines, i, k) = {} /\ t = 0
  \/ \E l \in Saying(lines, i, k) : t \in Place(lines[l], i) /\ \A m \in Saying(lines, i, k) : m <= l

(* When counts are running totals, the larger of two is the later one:     *)
(* mergeUsage keeps the last total there is.                               *)
LEMMA StreamKeepsLast ==
  ASSUME NEW lines, Totals(lines), NEW read \in 0..Len(lines), NEW i \in 1..2
  PROVE  LastTotal(streamSSE(lines, read)[i], lines, i, read)
<1>1. lines \in Seq(Docs) /\ Len(lines) \in Nat /\ read \in Nat
  BY DEF Totals
<1>2. \A l, m \in 1..Len(lines) : l <= m =>
        \A x \in Place(lines[l], i), y \in Place(lines[m], i) : x <= y
  BY DEF Totals
<1>3. PICK f \in [0..read -> Pairs] :
        /\ \A n \in 0..read : f[n] = IF n = 0 THEN Zero ELSE mergeUsage(f[n - 1], parseUsage(lines[n]))
        /\ streamSSE(lines, read) = f[read]
  BY <1>1, StreamLoop
<1> DEFINE S == {k \in Nat : k <= read => LastTotal(f[k][i], lines, i, k)}
<1>4. 0 \in S
  <2>1. f[0] = <<0, 0>>
    BY <1>1, <1>3, SMTT(60) DEF Zero
  <2>2. f[0][i] = 0
    BY <2>1
  <2>3. Saying(lines, i, 0) = {}
    BY DEF Saying
  <2> QED BY <2>2, <2>3 DEF LastTotal
<1>5. ASSUME NEW k \in Nat, k \in S PROVE k + 1 \in S
  <2> SUFFICES ASSUME k + 1 <= read PROVE LastTotal(f[k + 1][i], lines, i, k + 1)
    BY SMTT(60)
  <2> DEFINE t == f[k][i]
             p == parseUsage(lines[k + 1])[i]
             A == Saying(lines, i, k)
             B == Saying(lines, i, k + 1)
             says == Place(lines[k + 1], i) # {}
  <2>1. LastTotal(t, lines, i, k)
    BY <1>1, <1>5
  <2>2. k \in 0..read /\ k + 1 \in 0..read /\ k + 1 # 0 /\ (k + 1) - 1 = k /\ k + 1 \in 1..Len(lines)
    BY <1>1
  <2>3. lines[k + 1] \in Docs
    BY <1>1, <2>2, SMTT(60)
  <2>4. /\ parseUsage(lines[k + 1]) \in Pairs /\ p \in Nat
        /\ says => p \in Place(lines[k + 1], i)
        /\ ~says => p = 0
    <3>1. parseUsage(lines[k + 1]) \in Pairs
      BY <2>3, DocumentSays
    <3>2. p \in Nat
      BY <3>1 DEF Pairs
    <3> QED BY <2>3, <3>1, <3>2, DocumentSays
  <2>5. f[k + 1] = mergeUsage(f[k], parseUsage(lines[k + 1])) /\ f[k] \in Pairs
    BY <1>3, <2>2
  <2>6. f[k + 1][i] = (IF p > t THEN p ELSE t) /\ t \in Nat
    BY <2>5 DEF mergeUsage, Pairs
  <2>7. B = IF says THEN A \cup {k + 1} ELSE A
    <3>1. 1..(k + 1) = (1..k) \cup {k + 1} /\ k + 1 \notin 1..k
      OBVIOUS
    <3> QED BY <3>1 DEF Saying
  <2>8. A \subseteq 1..k
    BY DEF Saying
  <2> HIDE DEF t, p, A, B, says, S
  <2>9. LastTotal(f[k + 1][i], lines, i, k + 1) <=>
          \/ B = {} /\ f[k + 1][i] = 0
          \/ \E l \in B : f[k + 1][i] \in Place(lines[l], i) /\ \A m \in B : m <= l
    BY DEF LastTotal, B
  <2>10. \/ A = {} /\ t = 0
         \/ \E l \in A : t \in Place(lines[l], i) /\ \A m \in A : m <= l
    BY <2>1 DEF LastTotal, A
  <2>11. CASE says
    <3>1. p \in Place(lines[k + 1], i) /\ p # 0
      BY <2>4, <2>11 DEF Place, says
    <3>2. ASSUME NEW l \in A, t \in Place(lines[l], i) PROVE t <= p
      <4>1. l \in 1..Len(lines) /\ l <= k + 1
        BY <1>1, <2>2, <2>8
      <4> QED BY <1>2, <2>2, <3>1, <3>2, <4>1
    <3>3. t <= p
      BY <2>4, <2>10, <3>2, SMTT(60)
    <3>4. f[k + 1][i] = p
      BY <2>4, <2>6, <3>3
    <3>5. k + 1 \in B /\ \A m \in B : m <= k + 1
      BY <2>7, <2>8, <2>11
    <3> QED BY <2>9, <3>1, <3>4, <3>5
  <2>12. CASE ~says
    <3>1. f[k + 1][i] = t
      BY <2>4, <2>6, <2>12
    <3> QED BY <2>7, <2>9, <2>10, <2>12, <3>1
  <2> QED BY <2>11, <2>12
<1> HIDE DEF S
<1>6. Nat \subseteq S
  BY <1>4, <1>5, SetInduction
<1>7. LastTotal(f[read][i], lines, i, read)
  BY <1>1, <1>6 DEF S
<1> QED BY <1>3, <1>7

(* ... which is what the upstream has said by then.                        *)
LEMMA LastTotalIsSaid ==
  ASSUME NEW docs, Totals(docs), NEW k \in 0..Len(docs), NEW i \in 1..2, NEW t,
         LastTotal(t, docs, i, k)
  PROVE  t = LastSaid(docs, k)[i]
<1> DEFINE A == Saying(docs, i, k)
           last == CHOOSE l \in A : \A m \in A : m <= l
           said == CHOOSE n \in Place(docs[last], i) : TRUE
<1>1. LastSaid(docs, k)[i] = IF A = {} THEN 0 ELSE said
  BY DEF LastSaid, Saying
<1>2. docs \in Seq(Docs) /\ Len(docs) \in Nat /\ k \in Nat
  BY DEF Totals
<1>3. A \subseteq 1..Len(docs) /\ \A l \in A : l \in Nat
  BY <1>2 DEF Saying
<1>4. \A l \in 1..Len(docs) : \A x, y \in Place(docs[l], i) : x <= y
  <2>1. \A l \in 1..Len(docs) : l <= l
    BY <1>2
  <2> QED BY <2>1 DEF Totals
<1>5. \A l \in 1..Len(docs) : Place(docs[l], i) \subseteq Nat
  <2>1. ASSUME NEW l \in 1..Len(docs) PROVE Place(docs[l], i) \subseteq Nat
    <3>1. docs[l] \in Docs
      BY <1>2
    <3> QED BY <3>1, SMTT(60) DEF Docs, Place
  <2> QED BY <2>1
<1>6. (A = {} /\ t = 0) \/ \E l \in A : t \in Place(docs[l], i) /\ \A m \in A : m <= l
  BY DEF LastTotal
<1> HIDE DEF A, said
<1>7. CASE A = {}
  BY <1>1, <1>6, <1>7
<1>8. CASE A # {}
  <2>1. PICK l \in A : t \in Place(docs[l], i) /\ \A m \in A : m <= l
    BY <1>6, <1>8
  <2>2. last \in A /\ \A m \in A : m <= last
    BY <2>1
  <2> HIDE DEF last
  <2>3. last = l
    <3>1. last \in Nat /\ l \in Nat
      BY <1>3, <2>1, <2>2
    <3>2. last <= l /\ l <= last
      BY <2>1, <2>2
    <3> QED BY <3>1, <3>2
  <2>4. said \in Place(docs[l], i)
    BY <2>1, <2>3 DEF said
  <2>5. l \in 1..Len(docs)
    BY <1>3, <2>1
  <2>6. said <= t /\ t <= said /\ said \in Nat /\ t \in Nat
    BY <1>4, <1>5, <2>1, <2>4, <2>5
  <2>7. said = t
    BY <2>6
  <2> QED BY <1>1, <1>8, <2>7
<1> QED BY <1>7, <1>8

(* What a body reports is a pair of numbers.                               *)
LEMMA ReportedIsPair ==
  ASSUME NEW b, RunningTotals(b), NEW n \in 0..BodyLen(b)
  PROVE  Reported(b, n)[1] \in Nat /\ Reported(b, n)[2] \in Nat
<1> DEFINE docs == Reports(b)
           k == Arrived(b, n)
<1>1. docs \in Seq(Docs) /\ Len(docs) \in Nat
  BY DEF RunningTotals, Totals
<1>2. k \in 0..Len(docs)
  <2>1. CASE b.sse
    BY <2>1 DEF Reports, Arrived, BodyLen
  <2>2. CASE ~b.sse
    BY <2>2 DEF Reports, Arrived
  <2> QED BY <2>1, <2>2
<1> HIDE DEF docs, k
<1>3. ASSUME NEW i \in 1..2 PROVE LastSaid(docs, k)[i] \in Nat
  <2> DEFINE says == {l \in 1..k : Place(docs[l], i) # {}}
             last == CHOOSE l \in says : \A m \in says : m <= l
  <2>1. LastSaid(docs, k)[i] = IF says = {} THEN 0 ELSE CHOOSE x \in Place(docs[last], i) : TRUE
    BY DEF LastSaid
  <2>2. says \subseteq 1..Len(docs)
    BY <1>1, <1>2
  <2> HIDE DEF says
  <2>3. CASE says = {}
    BY <2>1, <2>3
  <2>4. CASE says # {}
    <3>1. PICK l \in says : \A m \in says : m <= l
      BY <1>1, <2>2, <2>4, LargestNumber
    <3>2. last \in says
      BY <3>1
    <3> HIDE DEF last
    <3>3. docs[last] \in Docs /\ Place(docs[last], i) # {}
      BY <1>1, <2>2, <3>2 DEF says
    <3>4. Place(docs[last], i) \subseteq Nat
      BY <3>3, SMTT(60) DEF Docs, Place
    <3> QED BY <2>1, <2>4, <3>3, <3>4
  <2> QED BY <2>3, <2>4
<1> QED BY <1>3 DEF Reported, docs, k

(* The buffer of streamJSON after each chunk, and the bytes that came.     *)
LEMMA CaptureLoop ==
  ASSUME NEW chunks \in Seq(Nat), NEW doc
  PROVE  \E f, g : /\ g \in [0..Len(chunks) -> Nat]
                   /\ \A n \in 0..Len(chunks) :
                        /\ f[n] = IF n = 0 THEN [len |-> 0, N |-> captureCap]
                                  ELSE limitedWrite(f[n - 1], chunks[n])
                        /\ g[n] = IF n = 0 THEN 0 ELSE g[n - 1] + chunks[n]
                   /\ Bytes(chunks) = g[Len(chunks)]
                   /\ streamJSON(chunks, doc, Len(chunks)) =
                        parseUsage(IF f[Len(chunks)].len = g[Len(chunks)] THEN doc ELSE Garbage)
                   /\ \A read \in 0..(Len(chunks) - 1) : streamJSON(chunks, doc, read) = Zero
<1> DEFINE k == Len(chunks)
           V == [len: Nat, N: Nat]
           write == [n \in 1..k |-> [v \in V |-> limitedWrite(v, chunks[n])]]
           add == [n \in 1..k |-> [v \in Nat |-> v + chunks[n]]]
           empty == [len |-> 0, N |-> captureCap]
           Buf(f) == f = [n \in 0..k |-> IF n = 0 THEN empty ELSE limitedWrite(f[n - 1], chunks[n])]
           Sum(g) == g = [n \in 0..k |-> IF n = 0 THEN 0 ELSE g[n - 1] + chunks[n]]
<1>1. k \in Nat /\ empty \in V /\ \A n \in 1..k : chunks[n] \in Nat
  BY CaptureAssumption
<1>2. \A n \in 1..k : \A v \in V : write[n][v] = limitedWrite(v, chunks[n]) /\ write[n][v] \in V
  <2>1. ASSUME NEW v \in V, NEW c \in Nat PROVE limitedWrite(v, c) \in V
    <3>1. v.len \in Nat /\ v.N \in Nat
      OBVIOUS
    <3>2. CASE v.N <= 0
      BY <3>2 DEF limitedWrite
    <3>3. CASE ~(v.N <= 0) /\ c > v.N
      BY <3>1, <3>3, SMTT(60) DEF limitedWrite
    <3>4. CASE ~(v.N <= 0) /\ ~(c > v.N)
      <4>1. v.len + c \in Nat /\ v.N - c \in Nat
        BY <3>1, <3>4
      <4> QED BY <3>4, <4>1 DEF limitedWrite
    <3> QED BY <3>2, <3>3, <3>4
  <2> QED BY <1>1, <2>1
<1>3. \A n \in 1..k : \A v \in Nat : add[n][v] = v + chunks[n] /\ add[n][v] \in Nat
  BY <1>1, SMTT(60)
<1> HIDE DEF write, add, V, empty, k
<1>4. PICK f : LoopOf(f, V, empty, write, k)
  <2>1. RoundsIn(V, write, k)
    BY <1>2 DEF RoundsIn
  <2> QED BY <1>1, <2>1, LoopExists
<1>5. PICK g : LoopOf(g, Nat, 0, add, k)
  <2>1. RoundsIn(Nat, add, k) /\ 0 \in Nat
    BY <1>3 DEF RoundsIn
  <2> QED BY <1>1, <2>1, LoopExists
<1>6. Buf(f)
  <2>1. ASSUME NEW n \in 0..k
        PROVE  f[n] = IF n = 0 THEN empty ELSE limitedWrite(f[n - 1], chunks[n])
    <3>1. f[n] = IF n = 0 THEN empty ELSE write[n][f[n - 1]]
      BY <1>4 DEF LoopOf
    <3>2. CASE n = 0
      BY <3>1, <3>2
    <3>3. CASE n # 0
      <4>1. n \in 1..k /\ n - 1 \in 0..k
        BY <1>1, <3>3
      <4>2. f[n - 1] \in V
        BY <1>4, <4>1 DEF LoopOf
      <4>3. write[n][f[n - 1]] = limitedWrite(f[n - 1], chunks[n])
        BY <1>2, <4>1, <4>2
      <4> QED BY <3>1, <3>3, <4>3
    <3> QED BY <3>2, <3>3
  <2> QED BY <1>4, <2>1 DEF LoopOf
<1>7. Sum(g)
  <2>1. ASSUME NEW n \in 0..k PROVE g[n] = IF n = 0 THEN 0 ELSE g[n - 1] + chunks[n]
    <3>1. g[n] = IF n = 0 THEN 0 ELSE add[n][g[n - 1]]
      BY <1>5 DEF LoopOf
    <3>2. CASE n = 0
      BY <3>1, <3>2
    <3>3. CASE n # 0
      <4>1. n \in 1..k /\ n - 1 \in 0..k
        BY <1>1, <3>3
      <4>2. g[n - 1] \in Nat
        BY <1>5, <4>1 DEF LoopOf
      <4>3. add[n][g[n - 1]] = g[n - 1] + chunks[n]
        BY <1>3, <4>1, <4>2
      <4> QED BY <3>1, <3>3, <4>3
    <3> QED BY <3>2, <3>3
  <2> QED BY <1>5, <2>1 DEF LoopOf
<1> DEFINE F == CHOOSE x : Buf(x)
           G == CHOOSE x : Sum(x)
<1>8. Buf(F)
  BY <1>6
<1>9. Sum(G)
  BY <1>7
<1>10. Bytes(chunks) = G[k]
  BY DEF Bytes, k
<1>11. streamJSON(chunks, doc, k) = parseUsage(IF F[k].len = Bytes(chunks) THEN doc ELSE Garbage)
  <2>1. ~(k < k)
    BY <1>1
  <2> QED BY <2>1 DEF streamJSON, k, empty
<1>12. \A read \in 0..(k - 1) : streamJSON(chunks, doc, read) = Zero
  <2>1. \A read \in 0..(k - 1) : read < k
    BY <1>1
  <2> QED BY <2>1 DEF streamJSON, k
<1> HIDE DEF F, G
<1>13. \A n \in 0..k : /\ F[n] = IF n = 0 THEN empty ELSE limitedWrite(F[n - 1], chunks[n])
                       /\ G[n] = IF n = 0 THEN 0 ELSE G[n - 1] + chunks[n]
  BY <1>8, <1>9
<1>14. G \in [0..k -> Nat]
  <2> DEFINE S == {n \in Nat : n <= k => G[n] \in Nat}
  <2>1. 0 \in S
    BY <1>1, <1>13, SMTT(60)
  <2>2. ASSUME NEW n \in Nat, n \in S PROVE n + 1 \in S
    <3> SUFFICES ASSUME n + 1 <= k PROVE G[n + 1] \in Nat
      OBVIOUS
    <3>1. G[n] \in Nat /\ n + 1 \in 1..k /\ n + 1 \in 0..k /\ n + 1 # 0 /\ (n + 1) - 1 = n
      BY <1>1, <2>2
    <3> QED BY <1>1, <1>13, <3>1, SMTT(60)
  <2> HIDE DEF S
  <2>3. Nat \subseteq S
    BY <2>1, <2>2, SetInduction
  <2>4. \A n \in 0..k : G[n] \in Nat
    BY <1>1, <2>3, SMTT(60) DEF S
  <2>5. G = [n \in 0..k |-> G[n]]
    BY <1>9
  <2> QED BY <2>4, <2>5
<1> QED BY <1>10, <1>11, <1>12, <1>13, <1>14, SMTT(60) DEF k, empty

(* The buffer has all that came, up to its capacity: streamJSON parses the *)
(* document exactly when it fits.                                          *)
LEMMA CapturedWhenItFits ==
  ASSUME NEW chunks \in Seq(Nat), NEW doc, NEW read \in 0..Len(chunks)
  PROVE  streamJSON(chunks, doc, read) =
           IF read = Len(chunks) /\ Bytes(chunks) <= captureCap THEN parseUsage(doc) ELSE Zero
<1> DEFINE k == Len(chunks)
<1>1. k \in Nat
  OBVIOUS
<1>2. PICK f, g : /\ g \in [0..k -> Nat]
                  /\ \A n \in 0..k : /\ f[n] = IF n = 0 THEN [len |-> 0, N |-> captureCap]
                                               ELSE limitedWrite(f[n - 1], chunks[n])
                                     /\ g[n] = IF n = 0 THEN 0 ELSE g[n - 1] + chunks[n]
                  /\ Bytes(chunks) = g[k]
                  /\ streamJSON(chunks, doc, k) =
                       parseUsage(IF f[k].len = g[k] THEN doc ELSE Garbage)
                  /\ \A m \in 0..(k - 1) : streamJSON(chunks, doc, m) = Zero
  BY <1>1, CaptureLoop
<1> HIDE DEF k
<1> DEFINE Full(n) == [len |-> IF g[n] <= captureCap THEN g[n] ELSE captureCap,
                       N |-> IF g[n] <= captureCap THEN captureCap - g[n] ELSE 0]
           S == {n \in Nat : n <= k => f[n] = Full(n)}
<1>4. 0 \in S
  <2>0. 0 \in 0..k
    BY <1>1
  <2>1. f[0] = [len |-> 0, N |-> captureCap] /\ g[0] = 0
    BY <1>2, <2>0
  <2> QED BY <2>1, CaptureAssumption
<1>5. ASSUME NEW n \in Nat, n \in S PROVE n + 1 \in S
  <2> SUFFICES ASSUME n + 1 <= k PROVE f[n + 1] = Full(n + 1)
    OBVIOUS
  <2>1. n \in 0..k /\ n + 1 \in 0..k /\ n + 1 \in 1..k /\ n + 1 # 0 /\ (n + 1) - 1 = n
    BY <1>1
  <2>2. PICK c \in Nat : c = chunks[n + 1]
    BY <1>1, <2>1 DEF k
  <2>3. f[n + 1] = limitedWrite(f[n], c) /\ g[n + 1] = g[n] + c
    BY <1>2, <2>1, <2>2
  <2>4. f[n] = Full(n) /\ g[n] \in Nat /\ g[n + 1] \in Nat /\ captureCap \in Nat
    BY <1>2, <1>5, <2>1, CaptureAssumption, SMTT(60)
  <2>5. CASE g[n] >= captureCap
    <3>1. f[n].N = 0 /\ f[n] = [len |-> captureCap, N |-> 0]
      BY <2>4, <2>5
    <3>2. f[n + 1] = [len |-> captureCap, N |-> 0]
      BY <2>3, <3>1 DEF limitedWrite
    <3>3. /\ g[n + 1] = captureCap \/ ~(g[n + 1] <= captureCap)
          /\ captureCap - captureCap = 0
      BY <2>2, <2>3, <2>4, <2>5
    <3>4. CASE g[n + 1] = captureCap
      BY <2>4, <3>2, <3>3, <3>4
    <3>5. CASE ~(g[n + 1] <= captureCap)
      BY <3>2, <3>5
    <3> QED BY <3>3, <3>4, <3>5
  <2>6. CASE g[n] < captureCap /\ g[n] + c > captureCap
    <3>1. f[n].N = captureCap - g[n] /\ f[n].len = g[n] /\ ~(f[n].N <= 0) /\ c > f[n].N
      BY <2>4, <2>6
    <3>2. f[n + 1] = [len |-> f[n].len + f[n].N, N |-> 0]
      BY <2>3, <3>1 DEF limitedWrite
    <3>3. f[n].len + f[n].N = captureCap
      BY <2>4, <3>1
    <3> QED BY <2>3, <2>4, <2>6, <3>2, <3>3
  <2>7. CASE g[n] < captureCap /\ ~(g[n] + c > captureCap)
    <3>1. f[n].N = captureCap - g[n] /\ f[n].len = g[n] /\ ~(f[n].N <= 0) /\ ~(c > f[n].N)
      BY <2>4, <2>7
    <3>2. f[n + 1] = [len |-> f[n].len + c, N |-> f[n].N - c]
      BY <2>3, <3>1 DEF limitedWrite
    <3>3. f[n].len + c = g[n + 1] /\ f[n].N - c = captureCap - g[n + 1] /\ g[n + 1] <= captureCap
      BY <2>3, <2>4, <2>7, <3>1
    <3> QED BY <3>2, <3>3
  <2> QED BY <2>4, <2>5, <2>6, <2>7
<1> HIDE DEF S
<1>6. Nat \subseteq S
  BY <1>4, <1>5, SetInduction
<1>7. f[k] = Full(k)
  <2>1. k \in S /\ k <= k
    BY <1>1, <1>6
  <2> QED BY <2>1 DEF S
<1>8. g[k] \in Nat /\ captureCap \in Nat
  BY <1>1, <1>2, CaptureAssumption, SMTT(60)
<1>9. f[k].len = g[k] <=> g[k] <= captureCap
  BY <1>7, <1>8
<1>10. parseUsage(Garbage) = Zero
  BY GarbageSaysNothing
<1>11. CASE read = k
  BY <1>2, <1>9, <1>10, <1>11 DEF k
<1>12. CASE read # k
  <2>1. read \in 0..(k - 1)
    BY <1>1, <1>12 DEF k
  <2> QED BY <1>2, <1>12, <2>1 DEF k
<1> QED BY <1>11, <1>12

(* What the proxy makes of a body's usage, wherever the copy ended, is     *)
(* what the upstream had reported by then if the body is neither           *)
(* compressed nor too long for the capture buffer, and nothing if it is.   *)
THEOREM BodyIsReported ==
  ASSUME NEW b, RunningTotals(b), NEW n \in 0..BodyLen(b), NEW i \in 1..2
  PROVE  streamBody(b, n)[i] = IF Readable(b) THEN Reported(b, n)[i] ELSE 0
<1>z. Zero[i] = 0
  BY DEF Zero
<1>2. CASE b.sse
  <2> DEFINE read == [l \in 1..Len(b.lines) |-> AsRead(b, b.lines[l])]
  <2>1. /\ n \in 0..Len(b.lines) /\ streamBody(b, n) = streamSSE(read, n)
        /\ Totals(b.lines) /\ Reported(b, n) = LastSaid(b.lines, n)
    BY <1>2 DEF BodyLen, streamBody, RunningTotals, Reports, Reported, Arrived
  <2>2. b.lines \in Seq(Docs)
    BY <2>1 DEF Totals
  <2>3. CASE b.plain
    <3>1. read = b.lines /\ Readable(b)
      BY <1>2, <2>2, <2>3 DEF AsRead, Readable
    <3> QED BY <2>1, <3>1, StreamKeepsLast, LastTotalIsSaid
  <2>4. CASE ~b.plain
    <3>1. read \in Seq(Docs) /\ Len(read) = Len(b.lines) /\ \A l \in 1..Len(read) : read[l] = Garbage
      BY <2>2, <2>4, GarbageSaysNothing DEF AsRead
    <3> HIDE DEF read
    <3>2. \A l \in 1..Len(read), j \in 1..2 : Place(read[l], j) = {}
      BY <3>1, GarbageSaysNothing
    <3>3. Totals(read)
      BY <3>1, <3>2 DEF Totals
    <3>4. LastTotal(streamSSE(read, n)[i], read, i, n)
      BY <2>1, <3>1, <3>3, StreamKeepsLast
    <3>5. Saying(read, i, n) = {}
      <4>1. \A l \in 1..n : l \in 1..Len(read)
        BY <2>1, <2>2, <3>1
      <4> QED BY <3>2, <4>1 DEF Saying
    <3>6. ~Readable(b)
      BY <2>4 DEF Readable
    <3> QED BY <2>1, <3>4, <3>5, <3>6 DEF LastTotal
  <2> QED BY <2>3, <2>4
<1>3. CASE ~b.sse
  <2> DEFINE k == Len(b.chunks)
  <2>1. /\ n \in 0..k /\ b.chunks \in Seq(Nat)
        /\ streamBody(b, n) = streamJSON(b.chunks, AsRead(b, b.doc), n)
        /\ Totals(<<b.doc>>) /\ Reported(b, n) = LastSaid(<<b.doc>>, IF n = k THEN 1 ELSE 0)
    BY <1>3 DEF BodyLen, streamBody, RunningTotals, Reports, Reported, Arrived
  <2>2. streamBody(b, n) = IF n = k /\ Bytes(b.chunks) <= captureCap THEN parseUsage(AsRead(b, b.doc)) ELSE Zero
    BY <2>1, CapturedWhenItFits
  <2> HIDE DEF k
  <2>3. b.doc \in Docs /\ Len(<<b.doc>>) = 1 /\ <<b.doc>>[1] = b.doc
    BY <2>1 DEF Totals
  <2>4. CASE b.plain /\ Bytes(b.chunks) <= captureCap
    <3>1. Readable(b) /\ AsRead(b, b.doc) = b.doc
      BY <2>4 DEF Readable, AsRead
    <3>2. CASE n = k
      <4>1. Saying(<<b.doc>>, i, 1) = IF Place(b.doc, i) = {} THEN {} ELSE {1}
        BY <2>3 DEF Saying
      <4>2. LastTotal(parseUsage(b.doc)[i], <<b.doc>>, i, 1)
        <5>1. CASE Place(b.doc, i) = {}
          BY <2>3, <4>1, <5>1, DocumentSays DEF LastTotal
        <5>2. CASE Place(b.doc, i) # {}
          <6>1. parseUsage(b.doc)[i] \in Place(<<b.doc>>[1], i) /\ \A m \in {1} : m <= 1
            BY <2>3, <5>2, DocumentSays
          <6> QED BY <4>1, <5>2, <6>1 DEF LastTotal
        <5> QED BY <5>1, <5>2
      <4>3. 1 \in 0..Len(<<b.doc>>)
        BY <2>3
      <4> QED BY <2>1, <2>2, <2>4, <3>1, <3>2, <4>2, <4>3, LastTotalIsSaid
    <3>3. CASE n # k
      <4>1. Saying(<<b.doc>>, i, 0) = {} /\ 0 \in 0..Len(<<b.doc>>)
        BY <2>3 DEF Saying
      <4>2. LastTotal(0, <<b.doc>>, i, 0)
        BY <4>1 DEF LastTotal
      <4> QED BY <1>z, <2>1, <2>2, <3>1, <3>3, <4>1, <4>2, LastTotalIsSaid
    <3> QED BY <3>2, <3>3
  <2>5. CASE ~(b.plain /\ Bytes(b.chunks) <= captureCap)
    <3>1. ~Readable(b)
      BY <1>3, <2>5 DEF Readable
    <3>2. streamBody(b, n) = Zero
      BY <2>2, <2>5, GarbageSaysNothing DEF AsRead
    <3> QED BY <1>z, <3>1, <3>2
  <2> QED BY <2>4, <2>5
<1> QED BY <1>2, <1>3
=============================================================================
