---------------------------- MODULE StreamUsage -----------------------------
(***************************************************************************)
(* How the proxy learns the tokens of an answer while it copies the body   *)
(* to the client (proxy/internal/server/stream.go), as functions of the    *)
(* body and of the place where the copy broke off.                         *)
(*                                                                         *)
(* Tokens are a pair <<input, output>>.  A document is what it says of     *)
(* usage in its three places; for one that is empty, cut off, compressed   *)
(* or not JSON at all parseUsage returns what it does for one that says    *)
(* nothing.  A body is a sequence of lines (SSE), or a document that comes *)
(* in chunks of known size, the last with the end of the body.  It is      *)
(* `plain` or compressed: the client's Accept-Encoding is sent on, so the  *)
(* transport leaves a compressed body as it is.                            *)
(***************************************************************************)
EXTENDS Integers, Sequences

CONSTANT captureCap  \* the most of a JSON body that is kept (1 MiB)

ASSUME CaptureAssumption == captureCap \in Nat

Zero == <<0, 0>>

(* A document; most have usage in one place only. *)
Doc(top, message, delta) == [usage |-> top, message |-> message, delta |-> delta]
Garbage == Doc(Zero, Zero, Zero)

larger(a, b) == IF a > b THEN a ELSE b
max64(a, b, c) == larger(larger(larger(0, a), b), c)

parseUsage(doc) == [i \in 1..2 |-> max64(doc.usage[i], doc.message[i], doc.delta[i])]

(* Sums, as the comment on mergeUsage has it for output. *)
mergeUsageAdds(a, b) == <<larger(a[1], b[1]), a[2] + b[2]>>

mergeUsage(a, b) == [i \in 1..2 |-> IF b[i] > a[i] THEN b[i] ELSE a[i]]

(* streamSSE: lines are forwarded one by one, and those that begin with    *)
(* "data:" are parsed; after `read` lines the body ends, breaks off, or    *)
(* the client is gone.  A line that is not data is Garbage here.           *)
streamSSE(lines, read) ==
  LET usage[n \in 0..read] ==
        IF n = 0 THEN Zero ELSE mergeUsage(usage[n - 1], parseUsage(lines[n]))
  IN  usage[read]

(* The size of a body that comes in chunks. *)
Bytes(chunks) ==
  LET sum[n \in 0..Len(chunks)] == IF n = 0 THEN 0 ELSE sum[n - 1] + chunks[n]
  IN  sum[Len(chunks)]

(* limitedWriter.Write: n more bytes for a buffer with room for N.         *)
limitedWrite(buf, n) ==
  IF buf.N <= 0 THEN buf
  ELSE IF n > buf.N THEN [len |-> buf.len + buf.N, N |-> 0]
  ELSE [len |-> buf.len + n, N |-> buf.N - n]

(* streamJSON: the body is parsed when all of it was copied; what did not  *)
(* fit into the buffer is missing from what is parsed.                     *)
streamJSON(chunks, doc, read) ==
  LET buf[n \in 0..Len(chunks)] ==
        IF n = 0 THEN [len |-> 0, N |-> captureCap] ELSE limitedWrite(buf[n - 1], chunks[n])
  IN  IF read < Len(chunks) THEN Zero
      ELSE parseUsage(IF buf[read].len = Bytes(chunks) THEN doc ELSE Garbage)

BodyLen(body) == IF body.sse THEN Len(body.lines) ELSE Len(body.chunks)

(* What there is to parse in a document of the body. *)
AsRead(body, doc) == IF body.plain THEN doc ELSE Garbage

streamBody(body, read) ==
  IF body.sse
    THEN streamSSE([l \in 1..Len(body.lines) |-> AsRead(body, body.lines[l])], read)
    ELSE streamJSON(body.chunks, AsRead(body, body.doc), read)

estimateCostMicros(u) == u[1] * 3 + u[2] * 15

-----------------------------------------------------------------------------
(* What the upstream reports, whatever the proxy makes of it.  Its counts  *)
(* are taken to be running totals, for which the larger of two, as         *)
(* mergeUsage has it, is the later one; they are not the "incremental      *)
(* deltas" of its comment, which would have to be added up.                *)
Docs == [usage: Nat \X Nat, message: Nat \X Nat, delta: Nat \X Nat]

Place(doc, i) == {doc.usage[i], doc.message[i], doc.delta[i]} \ {0}

(* No document says less than one before it, nor two different things. *)
Totals(docs) ==
  /\ docs \in Seq(Docs)
  /\ \A i \in 1..2 : \A l, m \in 1..Len(docs) :
       l <= m => \A x \in Place(docs[l], i), y \in Place(docs[m], i) : x <= y

(* The last total among the first k documents. *)
LastSaid(docs, k) ==
  [i \in 1..2 |->
     LET says == {l \in 1..k : Place(docs[l], i) # {}}
     IN  IF says = {} THEN 0
         ELSE CHOOSE n \in Place(docs[CHOOSE l \in says : \A m \in says : m <= l], i) : TRUE]

(* The documents of a body, and how many are there once `read` of its      *)
(* parts were copied: a JSON document only when it is complete.            *)
Reports(body) == IF body.sse THEN body.lines ELSE <<body.doc>>
Arrived(body, read) ==
  IF body.sse THEN read ELSE IF read = Len(body.chunks) THEN 1 ELSE 0

RunningTotals(body) ==
  /\ Totals(Reports(body))
  /\ body.sse \/ body.chunks \in Seq(Nat)

Reported(body, read) == LastSaid(Reports(body), Arrived(body, read))

(* The bodies whose usage the proxy can find: not compressed and, if they  *)
(* are one document, no longer than the capture buffer.                    *)
Readable(body) == body.plain /\ (body.sse \/ Bytes(body.chunks) <= captureCap)
=============================================================================
