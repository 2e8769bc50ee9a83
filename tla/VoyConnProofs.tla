---------------------------- MODULE VoyConnProofs ----------------------------
(***************************************************************************)
(* Proofs about VoyConn for any streams of symbols, cut into any segments, *)
(* and buffers of any size: what an answer needs, that a GET is answered   *)
(* from its first segment, what crashes a worker, and what a body is.      *)
(***************************************************************************)
EXTENDS VoyConn, TLAPS, SequenceTheorems, WellFoundedInduction

\* The flags of a request that the parsers have been called on, in their order.
\* The headers of a GET are its end, and a body the end of any other.
Flags(r) ==
  /\ {r.line, r.hdrs, r.bodyRead, r.done} \subseteq BOOLEAN
  /\ ~r.line => r.method = "none" /\ ~r.hdrs /\ ~r.done
  /\ r.done => r.hdrs /\ r.bodyRead
  /\ r.method = "GET" /\ r.hdrs => r.done
  /\ ~r.done => r.body = NoBody

\* The fields of a voy_request_t, for the provers.
IsRequest(r) ==
  r = [line |-> r.line, hdrs |-> r.hdrs, bodyRead |-> r.bodyRead, done |-> r.done,
       method |-> r.method, lines |-> r.lines, body |-> r.body]

\* Where the segments are in the stream.
StreamInv ==
  /\ sent \in Streams /\ Len(sent) \in Nat
  /\ cuts \in Seq(0 .. Len(sent)) /\ Len(cuts) <= MaxBuffers
  /\ pos \in Nat /\ end \in Nat /\ pos <= end /\ end <= Len(sent)
  /\ eof \in BOOLEAN /\ open \in BOOLEAN

\* The request line and the headers are those of the first segment, which reads
\* both unless the worker fails in it.
FirstInv ==
  /\ pc \in {"loop", "respond"} /\ ~req.line => cuts = <<>>
  /\ pc = "loop" /\ req.line => req.hdrs
  /\ req.line => cuts # <<>> /\ req.method = Method(Buffer(1))
  /\ req.hdrs => req.lines = HeaderLines(Buffer(1))
  /\ GetReadsOnce

\* A request that is no GET is done by the last segment, with the body in it.
BodyInv ==
  /\ req.done /\ req.method # "GET" =>
       BlankLines(Buffer(Len(cuts))) # {} /\ Len(req.body) - 1 \in Declared(req.lines)
  /\ BodyFromStream

\* The parts of a response.
Parts == {Reply(p)[i] : p \in {"send200", "send404"}, i \in 1 .. 3}

\* Nothing is sent in the loop. Later an open connection means that the loop ended
\* with a request.
WireInv ==
  /\ pc \in {"loop", "respond", "send200", "send404", "done", "crashed", "killed"}
  /\ pc \in {"loop", "respond"} => wire = <<>>
  /\ pc \notin {"loop", "done", "crashed", "killed"} /\ open => req.done
  /\ wire # <<>> => req.done
  /\ wire \in Seq(Parts) /\ Len(wire) <= 3

\* The inductive invariant.
Inv ==
  /\ IsRequest(req) /\ Flags(req)
  /\ StreamInv /\ FirstInv /\ BodyInv /\ WireInv
  /\ CrashNeedsMisfit

-------------------------------------------------------------------------------
\* A set of naturals that is not empty has a least element, since the order is
\* well founded.
LEMMA Least ==
  ASSUME NEW T \in SUBSET Nat, T # {}
  PROVE  \E x \in T : \A y \in T : x <= y
<1> DEFINE R == OpToRel(<, Nat)
<1>1. \E x \in T : \A y \in T : <<y, x>> \notin R
  <2>1. IsWellFoundedOn(R, Nat)
    BY NatLessThanWellFounded
  <2> HIDE DEF R
  <2> QED  BY <2>1, WFMin
<1>2. \A x, y \in Nat : y < x => <<y, x>> \in R
  BY DEF OpToRel
<1> HIDE DEF R
<1>3. \A x, y \in T : x \in Nat /\ y \in Nat
  OBVIOUS
<1>4. \A x, y \in Nat : <<y, x>> \notin R => x <= y
  BY <1>2
<1> QED BY <1>1, <1>3, <1>4, Zenon

LEMMA MinIs ==
  ASSUME NEW T \in SUBSET Nat, T # {}
  PROVE  Min(T) \in T /\ \A y \in T : Min(T) <= y
BY Least DEF Min

-------------------------------------------------------------------------------
\* The parsers, as functions of the request.
LEMMA StartLine ==
  ASSUME NEW r, IsRequest(r), Flags(r), ~r.line, NEW buf
  PROVE  LET new == ParseStartLine(r, buf)
         IN  /\ IsRequest(new) /\ new.line = TRUE /\ new.hdrs = FALSE /\ new.done = FALSE
             /\ new.bodyRead \in BOOLEAN /\ new.method = Method(buf) /\ new.body = NoBody
<1> DEFINE m == Method(buf)
           isGet == m = "GET"
           new == ParseStartLine(r, buf)
<1>1. new = [r EXCEPT !.line = TRUE, !.method = m, !.bodyRead = isGet]
  BY Zenon DEF ParseStartLine
<1>2. isGet \in BOOLEAN
  BY Zenon
<1>3. r.hdrs = FALSE /\ r.done = FALSE /\ r.body = NoBody
  BY Zenon DEF Flags
<1> HIDE DEF m, isGet, new
<1>4. /\ new.line = TRUE /\ new.hdrs = r.hdrs /\ new.done = r.done
      /\ new.bodyRead = isGet /\ new.method = m /\ new.body = r.body
      /\ IsRequest(new)
  BY <1>1 DEF IsRequest
<1> QED
  BY <1>2, <1>3, <1>4, Zenon DEF new, m

LEMMA Headers ==
  ASSUME NEW r, IsRequest(r), r.line = TRUE, r.bodyRead \in BOOLEAN, r.body = NoBody, NEW buf
  PROVE  LET new == ParseHeaders(r, buf)
         IN  /\ IsRequest(new) /\ Flags(new) /\ new.line = TRUE /\ new.hdrs = TRUE
             /\ new.method = r.method /\ new.lines = HeaderLines(buf) /\ new.body = NoBody
             /\ new.done => new.method = "GET"
<1> DEFINE new == ParseHeaders(r, buf)
           bodyRead == r.bodyRead \/ r.method = "GET"
           done == r.method = "GET"
           lines == HeaderLines(buf)
<1>1. new = [r EXCEPT !.hdrs = TRUE, !.lines = lines, !.bodyRead = bodyRead, !.done = done]
  BY Zenon DEF ParseHeaders
<1>2. bodyRead \in BOOLEAN /\ done \in BOOLEAN /\ (done => bodyRead) /\ (r.method = "GET" <=> done)
  BY Zenon
<1> HIDE DEF bodyRead, done, lines, new
<1>3. /\ new.line = r.line /\ new.hdrs = TRUE /\ new.bodyRead = bodyRead /\ new.done = done
      /\ new.method = r.method /\ new.lines = lines /\ new.body = r.body /\ IsRequest(new)
  BY <1>1 DEF IsRequest
<1>4. Flags(new)
  BY <1>2, <1>3, Zenon DEF Flags
<1> QED
  BY <1>2, <1>3, <1>4, Zenon DEF new, lines

\* A body that is read is the end of the request.
LEMMA Body ==
  ASSUME NEW r, IsRequest(r), Flags(r), r.line, r.hdrs, NEW buf, NEW new \in ParseBody(r, buf)
  PROVE  \/ new = r
         \/ /\ IsRequest(new) /\ Flags(new) /\ new.line /\ new.hdrs /\ new.done /\ ~r.done
            /\ new.method = r.method /\ new.lines = r.lines
            /\ BlankLines(buf) # {}
            /\ \E n \in Nat : n \in Declared(r.lines) /\ new.body = Copy(buf, BodyStart(buf), n)
<1> SUFFICES ASSUME new # r
             PROVE  /\ IsRequest(new) /\ Flags(new) /\ new.line /\ new.hdrs /\ new.done /\ ~r.done
                    /\ new.method = r.method /\ new.lines = r.lines
                    /\ BlankLines(buf) # {}
                    /\ \E n \in Nat : n \in Declared(r.lines) /\ new.body = Copy(buf, BodyStart(buf), n)
  OBVIOUS
<1> DEFINE N == IF LooksForBody(r, buf) THEN Declared(r.lines) \cap Nat ELSE {}
           C(n) == Copy(buf, BodyStart(buf), n)
<1>1. PICK n \in N : new = [r EXCEPT !.bodyRead = TRUE, !.done = TRUE, !.body = C(n)]
  BY Zenon DEF ParseBody
<1>2. LooksForBody(r, buf) /\ n \in Declared(r.lines) /\ n \in Nat
  BY <1>1
<1>3. BlankLines(buf) # {} /\ ~r.done
  BY <1>2, Zenon DEF LooksForBody
<1> DEFINE c == C(n)
<1>4. new = [r EXCEPT !.bodyRead = TRUE, !.done = TRUE, !.body = c]
  BY <1>1, Zenon
<1> HIDE DEF c, N
<1>5. /\ new.line = r.line /\ new.hdrs = r.hdrs /\ new.bodyRead = TRUE /\ new.done = TRUE
      /\ new.method = r.method /\ new.lines = r.lines /\ new.body = c /\ IsRequest(new)
  BY <1>4 DEF IsRequest
<1>6. Flags(new)
  BY <1>5, Zenon DEF Flags
<1> QED
  BY <1>2, <1>3, <1>5, <1>6, Zenon DEF c

-------------------------------------------------------------------------------
\* A recv() goes on from where the last one ended.
LEMMA EndsAhead ==
  ASSUME StreamInv, NEW j \in Ends
  PROVE  j \in Nat /\ pos <= j /\ j <= end /\ (pos = j => eof)
<1>1. pos \in Nat /\ end \in Nat /\ RecvLen \in Nat \ {0} /\ pos <= end
  BY BuffersAssumption DEF StreamInv
<1>2. CASE pos < end
  <2> DEFINE T == {end, pos + RecvLen}
  <2>1. j \in pos + 1 .. Min(T)
    BY <1>2 DEF Ends
  <2>2. T \in SUBSET Nat /\ T # {} /\ end \in T
    BY <1>1
  <2> HIDE DEF T
  <2>3. Min(T) \in Nat /\ Min(T) <= end
    BY <2>2, MinIs
  <2> QED  BY <1>1, <2>1, <2>3
<1>3. CASE ~(pos < end)
  BY <1>1, <1>3 DEF Ends
<1> QED  BY <1>2, <1>3

\* One more segment, from pos up to j, leaves the buffers there are.
LEMMA Grown ==
  ASSUME StreamInv, NEW j \in Nat, j <= end, sent' = sent, cuts' = Append(cuts, j)
  PROVE  /\ pos' = j /\ cuts' # <<>> /\ Len(cuts') = Len(cuts) + 1
         /\ cuts' \in Seq(0 .. Len(sent'))
         /\ Buffer(Len(cuts))' = Filled(pos, j)
         /\ cuts = <<>> => Buffer(1)' = Filled(pos, j)
         /\ cuts # <<>> => Buffer(1)' = Buffer(1)
<1> PICK l \in Nat, S \in SUBSET Int : l = Len(cuts) /\ S = 0 .. Len(sent)
  BY DEF StreamInv
<1>1. cuts \in Seq(S) /\ Len(sent) \in Nat /\ j \in S
  BY DEF StreamInv
<1>2. cuts' \in Seq(S) /\ Len(cuts') = l + 1 /\ cuts'[l + 1] = j /\ \A i \in 1 .. l : cuts'[i] = cuts[i]
  BY <1>1, AppendProperties
<1>3. l = 0 <=> cuts = <<>>
  BY <1>1, EmptySeq
<1>4. cuts' # <<>> /\ l + 1 # 0 /\ l + 1 - 1 = l
  BY <1>1, <1>2
<1> PICK k \in Nat : k = l + 1 /\ k # 0 /\ k - 1 = l
  BY <1>4
<1>5. Taken(k - 1)' = pos
  BY <1>1, <1>2, <1>3 DEF Taken, pos
<1>6. Taken(k)' = j
  BY <1>2 DEF Taken
<1>7. pos' = j
  BY <1>2, <1>4 DEF Taken, pos
<1>8. Buffer(k)' = Filled(pos, j)
  BY <1>5, <1>6 DEF Buffer, Filled
<1>9. Buffer(Len(cuts))' = Filled(pos, j)
  BY <1>2, <1>8
<1>10. cuts = <<>> => Buffer(1)' = Filled(pos, j)
  BY <1>3, <1>8
<1>11. cuts # <<>> => Buffer(1)' = Buffer(1)
  <2> SUFFICES ASSUME cuts # <<>> PROVE Buffer(1)' = Buffer(1)
    OBVIOUS
  <2>1. 1 \in 1 .. l
    BY <1>3
  <2>2. Taken(1)' = Taken(1) /\ Taken(1 - 1)' = Taken(1 - 1)
    BY <2>1, <1>2 DEF Taken
  <2> QED  BY <2>2 DEF Buffer, Filled
<1> QED
  BY <1>1, <1>2, <1>4, <1>7, <1>9, <1>10, <1>11

\* b is the stream behind an LF CR of it, up to position j, and zeroes from there.
Placed(b, j) ==
  \E p \in Pairs(sent, LF, CR) :
    /\ p + 1 < j
    /\ \A i \in 1 .. Len(b) - 1 :
         IF p + 2 + i < j THEN b[i] = sent[p + 2 + i]
         ELSE b[i] = NUL \/ (b[i] = Junk /\ p + 2 + i > RecvLen)

\* What is copied for a body comes from behind an LF CR of the stream.
LEMMA CopiedBody ==
  ASSUME StreamInv, NEW j \in Nat, pos <= j, j <= end,
         NEW n \in Nat, BlankLines(Filled(pos, j)) # {},
         NEW b, b = Copy(Filled(pos, j), BodyStart(Filled(pos, j)), n)
  PROVE  Len(b) - 1 = n /\ Placed(b, j)
<1> DEFINE buf == Filled(pos, j)
           L == Len(sent)
           B == Len(buf)
           m == Min({i \in DOMAIN buf : buf[i] = NUL} \cup {B + 1}) - 1
           text == Text(buf)
           q == Min(BlankLines(buf))
           p == pos + q
<1>1. sent \in Seq(STRING) /\ L \in Nat /\ pos \in Nat /\ end <= L /\ end \in Nat /\ RecvLen \in Nat
  BY StreamsAssumption, BuffersAssumption DEF StreamInv
<1>2. /\ buf \in Seq(STRING) /\ B \in Nat /\ DOMAIN buf = 1 .. B
      /\ B = (IF pos + 1 <= j - 1 THEN j - 1 - pos ELSE 0)
      /\ \A i \in 1 .. B : buf[i] = sent[pos + i]
  <2>1. /\ SubSeq(sent, pos + 1, j - 1) \in Seq(STRING)
        /\ Len(SubSeq(sent, pos + 1, j - 1)) = (IF pos + 1 <= j - 1 THEN j - 1 - pos ELSE 0)
        /\ \A i \in 1 .. Len(SubSeq(sent, pos + 1, j - 1)) :
             SubSeq(sent, pos + 1, j - 1)[i] = sent[pos + i]
    <3>1. CASE pos < j
      <4>1. pos + 1 \in 1 .. L + 1 /\ j - 1 \in pos .. L
        BY <1>1, <3>1
      <4> QED  BY <1>1, <4>1
    <3>2. CASE ~(pos < j)
      <4>1. ~(pos + 1 <= j - 1)
        BY <1>1, <3>2
      <4> QED  BY <1>1, <4>1
    <3> QED  BY <3>1, <3>2
  <2> QED  BY <2>1 DEF Filled
<1> HIDE DEF buf
<1>3. m \in 0 .. B
  <2> DEFINE T == {i \in DOMAIN buf : buf[i] = NUL} \cup {B + 1}
  <2>1. T \in SUBSET Nat /\ T # {} /\ \A i \in T : 1 <= i /\ i <= B + 1
    BY <1>2
  <2> HIDE DEF T
  <2>2. Min(T) \in T
    BY <2>1, MinIs
  <2> QED  BY <2>1, <2>2, <1>2 DEF T
<1>4. text = SubSeq(buf, 1, m)
  BY DEF Text
<1> HIDE DEF m
<1>5. Len(text) = m /\ \A i \in 1 .. m : text[i] = buf[i]
  BY <1>2, <1>3, <1>4
<1> HIDE DEF text, B
<1>6. BlankLines(buf) = {i \in 1 .. m - 1 : text[i] = LF /\ text[i + 1] = CR}
  BY <1>5 DEF BlankLines, Pairs, text
<1>7. q \in BlankLines(buf)
  <2>1. BlankLines(buf) \in SUBSET Nat
    BY <1>3, <1>6
  <2>2. BlankLines(buf) # {}
    BY DEF buf
  <2> QED  BY <2>1, <2>2, MinIs
<1>8. BodyStart(buf) = q + 3
  BY DEF BodyStart
<1> HIDE DEF q
<1>9. q \in Nat /\ q >= 1 /\ q + 1 <= B /\ buf[q] = LF /\ buf[q + 1] = CR
  <2>1. q \in 1 .. m - 1 /\ text[q] = LF /\ text[q + 1] = CR
    BY <1>6, <1>7
  <2>2. q \in 1 .. m /\ q + 1 \in 1 .. m /\ q + 1 <= B
    BY <2>1, <1>3, <1>2
  <2> QED  BY <2>1, <2>2, <1>5
<1>10. B = j - 1 - pos
  BY <1>1, <1>2, <1>9
<1>11. p \in Pairs(sent, LF, CR) /\ p + 1 < j
  <2>1. q \in 1 .. B /\ q + 1 \in 1 .. B /\ p + 1 = pos + (q + 1)
    BY <1>1, <1>2, <1>9
  <2>2. sent[p] = LF /\ sent[p + 1] = CR
    BY <2>1, <1>2, <1>9
  <2>3. p \in 1 .. L - 1 /\ p + 1 < j
    BY <1>1, <1>9, <1>10
  <2> QED  BY <2>2, <2>3 DEF Pairs
<1>12. b = [i \in 1 .. n + 1 |->
              IF i = n + 1 THEN NUL
              ELSE IF q + 3 + i - 1 <= B THEN buf[q + 3 + i - 1]
              ELSE IF q + 3 + i - 1 <= RecvLen THEN NUL ELSE Junk]
  BY <1>8 DEF Copy, buf, B
<1>13. Len(b) = n + 1
  BY <1>12
<1>14. ASSUME NEW i \in 1 .. n
       PROVE  IF p + 2 + i < j THEN b[i] = sent[p + 2 + i]
              ELSE b[i] = NUL \/ (b[i] = Junk /\ p + 2 + i > RecvLen)
  <2> DEFINE k == q + 3 + i - 1
  <2>1. i \in 1 .. n + 1 /\ i # n + 1 /\ i \in Nat
    OBVIOUS
  <2>2. b[i] = IF k <= B THEN buf[k] ELSE IF k <= RecvLen THEN NUL ELSE Junk
    BY <1>12, <2>1
  <2>3. k \in Nat /\ k >= 1 /\ pos + k = p + 2 + i /\ (k <= B <=> p + 2 + i < j) /\ p + 2 + i >= k
    BY <1>1, <1>9, <1>10, <2>1
  <2> HIDE DEF k
  <2>4. k <= B => buf[k] = sent[p + 2 + i]
    BY <1>2, <2>3
  <2>5. k <= RecvLen \/ p + 2 + i > RecvLen
    <3>1. p + 2 + i \in Nat
      BY <1>1, <1>9, <2>1
    <3> HIDE DEF p
    <3> QED  BY <3>1, <2>3, <1>1
  <2> HIDE DEF p
  <2> QED  BY <2>2, <2>3, <2>4, <2>5
<1>15. Len(b) - 1 = n
  BY <1>13
<1> HIDE DEF p
<1> QED  BY <1>11, <1>14, <1>15 DEF Placed

-------------------------------------------------------------------------------
LEMMA InvInit == Init => Inv
<1> SUFFICES ASSUME Init PROVE Inv
  OBVIOUS
<1> USE DEF Init
<1>1. IsRequest(req) /\ Flags(req)
  BY DEF IsRequest, Flags
<1>2. sent \in Seq(STRING) /\ Len(sent) \in Nat
  BY StreamsAssumption
<1>3. Len(cuts) = 0 /\ pos = 0 /\ cuts \in Seq(0 .. Len(sent))
  BY DEF pos, Taken
<1>4. StreamInv
  <2>1. MaxBuffers \in Nat
    BY BuffersAssumption
  <2>2. end = Len(sent) /\ sent \in Streams /\ eof \in BOOLEAN /\ open \in BOOLEAN
    OBVIOUS
  <2> DEFINE len == Len(sent)
  <2>3. pos <= len /\ Len(cuts) <= MaxBuffers /\ pos \in Nat
    BY <1>2, <1>3, <2>1
  <2> HIDE DEF Init, len
  <2> QED  BY <1>2, <1>3, <2>2, <2>3 DEF StreamInv, len
<1>5. FirstInv
  BY <1>3 DEF FirstInv, GetReadsOnce
<1>6. BodyInv
  BY DEF BodyInv, BodyFromStream
<1>7. WireInv /\ CrashNeedsMisfit
  BY DEF WireInv, CrashNeedsMisfit
<1> QED
  BY <1>1, <1>4, <1>5, <1>6, <1>7 DEF Inv

\* What the parsers make of a segment, from pos up to j, before they look for a
\* body: the request of the first segment.
LEMMA Parsed ==
  ASSUME IsRequest(req), Flags(req), StreamInv, FirstInv, BodyInv, Looping,
         NEW j \in Nat, j <= end, sent' = sent, cuts' = Append(cuts, j),
         NEW buf, buf = Filled(pos, j), NEW r, r = AfterHeaders(buf)
  PROVE  /\ IsRequest(r) /\ Flags(r) /\ r.line = TRUE /\ r.hdrs = TRUE /\ r.body = NoBody
         /\ r.done => r.method = "GET"
         /\ r.method = Method(Buffer(1)') /\ r.lines = HeaderLines(Buffer(1)')
         /\ r.method = "GET" => cuts = <<>>
         /\ req.line => r = req
         /\ ~req.hdrs => cuts = <<>>
<1>1. req.done = FALSE /\ pc = "loop" /\ req.body = NoBody
  BY Zenon DEF Looping, Flags
<1>2. /\ cuts = <<>> => Buffer(1)' = buf
      /\ cuts # <<>> => Buffer(1)' = Buffer(1)
  BY Grown
<1>3. CASE req.line
  <2>1. req.hdrs /\ cuts # <<>>
    BY <1>1, <1>3, Zenon DEF FirstInv
  <2>2. r = req
    BY <1>3, <2>1, Zenon DEF AfterHeaders, AfterLine
  <2>3. req.method = Method(Buffer(1)) /\ req.lines = HeaderLines(Buffer(1))
    BY <1>3, <2>1, Zenon DEF FirstInv
  <2>4. req.method # "GET" /\ req.line = TRUE /\ req.hdrs = TRUE
    BY <1>1, <1>3, <2>1, Zenon DEF Flags
  <2> QED
    BY <1>1, <1>2, <2>1, <2>2, <2>3, <2>4, Zenon
<1>4. CASE ~req.line
  <2> DEFINE s == ParseStartLine(req, buf)
  <2>1. cuts = <<>> /\ ~req.hdrs
    BY <1>1, <1>4, Zenon DEF FirstInv, Flags
  <2>2. r = ParseHeaders(s, buf)
    BY <1>4, <2>1, Zenon DEF AfterHeaders, AfterLine
  <2>3. /\ IsRequest(s) /\ s.line = TRUE /\ s.bodyRead \in BOOLEAN /\ s.body = NoBody
        /\ s.method = Method(buf)
    BY <1>4, StartLine, Zenon
  <2> HIDE DEF s
  <2> DEFINE h == ParseHeaders(s, buf)
  <2>4. /\ IsRequest(h) /\ Flags(h) /\ h.line = TRUE /\ h.hdrs = TRUE
        /\ h.method = s.method /\ h.lines = HeaderLines(buf) /\ h.body = NoBody
        /\ h.done => h.method = "GET"
    BY <2>3, Headers
  <2>5. r = h
    BY <2>2
  <2> HIDE DEF h
  <2> QED
    BY <1>2, <1>4, <2>1, <2>3, <2>4, <2>5, Zenon
<1> QED BY <1>3, <1>4

-------------------------------------------------------------------------------
\* The segments received are where they were.
LEMMA SameBuffers ==
  ASSUME sent' = sent, cuts' = cuts
  PROVE  /\ pos' = pos /\ Buffer(1)' = Buffer(1)
         /\ Buffer(Len(cuts))' = Buffer(Len(cuts))
BY DEF pos, Taken, Buffer, Filled

\* A step that receives nothing and leaves the request alone.
LEMMA Kept ==
  ASSUME Inv, sent' = sent, cuts' = cuts, req' = req,
         end' \in pos .. end, eof' \in BOOLEAN, open' \in BOOLEAN,
         pc' \in {"loop", "respond"} => pc \in {"loop", "respond"},
         pc' = "loop" => pc = "loop",
         pc' = "crashed" => pc = "crashed" \/ cuts = <<>> \/ Damaged
  PROVE  /\ IsRequest(req)' /\ Flags(req)'
         /\ StreamInv' /\ FirstInv' /\ BodyInv' /\ CrashNeedsMisfit'
<1>1. /\ pos' = pos /\ Buffer(1)' = Buffer(1)
      /\ Buffer(Len(cuts))' = Buffer(Len(cuts))
  BY SameBuffers
<1>2. IsRequest(req)' /\ Flags(req)'
  BY DEF Inv, IsRequest, Flags
<1>3. StreamInv'
  BY <1>1 DEF Inv, StreamInv
<1>4. FirstInv'
  BY <1>1 DEF Inv, FirstInv, GetReadsOnce
<1>5. BodyFromStream'
  BY <1>1 DEF Inv, BodyInv, BodyFromStream
<1>6. BodyInv'
  BY <1>1, <1>5 DEF Inv, BodyInv
<1>7. CrashNeedsMisfit'
  BY <1>1, Zenon DEF Inv, CrashNeedsMisfit, Damaged
<1> QED
  BY <1>2, <1>3, <1>4, <1>6, <1>7

LEMMA InvReceive == ASSUME Inv, NEW j \in Ends, Receive(j) PROVE Inv'
<1> DEFINE buf == Filled(pos, j)
           r == AfterHeaders(buf)
<1>1. /\ IsRequest(req) /\ Flags(req) /\ StreamInv /\ FirstInv /\ BodyInv /\ WireInv
      /\ Looping /\ CanAllocate /\ req' \in ParseBody(r, buf)
      /\ cuts' = Append(cuts, j)
      /\ sent' = sent /\ end' = end /\ eof' = eof /\ pc' = pc /\ open' = open /\ wire' = wire
  BY Zenon DEF Inv, Receive
<1>2. j \in Nat /\ pos <= j /\ j <= end
  BY <1>1, EndsAhead
<1>3. /\ pos' = j /\ cuts' # <<>> /\ Len(cuts') = Len(cuts) + 1
      /\ cuts' \in Seq(0 .. Len(sent'))
      /\ Buffer(Len(cuts))' = buf
  BY <1>1, <1>2, Grown
<1>4. /\ IsRequest(r) /\ Flags(r) /\ r.line = TRUE /\ r.hdrs = TRUE /\ r.body = NoBody
      /\ r.done => r.method = "GET"
      /\ r.method = Method(Buffer(1)') /\ r.lines = HeaderLines(Buffer(1)')
      /\ r.method = "GET" => cuts = <<>>
  BY <1>1, <1>2, Parsed
<1>5. \/ req' = r
      \/ /\ IsRequest(req') /\ Flags(req') /\ req'.line /\ req'.hdrs /\ req'.done /\ ~r.done
         /\ req'.method = r.method /\ req'.lines = r.lines
         /\ BlankLines(buf) # {}
         /\ \E n \in Nat : n \in Declared(r.lines) /\ req'.body = Copy(buf, BodyStart(buf), n)
  BY <1>1, <1>4, Body
<1> HIDE DEF r
<1>6. /\ IsRequest(req') /\ Flags(req') /\ req'.line /\ req'.hdrs
      /\ req'.method = r.method /\ req'.lines = r.lines
  BY <1>4, <1>5, Zenon
<1>7. IsRequest(req)' /\ Flags(req)'
  BY <1>6 DEF IsRequest, Flags
<1>8. pc = "loop" /\ wire = <<>>
  BY <1>1 DEF Looping, WireInv
<1>9. StreamInv'
  <2>1. Len(cuts) < MaxBuffers /\ Len(cuts) \in Nat /\ MaxBuffers \in Nat
    BY <1>1, BuffersAssumption DEF CanAllocate, StreamInv
  <2>2. Len(cuts') <= MaxBuffers
    BY <1>3, <2>1
  <2> QED  BY <1>1, <1>2, <1>3, <2>2 DEF StreamInv
<1>10. GetReadsOnce'
  <2>1. cuts = <<>> => Len(cuts') <= 1
    BY <1>3
  <2> QED  BY <1>4, <1>6, <2>1, Zenon DEF GetReadsOnce
<1>11. FirstInv'
  BY <1>3, <1>4, <1>6, <1>10, Zenon DEF FirstInv
<1>12. BodyInv'
  <2>1. CASE req' = r
    BY <1>4, <2>1, Zenon DEF BodyInv, BodyFromStream
  <2>2. CASE req' # r
    <3>1. PICK n \in Nat : n \in Declared(r.lines) /\ req'.body = Copy(buf, BodyStart(buf), n)
      BY <1>5, <2>2, Zenon
    <3> DEFINE b == req'.body
    <3>2. BlankLines(buf) # {} /\ b = Copy(buf, BodyStart(buf), n)
      BY <1>5, <2>2, <3>1, Zenon
    <3> HIDE DEF b
    <3>3. Len(b) - 1 = n /\ Placed(b, j)
      <4>1. /\ StreamInv /\ j \in Nat /\ pos <= j /\ j <= end /\ n \in Nat
            /\ BlankLines(Filled(pos, j)) # {}
            /\ b = Copy(Filled(pos, j), BodyStart(Filled(pos, j)), n)
        BY <1>1, <1>2, <3>1, <3>2
      <4> QED  BY ONLY <4>1, CopiedBody
    <3>4. BodyFromStream'
      BY <1>1, <1>3, <3>3 DEF BodyFromStream, Placed, b
    <3>5. Len(req'.body) - 1 \in Declared(req'.lines) /\ BlankLines(Buffer(Len(cuts))') # {}
      BY <1>3, <1>6, <3>1, <3>2, <3>3, Zenon DEF b
    <3> QED  BY <3>4, <3>5, Zenon DEF BodyInv
  <2> QED  BY <2>1, <2>2
<1>13. WireInv' /\ CrashNeedsMisfit'
  BY <1>1, <1>8 DEF WireInv, CrashNeedsMisfit
<1> QED
  BY <1>7, <1>9, <1>11, <1>12, <1>13 DEF Inv

LEMMA InvOverrun == ASSUME Inv, NEW j \in Ends, Overrun(j) PROVE Inv'
<1> DEFINE buf == Filled(pos, j)
           r == AfterHeaders(buf)
<1>1. /\ IsRequest(req) /\ Flags(req) /\ StreamInv /\ FirstInv /\ BodyInv /\ WireInv
      /\ Looping /\ CanAllocate
      /\ cuts' = Append(cuts, j) /\ pc' = "crashed" /\ open' = FALSE
      /\ sent' = sent /\ end' = end /\ eof' = eof /\ req' = req /\ wire' = wire
      /\ \/ ~req.line /\ StartOverruns(buf)
         \/ ~req.hdrs /\ LineOverruns(buf)
         \/ LooksForBody(r, buf) /\ BodyOverruns(buf, r.lines)
  BY Zenon DEF Inv, Overrun
<1>2. j \in Nat /\ pos <= j /\ j <= end
  BY <1>1, EndsAhead
<1>3. /\ pos' = j /\ cuts' # <<>> /\ Len(cuts') = Len(cuts) + 1
      /\ cuts' \in Seq(0 .. Len(sent'))
      /\ Buffer(Len(cuts))' = buf
      /\ cuts = <<>> => Buffer(1)' = buf
      /\ cuts # <<>> => Buffer(1)' = Buffer(1)
  BY <1>1, <1>2, Grown
<1>4. r.lines = HeaderLines(Buffer(1)') /\ (~req.hdrs => cuts = <<>>)
  BY <1>1, <1>2, Parsed
<1>5. req.done = FALSE /\ pc = "loop" /\ req.body = NoBody /\ wire = <<>>
  BY <1>1 DEF Looping, Flags, WireInv
<1>6. ~req.line => cuts = <<>>
  BY <1>1, <1>5, Zenon DEF FirstInv
<1>7. req.method # "GET"
  BY <1>1, <1>5, Zenon DEF Flags, FirstInv
<1> HIDE DEF r, buf
<1>8. IsRequest(req)' /\ Flags(req)'
  BY <1>1 DEF IsRequest, Flags
<1>9. StreamInv'
  <2>1. Len(cuts) < MaxBuffers /\ Len(cuts) \in Nat /\ MaxBuffers \in Nat
    BY <1>1, BuffersAssumption DEF CanAllocate, StreamInv
  <2>2. Len(cuts') <= MaxBuffers
    BY <1>3, <2>1
  <2> QED  BY <1>1, <1>2, <1>3, <2>2 DEF StreamInv
<1>10. FirstInv'
  <2>1. GetReadsOnce'
    BY <1>1, <1>7, Zenon DEF GetReadsOnce
  <2>2. req'.line => cuts' # <<>> /\ req'.method = Method(Buffer(1)')
    BY <1>1, <1>3, Zenon DEF FirstInv
  <2>3. req'.hdrs => req'.lines = HeaderLines(Buffer(1)')
    BY <1>1, <1>3, <1>6, Zenon DEF FirstInv, Flags
  <2>4. pc' \notin {"loop", "respond"}
    BY <1>1
  <2> QED  BY <2>1, <2>2, <2>3, <2>4, Zenon DEF FirstInv
<1>11. BodyInv'
  BY <1>1, <1>5, Zenon DEF BodyInv, BodyFromStream
<1>12. WireInv'
  BY <1>1, <1>5 DEF WireInv
<1>13. CrashNeedsMisfit'
  BY <1>1, <1>3, <1>4, <1>6, Zenon DEF CrashNeedsMisfit
<1> QED
  BY <1>8, <1>9, <1>10, <1>11, <1>12, <1>13 DEF Inv

LEMMA InvParseFails == ASSUME Inv, NEW j \in Ends, ParseFails(j) PROVE Inv'
<1> DEFINE buf == Filled(pos, j)
           r == ParseStartLine(req, buf)
<1>1. /\ IsRequest(req) /\ Flags(req) /\ StreamInv /\ FirstInv /\ BodyInv /\ WireInv
      /\ Looping /\ CanAllocate /\ ~req.hdrs /\ req' = AfterLine(buf)
      /\ cuts' = Append(cuts, j) /\ open' = FALSE /\ pc' = "respond"
      /\ sent' = sent /\ end' = end /\ eof' = eof /\ wire' = wire
  BY Zenon DEF Inv, ParseFails
<1>2. j \in Nat /\ pos <= j /\ j <= end
  BY <1>1, EndsAhead
<1>3. ~req.line /\ cuts = <<>> /\ wire = <<>>
  BY <1>1 DEF Looping, FirstInv, WireInv
<1>4. /\ pos' = j /\ cuts' # <<>> /\ Len(cuts') = Len(cuts) + 1
      /\ cuts' \in Seq(0 .. Len(sent')) /\ Buffer(1)' = buf
  BY <1>1, <1>2, <1>3, Grown
<1>5. /\ IsRequest(r) /\ r.line = TRUE /\ r.hdrs = FALSE /\ r.done = FALSE
      /\ r.bodyRead \in BOOLEAN /\ r.method = Method(buf) /\ r.body = NoBody
  BY <1>1, <1>3, StartLine
<1>6. req' = r
  BY <1>1, <1>3 DEF AfterLine
<1> HIDE DEF r, buf
<1>7. IsRequest(req)' /\ Flags(req)'
  BY <1>5, <1>6 DEF IsRequest, Flags
<1>8. StreamInv'
  <2>1. Len(cuts) < MaxBuffers /\ Len(cuts) \in Nat /\ MaxBuffers \in Nat
    BY <1>1, BuffersAssumption DEF CanAllocate, StreamInv
  <2>2. Len(cuts') <= MaxBuffers
    BY <1>4, <2>1
  <2> QED  BY <1>1, <1>2, <1>4, <2>2 DEF StreamInv
<1>9. GetReadsOnce'
  BY <1>3, <1>4 DEF GetReadsOnce
<1>10. FirstInv'
  BY <1>1, <1>4, <1>5, <1>6, <1>9, Zenon DEF FirstInv
<1>11. BodyInv'
  BY <1>5, <1>6, Zenon DEF BodyInv, BodyFromStream
<1>12. WireInv' /\ CrashNeedsMisfit'
  BY <1>1, <1>3 DEF WireInv, CrashNeedsMisfit
<1> QED
  BY <1>7, <1>8, <1>10, <1>11, <1>12 DEF Inv

\* The steps that receive nothing.
LEMMA InvQuiet ==
  ASSUME Inv, NoRequest \/ ReceiveFails \/ OutOfMemory \/ Abort \/ Respond \/ ClientCloses
                \/ UNCHANGED vars
  PROVE  Inv'
<1> USE DEF Inv
<1>1. /\ StreamInv /\ WireInv /\ Flags(req) /\ FirstInv
      /\ end \in pos .. end /\ end \in Nat /\ pos \in Nat /\ pos \in pos .. end
      /\ eof \in BOOLEAN /\ open \in BOOLEAN
  BY DEF StreamInv
<1>2. ASSUME NoRequest PROVE Inv'
  BY <1>1, <1>2, Kept DEF NoRequest, WireInv
<1>3. ASSUME ReceiveFails \/ OutOfMemory PROVE Inv'
  BY <1>1, <1>3, Kept DEF ReceiveFails, OutOfMemory, Looping, WireInv
<1>4. ASSUME Abort PROVE Inv'
  BY <1>1, <1>4, Kept DEF Abort, Ended, WireInv
<1>5. ASSUME LeaveLoop PROVE Inv'
  BY <1>1, <1>5, Kept DEF LeaveLoop, WireInv
<1>6. ASSUME NoResponse PROVE Inv'
  BY <1>1, <1>6, Kept DEF NoResponse, WireInv
<1>7. ASSUME FileServe PROVE Inv'
  <2>1. ~req.line /\ pc = "respond" => cuts = <<>>
    BY <1>1, Zenon DEF FirstInv
  <2>2. /\ pc = "respond" /\ sent' = sent /\ cuts' = cuts /\ req' = req /\ wire' = wire
        /\ end' = end /\ eof' = eof /\ open' \in BOOLEAN /\ (open' => open)
        /\ pc' \in {"send200", "send404", "crashed"} /\ (pc' = "crashed" => cuts = <<>>)
    BY <1>1, <1>7, <2>1 DEF FileServe
  <2>3. WireInv'
    BY <1>1, <2>2 DEF WireInv
  <2> QED  BY <1>1, <2>2, <2>3, Kept
<1>8. ASSUME Send PROVE Inv'
  <2>1. /\ Sending /\ open /\ Len(wire) < 3 /\ wire' = Append(wire, Reply(pc)[Len(wire) + 1])
        /\ sent' = sent /\ cuts' = cuts /\ req' = req /\ pc' = pc
        /\ end' = end /\ eof' = eof /\ open' = open
    BY <1>8, Zenon DEF Send
  <2>2. wire \in Seq(Parts)
    BY <1>1, Zenon DEF WireInv
  <2> DEFINE part == Reply(pc)[Len(wire) + 1]
  <2>3. Len(wire) + 1 \in 1 .. 3 /\ Len(wire) + 1 <= 3
    BY <2>1, <2>2
  <2>4. part \in Parts
    <3>1. \A p \in {"send200", "send404"} : \A i \in 1 .. 3 : Reply(p)[i] \in Parts
      BY DEF Parts
    <3>2. pc \in {"send200", "send404"}
      BY <2>1 DEF Sending
    <3> QED  BY <2>3, <3>1, <3>2, Zenon
  <2> HIDE DEF part
  <2>5. wire' \in Seq(Parts) /\ Len(wire') <= 3
    <3>1. wire' = Append(wire, part)
      BY <2>1 DEF part
    <3>2. wire' \in Seq(Parts) /\ Len(wire') = Len(wire) + 1
      BY ONLY <2>2, <2>4, <3>1, AppendProperties
    <3> QED  BY <2>3, <3>2
  <2>6. req.done /\ pc \in {"send200", "send404"}
    BY <1>1, <2>1 DEF WireInv, Sending
  <2>7. WireInv'
    BY <1>1, <2>1, <2>5, <2>6 DEF WireInv
  <2> QED  BY <1>1, <2>1, <2>7, Kept
<1>9. ASSUME SendFails \/ BrokenPipe \/ Finish PROVE Inv'
  BY <1>1, <1>9, Kept DEF SendFails, BrokenPipe, Finish, Sending, WireInv
<1>10. ASSUME ClientCloses PROVE Inv'
  BY <1>1, <1>10, Kept DEF ClientCloses, WireInv
<1>11. ASSUME UNCHANGED vars PROVE Inv'
  BY <1>1, <1>11, Kept DEF vars, WireInv
<1> QED
  BY <1>2, <1>3, <1>4, <1>5, <1>6, <1>7, <1>8, <1>9, <1>10, <1>11, Zenon DEF Respond

LEMMA InvStep == Inv /\ [Next]_vars => Inv'
<1> SUFFICES ASSUME Inv, [Next]_vars PROVE Inv'
  OBVIOUS
<1>1. ASSUME Segment PROVE Inv'
  BY <1>1, InvReceive, InvOverrun, InvParseFails, Zenon DEF Segment
<1>2. \/ Segment
      \/ NoRequest \/ ReceiveFails \/ OutOfMemory \/ Abort \/ Respond \/ ClientCloses
           \/ UNCHANGED vars
  BY Zenon DEF Next
<1> QED
  BY <1>1, <1>2, InvQuiet, Zenon

LEMMA InvHolds == Spec => []Inv
<1> QED BY InvInit, InvStep, PTL DEF Spec

-------------------------------------------------------------------------------
\* The values of all variables: no buffer is allocated beyond what there is, and
\* no segment ends behind what the client sends.
THEOREM TypeCorrect == Spec => []TypeOK
<1>1. Inv => TypeOK
  <2> SUFFICES ASSUME Inv PROVE TypeOK
    OBVIOUS
  <2>1. req.method \in Methods \cup {"none", "other"}
    <3>1. req.line => req.method = Method(Buffer(1))
      BY Zenon DEF Inv, FirstInv
    <3>2. \A buf : Method(buf) \in Methods \cup {"other"}
      BY Zenon DEF Method
    <3>3. ~req.line => req.method = "none"
      BY Zenon DEF Inv, Flags
    <3> QED  BY <3>1, <3>2, <3>3
  <2> QED
    BY <2>1, Zenon DEF Inv, Flags, StreamInv, WireInv, TypeOK
<1> QED BY <1>1, InvHolds, PTL

\* Whatever ends the receive loop, a client is only answered if it sent a GET in
\* its first segment, or a blank line in its last and a Content-Length before it.
THEOREM AnsweredWhenAsked == Spec => []AnswerNeedsRequest
<1>1. Inv => AnswerNeedsRequest
  <2> SUFFICES ASSUME Inv, wire # <<>> PROVE AnswerNeedsRequest
    BY DEF AnswerNeedsRequest
  <2>1. req.done /\ req.hdrs /\ req.line
    BY Zenon DEF Inv, WireInv, Flags
  <2>2. /\ cuts # <<>> /\ cuts \in Seq(0 .. Len(sent))
        /\ req.method = Method(Buffer(1)) /\ req.lines = HeaderLines(Buffer(1))
        /\ GetReadsOnce
    BY <2>1, Zenon DEF Inv, FirstInv, StreamInv
  <2>3. CASE req.method = "GET"
    <3>1. Len(cuts) = 1
      <4>1. Len(cuts) <= 1 /\ Len(cuts) \in Nat
        BY <2>2, <2>3 DEF GetReadsOnce
      <4>2. Len(cuts) # 0
        BY <2>2, EmptySeq
      <4>3. \A n \in Nat : n <= 1 /\ n # 0 => n = 1
        OBVIOUS
      <4> QED  BY <4>1, <4>2, <4>3, Zenon
    <3> QED  BY <2>2, <2>3, <3>1, Zenon DEF AnswerNeedsRequest
  <2>4. CASE req.method # "GET"
    BY <2>1, <2>2, <2>4, Zenon DEF Inv, BodyInv, AnswerNeedsRequest
  <2> QED  BY <2>3, <2>4
<1> QED BY <1>1, InvHolds, PTL

\* A GET is done with its first segment, for any stream and any cut of it.
THEOREM GetInOneSegment == Spec => []GetReadsOnce
<1>1. Inv => GetReadsOnce
  BY DEF Inv, FirstInv
<1> QED BY <1>1, InvHolds, PTL

\* What crashes a worker that received something does not fit: a request line cut
\* before its CR or without a URI, or a method, a header line or a length too long
\* for its buffer.
THEOREM CrashIsMisfit == Spec => []CrashNeedsMisfit
<1>1. Inv => CrashNeedsMisfit
  BY DEF Inv
<1> QED BY <1>1, InvHolds, PTL

\* For any stream, with any symbols in its body, cut into any segments, a body is
\* what follows one of its LF CRs, in order and without a gap.
THEOREM BodyUnshifted == Spec => []BodyFromStream
<1>1. Inv => BodyFromStream
  BY DEF Inv, BodyInv
<1> QED BY <1>1, InvHolds, PTL
===============================================================================
