---------------------------- MODULE VoyReplyProofs ----------------------------
(***************************************************************************)
(* Proofs about VoyReply for any URIs, content types, widths of headers    *)
(* and sizes of files, and for any number of writes to the file.           *)
(***************************************************************************)
EXTENDS VoyReply, SequenceTheorems, TLAPS

\* The headers of a response, before and after the default ones.
Header(key, value) == [key |-> key, value |-> value]

Own(n, type) == <<Header("Content-Length", n), Header("Content-Type", type)>>

Whole(n, type) ==
  <<Header("Content-Length", n), Header("Content-Type", type),
    Header("Server", "voy v0.0.1"), Header("Connection", "close")>>

\* A response with this status, body and length of the body, whose buffer is as
\* long as the body.
Fields == {"status", "headers", "body", "bodyLen", "room"}

HasBody(r, status, body, n) ==
  /\ DOMAIN r = Fields
  /\ r.status = status /\ r.body = body /\ r.bodyLen = ToInt(n) /\ r.room = n

IsPage(r) == HasBody(r, 404, NotFound, NotFoundLen)
IsFile(r) == HasBody(r, 200, "file", len) /\ len > 0

Unbuilt == HasBody(res, 200, "none", 0) /\ res.headers = <<>>

Built ==
  \/ IsPage(res) /\ res.headers = Own(NotFoundLen, "text/html")
  \/ IsFile(res) /\ res.headers = Own(len, TypeOf(uri).type)

Complete ==
  \/ IsPage(res) /\ res.headers = Whole(NotFoundLen, "text/html")
  \/ IsFile(res) /\ res.headers = Whole(len, TypeOf(uri).type)

\* The bytes of the first k headers, and of all four.
Size1 == Width["Content-Length"] + 4
Size2 == Size1 + Width["Content-Type"] + 4
Size3 == Size2 + Width["Server"] + 4
Size4 == Size3 + Width["Connection"] + 4

UpTo(k) == IF k = 0 THEN 0 ELSE IF k = 1 THEN Size1 ELSE IF k = 2 THEN Size2
           ELSE IF k = 3 THEN Size3 ELSE Size4

Early  == {"path", "measure", "contents", "404"}
Middle == {"defaults", "line", "crashed"}
Late   == {"count", "fill", "send", "sent", "done"}

\* What the file and its measured length have to do with each other.
FileInv ==
  /\ size \in Sizes \cup {Absent} /\ len \in Sizes \cup {0} /\ writes \in 0 .. MaxWrites
  /\ pc \in {"measure", "contents"} => size \in Sizes
  /\ pc = "contents" => len > 0 /\ (writes = 0 => size = len)
  /\ overrun \in BOOLEAN
  /\ overrun => pc \notin Early /\ writes > 0 /\ size > len /\ ~TypeOf(uri).binary
  /\ pc = "crashed" => overrun

\* Which response there is at which point.
ResInv ==
  /\ pc \in Early => Unbuilt
  /\ pc \in {"defaults", "crashed"} => Built
  /\ pc \in {"line"} \cup Late => Complete

\* The start line.
LineInv ==
  /\ {line.len, line.room} \subseteq Nat
  /\ pc \in Late => line.code = res.status /\ line.len = line.room - 1

\* The counters are the bytes of the headers that were passed.
CountInv ==
  /\ pc \in Early \cup Middle => h = 0 /\ rawLen = 0 /\ rawI = 0
  /\ pc = "count" => h \in 0 .. 4 /\ rawLen = UpTo(h) /\ rawI = 0
  /\ pc = "fill" => h \in 0 .. 4 /\ rawLen = Size4 + 3 /\ rawI = UpTo(h)
  /\ pc \in {"send", "sent"} => h = 4 /\ rawLen = Size4 + 3 /\ rawI = Size4 + 2
  /\ pc = "done" => h = 4 /\ rawLen = 0 /\ rawI = 0

WireInv ==
  pc \in {"sent", "done"} =>
    wire = [status |-> line.code, headers |-> res.headers, bytes |-> Sendable(res.bodyLen)]

PcInv == pc \in Early \cup Middle \cup Late

\* The inductive invariant.
IInv == PcInv /\ FileInv /\ ResInv /\ LineInv /\ CountInv /\ WireInv

USE DEF Early, Middle, Late

-------------------------------------------------------------------------------
\* Tuples by their elements, and what two calls of Append make.
LEMMA PairIs ==
  ASSUME NEW S, NEW a \in S, NEW b \in S, NEW s \in Seq(S), Len(s) = 2, s[1] = a, s[2] = b
  PROVE  s = <<a, b>>
<1>1. <<a, b>> \in Seq(S) /\ Len(<<a, b>>) = 2 /\ \A i \in 1 .. 2 : <<a, b>>[i] = s[i]
  OBVIOUS
<1> QED
  BY <1>1, SeqEqual

LEMMA QuadIs ==
  ASSUME NEW S, NEW a \in S, NEW b \in S, NEW c \in S, NEW d \in S, NEW s \in Seq(S),
         Len(s) = 4, s[1] = a, s[2] = b, s[3] = c, s[4] = d
  PROVE  s = <<a, b, c, d>>
<1>1. /\ <<a, b, c, d>> \in Seq(S) /\ Len(<<a, b, c, d>>) = 4
      /\ \A i \in 1 .. 4 : <<a, b, c, d>>[i] = s[i]
  OBVIOUS
<1> QED
  BY <1>1, SeqEqual

LEMMA TwoFromNone ==
  ASSUME NEW a, NEW b
  PROVE  Append(Append(<<>>, a), b) = <<a, b>>
<1> DEFINE S == {a, b}
           s == Append(Append(<<>>, a), b)
<1>1. a \in S /\ b \in S
  OBVIOUS
<1> HIDE DEF S
<1>2. Append(<<>>, a) \in Seq(S) /\ Len(Append(<<>>, a)) = 1 /\ Append(<<>>, a)[1] = a
  BY <1>1
<1>3. s \in Seq(S) /\ Len(s) = 2 /\ s[1] = a /\ s[2] = b
  BY <1>1, <1>2, AppendProperties
<1> QED
  BY <1>1, <1>3, PairIs

LEMMA FourFromTwo ==
  ASSUME NEW a, NEW b, NEW c, NEW d
  PROVE  Append(Append(<<a, b>>, c), d) = <<a, b, c, d>>
<1> DEFINE S == {a, b, c, d}
           t == Append(<<a, b>>, c)
           s == Append(t, d)
<1>1. a \in S /\ b \in S /\ c \in S /\ d \in S
  OBVIOUS
<1> HIDE DEF S
<1>2. <<a, b>> \in Seq(S) /\ Len(<<a, b>>) = 2 /\ <<a, b>>[1] = a /\ <<a, b>>[2] = b
  BY <1>1
<1>3. t \in Seq(S) /\ Len(t) = 3 /\ t[1] = a /\ t[2] = b /\ t[3] = c
  BY <1>1, <1>2, AppendProperties
<1> HIDE DEF t
<1>4. s \in Seq(S) /\ Len(s) = 4 /\ s[1] = a /\ s[2] = b /\ s[3] = c /\ s[4] = d
  BY <1>1, <1>3, AppendProperties
<1>5. s = <<a, b, c, d>>
  BY <1>1, <1>4, QuadIs
<1> QED
  BY <1>5 DEF t

\* An int keeps the numbers up to INT_MAX, and makes one of any other.
LEMMA Remainder ==
  ASSUME NEW M \in Nat \ {0}, NEW x \in Int
  PROVE  x % M \in 0 .. M - 1 /\ (x \in 0 .. M - 1 => x % M = x)
OBVIOUS

LEMMA IntIs ==
  ASSUME NEW n \in Nat
  PROVE  ToInt(n) \in -INT_MAX - 1 .. INT_MAX /\ (n <= INT_MAX => ToInt(n) = n)
<1> DEFINE M == 2 * (INT_MAX + 1)
           x == n + INT_MAX + 1
<1>1. INT_MAX \in Nat /\ M \in Nat \ {0} /\ x \in Int /\ M = INT_MAX + 1 + INT_MAX + 1
  BY IntMaxAssumption
<1>2. ToInt(n) = (x % M) - (INT_MAX + 1)
  BY DEF ToInt
<1>3. n <= INT_MAX => x \in 0 .. M - 1
  BY <1>1
<1>4. x - (INT_MAX + 1) = n
  BY <1>1
<1> HIDE DEF M, x
<1>5. x % M \in 0 .. M - 1 /\ (x \in 0 .. M - 1 => x % M = x)
  BY <1>1, Remainder
<1> DEFINE y == x % M
<1> HIDE DEF y
<1>6. y \in 0 .. M - 1 /\ (n <= INT_MAX => y = x) /\ ToInt(n) = y - (INT_MAX + 1)
  BY <1>2, <1>3, <1>5 DEF y
<1> QED
  BY <1>1, <1>4, <1>6

\* What is sent of a body of n bytes.
LEMMA SentIs ==
  ASSUME NEW n \in Nat
  PROVE  /\ Sendable(ToInt(n)) <= n
         /\ n <= SendMax => Sendable(ToInt(n)) = n
         /\ ~(n <= SendMax) => Sendable(ToInt(n)) < n
<1>1. SendMax \in Nat /\ SendMax <= INT_MAX /\ INT_MAX \in Nat
  BY SendAssumption, IntMaxAssumption DEF NotFoundLen
<1> DEFINE i == ToInt(n)
<1>2. i \in Int /\ (n <= INT_MAX => i = n)
  BY <1>1, IntIs
<1> HIDE DEF i
<1>3. Sendable(i) <= SendMax /\ Sendable(i) \in Int
  BY <1>1, <1>2 DEF Sendable
<1>4. n <= SendMax => Sendable(i) = n
  BY <1>1, <1>2 DEF Sendable
<1> QED
  BY <1>1, <1>3, <1>4 DEF i

\* Adding two headers leaves the rest of a response.
LEMMA TwoHeaders ==
  ASSUME NEW r, DOMAIN r = Fields, NEW k1, NEW v1, NEW k2, NEW v2,
         NEW q, q = WithHeader(WithHeader(r, k1, v1), k2, v2)
  PROVE  /\ DOMAIN q = Fields
         /\ q.headers = Append(Append(r.headers, Header(k1, v1)), Header(k2, v2))
         /\ q.status = r.status /\ q.body = r.body /\ q.bodyLen = r.bodyLen /\ q.room = r.room
<1>1. ASSUME NEW s, DOMAIN s = Fields, NEW k, NEW v, NEW t, t = WithHeader(s, k, v)
      PROVE  /\ DOMAIN t = Fields
             /\ t.headers = Append(s.headers, Header(k, v))
             /\ t.status = s.status /\ t.body = s.body /\ t.bodyLen = s.bodyLen /\ t.room = s.room
  BY <1>1 DEF WithHeader, Fields, Header
<1>2. PICK t : t = WithHeader(r, k1, v1) /\ q = WithHeader(t, k2, v2)
  OBVIOUS
<1>3. /\ DOMAIN t = Fields
      /\ t.headers = Append(r.headers, Header(k1, v1))
      /\ t.status = r.status /\ t.body = r.body /\ t.bodyLen = r.bodyLen /\ t.room = r.room
  BY <1>1, <1>2
<1>d. DOMAIN t = Fields /\ q = WithHeader(t, k2, v2)
  BY <1>2, <1>3, Zenon
<1>4. /\ DOMAIN q = Fields
      /\ q.headers = Append(t.headers, Header(k2, v2))
      /\ q.status = t.status /\ q.body = t.body /\ q.bodyLen = t.bodyLen /\ q.room = t.room
  BY <1>1, <1>d
<1> QED
  BY <1>3, <1>4, Zenon

\* The two responses as they are made.
LEMMA MakePage ==
  ASSUME Unbuilt, NEW q, q = Page404
  PROVE  IsPage(q) /\ q.headers = Own(NotFoundLen, "text/html")
<1>1. PICK r : r = WithHeader(WithHeader(res, "Content-Length", NotFoundLen), "Content-Type", "text/html")
  OBVIOUS
<1>2. DOMAIN r = Fields /\ r.headers = Own(NotFoundLen, "text/html")
  BY <1>1, TwoHeaders, TwoFromNone DEF Unbuilt, HasBody, Own
<1>3. q = [r EXCEPT !.status = 404, !.body = NotFound, !.bodyLen = ToInt(NotFoundLen), !.room = NotFoundLen]
  BY <1>1 DEF Page404
<1> QED
  BY <1>2, <1>3 DEF IsPage, HasBody, Fields

LEMMA MakeFile ==
  ASSUME Unbuilt, len > 0, NEW q, q = FileResponse
  PROVE  IsFile(q) /\ q.headers = Own(len, TypeOf(uri).type)
<1> DEFINE type == TypeOf(uri).type
<1>1. PICK r : r = WithHeader(WithHeader(res, "Content-Length", len), "Content-Type", type)
  OBVIOUS
<1>2. q = [r EXCEPT !.status = 200, !.body = "file", !.bodyLen = ToInt(len), !.room = len]
  BY <1>1 DEF FileResponse
<1> HIDE DEF type
<1>3. DOMAIN r = Fields /\ r.headers = Own(len, type)
  BY <1>1, TwoHeaders, TwoFromNone DEF Unbuilt, HasBody, Own
<1> QED
  BY <1>2, <1>3 DEF IsFile, HasBody, Fields, type

LEMMA AddDefaults ==
  ASSUME Built, NEW q, q = WithHeader(WithHeader(res, "Server", "voy v0.0.1"), "Connection", "close")
  PROVE  \/ IsPage(q) /\ q.headers = Whole(NotFoundLen, "text/html")
         \/ IsFile(q) /\ q.headers = Whole(len, TypeOf(uri).type)
<1>1. ASSUME NEW n, NEW t
      PROVE  Append(Append(Own(n, t), Header("Server", "voy v0.0.1")), Header("Connection", "close"))
               = Whole(n, t)
  BY FourFromTwo DEF Own, Whole
<1>2. DOMAIN res = Fields
  BY DEF Built, IsPage, IsFile, HasBody
<1>3. /\ DOMAIN q = Fields
      /\ q.headers = Append(Append(res.headers, Header("Server", "voy v0.0.1")), Header("Connection", "close"))
      /\ q.status = res.status /\ q.body = res.body /\ q.bodyLen = res.bodyLen /\ q.room = res.room
  <2>1. ASSUME NEW k1, NEW v1, NEW k2, NEW v2, q = WithHeader(WithHeader(res, k1, v1), k2, v2)
        PROVE  /\ DOMAIN q = Fields
               /\ q.headers = Append(Append(res.headers, Header(k1, v1)), Header(k2, v2))
               /\ q.status = res.status /\ q.body = res.body /\ q.bodyLen = res.bodyLen /\ q.room = res.room
    BY ONLY <1>2, <2>1, TwoHeaders
  <2> QED
    BY <2>1, Zenon
<1>4. \A n, t : res.headers = Own(n, t) => q.headers = Whole(n, t)
  BY <1>1, <1>3, Zenon
<1>5. ASSUME NEW st, NEW bd, NEW n, HasBody(res, st, bd, n) PROVE HasBody(q, st, bd, n)
  BY <1>3, <1>5, Zenon DEF HasBody
<1> QED
  BY <1>4, <1>5, Zenon DEF Built, IsPage, IsFile

\* A complete response has four headers of known widths.
LEMMA FourHeaders ==
  ASSUME Complete
  PROVE  /\ Len(res.headers) = 4 /\ DOMAIN res.headers = 1 .. 4
         /\ Bytes(res.headers[1]) = Width["Content-Length"] + 4
         /\ Bytes(res.headers[2]) = Width["Content-Type"] + 4
         /\ Bytes(res.headers[3]) = Width["Server"] + 4
         /\ Bytes(res.headers[4]) = Width["Connection"] + 4
<1>1. PICK n, t : res.headers = Whole(n, t)
  BY DEF Complete
<1>2. PICK a, b, c, d :
        /\ res.headers = <<a, b, c, d>>
        /\ a = Header("Content-Length", n) /\ b = Header("Content-Type", t)
        /\ c = Header("Server", "voy v0.0.1") /\ d = Header("Connection", "close")
  BY <1>1, Zenon DEF Whole
<1>3. /\ Len(res.headers) = 4 /\ DOMAIN res.headers = 1 .. 4
      /\ res.headers[1] = a /\ res.headers[2] = b /\ res.headers[3] = c /\ res.headers[4] = d
  <2>1. res.headers = <<a, b, c, d>>
    BY <1>2
  <2> QED
    BY ONLY <2>1
<1>4. \A k, v : Header(k, v).key = k
  BY DEF Header
<1>5. a.key = "Content-Length" /\ b.key = "Content-Type" /\ c.key = "Server" /\ d.key = "Connection"
  BY <1>2, <1>4, Zenon
<1> QED
  BY <1>3, <1>5, Zenon DEF Bytes

\* The sizes are naturals, and what a traversal adds leads from one to the next.
LEMMA Widths == /\ {Size1, Size2, Size3, Size4} \subseteq Nat
               /\ Size1 <= Size2 /\ Size2 <= Size3 /\ Size3 <= Size4
BY WidthAssumption DEF Keys, Size1, Size2, Size3, Size4

LEMMA OneMore ==
  ASSUME Complete, NEW k \in 0 .. 3
  PROVE  UpTo(k) + Bytes(res.headers[k + 1]) = UpTo(k + 1)
<1> USE WidthAssumption DEF Keys
<1>0. k \in {0, 1, 2, 3}
  OBVIOUS
<1>1. CASE k = 0
  BY <1>1, FourHeaders, Widths DEF UpTo, Size1
<1>2. CASE k = 1
  BY <1>2, FourHeaders, Widths DEF UpTo, Size2
<1>3. CASE k = 2
  BY <1>3, FourHeaders, Widths DEF UpTo, Size3
<1>4. CASE k = 3
  BY <1>4, FourHeaders, Widths DEF UpTo, Size4
<1> QED
  BY <1>0, <1>1, <1>2, <1>3, <1>4

LEMMA UpToBounds == ASSUME NEW k \in 0 .. 4 PROVE UpTo(k) \in Nat /\ UpTo(k) <= Size4
BY Widths DEF UpTo

-------------------------------------------------------------------------------
\* The invariant holds at first and after every step.
LEMMA InvInit == Init => IInv
<1> SUFFICES ASSUME Init PROVE IInv
  OBVIOUS
<1>1. pc = "path" /\ writes = 0 /\ len = 0 /\ overrun = FALSE /\ size \in Sizes \cup {Absent}
  BY DEF Init
<1>2. PcInv
  BY <1>1 DEF PcInv
<1>3. FileInv
  <2>1. len \in Sizes \cup {0} /\ writes \in 0 .. MaxWrites
    BY <1>1, SizesAssumption
  <2>2. overrun \in BOOLEAN /\ ~overrun
    BY <1>1
  <2> QED
    BY <1>1, <2>1, <2>2 DEF FileInv
<1>4. ResInv
  <2>1. ToInt(0) = 0
    BY IntIs, IntMaxAssumption
  <2> HIDE DEF ToInt
  <2> QED
    BY <2>1 DEF Init, ResInv, Unbuilt, HasBody, Fields
<1>5. LineInv /\ CountInv /\ WireInv
  BY DEF Init, LineInv, CountInv, WireInv
<1> QED
  BY <1>2, <1>3, <1>4, <1>5 DEF IInv

\* Responses depend on three variables.
LEMMA SameResponse ==
  ASSUME res' = res, len' = len, uri' = uri
  PROVE  (Unbuilt => Unbuilt') /\ (Built => Built') /\ (Complete => Complete')
<1>1. TypeOf(uri)' = TypeOf(uri)
  BY Zenon DEF TypeOf, Matching, ExtOf
<1>2. ASSUME NEW st, NEW bd, NEW n PROVE HasBody(res, st, bd, n) => HasBody(res', st, bd, n)
  OBVIOUS
<1> QED
  BY <1>1, <1>2 DEF Unbuilt, Built, Complete, IsPage, IsFile

\* Steps before the headers are counted that leave the response as it is.
LEMMA EarlyStep ==
  ASSUME IInv, pc \in Early, pc' \in Early, FileInv',
         UNCHANGED <<res, line, rawLen, rawI, h, wire>>
  PROVE  IInv'
<1>1. PcInv' /\ WireInv'
  BY DEF PcInv, WireInv
<1>2. ResInv'
  <2>1. Unbuilt /\ res' = res
    BY DEF IInv, ResInv
  <2>2. Unbuilt'
    BY <2>1 DEF Unbuilt, HasBody
  <2> QED
    BY <2>2 DEF ResInv
<1>3. LineInv' /\ CountInv'
  BY DEF IInv, LineInv, CountInv
<1> QED
  BY <1>1, <1>2, <1>3 DEF IInv

\* The response is built.
LEMMA BuildStep ==
  ASSUME IInv, pc \in Early, pc' \in {"defaults", "crashed"}, FileInv', Built',
         UNCHANGED <<line, rawLen, rawI, h, wire>>
  PROVE  IInv'
<1>1. PcInv' /\ WireInv' /\ ResInv'
  BY DEF PcInv, WireInv, ResInv
<1>2. LineInv' /\ CountInv'
  BY DEF IInv, LineInv, CountInv
<1> QED
  BY <1>1, <1>2 DEF IInv

\* Steps that leave a complete response as it is.
LEMMA LateStep ==
  ASSUME IInv, pc \in {"line"} \cup Late, pc' \in Late,
         LineInv', CountInv', WireInv',
         UNCHANGED <<uri, size, writes, len, res, overrun>>
  PROVE  IInv'
<1>1. PcInv'
  BY DEF PcInv
<1>2. FileInv'
  BY DEF IInv, FileInv
<1>3. ResInv'
  <2>1. Complete
    BY DEF IInv, ResInv
  <2>2. Complete'
    BY <2>1, SameResponse
  <2> QED
    BY <2>2 DEF ResInv
<1> QED
  BY <1>1, <1>2, <1>3 DEF IInv

LEMMA InvStep == IInv /\ [Next]_vars => IInv'
<1> SUFFICES ASSUME IInv, [Next]_vars PROVE IInv'
  OBVIOUS
<1>1. CASE Open
  <2>1. FileInv'
    BY <1>1, SizesAssumption DEF Open, IInv, FileInv, Servable, Absent
  <2> QED
    BY <1>1, <2>1, EarlyStep DEF Open
<1>2. CASE Measure
  <2>1. FileInv'
    BY <1>2, SizesAssumption DEF Measure, IInv, FileInv
  <2> QED
    BY <1>2, <2>1, EarlyStep DEF Measure
<1>3. CASE ContentsFail
  <2>1. FileInv'
    BY <1>3 DEF ContentsFail, IInv, FileInv
  <2> QED
    BY <1>3, <2>1, EarlyStep DEF ContentsFail
<1>4. CASE ServeBinary
  <2>1. FileInv'
    BY <1>4 DEF ServeBinary, IInv, FileInv
  <2>2. Unbuilt /\ len > 0 /\ len' = len /\ uri' = uri /\ res' = FileResponse
    BY <1>4 DEF ServeBinary, IInv, ResInv, FileInv
  <2>3. IsFile(res') /\ res'.headers = Own(len, TypeOf(uri).type)
    BY <2>2, MakeFile
  <2>4. Built'
    BY <2>2, <2>3, Zenon DEF Built, IsFile, TypeOf, Matching, ExtOf
  <2> QED
    BY <1>4, <2>1, <2>4, BuildStep DEF ServeBinary
<1>5. CASE ServeText
  <2>1. FileInv'
    BY <1>5, SizesAssumption DEF ServeText, IInv, FileInv, TextBytes
  <2>2. Unbuilt /\ len > 0 /\ len' = len /\ uri' = uri /\ res' = FileResponse
    BY <1>5 DEF ServeText, IInv, ResInv, FileInv
  <2>3. IsFile(res') /\ res'.headers = Own(len, TypeOf(uri).type)
    BY <2>2, MakeFile
  <2>4. Built'
    BY <2>2, <2>3, Zenon DEF Built, IsFile, TypeOf, Matching, ExtOf
  <2> QED
    BY <1>5, <2>1, <2>4, BuildStep DEF ServeText
<1>6. CASE Serve404
  <2>1. FileInv'
    BY <1>6 DEF Serve404, IInv, FileInv
  <2>2. Unbuilt /\ res' = Page404
    BY <1>6 DEF Serve404, IInv, ResInv
  <2>3. IsPage(res') /\ res'.headers = Own(NotFoundLen, "text/html")
    BY <2>2, MakePage
  <2>4. Built'
    BY <2>3 DEF Built, IsPage
  <2> QED
    BY <1>6, <2>1, <2>4, BuildStep DEF Serve404
<1>7. CASE DefaultHeaders
  <2>1. Built /\ pc' = "line" /\ UNCHANGED <<uri, size, writes, len, overrun, line, rawLen, rawI, h, wire>>
    BY <1>7 DEF DefaultHeaders, IInv, ResInv
  <2>2. \/ IsPage(res') /\ res'.headers = Whole(NotFoundLen, "text/html")
        \/ IsFile(res') /\ res'.headers = Whole(len, TypeOf(uri).type)
    BY <1>7, <2>1, AddDefaults DEF DefaultHeaders
  <2>3. Complete'
    BY <2>1, <2>2, Zenon DEF Complete, IsPage, IsFile, TypeOf, Matching, ExtOf
  <2>4. PcInv' /\ ResInv'
    BY <2>1, <2>3 DEF PcInv, ResInv
  <2>5. FileInv'
    BY <1>7 DEF DefaultHeaders, IInv, FileInv
  <2>6. LineInv' /\ CountInv' /\ WireInv'
    BY <1>7 DEF DefaultHeaders, IInv, LineInv, CountInv, WireInv
  <2> QED
    BY <2>4, <2>5, <2>6 DEF IInv
<1>8. CASE StartLine
  <2>1. res.status \in {200, 404} /\ res.status \in StatusCodes
    BY <1>8 DEF StartLine, IInv, ResInv, Complete, IsPage, IsFile, HasBody, StatusCodes
  <2>2. Wording[res.status] \in Nat
    BY <2>1, WidthAssumption
  <2>3. LineInv' /\ pc' = "count"
    BY <1>8, <2>1, <2>2 DEF StartLine, LineInv
  <2>4. CountInv' /\ WireInv'
    BY <1>8, <2>3 DEF StartLine, IInv, CountInv, WireInv, UpTo
  <2> QED
    BY <1>8, <2>3, <2>4, LateStep DEF StartLine
<1>9. CASE Count
  <2>1. Complete /\ h \in 0 .. 4 /\ rawLen = UpTo(h) /\ rawI = 0
    BY <1>9 DEF Count, IInv, ResInv, CountInv
  <2>2. h \in 0 .. 3 /\ h' = h + 1 /\ rawLen' = rawLen + Bytes(res.headers[h + 1])
    BY <1>9, <2>1, FourHeaders DEF Count
  <2>3. rawLen' = UpTo(h') /\ h' \in 0 .. 4
    BY <2>1, <2>2, OneMore
  <2>4. CountInv' /\ WireInv'
    BY <1>9, <2>1, <2>3 DEF Count, CountInv, WireInv
  <2>5. LineInv'
    BY <1>9 DEF Count, IInv, LineInv
  <2> QED
    BY <1>9, <2>4, <2>5, LateStep DEF Count
<1>10. CASE Allocate
  <2>1. Complete /\ h \in 0 .. 4 /\ rawLen = UpTo(h) /\ rawI = 0
    BY <1>10 DEF Allocate, IInv, ResInv, CountInv
  <2>2. rawLen' = Size4 + 3 /\ h' = 0 /\ rawI' = 0
    BY <1>10, <2>1, FourHeaders DEF Allocate, UpTo, Terminator
  <2>3. CountInv' /\ WireInv'
    BY <1>10, <2>2 DEF Allocate, CountInv, WireInv, UpTo
  <2>4. LineInv'
    BY <1>10 DEF Allocate, IInv, LineInv
  <2> QED
    BY <1>10, <2>3, <2>4, LateStep DEF Allocate
<1>11. CASE Fill
  <2>1. Complete /\ h \in 0 .. 4 /\ rawI = UpTo(h) /\ rawLen = Size4 + 3
    BY <1>11 DEF Fill, IInv, ResInv, CountInv
  <2>2. h \in 0 .. 3 /\ h' = h + 1 /\ rawI' = rawI + Bytes(res.headers[h + 1])
    BY <1>11, <2>1, FourHeaders DEF Fill
  <2>3. rawI' = UpTo(h') /\ h' \in 0 .. 4
    BY <2>1, <2>2, OneMore
  <2>4. CountInv' /\ WireInv'
    BY <1>11, <2>1, <2>3 DEF Fill, CountInv, WireInv
  <2>5. LineInv'
    BY <1>11 DEF Fill, IInv, LineInv
  <2> QED
    BY <1>11, <2>4, <2>5, LateStep DEF Fill
<1>12. CASE Terminate
  <2>1. Complete /\ h \in 0 .. 4 /\ rawI = UpTo(h) /\ rawLen = Size4 + 3
    BY <1>12 DEF Terminate, IInv, ResInv, CountInv
  <2>2. h = 4 /\ rawI' = Size4 + 2
    BY <1>12, <2>1, FourHeaders DEF Terminate, UpTo
  <2>3. CountInv' /\ WireInv'
    BY <1>12, <2>1, <2>2 DEF Terminate, CountInv, WireInv
  <2>4. LineInv'
    BY <1>12 DEF Terminate, IInv, LineInv
  <2> QED
    BY <1>12, <2>3, <2>4, LateStep DEF Terminate
<1>13. CASE Send
  <2>1. CountInv' /\ WireInv' /\ LineInv'
    BY <1>13 DEF Send, IInv, CountInv, WireInv, LineInv
  <2> QED
    BY <1>13, <2>1, LateStep DEF Send
<1>14. CASE Free
  <2>1. CountInv' /\ WireInv' /\ LineInv'
    BY <1>14 DEF Free, IInv, CountInv, WireInv, LineInv
  <2> QED
    BY <1>14, <2>1, LateStep DEF Free
<1>15. CASE Write
  <2>1. FileInv'
    BY <1>15, SizesAssumption DEF Write, IInv, FileInv, Absent
  <2> QED
    BY <1>15, <2>1, EarlyStep DEF Write
<1>16. CASE UNCHANGED vars
  <2>1. PcInv' /\ FileInv' /\ LineInv' /\ CountInv' /\ WireInv'
    BY <1>16 DEF vars, IInv, PcInv, FileInv, LineInv, CountInv, WireInv
  <2>2. ResInv /\ pc' = pc /\ res' = res /\ len' = len /\ uri' = uri
    BY <1>16 DEF vars, IInv
  <2>3. ResInv'
    BY <2>2, SameResponse DEF ResInv
  <2> QED
    BY <2>1, <2>3 DEF IInv
<1> QED
  BY <1>1, <1>2, <1>3, <1>4, <1>5, <1>6, <1>7, <1>8, <1>9, <1>10, <1>11, <1>12, <1>13, <1>14,
     <1>15, <1>16 DEF Next

LEMMA Invariance == Spec => []IInv
BY InvInit, InvStep, PTL DEF Spec

-------------------------------------------------------------------------------
\* What of a response is needed below.
LEMMA WholeFacts ==
  ASSUME NEW n, NEW t, NEW hs, hs = Whole(n, t)
  PROVE  /\ DOMAIN hs = 1 .. 4
         /\ hs[1] = Header("Content-Length", n) /\ hs[2] = Header("Content-Type", t)
         /\ hs[1].value = n /\ hs[2].key = "Content-Type"
         /\ hs[3].key = "Server" /\ hs[4].key = "Connection"
<1>1. PICK a, b, c, d :
        /\ hs = <<a, b, c, d>>
        /\ a = Header("Content-Length", n) /\ b = Header("Content-Type", t)
        /\ c = Header("Server", "voy v0.0.1") /\ d = Header("Connection", "close")
  BY Zenon DEF Whole
<1>2. hs = <<a, b, c, d>>
  BY <1>1
<1>3. DOMAIN hs = 1 .. 4 /\ hs[1] = a /\ hs[2] = b /\ hs[3] = c /\ hs[4] = d
  BY ONLY <1>2
<1>4. \A k, v : Header(k, v).key = k /\ Header(k, v).value = v
  BY DEF Header
<1>5. a.value = n /\ b.key = "Content-Type" /\ c.key = "Server" /\ d.key = "Connection"
  BY <1>1, <1>4, Zenon
<1> QED
  BY <1>1, <1>3, <1>5, Zenon

\* The variables of the worker have their types: in particular the second
\* traversal never writes more than the first one counted.
THEOREM TypeCorrect == Spec => []TypeOK
<1>1. IInv => TypeOK
  <2> SUFFICES ASSUME IInv PROVE TypeOK
    OBVIOUS
  <2>1. /\ size \in Sizes \cup {Absent} /\ len \in Sizes \cup {0} /\ writes \in 0 .. MaxWrites
        /\ overrun \in BOOLEAN /\ {line.len, line.room} \subseteq Nat
        /\ pc \in Early \cup Middle \cup Late
    BY DEF IInv, FileInv, LineInv, PcInv
  <2>2. /\ res.status \in {200, 404} /\ res.room \in Nat
        /\ res.bodyLen \in -INT_MAX - 1 .. INT_MAX
    <3>1. len \in Nat /\ NotFoundLen \in Nat /\ 0 \in Nat
      BY <2>1, SizesAssumption DEF NotFoundLen
    <3>2. PICK st \in {200, 404}, n \in Nat : \E b : HasBody(res, st, b, n)
      BY <2>1, <3>1 DEF IInv, ResInv, Unbuilt, Built, Complete, IsPage, IsFile
    <3> QED
      BY <3>2, IntIs DEF HasBody
  <2>3. rawLen \in Nat /\ rawI \in 0 .. rawLen
    BY <2>1, Widths, UpToBounds DEF IInv, CountInv
  <2>4. h \in 0 .. Len(res.headers)
    <3>1. CASE pc \in Late
      BY <3>1, FourHeaders DEF IInv, ResInv, CountInv
    <3>2. CASE pc \in Early
      BY <3>2 DEF IInv, ResInv, CountInv, Unbuilt
    <3>3. CASE pc \in {"defaults", "crashed"}
      BY <3>3 DEF IInv, ResInv, CountInv, Built, Own
    <3>4. CASE pc = "line"
      BY <3>4, FourHeaders DEF IInv, ResInv, CountInv
    <3> QED
      BY <2>1, <3>1, <3>2, <3>3, <3>4
  <2> QED
    BY <2>1, <2>2, <2>3, <2>4 DEF TypeOK
<1> QED
  BY <1>1, Invariance, PTL

\* Content-Length is told once. It is the number of bytes sent, from a buffer of as
\* many, if one send() takes them; of a longer file fewer are sent.
THEOREM LengthAsSent == Spec => []Framing
<1>1. IInv => Framing
  <2> SUFFICES ASSUME IInv, Answered PROVE
        /\ wire.bytes <= res.room
        /\ \E j \in DOMAIN wire.headers :
             /\ wire.headers[j].key = "Content-Length"
             /\ \A k \in DOMAIN wire.headers : wire.headers[k].key = "Content-Length" => k = j
             /\ IF wire.headers[j].value <= SendMax THEN wire.bytes = wire.headers[j].value
                ELSE wire.bytes < wire.headers[j].value
    BY DEF Framing
  <2>1. Complete /\ wire.headers = res.headers /\ wire.bytes = Sendable(res.bodyLen)
    BY DEF Answered, IInv, ResInv, WireInv
  <2>2. len \in Nat
    BY SizesAssumption DEF IInv, FileInv
  <2>3. PICK n \in Nat : (\E t : res.headers = Whole(n, t)) /\ res.bodyLen = ToInt(n) /\ res.room = n
    BY <2>1, <2>2 DEF Complete, IsPage, IsFile, HasBody, NotFoundLen
  <2>4. /\ wire.bytes <= res.room
        /\ n <= SendMax => wire.bytes = n
        /\ ~(n <= SendMax) => wire.bytes < n
    BY <2>1, <2>3, SentIs
  <2>5. /\ DOMAIN wire.headers = 1 .. 4
        /\ wire.headers[1] = Header("Content-Length", n) /\ wire.headers[1].value = n
        /\ wire.headers[2].key = "Content-Type"
        /\ wire.headers[3].key = "Server"
        /\ wire.headers[4].key = "Connection"
    <3>1. PICK t : wire.headers = Whole(n, t)
      BY <2>1, <2>3
    <3> QED
      BY ONLY <3>1, WholeFacts
  <2> QED
    BY <2>4, <2>5 DEF Header
<1> QED
  BY <1>1, Invariance, PTL

\* The status that is sent tells what the body is, and its type.
THEOREM StatusTellsBody == Spec => []StatusMatchesBody
<1>1. IInv => StatusMatchesBody
  <2> SUFFICES ASSUME IInv, Answered PROVE StatusMatchesBody
    BY DEF StatusMatchesBody
  <2>1. Complete /\ wire.status = res.status /\ wire.headers = res.headers
    BY DEF Answered, IInv, ResInv, WireInv, LineInv
  <2>2. CASE IsPage(res)
    BY <2>1, <2>2 DEF IsPage, HasBody, StatusMatchesBody
  <2>3. CASE IsFile(res) /\ res.headers = Whole(len, TypeOf(uri).type)
    <3>1. wire.status = 200 /\ res.body = "file" /\ res.room > 0 /\ wire.headers = res.headers
      BY <2>1, <2>3 DEF IsFile, HasBody
    <3>2. wire.headers = Whole(len, TypeOf(uri).type)
      BY <2>3, <3>1
    <3>3. DOMAIN wire.headers = 1 .. 4 /\ wire.headers[2] = Header("Content-Type", TypeOf(uri).type)
      BY ONLY <3>2, WholeFacts
    <3> QED
      BY <3>1, <3>3 DEF StatusMatchesBody, Header
  <2> QED
    BY <2>1, <2>2, <2>3 DEF Complete
<1> QED
  BY <1>1, Invariance, PTL

\* Start line and headers fit their buffers, for headers of any width.
THEOREM HeadFits == Spec => []RawFits
<1>1. IInv => RawFits
  BY UpToBounds, Widths DEF IInv, LineInv, CountInv, RawFits
<1> QED
  BY <1>1, Invariance, PTL

\* Only a text file that grew after it was measured overruns the buffer of the
\* contents, and nothing else crashes the worker.
THEOREM OverrunOnlyByGrowth == Spec => []OverrunNeedsGrowth
<1>1. IInv => OverrunNeedsGrowth
  BY DEF IInv, FileInv, OverrunNeedsGrowth
<1> QED
  BY <1>1, Invariance, PTL
===============================================================================
