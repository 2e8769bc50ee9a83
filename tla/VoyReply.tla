-------------------------------- MODULE VoyReply --------------------------------
(***************************************************************************)
(* What a worker answers: voy_file_serve and the response built of it, from*)
(* the URI of the request to the last byte sent, while other programs may  *)
(* write to the file that is served.                                       *)
(*                                                                         *)
(* A URI is a sequence of words, slashes and dots; of a file only its size *)
(* matters. The small allocations (header values, the lines of the head)   *)
(* succeed; the one for the contents may fail. Words are short enough for  *)
(* the buffer of an extension.                                             *)
(***************************************************************************)
EXTENDS CInt, Sequences, SequencesExt

CONSTANTS
  Uris,           \* what clients ask for
  ContentTypes,   \* content_types: a sequence of [ext, type, binary]
  Width,          \* the length of each header's key and of its value, together
  Wording,        \* the length of each status code's description
  SendMax,        \* how many bytes one send() takes (MAX_RW_COUNT of Linux)
  Sizes,          \* the sizes a file may have
  MaxWrites       \* bound: how often it is written to while it is served

\* The page of a 404, and its length.
NotFound    == "Not found"
NotFoundLen == 10

\* The headers a response has.
Keys == {"Content-Length", "Content-Type", "Server", "Connection"}

\* http_status_codes
StatusCodes ==
  (100 .. 102) \cup (200 .. 208) \cup {226} \cup (300 .. 305) \cup {307, 308}
    \cup (400 .. 418) \cup (421 .. 424) \cup {426, 428, 429, 431, 444, 451, 499}
    \cup (500 .. 508) \cup {510, 511, 599}

ASSUME UrisAssumption == Uris \subseteq Seq(STRING) \ {<<>>}
ASSUME TypesAssumption ==
  \A k \in DOMAIN ContentTypes : ContentTypes[k].ext \in Seq(STRING) /\ ContentTypes[k].binary \in BOOLEAN
ASSUME WidthAssumption == Width \in [Keys -> Nat] /\ Wording \in [StatusCodes -> Nat]
ASSUME SizesAssumption == Sizes \subseteq Nat /\ MaxWrites \in Nat
ASSUME SendAssumption == SendMax \in NotFoundLen .. INT_MAX

VARIABLES
  uri,      \* req->uri
  size,     \* the size of the file the URI names, now; Absent if there is none
  writes,   \* how often the file was written to
  pc,       \* where the worker is
  len,      \* contents_len
  res,      \* the voy_response_t
  overrun,  \* bytes were written beyond the buffer of the contents
  line,     \* the start line: its code, its length and the room it has
  rawLen, rawI,   \* raw_headers_len and raw_headers_i
  h,        \* headers the traversal has passed
  wire      \* what was sent: the status, the headers and how many bytes of the body

vars == <<uri, size, writes, pc, len, res, overrun, line, rawLen, rawI, h, wire>>

Absent == -1

\* voy_response_new: the status is 200 from the start.
Init ==
  /\ uri \in Uris
  /\ size \in Sizes \cup {Absent}
  /\ writes = 0
  /\ pc = "path"
  /\ len = 0
  /\ res = [status |-> 200, headers |-> <<>>, body |-> "none", bodyLen |-> 0, room |-> 0]
  /\ overrun = FALSE
  /\ line = [code |-> 0, len |-> 0, room |-> 0]
  /\ rawLen = 0 /\ rawI = 0 /\ h = 0
  /\ wire = [status |-> 0, headers |-> <<>>, bytes |-> 0]

-------------------------------------------------------------------------------
\* Names and types.

\* voy_get_file_path drops the first slash, wherever it is.
PathOf(u) == RemoveFirst(u, "/")

\* voy_get_file_ext: what follows the first dot, and nothing without one.
ExtOf(u) ==
  LET dots == {j \in DOMAIN u : u[j] = "."}
  IN  IF dots = {} THEN <<>> ELSE SubSeq(u, Min(dots) + 1, Len(u))

\* voy_get_content_type_struct: the last entry of the table that fits.
Matching(u) == {k \in DOMAIN ContentTypes : ContentTypes[k].ext = ExtOf(u)}
TypeOf(u)   == ContentTypes[Max(Matching(u))]

\* A header of the response. voy_htable_set adds one without looking for another.
WithHeader(r, key, value) == [r EXCEPT !.headers = Append(@, [key |-> key, value |-> value])]

-------------------------------------------------------------------------------
\* voy_file_serve. Where it fails, voy_serve_404 follows.

\* Mutant of Servable: the result of open() is not looked at.
ServableUnopened == PathOf(uri) # <<>> /\ Matching(uri) # {}

\* The file is there, its type is known, and it can be opened.
Servable == PathOf(uri) # <<>> /\ Matching(uri) # {} /\ size # Absent

Open ==
  /\ pc = "path"
  /\ pc' = IF Servable THEN "measure" ELSE "404"
  /\ UNCHANGED <<uri, size, writes, len, res, overrun, line, rawLen, rawI, h, wire>>

\* lseek() to the end, or fgetc() up to it: an empty file is not served.
Measure ==
  /\ pc = "measure"
  /\ len' = size
  /\ pc' = IF size = 0 THEN "404" ELSE "contents"
  /\ UNCHANGED <<uri, size, writes, res, overrun, line, rawLen, rawI, h, wire>>

\* malloc() or read() fails.
ContentsFail ==
  /\ pc = "contents"
  /\ pc' = "404"
  /\ UNCHANGED <<uri, size, writes, len, res, overrun, line, rawLen, rawI, h, wire>>

\* Mutant of FileResponse: the length is that of the file now.
FileResponseNow ==
  [WithHeader(WithHeader(res, "Content-Length", len), "Content-Type", TypeOf(uri).type)
     EXCEPT !.status = 200, !.body = "file", !.bodyLen = ToInt(size), !.room = len]

\* voy_serve_file. The buffer is zeroed, so bytes the file lacks by now are NULs.
\* body_len is an int, contents_len a size_t.
FileResponse ==
  [WithHeader(WithHeader(res, "Content-Length", len), "Content-Type", TypeOf(uri).type)
     EXCEPT !.status = 200, !.body = "file", !.bodyLen = ToInt(len), !.room = len]

\* voy_set_binary_file_contents reads at most contents_len bytes.
ServeBinary ==
  /\ pc = "contents" /\ TypeOf(uri).binary
  /\ res' = FileResponse
  /\ pc' = "defaults"
  /\ UNCHANGED <<uri, size, writes, len, overrun, line, rawLen, rawI, h, wire>>

\* Mutant of TextBytes: the loop goes on at the end of the file.
TextBytesAll == size + 1

\* voy_set_text_file_contents reads up to the end of the file, wherever that is
\* by now.
TextBytes == size

\* Bytes beyond the buffer are undefined behaviour: the worker may crash.
ServeText ==
  /\ pc = "contents" /\ ~TypeOf(uri).binary
  /\ overrun' = (TextBytes > len)
  /\ res' = FileResponse
  /\ pc' \in {"defaults"} \cup (IF overrun' THEN {"crashed"} ELSE {})
  /\ UNCHANGED <<uri, size, writes, len, line, rawLen, rawI, h, wire>>

\* Mutant of Page404: the status stays what voy_response_new made it.
Page404Status ==
  [WithHeader(WithHeader(res, "Content-Length", NotFoundLen), "Content-Type", "text/html")
     EXCEPT !.body = NotFound, !.bodyLen = ToInt(NotFoundLen),
            !.room = NotFoundLen]

Page404 ==
  [WithHeader(WithHeader(res, "Content-Length", NotFoundLen), "Content-Type", "text/html")
     EXCEPT !.status = 404, !.body = NotFound, !.bodyLen = ToInt(NotFoundLen),
            !.room = NotFoundLen]

Serve404 ==
  /\ pc = "404"
  /\ res' = Page404
  /\ pc' = "defaults"
  /\ UNCHANGED <<uri, size, writes, len, overrun, line, rawLen, rawI, h, wire>>

\* voy_set_default_response_headers
DefaultHeaders ==
  /\ pc = "defaults"
  /\ res' = WithHeader(WithHeader(res, "Server", "voy v0.0.1"), "Connection", "close")
  /\ pc' = "line"
  /\ UNCHANGED <<uri, size, writes, len, overrun, line, rawLen, rawI, h, wire>>

-------------------------------------------------------------------------------
\* voy_response_get_start_line. "HTTP/1.1", the code, the description and the
\* line end; the search for the code has no other end than to find it.
StartLine ==
  /\ pc = "line"
  /\ IF res.status \in StatusCodes
     THEN LET description == Wording[res.status]
          IN  /\ line' = [code |-> res.status, len |-> 8 + 1 + 3 + 1 + description + 2,
                          room |-> 16 + description]
              /\ pc' = "count"
     ELSE pc' = "crashed" /\ UNCHANGED line
  /\ UNCHANGED <<uri, size, writes, len, res, overrun, rawLen, rawI, h, wire>>

\* voy_response_get_headers: two traversals that add to static counters.

Bytes(header) == Width[header.key] + 4

\* voy_set_raw_headers_str_len, for each header.
Count ==
  /\ pc = "count" /\ h < Len(res.headers)
  /\ h' = h + 1
  /\ rawLen' = rawLen + Bytes(res.headers[h'])
  /\ UNCHANGED <<uri, size, writes, pc, len, res, overrun, line, rawI, wire>>

\* Mutant of Terminator: without room for the NUL.
TerminatorShort == 2

\* The newline that ends the headers, and the NUL.
Terminator == 3

Allocate ==
  /\ pc = "count" /\ h = Len(res.headers)
  /\ h' = 0
  /\ rawLen' = rawLen + Terminator
  /\ pc' = "fill"
  /\ UNCHANGED <<uri, size, writes, len, res, overrun, line, rawI, wire>>

\* voy_set_raw_headers_str, for each header.
Fill ==
  /\ pc = "fill" /\ h < Len(res.headers)
  /\ h' = h + 1
  /\ rawI' = rawI + Bytes(res.headers[h'])
  /\ UNCHANGED <<uri, size, writes, pc, len, res, overrun, line, rawLen, wire>>

Terminate ==
  /\ pc = "fill" /\ h = Len(res.headers)
  /\ rawI' = rawI + 2
  /\ pc' = "send"
  /\ UNCHANGED <<uri, size, writes, len, res, overrun, line, rawLen, h, wire>>

\* What a send() of n bytes sends. A negative n is the largest of sizes to it.
Sendable(n) == IF n \in 0 .. SendMax THEN n ELSE SendMax

\* The three calls of send(), then voy_response_free, which resets the counters. A
\* send() that takes fewer bytes than it was given is not repeated.
Send ==
  /\ pc = "send"
  /\ wire' = [status |-> line.code, headers |-> res.headers, bytes |-> Sendable(res.bodyLen)]
  /\ pc' = "sent"
  /\ UNCHANGED <<uri, size, writes, len, res, overrun, line, rawLen, rawI, h>>

Free ==
  /\ pc = "sent"
  /\ rawLen' = 0 /\ rawI' = 0
  /\ pc' = "done"
  /\ UNCHANGED <<uri, size, writes, len, res, overrun, line, h, wire>>

\* Another program writes to the file or truncates it.
Write ==
  /\ size # Absent /\ writes < MaxWrites
  /\ pc \in {"path", "measure", "contents"}
  /\ writes' = writes + 1
  /\ size' \in Sizes \ {size}
  /\ UNCHANGED <<uri, pc, len, res, overrun, line, rawLen, rawI, h, wire>>

Next ==
  \/ Open \/ Measure \/ ContentsFail \/ ServeBinary \/ ServeText \/ Serve404
  \/ DefaultHeaders
  \/ StartLine \/ Count \/ Allocate \/ Fill \/ Terminate
  \/ Send \/ Free
  \/ Write

Spec == Init /\ [][Next]_vars

-------------------------------------------------------------------------------
TypeOK ==
  /\ size \in Sizes \cup {Absent} /\ len \in Sizes \cup {0}
  /\ writes \in 0 .. MaxWrites
  /\ pc \in {"path", "measure", "contents", "404", "defaults", "line", "count", "fill", "send",
            "sent", "done", "crashed"}
  /\ res.status \in {200, 404} /\ res.room \in Nat
  /\ res.bodyLen \in -INT_MAX - 1 .. INT_MAX
  /\ {line.len, line.room} \subseteq Nat
  /\ rawLen \in Nat /\ rawI \in 0 .. rawLen
  /\ h \in 0 .. Len(res.headers)
  /\ overrun \in BOOLEAN

Answered == pc \in {"sent", "done"}

\* The client is told once how long the body is, though voy_htable_set would keep a
\* second Content-Length, and gets as many bytes, all from the buffer, though the
\* file may have grown or shrunk since it was measured. Where one send() does not
\* take that many, or the length does not fit res->body_len, it gets fewer.
Framing ==
  Answered =>
    /\ wire.bytes <= res.room
    /\ \E j \in DOMAIN wire.headers :
         /\ wire.headers[j].key = "Content-Length"
         /\ \A k \in DOMAIN wire.headers : wire.headers[k].key = "Content-Length" => k = j
         /\ IF wire.headers[j].value <= SendMax THEN wire.bytes = wire.headers[j].value
            ELSE wire.bytes < wire.headers[j].value

\* Whatever failed on the way, 200 goes with the bytes of a file, of the type of
\* its extension, and 404 with the page that says so: voy_response_new starts
\* with 200, and only voy_serve_404 changes it.
StatusMatchesBody ==
  Answered =>
    \/ /\ wire.status = 200 /\ res.body = "file" /\ res.room > 0
       /\ \E j \in DOMAIN wire.headers :
            wire.headers[j] = [key |-> "Content-Type", value |-> TypeOf(uri).type]
    \/ wire.status = 404 /\ res.body = NotFound

\* The head of the response fits its two buffers. The second traversal writes
\* what the first one counted: it stays inside of the buffer, leaves room for the
\* end of the headers, and fills all of it (voy_response_get_headers, whose
\* counters are static); so does the start line, whose code was found.
RawFits ==
  /\ pc \in {"count", "fill", "send"} => line.len = line.room - 1
  /\ pc = "fill" => rawI + 3 <= rawLen
  /\ pc = "send" => rawI = rawLen - 1

\* The buffer of the contents is overrun only when a text file grew after it was
\* measured, and nothing else crashes a worker that answers: the search for the
\* status finds it.
OverrunNeedsGrowth ==
  /\ overrun => writes > 0 /\ size > len /\ ~TypeOf(uri).binary
  /\ pc = "crashed" => overrun
===============================================================================
