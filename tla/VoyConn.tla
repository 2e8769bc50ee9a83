-------------------------------- MODULE VoyConn --------------------------------
(***************************************************************************)
(* A worker's conversation with its client: voy_handle_conn and the parser *)
(* of voy_request.c, from the first recv() to the last send().             *)
(*                                                                         *)
(* What a client sends is any sequence of symbols: a method, SP, CR, LF and*)
(* NUL are themselves, digits and signs too, CL is the name Content-Length *)
(* with its colon and space, and any other string stands for other bytes,  *)
(* no white space among them. TCP may cut the stream into segments         *)
(* anywhere, and each recv() returns one segment. The lengths of buffers   *)
(* count symbols.                                                          *)
(*                                                                         *)
(* Of the allocations that can fail the ones whose result the code checks  *)
(* are modelled. HEAD is handled as GET is; "GET" stands for both. A use of*)
(* memory beyond a buffer ends the process, or goes on with what was read. *)
(***************************************************************************)
EXTENDS CInt, Sequences, SequencesExt

CONSTANTS
  Streams,      \* what clients may send
  Alnum,        \* symbols that start with a byte for which isalnum() holds
  MethodLen,    \* req_method_len
  LineLen,      \* line_length, the room for a header line
  RecvLen,      \* VOY_RECV_BUFF_LEN
  MaxBuffers    \* receive buffers a process can allocate

CR  == "CR"
LF  == "LF"
SP  == "SP"
NUL == "NUL"
CL  == "Content-Length: "

Junk   == "junk"    \* what is in memory behind a receive buffer
NoBody == <<>>      \* a NULL body; any other ends with a NUL

Methods == {"GET", "POST"}

ASSUME StreamsAssumption == Streams \subseteq Seq(STRING)
ASSUME BuffersAssumption == {MethodLen, LineLen, RecvLen, MaxBuffers} \subseteq Nat \ {0}

VARIABLES
  sent,     \* what the client sends
  end,      \* how much of it, once the client has closed its side
  eof,      \* the client has closed its side
  cuts,     \* where in sent the segments received so far ended
  pc,       \* where the worker is in voy_handle_conn
  req,      \* the voy_request_t
  open,     \* conn_fd is open
  wire      \* what the worker has sent

vars == <<sent, end, eof, cuts, pc, req, open, wire>>

Init ==
  /\ sent \in Streams
  /\ end = Len(sent)
  /\ eof = FALSE
  /\ cuts = <<>>
  /\ pc = "loop"
  /\ req = [line |-> FALSE, hdrs |-> FALSE, bodyRead |-> FALSE, done |-> FALSE,
            method |-> "none", lines |-> {}, body |-> NoBody]
  /\ open = TRUE
  /\ wire = <<>>

-------------------------------------------------------------------------------
\* The receive buffers. None is freed by an iteration that succeeds.

\* How much recv() has returned.
Taken(n) == IF n = 0 THEN 0 ELSE cuts[n]
pos      == Taken(Len(cuts))

\* A buffer that was filled from position i up to j. The last byte is lost:
\* req_buff[bytes_r - 1] = '\0'. With bytes_r = 0 that write is before the buffer,
\* which is then empty, and the loop goes round.
Filled(i, j) == SubSeq(sent, i + 1, j - 1)

Buffer(n) == Filled(Taken(n - 1), Taken(n))

\* The buffer up to strlen().
Text(buf) == SubSeq(buf, 1, Min({i \in DOMAIN buf : buf[i] = NUL} \cup {Len(buf) + 1}) - 1)

\* The positions of buf where b follows a.
Pairs(buf, a, b) == {i \in 1 .. Len(buf) - 1 : buf[i] = a /\ buf[i + 1] = b}

-------------------------------------------------------------------------------
\* voy_request_parse_start_line

\* The string in req_method: what stands before the first space or CR. Behind the
\* segment the buffer is zero.
Method(buf) ==
  IF buf # <<>> /\ buf[1] \in Methods /\ (Len(buf) = 1 \/ buf[2] \in {SP, CR, NUL}) THEN buf[1]
  ELSE "other"

\* Mutant of ParseStartLine: line_is_read is not set.
ParseStartLineUnset(r, buf) == [r EXCEPT !.method = Method(buf), !.bodyRead = (Method(buf) = "GET")]

ParseStartLine(r, buf) ==
  [r EXCEPT !.line = TRUE, !.method = Method(buf), !.bodyRead = (Method(buf) = "GET")]

\* Both scans run out of a buffer that has no CR, a method may be longer than the
\* buffer it is copied to, and for a line without a space the URI has no byte for
\* its NUL.
StartOverruns(buf) ==
  \/ CR \notin ToSet(buf)
  \/ \A i \in DOMAIN buf : buf[i] = SP => \E k \in 1 .. i - 1 : buf[k] = CR
  \/ \A i \in DOMAIN buf : i <= MethodLen => buf[i] \notin {SP, CR}

-------------------------------------------------------------------------------
\* voy_request_parse_headers

\* The loop over the buffer. It skips the request line; from there a line starts
\* after each LF that an alphanumeric character follows, and whatever follows an
\* LF otherwise is added to the line before.
LinesOf(text) ==
  LET lfs    == {i \in DOMAIN text : text[i] = LF}
      first  == Min(lfs \cup {Len(text)})
      stop   == Min((Pairs(text, LF, LF) \ {first}) \cup {Len(text)})
      starts == {first + 1} \cup {i \in first + 2 .. stop : text[i - 1] = LF /\ text[i] \in Alnum}
      last(i) == Min({j - 1 : j \in {j \in starts : i < j}} \cup {stop})
  IN  {SelectSeq(SubSeq(text, i, last(i)), LAMBDA s : s \notin {CR, LF}) : i \in starts}

HeaderLines(buf) == LinesOf(Text(buf))

\* Mutant of ParseHeaders: a GET is not done with its headers.
ParseHeadersOnly(r, buf) ==
  [r EXCEPT !.hdrs = TRUE, !.lines = HeaderLines(buf)]

ParseHeaders(r, buf) ==
  [r EXCEPT !.hdrs = TRUE, !.lines = HeaderLines(buf),
            !.bodyRead = @ \/ r.method = "GET", !.done = (r.method = "GET")]

\* A line is copied to a buffer of LineLen without a look at its length.
LineOverruns(buf) == \E l \in HeaderLines(buf) : Len(l) >= LineLen

-------------------------------------------------------------------------------
\* voy_request_parse_body

Digits == <<"0", "1", "2", "3", "4", "5", "6", "7", "8", "9">>

Digit(s) == (CHOOSE i \in DOMAIN Digits : Digits[i] = s) - 1

\* atoi(): the digits s starts with, behind spaces and a sign if there are any.
Atoi(s) ==
  LET word  == SubSeq(s, Min({i \in DOMAIN s : s[i] # SP} \cup {Len(s) + 1}), Len(s))
      sign  == IF word = <<>> THEN "none" ELSE word[1]
      t     == IF sign \in {"-", "+"} THEN Tail(word) ELSE word
      n     == Min({i \in DOMAIN t : t[i] \notin ToSet(Digits)} \cup {Len(t) + 1}) - 1
      value == FoldLeft(LAMBDA v, d : 10 * v + Digit(d), 0, SubSeq(t, 1, n))
  IN  IF sign = "-" THEN -value ELSE value

\* content_len - 1, for each line that has a Content-Length.
Declared(lines) == {ToInt(Atoi(Tail(l)) + 1) - 1 : l \in {l \in lines : l # <<>> /\ Head(l) = CL}}

\* The search for the blank line, in whatever segment it is called on.
BlankLines(buf) == Pairs(Text(buf), LF, CR)

\* Mutant of BodyStart: the LF of the blank line is not skipped.
BodyStartEarly(buf) == Min(BlankLines(buf)) + 2

\* Past the LF CR LF of the blank line.
BodyStart(buf) == Min(BlankLines(buf)) + 3

\* The n bytes memcpy() takes from position i of the receive buffer, which is zero
\* behind the segment, and the NUL that ends them.
Copy(buf, i, n) ==
  [j \in 1 .. n + 1 |->
     IF j = n + 1 THEN NUL
     ELSE IF i + j - 1 <= Len(buf) THEN buf[i + j - 1]
     ELSE IF i + j - 1 <= RecvLen THEN NUL ELSE Junk]

LooksForBody(r, buf) == ~r.bodyRead /\ ~r.done /\ BlankLines(buf) # {}

\* The requests that may come of it. The header parser has freed the keys it put
\* in the table, so a lookup of Content-Length may find it or not, and malloc() may
\* fail, which it does for a negative length: then nothing is read.
ParseBody(r, buf) ==
  {r} \cup
  {[r EXCEPT !.bodyRead = TRUE, !.done = TRUE, !.body = Copy(buf, BodyStart(buf), n)] :
     n \in IF LooksForBody(r, buf) THEN Declared(r.lines) \cap Nat ELSE {}}

\* A length of -1 is taken for the largest of all by memcpy(), and another may
\* reach beyond the receive buffer.
BodyOverruns(buf, lines) ==
  /\ BlankLines(buf) # {}
  /\ \E n \in Declared(lines) : n = -1 \/ BodyStart(buf) + n - 1 > RecvLen

-------------------------------------------------------------------------------
\* The receive loop of voy_handle_conn.

\* The parsers it calls on one buffer, each unless it is done.
AfterLine(buf) == IF req.line THEN req ELSE ParseStartLine(req, buf)
AfterHeaders(buf) ==
  IF req.hdrs THEN AfterLine(buf) ELSE ParseHeaders(AfterLine(buf), buf)

\* voy_request_new fails.
NoRequest ==
  /\ pc = "loop" /\ cuts = <<>>
  /\ open' = FALSE
  /\ pc' = "done"
  /\ UNCHANGED <<sent, end, eof, cuts, req, wire>>

Looping == pc = "loop" /\ ~req.done

\* Mutant of CanAllocate: malloc() is not checked.
CanAllocateUnchecked == TRUE

\* voy_new_request_buffer returns a buffer.
CanAllocate == Len(cuts) < MaxBuffers

\* Where recv() may end: where it started once the client has closed its side.
Ends == IF pos < end THEN pos + 1 .. Min({end, pos + RecvLen}) ELSE IF eof THEN {end} ELSE {}

Receive(j) ==
  /\ Looping
  /\ CanAllocate
  /\ req' \in ParseBody(AfterHeaders(Filled(pos, j)), Filled(pos, j))
  /\ cuts' = Append(cuts, j)
  /\ UNCHANGED <<sent, end, eof, pc, open, wire>>

\* Memory beyond a buffer is used, and the process ends.
Overrun(j) ==
  /\ Looping
  /\ CanAllocate
  /\ LET buf == Filled(pos, j)
         r   == AfterHeaders(buf)
     IN  \/ ~req.line /\ StartOverruns(buf)
         \/ ~req.hdrs /\ LineOverruns(buf)
         \/ LooksForBody(r, buf) /\ BodyOverruns(buf, r.lines)
  /\ cuts' = Append(cuts, j)
  /\ pc' = "crashed"
  /\ open' = FALSE
  /\ UNCHANGED <<sent, end, eof, req, wire>>

\* An allocation of voy_request_parse_headers fails: the buffer is freed, the
\* connection closed, and the code after the loop runs all the same.
ParseFails(j) ==
  /\ Looping
  /\ CanAllocate
  /\ ~req.hdrs
  /\ req' = AfterLine(Filled(pos, j))
  /\ cuts' = Append(cuts, j)
  /\ open' = FALSE
  /\ pc' = "respond"
  /\ UNCHANGED <<sent, end, eof, wire>>

\* Mutant of ReceiveFails: the loop ends with the connection open.
BreakWithoutClose ==
  /\ Looping
  /\ pc' = "respond"
  /\ UNCHANGED <<sent, end, eof, cuts, req, open, wire>>

\* recv() or an earlier allocation fails: close(conn_fd) and break.
ReceiveFails ==
  /\ Looping
  /\ open' = FALSE
  /\ pc' = "respond"
  /\ UNCHANGED <<sent, end, eof, cuts, req, wire>>

\* Mutant of OutOfMemory: the loop tries again.
AllocateAgain ==
  /\ Looping
  /\ Len(cuts) = MaxBuffers
  /\ UNCHANGED vars

\* No buffer is ever freed by an iteration that succeeds, so a request that
\* does not get done uses up the memory.
OutOfMemory ==
  /\ Looping
  /\ Len(cuts) = MaxBuffers
  /\ open' = FALSE
  /\ pc' = "respond"
  /\ UNCHANGED <<sent, end, eof, cuts, req, wire>>

LeaveLoop ==
  /\ pc = "loop" /\ req.done
  /\ pc' = "respond"
  /\ UNCHANGED <<sent, end, eof, cuts, req, open, wire>>

-------------------------------------------------------------------------------
\* The response.

Ended == pc \in {"done", "crashed", "killed"}

\* The parsers have written beyond the blocks of the method or of a line.
Damaged == cuts # <<>> /\ (StartOverruns(Buffer(1)) \/ LineOverruns(Buffer(1)))

\* A later call of malloc() or free() ends a process whose heap is damaged.
Abort ==
  /\ Damaged /\ ~Ended
  /\ pc' = "crashed"
  /\ open' = FALSE
  /\ UNCHANGED <<sent, end, eof, cuts, req, wire>>

\* voy_response_new fails.
NoResponse ==
  /\ pc = "respond"
  /\ open' = FALSE
  /\ pc' = "done"
  /\ UNCHANGED <<sent, end, eof, cuts, req, wire>>

\* voy_file_serve takes strlen(req->uri), which is NULL before a request line is read.
FileServe ==
  /\ pc = "respond"
  /\ IF req.line THEN pc' \in {"send200", "send404"} /\ UNCHANGED open
     ELSE pc' = "crashed" /\ open' = FALSE
  /\ UNCHANGED <<sent, end, eof, cuts, req, wire>>

Reply(p) ==
  CASE p = "send200" -> <<"200", "headers", "file">>
    [] p = "send404" -> <<"404", "headers", "Not found">>

Sending == pc \in {"send200", "send404"}

\* send() of the status line, of the headers, of the body, in this order.
Send ==
  /\ Sending
  /\ open
  /\ Len(wire) < 3
  /\ wire' = Append(wire, Reply(pc)[Len(wire) + 1])
  /\ UNCHANGED <<sent, end, eof, cuts, pc, req, open>>

\* A send() on a closed conn_fd, or to a client that has reset, fails.
SendFails ==
  /\ Sending
  /\ Len(wire) < 3
  /\ open' = FALSE
  /\ pc' = "done"
  /\ UNCHANGED <<sent, end, eof, cuts, req, wire>>

\* A send() to a client that is gone raises SIGPIPE, which nothing handles.
BrokenPipe ==
  /\ Sending
  /\ open /\ eof /\ Len(wire) < 3
  /\ open' = FALSE
  /\ pc' = "killed"
  /\ UNCHANGED <<sent, end, eof, cuts, req, wire>>

Finish ==
  /\ Sending
  /\ Len(wire) = 3
  /\ open' = FALSE
  /\ pc' = "done"
  /\ UNCHANGED <<sent, end, eof, cuts, req, wire>>

-------------------------------------------------------------------------------
\* The client closes its side, after any part of its stream.
ClientCloses ==
  /\ ~eof
  /\ eof' = TRUE
  /\ end' \in pos .. end
  /\ UNCHANGED <<sent, cuts, pc, req, open, wire>>

Segment == \E j \in Ends : Receive(j) \/ Overrun(j) \/ ParseFails(j)

Respond == LeaveLoop \/ NoResponse \/ FileServe \/ Send \/ SendFails \/ BrokenPipe \/ Finish

Next ==
  \/ NoRequest
  \/ Segment
  \/ ReceiveFails
  \/ OutOfMemory
  \/ Abort
  \/ Respond
  \/ ClientCloses

Spec == Init /\ [][Next]_vars

\* The worker runs, the network delivers what the client has sent, and the
\* client reads what it is sent. It need not send all of its request, nor close.
FairSpec == Spec /\ WF_vars(Segment) /\ WF_vars(OutOfMemory) /\ WF_vars(Respond)

-------------------------------------------------------------------------------
TypeOK ==
  /\ sent \in Streams
  /\ eof \in BOOLEAN /\ open \in BOOLEAN
  /\ pc \in {"loop", "respond", "send200", "send404", "done", "crashed", "killed"}
  /\ cuts \in Seq(0 .. Len(sent)) /\ Len(cuts) <= MaxBuffers
  /\ pos <= end /\ end <= Len(sent)
  /\ req.method \in Methods \cup {"none", "other"}
  /\ {req.line, req.hdrs, req.bodyRead, req.done} \subseteq BOOLEAN
  /\ Len(wire) <= 3

\* What a client must have sent to be answered, although the code after the
\* receive loop also runs when the loop failed: a GET its method, in the first
\* segment, however little of the rest; another request a blank line, in the last
\* segment received, and a Content-Length before it in the first.
AnswerNeedsRequest ==
  wire # <<>> =>
    \/ Len(cuts) = 1 /\ Method(Buffer(1)) = "GET"
    \/ /\ BlankLines(Buffer(Len(cuts))) # {}
       /\ Len(req.body) - 1 \in Declared(HeaderLines(Buffer(1)))

\* A GET is answered from its first segment, whatever of it is still to come:
\* the worker never waits in recv() for the rest (voy_request_parse_headers).
GetReadsOnce == req.method = "GET" => Len(cuts) <= 1

\* However the stream is cut into segments, a body is what follows an LF CR of it
\* and one more symbol, without a gap, up to the byte that the last segment lost,
\* and zeroes from there (voy_request_parse_body). If the LF CR of its blank line
\* is the only one a client sends, its body is neither shifted nor mixed with its
\* headers. What was behind the buffer is only in a body declared that long.
BodyFromStream ==
  req.body # NoBody =>
    \E p \in Pairs(sent, LF, CR) :
      /\ p + 1 < pos
      /\ \A j \in 1 .. Len(req.body) - 1 :
           IF p + 2 + j < pos THEN req.body[j] = sent[p + 2 + j]
           ELSE req.body[j] = NUL \/ (req.body[j] = Junk /\ p + 2 + j > RecvLen)

\* A worker crashes only if nothing was received (req->uri is NULL), if the first
\* segment ended before the CR of its request line, or if a method, an empty URI, a
\* header line or the length declared does not fit. A client that sends its request line at once
\* and keeps to the sizes of the buffers is served, however its stream is cut.
CrashNeedsMisfit ==
  pc = "crashed" =>
    \/ cuts = <<>>
    \/ StartOverruns(Buffer(1)) \/ LineOverruns(Buffer(1))
    \/ BodyOverruns(Buffer(Len(cuts)), HeaderLines(Buffer(1)))

\* A GET whose request line was read always comes to an end, even if the client
\* sends nothing more and keeps its side open.
GetEnds == req.method = "GET" ~> Ended

\* A worker whose client has closed its side comes to an end. recv() returning
\* 0 does not tell it: an unfinished request ends with the memory.
EofEnds == eof ~> Ended

\* "Once we reach the body, we break" (voy_request_parse_headers): what is
\* stored as headers comes from in front of the blank line.
HeadersEndAtBody ==
  req.hdrs =>
    LET text == Text(Buffer(1))
    IN  req.lines = LinesOf(SubSeq(text, 1, Min(Pairs(text, LF, CR) \cup {Len(text)})))
===============================================================================
