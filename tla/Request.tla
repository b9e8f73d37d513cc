------------------------------ MODULE Request ------------------------------
(***************************************************************************)
(* How a Request is assembled from the buffers recv() returns              *)
(* (server/request/Request.cpp, driven by Server::receiver).  One message  *)
(* is sent; TCP delivers it cut anywhere, and every buffer is one step.    *)
(*                                                                         *)
(* A byte, or a run of bytes that no statement tells apart, is a token: a  *)
(* line is two tokens and its CR and LF, so that a cut may fall inside a   *)
(* line, between CR and LF, or after them; a body byte is a token of its   *)
(* own, numbered, so that a lost or displaced byte shows.                  *)
(***************************************************************************)
EXTENDS Integers, SequencesExt

CONSTANTS
    Messages,   \* the messages a client may send
    Alignments  \* the values of aligned

Tok(part, n) == [part |-> part, n |-> n]
CRLF == <<Tok("cr", 0), Tok("lf", 0)>>

\* A header line named part, carrying the number n, without its line end.
Text(part, n) == <<Tok(part, n), Tok("tail", n)>>

StartLine(m)  == Text(m.method, 0)
HostLine      == Text("host", 0)   \* a header nothing reads
LengthLine(m) == Text("length", m.announced)
EncodingLine  == Text("chunked", 0)

Data(from, n) == [i \in 1..n |-> Tok("byte", from + i)]

\* A message: its method, and a body of m.length bytes, behind a
\* Content-Length of m.announced or in two chunks (and the chunk of size 0).
HeaderLines(m) ==
    <<StartLine(m), HostLine>> \o (CASE m.body = "none"    -> <<>>
                                     [] m.body = "length"  -> <<LengthLine(m)>>
                                     [] m.body = "chunked" -> <<EncodingLine>>)

Chunk(from, n) == <<Tok("size", n)>> \o CRLF \o Data(from, n) \o CRLF

\* What the header, and each later part, looks like on the wire.
HeaderParts(m) == [i \in 1..Len(HeaderLines(m)) |-> HeaderLines(m)[i] \o CRLF] \o <<CRLF>>

BodyParts(m) ==
    CASE m.body = "none"    -> <<>>
      [] m.body = "length"  -> [i \in 1..m.length |-> Data(i - 1, 1)]
      [] m.body = "chunked" -> <<Chunk(0, 1), Chunk(1, m.length - 1), Chunk(m.length, 0)>>

Wire(m) == FlattenSeq(HeaderParts(m) \o BodyParts(m))

\* The body a reader of the whole message must end with.
Body(m) == Data(0, m.length)

\* The greatest Content-Length stoi takes.  Above it std::out_of_range leaves
\* process_post, which nothing catches: the process ends (module Site).
MaxInt == 2147483647

\* Bytes behind a header that announces none belong to no request.
ASSUME MessagesAssumption == \A m \in Messages :
    /\ m.method \in {"GET", "POST"}
    /\ m.body \in {"none", "length", "chunked"}
    /\ m.length \in Nat /\ m.announced \in 0..MaxInt
    /\ m.body = "none" => m.length = 0
    /\ m.body = "chunked" => m.length > 1
ASSUME AlignmentsAssumption == Alignments \subseteq BOOLEAN

VARIABLES
    aligned,  \* whether buffers end only where lines, body bytes or chunks do
    msg,      \* the message sent
    wire,     \* its part not yet received
    req       \* the Request object

vars == <<aligned, msg, wire, req>>

\* lines: _header_lines; headers: the lines parse_headers has made into
\* _headers; left: _chunk_length.
NewRequest == [lines |-> <<>>, headers |-> {}, type |-> "NONE", body |-> <<>>, left |-> 0,
               hdr |-> FALSE, done |-> FALSE, bad |-> FALSE, chunked |-> FALSE]

-----------------------------------------------------------------------------
\* read_header

StartsWithCRLF(buf) == Len(buf) >= 2 /\ SubSeq(buf, 1, 2) = CRLF

\* find_request_type: the method, if it is found in what precedes the first
\* space, which only a tail holds.
TypeOfLine(line) ==
    LET named == {line[i].part : i \in 1..Len(line)} \cap {"GET", "POST"}
    IN  IF named = {} THEN "NONE" ELSE CHOOSE t \in named : TRUE

\* Mutant: every line is taken for a first line.
FindTypeOfAny(r) ==
    IF r.lines = <<>> THEN r
    ELSE IF TypeOfLine(Last(r.lines)) = "NONE" THEN [r EXCEPT !.bad = TRUE]
    ELSE [r EXCEPT !.type = TypeOfLine(Last(r.lines))]

\* The first line is looked at when a second line end comes up behind it.
FindType(r) ==
    IF Len(r.lines) # 1 THEN r
    ELSE IF TypeOfLine(r.lines[1]) = "NONE" THEN [r EXCEPT !.bad = TRUE]
    ELSE [r EXCEPT !.type = TypeOfLine(r.lines[1])]

\* One token of the buffer.  cur is the line begun, which is forgotten when
\* the buffer ends before its CRLF.
HeaderToken(a, tok) ==
    LET cur == Append(a.cur, tok)
        r   == FindType(a.r)
    IN  CASE a.r.bad -> a
          [] ~a.r.bad /\ a.r.hdr -> [a EXCEPT !.r.body = Append(@, tok)]
          [] ~a.r.bad /\ ~a.r.hdr /\ ~IsSuffix(CRLF, cur) -> [a EXCEPT !.cur = cur]
          [] ~a.r.bad /\ ~a.r.hdr /\ IsSuffix(CRLF, cur) ->
                [cur |-> <<>>,
                 r |-> IF r.bad THEN r
                       ELSE IF cur = CRLF THEN [r EXCEPT !.hdr = TRUE]
                       ELSE [r EXCEPT !.lines = Append(@, SubSeq(cur, 1, Len(cur) - 2))]]

HasHeader(r, part) == \E line \in r.headers : line[1].part = part

ContentLength(r) == (CHOOSE line \in r.headers : line[1].part = "length")[1].n

\* parse_headers: a line keeps its meaning when it is whole.
ParseHeaders(r) ==
    [r EXCEPT !.headers = {line \in ToSet(Tail(r.lines)) :
        line \in {Text("length", line[i].n) : i \in 1..Len(line)} \cup {EncodingLine}}]

\* process_post, on a request whose headers are parsed.
ProcessPost(r) ==
    IF HasHeader(r, "chunked") THEN [r EXCEPT !.chunked = TRUE]
    ELSE IF ~HasHeader(r, "length") THEN [r EXCEPT !.done = TRUE]
    ELSE [r EXCEPT !.done = ContentLength(r) >= 1 /\ Len(r.body) = ContentLength(r)]

FinishHeader(r) ==
    IF ~r.hdr THEN r
    ELSE IF r.type = "POST" THEN ProcessPost(ParseHeaders(r))
    ELSE [ParseHeaders(r) EXCEPT !.done = TRUE]

\* The request and the line begun, after each token of the buffer.
ReadTokens(r, buf) ==
    LET after[n \in 0..Len(buf)] == IF n = 0 THEN [cur |-> <<>>, r |-> r]
                                    ELSE HeaderToken(after[n - 1], buf[n])
    IN  after

ReadHeader(r, buf) ==
    IF r.lines = <<>> /\ StartsWithCRLF(buf) THEN r
    ELSE FinishHeader(ReadTokens(r, buf)[Len(buf)].r)

-----------------------------------------------------------------------------
\* add_body

\* Mutant: only the CR is passed over.
AfterCR(buf) ==
    LET ends == {i \in 2..Len(buf) : SubSeq(buf, i - 1, i) = CRLF}
    IN  IF ends = {} THEN 1 ELSE CHOOSE i \in ends : \A j \in ends : i <= j

\* Where the buffer goes on behind its first CRLF; find() + 2 wraps to 1 when
\* there is none.
AfterCRLF(buf) ==
    LET ends == {i \in 2..Len(buf) : SubSeq(buf, i - 1, i) = CRLF}
    IN  IF ends = {} THEN 2 ELSE (CHOOSE i \in ends : \A j \in ends : i <= j) + 1

\* The token stod begins at: it passes over white space, and so over the LF of
\* a CRLF cut in two.  A CRLF at the front leaves it nothing to read.
SizeAt(buf) == IF buf[1].part = "lf" /\ Len(buf) > 1 THEN 2 ELSE 1

\* process_chunk: a size is read when no chunk is under way; at most that many
\* bytes are taken behind the first CRLF, and the rest of the buffer is dropped.
ProcessChunk(r, buf) ==
    LET first == buf[SizeAt(buf)]
        sized == r.left # 0 \/ first.part = "size"
        size  == IF r.left # 0 THEN r.left ELSE IF sized THEN first.n ELSE 0
        from  == AfterCRLF(buf)
        upto  == IF from + size - 1 <= Len(buf) THEN from + size - 1 ELSE Len(buf)
        taken == SubSeq(buf, from, upto)
    IN  [r EXCEPT !.bad = @ \/ ~sized,
                  !.done = @ \/ (size = 0 /\ taken = <<>>),
                  !.left = size - Len(taken),
                  !.body = @ \o taken]

\* Mutant: the length is only compared before the buffer is appended.
AddBodyLate(r, buf) ==
    IF r.type # "POST" THEN r
    ELSE IF r.chunked THEN ProcessChunk(r, buf)
    ELSE IF ~HasHeader(r, "length") THEN r
    ELSE [r EXCEPT !.body = @ \o buf, !.done = @ \/ ContentLength(r) = Len(r.body)]

AddBody(r, buf) ==
    IF r.type # "POST" THEN r
    ELSE IF r.chunked THEN ProcessChunk(r, buf)
    ELSE IF ~HasHeader(r, "length") THEN r
    ELSE [r EXCEPT !.body = @ \o buf,
                   !.done = @ \/ ContentLength(r) \in {Len(r.body), Len(r.body) + Len(buf)}]

-----------------------------------------------------------------------------
F == INSTANCE RequestFlags WITH Conns <- {"client"}

FlagsOf(r) == [src |-> "client", type |-> r.type, hdr |-> r.hdr, done |-> r.done, bad |-> r.bad]

\* receiver()'s test that the request can be answered.
Received(r) == F!Received(FlagsOf(r))

\* Where a buffer may end.  Aligned buffers end with a header line, a body byte
\* or a chunk, and hold one chunk each, with nothing of the header before it.
Position == Len(Wire(msg)) - Len(wire)

Ends(parts) == {Len(FlattenSeq(SubSeq(parts, 1, i))) : i \in 1..Len(parts)}

HeaderEnd == Len(FlattenSeq(HeaderParts(msg)))

Cuts ==
    LET cuts == Position + 1..Len(Wire(msg))
        ends == cuts \cap Ends(HeaderParts(msg) \o BodyParts(msg))
    IN  CASE ~aligned -> cuts
          [] aligned /\ msg.body # "chunked" -> ends
          [] aligned /\ msg.body = "chunked" /\ Position < HeaderEnd ->
                {p \in ends : p <= HeaderEnd}
          [] aligned /\ msg.body = "chunked" /\ Position >= HeaderEnd ->
                {p \in ends : \A q \in ends : p <= q}

Init ==
    /\ aligned \in Alignments
    /\ msg \in Messages
    /\ wire = Wire(msg)
    /\ req = NewRequest

\* receiver(): one buffer of the message.
Receive ==
    /\ wire # <<>>
    /\ ~Received(req)
    /\ \E cut \in Cuts :
          LET n   == cut - Position
              buf == SubSeq(wire, 1, n)
          IN  /\ req' = IF req.hdr THEN AddBody(req, buf) ELSE ReadHeader(req, buf)
              /\ wire' = SubSeq(wire, n + 1, Len(wire))
    /\ UNCHANGED <<aligned, msg>>

Next == Receive

Spec == Init /\ [][Next]_vars

-----------------------------------------------------------------------------
\* The comment of launch() (Server.cpp:176-178): the client is put back as
\* POLLOUT when its request is finished, and left as POLLIN while it is not.
AnsweredWhenFinished == Received(req) => wire = <<>>

\* The messages that hold what they announce.  A length of 0 announces a body
\* process_post waits for.
AsAnnounced(m) ==
    m.method = "POST" /\ m.body = "length" => m.announced = m.length /\ m.announced >= 1

\* The messages read to their end with a body still to come.
Short(m) ==
    /\ m.method = "POST" /\ m.body = "length"
    /\ m.length < m.announced \/ m.length = 0

\* Once a message has arrived whole, in aligned buffers, it is answered if it
\* holds what it announces, and is not if it falls short of that: a POST of
\* Content-Length 0 is waited for.
WholeIsAnswered ==
    aligned /\ wire = <<>> =>
        /\ ~req.bad
        /\ AsAnnounced(msg) => Received(req)
        /\ Short(msg) => ~Received(req)

\* What is answered is what was sent: the method, and every byte of the body
\* once, in order, without the framing of its chunks.  A GET is answered at the
\* end of its header, whatever of its body has arrived by then; a POST whose
\* length is announced with exactly that many bytes, so that a buffer that
\* leads past the length leaves it unanswered for good.
ReceivedIsSent ==
    aligned /\ Received(req) =>
        /\ req.type = msg.method
        /\ IsPrefix(req.body, Body(msg))
        /\ msg.method = "POST" /\ msg.body = "length" =>
               msg.announced = 0 \/ Len(req.body) = msg.announced
        /\ msg.body = "none" \/ (msg.method = "POST" /\ msg.body = "chunked") =>
               wire = <<>> /\ req.body = Body(msg)

\* Wherever the message is cut, a buffer changes the flags of the request in
\* one of the ways the poll loop's model allows for (and an answerable request
\* is not read further).
FlagsFollow ==
    [][FlagsOf(req') \in IF req.hdr THEN F!AddBody(FlagsOf(req))
                                    ELSE F!ReadHeader(FlagsOf(req))]_vars

=============================================================================
