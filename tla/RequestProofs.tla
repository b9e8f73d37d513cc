--------------------------- MODULE RequestProofs ---------------------------
(***************************************************************************)
(* Theorems about Request: for every set of messages and every way of      *)
(* cutting them, what a buffer does to the flags the poll loop reads is    *)
(* what RequestFlags, and so Server, allows for.  In the second part TCP   *)
(* cuts a message only where a line, a body byte or a chunk ends, and what *)
(* is answered is what was sent.                                           *)
(*                                                                         *)
(* A buffer is read token by token, by a function recursive in the number  *)
(* of tokens: Iterates of SequenceLemmas.                                  *)
(***************************************************************************)
EXTENDS Request, SequenceLemmas

-----------------------------------------------------------------------------
(***************************************************************************)
(* The wire is a sequence of tokens.                                       *)
(***************************************************************************)

Parts ==
    {"cr", "lf", "GET", "POST", "host", "length", "chunked", "tail", "byte", "size"}

Token == [part : Parts, n : Nat]

LEMMA PiecesAre ==
    /\ CRLF \in Seq(Token)
    /\ \A p \in Parts : \A n \in Nat : Text(p, n) \in Seq(Token)
    /\ \A k, n \in Nat : Data(k, n) \in Seq(Token) /\ Chunk(k, n) \in Seq(Token)
<1>1. \A p \in Parts : \A n \in Nat : Tok(p, n) \in Token
      BY DEF Tok, Token
<1>2. CRLF \in Seq(Token)
      BY <1>1 DEF CRLF, Parts
<1>3. \A p \in Parts : \A n \in Nat : Text(p, n) \in Seq(Token)
      BY <1>1 DEF Text, Parts
<1>4. ASSUME NEW k \in Nat, NEW n \in Nat PROVE Data(k, n) \in Seq(Token)
      BY <1>1 DEF Data, Parts
<1>5. ASSUME NEW k \in Nat, NEW n \in Nat PROVE Chunk(k, n) \in Seq(Token)
  <2>1. <<Tok("size", n)>> \in Seq(Token)
        BY <1>1 DEF Parts
  <2>   QED
        BY <1>2, <1>4, <2>1 DEF Chunk
<1>   QED
      BY <1>2, <1>3, <1>4, <1>5

LEMMA WireIs ==
    ASSUME NEW m \in Messages
    PROVE  /\ Wire(m) \in Seq(Token)
           /\ FlattenSeq(HeaderParts(m)) \in Seq(Token)
<1>1. /\ m.method \in {"GET", "POST"} /\ m.length \in Nat /\ m.announced \in Nat
      /\ m.body \in {"none", "length", "chunked"}
      /\ m.body = "chunked" => m.length - 1 \in Nat
      BY MessagesAssumption
<1>2. HeaderLines(m) \in Seq(Seq(Token))
  <2>1. /\ StartLine(m) \in Seq(Token) /\ HostLine \in Seq(Token)
        /\ LengthLine(m) \in Seq(Token) /\ EncodingLine \in Seq(Token)
        BY <1>1, PiecesAre DEF StartLine, HostLine, LengthLine, EncodingLine, Parts
  <2>   QED
        BY <1>1, <2>1 DEF HeaderLines
<1>3. HeaderParts(m) \in Seq(Seq(Token))
  <2>1. CRLF \in Seq(Token) /\ Len(HeaderLines(m)) \in Nat
        BY <1>2, PiecesAre
  <2>2. \A i \in 1..Len(HeaderLines(m)) : HeaderLines(m)[i] \o CRLF \in Seq(Token)
        BY <1>2, <2>1
  <2>3. [i \in 1..Len(HeaderLines(m)) |-> HeaderLines(m)[i] \o CRLF] \in Seq(Seq(Token))
        BY <2>1, <2>2
  <2>   QED
        BY <2>1, <2>3 DEF HeaderParts
<1>4. BodyParts(m) \in Seq(Seq(Token))
  <2>1. CASE m.body = "none"
        BY <2>1 DEF BodyParts
  <2>2. CASE m.body = "length"
    <3>1. \A i \in 1..m.length : Data(i - 1, 1) \in Seq(Token)
          BY <1>1, PiecesAre
    <3>   QED
          BY <1>1, <2>2, <3>1 DEF BodyParts
  <2>3. CASE m.body = "chunked"
    <3>1. /\ Chunk(0, 1) \in Seq(Token) /\ Chunk(1, m.length - 1) \in Seq(Token)
          /\ Chunk(m.length, 0) \in Seq(Token)
          BY <1>1, <2>3, PiecesAre
    <3>   QED
          BY <2>3, <3>1 DEF BodyParts
  <2>   QED
        BY <1>1, <2>1, <2>2, <2>3
<1>5. HeaderParts(m) \o BodyParts(m) \in Seq(Seq(Token))
      BY <1>3, <1>4
<1>   QED
      BY <1>3, <1>5, FlattenIs DEF Wire

-----------------------------------------------------------------------------
(***************************************************************************)
(* read_header, one token after the other.                                 *)
(***************************************************************************)

RequestType ==
    [lines : Seq(Seq(Token)), headers : SUBSET Seq(Token),
     type : {"NONE", "GET", "POST"}, body : Seq(Token), left : Nat,
     hdr : BOOLEAN, done : BOOLEAN, bad : BOOLEAN, chunked : BOOLEAN]

\* While the header is read the method is known once two lines are, for it is
\* the end of the second that has the first looked at.
Pending(r) ==
    ~r.bad /\ ~r.hdr => (r.type = "NONE" <=> Len(r.lines) < 2)

\* Where the reading of buf that began with r may be after n tokens.
ReadTo(r, buf, n) ==
    {a \in [cur : Seq(Token), r : RequestType] :
        /\ ~a.r.done
        /\ a.r.bad => r.type = "NONE" /\ a.r.type = "NONE" /\ ~a.r.hdr
        /\ r.type # "NONE" => a.r.type = r.type
        /\ a.r.hdr => a.r.type # "NONE" /\ a.r.lines # <<>>
        /\ Pending(a.r)
        /\ ~a.r.bad /\ ~a.r.hdr /\ a.r.lines = <<>> => a.cur = SubSeq(buf, 1, n)
        /\ a.r.lines = <<>> => r.lines = <<>>}

LEMMA FindTypeIs ==
    ASSUME NEW r \in RequestType, ~r.bad
    PROVE  /\ FindType(r) \in RequestType
           /\ FindType(r).lines = r.lines
           /\ FindType(r).hdr = r.hdr
           /\ FindType(r).done = r.done
           /\ Len(r.lines) # 1 => FindType(r) = r
           /\ Len(r.lines) = 1 =>
                 IF FindType(r).bad THEN FindType(r).type = r.type
                 ELSE FindType(r).type # "NONE"
<1>1. TypeOfLine(r.lines[1]) \in {"NONE", "GET", "POST"}
      BY DEF TypeOfLine
<1>2. CASE Len(r.lines) # 1
      BY <1>2 DEF FindType
<1>3. CASE Len(r.lines) = 1 /\ TypeOfLine(r.lines[1]) = "NONE"
      BY <1>3 DEF FindType, RequestType
<1>4. CASE Len(r.lines) = 1 /\ TypeOfLine(r.lines[1]) # "NONE"
      BY <1>1, <1>4 DEF FindType, RequestType
<1>   QED
      BY <1>2, <1>3, <1>4

LEMMA CRLFIs ==
    /\ CRLF \in Seq(Token) /\ Len(CRLF) = 2
    /\ \A cur \in Seq(Token) : IsSuffix(CRLF, cur) => Len(cur) >= 2
    /\ \A buf \in Seq(Token) : \A n \in 0..Len(buf) :
          SubSeq(buf, 1, n) = CRLF => StartsWithCRLF(buf)
<1>1. CRLF \in Seq(Token) /\ Len(CRLF) = 2
      BY PiecesAre DEF CRLF
<1>2. ASSUME NEW cur \in Seq(Token), IsSuffix(CRLF, cur) PROVE Len(cur) >= 2
  <2>1. ASSUME NEW s \in Seq(Token) PROVE Len(Reverse(s)) = Len(s)
    <3>1. Reverse(s) = [k \in 1..Len(s) |-> s[(Len(s) - k) + 1]] /\ Len(s) \in Nat
          BY DEF Reverse
    <3>2. \A k \in 1..Len(s) : (Len(s) - k) + 1 \in 1..Len(s)
          BY <3>1
    <3>3. Reverse(s) \in Seq(Token) /\ DOMAIN Reverse(s) = 1..Len(s)
          BY <3>1, <3>2
    <3>   QED
          BY <3>1, <3>3
  <2>   QED
        BY <1>1, <1>2, <2>1 DEF IsSuffix, IsPrefix
<1>3. ASSUME NEW buf \in Seq(Token), NEW n \in 0..Len(buf), SubSeq(buf, 1, n) = CRLF
      PROVE  StartsWithCRLF(buf)
  <2>1. n = 2
    <3>1. Len(SubSeq(buf, 1, n)) = n
          OBVIOUS
    <3>   QED
          BY <1>1, <1>3, <3>1
  <2>   QED
        BY <1>3, <2>1 DEF StartsWithCRLF
<1>   QED
      BY <1>1, <1>2, <1>3

LEMMA TokenKeeps ==
    ASSUME NEW r \in RequestType, NEW buf \in Seq(Token),
           ~ (r.lines = <<>> /\ StartsWithCRLF(buf)),
           NEW i \in 1..Len(buf), NEW a \in ReadTo(r, buf, i - 1)
    PROVE  HeaderToken(a, buf[i]) \in ReadTo(r, buf, i)
<1>   DEFINE tok == buf[i]
             cur == Append(a.cur, tok)
             found == FindType(a.r)
             line == SubSeq(cur, 1, Len(cur) - 2)
<1>1. /\ tok \in Token /\ a.cur \in Seq(Token) /\ cur \in Seq(Token)
      /\ a.r \in RequestType /\ a = [cur |-> a.cur, r |-> a.r]
      BY DEF ReadTo
<1>2. CASE a.r.bad
  <2>1. HeaderToken(a, tok) = a
        BY <1>2 DEF HeaderToken
  <2>   QED
        BY <1>1, <1>2, <2>1 DEF ReadTo
<1>3. CASE ~a.r.bad /\ a.r.hdr
  <2>1. HeaderToken(a, tok) = [a EXCEPT !.r.body = Append(@, tok)]
        BY <1>3 DEF HeaderToken
  <2>2. PICK body \in Seq(Token) : body = Append(a.r.body, tok)
    <3>1. a.r.body \in Seq(Token) /\ tok \in Token
          BY <1>1 DEF RequestType
    <3>2. Append(a.r.body, tok) \in Seq(Token)
          BY <3>1
    <3>   HIDE DEF tok
    <3>   QED
          BY <3>2
  <2>   DEFINE more == [a.r EXCEPT !.body = body]
  <2>3. HeaderToken(a, tok) = [cur |-> a.cur, r |-> more]
        BY <1>1, <2>1, <2>2
  <2>4. more \in RequestType
        BY <1>1, <2>2 DEF RequestType
  <2>5. /\ more.lines = a.r.lines /\ more.type = a.r.type /\ more.bad = a.r.bad
        /\ more.done = a.r.done /\ more.hdr = a.r.hdr
        BY <1>1 DEF RequestType
  <2>6. /\ ~a.r.done /\ a.r.type # "NONE" /\ a.r.lines # <<>>
        /\ r.type # "NONE" => a.r.type = r.type
        BY <1>3 DEF ReadTo
  <2>7. a.cur \in Seq(Token)
        BY <1>1
  <2>8. ~more.done /\ ~more.bad /\ more.hdr /\ more.type # "NONE" /\ more.lines # <<>>
        BY <1>3, <2>5, <2>6
  <2>9. r.type # "NONE" => more.type = r.type
        BY <2>5, <2>6
  <2>   HIDE DEF more
  <2>10. [cur |-> a.cur, r |-> more] \in ReadTo(r, buf, i)
        BY <2>4, <2>7, <2>8, <2>9 DEF ReadTo, Pending
  <2>   QED
        BY <2>3, <2>10
<1>4. CASE ~a.r.bad /\ ~a.r.hdr /\ ~IsSuffix(CRLF, cur)
  <2>1. HeaderToken(a, tok) = [a EXCEPT !.cur = cur]
        BY <1>4 DEF HeaderToken
  <2>2. a.cur = SubSeq(buf, 1, i - 1) => cur = SubSeq(buf, 1, i)
        OBVIOUS
  <2>   QED
        BY <1>1, <1>4, <2>1, <2>2 DEF ReadTo
<1>5. CASE ~a.r.bad /\ ~a.r.hdr /\ IsSuffix(CRLF, cur)
  <2>1. HeaderToken(a, tok) =
            [cur |-> <<>>,
             r |-> IF found.bad THEN found
                   ELSE IF cur = CRLF THEN [found EXCEPT !.hdr = TRUE]
                   ELSE [found EXCEPT !.lines = Append(@, line)]]
        BY <1>5 DEF HeaderToken
  <2>2. a.cur = SubSeq(buf, 1, i - 1) => cur = SubSeq(buf, 1, i)
        OBVIOUS
  <2>   HIDE DEF cur, found
  <2>3. cur \in Seq(Token) /\ Len(cur) >= 2
        BY <1>1, <1>5, CRLFIs
  <2>4. line \in Seq(Token)
        BY <2>3
  <2>   HIDE DEF line
  <2>5. PICK lines \in Seq(Seq(Token)) : lines = a.r.lines
        BY <1>1 DEF RequestType
  <2>6. PICK k \in Nat : k = Len(lines) /\ (lines = <<>> <=> k = 0)
        OBVIOUS
  <2>7. /\ found \in RequestType /\ found.lines = lines
        /\ ~found.hdr /\ ~found.done
        /\ k # 1 => found = a.r
        /\ k = 1 => IF found.bad THEN found.type = a.r.type
                    ELSE found.type # "NONE"
    <3>1. ~a.r.hdr /\ ~a.r.done
          BY <1>5 DEF ReadTo
    <3>   QED
          BY <1>1, <1>5, <2>5, <2>6, <3>1, FindTypeIs DEF found
  <2>8. /\ a.r.type = "NONE" <=> k < 2
        /\ r.type # "NONE" => a.r.type = r.type
        /\ lines = <<>> => r.lines = <<>> /\ a.cur = SubSeq(buf, 1, i - 1)
        BY <1>5, <2>5, <2>6 DEF ReadTo, Pending
  <2>9. <<>> \in Seq(Token)
        OBVIOUS
  <2>10. CASE found.bad
    <3>1. k = 1
          BY <1>5, <2>7, <2>10
    <3>2. found.type = "NONE" /\ r.type = "NONE" /\ found.lines # <<>>
          BY <2>6, <2>7, <2>8, <2>10, <3>1
    <3>   QED
          BY <2>1, <2>7, <2>9, <2>10, <3>2 DEF ReadTo, Pending
  <2>11. r.type # "NONE" => found.type = r.type
    <3>1. CASE k = 1
          BY <2>8, <3>1
    <3>2. CASE k # 1
          BY <2>7, <2>8, <3>2
    <3>   QED
          BY <3>1, <3>2
  <2>12. CASE ~found.bad /\ cur = CRLF
    <3>1. lines # <<>>
      <4>1. i \in 0..Len(buf)
            OBVIOUS
      <4>   QED
            BY <2>2, <2>8, <2>12, <4>1, CRLFIs
    <3>2. found.type # "NONE"
      <4>1. CASE k = 1
            BY <2>7, <2>12, <4>1
      <4>2. CASE k # 1
        <5>1. ~ (k < 2)
              BY <2>6, <3>1, <4>2
        <5>   QED
              BY <2>7, <2>8, <4>2, <5>1
      <4>   QED
            BY <4>1, <4>2
    <3>   DEFINE ended == [found EXCEPT !.hdr = TRUE]
    <3>3. ended \in RequestType
          BY <2>7 DEF RequestType
    <3>4. HeaderToken(a, tok) = [cur |-> <<>>, r |-> ended]
          BY <2>1, <2>12
    <3>5. /\ ended.lines = found.lines /\ ended.type = found.type
          /\ ended.bad = found.bad /\ ended.done = found.done /\ ended.hdr
          BY <2>7 DEF RequestType
    <3>   HIDE DEF ended
    <3>   QED
          BY <2>7, <2>9, <2>11, <2>12, <3>1, <3>2, <3>3, <3>4, <3>5 DEF ReadTo, Pending
  <2>13. CASE ~found.bad /\ cur # CRLF
    <3>1. PICK longer \in Seq(Seq(Token)) : /\ longer = Append(lines, line)
                                            /\ Len(longer) = k + 1
                                            /\ longer # <<>>
      <4>1. /\ Append(lines, line) \in Seq(Seq(Token))
            /\ Len(Append(lines, line)) = Len(lines) + 1
            /\ Append(lines, line) # <<>>
        <5>   HIDE DEF line
        <5>   QED
              BY <2>4, AppendProperties
      <4>   QED
            BY <2>6, <4>1
    <3>   DEFINE more == [found EXCEPT !.lines = longer]
    <3>2. /\ more.lines = longer /\ more.type = found.type
          /\ more.bad = found.bad /\ more.done = found.done /\ more.hdr = found.hdr
          BY <2>7 DEF RequestType
    <3>3. more \in RequestType
          BY <2>7 DEF RequestType
    <3>4. HeaderToken(a, tok) = [cur |-> <<>>, r |-> more]
          BY <2>1, <2>7, <2>13, <3>1
    <3>5. found.type = "NONE" <=> Len(longer) < 2
      <4>1. CASE k = 1
            BY <2>7, <2>13, <3>1, <4>1
      <4>2. CASE k # 1
        <5>1. k + 1 < 2 <=> k < 2
              BY <4>2
        <5>   QED
              BY <2>7, <2>8, <3>1, <4>2, <5>1
      <4>   QED
            BY <4>1, <4>2
    <3>   HIDE DEF more
    <3>   QED
          BY <2>7, <2>9, <2>11, <2>13, <3>1, <3>2, <3>3, <3>4, <3>5 DEF ReadTo, Pending
  <2>   QED
        BY <2>10, <2>12, <2>13
<1>   QED
      BY <1>2, <1>3, <1>4, <1>5

LEMMA TokensAre ==
    ASSUME NEW r \in RequestType, ~r.bad, ~r.hdr, ~r.done, Pending(r),
           NEW buf \in Seq(Token), ~ (r.lines = <<>> /\ StartsWithCRLF(buf))
    PROVE  ReadTokens(r, buf)[Len(buf)] \in ReadTo(r, buf, Len(buf))
<1>   DEFINE n == Len(buf)
             good == [i \in 0..n |-> ReadTo(r, buf, i)]
             step == [i \in 1..n |->
                        [a \in ReadTo(r, buf, i - 1) |-> HeaderToken(a, buf[i])]]
             begin == [cur |-> <<>>, r |-> r]
             after == ReadTokens(r, buf)
<1>1. n \in Nat
      OBVIOUS
<1>2. \A i \in 1..n : /\ i - 1 \in 0..n /\ i \in 0..n
                      /\ good[i - 1] = ReadTo(r, buf, i - 1)
                      /\ good[i] = ReadTo(r, buf, i)
      BY <1>1
<1>3. \A i \in 1..n : \A a \in ReadTo(r, buf, i - 1) :
        /\ step[i][a] = HeaderToken(a, buf[i])
        /\ HeaderToken(a, buf[i]) \in ReadTo(r, buf, i)
      BY TokenKeeps
<1>4. begin \in ReadTo(r, buf, 0)
  <2>1. SubSeq(buf, 1, 0) = <<>> /\ <<>> \in Seq(Token)
        OBVIOUS
  <2>2. r.lines = <<>> => Len(r.lines) < 2
        OBVIOUS
  <2>   QED
        BY <2>1, <2>2 DEF ReadTo
<1>5. PICK g : RunsIn(g, n, begin, step, good)
  <2>1. begin \in good[0]
        BY <1>1, <1>4
  <2>2. Leads(n, step, good)
    <3>   HIDE DEF good, step, n
    <3>   QED
          BY <1>2, <1>3 DEF Leads
  <2>   HIDE DEF good, step, n, begin
  <2>   QED
        BY <1>1, <2>1, <2>2, Iterates
<1>6. g = [i \in 0..n |-> IF i = 0 THEN begin ELSE HeaderToken(g[i - 1], buf[i])]
  <2>1. ASSUME NEW i \in 0..n
        PROVE  g[i] = IF i = 0 THEN begin ELSE HeaderToken(g[i - 1], buf[i])
    <3>1. CASE i = 0
          BY <1>5, <3>1 DEF RunsIn
    <3>2. CASE i # 0
      <4>1. i \in 1..n
            BY <1>1, <3>2
      <4>2. g[i - 1] \in ReadTo(r, buf, i - 1)
        <5>   HIDE DEF good, n
        <5>   QED
              BY <1>2, <1>5, <4>1 DEF RunsIn
      <4>3. g[i] = step[i][g[i - 1]]
        <5>   HIDE DEF step, begin, good, n
        <5>   QED
              BY <1>5, <3>2 DEF RunsIn
      <4>   HIDE DEF step, begin, n
      <4>   QED
            BY <1>3, <3>2, <4>1, <4>2, <4>3
    <3>   QED
          BY <3>1, <3>2
  <2>2. g = [i \in 0..n |-> g[i]]
    <3>   HIDE DEF step, begin, n, good
    <3>   QED
          BY <1>5 DEF RunsIn
  <2>   HIDE DEF n, begin
  <2>   QED
        BY <2>1, <2>2
<1>7. after = [i \in 0..n |-> IF i = 0 THEN begin
                              ELSE HeaderToken(after[i - 1], buf[i])]
      BY <1>6 DEF ReadTokens
<1>   DEFINE P == {i \in 0..n : after[i] \in ReadTo(r, buf, i)}
<1>8. 0 \in P
  <2>   HIDE DEF begin
  <2>   QED
        BY <1>1, <1>4, <1>7
<1>9. ASSUME NEW i \in 1..n, i - 1 \in P PROVE i \in P
  <2>1. i \in 0..n /\ i # 0
        BY <1>1
  <2>   HIDE DEF n, after, begin
  <2>2. after[i] = HeaderToken(after[i - 1], buf[i])
        BY <1>7, <2>1
  <2>   QED
        BY <1>3, <1>9, <2>1, <2>2
<1>10. \A i \in 0..n : i \in P
  <2>   HIDE DEF P, n
  <2>   QED
        BY <1>1, <1>8, <1>9, Stepwise
<1>   QED
      BY <1>1, <1>10

\* What the flags of a request may not contradict once parse_headers ran.
LEMMA FinishIs ==
    ASSUME NEW r \in RequestType, ~r.done,
           r.hdr => r.type # "NONE" /\ r.lines # <<>>
    PROVE  /\ FinishHeader(r) \in RequestType
           /\ FinishHeader(r).type = r.type
           /\ FinishHeader(r).hdr = r.hdr
           /\ FinishHeader(r).bad = r.bad
           /\ FinishHeader(r).lines = r.lines
           /\ FinishHeader(r).done => r.hdr
           /\ r.hdr /\ r.type = "GET" => FinishHeader(r).done
<1>1. CASE ~r.hdr
      BY <1>1 DEF FinishHeader
<1>2. CASE r.hdr
  <2>   DEFINE p == ParseHeaders(r)
  <2>1. /\ p \in RequestType /\ p.type = r.type /\ p.hdr = r.hdr /\ p.bad = r.bad
        /\ p.done = r.done /\ p.lines = r.lines
    <3>   DEFINE headers == {line \in ToSet(Tail(r.lines)) :
              line \in {Text("length", line[i].n) : i \in 1..Len(line)} \cup {EncodingLine}}
    <3>1. headers \in SUBSET Seq(Token)
      <4>1. Tail(r.lines) \in Seq(Seq(Token))
            BY <1>2 DEF RequestType
      <4>   QED
            BY <4>1 DEF ToSet
    <3>2. p = [r EXCEPT !.headers = headers]
          BY DEF ParseHeaders
    <3>   HIDE DEF headers, p
    <3>   QED
          BY <3>1, <3>2 DEF RequestType
  <2>   HIDE DEF p
  <2>2. CASE r.type = "POST"
    <3>1. FinishHeader(r) = ProcessPost(p)
          BY <1>2, <2>2 DEF FinishHeader, p
    <3>2. PICK d \in BOOLEAN : d = (ContentLength(p) >= 1 /\ Len(p.body) = ContentLength(p))
          OBVIOUS
    <3>3. \/ ProcessPost(p) = [p EXCEPT !.chunked = TRUE]
          \/ ProcessPost(p) = [p EXCEPT !.done = TRUE]
          \/ ProcessPost(p) = [p EXCEPT !.done = d]
          BY <3>2 DEF ProcessPost
    <3>4. ASSUME NEW y, \/ y = [p EXCEPT !.chunked = TRUE]
                        \/ y = [p EXCEPT !.done = TRUE]
                        \/ y = [p EXCEPT !.done = d]
          PROVE  /\ y \in RequestType /\ y.type = p.type /\ y.hdr = p.hdr
                 /\ y.bad = p.bad /\ y.lines = p.lines
          BY <2>1, <3>4 DEF RequestType
    <3>   QED
          BY <1>2, <2>1, <2>2, <3>1, <3>3, <3>4
  <2>3. CASE r.type # "POST"
    <3>1. FinishHeader(r) = [p EXCEPT !.done = TRUE]
          BY <1>2, <2>3 DEF FinishHeader, p
    <3>   QED
          BY <1>2, <2>1, <2>3, <3>1 DEF RequestType
  <2>   QED
        BY <2>2, <2>3
<1>   QED
      BY <1>1, <1>2

-----------------------------------------------------------------------------
(***************************************************************************)
(* What one buffer makes of a request, and of its flags.                   *)
(***************************************************************************)

\* A request between two buffers.
IsRequest(r) ==
    /\ r \in RequestType
    /\ Pending(r)
    /\ ~r.hdr => ~r.done

Flags(t, hdr, done, bad) ==
    [src |-> "client", type |-> t, hdr |-> hdr, done |-> done, bad |-> bad]

LEMMA EndedIs ==
    ASSUME NEW t, NEW u, NEW d
    PROVE  F!EndHeader(Flags(t, FALSE, FALSE, FALSE), u, d) = Flags(u, TRUE, d, FALSE)
<1>1. PICK yes, no : yes = TRUE /\ no = FALSE
      OBVIOUS
<1>2. [Flags(t, no, no, no) EXCEPT !.type = u, !.hdr = yes, !.done = d] =
          [[[Flags(t, no, no, no) EXCEPT !.type = u] EXCEPT !.hdr = yes] EXCEPT !.done = d]
      OBVIOUS
<1>3. [Flags(t, no, no, no) EXCEPT !.type = u] = Flags(u, no, no, no)
      BY DEF Flags
<1>4. [Flags(u, no, no, no) EXCEPT !.hdr = yes] = Flags(u, yes, no, no)
      BY DEF Flags
<1>5. [Flags(u, yes, no, no) EXCEPT !.done = d] = Flags(u, yes, d, no)
      BY DEF Flags
<1>6. [Flags(t, no, no, no) EXCEPT !.type = u, !.hdr = yes, !.done = d] =
          Flags(u, yes, d, no)
      BY <1>2, <1>3, <1>4, <1>5
<1>   QED
      BY <1>1, <1>6 DEF F!EndHeader

LEMMA FlagsAre ==
    /\ \A r : FlagsOf(r) = Flags(r.type, r.hdr, r.done, r.bad)
    /\ \A t : /\ [Flags(t, FALSE, FALSE, FALSE) EXCEPT !.bad = TRUE] =
                     Flags(t, FALSE, FALSE, TRUE)
              /\ \A u : F!FoundType(Flags(t, FALSE, FALSE, FALSE), u) =
                            Flags(u, FALSE, FALSE, FALSE)
              /\ [Flags(t, TRUE, FALSE, FALSE) EXCEPT !.done = TRUE] =
                     Flags(t, TRUE, TRUE, FALSE)
              /\ [Flags(t, TRUE, FALSE, FALSE) EXCEPT !.done = TRUE, !.bad = TRUE] =
                     Flags(t, TRUE, TRUE, TRUE)
<1>1. PICK yes, no : yes = TRUE /\ no = FALSE
      OBVIOUS
<1>2. \A r : FlagsOf(r) = Flags(r.type, r.hdr, r.done, r.bad)
      BY DEF FlagsOf, Flags
<1>3. ASSUME NEW t
      PROVE  [Flags(t, FALSE, FALSE, FALSE) EXCEPT !.bad = TRUE] =
                 Flags(t, FALSE, FALSE, TRUE)
  <2>1. [Flags(t, no, no, no) EXCEPT !.bad = yes] = Flags(t, no, no, yes)
        BY DEF Flags
  <2>   QED
        BY <1>1, <2>1
<1>4. ASSUME NEW t, NEW u
      PROVE  F!FoundType(Flags(t, FALSE, FALSE, FALSE), u) = Flags(u, FALSE, FALSE, FALSE)
  <2>1. [Flags(t, no, no, no) EXCEPT !.type = u] = Flags(u, no, no, no)
        BY DEF Flags
  <2>   QED
        BY <1>1, <2>1 DEF F!FoundType
<1>5. ASSUME NEW t
      PROVE  [Flags(t, TRUE, FALSE, FALSE) EXCEPT !.done = TRUE] =
                 Flags(t, TRUE, TRUE, FALSE)
  <2>1. [Flags(t, yes, no, no) EXCEPT !.done = yes] = Flags(t, yes, yes, no)
        BY DEF Flags
  <2>   QED
        BY <1>1, <2>1
<1>6. ASSUME NEW t
      PROVE  [Flags(t, TRUE, FALSE, FALSE) EXCEPT !.done = TRUE, !.bad = TRUE] =
                 Flags(t, TRUE, TRUE, TRUE)
  <2>1. [Flags(t, yes, no, no) EXCEPT !.done = yes, !.bad = yes] =
            [[Flags(t, yes, no, no) EXCEPT !.done = yes] EXCEPT !.bad = yes]
        OBVIOUS
  <2>2. [Flags(t, yes, no, no) EXCEPT !.done = yes] = Flags(t, yes, yes, no)
        BY DEF Flags
  <2>3. [Flags(t, yes, yes, no) EXCEPT !.bad = yes] = Flags(t, yes, yes, yes)
        BY DEF Flags
  <2>   QED
        BY <1>1, <2>1, <2>2, <2>3
<1>   QED
      BY <1>2, <1>3, <1>4, <1>5, <1>6

LEMMA HeaderFollows ==
    ASSUME NEW r, IsRequest(r), ~r.hdr, ~r.bad, NEW buf \in Seq(Token)
    PROVE  /\ IsRequest(ReadHeader(r, buf))
           /\ FlagsOf(ReadHeader(r, buf)) \in F!ReadHeader(FlagsOf(r))
<1>1. CASE r.lines = <<>> /\ StartsWithCRLF(buf)
      BY <1>1 DEF ReadHeader, F!ReadHeader
<1>2. CASE ~ (r.lines = <<>> /\ StartsWithCRLF(buf))
  <2>1. PICK a : /\ a = ReadTokens(r, buf)[Len(buf)]
                 /\ a \in ReadTo(r, buf, Len(buf))
        BY <1>2, TokensAre DEF IsRequest
  <2>2. PICK x : x = a.r
        OBVIOUS
  <2>3. /\ x \in RequestType /\ ~x.done /\ Pending(x)
        /\ x.bad => r.type = "NONE" /\ x.type = "NONE" /\ ~x.hdr
        /\ r.type # "NONE" => x.type = r.type
        /\ x.hdr => x.type # "NONE" /\ x.lines # <<>>
        BY <2>1, <2>2 DEF ReadTo
  <2>4. PICK y : y = FinishHeader(x)
        OBVIOUS
  <2>5. /\ y \in RequestType /\ y.type = x.type /\ y.hdr = x.hdr /\ y.bad = x.bad
        /\ y.lines = x.lines /\ (y.done => x.hdr)
        /\ x.hdr /\ x.type = "GET" => y.done
        BY <2>3, <2>4, FinishIs
  <2>6. ReadHeader(r, buf) = y
        BY <1>2, <2>1, <2>2, <2>4 DEF ReadHeader
  <2>7. IsRequest(y)
        BY <2>3, <2>5 DEF IsRequest, Pending
  <2>8. /\ r.type \in {"NONE", "GET", "POST"} /\ y.type \in {"NONE", "GET", "POST"}
        /\ r.hdr = FALSE /\ r.done = FALSE /\ r.bad = FALSE
        /\ y.hdr \in BOOLEAN /\ y.done \in BOOLEAN /\ y.bad \in BOOLEAN
        BY <2>5 DEF IsRequest, RequestType
  <2>   DEFINE f == FlagsOf(r)
  <2>9. /\ FlagsOf(y) = Flags(y.type, y.hdr, y.done, y.bad)
        /\ f = Flags(r.type, FALSE, FALSE, FALSE) /\ f.type = r.type
        BY <2>8, FlagsAre DEF Flags
  <2>10. y.type # "NONE" => y.type \in F!MethodsOf(f)
        BY <2>3, <2>5, <2>8, <2>9 DEF F!MethodsOf, F!Methods
  <2>   HIDE DEF f
  <2>11. CASE y.bad
    <3>1. /\ y.hdr = FALSE /\ y.done = FALSE /\ y.bad = TRUE
          /\ y.type = "NONE" /\ r.type = "NONE"
          BY <2>3, <2>5, <2>8, <2>11
    <3>2. FlagsOf(y) = [f EXCEPT !.bad = TRUE] /\ f.type = "NONE"
          BY <2>9, <3>1, FlagsAre
    <3>   QED
          BY <2>6, <2>7, <3>2 DEF F!ReadHeader, f
  <2>12. CASE ~y.bad /\ ~y.hdr /\ y.type = r.type
    <3>1. FlagsOf(y) = f
          BY <2>5, <2>8, <2>9, <2>12
    <3>   QED
          BY <2>6, <2>7, <3>1 DEF F!ReadHeader, f
  <2>13. CASE ~y.bad /\ ~y.hdr /\ y.type # r.type
    <3>1. y.type # "NONE"
          BY <2>3, <2>5, <2>8, <2>13
    <3>2. y.hdr = FALSE /\ y.done = FALSE /\ y.bad = FALSE
          BY <2>5, <2>8, <2>13
    <3>3. FlagsOf(y) = F!FoundType(f, y.type)
          BY <2>9, <3>2, FlagsAre
    <3>   QED
          BY <2>6, <2>7, <2>10, <3>1, <3>3 DEF F!ReadHeader, f
  <2>14. CASE ~y.bad /\ y.hdr
    <3>1. y.type # "NONE"
          BY <2>3, <2>5, <2>14
    <3>2. y.hdr = TRUE /\ y.bad = FALSE
          BY <2>8, <2>14
    <3>3. FlagsOf(y) = F!EndHeader(f, y.type, y.done)
      <4>1. PICK t, u, d : t = r.type /\ u = y.type /\ d = y.done
            OBVIOUS
      <4>2. F!EndHeader(Flags(t, FALSE, FALSE, FALSE), u, d) = Flags(u, TRUE, d, FALSE)
            BY EndedIs
      <4>   QED
            BY <2>9, <3>2, <4>1, <4>2
    <3>4. y.done # TRUE => y.done = FALSE /\ y.type # "GET"
          BY <2>5, <2>8, <2>14
    <3>5. CASE y.done = TRUE
          BY <2>6, <2>7, <2>10, <3>1, <3>3, <3>5 DEF F!ReadHeader, f
    <3>6. CASE y.done # TRUE
          BY <2>6, <2>7, <2>10, <3>1, <3>3, <3>4, <3>6 DEF F!ReadHeader, f
    <3>   QED
          BY <3>5, <3>6
  <2>   QED
        BY <2>8, <2>11, <2>12, <2>13, <2>14
<1>   QED
      BY <1>1, <1>2

LEMMA AfterIs ==
    ASSUME NEW buf \in Seq(Token)
    PROVE  AfterCRLF(buf) \in Nat /\ AfterCRLF(buf) >= 2
<1>   DEFINE ends == {i \in 2..Len(buf) : SubSeq(buf, i - 1, i) = CRLF}
<1>1. CASE ends = {}
      BY <1>1 DEF AfterCRLF
<1>2. CASE ends # {}
  <2>1. ends \in SUBSET Nat /\ \A i \in ends : i >= 2
        OBVIOUS
  <2>   DEFINE first == CHOOSE i \in ends : \A j \in ends : i <= j
  <2>2. first \in ends
    <3>1. \E i \in ends : \A j \in ends : i <= j
      <4>   HIDE DEF ends
      <4>   QED
            BY <1>2, <2>1, Smallest
    <3>   HIDE DEF ends
    <3>   QED
          BY <3>1
  <2>3. AfterCRLF(buf) = first + 1
        BY <1>2 DEF AfterCRLF
  <2>   HIDE DEF first, ends
  <2>   QED
        BY <2>1, <2>2, <2>3
<1>   QED
      BY <1>1, <1>2

LEMMA TakenIs ==
    ASSUME NEW buf \in Seq(Token), NEW from \in Nat, from >= 1, NEW size \in Nat,
           NEW upto \in Int, upto <= Len(buf), upto <= from + size - 1
    PROVE  /\ SubSeq(buf, from, upto) \in Seq(Token)
           /\ Len(SubSeq(buf, from, upto)) \in 0..size
           /\ size = 0 => SubSeq(buf, from, upto) = <<>>
<1>1. CASE upto < from
  <2>1. SubSeq(buf, from, upto) = <<>>
        BY <1>1
  <2>   QED
        BY <2>1
<1>2. CASE upto >= from
  <2>1. upto \in Nat /\ from \in 1..Len(buf) + 1 /\ size # 0
        BY <1>2
  <2>2. /\ SubSeq(buf, from, upto) \in Seq(Token)
        /\ Len(SubSeq(buf, from, upto)) = upto - from + 1
        BY <1>2, <2>1
  <2>   QED
        BY <1>2, <2>1, <2>2
<1>   QED
      BY <1>1, <1>2

LEMMA BodyFollows ==
    ASSUME NEW r, IsRequest(r), r.hdr, ~Received(r),
           NEW buf \in Seq(Token), buf # <<>>
    PROVE  /\ IsRequest(AddBody(r, buf))
           /\ FlagsOf(AddBody(r, buf)) \in F!AddBody(FlagsOf(r))
<1>   DEFINE f == FlagsOf(r)
             y == AddBody(r, buf)
<1>1. /\ r \in RequestType /\ r.type \in {"NONE", "GET", "POST"} /\ r.hdr = TRUE
      /\ f = [src |-> "client", type |-> r.type, hdr |-> TRUE, done |-> r.done,
              bad |-> FALSE]
      /\ r.bad = FALSE
      /\ r.type = "POST" => r.done = FALSE
      BY DEF IsRequest, RequestType, Received, FlagsOf, F!Received
<1>2. ASSUME y = r PROVE IsRequest(y) /\ FlagsOf(y) \in F!AddBody(f)
      BY <1>2 DEF F!AddBody
<1>3. CASE r.type # "POST"
      BY <1>2, <1>3 DEF AddBody
<1>4. ASSUME r.type = "POST", NEW body \in Seq(Token), NEW left \in Nat,
             NEW done \in BOOLEAN, NEW bad \in BOOLEAN, bad => done,
             y = [r EXCEPT !.bad = bad, !.done = done, !.left = left, !.body = body]
      PROVE  IsRequest(y) /\ FlagsOf(y) \in F!AddBody(f)
  <2>   HIDE DEF y
  <2>1. /\ y \in RequestType /\ y.type = "POST" /\ y.hdr = TRUE
        /\ y.done = done /\ y.bad = bad
        BY <1>1, <1>4 DEF RequestType
  <2>2. IsRequest(y)
        BY <2>1 DEF IsRequest, Pending
  <2>3. FlagsOf(y) = Flags("POST", TRUE, done, bad)
        BY <2>1, FlagsAre
  <2>4. f = Flags("POST", TRUE, FALSE, FALSE) /\ f.type = "POST"
        BY <1>1, <1>4, FlagsAre DEF Flags
  <2>   HIDE DEF f
  <2>5. \/ FlagsOf(y) = f \/ FlagsOf(y) = [f EXCEPT !.done = TRUE]
        \/ FlagsOf(y) = [f EXCEPT !.done = TRUE, !.bad = TRUE]
    <3>1. CASE done = FALSE
      <4>1. bad = FALSE
            BY <1>4, <3>1
      <4>   QED
            BY <2>3, <2>4, <3>1, <4>1
    <3>2. CASE done = TRUE /\ bad = FALSE
          BY <2>3, <2>4, <3>2, FlagsAre
    <3>3. CASE done = TRUE /\ bad = TRUE
          BY <2>3, <2>4, <3>3, FlagsAre
    <3>   QED
          BY <1>4, <3>1, <3>2, <3>3
  <2>   QED
        BY <2>2, <2>4, <2>5 DEF F!AddBody
<1>5. CASE r.type = "POST" /\ r.chunked
  <2>   DEFINE first == buf[SizeAt(buf)]
               sized == r.left # 0 \/ first.part = "size"
               size == IF r.left # 0 THEN r.left ELSE IF sized THEN first.n ELSE 0
               from == AfterCRLF(buf)
               upto == IF from + size - 1 <= Len(buf) THEN from + size - 1 ELSE Len(buf)
               taken == SubSeq(buf, from, upto)
  <2>1. sized \in BOOLEAN /\ size \in Nat /\ from \in Nat /\ from >= 1
        /\ (~sized => size = 0)
    <3>1. r.left \in Nat /\ first.n \in Nat
      <4>1. SizeAt(buf) \in 1..Len(buf)
            BY DEF SizeAt
      <4>2. first \in Token
            BY <4>1
      <4>   QED
            BY <1>1, <4>2 DEF RequestType, Token
    <3>   QED
          BY <3>1, AfterIs
  <2>2. y = [r EXCEPT !.bad = @ \/ ~sized,
                      !.done = @ \/ (size = 0 /\ taken = <<>>),
                      !.left = size - Len(taken),
                      !.body = @ \o taken]
        BY <1>5 DEF AddBody, ProcessChunk
  <2>   HIDE DEF sized, size, from, y
  <2>3. upto \in Int /\ upto <= Len(buf) /\ upto <= from + size - 1
        BY <2>1
  <2>   HIDE DEF upto
  <2>4. /\ taken \in Seq(Token) /\ Len(taken) \in 0..size
        /\ size = 0 => taken = <<>>
        BY <2>1, <2>3, TakenIs
  <2>   HIDE DEF taken
  <2>5. size - Len(taken) \in Nat /\ r.body \o taken \in Seq(Token)
        BY <1>1, <2>1, <2>4 DEF RequestType
  <2>6. PICK bad \in BOOLEAN, done \in BOOLEAN :
            /\ bad = (r.bad \/ ~sized)
            /\ done = (r.done \/ (size = 0 /\ taken = <<>>))
        OBVIOUS
  <2>7. bad => done
        BY <1>1, <2>1, <2>4, <2>6
  <2>8. y = [r EXCEPT !.bad = bad, !.done = done, !.left = size - Len(taken),
                      !.body = r.body \o taken]
        BY <2>2, <2>6
  <2>9. PICK left \in Nat, body \in Seq(Token) :
            left = size - Len(taken) /\ body = r.body \o taken
        BY <2>5
  <2>10. y = [r EXCEPT !.bad = bad, !.done = done, !.left = left, !.body = body]
        BY <2>8, <2>9
  <2>   HIDE DEF f
  <2>11. IsRequest(y) /\ FlagsOf(y) \in F!AddBody(f)
        BY <1>4, <1>5, <2>7, <2>10
  <2>   QED
        BY <2>11 DEF y, f
<1>6. CASE r.type = "POST" /\ ~r.chunked /\ ~HasHeader(r, "length")
      BY <1>2, <1>6 DEF AddBody
<1>7. CASE r.type = "POST" /\ ~r.chunked /\ HasHeader(r, "length")
  <2>1. PICK done \in BOOLEAN :
            done = (r.done \/ ContentLength(r) \in {Len(r.body), Len(r.body) + Len(buf)})
        OBVIOUS
  <2>2. y = [r EXCEPT !.body = r.body \o buf, !.done = done]
        BY <1>7, <2>1 DEF AddBody
  <2>3. r.body \o buf \in Seq(Token) /\ r.left \in Nat
        BY <1>1 DEF RequestType
  <2>   HIDE DEF y
  <2>4. PICK left \in Nat, body \in Seq(Token), bad \in BOOLEAN :
            left = r.left /\ body = r.body \o buf /\ bad = FALSE
        BY <2>3
  <2>5. y = [r EXCEPT !.bad = bad, !.done = done, !.left = left, !.body = body]
        BY <1>1, <2>2, <2>4 DEF RequestType
  <2>   HIDE DEF f
  <2>6. IsRequest(y) /\ FlagsOf(y) \in F!AddBody(f)
        BY <1>4, <1>7, <2>4, <2>5
  <2>   QED
        BY <2>6 DEF y, f
<1>   QED
      BY <1>3, <1>5, <1>6, <1>7

-----------------------------------------------------------------------------
(***************************************************************************)
(* The inductive invariant: the wire holds tokens, no more than were sent, *)
(* and the request is one between two buffers.                             *)
(***************************************************************************)

IInv ==
    /\ msg \in Messages
    /\ wire \in Seq(Token) /\ Len(wire) <= Len(Wire(msg))
    /\ IsRequest(req)

LEMMA Initially == Init => IInv
<1>   SUFFICES ASSUME Init PROVE IInv
      OBVIOUS
<1>1. wire \in Seq(Token) /\ Len(wire) <= Len(Wire(msg))
      BY WireIs DEF Init
<1>2. IsRequest(NewRequest)
  <2>1. <<>> \in Seq(Token) /\ <<>> \in Seq(Seq(Token)) /\ Len(<<>>) < 2
        OBVIOUS
  <2>   QED
        BY <2>1 DEF IsRequest, Pending, NewRequest, RequestType
<1>   QED
      BY <1>1, <1>2 DEF Init, IInv

\* What one buffer does, whatever the message and the cut.
LEMMA ReceiveFollows ==
    ASSUME IInv, Receive
    PROVE  /\ IInv'
           /\ FlagsOf(req') \in IF req.hdr THEN F!AddBody(FlagsOf(req))
                                ELSE F!ReadHeader(FlagsOf(req))
<1>1. /\ msg \in Messages /\ wire \in Seq(Token) /\ Len(wire) <= Len(Wire(msg))
      /\ IsRequest(req)
      BY DEF IInv
<1>2. PICK cut \in Cuts :
        /\ req' = IF req.hdr THEN AddBody(req, SubSeq(wire, 1, cut - Position))
                  ELSE ReadHeader(req, SubSeq(wire, 1, cut - Position))
        /\ wire' = SubSeq(wire, cut - Position + 1, Len(wire))
      BY DEF Receive
<1>3. cut \in Position + 1..Len(Wire(msg))
  <2>1. msg.body \in {"none", "length", "chunked"}
        BY <1>1, MessagesAssumption
  <2>2. Len(Wire(msg)) \in Nat /\ Position \in Nat
        BY <1>1, WireIs DEF Position
  <2>3. Cuts \subseteq Position + 1..Len(Wire(msg))
    <3>   DEFINE ends == (Position + 1..Len(Wire(msg)))
                            \cap Ends(HeaderParts(msg) \o BodyParts(msg))
    <3>1. CASE ~aligned
          BY <3>1 DEF Cuts
    <3>2. CASE aligned /\ msg.body # "chunked"
          BY <3>2 DEF Cuts
    <3>3. CASE aligned /\ msg.body = "chunked" /\ Position < HeaderEnd
          BY <3>3 DEF Cuts
    <3>4. CASE aligned /\ msg.body = "chunked" /\ Position >= HeaderEnd
          BY <3>4 DEF Cuts
    <3>5. HeaderEnd \in Nat
          BY <1>1, WireIs DEF HeaderEnd
    <3>   QED
          BY <2>1, <2>2, <3>1, <3>2, <3>3, <3>4, <3>5
  <2>   QED
        BY <2>3
<1>4. PICK n \in Nat : n = cut - Position /\ n >= 1 /\ n <= Len(wire)
  <2>1. Len(Wire(msg)) \in Nat /\ Len(wire) \in Nat
        BY <1>1, WireIs
  <2>   QED
        BY <1>1, <1>3, <2>1 DEF Position
<1>5. PICK buf \in Seq(Token) : buf = SubSeq(wire, 1, n) /\ buf # <<>>
  <2>1. SubSeq(wire, 1, n) \in Seq(Token) /\ Len(SubSeq(wire, 1, n)) = n
        BY <1>1, <1>4
  <2>2. SubSeq(wire, 1, n) # <<>>
        BY <1>4, <2>1
  <2>   QED
        BY <2>1, <2>2
<1>6. wire' \in Seq(Token) /\ Len(wire') <= Len(Wire(msg))
  <2>1. wire' = SubSeq(wire, n + 1, Len(wire))
        BY <1>2, <1>4
  <2>2. /\ SubSeq(wire, n + 1, Len(wire)) \in Seq(Token)
        /\ Len(SubSeq(wire, n + 1, Len(wire))) <= Len(wire)
        BY <1>1, <1>4
  <2>3. Len(Wire(msg)) \in Nat /\ Len(wire) \in Nat /\ Len(wire') \in Nat
        BY <1>1, <2>1, <2>2, WireIs
  <2>   QED
        BY <1>1, <2>1, <2>2, <2>3
<1>7. req' = IF req.hdr THEN AddBody(req, buf) ELSE ReadHeader(req, buf)
      BY <1>2, <1>4, <1>5
<1>8. ~Received(req) /\ UNCHANGED msg
      BY DEF Receive
<1>9. /\ IsRequest(req')
      /\ FlagsOf(req') \in IF req.hdr THEN F!AddBody(FlagsOf(req))
                           ELSE F!ReadHeader(FlagsOf(req))
  <2>1. CASE req.hdr
        BY <1>1, <1>5, <1>7, <1>8, <2>1, BodyFollows
  <2>2. CASE ~req.hdr
    <3>1. ~req.bad
          BY <1>8 DEF Received, FlagsOf, F!Received
    <3>   QED
          BY <1>1, <1>5, <1>7, <2>2, <3>1, HeaderFollows
  <2>   QED
        BY <2>1, <2>2
<1>   QED
      BY <1>1, <1>6, <1>8, <1>9 DEF IInv

LEMMA Invariance == Spec => []IInv
<1>1. IInv /\ [Next]_vars => IInv'
  <2>1. ASSUME IInv, UNCHANGED vars PROVE IInv'
        BY <2>1 DEF IInv, vars
  <2>   QED
        BY <2>1, ReceiveFollows DEF Next
<1>   QED
      BY Initially, <1>1, PTL DEF Spec

\* Whatever the messages, and wherever TCP cuts them, a buffer changes the
\* method and the flags of a request only in the ways RequestFlags lists: what
\* Server takes from a client is all that a client's bytes can do.
THEOREM FlagsFollowCorrect == Spec => FlagsFollow
<1>1. IInv /\ [Next]_vars =>
        [FlagsOf(req') \in IF req.hdr THEN F!AddBody(FlagsOf(req))
                           ELSE F!ReadHeader(FlagsOf(req))]_vars
      BY ReceiveFollows DEF Next
<1>   QED
      BY Invariance, <1>1, PTL DEF Spec, FlagsFollow

-----------------------------------------------------------------------------
(***************************************************************************)
(* TCP cuts a message only where a line, a body byte or a chunk ends: the  *)
(* request is answered when it has arrived whole, and what is answered is  *)
(* what was sent.  The argument is that the Request is then a function of  *)
(* the message and of how much of it has arrived, whatever the cuts before *)
(* were.                                                                   *)
(***************************************************************************)

(***************************************************************************)
(* Where the parts of a message lie on the wire.                           *)
(***************************************************************************)

\* e gives the end of each part.
EndsOf(parts, e) ==
    /\ e \in [0..Len(parts) -> Nat]
    /\ e[0] = 0
    /\ \A i \in 1..Len(parts) : e[i] = e[i - 1] + Len(parts[i])

\* What is known of the first i parts, put one behind the other.
Laid(flat, parts, e, i) ==
    /\ flat[i] \in Seq(Token)
    /\ Len(flat[i]) = e[i]
    /\ \A j \in 0..i : e[j] <= e[i]
    /\ \A j \in 1..i : \A o \in 1..Len(parts[j]) :
            flat[i][e[j - 1] + o] = parts[j][o]

LEMMA SliceIs ==
    ASSUME NEW s \in Seq(Token), NEW a \in Nat, NEW b \in 0..Len(s), 1 <= a, a <= b + 1
    PROVE  /\ SubSeq(s, a, b) \in Seq(Token) /\ Len(SubSeq(s, a, b)) = (b - a) + 1
           /\ \A i \in 1..(b - a) + 1 : SubSeq(s, a, b)[i] = s[a + i - 1]
<1>1. a \in Int /\ b \in Int /\ \A i \in a..b : s[i] \in Token
      OBVIOUS
<1>2. /\ SubSeq(s, a, b) \in Seq(Token)
      /\ Len(SubSeq(s, a, b)) = IF a <= b THEN b - a + 1 ELSE 0
      /\ \A i \in 1..b - a + 1 : SubSeq(s, a, b)[i] = s[a + i - 1]
      BY <1>1, SubSeqProperties
<1>   QED
      BY <1>1, <1>2

LEMMA PrefixIs ==
    ASSUME NEW s \in Seq(Token), NEW b \in 0..Len(s)
    PROVE  /\ SubSeq(s, 1, b) \in Seq(Token) /\ Len(SubSeq(s, 1, b)) = b
           /\ \A i \in 1..b : SubSeq(s, 1, b)[i] = s[i]
<1>1. PICK a \in Nat : a = 1
      OBVIOUS
<1>2. /\ SubSeq(s, a, b) \in Seq(Token) /\ Len(SubSeq(s, a, b)) = (b - a) + 1
      /\ \A i \in 1..(b - a) + 1 : SubSeq(s, a, b)[i] = s[a + i - 1]
      BY <1>1, SliceIs
<1>3. (b - a) + 1 = b /\ \A i \in 1..b : a + i - 1 = i
      BY <1>1
<1>   QED
      BY <1>1, <1>2, <1>3

LEMMA TokensJoined ==
    ASSUME NEW a \in Seq(Token), NEW b \in Seq(Token)
    PROVE  /\ a \o b \in Seq(Token)
           /\ Len(a \o b) = Len(a) + Len(b)
           /\ \A i \in 1..Len(a) : (a \o b)[i] = a[i]
           /\ \A i \in 1..Len(b) : (a \o b)[Len(a) + i] = b[i]
BY Joined

LEMMA FlatLaid ==
    ASSUME NEW parts \in Seq(Seq(Token)), NEW e, EndsOf(parts, e),
           NEW i \in 1..Len(parts)
    PROVE  Laid(Flat(parts), parts, e, i)
<1>   DEFINE n == Len(parts)
             P == {k \in 0..n : k = 0 \/ Laid(Flat(parts), parts, e, k)}
<1>1. /\ n \in Nat /\ n >= 1 /\ e[0] = 0
      /\ \A k \in 1..n : /\ parts[k] \in Seq(Token) /\ Len(parts[k]) \in Nat
                         /\ e[k] = e[k - 1] + Len(parts[k])
      /\ \A k \in 0..n : e[k] \in Nat
  <2>1. n \in Nat /\ n >= 1
        OBVIOUS
  <2>2. \A k \in 1..n : parts[k] \in Seq(Token)
        OBVIOUS
  <2>3. \A k \in 1..n : Len(parts[k]) \in Nat
        BY <2>2
  <2>   QED
        BY <2>1, <2>2, <2>3 DEF EndsOf
<1>2. \A k \in 1..n : Flat(parts)[k] = IF k = 1 THEN parts[k]
                                       ELSE Flat(parts)[k - 1] \o parts[k]
  <2>1. Len(parts) # 0
        BY <1>1
  <2>2. Flat(parts) = [k \in 1..n |-> IF k = 1 THEN parts[k]
                                      ELSE Flat(parts)[k - 1] \o parts[k]]
        BY <2>1, FlatIs
  <2>   HIDE DEF n
  <2>   QED
        BY <2>2
<1>3. ASSUME NEW k \in 1..n, k - 1 \in P PROVE k \in P
  <2>   HIDE DEF n
  <2>1. CASE k = 1
    <3>1. /\ Flat(parts)[1] = parts[1] /\ e[1] = Len(parts[1])
          /\ parts[1] \in Seq(Token)
      <4>1. 1 \in 1..n /\ 1 - 1 = 0
            BY <1>1
      <4>2. e[1] = e[0] + Len(parts[1])
            BY <1>1, <4>1
      <4>3. Flat(parts)[1] = parts[1]
            BY <1>2, <4>1
      <4>4. parts[1] \in Seq(Token) /\ Len(parts[1]) \in Nat /\ e[0] = 0
            BY <1>1, <4>1
      <4>   QED
            BY <4>2, <4>3, <4>4
    <3>2. \A j \in 0..1 : e[j] <= e[1]
          BY <1>1, <2>1
    <3>   QED
          BY <1>1, <2>1, <3>1, <3>2 DEF Laid
  <2>2. CASE k # 1
    <3>1. /\ k - 1 \in 1..n /\ k \in 0..n
          /\ Laid(Flat(parts), parts, e, k - 1)
          BY <1>1, <1>3, <2>2
    <3>2. PICK a, b : /\ a = Flat(parts)[k - 1] /\ b = parts[k]
                      /\ a \in Seq(Token) /\ b \in Seq(Token)
                      /\ Flat(parts)[k] = a \o b
                      /\ Len(a) = e[k - 1] /\ e[k] = Len(a) + Len(b)
      <4>1. /\ Flat(parts)[k] = Flat(parts)[k - 1] \o parts[k]
            /\ e[k] = e[k - 1] + Len(parts[k]) /\ parts[k] \in Seq(Token)
            BY <1>1, <1>2, <2>2
      <4>2. Flat(parts)[k - 1] \in Seq(Token) /\ Len(Flat(parts)[k - 1]) = e[k - 1]
            BY <3>1 DEF Laid
      <4>   QED
            BY <4>1, <4>2
    <3>3. \A j \in 0..k : e[j] <= e[k]
      <4>1. \A j \in 0..k - 1 : e[j] <= e[k - 1]
            BY <3>1 DEF Laid
      <4>2. e[k - 1] <= e[k] /\ e[k] <= e[k]
            BY <1>1, <3>1
      <4>3. \A j \in 0..k : j \in 0..k - 1 \/ j = k
            BY <1>1
      <4>4. \A j \in 0..k : e[j] \in Nat
            BY <1>1
      <4>   QED
            BY <1>1, <3>1, <4>1, <4>2, <4>3, <4>4
    <3>4. ASSUME NEW j \in 1..k, NEW o \in 1..Len(parts[j])
          PROVE  (a \o b)[e[j - 1] + o] = parts[j][o]
      <4>1. CASE j = k
        <5>1. o \in 1..Len(b) /\ Len(a) \in Nat
              BY <3>2, <4>1
        <5>2. (a \o b)[Len(a) + o] = b[o]
              BY <3>2, <5>1, TokensJoined
        <5>   QED
              BY <3>2, <4>1, <5>2
      <4>2. CASE j # k
        <5>1. j \in 1..k - 1 /\ j - 1 \in 0..n /\ j \in 0..n /\ j \in 1..n
              BY <1>1, <4>2
        <5>2. a[e[j - 1] + o] = parts[j][o] /\ e[j] <= Len(a)
              BY <3>1, <3>2, <5>1 DEF Laid
        <5>3. e[j - 1] + o \in 1..Len(a)
          <6>1. /\ e[j] = e[j - 1] + Len(parts[j]) /\ e[j - 1] \in Nat
                /\ Len(parts[j]) \in Nat
                BY <1>1, <5>1
          <6>2. Len(a) \in Nat /\ o \in Nat /\ o >= 1 /\ o <= Len(parts[j])
                BY <3>2, <6>1
          <6>   QED
                BY <5>2, <6>1, <6>2
        <5>4. (a \o b)[e[j - 1] + o] = a[e[j - 1] + o]
              BY <3>2, <5>3, TokensJoined
        <5>   QED
              BY <5>2, <5>4
      <4>   QED
            BY <4>1, <4>2
    <3>5. a \o b \in Seq(Token) /\ Len(a \o b) = e[k]
          BY <3>2, TokensJoined
    <3>   QED
          BY <3>1, <3>2, <3>3, <3>4, <3>5 DEF Laid
  <2>   QED
        BY <2>1, <2>2
<1>4. \A k \in 0..n : k \in P
  <2>1. 0 \in P
        BY <1>1
  <2>   HIDE DEF P, n
  <2>   QED
        BY <1>1, <1>3, <2>1, Stepwise
<1>   QED
      BY <1>1, <1>4

LEMMA PartsLie ==
    ASSUME NEW parts \in Seq(Seq(Token)), Len(parts) # 0, NEW e, EndsOf(parts, e)
    PROVE  /\ FlattenSeq(parts) \in Seq(Token)
           /\ Len(FlattenSeq(parts)) = e[Len(parts)]
           /\ \A j \in 0..Len(parts) : e[j] <= e[Len(parts)]
           /\ \A j \in 1..Len(parts) : \A o \in 1..Len(parts[j]) :
                    FlattenSeq(parts)[e[j - 1] + o] = parts[j][o]
           /\ Ends(parts) = {e[j] : j \in 1..Len(parts)}
<1>   DEFINE n == Len(parts)
<1>1. n \in 1..n /\ n \in Nat
      OBVIOUS
<1>2. FlattenSeq(parts) = Flat(parts)[n]
      BY FlatIs
<1>3. Laid(Flat(parts), parts, e, n)
      BY <1>1, FlatLaid
<1>4. ASSUME NEW j \in 1..n PROVE Len(FlattenSeq(SubSeq(parts, 1, j))) = e[j]
  <2>   DEFINE first == SubSeq(parts, 1, j)
               f == [k \in 0..j |-> e[k]]
  <2>1. /\ first \in Seq(Seq(Token)) /\ Len(first) = j
        /\ \A k \in 1..j : first[k] = parts[k]
        BY <1>1
  <2>2. j \in Nat /\ j \in 1..j /\ j >= 1
        OBVIOUS
  <2>3. EndsOf(first, f)
    <3>1. \A k \in 0..j : f[k] = e[k] /\ e[k] \in Nat
          BY <1>1 DEF EndsOf
    <3>2. f \in [0..j -> Nat]
          BY <3>1
    <3>3. ASSUME NEW k \in 1..j PROVE f[k] = f[k - 1] + Len(first[k])
      <4>1. k \in 0..j /\ k - 1 \in 0..j /\ k \in 1..n
            BY <1>1, <2>2
      <4>2. e[k] = e[k - 1] + Len(parts[k])
            BY <4>1 DEF EndsOf
      <4>   HIDE DEF f, first
      <4>   QED
            BY <2>1, <3>1, <4>1, <4>2
    <3>4. f[0] = 0
          BY <2>2 DEF EndsOf
    <3>   HIDE DEF f, first
    <3>   QED
          BY <2>1, <3>2, <3>3, <3>4 DEF EndsOf
  <2>4. f[j] = e[j]
        BY <2>2
  <2>   HIDE DEF first, f
  <2>5. Laid(Flat(first), first, f, j)
        BY <2>1, <2>2, <2>3, FlatLaid
  <2>6. FlattenSeq(first) = Flat(first)[j]
    <3>1. Len(first) # 0
          BY <2>1, <2>2
    <3>2. FlattenSeq(first) = Flat(first)[Len(first)]
          BY <2>1, <3>1, FlatIs
    <3>   QED
          BY <2>1, <3>2
  <2>   QED
        BY <2>4, <2>5, <2>6 DEF Laid, first
<1>5. Ends(parts) = {e[j] : j \in 1..n}
      BY <1>4 DEF Ends
<1>   QED
      BY <1>1, <1>2, <1>3, <1>5 DEF Laid

(***************************************************************************)
(* The parts of a message.                                                 *)
(***************************************************************************)

\* The lines of the header, and the tokens: four a line, and the blank one.
Lines(m) == IF m.body = "none" THEN 2 ELSE 3

HeadEnd(m) == 4 * Lines(m) + 2

LEMMA TextIs ==
    ASSUME NEW part \in Parts, NEW n \in Nat
    PROVE  /\ Text(part, n) \in Seq(Token) /\ Len(Text(part, n)) = 2
           /\ Text(part, n)[1] = Tok(part, n) /\ Text(part, n)[2] = Tok("tail", n)
BY PiecesAre DEF Text

LEMMA MessageIs ==
    ASSUME NEW m \in Messages
    PROVE  /\ m.method \in {"GET", "POST"} /\ m.length \in Nat /\ m.announced \in Nat
           /\ m.body \in {"none", "length", "chunked"}
           /\ m.body = "none" => m.length = 0
           /\ m.body = "chunked" => m.length > 1 /\ m.length - 1 \in Nat
BY MessagesAssumption

LEMMA LinesAre ==
    ASSUME NEW m \in Messages
    PROVE  /\ HeaderLines(m) \in Seq(Seq(Token))
           /\ Len(HeaderLines(m)) = Lines(m)
           /\ HeaderLines(m)[1] = StartLine(m)
           /\ HeaderLines(m)[2] = HostLine
           /\ m.body = "length" => HeaderLines(m)[3] = LengthLine(m)
           /\ m.body = "chunked" => HeaderLines(m)[3] = EncodingLine
           /\ \A q \in 1..Lines(m) : Len(HeaderLines(m)[q]) = 2
<1>1. /\ StartLine(m) \in Seq(Token) /\ HostLine \in Seq(Token)
      /\ LengthLine(m) \in Seq(Token) /\ EncodingLine \in Seq(Token)
      /\ Len(StartLine(m)) = 2 /\ Len(HostLine) = 2
      /\ Len(LengthLine(m)) = 2 /\ Len(EncodingLine) = 2
  <2>1. PICK zero \in Nat : zero = 0
        OBVIOUS
  <2>2. m.method \in Parts /\ "host" \in Parts /\ "length" \in Parts /\ "chunked" \in Parts
        BY MessageIs DEF Parts
  <2>3. \A p \in Parts : \A n \in Nat :
            Text(p, n) \in Seq(Token) /\ Len(Text(p, n)) = 2
        BY TextIs
  <2>4. m.announced \in Nat
        BY MessageIs
  <2>   QED
        BY <2>1, <2>2, <2>3, <2>4 DEF StartLine, HostLine, LengthLine, EncodingLine
<1>2. CASE m.body = "none"
      BY <1>1, <1>2 DEF HeaderLines, Lines
<1>3. CASE m.body = "length"
  <2>1. PICK a, b : a = <<StartLine(m), HostLine>> /\ b = <<LengthLine(m)>>
        OBVIOUS
  <2>2. HeaderLines(m) = a \o b
        BY <1>3, <2>1 DEF HeaderLines
  <2>3. /\ a \in Seq(Seq(Token)) /\ Len(a) = 2 /\ 1 \in 1..2 /\ 2 \in 1..2
        /\ b \in Seq(Seq(Token)) /\ Len(b) = 1 /\ 1 \in 1..1 /\ 2 + 1 = 3
        BY <1>1, <2>1
  <2>4. /\ a \o b \in Seq(Seq(Token)) /\ Len(a \o b) = 3
        /\ (a \o b)[1] = a[1] /\ (a \o b)[2] = a[2] /\ (a \o b)[3] = b[1]
        BY <2>3, Joined
  <2>5. Lines(m) = 3 /\ \A q \in 1..3 : q = 1 \/ q = 2 \/ q = 3
        BY <1>3 DEF Lines
  <2>   QED
        BY <1>1, <1>3, <2>1, <2>2, <2>4, <2>5
<1>4. CASE m.body = "chunked"
  <2>1. PICK a, b : a = <<StartLine(m), HostLine>> /\ b = <<EncodingLine>>
        OBVIOUS
  <2>2. HeaderLines(m) = a \o b
        BY <1>4, <2>1 DEF HeaderLines
  <2>3. /\ a \in Seq(Seq(Token)) /\ Len(a) = 2 /\ 1 \in 1..2 /\ 2 \in 1..2
        /\ b \in Seq(Seq(Token)) /\ Len(b) = 1 /\ 1 \in 1..1 /\ 2 + 1 = 3
        BY <1>1, <2>1
  <2>4. /\ a \o b \in Seq(Seq(Token)) /\ Len(a \o b) = 3
        /\ (a \o b)[1] = a[1] /\ (a \o b)[2] = a[2] /\ (a \o b)[3] = b[1]
        BY <2>3, Joined
  <2>5. Lines(m) = 3 /\ \A q \in 1..3 : q = 1 \/ q = 2 \/ q = 3
        BY <1>4 DEF Lines
  <2>   QED
        BY <1>1, <1>4, <2>1, <2>2, <2>4, <2>5
<1>   QED
      BY <1>2, <1>3, <1>4, MessageIs

LEMMA HeaderPartsAre ==
    ASSUME NEW m \in Messages
    PROVE  /\ HeaderParts(m) \in Seq(Seq(Token))
           /\ Len(HeaderParts(m)) = Lines(m) + 1
           /\ \A q \in 1..Lines(m) : /\ HeaderParts(m)[q] = HeaderLines(m)[q] \o CRLF
                                     /\ Len(HeaderParts(m)[q]) = 4
           /\ HeaderParts(m)[Lines(m) + 1] = CRLF
<1>1. PICK k \in Nat : k = Lines(m) /\ Len(HeaderLines(m)) = k
      BY LinesAre DEF Lines
<1>2. CRLF \in Seq(Token) /\ Len(CRLF) = 2
      BY CRLFIs
<1>3. \A q \in 1..k : /\ HeaderLines(m)[q] \o CRLF \in Seq(Token)
                      /\ Len(HeaderLines(m)[q] \o CRLF) = 4
  <2>1. ASSUME NEW q \in 1..k
        PROVE  HeaderLines(m)[q] \in Seq(Token) /\ Len(HeaderLines(m)[q]) = 2
        BY <1>1, LinesAre
  <2>   QED
        BY <1>2, <2>1, Joined
<1>4. PICK s : s = [q \in 1..k |-> HeaderLines(m)[q] \o CRLF]
      OBVIOUS
<1>5. s \in Seq(Seq(Token)) /\ Len(s) = k
      BY <1>3, <1>4
<1>6. HeaderParts(m) = s \o <<CRLF>>
      BY <1>1, <1>4 DEF HeaderParts
<1>7. HeaderParts(m) = [i \in 1..k + 1 |-> IF i <= k THEN s[i] ELSE CRLF]
      BY <1>5, <1>6
<1>   QED
      BY <1>1, <1>2, <1>3, <1>4, <1>5, <1>6, <1>7

LEMMA BodyPartsAre ==
    ASSUME NEW m \in Messages
    PROVE  /\ BodyParts(m) \in Seq(Seq(Token))
           /\ m.body = "none" => Len(BodyParts(m)) = 0
           /\ m.body = "length" =>
                /\ Len(BodyParts(m)) = m.length
                /\ \A i \in 1..m.length : BodyParts(m)[i] = <<Tok("byte", i)>>
           /\ m.body = "chunked" =>
                /\ Len(BodyParts(m)) = 3
                /\ BodyParts(m)[1] = Chunk(0, 1)
                /\ BodyParts(m)[2] = Chunk(1, m.length - 1)
                /\ BodyParts(m)[3] = Chunk(m.length, 0)
<1>1. CASE m.body = "none"
      BY <1>1 DEF BodyParts
<1>2. CASE m.body = "length"
  <2>1. BodyParts(m) = [i \in 1..m.length |-> Data(i - 1, 1)]
        BY <1>2 DEF BodyParts
  <2>2. ASSUME NEW i \in 1..m.length
        PROVE  Data(i - 1, 1) = <<Tok("byte", i)>> /\ Data(i - 1, 1) \in Seq(Token)
    <3>1. i \in Nat /\ i - 1 \in Nat /\ (i - 1) + 1 = i
          BY MessageIs
    <3>2. Data(i - 1, 1) = [k \in 1..1 |-> Tok("byte", (i - 1) + k)]
          BY DEF Data
    <3>3. Data(i - 1, 1) \in Seq(Token)
          BY <3>1, PiecesAre
    <3>   QED
          BY <3>1, <3>2, <3>3
  <2>   QED
        BY <1>2, <2>1, <2>2, MessageIs
<1>3. CASE m.body = "chunked"
  <2>1. /\ Chunk(0, 1) \in Seq(Token) /\ Chunk(1, m.length - 1) \in Seq(Token)
        /\ Chunk(m.length, 0) \in Seq(Token)
        BY <1>3, MessageIs, PiecesAre
  <2>   QED
        BY <1>3, <2>1 DEF BodyParts
<1>   QED
      BY <1>1, <1>2, <1>3, MessageIs

LEMMA ChunkIs ==
    ASSUME NEW k \in Nat, NEW n \in Nat
    PROVE  /\ Chunk(k, n) \in Seq(Token) /\ Len(Chunk(k, n)) = n + 5
           /\ Chunk(k, n)[1] = Tok("size", n)
           /\ Chunk(k, n)[2] = Tok("cr", 0) /\ Chunk(k, n)[3] = Tok("lf", 0)
           /\ \A i \in 1..n : Chunk(k, n)[3 + i] = Tok("byte", k + i)
<1>1. PICK a, b, c : a = <<Tok("size", n)>> /\ b = CRLF /\ c = Data(k, n)
      OBVIOUS
<1>2. /\ a \in Seq(Token) /\ Len(a) = 1 /\ a[1] = Tok("size", n)
      BY <1>1 DEF Tok, Token, Parts
<1>3. /\ b \in Seq(Token) /\ Len(b) = 2 /\ b[1] = Tok("cr", 0) /\ b[2] = Tok("lf", 0)
      BY <1>1, CRLFIs DEF CRLF
<1>4. /\ c \in Seq(Token) /\ Len(c) = n /\ \A i \in 1..n : c[i] = Tok("byte", k + i)
  <2>1. c = [i \in 1..n |-> Tok("byte", k + i)]
        BY <1>1 DEF Data
  <2>2. c \in Seq(Token)
        BY <1>1, PiecesAre
  <2>   QED
        BY <2>1, <2>2
<1>5. PICK d : d = a \o b
      OBVIOUS
<1>6. /\ d \in Seq(Token) /\ Len(d) = 3
      /\ d[1] = Tok("size", n) /\ d[2] = Tok("cr", 0) /\ d[3] = Tok("lf", 0)
  <2>1. 1 \in 1..1 /\ 1 \in 1..2 /\ 2 \in 1..2 /\ 1 + 1 = 2 /\ 1 + 2 = 3
        OBVIOUS
  <2>   QED
        BY <1>2, <1>3, <1>5, <2>1, TokensJoined
<1>7. PICK f : f = d \o c
      OBVIOUS
<1>8. /\ f \in Seq(Token) /\ Len(f) = 3 + n
      /\ f[1] = Tok("size", n) /\ f[2] = Tok("cr", 0) /\ f[3] = Tok("lf", 0)
      /\ \A i \in 1..n : f[3 + i] = Tok("byte", k + i)
  <2>1. 1 \in 1..3 /\ 2 \in 1..3 /\ 3 \in 1..3
        OBVIOUS
  <2>2. /\ f \in Seq(Token) /\ Len(f) = Len(d) + Len(c)
        /\ \A i \in 1..Len(d) : f[i] = d[i]
        /\ \A i \in 1..Len(c) : f[Len(d) + i] = c[i]
    <3>1. d \in Seq(Token) /\ c \in Seq(Token)
          BY <1>4, <1>6
    <3>   QED
          BY <1>7, <3>1, TokensJoined
  <2>   QED
        BY <1>4, <1>6, <2>1, <2>2
<1>9. Chunk(k, n) = f \o b
      BY <1>1, <1>5, <1>7 DEF Chunk
<1>10. /\ f \o b \in Seq(Token) /\ Len(f \o b) = 3 + n + 2
       /\ \A i \in 1..3 + n : (f \o b)[i] = f[i]
  <2>1. f \in Seq(Token) /\ b \in Seq(Token)
        BY <1>3, <1>8
  <2>2. /\ f \o b \in Seq(Token) /\ Len(f \o b) = Len(f) + Len(b)
        /\ \A i \in 1..Len(f) : (f \o b)[i] = f[i]
        BY <2>1, TokensJoined
  <2>   QED
        BY <1>3, <1>8, <2>2
<1>11. /\ 1 \in 1..3 + n /\ 2 \in 1..3 + n /\ 3 \in 1..3 + n /\ 3 + n + 2 = n + 5
       /\ \A i \in 1..n : 3 + i \in 1..3 + n
      OBVIOUS
<1>   QED
      BY <1>8, <1>9, <1>10, <1>11

(***************************************************************************)
(* Where they lie.                                                         *)
(***************************************************************************)

AllParts(m) == HeaderParts(m) \o BodyParts(m)

EndOf(m) ==
    [i \in 0..Lines(m) + 1 + Len(BodyParts(m)) |->
        CASE i <= Lines(m) -> 4 * i
          [] i > Lines(m) /\ m.body # "chunked" -> HeadEnd(m) + (i - Lines(m) - 1)
          [] i > Lines(m) /\ m.body = "chunked" ->
                CASE i = 4 -> HeadEnd(m) [] i = 5 -> HeadEnd(m) + 6
                  [] i = 6 -> HeadEnd(m) + m.length + 10
                  [] i = 7 -> HeadEnd(m) + m.length + 15]

Whole(m) ==
    CASE m.body = "none" -> HeadEnd(m)
      [] m.body = "length" -> HeadEnd(m) + m.length
      [] m.body = "chunked" -> HeadEnd(m) + m.length + 15

LEMMA AllPartsAre ==
    ASSUME NEW m \in Messages
    PROVE  /\ AllParts(m) \in Seq(Seq(Token))
           /\ Len(AllParts(m)) = Lines(m) + 1 + Len(BodyParts(m))
           /\ \A i \in 1..Lines(m) + 1 : AllParts(m)[i] = HeaderParts(m)[i]
           /\ \A i \in 1..Len(BodyParts(m)) :
                    AllParts(m)[Lines(m) + 1 + i] = BodyParts(m)[i]
           /\ Len(BodyParts(m)) \in Nat
<1>1. PICK a, b : a = HeaderParts(m) /\ b = BodyParts(m)
      OBVIOUS
<1>2. /\ a \in Seq(Seq(Token)) /\ Len(a) = Lines(m) + 1
      /\ b \in Seq(Seq(Token)) /\ Len(b) \in Nat
      BY <1>1, HeaderPartsAre, BodyPartsAre
<1>3. /\ a \o b \in Seq(Seq(Token)) /\ Len(a \o b) = Len(a) + Len(b)
      /\ \A i \in 1..Len(a) : (a \o b)[i] = a[i]
      /\ \A i \in 1..Len(b) : (a \o b)[Len(a) + i] = b[i]
  <2>1. PICK T : T = Seq(Token)
        OBVIOUS
  <2>2. a \in Seq(T) /\ b \in Seq(T)
        BY <1>2, <2>1
  <2>3. /\ a \o b \in Seq(T) /\ Len(a \o b) = Len(a) + Len(b)
        /\ \A i \in 1..Len(a) : (a \o b)[i] = a[i]
        /\ \A i \in 1..Len(b) : (a \o b)[Len(a) + i] = b[i]
        BY <2>2, Joined
  <2>   QED
        BY <2>1, <2>3
<1>   QED
      BY <1>1, <1>2, <1>3 DEF AllParts

\* The end of the last part is the end of the message.
LEMMA EndOfIs ==
    ASSUME NEW m \in Messages
    PROVE  /\ EndsOf(AllParts(m), EndOf(m))
           /\ EndOf(m)[Len(AllParts(m))] = Whole(m)
           /\ \A i \in 0..Lines(m) : EndOf(m)[i] = 4 * i
           /\ EndOf(m)[Lines(m) + 1] = HeadEnd(m)
<1>1. PICK k, b, n : k = Lines(m) /\ b = Len(BodyParts(m)) /\ n = m.length
      OBVIOUS
<1>2. /\ k \in {2, 3} /\ b \in Nat /\ n \in Nat
      /\ m.body = "none" => k = 2 /\ b = 0
      /\ m.body = "length" => k = 3 /\ b = n
      /\ m.body = "chunked" => k = 3 /\ b = 3 /\ n - 1 \in Nat
      /\ m.body \in {"none", "length", "chunked"}
      /\ HeadEnd(m) = 4 * k + 2
      BY <1>1, MessageIs, BodyPartsAre, AllPartsAre DEF Lines, HeadEnd
<1>3. PICK e : e = EndOf(m)
      OBVIOUS
<1>4. /\ DOMAIN e = 0..k + 1 + b
      /\ \A i \in 0..k + 1 + b :
            /\ i <= k => e[i] = 4 * i
            /\ i > k /\ m.body # "chunked" => e[i] = 4 * k + 2 + (i - k - 1)
            /\ m.body = "chunked" =>
                /\ i = 4 => e[i] = 14
                /\ i = 5 => e[i] = 20
                /\ i = 6 => e[i] = n + 24
                /\ i = 7 => e[i] = n + 29
      /\ e = [i \in 0..k + 1 + b |-> e[i]]
  <2>1. e = [i \in 0..k + 1 + b |->
                CASE i <= k -> 4 * i
                  [] i > k /\ m.body # "chunked" -> 4 * k + 2 + (i - k - 1)
                  [] i > k /\ m.body = "chunked" ->
                        CASE i = 4 -> 4 * k + 2 [] i = 5 -> 4 * k + 2 + 6
                          [] i = 6 -> 4 * k + 2 + n + 10
                          [] i = 7 -> 4 * k + 2 + n + 15]
        BY <1>1, <1>2, <1>3 DEF EndOf
  <2>   QED
        BY <1>2, <2>1
<1>5. \A i \in 0..k + 1 + b : i <= k \/ i > k
      BY <1>2
<1>6. m.body = "chunked" => \A i \in 0..7 : i > 3 => i \in {4, 5, 6, 7}
      OBVIOUS
<1>7. e \in [0..k + 1 + b -> Nat]
  <2>1. ASSUME NEW i \in 0..k + 1 + b PROVE e[i] \in Nat
    <3>1. CASE i <= k
          BY <1>2, <1>4, <3>1
    <3>2. CASE i > k /\ m.body # "chunked"
          BY <1>2, <1>4, <3>2
    <3>3. CASE i > k /\ m.body = "chunked"
          BY <1>2, <1>4, <1>6, <3>3
    <3>   QED
          BY <1>2, <3>1, <3>2, <3>3
  <2>   QED
        BY <1>4, <2>1
<1>8. \A i \in 1..k + 1 + b : e[i] = e[i - 1] + Len(AllParts(m)[i])
  <2>   DEFINE l(i) == Len(AllParts(m)[i])
  <2>1. \A i \in 1..k : l(i) = 4
    <3>1. \A i \in 1..k : AllParts(m)[i] = HeaderParts(m)[i]
          BY <1>1, <1>2, AllPartsAre
    <3>2. \A i \in 1..k : Len(HeaderParts(m)[i]) = 4
          BY <1>1, HeaderPartsAre
    <3>   QED
          BY <3>1, <3>2
  <2>2. l(k + 1) = 2
    <3>1. k + 1 \in 1..k + 1
          BY <1>2
    <3>2. AllParts(m)[k + 1] = HeaderParts(m)[k + 1]
          BY <1>1, <3>1, AllPartsAre
    <3>3. HeaderParts(m)[k + 1] = CRLF
          BY <1>1, HeaderPartsAre
    <3>   QED
          BY <3>2, <3>3, CRLFIs
  <2>3. m.body = "length" => \A i \in 1..n : l(k + 1 + i) = 1
    <3>   SUFFICES ASSUME m.body = "length", NEW i \in 1..n
                   PROVE  Len(AllParts(m)[k + 1 + i]) = 1
          OBVIOUS
    <3>1. AllParts(m)[k + 1 + i] = BodyParts(m)[i]
          BY <1>1, <1>2, AllPartsAre
    <3>2. BodyParts(m)[i] = <<Tok("byte", i)>>
          BY <1>1, BodyPartsAre
    <3>3. \A x : Len(<<x>>) = 1
          OBVIOUS
    <3>   QED
          BY <3>1, <3>2, <3>3
  <2>4. m.body = "chunked" => l(5) = 6 /\ l(6) = n + 4 /\ l(7) = 5
    <3>   SUFFICES ASSUME m.body = "chunked"
                   PROVE  l(5) = 6 /\ l(6) = n + 4 /\ l(7) = 5
          OBVIOUS
    <3>1. /\ 1 \in 1..3 /\ 2 \in 1..3 /\ 3 \in 1..3
          /\ 3 + 1 + 1 = 5 /\ 3 + 1 + 2 = 6 /\ 3 + 1 + 3 = 7
          OBVIOUS
    <3>2. \A i \in 1..3 : AllParts(m)[3 + 1 + i] = BodyParts(m)[i]
          BY <1>1, <1>2, AllPartsAre
    <3>3. /\ AllParts(m)[5] = BodyParts(m)[1] /\ AllParts(m)[6] = BodyParts(m)[2]
          /\ AllParts(m)[7] = BodyParts(m)[3]
          BY <3>1, <3>2
    <3>4. PICK zero, one \in Nat : zero = 0 /\ one = 1
          OBVIOUS
    <3>5. /\ BodyParts(m)[1] = Chunk(zero, one) /\ BodyParts(m)[2] = Chunk(one, n - 1)
          /\ BodyParts(m)[3] = Chunk(n, zero)
          BY <1>1, <3>4, BodyPartsAre
    <3>6. n - 1 \in Nat
          BY <1>2
    <3>7. /\ Len(Chunk(zero, one)) = one + 5 /\ Len(Chunk(one, n - 1)) = (n - 1) + 5
          /\ Len(Chunk(n, zero)) = zero + 5
          BY <1>2, <3>6, ChunkIs
    <3>   QED
          BY <1>2, <3>3, <3>4, <3>5, <3>7
  <2>   HIDE DEF l
  <2>5. ASSUME NEW i \in 1..k + 1 + b PROVE e[i] = e[i - 1] + l(i)
    <3>1. i \in 0..k + 1 + b /\ i - 1 \in 0..k + 1 + b /\ i \in Nat
          BY <1>2
    <3>2. CASE i <= k
          BY <1>2, <1>4, <2>1, <3>1, <3>2
    <3>3. CASE i = k + 1
      <4>1. e[i] = 4 * k + 2
            BY <1>2, <1>4, <3>1, <3>3
      <4>2. e[i - 1] = 4 * k
            BY <1>2, <1>4, <3>1, <3>3
      <4>   QED
            BY <1>2, <2>2, <3>3, <4>1, <4>2
    <3>4. CASE i > k + 1 /\ m.body # "chunked"
      <4>1. m.body = "length" /\ i - k - 1 \in 1..n /\ k + 1 + (i - k - 1) = i
            BY <1>2, <3>1, <3>4
      <4>2. l(i) = 1
            BY <2>3, <4>1
      <4>3. e[i] = 4 * k + 2 + (i - k - 1)
            BY <1>2, <1>4, <3>1, <3>4
      <4>4. e[i - 1] = 4 * k + 2 + ((i - 1) - k - 1)
            BY <1>2, <1>4, <3>1, <3>4
      <4>   QED
            BY <1>2, <3>1, <4>2, <4>3, <4>4
    <3>5. CASE i > k + 1 /\ m.body = "chunked"
      <4>1. k = 3 /\ b = 3 /\ i \in {5, 6, 7}
            BY <1>2, <3>1, <3>5
      <4>2. e[4] = 14 /\ e[5] = 20 /\ e[6] = n + 24 /\ e[7] = n + 29
        <5>1. \A j \in {4, 5, 6, 7} : j \in 0..k + 1 + b
              BY <4>1
        <5>   QED
              BY <1>4, <3>5, <5>1
      <4>   QED
            BY <1>2, <2>4, <3>5, <4>1, <4>2
    <3>   QED
          BY <1>2, <3>1, <3>2, <3>3, <3>4, <3>5
  <2>   QED
        BY <2>5 DEF l
<1>9. e[0] = 0 /\ \A i \in 0..k : e[i] = 4 * i
  <2>1. \A i \in 0..k : i \in 0..k + 1 + b /\ i <= k
        BY <1>2
  <2>2. \A i \in 0..k : e[i] = 4 * i
        BY <1>4, <2>1
  <2>3. 0 \in 0..k /\ 4 * 0 = 0
        BY <1>2
  <2>   QED
        BY <2>2, <2>3
<1>10. e[k + 1] = 4 * k + 2
  <2>1. k + 1 \in 0..k + 1 + b
        BY <1>2
  <2>2. CASE m.body # "chunked"
        BY <1>2, <1>4, <2>1, <2>2
  <2>3. CASE m.body = "chunked"
    <3>1. k + 1 = 4 /\ 4 * k + 2 = 14
          BY <1>2, <2>3
    <3>   QED
          BY <1>4, <2>1, <2>3, <3>1
  <2>   QED
        BY <2>2, <2>3
<1>11. e[k + 1 + b] = Whole(m)
  <2>1. k + 1 + b \in 0..k + 1 + b
        BY <1>2
  <2>2. CASE m.body = "none"
    <3>1. Whole(m) = 4 * k + 2 /\ k + 1 + b = k + 1
          BY <1>2, <2>2 DEF Whole
    <3>   QED
          BY <1>10, <3>1
  <2>3. CASE m.body = "length"
    <3>1. Whole(m) = 4 * k + 2 + n
          BY <1>1, <1>2, <2>3 DEF Whole
    <3>2. e[k + 1 + b] = 4 * k + 2 + ((k + 1 + b) - k - 1)
          BY <1>2, <1>4, <2>1, <2>3
    <3>   QED
          BY <1>2, <2>3, <3>1, <3>2
  <2>4. CASE m.body = "chunked"
    <3>1. Whole(m) = 4 * k + 2 + n + 15
          BY <1>1, <1>2, <2>4 DEF Whole
    <3>3. k + 1 + b = 7 /\ k = 3
          BY <1>2, <2>4
    <3>2. e[7] = n + 29
          BY <1>4, <2>1, <2>4, <3>3
    <3>   QED
          BY <1>2, <3>1, <3>2, <3>3
  <2>   QED
        BY <1>2, <2>2, <2>3, <2>4
<1>12. EndsOf(AllParts(m), e)
      BY <1>1, <1>7, <1>8, <1>9, AllPartsAre DEF EndsOf
<1>   QED
      BY <1>1, <1>2, <1>3, <1>9, <1>10, <1>11, <1>12, AllPartsAre

\* The header: its tokens, and where a buffer that ends in it may end.
LEMMA HeaderLies ==
    ASSUME NEW m \in Messages
    PROVE  /\ Wire(m) \in Seq(Token) /\ Len(Wire(m)) = Whole(m)
           /\ Len(FlattenSeq(HeaderParts(m))) = HeadEnd(m)
           /\ \A q \in 1..Lines(m) + 1 : \A o \in 1..Len(HeaderParts(m)[q]) :
                    Wire(m)[4 * (q - 1) + o] = HeaderParts(m)[q][o]
           /\ \A j \in 1..Len(BodyParts(m)) : \A o \in 1..Len(BodyParts(m)[j]) :
                    Wire(m)[EndOf(m)[Lines(m) + j] + o] = BodyParts(m)[j][o]
           /\ Ends(AllParts(m)) = {EndOf(m)[j] : j \in 1..Len(AllParts(m))}
<1>1. PICK k \in Nat : k = Lines(m) /\ k \in {2, 3}
      BY DEF Lines
<1>2. PICK parts, e : parts = AllParts(m) /\ e = EndOf(m)
      OBVIOUS
<1>3. /\ parts \in Seq(Seq(Token)) /\ Len(parts) = k + 1 + Len(BodyParts(m))
      /\ Len(BodyParts(m)) \in Nat /\ Len(parts) # 0
      /\ \A i \in 1..k + 1 : parts[i] = HeaderParts(m)[i]
      /\ \A i \in 1..Len(BodyParts(m)) : parts[k + 1 + i] = BodyParts(m)[i]
      BY <1>1, <1>2, AllPartsAre
<1>4. /\ EndsOf(parts, e) /\ e[Len(parts)] = Whole(m)
      /\ \A i \in 0..k : e[i] = 4 * i
      /\ e[k + 1] = HeadEnd(m)
      BY <1>1, <1>2, EndOfIs
<1>5. Wire(m) = FlattenSeq(parts)
      BY <1>2 DEF Wire, AllParts
<1>6. /\ Wire(m) \in Seq(Token) /\ Len(Wire(m)) = Whole(m)
      /\ \A j \in 1..Len(parts) : \A o \in 1..Len(parts[j]) :
            Wire(m)[e[j - 1] + o] = parts[j][o]
      /\ Ends(parts) = {e[j] : j \in 1..Len(parts)}
  <2>1. /\ FlattenSeq(parts) \in Seq(Token) /\ Len(FlattenSeq(parts)) = e[Len(parts)]
        /\ \A j \in 1..Len(parts) : \A o \in 1..Len(parts[j]) :
              FlattenSeq(parts)[e[j - 1] + o] = parts[j][o]
        /\ Ends(parts) = {e[j] : j \in 1..Len(parts)}
        BY <1>3, <1>4, PartsLie
  <2>   QED
        BY <1>4, <1>5, <2>1
<1>7. Len(FlattenSeq(HeaderParts(m))) = HeadEnd(m)
  <2>   DEFINE f == [i \in 0..k + 1 |-> e[i]]
  <2>1. /\ HeaderParts(m) \in Seq(Seq(Token)) /\ Len(HeaderParts(m)) = k + 1
        BY <1>1, HeaderPartsAre
  <2>2. \A i \in 0..k + 1 : f[i] = e[i] /\ e[i] \in Nat
    <3>1. \A i \in 0..k + 1 : i \in 0..Len(parts)
          BY <1>1, <1>3
    <3>2. e \in [0..Len(parts) -> Nat]
          BY <1>4 DEF EndsOf
    <3>   QED
          BY <3>1, <3>2
  <2>3. f \in [0..k + 1 -> Nat]
        BY <2>2
  <2>4. ASSUME NEW i \in 1..k + 1 PROVE f[i] = f[i - 1] + Len(HeaderParts(m)[i])
    <3>1. /\ i \in 0..k + 1 /\ i - 1 \in 0..k + 1 /\ i \in 1..Len(parts)
          BY <1>1, <1>3
    <3>2. e[i] = e[i - 1] + Len(parts[i])
          BY <1>4, <3>1 DEF EndsOf
    <3>   HIDE DEF f
    <3>   QED
          BY <1>3, <2>2, <3>1, <3>2
  <2>5. 0 \in 0..k + 1 /\ k + 1 \in 0..k + 1 /\ k + 1 # 0 /\ e[0] = 0
        BY <1>1, <1>4 DEF EndsOf
  <2>   HIDE DEF f
  <2>6. EndsOf(HeaderParts(m), f)
        BY <2>1, <2>2, <2>3, <2>4, <2>5 DEF EndsOf
  <2>7. Len(FlattenSeq(HeaderParts(m))) = f[Len(HeaderParts(m))]
        BY <2>1, <2>5, <2>6, PartsLie
  <2>   QED
        BY <1>4, <2>1, <2>2, <2>5, <2>7
<1>8. ASSUME NEW q \in 1..k + 1, NEW o \in 1..Len(HeaderParts(m)[q])
      PROVE  Wire(m)[4 * (q - 1) + o] = HeaderParts(m)[q][o]
  <2>1. q \in 1..Len(parts) /\ q - 1 \in 0..k /\ parts[q] = HeaderParts(m)[q]
        BY <1>1, <1>3
  <2>   QED
        BY <1>4, <1>6, <2>1
<1>9. ASSUME NEW j \in 1..Len(BodyParts(m)), NEW o \in 1..Len(BodyParts(m)[j])
      PROVE  Wire(m)[e[k + j] + o] = BodyParts(m)[j][o]
  <2>1. PICK b, x : b = Len(BodyParts(m)) /\ x = k + 1 + j
        OBVIOUS
  <2>2. x \in 1..Len(parts) /\ x - 1 = k + j
    <3>1. b \in Nat /\ Len(parts) = k + 1 + b /\ j \in 1..b
          BY <1>3, <2>1
    <3>   QED
          BY <1>1, <2>1, <3>1
  <2>3. parts[x] = BodyParts(m)[j]
        BY <1>3, <2>1
  <2>   QED
        BY <1>6, <2>2, <2>3
<1>   QED
      BY <1>1, <1>2, <1>6, <1>7, <1>8, <1>9

\* The bytes of a body that Content-Length announces.
LEMMA BytesLie ==
    ASSUME NEW m \in Messages, m.body = "length", NEW i \in 1..m.length
    PROVE  Wire(m)[HeadEnd(m) + i] = Tok("byte", i)
<1>1. PICK k \in Nat : k = Lines(m) /\ k = 3 /\ HeadEnd(m) = 4 * k + 2
      BY DEF Lines, HeadEnd
<1>2. /\ m.length \in Nat /\ Len(BodyParts(m)) = m.length
      /\ BodyParts(m)[i] = <<Tok("byte", i)>>
      BY MessageIs, BodyPartsAre
<1>3. EndOf(m)[k + i] = HeadEnd(m) + (i - 1)
  <2>1. CASE i = 1
    <3>1. k + i = k + 1 /\ HeadEnd(m) + (i - 1) = HeadEnd(m)
          BY <1>1, <2>1
    <3>   QED
          BY <1>1, <3>1, EndOfIs
  <2>2. CASE i # 1
    <3>1. PICK x : x = k + i
          OBVIOUS
    <3>2. x \in 0..k + 1 + m.length /\ x > k /\ ~ (x <= k) /\ x - k - 1 = i - 1
          BY <1>1, <1>2, <2>2, <3>1
    <3>3. EndOf(m)[x] = HeadEnd(m) + (x - k - 1)
          BY <1>1, <1>2, <3>2 DEF EndOf
    <3>   QED
          BY <3>1, <3>2, <3>3
  <2>   QED
        BY <2>1, <2>2
<1>4. \A x : Len(<<x>>) = 1 /\ <<x>>[1] = x
      OBVIOUS
<1>5. Wire(m)[EndOf(m)[k + i] + 1] = <<Tok("byte", i)>>[1]
  <2>1. 1 \in 1..Len(BodyParts(m)[i]) /\ i \in 1..Len(BodyParts(m))
        BY <1>2, <1>4
  <2>2. Wire(m)[EndOf(m)[k + i] + 1] = BodyParts(m)[i][1]
        BY <1>1, <2>1, HeaderLies
  <2>   QED
        BY <1>2, <2>2
<1>6. HeadEnd(m) + (i - 1) + 1 = HeadEnd(m) + i
      BY <1>1
<1>   QED
      BY <1>3, <1>4, <1>5, <1>6

\* The three chunks, the size of which is that of their bytes.
LEMMA ChunksLie ==
    ASSUME NEW m \in Messages, m.body = "chunked"
    PROVE  /\ \A o \in 1..6 : Wire(m)[HeadEnd(m) + o] = Chunk(0, 1)[o]
           /\ \A o \in 1..m.length + 4 :
                    Wire(m)[HeadEnd(m) + 6 + o] = Chunk(1, m.length - 1)[o]
           /\ \A o \in 1..5 :
                    Wire(m)[HeadEnd(m) + m.length + 10 + o] = Chunk(m.length, 0)[o]
<1>1. PICK k, n \in Nat : k = Lines(m) /\ k = 3 /\ HeadEnd(m) = 14 /\ n = m.length
      BY MessageIs DEF Lines, HeadEnd
<1>2. /\ n - 1 \in Nat /\ Len(BodyParts(m)) = 3
      BY <1>1, MessageIs, BodyPartsAre
<1>3. PICK zero, one \in Nat : zero = 0 /\ one = 1
      OBVIOUS
<1>4. /\ BodyParts(m)[1] = Chunk(zero, one) /\ BodyParts(m)[2] = Chunk(one, n - 1)
      /\ BodyParts(m)[3] = Chunk(n, zero)
      BY <1>1, <1>3, BodyPartsAre
<1>5. /\ Len(Chunk(zero, one)) = 6 /\ Len(Chunk(one, n - 1)) = n + 4
      /\ Len(Chunk(n, zero)) = 5
  <2>1. /\ Len(Chunk(zero, one)) = one + 5 /\ Len(Chunk(one, n - 1)) = (n - 1) + 5
        /\ Len(Chunk(n, zero)) = zero + 5
        BY <1>2, ChunkIs
  <2>   QED
        BY <1>3, <2>1
<1>6. /\ EndOf(m)[3 + 1] = HeadEnd(m) /\ EndOf(m)[3 + 2] = HeadEnd(m) + 6
      /\ EndOf(m)[3 + 3] = HeadEnd(m) + n + 10
  <2>1. \A i \in {4, 5, 6} : i \in 0..3 + 1 + 3 /\ i > 3 /\ ~ (i <= 3)
        OBVIOUS
  <2>2. 3 + 1 = 4 /\ 3 + 2 = 5 /\ 3 + 3 = 6
        OBVIOUS
  <2>   QED
        BY <1>1, <1>2, <2>1, <2>2 DEF EndOf
<1>7. \A j \in 1..3 : \A o \in 1..Len(BodyParts(m)[j]) :
            Wire(m)[EndOf(m)[3 + j] + o] = BodyParts(m)[j][o]
  <2>1. \A j \in 1..Len(BodyParts(m)) : \A o \in 1..Len(BodyParts(m)[j]) :
            Wire(m)[EndOf(m)[Lines(m) + j] + o] = BodyParts(m)[j][o]
        BY HeaderLies
  <2>   QED
        BY <1>1, <1>2, <2>1
<1>8. 1 \in 1..3 /\ 2 \in 1..3 /\ 3 \in 1..3
      OBVIOUS
<1>9. \A o \in 1..6 : Wire(m)[HeadEnd(m) + o] = Chunk(zero, one)[o]
  <2>1. \A o \in 1..Len(BodyParts(m)[1]) :
            Wire(m)[EndOf(m)[3 + 1] + o] = BodyParts(m)[1][o]
        BY <1>7, <1>8
  <2>   QED
        BY <1>4, <1>5, <1>6, <2>1
<1>10. \A o \in 1..n + 4 : Wire(m)[HeadEnd(m) + 6 + o] = Chunk(one, n - 1)[o]
      BY <1>4, <1>5, <1>6, <1>7, <1>8
<1>11. \A o \in 1..5 : Wire(m)[HeadEnd(m) + n + 10 + o] = Chunk(n, zero)[o]
      BY <1>4, <1>5, <1>6, <1>7, <1>8
<1>   QED
      BY <1>1, <1>3, <1>9, <1>10, <1>11

(***************************************************************************)
(* Where an aligned buffer may end.                                        *)
(***************************************************************************)

Stops(m) ==
    {4 * q : q \in 0..Lines(m)}
    \cup (IF m.body = "chunked"
          THEN {HeadEnd(m), HeadEnd(m) + 6, HeadEnd(m) + m.length + 10, Whole(m)}
          ELSE HeadEnd(m)..Whole(m))

LEMMA EndsAre ==
    ASSUME NEW m \in Messages
    PROVE  /\ Ends(AllParts(m)) \subseteq Stops(m)
           /\ m.body = "chunked" =>
                {HeadEnd(m) + 6, HeadEnd(m) + m.length + 10, Whole(m)} \subseteq Ends(AllParts(m))
<1>1. PICK k, b, n \in Nat :
        /\ k = Lines(m) /\ b = Len(BodyParts(m)) /\ n = m.length
        /\ k \in {2, 3} /\ HeadEnd(m) = 4 * k + 2
        /\ m.body = "chunked" => k = 3 /\ b = 3 /\ Whole(m) = HeadEnd(m) + n + 15
        /\ m.body = "length" => b = n /\ Whole(m) = HeadEnd(m) + n
        /\ m.body = "none" => b = 0 /\ Whole(m) = HeadEnd(m)
      BY MessageIs, BodyPartsAre, AllPartsAre DEF Lines, HeadEnd, Whole
<1>2. Ends(AllParts(m)) = {EndOf(m)[j] : j \in 1..k + 1 + b}
      BY <1>1, AllPartsAre, HeaderLies
<1>3. ASSUME NEW j \in 1..k + 1 + b PROVE EndOf(m)[j] \in Stops(m)
  <2>1. j \in 0..k + 1 + b /\ j \in Nat
        BY <1>1
  <2>2. CASE j <= k
    <3>1. j \in 0..k
          BY <2>1, <2>2
    <3>   QED
          BY <1>1, <3>1, EndOfIs DEF Stops
  <2>3. CASE j > k /\ m.body # "chunked"
    <3>1. EndOf(m)[j] = HeadEnd(m) + (j - k - 1)
          BY <1>1, <2>1, <2>3 DEF EndOf
    <3>2. HeadEnd(m) + (j - k - 1) \in HeadEnd(m)..Whole(m)
      <4>1. m.body \in {"none", "length"} /\ j - k - 1 \in 0..b
        <5>1. j \in 0..k + 1 + b /\ j > k /\ k \in Nat /\ b \in Nat
              BY <1>1, <2>1, <2>3
        <5>2. j - k - 1 \in 0..b
              BY <5>1
        <5>   QED
              BY <2>3, <5>2, MessageIs
      <4>2. PICK h, w : h = HeadEnd(m) /\ w = Whole(m)
            OBVIOUS
      <4>3. h \in Nat
            BY <1>1, <4>2
      <4>4. w = h + b
        <5>1. CASE m.body = "none"
              BY <1>1, <4>2, <4>3, <5>1
        <5>2. CASE m.body = "length"
              BY <1>1, <4>2, <5>2
        <5>   QED
              BY <4>1, <5>1, <5>2
      <4>5. PICK d : d = j - k - 1
            OBVIOUS
      <4>6. d \in 0..b /\ b \in Nat
            BY <1>1, <4>1, <4>5
      <4>7. h + d \in h..h + b
            BY <4>3, <4>6
      <4>   QED
            BY <4>2, <4>4, <4>5, <4>7
    <3>   QED
          BY <2>3, <3>1, <3>2 DEF Stops
  <2>4. CASE j > k /\ m.body = "chunked"
    <3>1. j \in {4, 5, 6, 7} /\ ~ (j <= 3)
      <4>1. k = 3 /\ b = 3
            BY <1>1, <2>4
      <4>   QED
            BY <2>1, <2>4, <4>1
    <3>2. /\ j = 4 => EndOf(m)[j] = HeadEnd(m)
          /\ j = 5 => EndOf(m)[j] = HeadEnd(m) + 6
          /\ j = 6 => EndOf(m)[j] = HeadEnd(m) + m.length + 10
          /\ j = 7 => EndOf(m)[j] = HeadEnd(m) + m.length + 15
          BY <1>1, <2>1, <2>4, <3>1 DEF EndOf
    <3>   QED
          BY <1>1, <2>4, <3>1, <3>2 DEF Stops
  <2>   QED
        BY <1>1, <2>1, <2>2, <2>3, <2>4
<1>4. ASSUME m.body = "chunked"
      PROVE  {HeadEnd(m) + 6, HeadEnd(m) + m.length + 10, Whole(m)} \subseteq Ends(AllParts(m))
  <2>1. \A j \in {5, 6, 7} : j \in 1..7 /\ j \in 0..7 /\ j > 3 /\ ~ (j <= 3)
        OBVIOUS
  <2>2. k + 1 + b = 7 /\ Lines(m) = 3 /\ 3 + 1 + 3 = 7
    <3>1. k = 3 /\ b = 3
          BY <1>1, <1>4
    <3>   QED
          BY <1>1, <3>1
  <2>3. /\ EndOf(m)[5] = HeadEnd(m) + 6
        /\ EndOf(m)[6] = HeadEnd(m) + m.length + 10
        /\ EndOf(m)[7] = HeadEnd(m) + m.length + 15
        BY <1>1, <1>4, <2>1, <2>2 DEF EndOf
  <2>   QED
        BY <1>1, <1>2, <1>4, <2>1, <2>2, <2>3
<1>   QED
      BY <1>2, <1>3, <1>4

-----------------------------------------------------------------------------
(***************************************************************************)
(* read_header on the tokens of a message, one after the other.            *)
(***************************************************************************)

LEMMA ReverseIs ==
    ASSUME NEW s \in Seq(Token)
    PROVE  /\ Reverse(s) \in Seq(Token) /\ Len(Reverse(s)) = Len(s)
           /\ \A i \in 1..Len(s) : Reverse(s)[i] = s[(Len(s) - i) + 1]
<1>1. Reverse(s) = [k \in 1..Len(s) |-> s[(Len(s) - k) + 1]] /\ Len(s) \in Nat
      BY DEF Reverse
<1>2. \A k \in 1..Len(s) : (Len(s) - k) + 1 \in 1..Len(s)
      BY <1>1
<1>3. Reverse(s) \in Seq(Token) /\ DOMAIN Reverse(s) = 1..Len(s)
      BY <1>1, <1>2
<1>   QED
      BY <1>1, <1>3

\* A line ends where its last two tokens are CR and LF.
LEMMA SuffixIs ==
    ASSUME NEW cur \in Seq(Token)
    PROVE  IsSuffix(CRLF, cur) <=>
                /\ Len(cur) >= 2
                /\ cur[Len(cur) - 1] = Tok("cr", 0) /\ cur[Len(cur)] = Tok("lf", 0)
<1>1. PICK r, t, n : r = Reverse(CRLF) /\ t = Reverse(cur) /\ n = Len(cur)
      OBVIOUS
<1>2. /\ CRLF \in Seq(Token) /\ Len(CRLF) = 2
      /\ CRLF[1] = Tok("cr", 0) /\ CRLF[2] = Tok("lf", 0)
      BY CRLFIs DEF CRLF
<1>3. /\ r \in Seq(Token) /\ Len(r) = 2
      /\ r[1] = Tok("lf", 0) /\ r[2] = Tok("cr", 0)
  <2>1. /\ 1 \in 1..2 /\ 2 \in 1..2 /\ (2 - 1) + 1 = 2 /\ (2 - 2) + 1 = 1
        OBVIOUS
  <2>2. /\ r \in Seq(Token) /\ Len(r) = 2
        /\ \A i \in 1..2 : r[i] = CRLF[(2 - i) + 1]
        BY <1>1, <1>2, ReverseIs
  <2>3. r[1] = CRLF[(2 - 1) + 1] /\ r[2] = CRLF[(2 - 2) + 1]
        BY <2>1, <2>2
  <2>   QED
        BY <1>2, <2>1, <2>2, <2>3
<1>4. /\ t \in Seq(Token) /\ Len(t) = n /\ n \in Nat
      /\ n >= 2 => t[1] = cur[n] /\ t[2] = cur[n - 1]
  <2>1. n >= 2 => 1 \in 1..n /\ 2 \in 1..n /\ (n - 1) + 1 = n /\ (n - 2) + 1 = n - 1
        BY <1>1
  <2>   QED
        BY <1>1, <2>1, ReverseIs
<1>5. ASSUME n >= 2
      PROVE  SubSeq(r, 1, 2) = SubSeq(t, 1, 2) <=> r[1] = t[1] /\ r[2] = t[2]
  <2>1. /\ SubSeq(r, 1, 2) = [i \in 1..2 |-> r[i]]
        /\ SubSeq(t, 1, 2) = [i \in 1..2 |-> t[i]]
        BY <1>3, <1>4, <1>5
  <2>2. 1 \in 1..2 /\ 2 \in 1..2 /\ \A i \in 1..2 : i = 1 \/ i = 2
        OBVIOUS
  <2>   QED
        BY <2>1, <2>2
<1>6. IsSuffix(CRLF, cur) <=> 2 <= n /\ SubSeq(r, 1, 2) = SubSeq(t, 1, 2)
      BY <1>1, <1>3, <1>4 DEF IsSuffix, IsPrefix
<1>   QED
      BY <1>1, <1>3, <1>4, <1>5, <1>6

\* The tokens of a line with its line end.
LEMMA LinePartIs ==
    ASSUME NEW m \in Messages, NEW q \in 1..Lines(m)
    PROVE  /\ HeaderParts(m)[q] \in Seq(Token) /\ Len(HeaderParts(m)[q]) = 4
           /\ HeaderParts(m)[q][1].part \notin {"cr", "lf"}
           /\ HeaderParts(m)[q][2].part = "tail"
           /\ HeaderParts(m)[q][3] = Tok("cr", 0) /\ HeaderParts(m)[q][4] = Tok("lf", 0)
           /\ SubSeq(HeaderParts(m)[q], 1, 2) = HeaderLines(m)[q]
<1>1. PICK part, n : /\ part \in Parts \ {"cr", "lf"} /\ n \in Nat
                     /\ HeaderLines(m)[q] = Text(part, n)
  <2>1. PICK zero \in Nat : zero = 0
        OBVIOUS
  <2>2. /\ HeaderLines(m)[1] = Text(m.method, zero)
        /\ HeaderLines(m)[2] = Text("host", zero)
        /\ m.body = "length" => HeaderLines(m)[3] = Text("length", m.announced)
        /\ m.body = "chunked" => HeaderLines(m)[3] = Text("chunked", zero)
        BY <2>1, LinesAre DEF StartLine, HostLine, LengthLine, EncodingLine
  <2>3. q = 1 \/ q = 2 \/ (q = 3 /\ m.body # "none")
        BY DEF Lines
  <2>4. {m.method, "host", "length", "chunked"} \subseteq Parts \ {"cr", "lf"}
        BY MessageIs DEF Parts
  <2>   QED
        BY <2>1, <2>2, <2>3, <2>4, MessageIs
<1>2. PICK a : a = Text(part, n)
      OBVIOUS
<1>3. /\ a \in Seq(Token) /\ Len(a) = 2
      /\ a[1] = Tok(part, n) /\ a[2] = Tok("tail", n)
      BY <1>1, <1>2, TextIs
<1>4. /\ CRLF \in Seq(Token) /\ Len(CRLF) = 2
      /\ CRLF[1] = Tok("cr", 0) /\ CRLF[2] = Tok("lf", 0)
      BY CRLFIs DEF CRLF
<1>5. PICK p : p = a \o CRLF /\ p = HeaderParts(m)[q]
      BY <1>1, <1>2, HeaderPartsAre
<1>6. /\ p \in Seq(Token) /\ Len(p) = 4
      /\ p[1] = a[1] /\ p[2] = a[2] /\ p[3] = CRLF[1] /\ p[4] = CRLF[2]
  <2>1. 1 \in 1..2 /\ 2 \in 1..2 /\ 2 + 1 = 3 /\ 2 + 2 = 4
        OBVIOUS
  <2>2. /\ p \in Seq(Token) /\ Len(p) = Len(a) + Len(CRLF)
        /\ \A i \in 1..Len(a) : p[i] = a[i]
        /\ \A i \in 1..Len(CRLF) : p[Len(a) + i] = CRLF[i]
    <3>1. /\ a \o CRLF \in Seq(Token) /\ Len(a \o CRLF) = Len(a) + Len(CRLF)
          /\ \A i \in 1..Len(a) : (a \o CRLF)[i] = a[i]
          /\ \A i \in 1..Len(CRLF) : (a \o CRLF)[Len(a) + i] = CRLF[i]
          BY <1>3, <1>4, TokensJoined
    <3>   QED
          BY <1>5, <3>1
  <2>   QED
        BY <1>3, <1>4, <2>1, <2>2
<1>7. SubSeq(p, 1, 2) = a
  <2>1. SubSeq(p, 1, 2) = [i \in 1..2 |-> p[i]]
        BY <1>6
  <2>2. a = [i \in 1..2 |-> a[i]]
        BY <1>3
  <2>3. \A i \in 1..2 : p[i] = a[i]
        BY <1>6
  <2>   QED
        BY <2>1, <2>2, <2>3
<1>8. \A x, y : Tok(x, y).part = x
      BY DEF Tok
<1>   QED
      BY <1>1, <1>2, <1>3, <1>4, <1>5, <1>6, <1>7, <1>8

\* A request by its members.
Req(l, h, t, b, n, hdr, done, bad, c) ==
    [lines |-> l, headers |-> h, type |-> t, body |-> b, left |-> n,
     hdr |-> hdr, done |-> done, bad |-> bad, chunked |-> c]

\* The request when q lines of the header have been read.
Begun(m, q) ==
    Req(SubSeq(HeaderLines(m), 1, q), {}, IF q < 2 THEN "NONE" ELSE m.method,
        <<>>, 0, FALSE, FALSE, FALSE, FALSE)

\* The request when the header has been read, and i bytes in the same buffer.
HeaderRead(m, i) ==
    Req(HeaderLines(m), {}, m.method, Data(0, i), 0, TRUE, FALSE, FALSE, FALSE)

\* The reading of a buffer when x tokens of the message have arrived.
InPart(m, q, o) ==
    [cur |-> SubSeq(HeaderParts(m)[q + 1], 1, o), r |-> Begun(m, q)]

At(m, x) ==
    IF x < HeadEnd(m) THEN InPart(m, x \div 4, x % 4)
    ELSE [cur |-> <<>>, r |-> HeaderRead(m, x - HeadEnd(m))]

LEMMA StartLineIs ==
    ASSUME NEW m \in Messages
    PROVE  TypeOfLine(StartLine(m)) = m.method
<1>1. PICK zero \in Nat : zero = 0
      OBVIOUS
<1>2. PICK line : line = StartLine(m) /\ line = Text(m.method, zero)
      BY <1>1 DEF StartLine
<1>3. /\ Len(line) = 2 /\ line[1].part = m.method /\ line[2].part = "tail"
  <2>1. m.method \in Parts
        BY MessageIs DEF Parts
  <2>2. /\ Len(line) = 2 /\ line[1] = Tok(m.method, zero) /\ line[2] = Tok("tail", zero)
        BY <1>1, <1>2, <2>1, TextIs
  <2>3. \A x, y : Tok(x, y).part = x
        BY DEF Tok
  <2>   QED
        BY <2>2, <2>3
<1>4. {line[i].part : i \in 1..Len(line)} \cap {"GET", "POST"} = {m.method}
  <2>1. \A i \in 1..2 : i = 1 \/ i = 2
        OBVIOUS
  <2>   QED
        BY <1>3, <2>1, MessageIs
<1>5. {m.method} # {} /\ (CHOOSE t \in {m.method} : TRUE) = m.method
      OBVIOUS
<1>   QED
      BY <1>2, <1>4, <1>5 DEF TypeOfLine

\* What the end of a line behind them makes of the lines before it.
LEMMA BegunTyped ==
    ASSUME NEW m \in Messages, NEW q \in 0..Lines(m)
    PROVE  FindType(Begun(m, q)) =
                Req(SubSeq(HeaderLines(m), 1, q), {}, IF q < 1 THEN "NONE" ELSE m.method,
                    <<>>, 0, FALSE, FALSE, FALSE, FALSE)
<1>1. PICK no, zero, empty, none : no = FALSE /\ zero = 0 /\ empty = <<>> /\ none = {}
      OBVIOUS
<1>2. PICK l : l = SubSeq(HeaderLines(m), 1, q)
      OBVIOUS
<1>3. l \in Seq(Seq(Token)) /\ Len(l) = q /\ q \in Nat
      BY <1>2, LinesAre DEF Lines
<1>4. PICK t : t = IF q < 2 THEN "NONE" ELSE m.method
      OBVIOUS
<1>5. PICK r : r = Req(l, none, t, empty, zero, no, no, no, no) /\ r = Begun(m, q)
      BY <1>1, <1>2, <1>4 DEF Begun
<1>6. CASE q # 1
  <2>1. t = IF q < 1 THEN "NONE" ELSE m.method
        BY <1>3, <1>4, <1>6
  <2>2. FindType(r) = r
    <3>1. r.lines = l
          BY <1>5 DEF Req
    <3>   QED
          BY <1>3, <1>6, <3>1 DEF FindType
  <2>   QED
        BY <1>1, <1>2, <1>5, <2>1, <2>2
<1>7. CASE q = 1
  <2>1. l[1] = StartLine(m)
        BY <1>2, <1>3, <1>7, LinesAre DEF Lines
  <2>2. TypeOfLine(l[1]) = m.method /\ m.method # "NONE"
        BY <2>1, StartLineIs, MessageIs
  <2>3. FindType(r) = [r EXCEPT !.type = m.method]
    <3>1. r.lines = l /\ Len(l) = 1
          BY <1>3, <1>5, <1>7 DEF Req
    <3>   QED
          BY <2>2, <3>1 DEF FindType
  <2>4. PICK u : u = m.method
        OBVIOUS
  <2>5. [r EXCEPT !.type = u] = Req(l, none, u, empty, zero, no, no, no, no)
        BY <1>5 DEF Req
  <2>6. u = IF q < 1 THEN "NONE" ELSE m.method
        BY <1>7, <2>4
  <2>7. FindType(Begun(m, q)) = Req(l, none, u, empty, zero, no, no, no, no)
        BY <1>5, <2>3, <2>4, <2>5
  <2>   QED
        BY <1>1, <1>2, <2>6, <2>7
<1>   QED
      BY <1>6, <1>7

\* What one token of a buffer does: inside a line, at the end of one, and
\* behind the header.
LEMMA TokenInLine ==
    ASSUME NEW c, NEW r, NEW tok, ~r.bad, ~r.hdr, ~IsSuffix(CRLF, Append(c, tok))
    PROVE  HeaderToken([cur |-> c, r |-> r], tok) = [cur |-> Append(c, tok), r |-> r]
<1>1. PICK a, cur : a = [cur |-> c, r |-> r] /\ cur = Append(c, tok)
      OBVIOUS
<1>2. a.cur = c /\ a.r = r
      BY <1>1
<1>3. HeaderToken(a, tok) = [a EXCEPT !.cur = cur]
      BY <1>1, <1>2 DEF HeaderToken
<1>4. [a EXCEPT !.cur = cur] = [cur |-> cur, r |-> r]
      BY <1>1
<1>   QED
      BY <1>1, <1>3, <1>4

LEMMA TokenEndsLine ==
    ASSUME NEW c, NEW r, NEW tok, ~r.bad, ~r.hdr, ~FindType(r).bad,
           IsSuffix(CRLF, Append(c, tok))
    PROVE  HeaderToken([cur |-> c, r |-> r], tok) =
              [cur |-> <<>>,
               r |-> IF Append(c, tok) = CRLF THEN [FindType(r) EXCEPT !.hdr = TRUE]
                     ELSE [FindType(r) EXCEPT !.lines =
                              Append(@, SubSeq(Append(c, tok), 1, Len(Append(c, tok)) - 2))]]
<1>1. PICK a : a = [cur |-> c, r |-> r]
      OBVIOUS
<1>2. a.cur = c /\ a.r = r
      BY <1>1
<1>   QED
      BY <1>1, <1>2 DEF HeaderToken

LEMMA BodySet ==
    ASSUME NEW c, NEW r, NEW b, NEW a, a = [cur |-> c, r |-> r]
    PROVE  [a EXCEPT !.r.body = b] = [cur |-> c, r |-> [r EXCEPT !.body = b]]
OBVIOUS

LEMMA TokenInBody ==
    ASSUME NEW c, NEW r, NEW tok, ~r.bad, r.hdr
    PROVE  HeaderToken([cur |-> c, r |-> r], tok) =
                [cur |-> c, r |-> [r EXCEPT !.body = Append(@, tok)]]
<1>1. PICK a, b : a = [cur |-> c, r |-> r] /\ b = Append(r.body, tok)
      OBVIOUS
<1>2. a.cur = c /\ a.r = r
      BY <1>1
<1>3. HeaderToken(a, tok) = [a EXCEPT !.r.body = Append(@, tok)]
      BY <1>2 DEF HeaderToken
<1>4. [a EXCEPT !.r.body = b] = [cur |-> c, r |-> [r EXCEPT !.body = b]]
      BY ONLY <1>1, BodySet
<1>   QED
      BY <1>1, <1>2, <1>3, <1>4

LEMMA BegunIs ==
    ASSUME NEW m \in Messages, NEW q \in 0..Lines(m)
    PROVE  ~Begun(m, q).bad /\ ~Begun(m, q).hdr /\ ~FindType(Begun(m, q)).bad
<1>1. PICK l, t, u, empty, none, zero, no :
        /\ Begun(m, q) = Req(l, none, t, empty, zero, no, no, no, no)
        /\ FindType(Begun(m, q)) = Req(l, none, u, empty, zero, no, no, no, no)
        /\ ~no
      BY BegunTyped DEF Begun
<1>   QED
      BY <1>1 DEF Req

\* The tokens of a line are collected up to its end, which adds the line.
LEMMA LineToken ==
    ASSUME NEW m \in Messages, NEW q \in 0..Lines(m) - 1, NEW o \in 0..3
    PROVE  HeaderToken(InPart(m, q, o), HeaderParts(m)[q + 1][o + 1]) =
                IF o = 3 THEN InPart(m, q + 1, 0) ELSE InPart(m, q, o + 1)
<1>1. PICK k \in Nat : k = Lines(m) /\ k \in {2, 3} /\ q + 1 \in 1..k /\ q \in 0..k
      BY DEF Lines
<1>2. PICK p : p = HeaderParts(m)[q + 1]
      OBVIOUS
<1>3. /\ p \in Seq(Token) /\ Len(p) = 4
      /\ p[1].part \notin {"cr", "lf"} /\ p[2].part = "tail"
      /\ p[3] = Tok("cr", 0) /\ p[4] = Tok("lf", 0)
      /\ SubSeq(p, 1, 2) = HeaderLines(m)[q + 1]
  <2>1. PICK x : x = q + 1 /\ x \in 1..Lines(m)
        BY <1>1
  <2>   QED
        BY <1>2, <2>1, LinePartIs
<1>4. PICK c, r, tok, cur :
        /\ c = SubSeq(p, 1, o) /\ r = Begun(m, q) /\ tok = p[o + 1]
        /\ cur = Append(c, tok)
      OBVIOUS
<1>5. /\ c \in Seq(Token) /\ Len(c) = o /\ \A i \in 1..o : c[i] = p[i]
      /\ o + 1 \in 1..4 /\ tok \in Token
  <2>1. o \in Nat /\ o <= 4 /\ o + 1 \in 1..4
        OBVIOUS
  <2>2. c \in Seq(Token) /\ Len(c) = o /\ \A i \in 1..o : c[i] = p[i]
        BY <1>3, <1>4, <2>1, PrefixIs
  <2>   QED
        BY <1>3, <1>4, <2>1, <2>2
<1>6. /\ cur \in Seq(Token) /\ Len(cur) = o + 1 /\ \A i \in 1..o + 1 : cur[i] = p[i]
      BY <1>4, <1>5
<1>7. cur = SubSeq(p, 1, o + 1)
  <2>1. SubSeq(p, 1, o + 1) = [i \in 1..o + 1 |-> p[i]]
        BY <1>3, <1>5
  <2>2. cur = [i \in 1..o + 1 |-> cur[i]]
        BY <1>6
  <2>   QED
        BY <1>6, <2>1, <2>2
<1>8. ~r.bad /\ ~r.hdr /\ ~FindType(r).bad
      BY <1>1, <1>4, BegunIs
<1>9. IsSuffix(CRLF, cur) <=> o = 3
  <2>1. IsSuffix(CRLF, cur) <=>
            o + 1 >= 2 /\ cur[o] = Tok("cr", 0) /\ cur[o + 1] = Tok("lf", 0)
    <3>1. PICK n : n = o + 1 /\ n - 1 = o
          BY <1>5
    <3>2. IsSuffix(CRLF, cur) <=>
            n >= 2 /\ cur[n - 1] = Tok("cr", 0) /\ cur[n] = Tok("lf", 0)
          BY <1>6, <3>1, SuffixIs
    <3>   QED
          BY <3>1, <3>2
  <2>2. Tok("cr", 0).part = "cr" /\ Tok("lf", 0).part = "lf"
        BY DEF Tok
  <2>3. CASE o = 0
        BY <2>1, <2>3
  <2>4. CASE o = 1
    <3>1. cur[2] = p[2]
          BY <1>6, <2>4
    <3>   QED
          BY <1>3, <2>1, <2>2, <2>4, <3>1
  <2>5. CASE o = 2
    <3>1. cur[3] = p[3]
          BY <1>6, <2>5
    <3>   QED
          BY <1>3, <2>1, <2>2, <2>5, <3>1
  <2>6. CASE o = 3
    <3>1. cur[3] = p[3] /\ cur[4] = p[4]
          BY <1>6, <2>6
    <3>   QED
          BY <1>3, <2>1, <2>6, <3>1
  <2>   QED
        BY <2>3, <2>4, <2>5, <2>6
<1>10. CASE o # 3
  <2>1. ~IsSuffix(CRLF, Append(c, tok))
        BY <1>4, <1>9, <1>10
  <2>2. HeaderToken([cur |-> c, r |-> r], tok) = [cur |-> Append(c, tok), r |-> r]
        BY <1>8, <2>1, TokenInLine
  <2>   QED
        BY <1>2, <1>4, <1>7, <1>10, <2>2 DEF InPart
<1>11. CASE o = 3
  <2>1. cur # CRLF /\ Len(cur) = 4
    <3>1. Len(CRLF) = 2
          BY CRLFIs
    <3>   QED
          BY <1>6, <1>11, <3>1
  <2>2. PICK f, line : f = FindType(r) /\ line = SubSeq(cur, 1, Len(cur) - 2)
        OBVIOUS
  <2>3. HeaderToken([cur |-> c, r |-> r], tok) =
            [cur |-> <<>>, r |-> [f EXCEPT !.lines = Append(@, line)]]
    <3>1. IsSuffix(CRLF, Append(c, tok))
          BY <1>4, <1>9, <1>11
    <3>2. HeaderToken([cur |-> c, r |-> r], tok) =
              [cur |-> <<>>,
               r |-> IF Append(c, tok) = CRLF THEN [FindType(r) EXCEPT !.hdr = TRUE]
                     ELSE [FindType(r) EXCEPT !.lines =
                              Append(@, SubSeq(Append(c, tok), 1, Len(Append(c, tok)) - 2))]]
          BY <1>8, <3>1, TokenEndsLine
    <3>   QED
          BY <1>4, <2>1, <2>2, <3>2
  <2>4. line = HeaderLines(m)[q + 1]
    <3>1. cur = p
          BY <1>3, <1>6, <1>11
    <3>   QED
          BY <1>3, <2>1, <2>2, <3>1
  <2>5. PICK l, u, w, empty, none, zero, no :
            /\ l = SubSeq(HeaderLines(m), 1, q)
            /\ u = (IF q < 1 THEN "NONE" ELSE m.method)
            /\ w = SubSeq(HeaderLines(m), 1, q + 1)
            /\ empty = <<>> /\ none = {} /\ zero = 0 /\ no = FALSE
        OBVIOUS
  <2>6. f = Req(l, none, u, empty, zero, no, no, no, no)
        BY <1>1, <1>4, <2>2, <2>5, BegunTyped
  <2>7. Append(l, line) = w
    <3>1. HeaderLines(m) \in Seq(Seq(Token)) /\ Len(HeaderLines(m)) = k
          BY <1>1, LinesAre
    <3>2. PICK h, x : h = HeaderLines(m) /\ x = q + 1
          OBVIOUS
    <3>3. h \in Seq(Seq(Token)) /\ x \in 1..Len(h) /\ x - 1 = q
          BY <1>1, <3>1, <3>2
    <3>4. Append(SubSeq(h, 1, x - 1), h[x]) = SubSeq(h, 1, x)
          BY <3>3
    <3>   QED
          BY <2>4, <2>5, <3>2, <3>3, <3>4
  <2>8. [f EXCEPT !.lines = Append(@, line)] = Req(w, none, u, empty, zero, no, no, no, no)
    <3>1. f.lines = l
          BY <2>6 DEF Req
    <3>2. [f EXCEPT !.lines = w] = Req(w, none, u, empty, zero, no, no, no, no)
          BY <2>6 DEF Req
    <3>   QED
          BY <2>7, <3>1, <3>2
  <2>9. [f EXCEPT !.lines = Append(@, line)] = Begun(m, q + 1)
    <3>1. u = IF q + 1 < 2 THEN "NONE" ELSE m.method
          BY <1>1, <2>5
    <3>   QED
          BY <2>5, <2>8, <3>1 DEF Begun
  <2>10. SubSeq(HeaderParts(m)[(q + 1) + 1], 1, 0) = <<>>
        OBVIOUS
  <2>   QED
        BY <1>2, <1>4, <1>11, <2>3, <2>9, <2>10 DEF InPart
<1>   QED
      BY <1>10, <1>11

\* The line end behind the last line ends the header.
LEMMA BlankTokens ==
    ASSUME NEW m \in Messages, NEW k, k = Lines(m)
    PROVE  /\ HeaderToken(InPart(m, k, 0), CRLF[1]) = InPart(m, k, 1)
           /\ HeaderToken(InPart(m, k, 1), CRLF[2]) = [cur |-> <<>>, r |-> HeaderRead(m, 0)]
<1>1. k \in {2, 3} /\ k \in Nat /\ k \in 0..Lines(m)
      BY DEF Lines
<1>2. PICK r : r = Begun(m, k)
      OBVIOUS
<1>3. ~r.bad /\ ~r.hdr /\ ~FindType(r).bad
      BY <1>1, <1>2, BegunIs
<1>4. /\ CRLF \in Seq(Token) /\ Len(CRLF) = 2
      /\ CRLF[1] = Tok("cr", 0) /\ CRLF[2] = Tok("lf", 0)
      BY CRLFIs DEF CRLF
<1>5. HeaderParts(m)[k + 1] = CRLF
      BY HeaderPartsAre
<1>6. PICK x, y, a, b, d : /\ x = CRLF[1] /\ y = CRLF[2]
                           /\ a = SubSeq(CRLF, 1, 0) /\ b = SubSeq(CRLF, 1, 1) /\ d = CRLF
      OBVIOUS
<1>7. a = <<>> /\ b \in Seq(Token) /\ Len(b) = 1 /\ SubSeq(d, 1, 2) = d
  <2>1. SubSeq(d, 1, 0) = <<>> /\ SubSeq(d, 1, 2) = d
        BY <1>4, <1>6
  <2>2. PICK one : one = 1 /\ one \in 0..Len(d)
        BY <1>4, <1>6
  <2>3. SubSeq(d, 1, one) \in Seq(Token) /\ Len(SubSeq(d, 1, one)) = one
        BY <1>4, <1>6, <2>2, PrefixIs
  <2>   QED
        BY <1>6, <2>1, <2>2, <2>3
<1>8. Append(a, x) = b /\ Append(b, y) = d
  <2>1. ASSUME NEW i \in 1..Len(d) PROVE Append(SubSeq(d, 1, i - 1), d[i]) = SubSeq(d, 1, i)
        BY <1>4, <1>6
  <2>2. 1 \in 1..Len(d) /\ 2 \in 1..Len(d) /\ 1 - 1 = 0 /\ 2 - 1 = 1
        BY <1>4, <1>6
  <2>3. /\ Append(SubSeq(d, 1, 0), d[1]) = SubSeq(d, 1, 1)
        /\ Append(SubSeq(d, 1, 1), d[2]) = SubSeq(d, 1, 2)
        BY <2>1, <2>2
  <2>   QED
        BY <1>6, <1>7, <2>3
<1>9. ~IsSuffix(CRLF, b) /\ IsSuffix(CRLF, d)
  <2>1. b \in Seq(Token) /\ Len(b) = 1
        BY <1>7
  <2>2. IsSuffix(CRLF, b) => Len(b) >= 2
        BY <2>1, SuffixIs
  <2>3. IsSuffix(CRLF, CRLF)
        BY <1>4, SuffixIs
  <2>   QED
        BY <1>6, <2>1, <2>2, <2>3
<1>10. InPart(m, k, 0) = [cur |-> a, r |-> r] /\ InPart(m, k, 1) = [cur |-> b, r |-> r]
      BY <1>2, <1>5, <1>6 DEF InPart
<1>11. HeaderToken([cur |-> a, r |-> r], x) = [cur |-> b, r |-> r]
  <2>1. ~IsSuffix(CRLF, Append(a, x))
        BY <1>8, <1>9
  <2>2. HeaderToken([cur |-> a, r |-> r], x) = [cur |-> Append(a, x), r |-> r]
        BY <1>3, <2>1, TokenInLine
  <2>   QED
        BY <1>8, <2>2
<1>12. HeaderToken([cur |-> b, r |-> r], y) =
            [cur |-> <<>>, r |-> [FindType(r) EXCEPT !.hdr = TRUE]]
  <2>1. IsSuffix(CRLF, Append(b, y))
        BY <1>8, <1>9
  <2>2. HeaderToken([cur |-> b, r |-> r], y) =
              [cur |-> <<>>,
               r |-> IF Append(b, y) = CRLF THEN [FindType(r) EXCEPT !.hdr = TRUE]
                     ELSE [FindType(r) EXCEPT !.lines =
                              Append(@, SubSeq(Append(b, y), 1, Len(Append(b, y)) - 2))]]
        BY <1>3, <2>1, TokenEndsLine
  <2>   QED
        BY <1>6, <1>8, <2>2
<1>13. [FindType(r) EXCEPT !.hdr = TRUE] = HeaderRead(m, 0)
  <2>1. PICK l, empty, none, zero, no, yes :
            /\ l = SubSeq(HeaderLines(m), 1, k)
            /\ empty = <<>> /\ none = {} /\ zero = 0 /\ no = FALSE /\ yes = TRUE
        OBVIOUS
  <2>2. PICK f, u : /\ u = IF k < 1 THEN "NONE" ELSE m.method
                    /\ f = FindType(r)
                    /\ f = Req(l, none, u, empty, zero, no, no, no, no)
        BY <1>1, <1>2, <2>1, BegunTyped
  <2>3. [f EXCEPT !.hdr = yes] = Req(l, none, u, empty, zero, yes, no, no, no)
        BY <2>2 DEF Req
  <2>4. u = m.method /\ l = HeaderLines(m)
    <3>1. HeaderLines(m) \in Seq(Seq(Token)) /\ Len(HeaderLines(m)) = k
          BY LinesAre
    <3>2. SubSeq(HeaderLines(m), 1, k) = HeaderLines(m)
          BY <1>1, <3>1
    <3>   QED
          BY <1>1, <2>1, <2>2, <3>2
  <2>5. Data(0, 0) = <<>>
        BY DEF Data
  <2>   QED
        BY <2>1, <2>2, <2>3, <2>4, <2>5 DEF HeaderRead
<1>   QED
      BY <1>6, <1>10, <1>11, <1>12, <1>13

LEMMA DataIs ==
    ASSUME NEW k \in Nat, NEW n \in Nat
    PROVE  /\ Data(k, n) \in Seq(Token) /\ Len(Data(k, n)) = n
           /\ \A i \in 1..n : Data(k, n)[i] = Tok("byte", k + i)
<1>1. Data(k, n) = [i \in 1..n |-> Tok("byte", k + i)] /\ Data(k, n) \in Seq(Token)
      BY PiecesAre DEF Data
<1>   QED
      BY <1>1

LEMMA DataJoined ==
    ASSUME NEW k \in Nat, NEW i \in Nat, NEW j \in Nat
    PROVE  Data(k, i) \o Data(k + i, j) = Data(k, i + j)
<1>1. PICK a, b, d, n : /\ a = Data(k, i) /\ b = Data(k + i, j) /\ n = i + j
                        /\ d = Data(k, n)
      OBVIOUS
<1>2. n \in Nat /\ k + i \in Nat
      BY <1>1
<1>3. /\ a \in Seq(Token) /\ Len(a) = i /\ \A x \in 1..i : a[x] = Tok("byte", k + x)
      BY <1>1, DataIs
<1>4. /\ b \in Seq(Token) /\ Len(b) = j /\ \A x \in 1..j : b[x] = Tok("byte", (k + i) + x)
  <2>1. PICK h \in Nat : h = k + i
        BY <1>2
  <2>   QED
        BY <1>1, <2>1, DataIs
<1>5. /\ d \in Seq(Token) /\ Len(d) = n /\ \A x \in 1..n : d[x] = Tok("byte", k + x)
      BY <1>1, <1>2, DataIs
<1>6. /\ a \o b \in Seq(Token) /\ Len(a \o b) = i + j
      /\ \A x \in 1..i : (a \o b)[x] = a[x]
      /\ \A x \in 1..j : (a \o b)[i + x] = b[x]
      BY <1>3, <1>4, TokensJoined
<1>7. PICK ab : ab = a \o b
      OBVIOUS
<1>8. ASSUME NEW x \in 1..n PROVE ab[x] = d[x]
  <2>1. CASE x <= i
    <3>1. x \in 1..i
          BY <1>1, <2>1
    <3>   QED
          BY <1>3, <1>5, <1>6, <1>7, <3>1
  <2>2. CASE ~ (x <= i)
    <3>1. PICK y : y = x - i
          OBVIOUS
    <3>2. y \in 1..j /\ i + y = x /\ (k + i) + y = k + x
          BY <1>1, <2>2, <3>1
    <3>3. ab[i + y] = b[y]
          BY <1>6, <1>7, <3>2
    <3>4. b[y] = Tok("byte", (k + i) + y)
          BY <1>4, <3>2
    <3>   QED
          BY <1>5, <3>2, <3>3, <3>4
  <2>   QED
        BY <2>1, <2>2
<1>9. ab \in Seq(Token) /\ Len(ab) = n
      BY <1>1, <1>6, <1>7
<1>10. ab = d
  <2>1. ab = [x \in 1..n |-> ab[x]] /\ d = [x \in 1..n |-> d[x]]
        BY <1>5, <1>9
  <2>   QED
        BY <1>8, <2>1
<1>   QED
      BY <1>1, <1>7, <1>10

LEMMA BodyToken ==
    ASSUME NEW m \in Messages, NEW i \in Nat
    PROVE  HeaderToken([cur |-> <<>>, r |-> HeaderRead(m, i)], Tok("byte", i + 1)) =
                [cur |-> <<>>, r |-> HeaderRead(m, i + 1)]
<1>1. PICK none, zero, no, yes, b, d, tok, c :
            /\ none = {} /\ zero = 0 /\ no = FALSE /\ yes = TRUE
            /\ b = Data(0, i) /\ d = Data(0, i + 1) /\ tok = Tok("byte", i + 1)
            /\ c = <<>>
      OBVIOUS
<1>2. PICK r, t, l : /\ t = m.method /\ l = HeaderLines(m)
                     /\ r = Req(l, none, t, b, zero, yes, no, no, no)
                     /\ r = HeaderRead(m, i)
      BY <1>1 DEF HeaderRead
<1>3. Append(b, tok) = d
  <2>1. PICK z, o \in Nat : z = 0 /\ o = 1
        OBVIOUS
  <2>2. b \in Seq(Token) /\ d = Data(z, i) \o Data(z + i, o) /\ b = Data(z, i)
        BY <1>1, <2>1, DataIs, DataJoined
  <2>3. z + i = i
        BY <2>1
  <2>4. Data(i, o) = <<tok>>
    <3>1. Data(i, o) = [x \in 1..1 |-> Tok("byte", i + x)]
          BY <2>1 DEF Data
    <3>2. \A x \in 1..1 : x = 1
          OBVIOUS
    <3>   QED
          BY <1>1, <3>1, <3>2
  <2>5. Append(b, tok) = b \o <<tok>>
        BY <2>2
  <2>   QED
        BY <2>2, <2>3, <2>4, <2>5
<1>4. ~r.bad /\ r.hdr /\ r.body = b
      BY <1>1, <1>2 DEF Req
<1>5. HeaderToken([cur |-> c, r |-> r], tok) = [cur |-> c, r |-> [r EXCEPT !.body = Append(@, tok)]]
      BY <1>4, TokenInBody
<1>6. [r EXCEPT !.body = d] = Req(l, none, t, d, zero, yes, no, no, no)
      BY <1>2 DEF Req
<1>7. [r EXCEPT !.body = d] = HeaderRead(m, i + 1)
      BY <1>1, <1>2, <1>6 DEF HeaderRead
<1>   QED
      BY <1>1, <1>2, <1>3, <1>4, <1>5, <1>7

\* However far a message has arrived in one buffer, its next token leads on to
\* the reading of one more.
LEMMA NextToken ==
    ASSUME NEW m \in Messages, NEW x \in 0..Whole(m) - 1,
           x < HeadEnd(m) \/ m.body # "chunked"
    PROVE  HeaderToken(At(m, x), Wire(m)[x + 1]) = At(m, x + 1)
<1>1. PICK k, h \in Nat : k = Lines(m) /\ k \in {2, 3} /\ h = HeadEnd(m) /\ h = 4 * k + 2
      BY DEF Lines, HeadEnd
<1>2. x \in Nat
  <2>1. Whole(m) \in Nat
        BY <1>1, MessageIs DEF Whole
  <2>   QED
        BY <2>1
<1>3. CASE x < h
  <2>1. PICK q, o \in Nat : q = x \div 4 /\ o = x % 4 /\ x = 4 * q + o /\ o \in 0..3
        BY <1>2
  <2>2. q \in 0..k /\ (q = k => o \in {0, 1})
        BY <1>1, <1>3, <2>1
  <2>3. At(m, x) = InPart(m, q, o)
        BY <1>1, <1>3, <2>1 DEF At
  <2>4. ASSUME NEW y \in 1..Len(HeaderParts(m)[q + 1]), y = o + 1
        PROVE  Wire(m)[x + 1] = HeaderParts(m)[q + 1][y]
    <3>1. PICK r : r = q + 1
          OBVIOUS
    <3>2. r \in 1..Lines(m) + 1 /\ r - 1 = q
          BY <1>1, <2>2, <3>1
    <3>3. Wire(m)[4 * (r - 1) + y] = HeaderParts(m)[r][y]
          BY <2>4, <3>1, <3>2, HeaderLies
    <3>4. 4 * (r - 1) + y = x + 1
          BY <2>1, <2>4, <3>2
    <3>   QED
          BY <3>1, <3>3, <3>4
  <2>5. CASE q < k
    <3>1. q \in 0..Lines(m) - 1 /\ q + 1 \in 1..Lines(m)
          BY <1>1, <2>2, <2>5
    <3>2. Wire(m)[x + 1] = HeaderParts(m)[q + 1][o + 1]
      <4>1. Len(HeaderParts(m)[q + 1]) = 4
            BY <3>1, HeaderPartsAre
      <4>2. o + 1 \in 1..4
            BY <2>1
      <4>   QED
            BY <2>4, <4>1, <4>2
    <3>3. HeaderToken(InPart(m, q, o), HeaderParts(m)[q + 1][o + 1]) =
                IF o = 3 THEN InPart(m, q + 1, 0) ELSE InPart(m, q, o + 1)
          BY <2>1, <3>1, LineToken
    <3>4. CASE o = 3
      <4>1. x + 1 < h /\ (x + 1) \div 4 = q + 1 /\ (x + 1) % 4 = 0
            BY <1>1, <2>1, <2>5, <3>4
      <4>2. At(m, x + 1) = InPart(m, q + 1, 0)
            BY <1>1, <4>1 DEF At
      <4>   QED
            BY <2>3, <3>2, <3>3, <3>4, <4>2
    <3>5. CASE o # 3
      <4>1. x + 1 < h /\ (x + 1) \div 4 = q /\ (x + 1) % 4 = o + 1
            BY <1>1, <2>1, <2>5, <3>5
      <4>2. At(m, x + 1) = InPart(m, q, o + 1)
            BY <1>1, <4>1 DEF At
      <4>   QED
            BY <2>3, <3>2, <3>3, <3>5, <4>2
    <3>   QED
          BY <3>4, <3>5
  <2>6. CASE q = k
    <3>1. HeaderParts(m)[q + 1] = CRLF /\ Len(CRLF) = 2
          BY <1>1, <2>6, HeaderPartsAre, CRLFIs
    <3>2. Wire(m)[x + 1] = CRLF[o + 1]
      <4>1. o + 1 \in 1..2
            BY <2>2, <2>6
      <4>   QED
            BY <2>4, <3>1, <4>1
    <3>3. /\ HeaderToken(InPart(m, k, 0), CRLF[1]) = InPart(m, k, 1)
          /\ HeaderToken(InPart(m, k, 1), CRLF[2]) = [cur |-> <<>>, r |-> HeaderRead(m, 0)]
          BY <1>1, BlankTokens
    <3>4. CASE o = 0
      <4>1. x + 1 < h /\ (x + 1) \div 4 = k /\ (x + 1) % 4 = 1
            BY <1>1, <2>1, <2>6, <3>4
      <4>2. At(m, x + 1) = InPart(m, k, 1)
            BY <1>1, <4>1 DEF At
      <4>   QED
            BY <2>3, <2>6, <3>2, <3>3, <3>4, <4>2
    <3>5. CASE o = 1
      <4>1. ~ (x + 1 < h) /\ (x + 1) - h = 0
            BY <1>1, <2>1, <2>6, <3>5
      <4>2. At(m, x + 1) = [cur |-> <<>>, r |-> HeaderRead(m, 0)]
            BY <1>1, <4>1 DEF At
      <4>   QED
            BY <2>3, <2>6, <3>2, <3>3, <3>5, <4>2
    <3>   QED
          BY <2>2, <2>6, <3>4, <3>5
  <2>   QED
        BY <2>2, <2>5, <2>6
<1>4. CASE ~ (x < h)
  <2>1. m.body = "length" /\ m.length \in Nat /\ Whole(m) = h + m.length
    <3>1. m.body = "none" => Whole(m) = h
          BY <1>1 DEF Whole
    <3>2. m.body = "length" => Whole(m) = h + m.length
          BY <1>1 DEF Whole
    <3>   QED
          BY <1>1, <1>2, <1>4, <3>1, <3>2, MessageIs
  <2>2. PICK i : i = x - h
        OBVIOUS
  <2>3. i \in Nat /\ i + 1 \in 1..m.length /\ h + (i + 1) = x + 1 /\ (x + 1) - h = i + 1
        BY <1>1, <1>2, <1>4, <2>1, <2>2
  <2>4. Wire(m)[x + 1] = Tok("byte", i + 1)
    <3>1. PICK y : y = i + 1
          OBVIOUS
    <3>2. Wire(m)[h + y] = Tok("byte", y)
          BY <1>1, <2>1, <2>3, <3>1, BytesLie
    <3>   QED
          BY <2>3, <3>1, <3>2
  <2>5. At(m, x) = [cur |-> <<>>, r |-> HeaderRead(m, i)]
        BY <1>1, <1>4, <2>2 DEF At
  <2>6. At(m, x + 1) = [cur |-> <<>>, r |-> HeaderRead(m, i + 1)]
    <3>1. ~ (x + 1 < h)
          BY <1>1, <1>2, <1>4
    <3>   QED
          BY <1>1, <2>3, <3>1 DEF At
  <2>   QED
        BY <2>3, <2>4, <2>5, <2>6, BodyToken
<1>   QED
      BY <1>3, <1>4

\* A buffer is read as the tokens in it are, one after the other.
LEMMA TokensRun ==
    ASSUME NEW buf \in Seq(Token), NEW r, NEW acc,
           acc[0] = [cur |-> <<>>, r |-> r],
           \A i \in 1..Len(buf) : HeaderToken(acc[i - 1], buf[i]) = acc[i]
    PROVE  ReadTokens(r, buf)[Len(buf)] = acc[Len(buf)]
<1>   DEFINE n == Len(buf)
             begin == [cur |-> <<>>, r |-> r]
             g == [i \in 0..n |-> acc[i]]
             after == ReadTokens(r, buf)
<1>1. n \in Nat
      OBVIOUS
<1>2. g = [i \in 0..n |-> IF i = 0 THEN begin ELSE HeaderToken(g[i - 1], buf[i])]
  <2>1. ASSUME NEW i \in 0..n
        PROVE  g[i] = IF i = 0 THEN begin ELSE HeaderToken(g[i - 1], buf[i])
    <3>1. CASE i = 0
          BY <3>1
    <3>2. CASE i # 0
      <4>1. i \in 1..n /\ i - 1 \in 0..n
            BY <1>1, <3>2
      <4>2. g[i - 1] = acc[i - 1] /\ g[i] = acc[i]
            BY <4>1
      <4>3. HeaderToken(acc[i - 1], buf[i]) = acc[i]
            BY <4>1
      <4>   HIDE DEF g, n, begin
      <4>   QED
            BY <3>2, <4>2, <4>3
    <3>   QED
          BY <3>1, <3>2
  <2>2. g = [i \in 0..n |-> g[i]]
        OBVIOUS
  <2>   HIDE DEF g, n, begin
  <2>   QED
        BY <2>1, <2>2
<1>3. after = [i \in 0..n |-> IF i = 0 THEN begin
                              ELSE HeaderToken(after[i - 1], buf[i])]
  <2>   HIDE DEF g
  <2>   QED
        BY <1>2 DEF ReadTokens
<1>   DEFINE P == {i \in 0..n : after[i] = acc[i]}
<1>4. 0 \in P
  <2>1. after[0] = begin
    <3>   HIDE DEF after, begin
    <3>   QED
          BY <1>1, <1>3
  <2>   HIDE DEF after
  <2>   QED
        BY <1>1, <2>1
<1>5. ASSUME NEW i \in 1..n, i - 1 \in P PROVE i \in P
  <2>1. i \in 0..n /\ i # 0
        BY <1>1
  <2>2. HeaderToken(acc[i - 1], buf[i]) = acc[i]
        OBVIOUS
  <2>   HIDE DEF n, after, begin
  <2>3. after[i] = HeaderToken(after[i - 1], buf[i])
        BY <1>3, <2>1
  <2>   QED
        BY <1>5, <2>1, <2>2, <2>3
<1>6. \A i \in 0..n : i \in P
  <2>   HIDE DEF P, n
  <2>   QED
        BY <1>1, <1>4, <1>5, Stepwise
<1>   QED
      BY <1>1, <1>6

\* The part of a message between two places.
Part(m, x, y) == SubSeq(Wire(m), x + 1, y)

LEMMA PartIs ==
    ASSUME NEW m \in Messages, NEW x \in 0..Whole(m), NEW y \in x..Whole(m)
    PROVE  /\ Part(m, x, y) \in Seq(Token) /\ Len(Part(m, x, y)) = y - x
           /\ \A i \in 1..y - x : Part(m, x, y)[i] = Wire(m)[x + i]
           /\ Whole(m) \in Nat /\ x \in Nat /\ y \in Nat
<1>1. Whole(m) \in Nat /\ x \in Nat /\ y \in Nat /\ y \in 0..Whole(m) /\ x <= y
  <2>1. Whole(m) \in Nat
        BY MessageIs DEF Whole, HeadEnd, Lines
  <2>   QED
        BY <2>1
<1>2. PICK s, a : s = Wire(m) /\ a = x + 1
      OBVIOUS
<1>3. /\ s \in Seq(Token) /\ Len(s) = Whole(m) /\ a \in Nat /\ 1 <= a /\ a <= y + 1
      BY <1>1, <1>2, HeaderLies
<1>4. /\ SubSeq(s, a, y) \in Seq(Token) /\ Len(SubSeq(s, a, y)) = (y - a) + 1
      /\ \A i \in 1..(y - a) + 1 : SubSeq(s, a, y)[i] = s[a + i - 1]
      BY <1>1, <1>3, SliceIs
<1>5. (y - a) + 1 = y - x /\ \A i \in 1..y - x : a + i - 1 = x + i
      BY <1>1, <1>2
<1>   QED
      BY <1>1, <1>2, <1>4, <1>5 DEF Part

\* read_header on a buffer that begins with a line.
LEMMA ReadAligned ==
    ASSUME NEW m \in Messages, NEW q \in 0..Lines(m), NEW y \in 4 * q + 1..Whole(m),
           y <= HeadEnd(m) \/ m.body # "chunked"
    PROVE  ReadHeader(Begun(m, q), Part(m, 4 * q, y)) = FinishHeader(At(m, y).r)
<1>1. PICK k, h, w \in Nat : /\ k = Lines(m) /\ k \in {2, 3} /\ h = HeadEnd(m)
                             /\ w = Whole(m) /\ h = 4 * k + 2 /\ h <= w
  <2>1. Lines(m) \in {2, 3} /\ HeadEnd(m) = 4 * Lines(m) + 2
        BY DEF Lines, HeadEnd
  <2>2. Whole(m) \in Nat /\ HeadEnd(m) <= Whole(m)
        BY <2>1, MessageIs DEF Whole
  <2>   QED
        BY <2>1, <2>2
<1>2. PICK x \in Nat : /\ x = 4 * q /\ x \in 0..w /\ y \in x + 1..w /\ y \in x..w
                       /\ x < h /\ y \in Nat
      BY <1>1
<1>3. PICK buf, r, n : buf = Part(m, x, y) /\ r = Begun(m, q) /\ n = y - x
      OBVIOUS
<1>4. /\ buf \in Seq(Token) /\ Len(buf) = n /\ n \in Nat
      /\ \A i \in 1..n : buf[i] = Wire(m)[x + i]
  <2>1. x \in 0..Whole(m) /\ y \in x..Whole(m)
        BY <1>1, <1>2
  <2>2. /\ Part(m, x, y) \in Seq(Token) /\ Len(Part(m, x, y)) = y - x
        /\ \A i \in 1..y - x : Part(m, x, y)[i] = Wire(m)[x + i]
        BY <2>1, PartIs
  <2>3. n \in Nat
        BY <1>2, <1>3
  <2>   QED
        BY <1>3, <2>2, <2>3
<1>5. At(m, x) = [cur |-> <<>>, r |-> r]
  <2>1. x \div 4 = q /\ x % 4 = 0
        BY <1>1, <1>2
  <2>2. At(m, x) = InPart(m, q, 0)
        BY <1>1, <1>2, <2>1 DEF At
  <2>3. SubSeq(HeaderParts(m)[q + 1], 1, 0) = <<>>
        OBVIOUS
  <2>   QED
        BY <1>3, <2>2, <2>3 DEF InPart
<1>6. ReadTokens(r, buf)[n] = At(m, y)
  <2>   DEFINE acc == [i \in 0..n |-> At(m, x + i)]
  <2>1. acc[0] = [cur |-> <<>>, r |-> r]
    <3>1. x + 0 = x /\ 0 \in 0..n
          BY <1>2, <1>4
    <3>   QED
          BY <1>5, <3>1
  <2>2. ASSUME NEW i \in 1..n PROVE HeaderToken(acc[i - 1], buf[i]) = acc[i]
    <3>1. PICK z \in Nat : /\ z = x + (i - 1) /\ z + 1 = x + i
                           /\ z \in 0..w - 1 /\ z < y
          BY <1>1, <1>2, <1>3, <1>4
    <3>2. z < h \/ m.body # "chunked"
          BY <1>1, <1>2, <3>1
    <3>3. HeaderToken(At(m, z), Wire(m)[z + 1]) = At(m, z + 1)
          BY <1>1, <3>1, <3>2, NextToken
    <3>4. i \in 0..n /\ i - 1 \in 0..n
          BY <1>4
    <3>   QED
          BY <1>4, <3>1, <3>3, <3>4
  <2>3. acc[n] = At(m, y)
    <3>1. x + n = y /\ n \in 0..n
          BY <1>2, <1>3, <1>4
    <3>   QED
          BY <3>1
  <2>   HIDE DEF acc
  <2>4. \A i \in 1..Len(buf) : HeaderToken(acc[i - 1], buf[i]) = acc[i]
        BY <1>4, <2>2
  <2>5. ReadTokens(r, buf)[Len(buf)] = acc[Len(buf)]
        BY <1>4, <2>1, <2>4, TokensRun
  <2>   QED
        BY <1>4, <2>3, <2>5
<1>7. ~ (r.lines = <<>> /\ StartsWithCRLF(buf))
  <2>1. CASE q = 0
    <3>1. /\ 1 \in 1..Lines(m) /\ 1 \in 1..Lines(m) + 1 /\ 1 \in 1..4
          /\ 4 * (1 - 1) + 1 = 1 /\ x + 1 = 1 /\ 1 \in 1..n
          BY <1>1, <1>2, <1>3, <2>1
    <3>2. Wire(m)[1] = HeaderParts(m)[1][1]
      <4>1. \A q1 \in 1..Lines(m) + 1 : \A o \in 1..Len(HeaderParts(m)[q1]) :
                Wire(m)[4 * (q1 - 1) + o] = HeaderParts(m)[q1][o]
            BY HeaderLies
      <4>2. Len(HeaderParts(m)[1]) = 4
            BY <3>1, HeaderPartsAre
      <4>3. Wire(m)[4 * (1 - 1) + 1] = HeaderParts(m)[1][1]
            BY <3>1, <4>1, <4>2
      <4>   QED
            BY <3>1, <4>3
    <3>3. PICK one : one = 1 /\ one \in 1..Lines(m)
          BY <3>1
    <3>4. HeaderParts(m)[one][1].part \notin {"cr", "lf"}
          BY <3>3, LinePartIs
    <3>5. buf[1].part # "cr"
          BY <1>4, <3>1, <3>2, <3>3, <3>4
    <3>6. StartsWithCRLF(buf) => buf[1] = Tok("cr", 0)
      <4>1. ASSUME StartsWithCRLF(buf) PROVE buf[1] = Tok("cr", 0)
        <5>1. Len(buf) >= 2 /\ SubSeq(buf, 1, 2) = CRLF
              BY <4>1 DEF StartsWithCRLF
        <5>2. PICK two : two = 2 /\ two \in 0..Len(buf)
              BY <1>4, <5>1
        <5>3. 1 \in 1..two /\ \A i \in 1..two : SubSeq(buf, 1, two)[i] = buf[i]
              BY <1>4, <5>2, PrefixIs
        <5>4. CRLF[1] = Tok("cr", 0)
              BY DEF CRLF
        <5>   QED
              BY <5>1, <5>2, <5>3, <5>4
      <4>   QED
            BY <4>1
    <3>   QED
          BY <3>5, <3>6 DEF Tok
  <2>2. CASE q # 0
    <3>1. r.lines = SubSeq(HeaderLines(m), 1, q)
          BY <1>3 DEF Begun, Req
    <3>2. Len(SubSeq(HeaderLines(m), 1, q)) = q
      <4>1. HeaderLines(m) \in Seq(Seq(Token)) /\ Len(HeaderLines(m)) = k
            BY <1>1, LinesAre
      <4>   QED
            BY <1>1, <4>1
    <3>3. Len(<<>>) = 0
          OBVIOUS
    <3>   QED
          BY <2>2, <3>1, <3>2, <3>3
  <2>   QED
        BY <2>1, <2>2
<1>8. ReadHeader(r, buf) = FinishHeader(ReadTokens(r, buf)[Len(buf)].r)
      BY <1>7 DEF ReadHeader
<1>   QED
      BY <1>2, <1>3, <1>4, <1>6, <1>8

-----------------------------------------------------------------------------
(***************************************************************************)
(* The request after each aligned part of a message.                       *)
(***************************************************************************)

\* What parse_headers keeps.
Known(m) ==
    CASE m.body = "none"    -> {}
      [] m.body = "length"  -> {LengthLine(m)}
      [] m.body = "chunked" -> {EncodingLine}

\* The bytes of the body in the part that ends at p.
Got(m, p) ==
    CASE m.body = "none"    -> 0
      [] m.body = "length"  -> p - HeadEnd(m)
      [] m.body = "chunked" -> IF p = HeadEnd(m) THEN 0
                               ELSE IF p = HeadEnd(m) + 6 THEN 1 ELSE m.length

\* Whether the request is done there.  Of a body announced with no byte, only a
\* buffer that comes alone behind the header completes it: late.
Done(m, p, late) ==
    \/ m.method = "GET" \/ m.body = "none"
    \/ m.body = "chunked" /\ p = Whole(m)
    \/ m.body = "length" /\ IF m.announced = 0 THEN late ELSE Got(m, p) = m.announced

Ready(m, p, late) ==
    Req(HeaderLines(m), Known(m), m.method, Data(0, Got(m, p)), 0, TRUE,
        Done(m, p, late), FALSE, m.method = "POST" /\ m.body = "chunked")

Arrived(m, p, late) ==
    IF p < HeadEnd(m) THEN Begun(m, p \div 4) ELSE Ready(m, p, late)

\* parse_headers passes over the first line and the one nothing reads.
LEMMA KnownIs ==
    ASSUME NEW m \in Messages
    PROVE  {line \in ToSet(Tail(HeaderLines(m))) :
                line \in {Text("length", line[i].n) : i \in 1..Len(line)} \cup {EncodingLine}}
                = Known(m)
<1>   DEFINE Keeps(line) ==
                line \in {Text("length", line[i].n) : i \in 1..Len(line)} \cup {EncodingLine}
<1>1. PICK h : h = HeaderLines(m)
      OBVIOUS
<1>2. PICK k \in Nat : k = Lines(m) /\ k \in {2, 3} /\ (k = 2 <=> m.body = "none")
      BY DEF Lines
<1>3. /\ h \in Seq(Seq(Token)) /\ Len(h) = k /\ h[2] = HostLine
      /\ m.body = "length" => h[3] = LengthLine(m)
      /\ m.body = "chunked" => h[3] = EncodingLine
      BY <1>1, <1>2, LinesAre
<1>4. ToSet(Tail(h)) = {h[i] : i \in 2..k}
  <2>1. PICK t : t = Tail(h)
        OBVIOUS
  <2>2. /\ t \in Seq(Seq(Token)) /\ Len(t) = k - 1 /\ DOMAIN t = 1..k - 1
        /\ \A i \in 1..k - 1 : t[i] = h[i + 1]
        BY <1>2, <1>3, <2>1
  <2>3. ToSet(t) = {t[i] : i \in 1..k - 1}
        BY <2>2 DEF ToSet
  <2>4. \A i \in 2..k : i - 1 \in 1..k - 1 /\ t[i - 1] = h[i]
    <3>1. ASSUME NEW i \in 2..k PROVE i - 1 \in 1..k - 1 /\ t[i - 1] = h[i]
      <4>1. PICK j : j = i - 1
            OBVIOUS
      <4>2. j \in 1..k - 1 /\ j + 1 = i
            BY <4>1, <1>2
      <4>   QED
            BY <2>2, <4>1, <4>2
    <3>   QED
          BY <3>1
  <2>5. \A i \in 1..k - 1 : i + 1 \in 2..k
        BY <1>2
  <2>6. {t[i] : i \in 1..k - 1} \subseteq {h[i] : i \in 2..k}
        BY <2>2, <2>5
  <2>7. {h[i] : i \in 2..k} \subseteq {t[i] : i \in 1..k - 1}
    <3>1. ASSUME NEW i \in 2..k PROVE h[i] \in {t[j] : j \in 1..k - 1}
      <4>1. PICK j : j \in 1..k - 1 /\ t[j] = h[i]
            BY <2>4
      <4>   QED
            BY <4>1
    <3>   QED
          BY <3>1
  <2>   QED
        BY <2>1, <2>3, <2>6, <2>7
<1>5. PICK zero \in Nat : zero = 0
      OBVIOUS
<1>6. /\ HostLine = Text("host", zero) /\ EncodingLine = Text("chunked", zero)
      /\ LengthLine(m) = Text("length", m.announced) /\ m.announced \in Nat
      BY <1>5, MessageIs DEF HostLine, EncodingLine, LengthLine
<1>7. \A part \in {"host", "chunked", "length"} : \A n \in Nat :
        /\ Len(Text(part, n)) = 2 /\ Text(part, n)[1] = Tok(part, n)
        /\ \A i \in 1..2 : Text(part, n)[i].n = n
  <2>1. ASSUME NEW part \in {"host", "chunked", "length"}, NEW n \in Nat
        PROVE  /\ Len(Text(part, n)) = 2 /\ Text(part, n)[1] = Tok(part, n)
               /\ \A i \in 1..2 : Text(part, n)[i].n = n
    <3>1. part \in Parts
          BY DEF Parts
    <3>2. PICK line : /\ line = Text(part, n) /\ Len(line) = 2
                      /\ line[1] = Tok(part, n) /\ line[2] = Tok("tail", n)
          BY <3>1, TextIs
    <3>3. \A x, z : Tok(x, z).n = z
          BY DEF Tok
    <3>4. \A i \in 1..2 : i = 1 \/ i = 2
          OBVIOUS
    <3>   QED
          BY <3>2, <3>3, <3>4
  <2>   QED
        BY <2>1
<1>8. \A x, z : Tok(x, z).part = x
      BY DEF Tok
<1>9. ~Keeps(HostLine)
  <2>1. HostLine[1].part = "host" /\ EncodingLine[1].part = "chunked"
        BY <1>5, <1>6, <1>7, <1>8
  <2>2. \A n \in Nat : Text("length", n)[1].part = "length"
        BY <1>7, <1>8
  <2>3. Len(HostLine) = 2 /\ \A i \in 1..2 : HostLine[i].n \in Nat
        BY <1>5, <1>6, <1>7
  <2>   QED
        BY <2>1, <2>2, <2>3
<1>10. Keeps(LengthLine(m)) /\ Keeps(EncodingLine)
  <2>1. Keeps(EncodingLine)
        OBVIOUS
  <2>2. PICK line : line = LengthLine(m)
        OBVIOUS
  <2>3. Len(line) = 2 /\ line[1].n = m.announced /\ line = Text("length", m.announced)
    <3>1. 1 \in 1..2
          OBVIOUS
    <3>   QED
          BY <1>6, <1>7, <2>2, <3>1
  <2>4. line = Text("length", line[1].n) /\ 1 \in 1..Len(line)
        BY <2>3
  <2>5. line \in {Text("length", line[i].n) : i \in 1..Len(line)}
        BY <2>4
  <2>   QED
        BY <2>1, <2>2, <2>5
<1>   HIDE DEF Keeps
<1>11. {line \in {h[i] : i \in 2..k} : Keeps(line)} = Known(m)
  <2>1. CASE m.body = "none"
    <3>1. \A i \in 2..k : i = 2
          BY <1>2, <2>1
    <3>2. Known(m) = {}
          BY <2>1 DEF Known
    <3>   QED
          BY <1>3, <1>9, <3>1, <3>2
  <2>2. CASE m.body = "length"
    <3>1. \A i \in 2..k : i = 2 \/ i = 3
          BY <1>2, <2>2
    <3>2. Known(m) = {LengthLine(m)}
          BY <2>2 DEF Known
    <3>3. 3 \in 2..k
          BY <1>2, <2>2
    <3>   QED
          BY <1>3, <1>9, <1>10, <2>2, <3>1, <3>2, <3>3
  <2>3. CASE m.body = "chunked"
    <3>1. \A i \in 2..k : i = 2 \/ i = 3
          BY <1>2, <2>3
    <3>2. Known(m) = {EncodingLine}
          BY <2>3 DEF Known
    <3>3. 3 \in 2..k
          BY <1>2, <2>3
    <3>   QED
          BY <1>3, <1>9, <1>10, <2>3, <3>1, <3>2, <3>3
  <2>   QED
        BY <2>1, <2>2, <2>3, MessageIs
<1>   QED
      BY <1>1, <1>4, <1>11 DEF Keeps

\* Which headers a request with these has.
LEMMA KnownHeaders ==
    ASSUME NEW m \in Messages, NEW r, r.headers = Known(m)
    PROVE  /\ HasHeader(r, "chunked") <=> m.body = "chunked"
           /\ HasHeader(r, "length") <=> m.body = "length"
           /\ m.body = "length" => ContentLength(r) = m.announced
<1>1. PICK zero \in Nat : zero = 0
      OBVIOUS
<1>2. /\ EncodingLine = Text("chunked", zero) /\ LengthLine(m) = Text("length", m.announced)
      /\ m.announced \in Nat
      BY <1>1, MessageIs DEF EncodingLine, LengthLine
<1>3. /\ EncodingLine[1].part = "chunked" /\ LengthLine(m)[1].part = "length"
      /\ LengthLine(m)[1].n = m.announced
  <2>1. {"chunked", "length"} \subseteq Parts
        BY DEF Parts
  <2>2. /\ EncodingLine[1] = Tok("chunked", zero) /\ LengthLine(m)[1] = Tok("length", m.announced)
        BY <1>1, <1>2, <2>1, TextIs
  <2>   QED
        BY <2>2 DEF Tok
<1>4. CASE m.body = "none"
  <2>1. r.headers = {}
        BY <1>4 DEF Known
  <2>   QED
        BY <1>4, <2>1 DEF HasHeader
<1>5. CASE m.body = "length"
  <2>1. r.headers = {LengthLine(m)}
        BY <1>5 DEF Known
  <2>2. {line \in r.headers : line[1].part = "length"} = {LengthLine(m)}
        BY <1>3, <2>1
  <2>3. ContentLength(r) = m.announced
    <3>1. (CHOOSE line \in r.headers : line[1].part = "length") = LengthLine(m)
          BY <1>3, <2>1
    <3>   QED
          BY <1>3, <3>1 DEF ContentLength
  <2>   QED
        BY <1>3, <1>5, <2>1, <2>3 DEF HasHeader
<1>6. CASE m.body = "chunked"
  <2>1. r.headers = {EncodingLine}
        BY <1>6 DEF Known
  <2>   QED
        BY <1>3, <1>6, <2>1 DEF HasHeader
<1>   QED
      BY <1>4, <1>5, <1>6, MessageIs

\* The end of a buffer behind the header: parse_headers, and process_post.
LEMMA FinishHeaderRead ==
    ASSUME NEW m \in Messages, NEW y \in HeadEnd(m)..Whole(m),
           y = HeadEnd(m) \/ m.body # "chunked"
    PROVE  FinishHeader(HeaderRead(m, y - HeadEnd(m))) = Ready(m, y, FALSE)
<1>1. PICK h, w, i \in Nat : /\ h = HeadEnd(m) /\ w = Whole(m) /\ i = y - h /\ y = h + i
                             /\ m.length \in Nat /\ y <= w
                             /\ m.body = "none" => w = h
                             /\ m.body = "length" => w = h + m.length
                             /\ m.body = "chunked" => w = h + m.length + 15
  <2>1. HeadEnd(m) \in Nat /\ m.length \in Nat
        BY MessageIs DEF HeadEnd, Lines
  <2>2. /\ m.body = "none" => Whole(m) = HeadEnd(m)
        /\ m.body = "length" => Whole(m) = HeadEnd(m) + m.length
        /\ m.body = "chunked" => Whole(m) = HeadEnd(m) + m.length + 15
        BY DEF Whole
  <2>3. Whole(m) \in Nat
        BY <2>1, <2>2, MessageIs
  <2>4. PICK hh, ww : hh = HeadEnd(m) /\ ww = Whole(m)
        OBVIOUS
  <2>5. hh \in Nat /\ ww \in Nat /\ y \in hh..ww
        BY <2>1, <2>3, <2>4
  <2>6. PICK ii : ii = y - hh
        OBVIOUS
  <2>7. ii \in Nat /\ y = hh + ii /\ y <= ww
        BY <2>5, <2>6
  <2>   QED
        BY <2>1, <2>2, <2>4, <2>5, <2>6, <2>7
<1>2. PICK l, none, known, b, zero, no, yes :
        /\ l = HeaderLines(m) /\ none = {} /\ known = Known(m) /\ b = Data(0, i)
        /\ zero = 0 /\ no = FALSE /\ yes = TRUE
      OBVIOUS
<1>3. PICK t : t = m.method
      OBVIOUS
<1>4. PICK r : /\ r = HeaderRead(m, y - HeadEnd(m))
               /\ r = Req(l, none, t, b, zero, yes, no, no, no)
      BY <1>1, <1>2, <1>3 DEF HeaderRead
<1>5. PICK p : /\ p = ParseHeaders(r)
               /\ p = Req(l, known, t, b, zero, yes, no, no, no)
  <2>1. r.lines = l
        BY <1>4 DEF Req
  <2>2. ParseHeaders(r) = [r EXCEPT !.headers = known]
    <3>1. ParseHeaders(r) = [r EXCEPT !.headers = {line \in ToSet(Tail(r.lines)) :
            line \in {Text("length", line[j].n) : j \in 1..Len(line)} \cup {EncodingLine}}]
          BY DEF ParseHeaders
    <3>   QED
          BY <1>2, <2>1, <3>1, KnownIs
  <2>3. [r EXCEPT !.headers = known] = Req(l, known, t, b, zero, yes, no, no, no)
        BY <1>4 DEF Req
  <2>   QED
        BY <2>2, <2>3
<1>6. r.hdr /\ r.type = t /\ p.headers = Known(m) /\ p.body = b
  <2>1. r.hdr = yes /\ r.type = t /\ p.headers = known /\ p.body = b
        BY <1>4, <1>5 DEF Req
  <2>   QED
        BY <1>2, <2>1
<1>7. Got(m, y) = i /\ Len(b) = i
  <2>1. m.body \in {"none", "chunked"} => i = 0
        BY <1>1
  <2>2. Got(m, y) = i
        BY <1>1, <2>1, MessageIs DEF Got
  <2>3. PICK z \in Nat : z = 0
        OBVIOUS
  <2>4. Len(Data(z, i)) = i
        BY <1>1, <2>3, DataIs
  <2>   QED
        BY <1>2, <2>2, <2>3, <2>4
<1>8. PICK d, c : /\ d = Done(m, y, FALSE)
                  /\ c = (m.method = "POST" /\ m.body = "chunked")
                  /\ d \in BOOLEAN /\ c \in BOOLEAN
      BY DEF Done
<1>9. Ready(m, y, FALSE) = Req(l, known, t, b, zero, yes, d, no, c)
      BY <1>2, <1>3, <1>7, <1>8 DEF Ready
<1>10. CASE t # "POST"
  <2>1. FinishHeader(r) = [p EXCEPT !.done = yes]
        BY <1>2, <1>5, <1>6, <1>10 DEF FinishHeader
  <2>2. [p EXCEPT !.done = yes] = Req(l, known, t, b, zero, yes, yes, no, no)
        BY <1>5 DEF Req
  <2>3. d = yes /\ c = no
        BY <1>2, <1>3, <1>8, <1>10, MessageIs DEF Done
  <2>   QED
        BY <1>4, <1>9, <2>1, <2>2, <2>3
<1>11. CASE t = "POST"
  <2>1. FinishHeader(r) = ProcessPost(p)
        BY <1>5, <1>6, <1>11 DEF FinishHeader
  <2>2. /\ HasHeader(p, "chunked") <=> m.body = "chunked"
        /\ HasHeader(p, "length") <=> m.body = "length"
        /\ m.body = "length" => ContentLength(p) = m.announced
        BY <1>6, KnownHeaders
  <2>3. CASE m.body = "chunked"
    <3>1. ProcessPost(p) = [p EXCEPT !.chunked = yes]
          BY <1>2, <2>2, <2>3 DEF ProcessPost
    <3>2. [p EXCEPT !.chunked = yes] = Req(l, known, t, b, zero, yes, no, no, yes)
          BY <1>5 DEF Req
    <3>3. y # w
      <4>1. y = h /\ w = h + m.length + 15
            BY <1>1, <2>3
      <4>2. PICK n \in Nat : n = m.length
            BY <1>1
      <4>3. w = h + n + 15 /\ h \in Nat /\ w \in Nat
            BY <4>1, <4>2
      <4>   QED
            BY <4>1, <4>3
    <3>4. d = no /\ c = yes
          BY <1>1, <1>2, <1>3, <1>8, <1>11, <2>3, <3>3 DEF Done
    <3>   QED
          BY <1>4, <1>9, <2>1, <3>1, <3>2, <3>4
  <2>4. CASE m.body = "none"
    <3>1. ProcessPost(p) = [p EXCEPT !.done = yes]
          BY <1>2, <2>2, <2>4 DEF ProcessPost
    <3>2. [p EXCEPT !.done = yes] = Req(l, known, t, b, zero, yes, yes, no, no)
          BY <1>5 DEF Req
    <3>3. d = yes /\ c = no
          BY <1>2, <1>3, <1>8, <1>11, <2>4 DEF Done
    <3>   QED
          BY <1>4, <1>9, <2>1, <3>1, <3>2, <3>3
  <2>5. CASE m.body = "length"
    <3>1. PICK e : e = (ContentLength(p) >= 1 /\ Len(p.body) = ContentLength(p)) /\ e \in BOOLEAN
          OBVIOUS
    <3>2. ProcessPost(p) = [p EXCEPT !.done = e]
          BY <2>2, <2>5, <3>1 DEF ProcessPost
    <3>3. [p EXCEPT !.done = e] = Req(l, known, t, b, zero, yes, e, no, no)
          BY <1>5 DEF Req
    <3>4. ContentLength(p) = m.announced /\ Len(p.body) = i /\ m.announced \in Nat
          BY <1>6, <1>7, <2>2, <2>5, MessageIs
    <3>5. e <=> m.announced # 0 /\ i = m.announced
      <4>1. PICK a \in Nat : a = m.announced
            BY <3>4
      <4>2. e <=> a >= 1 /\ i = a
            BY <3>1, <3>4, <4>1
      <4>3. a >= 1 <=> a # 0
            OBVIOUS
      <4>   QED
            BY <4>1, <4>2, <4>3
    <3>6. d = e /\ c = no
      <4>1. d <=> m.announced # 0 /\ i = m.announced
            BY <1>3, <1>7, <1>8, <1>11, <2>5 DEF Done
      <4>   QED
            BY <1>2, <1>8, <2>5, <3>1, <3>5, <4>1
    <3>   QED
          BY <1>4, <1>9, <2>1, <3>2, <3>3, <3>6
  <2>   QED
        BY <2>3, <2>4, <2>5, MessageIs
<1>   QED
      BY <1>10, <1>11

\* read_header at an aligned place, up to another one.
LEMMA HeaderArrives ==
    ASSUME NEW m \in Messages, NEW x \in Stops(m), NEW y \in Stops(m),
           x < HeadEnd(m), x < y, y <= HeadEnd(m) \/ m.body # "chunked",
           NEW late
    PROVE  ReadHeader(Arrived(m, x, late), Part(m, x, y)) = Arrived(m, y, FALSE)
<1>1. PICK k, h, w \in Nat : /\ k = Lines(m) /\ k \in {2, 3} /\ h = HeadEnd(m)
                             /\ w = Whole(m) /\ h = 4 * k + 2 /\ h <= w
  <2>1. Lines(m) \in {2, 3} /\ HeadEnd(m) = 4 * Lines(m) + 2
        BY DEF Lines, HeadEnd
  <2>2. Whole(m) \in Nat /\ HeadEnd(m) <= Whole(m)
        BY <2>1, MessageIs DEF Whole
  <2>   QED
        BY <2>1, <2>2
<1>2. \A z \in Stops(m) : z \in Nat /\ z <= w /\ (z < h => \E q \in 0..k : z = 4 * q)
  <2>1. CASE m.body = "chunked"
    <3>1. m.length \in Nat /\ w = h + m.length + 15
          BY <1>1, <2>1, MessageIs DEF Whole
    <3>2. Stops(m) = {4 * q : q \in 0..k} \cup {h, h + 6, h + m.length + 10, w}
          BY <1>1, <2>1 DEF Stops
    <3>   QED
          BY <1>1, <3>1, <3>2
  <2>2. CASE m.body # "chunked"
    <3>1. Stops(m) = {4 * q : q \in 0..k} \cup h..w
          BY <1>1, <2>2 DEF Stops
    <3>   QED
          BY <1>1, <3>1
  <2>   QED
        BY <2>1, <2>2
<1>3. PICK q \in 0..k : x = 4 * q
      BY <1>1, <1>2
<1>4. q \in 0..Lines(m) /\ y \in 4 * q + 1..Whole(m)
      BY <1>1, <1>2, <1>3
<1>5. Arrived(m, x, late) = Begun(m, q)
  <2>1. x \div 4 = q /\ x < HeadEnd(m)
        BY <1>1, <1>3
  <2>   QED
        BY <2>1 DEF Arrived
<1>6. ReadHeader(Begun(m, q), Part(m, 4 * q, y)) = FinishHeader(At(m, y).r)
      BY <1>4, ReadAligned
<1>7. CASE y < h
  <2>1. PICK p \in 0..k : y = 4 * p
        BY <1>2, <1>7
  <2>2. y \div 4 = p /\ y % 4 = 0 /\ y < HeadEnd(m) /\ p \in 0..Lines(m)
        BY <1>1, <1>7, <2>1
  <2>3. At(m, y).r = Begun(m, p) /\ Arrived(m, y, FALSE) = Begun(m, p)
        BY <2>2 DEF At, InPart, Arrived
  <2>4. FinishHeader(Begun(m, p)) = Begun(m, p)
    <3>1. ~Begun(m, p).hdr
          BY <2>2, BegunIs
    <3>   QED
          BY <3>1 DEF FinishHeader
  <2>   QED
        BY <1>3, <1>5, <1>6, <2>3, <2>4
<1>8. CASE ~ (y < h)
  <2>1. /\ y \in HeadEnd(m)..Whole(m) /\ ~ (y < HeadEnd(m))
        /\ y = HeadEnd(m) \/ m.body # "chunked"
        BY <1>1, <1>2, <1>8
  <2>2. At(m, y).r = HeaderRead(m, y - HeadEnd(m)) /\ Arrived(m, y, FALSE) = Ready(m, y, FALSE)
        BY <2>1 DEF At, Arrived
  <2>3. FinishHeader(HeaderRead(m, y - HeadEnd(m))) = Ready(m, y, FALSE)
        BY <2>1, FinishHeaderRead
  <2>   QED
        BY <1>3, <1>5, <1>6, <2>2, <2>3
<1>   QED
      BY <1>7, <1>8

\* A buffer of bytes the length of which was announced.
LEMMA BytesArrive ==
    ASSUME NEW m \in Messages, m.method = "POST", m.body = "length",
           NEW x \in HeadEnd(m)..Whole(m), NEW y \in HeadEnd(m)..Whole(m), x < y,
           NEW late, ~Done(m, x, late)
    PROVE  AddBody(Arrived(m, x, late), Part(m, x, y)) = Arrived(m, y, x = HeadEnd(m))
<1>1. PICK h, n \in Nat : h = HeadEnd(m) /\ n = m.length /\ Whole(m) = h + n
  <2>1. HeadEnd(m) \in Nat
        BY DEF HeadEnd, Lines
  <2>   QED
        BY <2>1, MessageIs DEF Whole
<1>2. PICK i, j \in Nat : /\ x = h + i /\ y = h + j /\ i < j /\ j <= n /\ x \in 0..h + n
                          /\ y \in x..h + n /\ i = x - h /\ j = y - h
  <2>1. x \in h..h + n /\ y \in h..h + n /\ x < y
        BY <1>1
  <2>2. PICK i, j : i = x - h /\ j = y - h
        OBVIOUS
  <2>3. i \in Nat /\ j \in Nat
        BY <2>1, <2>2
  <2>   QED
        BY <1>1, <2>1, <2>2, <2>3
<1>3. PICK buf : buf = Part(m, x, y) /\ buf \in Seq(Token) /\ Len(buf) = j - i
  <2>1. x \in 0..Whole(m) /\ y \in x..Whole(m) /\ y - x = j - i
        BY <1>1, <1>2
  <2>2. Part(m, x, y) \in Seq(Token) /\ Len(Part(m, x, y)) = y - x
        BY <2>1, PartIs
  <2>   QED
        BY <2>1, <2>2
<1>4. buf = Data(i, j - i)
  <2>1. PICK d, e : e = j - i /\ d = Data(i, e)
        OBVIOUS
  <2>2. e \in Nat /\ y - x = e
        BY <1>2, <2>1
  <2>3. d \in Seq(Token) /\ Len(d) = e /\ \A o \in 1..e : d[o] = Tok("byte", i + o)
        BY <2>1, <2>2, DataIs
  <2>4. ASSUME NEW o \in 1..e PROVE buf[o] = d[o]
    <3>1. PICK z : z = i + o
          OBVIOUS
    <3>2. z \in 1..m.length /\ h + z = x + o
          BY <1>1, <1>2, <2>1, <2>2, <3>1
    <3>3. Wire(m)[h + z] = Tok("byte", z)
          BY <1>1, <3>2, BytesLie
    <3>4. buf[o] = Wire(m)[x + o]
      <4>1. x \in 0..Whole(m) /\ y \in x..Whole(m) /\ o \in 1..y - x
            BY <1>1, <1>2, <2>2
      <4>   QED
            BY <1>3, <4>1, PartIs
    <3>   QED
          BY <2>3, <3>1, <3>2, <3>3, <3>4
  <2>5. buf = [o \in 1..e |-> buf[o]] /\ d = [o \in 1..e |-> d[o]]
        BY <1>3, <2>1, <2>3
  <2>   QED
        BY <2>1, <2>4, <2>5
<1>5. PICK l, known, t, b, zero, no, yes, c :
        /\ l = HeaderLines(m) /\ known = Known(m) /\ t = m.method
        /\ b = Data(0, i) /\ zero = 0 /\ no = FALSE /\ yes = TRUE /\ c = Data(0, j)
      OBVIOUS
<1>6. b \o buf = c /\ Len(b) = i
  <2>1. PICK z, e \in Nat : z = 0 /\ e = j - i /\ z + i = i /\ i + e = j
        BY <1>2
  <2>2. Data(z, i) \o Data(z + i, e) = Data(z, i + e) /\ Len(Data(z, i)) = i
        BY <2>1, DataIs, DataJoined
  <2>   QED
        BY <1>4, <1>5, <2>1, <2>2
<1>7. PICK r : r = Ready(m, x, late) /\ r = Req(l, known, t, b, zero, yes, no, no, no)
  <2>1. Got(m, x) = i
        BY <1>1, <1>2 DEF Got
  <2>2. Done(m, x, late) = no /\ (m.method = "POST" /\ m.body = "chunked") = no
    <3>1. Done(m, x, late) \in BOOLEAN
          BY DEF Done
    <3>   QED
          BY <1>5, <3>1
  <2>   QED
        BY <1>5, <2>1, <2>2 DEF Ready
<1>8. PICK d, first : /\ first = (x = HeadEnd(m)) /\ first \in BOOLEAN
                      /\ d = Done(m, y, first) /\ d \in BOOLEAN
      BY DEF Done
<1>9. Ready(m, y, first) = Req(l, known, t, c, zero, yes, d, no, no)
  <2>1. Got(m, y) = j
        BY <1>1, <1>2 DEF Got
  <2>2. Done(m, y, first) = d /\ (m.method = "POST" /\ m.body = "chunked") = no
        BY <1>5, <1>8
  <2>   QED
        BY <1>5, <2>1, <2>2 DEF Ready
<1>10. AddBody(r, buf) = [r EXCEPT !.body = c, !.done = d]
  <2>1. /\ r.type = t /\ r.chunked = no /\ r.headers = known /\ r.body = b /\ r.done = no
        BY <1>7 DEF Req
  <2>2. HasHeader(r, "length") /\ ContentLength(r) = m.announced
        BY <1>1, <1>5, <2>1, KnownHeaders
  <2>3. AddBody(r, buf) =
            [r EXCEPT !.body = @ \o buf,
                      !.done = @ \/ ContentLength(r) \in {Len(r.body), Len(r.body) + Len(buf)}]
        BY <1>5, <2>1, <2>2 DEF AddBody
  <2>4. (r.done \/ ContentLength(r) \in {Len(r.body), Len(r.body) + Len(buf)}) = d
    <3>1. ContentLength(r) \in {Len(r.body), Len(r.body) + Len(buf)}
                <=> m.announced \in {i, i + (j - i)}
          BY <1>3, <1>6, <2>1, <2>2
    <3>2. m.announced \in {i, i + (j - i)} <=> m.announced = i \/ m.announced = j
          BY <1>2
    <3>3. Got(m, x) = i /\ Got(m, y) = j
          BY <1>1, <1>2 DEF Got
    <3>4. d <=> IF m.announced = 0 THEN first ELSE j = m.announced
          BY <1>8, <3>3 DEF Done
    <3>5. m.announced # 0 => m.announced # i
          BY <3>3 DEF Done
    <3>6. first <=> i = 0
      <4>1. first <=> x = h
            BY <1>1, <1>8
      <4>2. x = h + i /\ h \in Nat /\ i \in Nat
            BY <1>1, <1>2
      <4>3. x = h <=> i = 0
            BY ONLY <4>2
      <4>   QED
            BY <4>1, <4>3
    <3>7. m.announced = i \/ m.announced = j <=> d
          BY <1>2, <3>4, <3>5, <3>6
    <3>8. ~r.done
          BY <1>5, <2>1
    <3>   QED
          BY <1>8, <3>1, <3>2, <3>7, <3>8
  <2>   QED
        BY <1>6, <2>1, <2>3, <2>4
<1>11. [r EXCEPT !.body = c, !.done = d] = Req(l, known, t, c, zero, yes, d, no, no)
  <2>1. PICK s : s = [r EXCEPT !.body = c]
        OBVIOUS
  <2>2. s = Req(l, known, t, c, zero, yes, no, no, no)
        BY <1>7, <2>1 DEF Req
  <2>3. [s EXCEPT !.done = d] = Req(l, known, t, c, zero, yes, d, no, no)
        BY <2>2 DEF Req
  <2>4. [r EXCEPT !.body = c, !.done = d] = [s EXCEPT !.done = d]
        BY <2>1
  <2>   QED
        BY <2>3, <2>4
<1>12. Arrived(m, x, late) = Ready(m, x, late) /\ Arrived(m, y, first) = Ready(m, y, first)
  <2>1. ~ (x < HeadEnd(m)) /\ ~ (y < HeadEnd(m))
        BY <1>1, <1>2
  <2>   QED
        BY <2>1 DEF Arrived
<1>   QED
      BY <1>3, <1>7, <1>8, <1>9, <1>10, <1>11, <1>12

LEMMA PairIs ==
    ASSUME NEW s \in Seq(Token), NEW i \in 2..Len(s)
    PROVE  SubSeq(s, i - 1, i) = CRLF <=> s[i - 1] = Tok("cr", 0) /\ s[i] = Tok("lf", 0)
<1>1. PICK a, p : a = i - 1 /\ p = SubSeq(s, a, i)
      OBVIOUS
<1>2. a \in Nat /\ i \in 0..Len(s) /\ 1 <= a /\ a <= i + 1 /\ (i - a) + 1 = 2
      BY <1>1
<1>3. p \in Seq(Token) /\ Len(p) = 2 /\ p[1] = s[i - 1] /\ p[2] = s[i]
  <2>1. /\ p \in Seq(Token) /\ Len(p) = (i - a) + 1
        /\ \A j \in 1..(i - a) + 1 : p[j] = s[a + j - 1]
        BY <1>1, <1>2, SliceIs
  <2>2. 1 \in 1..2 /\ 2 \in 1..2 /\ a + 1 - 1 = i - 1 /\ a + 2 - 1 = i
        BY <1>1, <1>2
  <2>3. p[1] = s[a + 1 - 1] /\ p[2] = s[a + 2 - 1]
        BY <1>2, <2>1, <2>2
  <2>   QED
        BY <1>2, <2>1, <2>2, <2>3
<1>4. /\ CRLF \in Seq(Token) /\ Len(CRLF) = 2
      /\ CRLF[1] = Tok("cr", 0) /\ CRLF[2] = Tok("lf", 0)
      BY CRLFIs DEF CRLF
<1>5. p = CRLF <=> p[1] = CRLF[1] /\ p[2] = CRLF[2]
  <2>1. PICK q : q = CRLF
        OBVIOUS
  <2>2. p = [j \in 1..2 |-> p[j]] /\ q = [j \in 1..2 |-> q[j]]
        BY <1>3, <1>4, <2>1
  <2>3. 1 \in 1..2 /\ 2 \in 1..2 /\ \A j \in 1..2 : j = 1 \/ j = 2
        OBVIOUS
  <2>   QED
        BY <2>1, <2>2, <2>3
<1>   QED
      BY <1>1, <1>3, <1>4, <1>5

\* The line end behind the size is the first one in a chunk.
LEMMA ChunkAfterCRLF ==
    ASSUME NEW k \in Nat, NEW n \in Nat
    PROVE  AfterCRLF(Chunk(k, n)) = 4
<1>1. PICK buf : buf = Chunk(k, n)
      OBVIOUS
<1>2. /\ buf \in Seq(Token) /\ Len(buf) = n + 5 /\ buf[1] = Tok("size", n)
      /\ buf[2] = Tok("cr", 0) /\ buf[3] = Tok("lf", 0)
      BY <1>1, ChunkIs
<1>   DEFINE ends == {i \in 2..Len(buf) : SubSeq(buf, i - 1, i) = CRLF}
<1>4. 3 \in ends
  <2>1. PICK three : three = 3 /\ three \in 2..Len(buf) /\ three - 1 = 2
        BY <1>2
  <2>2. SubSeq(buf, three - 1, three) = CRLF
        BY <1>2, <2>1, PairIs
  <2>   QED
        BY <2>1, <2>2
<1>5. 2 \notin ends
  <2>1. PICK two : two = 2 /\ two \in 2..Len(buf) /\ two - 1 = 1
        BY <1>2
  <2>2. buf[1] # Tok("cr", 0)
        BY <1>2 DEF Tok
  <2>3. SubSeq(buf, two - 1, two) # CRLF
        BY <1>2, <2>1, <2>2, PairIs
  <2>   QED
        BY <2>1, <2>3
<1>6. \A i \in ends : i \in Nat /\ i >= 2
      BY <1>2
<1>   HIDE DEF ends
<1>7. \A i \in ends : (\A j \in ends : i <= j) <=> i = 3
  <2>1. \A i \in ends : i >= 3 /\ i \in Nat
        BY <1>5, <1>6
  <2>   QED
        BY <1>4, <2>1
<1>8. (CHOOSE i \in ends : \A j \in ends : i <= j) = 3
      BY <1>4, <1>7
<1>9. ends # {}
      BY <1>4
<1>10. PICK e : e = CHOOSE i \in ends : \A j \in ends : i <= j
      OBVIOUS
<1>11. AfterCRLF(buf) = IF ends = {} THEN 2 ELSE e + 1
      BY <1>10 DEF AfterCRLF, ends
<1>12. AfterCRLF(buf) = 3 + 1
      BY <1>8, <1>9, <1>10, <1>11
<1>   QED
      BY <1>1, <1>12

\* A chunked request with its first i bytes, and one whose last chunk has come.
Open(m, i) ==
    Req(HeaderLines(m), Known(m), m.method, Data(0, i), 0, TRUE, FALSE, FALSE, TRUE)

Closed(m, i) ==
    Req(HeaderLines(m), Known(m), m.method, Data(0, i), 0, TRUE, TRUE, FALSE, TRUE)

\* A whole chunk gives its bytes, and ends the request if it has none.
LEMMA ChunkRead ==
    ASSUME NEW m \in Messages, m.method = "POST", NEW k \in Nat, NEW n \in Nat
    PROVE  AddBody(Open(m, k), Chunk(k, n)) =
                IF n = 0 THEN Closed(m, k + n) ELSE Open(m, k + n)
<1>0. PICK l, h, t, b, zero, yes, no, c, end :
        /\ l = HeaderLines(m) /\ h = Known(m) /\ t = m.method /\ b = Data(0, k)
        /\ zero = 0 /\ yes = TRUE /\ no = FALSE /\ c = TRUE
        /\ end = (n = 0) /\ end \in BOOLEAN
      OBVIOUS
<1>   DEFINE r == Req(l, h, t, b, zero, yes, no, no, c)
<1>1. PICK buf : buf = Chunk(k, n)
      OBVIOUS
<1>2. /\ buf \in Seq(Token) /\ Len(buf) = n + 5 /\ buf[1] = Tok("size", n)
      /\ \A i \in 1..n : buf[3 + i] = Tok("byte", k + i)
      BY <1>1, ChunkIs
<1>3. buf[SizeAt(buf)].part = "size" /\ buf[SizeAt(buf)].n = n /\ AfterCRLF(buf) = 4
  <2>1. buf[1].part = "size" /\ buf[1].n = n /\ AfterCRLF(buf) = 4
        BY <1>1, <1>2, ChunkAfterCRLF DEF Tok
  <2>2. SizeAt(buf) = 1
        BY <2>1 DEF SizeAt
  <2>   QED
        BY <2>1, <2>2
<1>4. PICK d : d = Data(k, n) /\ d \in Seq(Token) /\ Len(d) = n
      BY DataIs
<1>5. SubSeq(buf, 4, n + 3) = d
  <2>1. PICK four, e : four = 4 /\ e = n + 3
        OBVIOUS
  <2>2. four \in Nat /\ e \in 0..Len(buf) /\ 1 <= four /\ four <= e + 1 /\ (e - four) + 1 = n
        BY <1>2, <2>1
  <2>3. PICK s : s = SubSeq(buf, four, e)
        OBVIOUS
  <2>4. /\ s \in Seq(Token) /\ Len(s) = n
        /\ \A i \in 1..n : s[i] = buf[four + i - 1]
    <3>1. /\ SubSeq(buf, four, e) \in Seq(Token) /\ Len(SubSeq(buf, four, e)) = (e - four) + 1
          /\ \A i \in 1..(e - four) + 1 : SubSeq(buf, four, e)[i] = buf[four + i - 1]
          BY <1>2, <2>2, SliceIs
    <3>   QED
          BY <2>2, <2>3, <3>1
  <2>5. ASSUME NEW i \in 1..n PROVE s[i] = d[i]
    <3>1. four + i - 1 = 3 + i
          BY <2>1
    <3>2. d[i] = Tok("byte", k + i)
          BY <1>4, DataIs
    <3>   QED
          BY <1>2, <2>4, <3>1, <3>2
  <2>6. s = [i \in 1..n |-> s[i]] /\ d = [i \in 1..n |-> d[i]]
        BY <1>4, <2>4
  <2>   QED
        BY <2>1, <2>3, <2>5, <2>6
<1>6. 4 + n - 1 = n + 3 /\ n + 3 <= Len(buf) /\ n - Len(d) = 0
      BY <1>2, <1>4
<1>7. d = <<>> <=> n = 0
      BY <1>4
<1>8. r.left = 0 /\ r.bad = no /\ r.done = no /\ r.body = b
  <2>1. r.left = zero /\ r.bad = no /\ r.done = no /\ r.body = b
        BY DEF Req
  <2>   QED
        BY <1>0, <2>1
<1>9. ProcessChunk(r, buf) =
        [r EXCEPT !.bad = @ \/ ~TRUE,
                  !.done = @ \/ (n = 0 /\ d = <<>>),
                  !.left = n - Len(d),
                  !.body = @ \o d]
      BY <1>3, <1>5, <1>6, <1>8 DEF ProcessChunk
<1>10. PICK bad, done, left, body :
        /\ bad = (r.bad \/ ~TRUE) /\ bad \in BOOLEAN
        /\ done = (r.done \/ (n = 0 /\ d = <<>>)) /\ done \in BOOLEAN
        /\ left = n - Len(d) /\ body = r.body \o d
      OBVIOUS
<1>11. bad = no /\ done = end /\ left = zero /\ body = b \o d
  <2>1. ~r.bad /\ ~r.done
        BY <1>0, <1>8
  <2>2. bad = FALSE
        BY <1>10, <2>1
  <2>3. done = (n = 0)
        BY <1>7, <1>10, <2>1
  <2>4. left = 0 /\ body = b \o d
        BY <1>6, <1>8, <1>10
  <2>   QED
        BY <1>0, <2>2, <2>3, <2>4
<1>12. [r EXCEPT !.bad = bad, !.done = done, !.left = left, !.body = body] =
            Req(l, h, t, body, left, yes, done, bad, c)
  <2>1. PICK s : s = [r EXCEPT !.bad = bad]
        OBVIOUS
  <2>2. PICK u : u = [s EXCEPT !.done = done]
        OBVIOUS
  <2>3. PICK v : v = [u EXCEPT !.left = left]
        OBVIOUS
  <2>4. s = Req(l, h, t, b, zero, yes, no, bad, c)
        BY <2>1 DEF Req
  <2>5. u = Req(l, h, t, b, zero, yes, done, bad, c)
        BY <2>2, <2>4 DEF Req
  <2>6. v = Req(l, h, t, b, left, yes, done, bad, c)
        BY <2>3, <2>5 DEF Req
  <2>7. [v EXCEPT !.body = body] = Req(l, h, t, body, left, yes, done, bad, c)
        BY <2>6 DEF Req
  <2>8. [r EXCEPT !.bad = bad, !.done = done, !.left = left, !.body = body] =
            [v EXCEPT !.body = body]
        BY <2>1, <2>2, <2>3
  <2>   QED
        BY <2>7, <2>8
<1>13. r = Open(m, k)
      BY <1>0 DEF Open
<1>14. AddBody(r, buf) = ProcessChunk(r, buf)
  <2>1. r.type = t /\ r.chunked = c
        BY DEF Req
  <2>   QED
        BY <1>0, <2>1 DEF AddBody
<1>15. AddBody(r, buf) = Req(l, h, t, b \o d, zero, yes, end, no, c)
      BY <1>9, <1>10, <1>11, <1>12, <1>14
<1>16. b \o d = Data(0, k + n)
  <2>1. PICK z \in Nat : z = 0 /\ z + k = k
        OBVIOUS
  <2>2. Data(z, k) \o Data(z + k, n) = Data(z, k + n)
        BY <2>1, DataJoined
  <2>   QED
        BY <1>0, <1>4, <2>1, <2>2
<1>17. CASE n = 0
  <2>1. end = TRUE
        BY <1>0, <1>17
  <2>2. AddBody(r, buf) = Closed(m, k + n)
        BY <1>0, <1>15, <1>16, <2>1 DEF Closed
  <2>   QED
        BY <1>1, <1>13, <1>17, <2>2
<1>18. CASE n # 0
  <2>1. end = FALSE
        BY <1>0, <1>18
  <2>2. AddBody(r, buf) = Open(m, k + n)
        BY <1>0, <1>15, <1>16, <2>1 DEF Open
  <2>   QED
        BY <1>1, <1>13, <1>18, <2>2
<1>   QED
      BY <1>17, <1>18

\* The part of a message between two places is a chunk where its tokens are.
LEMMA PartIsChunk ==
    ASSUME NEW m \in Messages, NEW k \in Nat, NEW n \in Nat,
           NEW x \in 0..Whole(m), NEW y \in x..Whole(m), y - x = n + 5,
           \A o \in 1..n + 5 : Wire(m)[x + o] = Chunk(k, n)[o]
    PROVE  Part(m, x, y) = Chunk(k, n)
<1>1. PICK p, c : p = Part(m, x, y) /\ c = Chunk(k, n)
      OBVIOUS
<1>2. /\ p \in Seq(Token) /\ Len(p) = n + 5 /\ \A o \in 1..n + 5 : p[o] = Wire(m)[x + o]
      BY <1>1, PartIs
<1>3. c \in Seq(Token) /\ Len(c) = n + 5
      BY <1>1, ChunkIs
<1>4. p = [o \in 1..n + 5 |-> p[o]] /\ c = [o \in 1..n + 5 |-> c[o]]
      BY <1>2, <1>3
<1>5. \A o \in 1..n + 5 : p[o] = c[o]
      BY <1>1, <1>2
<1>   QED
      BY <1>1, <1>4, <1>5

\* Each of the three chunks of a message, in a buffer of its own.
LEMMA ChunksArrive ==
    ASSUME NEW m \in Messages, m.method = "POST", m.body = "chunked", NEW h, h = HeadEnd(m),
           NEW late, NEW z
    PROVE  /\ AddBody(Arrived(m, h, late), Part(m, h, h + 6)) = Arrived(m, h + 6, z)
           /\ AddBody(Arrived(m, h + 6, late), Part(m, h + 6, h + m.length + 10)) =
                    Arrived(m, h + m.length + 10, z)
           /\ AddBody(Arrived(m, h + m.length + 10, late), Part(m, h + m.length + 10, Whole(m))) =
                    Arrived(m, Whole(m), z)
<1>1. PICK n, w \in Nat : /\ n = m.length /\ w = Whole(m) /\ w = h + n + 15 /\ h = 14
                          /\ n > 1 /\ n - 1 \in Nat
  <2>1. Whole(m) = HeadEnd(m) + m.length + 15 /\ HeadEnd(m) = 14
        BY DEF Whole, HeadEnd, Lines
  <2>2. PICK n \in Nat : n = m.length /\ n > 1
        BY MessageIs
  <2>   QED
        BY <2>1, <2>2
<1>2. PICK zero, one, more, a, b : /\ zero = 0 /\ one = 1 /\ more = n - 1
                                   /\ a = h + 6 /\ b = h + n + 10
      OBVIOUS
<1>3. /\ zero \in Nat /\ one \in Nat /\ more \in Nat /\ zero + one = one /\ one + more = n
      /\ n + zero = n /\ one # 0 /\ more # 0 /\ zero + 5 = 5 /\ one + 5 = 6 /\ more + 5 = n + 4
      BY <1>1, <1>2
<1>4. /\ h \in 0..w /\ a \in 0..w /\ b \in 0..w /\ a \in h..w /\ b \in a..w /\ w \in b..w
      /\ a - h = one + 5 /\ b - a = more + 5 /\ w - b = zero + 5
      /\ ~ (h < h) /\ ~ (a < h) /\ ~ (b < h) /\ ~ (w < h)
      /\ h # w /\ a # w /\ b # w
      /\ a # h /\ b # h /\ w # h /\ b # a /\ w # a
      BY <1>1, <1>2, <1>3
<1>5. /\ Got(m, h) = zero /\ Got(m, a) = one /\ Got(m, b) = n /\ Got(m, w) = n
      BY <1>1, <1>2, <1>4 DEF Got
<1>6. /\ \A o \in 1..one + 5 : Wire(m)[h + o] = Chunk(zero, one)[o]
      /\ \A o \in 1..more + 5 : Wire(m)[a + o] = Chunk(one, more)[o]
      /\ \A o \in 1..zero + 5 : Wire(m)[b + o] = Chunk(n, zero)[o]
  <2>1. /\ \A o \in 1..6 : Wire(m)[h + o] = Chunk(zero, one)[o]
        /\ \A o \in 1..n + 4 : Wire(m)[h + 6 + o] = Chunk(one, more)[o]
        /\ \A o \in 1..5 : Wire(m)[h + n + 10 + o] = Chunk(n, zero)[o]
    <3>1. /\ \A o \in 1..6 : Wire(m)[HeadEnd(m) + o] = Chunk(0, 1)[o]
          /\ \A o \in 1..m.length + 4 :
                  Wire(m)[HeadEnd(m) + 6 + o] = Chunk(1, m.length - 1)[o]
          /\ \A o \in 1..5 :
                  Wire(m)[HeadEnd(m) + m.length + 10 + o] = Chunk(m.length, 0)[o]
          BY ChunksLie
    <3>2. HeadEnd(m) = h /\ m.length = n
          BY <1>1
    <3>   QED
          BY <1>2, <3>1, <3>2
  <2>   QED
        BY <1>2, <1>3, <2>1
<1>7. /\ Part(m, h, a) = Chunk(zero, one) /\ Part(m, a, b) = Chunk(one, more)
      /\ Part(m, b, w) = Chunk(n, zero)
  <2>1. h \in 0..Whole(m) /\ a \in h..Whole(m)
        BY <1>1, <1>4
  <2>2. a \in 0..Whole(m) /\ b \in a..Whole(m)
        BY <1>1, <1>4
  <2>3. b \in 0..Whole(m) /\ w \in b..Whole(m)
        BY <1>1, <1>4
  <2>4. Part(m, h, a) = Chunk(zero, one)
        BY <1>3, <1>4, <1>6, <2>1, PartIsChunk
  <2>5. Part(m, a, b) = Chunk(one, more)
        BY <1>3, <1>4, <1>6, <2>2, PartIsChunk
  <2>6. Part(m, b, w) = Chunk(n, zero)
        BY <1>1, <1>3, <1>4, <1>6, <2>3, PartIsChunk
  <2>   QED
        BY <2>4, <2>5, <2>6
<1>8. ASSUME NEW v
      PROVE  /\ Arrived(m, h, v) = Open(m, zero) /\ Arrived(m, a, v) = Open(m, one)
             /\ Arrived(m, b, v) = Open(m, n) /\ Arrived(m, w, v) = Closed(m, n)
  <2>1. /\ Arrived(m, h, v) = Ready(m, h, v) /\ Arrived(m, a, v) = Ready(m, a, v)
        /\ Arrived(m, b, v) = Ready(m, b, v) /\ Arrived(m, w, v) = Ready(m, w, v)
        BY <1>1, <1>4 DEF Arrived
  <2>2. PICK no, yes : no = FALSE /\ yes = TRUE
        OBVIOUS
  <2>3. (m.method = "POST" /\ m.body = "chunked") = yes
        BY <2>2
  <2>4. /\ Done(m, h, v) = no /\ Done(m, a, v) = no
        /\ Done(m, b, v) = no /\ Done(m, w, v) = yes
        BY <1>1, <1>4, <2>2 DEF Done
  <2>5. Arrived(m, h, v) = Open(m, zero)
        BY <1>5, <2>1, <2>2, <2>3, <2>4 DEF Ready, Open
  <2>6. Arrived(m, a, v) = Open(m, one)
        BY <1>5, <2>1, <2>2, <2>3, <2>4 DEF Ready, Open
  <2>7. Arrived(m, b, v) = Open(m, n)
        BY <1>5, <2>1, <2>2, <2>3, <2>4 DEF Ready, Open
  <2>8. Arrived(m, w, v) = Closed(m, n)
        BY <1>5, <2>1, <2>2, <2>3, <2>4 DEF Ready, Closed
  <2>   QED
        BY <2>5, <2>6, <2>7, <2>8
<1>9. /\ AddBody(Open(m, zero), Chunk(zero, one)) = Open(m, one)
      /\ AddBody(Open(m, one), Chunk(one, more)) = Open(m, n)
      /\ AddBody(Open(m, n), Chunk(n, zero)) = Closed(m, n)
  <2>1. AddBody(Open(m, zero), Chunk(zero, one)) =
            IF one = 0 THEN Closed(m, zero + one) ELSE Open(m, zero + one)
        BY <1>3, ChunkRead
  <2>2. AddBody(Open(m, one), Chunk(one, more)) =
            IF more = 0 THEN Closed(m, one + more) ELSE Open(m, one + more)
        BY <1>3, ChunkRead
  <2>3. AddBody(Open(m, n), Chunk(n, zero)) =
            IF zero = 0 THEN Closed(m, n + zero) ELSE Open(m, n + zero)
        BY <1>3, ChunkRead
  <2>   QED
        BY <1>2, <1>3, <2>1, <2>2, <2>3
<1>   QED
      BY <1>1, <1>2, <1>7, <1>8, <1>9

-----------------------------------------------------------------------------
(***************************************************************************)
(* The inductive invariant, and the theorems.                              *)
(***************************************************************************)

LEMMA StopsAre ==
    ASSUME NEW m \in Messages, NEW h, h = HeadEnd(m), NEW w, w = Whole(m), NEW x \in Stops(m)
    PROVE  /\ h \in Nat /\ w \in Nat /\ h <= w /\ x \in Nat /\ x <= w
           /\ m.body = "none" => h = w
           /\ m.body = "chunked" /\ ~ (x < h) => x \in {h, h + 6, h + m.length + 10, w}
           /\ m.body = "chunked" => w = h + m.length + 15 /\ m.length > 1 /\ m.length \in Nat
<1>1. PICK k, n \in Nat : /\ k = Lines(m) /\ k \in {2, 3} /\ h = 4 * k + 2
                          /\ n = m.length /\ (m.body = "chunked" => n > 1)
  <2>1. Lines(m) \in {2, 3} /\ h = 4 * Lines(m) + 2
        BY DEF Lines, HeadEnd
  <2>   QED
        BY <2>1, MessageIs
<1>2. w \in Nat /\ h <= w /\ (m.body = "none" => h = w)
      BY <1>1, MessageIs DEF Whole
<1>3. CASE m.body = "chunked"
  <2>1. w = h + n + 15
        BY <1>1, <1>3 DEF Whole
  <2>2. Stops(m) = {4 * q : q \in 0..k} \cup {h, h + 6, h + n + 10, w}
        BY <1>1, <1>3 DEF Stops
  <2>3. \A q \in 0..k : 4 * q \in Nat /\ 4 * q < h
        BY <1>1
  <2>   QED
        BY <1>1, <1>2, <2>1, <2>2, <2>3
<1>4. CASE m.body # "chunked"
  <2>1. Stops(m) = {4 * q : q \in 0..k} \cup h..w
        BY <1>1, <1>4 DEF Stops
  <2>2. \A q \in 0..k : 4 * q \in Nat /\ 4 * q < h
        BY <1>1
  <2>   QED
        BY <1>1, <1>2, <1>4, <2>1, <2>2
<1>   QED
      BY <1>3, <1>4

\* What is behind a place, cut at another.
LEMMA PartCut ==
    ASSUME NEW m \in Messages, NEW x \in 0..Whole(m), NEW y \in x..Whole(m), NEW w, w = Whole(m)
    PROVE  /\ SubSeq(Part(m, x, w), 1, y - x) = Part(m, x, y)
           /\ SubSeq(Part(m, x, w), y - x + 1, Len(Part(m, x, w))) = Part(m, y, w)
           /\ Len(Wire(m)) - Len(Part(m, x, w)) = x
<1>1. /\ w \in Nat /\ x \in Nat /\ y \in Nat /\ x <= y /\ y <= w
      /\ w \in x..Whole(m) /\ w \in y..Whole(m) /\ y \in 0..Whole(m)
  <2>1. Whole(m) \in Nat
        BY PartIs
  <2>   QED
        BY <2>1
<1>2. PICK s, p, q : s = Part(m, x, w) /\ p = Part(m, x, y) /\ q = Part(m, y, w)
      OBVIOUS
<1>3. /\ s \in Seq(Token) /\ Len(s) = w - x /\ \A i \in 1..w - x : s[i] = Wire(m)[x + i]
      BY <1>1, <1>2, PartIs
<1>4. /\ p \in Seq(Token) /\ Len(p) = y - x /\ \A i \in 1..y - x : p[i] = Wire(m)[x + i]
      BY <1>1, <1>2, PartIs
<1>5. /\ q \in Seq(Token) /\ Len(q) = w - y /\ \A i \in 1..w - y : q[i] = Wire(m)[y + i]
      BY <1>1, <1>2, PartIs
<1>6. SubSeq(s, 1, y - x) = p
  <2>1. PICK d, u : d = y - x /\ u = SubSeq(s, 1, d)
        OBVIOUS
  <2>2. d \in 0..Len(s) /\ d <= w - x
        BY <1>1, <1>3, <2>1
  <2>3. u \in Seq(Token) /\ Len(u) = d /\ \A i \in 1..d : u[i] = s[i]
        BY <1>3, <2>1, <2>2, PrefixIs
  <2>4. ASSUME NEW i \in 1..d PROVE u[i] = p[i]
    <3>1. i \in 1..y - x /\ i \in 1..w - x
          BY <1>1, <2>1
    <3>2. u[i] = s[i] /\ s[i] = Wire(m)[x + i] /\ p[i] = Wire(m)[x + i]
          BY <1>3, <1>4, <2>3, <3>1
    <3>   QED
          BY <3>2
  <2>5. u = [i \in 1..d |-> u[i]] /\ p = [i \in 1..d |-> p[i]]
        BY <1>4, <2>1, <2>3
  <2>   QED
        BY <2>1, <2>4, <2>5
<1>7. SubSeq(s, y - x + 1, Len(s)) = q
  <2>1. PICK a, e, u : a = y - x + 1 /\ e = Len(s) /\ u = SubSeq(s, a, e)
        OBVIOUS
  <2>2. a \in Nat /\ e \in 0..Len(s) /\ 1 <= a /\ a <= e + 1 /\ (e - a) + 1 = w - y
    <3>1. PICK c : c = Len(s)
          OBVIOUS
    <3>2. c = w - x /\ e = c
          BY <1>3, <2>1, <3>1
    <3>3. w \in Nat /\ x \in Nat /\ y \in Nat /\ x <= y /\ y <= w
          BY <1>1
    <3>4. a = (y - x) + 1 /\ a \in Nat /\ 1 <= a
          BY <2>1, <3>3
    <3>5. e = w - x /\ e \in Nat /\ e \in 0..c
          BY <3>2, <3>3
    <3>6. a <= e + 1 /\ (e - a) + 1 = w - y
          BY <3>3, <3>4, <3>5
    <3>   QED
          BY <3>1, <3>4, <3>5, <3>6
  <2>3. /\ SubSeq(s, a, e) \in Seq(Token) /\ Len(SubSeq(s, a, e)) = (e - a) + 1
        /\ \A i \in 1..(e - a) + 1 : SubSeq(s, a, e)[i] = s[a + i - 1]
        BY <1>3, <2>2, SliceIs
  <2>4. u \in Seq(Token) /\ Len(u) = w - y /\ \A i \in 1..w - y : u[i] = s[a + i - 1]
        BY <2>1, <2>2, <2>3
  <2>5. ASSUME NEW i \in 1..w - y PROVE u[i] = q[i]
    <3>1. PICK z : z = a + i - 1
          OBVIOUS
    <3>2. z \in 1..w - x /\ x + z = y + i
          BY <1>1, <2>1, <3>1
    <3>3. u[i] = s[z] /\ s[z] = Wire(m)[x + z] /\ q[i] = Wire(m)[y + i]
          BY <1>3, <1>5, <2>4, <3>1, <3>2
    <3>   QED
          BY <3>2, <3>3
  <2>6. u = [i \in 1..w - y |-> u[i]] /\ q = [i \in 1..w - y |-> q[i]]
        BY <1>5, <2>4
  <2>   QED
        BY <2>1, <2>5, <2>6
<1>8. Len(Wire(m)) - Len(s) = x
      BY <1>1, <1>3, HeaderLies
<1>   QED
      BY <1>2, <1>6, <1>7, <1>8

LEMMA ReceivedIs ==
    ASSUME NEW r
    PROVE  Received(r) <=> (r.hdr /\ r.type = "GET") \/ (r.done /\ r.type = "POST") \/ r.bad
BY DEF Received, FlagsOf, F!Received

\* Aligned, the request is what the part that has arrived makes of it.
Follows ==
    aligned => \E p \in Stops(msg) :
                  /\ wire = Part(msg, p, Whole(msg))
                  /\ \E late \in BOOLEAN :
                        /\ req = Arrived(msg, p, late)
                        /\ late => HeadEnd(msg) < p

AInv == msg \in Messages /\ Follows

LEMMA NothingArrived == Init => AInv
<1>   SUFFICES ASSUME Init PROVE AInv
      OBVIOUS
<1>1. msg \in Messages /\ wire = Wire(msg) /\ req = NewRequest
      BY DEF Init
<1>2. PICK p, w \in Nat : p = 0 /\ w = Whole(msg)
  <2>1. Whole(msg) \in Nat
        BY <1>1, MessageIs DEF Whole, HeadEnd, Lines
  <2>   QED
        BY <2>1
<1>3. p \in Stops(msg)
  <2>1. Lines(msg) \in {2, 3}
        BY DEF Lines
  <2>   QED
        BY <1>2, <2>1 DEF Stops
<1>4. Part(msg, p, w) = Wire(msg)
  <2>1. PICK s, u : s = Wire(msg) /\ u = Part(msg, p, w)
        OBVIOUS
  <2>2. s \in Seq(Token) /\ Len(s) = w
        BY <1>1, <1>2, <2>1, HeaderLies
  <2>3. p \in 0..Whole(msg) /\ w \in p..Whole(msg) /\ w - p = w
        BY <1>2
  <2>4. u \in Seq(Token) /\ Len(u) = w /\ \A i \in 1..w : u[i] = s[p + i]
        BY <1>1, <2>1, <2>3, PartIs
  <2>5. \A i \in 1..w : u[i] = s[i]
        BY <1>2, <2>4
  <2>6. s = [i \in 1..w |-> s[i]] /\ u = [i \in 1..w |-> u[i]]
        BY <2>2, <2>4
  <2>   QED
        BY <2>1, <2>5, <2>6
<1>5. PICK late \in BOOLEAN : late = FALSE
      OBVIOUS
<1>6. Arrived(msg, p, late) = NewRequest
  <2>1. PICK q \in Nat : q = 0
        OBVIOUS
  <2>2. p \div 4 = q /\ p < HeadEnd(msg)
        BY <1>2, <2>1 DEF HeadEnd, Lines
  <2>3. SubSeq(HeaderLines(msg), 1, q) = <<>>
        BY <1>1, <2>1, LinesAre
  <2>4. Begun(msg, q) = NewRequest
    <3>1. PICK t : t = IF q < 2 THEN "NONE" ELSE msg.method
          OBVIOUS
    <3>2. t = "NONE"
          BY <2>1, <3>1
    <3>3. Begun(msg, q) = Req(<<>>, {}, t, <<>>, 0, FALSE, FALSE, FALSE, FALSE)
          BY <2>3, <3>1 DEF Begun
    <3>   QED
          BY <3>2, <3>3 DEF Req, NewRequest
  <2>   QED
        BY <2>2, <2>4 DEF Arrived
<1>   QED
      BY <1>1, <1>2, <1>3, <1>4, <1>5, <1>6 DEF AInv, Follows

\* Where an aligned buffer ends.
LEMMA CutsAre ==
    ASSUME msg \in Messages, aligned, NEW p \in Stops(msg), NEW h, h = HeadEnd(msg),
           NEW w, w = Whole(msg), wire = Part(msg, p, w), NEW cut \in Cuts
    PROVE  /\ Position = p /\ cut \in Stops(msg) /\ p < cut
           /\ msg.body = "chunked" /\ p < h => cut <= h
           /\ msg.body = "chunked" /\ ~ (p < h) =>
                /\ p = h => cut = h + 6
                /\ p = h + 6 => cut = h + msg.length + 10
                /\ p = h + msg.length + 10 => cut = w
<1>1. h \in Nat /\ w \in Nat /\ h <= w /\ p \in Nat /\ p <= w
      BY StopsAre
<1>2. Position = p
  <2>1. p \in 0..Whole(msg) /\ w \in p..Whole(msg)
        BY <1>1
  <2>   QED
        BY <2>1, PartCut DEF Position
<1>3. Len(Wire(msg)) = w /\ HeaderEnd = h
      BY HeaderLies DEF HeaderEnd
<1>   DEFINE ends == (p + 1..w) \cap Ends(AllParts(msg))
<1>4. Cuts = CASE msg.body # "chunked" -> ends
               [] msg.body = "chunked" /\ p < h -> {q \in ends : q <= h}
               [] msg.body = "chunked" /\ ~ (p < h) -> {q \in ends : \A r \in ends : q <= r}
  <2>1. PICK all, e, low, least :
          /\ all = p + 1..w /\ e = ends /\ low = {q \in e : q <= h}
          /\ least = {q \in e : \A r \in e : q <= r}
        OBVIOUS
  <2>2. /\ (Position + 1..Len(Wire(msg))) = all
        /\ all \cap Ends(HeaderParts(msg) \o BodyParts(msg)) = e
        BY <1>2, <1>3, <2>1 DEF AllParts
  <2>3. Cuts = CASE ~aligned -> all
                 [] aligned /\ msg.body # "chunked" -> e
                 [] aligned /\ msg.body = "chunked" /\ p < h -> low
                 [] aligned /\ msg.body = "chunked" /\ p >= h -> least
        BY <1>2, <1>3, <2>1, <2>2 DEF Cuts
  <2>4. p >= h <=> ~ (p < h)
        BY <1>1
  <2>   HIDE DEF ends
  <2>5. CASE msg.body # "chunked"
        BY <2>1, <2>3, <2>5
  <2>6. CASE msg.body = "chunked" /\ p < h
        BY <2>1, <2>3, <2>4, <2>6
  <2>7. CASE msg.body = "chunked" /\ ~ (p < h)
    <3>1. Cuts = least
          BY <2>3, <2>4, <2>7
    <3>   QED
          BY <2>1, <2>7, <3>1
  <2>   QED
        BY <2>5, <2>6, <2>7
<1>5. cut \in ends
      BY <1>4
<1>6. cut \in Stops(msg) /\ cut \in Nat /\ p < cut /\ cut <= w
  <2>1. cut \in p + 1..w /\ cut \in Stops(msg)
        BY <1>5, EndsAre
  <2>   QED
        BY <1>1, <2>1
<1>7. CASE msg.body # "chunked"
      BY <1>2, <1>6, <1>7
<1>8. CASE msg.body = "chunked" /\ p < h
      BY <1>2, <1>4, <1>6, <1>8
<1>9. CASE msg.body = "chunked" /\ ~ (p < h)
  <2>1. PICK n \in Nat : n = msg.length /\ n > 1 /\ w = h + n + 15
        BY <1>9, StopsAre
  <2>2. cut \in {h, h + 6, h + n + 10, w} /\ p \in {h, h + 6, h + n + 10, w}
    <3>1. ~ (cut < h)
          BY <1>1, <1>6, <1>9
    <3>   QED
          BY <1>9, <1>6, <2>1, <3>1, StopsAre
  <2>3. \A q \in {h + 6, h + n + 10, w} : p < q => q \in ends
    <3>1. {h + 6, h + n + 10, w} \subseteq Ends(AllParts(msg))
          BY <1>9, <2>1, EndsAre
    <3>2. \A q \in {h + 6, h + n + 10, w} : p < q => q \in p + 1..w
          BY <1>1, <2>1
    <3>   QED
          BY <3>1, <3>2
  <2>4. \A q \in ends : cut <= q
        BY <1>4, <1>9
  <2>   HIDE DEF ends
  <2>5. \A q \in {h + 6, h + n + 10, w} : p < q => cut <= q
        BY <2>3, <2>4
  <2>6. /\ p = h => cut = h + 6
        /\ p = h + 6 => cut = h + n + 10
        /\ p = h + n + 10 => cut = w
        BY <1>1, <1>6, <2>1, <2>2, <2>5
  <2>   QED
        BY <1>2, <1>6, <1>9, <2>1, <2>6
<1>   QED
      BY <1>7, <1>8, <1>9

\* What is known of a request whose header is done.
LEMMA ReadyIs ==
    ASSUME NEW m \in Messages, NEW p, NEW late \in BOOLEAN
    PROVE  /\ Ready(m, p, late).hdr /\ ~Ready(m, p, late).bad /\ Ready(m, p, late).type = m.method
           /\ Ready(m, p, late).done = Done(m, p, late)
           /\ Ready(m, p, late).body = Data(0, Got(m, p))
<1>1. PICK l, h, t, b, n, yes, d, no, c :
        /\ l = HeaderLines(m) /\ h = Known(m) /\ t = m.method /\ b = Data(0, Got(m, p))
        /\ n = 0 /\ yes = TRUE /\ d = Done(m, p, late) /\ no = FALSE
        /\ c = (m.method = "POST" /\ m.body = "chunked")
      OBVIOUS
<1>2. Ready(m, p, late) = Req(l, h, t, b, n, yes, d, no, c)
      BY <1>1 DEF Ready
<1>3. /\ Ready(m, p, late).hdr = yes /\ Ready(m, p, late).bad = no /\ Ready(m, p, late).type = t
      /\ Ready(m, p, late).done = d /\ Ready(m, p, late).body = b
      BY <1>2 DEF Req
<1>   QED
      BY <1>1, <1>3

\* One buffer of a request not yet to be answered leads on to the next place.
LEMMA BufferArrives ==
    ASSUME msg \in Messages, aligned, NEW p \in Stops(msg), wire = Part(msg, p, Whole(msg)),
           NEW late \in BOOLEAN, req = Arrived(msg, p, late), ~Received(req), NEW cut \in Cuts
    PROVE  (IF req.hdr THEN AddBody(req, Part(msg, p, cut)) ELSE ReadHeader(req, Part(msg, p, cut)))
                = Arrived(msg, cut, p = HeadEnd(msg))
<1>1. PICK h, w : h = HeadEnd(msg) /\ w = Whole(msg)
      OBVIOUS
<1>2. /\ h \in Nat /\ w \in Nat /\ h <= w /\ p \in Nat /\ p <= w
      /\ cut \in Stops(msg) /\ p < cut /\ cut \in Nat /\ cut <= w
      BY <1>1, StopsAre, CutsAre
<1>3. CASE p < h
  <2>1. ~req.hdr
    <3>1. Lines(msg) \in {2, 3} /\ h = 4 * Lines(msg) + 2
          BY <1>1 DEF Lines, HeadEnd
    <3>2. p \div 4 \in 0..Lines(msg)
          BY <1>2, <1>3, <3>1
    <3>3. req = Begun(msg, p \div 4)
          BY <1>1, <1>3 DEF Arrived
    <3>   QED
          BY <3>2, <3>3, BegunIs
  <2>2. cut <= h \/ msg.body # "chunked"
        BY <1>1, <1>3, CutsAre
  <2>3. ReadHeader(Arrived(msg, p, late), Part(msg, p, cut)) = Arrived(msg, cut, FALSE)
        BY <1>1, <1>2, <1>3, <2>2, HeaderArrives
  <2>4. (p = HeadEnd(msg)) = FALSE
        BY <1>1, <1>2, <1>3
  <2>   QED
        BY <2>1, <2>3, <2>4
<1>4. CASE ~ (p < h)
  <2>1. req = Ready(msg, p, late)
        BY <1>1, <1>4 DEF Arrived
  <2>2. req.hdr /\ msg.method = "POST" /\ ~Done(msg, p, late)
    <3>1. ~ (req.hdr /\ req.type = "GET") /\ ~ (req.done /\ req.type = "POST")
          BY ReceivedIs
    <3>2. req.hdr /\ req.type = msg.method /\ req.done = Done(msg, p, late)
          BY <1>1, <2>1, ReadyIs
    <3>   QED
          BY <3>1, <3>2, MessageIs
  <2>3. AddBody(Arrived(msg, p, late), Part(msg, p, cut)) = Arrived(msg, cut, p = HeadEnd(msg))
    <3>1. CASE msg.body = "none"
          BY <2>2, <3>1 DEF Done
    <3>2. CASE msg.body = "length"
      <4>1. p \in HeadEnd(msg)..Whole(msg) /\ cut \in HeadEnd(msg)..Whole(msg)
            BY <1>1, <1>2, <1>4
      <4>   QED
            BY <1>2, <2>2, <3>2, <4>1, BytesArrive
    <3>3. CASE msg.body = "chunked"
      <4>1. p \in {h, h + 6, h + msg.length + 10}
        <5>1. p # w
              BY <1>1, <2>2, <3>3 DEF Done
        <5>   QED
              BY <1>1, <1>4, <3>3, <5>1, StopsAre
      <4>2. /\ p = h => cut = h + 6
            /\ p = h + 6 => cut = h + msg.length + 10
            /\ p = h + msg.length + 10 => cut = w
            BY <1>1, <1>4, <3>3, CutsAre
      <4>3. PICK z : z = (p = HeadEnd(msg))
            OBVIOUS
      <4>4. /\ AddBody(Arrived(msg, h, late), Part(msg, h, h + 6)) = Arrived(msg, h + 6, z)
            /\ AddBody(Arrived(msg, h + 6, late), Part(msg, h + 6, h + msg.length + 10)) =
                    Arrived(msg, h + msg.length + 10, z)
            /\ AddBody(Arrived(msg, h + msg.length + 10, late), Part(msg, h + msg.length + 10, w))
                    = Arrived(msg, w, z)
            BY <1>1, <2>2, <3>3, ChunksArrive
      <4>   QED
            BY <4>1, <4>2, <4>3, <4>4
    <3>   QED
          BY <3>1, <3>2, <3>3, MessageIs
  <2>   QED
        BY <2>2, <2>3
<1>   QED
      BY <1>3, <1>4

LEMMA BufferFollows == AInv /\ [Next]_vars => AInv'
<1>   SUFFICES ASSUME AInv, [Next]_vars PROVE AInv'
      OBVIOUS
<1>1. CASE UNCHANGED vars
  <2>1. aligned' = aligned /\ msg' = msg /\ wire' = wire /\ req' = req
        BY <1>1 DEF vars
  <2>   QED
        BY <2>1 DEF AInv, Follows
<1>2. CASE Receive
  <2>1. /\ aligned' = aligned /\ msg' = msg /\ msg \in Messages /\ ~Received(req)
        BY <1>2 DEF Receive, AInv
  <2>2. CASE ~aligned
        BY <2>1, <2>2 DEF AInv, Follows
  <2>3. CASE aligned
    <3>1. PICK p \in Stops(msg), late \in BOOLEAN :
            wire = Part(msg, p, Whole(msg)) /\ req = Arrived(msg, p, late)
          BY <2>3 DEF AInv, Follows
    <3>2. PICK cut \in Cuts :
            /\ req' = IF req.hdr THEN AddBody(req, SubSeq(wire, 1, cut - Position))
                      ELSE ReadHeader(req, SubSeq(wire, 1, cut - Position))
            /\ wire' = SubSeq(wire, cut - Position + 1, Len(wire))
          BY <1>2 DEF Receive
    <3>3. PICK w : w = Whole(msg)
          OBVIOUS
    <3>4. Position = p /\ cut \in Stops(msg) /\ p < cut
          BY <2>1, <2>3, <3>1, <3>3, CutsAre
    <3>5. p \in 0..Whole(msg) /\ cut \in p..Whole(msg)
      <4>1. w \in Nat /\ p \in Nat /\ p <= w
            BY <2>1, <3>1, <3>3, StopsAre
      <4>2. cut \in Nat /\ cut <= w
            BY <2>1, <3>3, <3>4, StopsAre
      <4>   QED
            BY <3>3, <3>4, <4>1, <4>2
    <3>6. /\ SubSeq(wire, 1, cut - p) = Part(msg, p, cut)
          /\ SubSeq(wire, cut - p + 1, Len(wire)) = Part(msg, cut, w)
          BY <2>1, <3>1, <3>3, <3>5, PartCut
    <3>7. (IF req.hdr THEN AddBody(req, Part(msg, p, cut)) ELSE ReadHeader(req, Part(msg, p, cut)))
            = Arrived(msg, cut, p = HeadEnd(msg))
          BY <2>1, <2>3, <3>1, <3>2, BufferArrives
    <3>8. req' = Arrived(msg, cut, p = HeadEnd(msg)) /\ wire' = Part(msg, cut, w)
          BY <3>2, <3>4, <3>6, <3>7
    <3>9. PICK first \in BOOLEAN : first = (p = HeadEnd(msg))
          OBVIOUS
    <3>10. first => HeadEnd(msg) < cut
          BY <3>4, <3>9
    <3>   QED
          BY <2>1, <3>3, <3>4, <3>8, <3>9, <3>10 DEF AInv, Follows
  <2>   QED
        BY <2>2, <2>3
<1>   QED
      BY <1>1, <1>2 DEF Next

\* After every buffer the request is what the arrived part makes of it.
THEOREM AlignedInvariance == Spec => []AInv
<1>   QED
      BY NothingArrived, BufferFollows, PTL DEF Spec

LEMMA NoneLeft ==
    ASSUME NEW m \in Messages, NEW p \in Stops(m)
    PROVE  Part(m, p, Whole(m)) = <<>> <=> p = Whole(m)
<1>1. PICK w : w = Whole(m) /\ w \in Nat /\ p \in Nat /\ p <= w
      BY StopsAre
<1>2. PICK s : s = Part(m, p, w) /\ s \in Seq(Token) /\ Len(s) = w - p
  <2>1. p \in 0..Whole(m) /\ w \in p..Whole(m)
        BY <1>1
  <2>   QED
        BY <2>1, PartIs
<1>3. s = <<>> <=> w - p = 0
      BY <1>2
<1>   QED
      BY <1>1, <1>2, <1>3

LEMMA GotIs ==
    ASSUME NEW m \in Messages, NEW p \in Stops(m), ~ (p < HeadEnd(m))
    PROVE  /\ Got(m, p) \in Nat /\ Got(m, p) <= m.length
           /\ p = Whole(m) => Got(m, p) = m.length
<1>1. PICK n, h, w \in Nat : /\ n = m.length /\ h = HeadEnd(m) /\ w = Whole(m)
                             /\ p \in Nat /\ p <= w /\ ~ (p < h)
      BY MessageIs, StopsAre
<1>2. CASE m.body = "none"
      BY <1>1, <1>2, MessageIs DEF Got
<1>3. CASE m.body = "length"
  <2>1. w = h + n /\ Got(m, p) = p - h
        BY <1>1, <1>3 DEF Whole, Got
  <2>   QED
        BY <1>1, <2>1
<1>4. CASE m.body = "chunked"
  <2>1. w = h + n + 15 /\ n > 1
        BY <1>1, <1>4, StopsAre
  <2>2. Got(m, p) = IF p = h THEN 0 ELSE IF p = h + 6 THEN 1 ELSE n
        BY <1>1, <1>4 DEF Got
  <2>   QED
        BY <1>1, <2>1, <2>2
<1>   QED
      BY <1>2, <1>3, <1>4, MessageIs

LEMMA DataPrefix ==
    ASSUME NEW i \in Nat, NEW n \in Nat, i <= n
    PROVE  IsPrefix(Data(0, i), Data(0, n))
<1>1. PICK z, s, t : z \in Nat /\ z = 0 /\ s = Data(z, i) /\ t = Data(z, n)
      OBVIOUS
<1>2. /\ s \in Seq(Token) /\ Len(s) = i /\ t \in Seq(Token) /\ Len(t) = n
      /\ \A j \in 1..i : s[j] = Tok("byte", z + j)
      /\ \A j \in 1..n : t[j] = Tok("byte", z + j)
      BY <1>1, DataIs
<1>3. PICK u, v : u = SubSeq(s, 1, i) /\ v = SubSeq(t, 1, i)
      OBVIOUS
<1>4. i \in 0..Len(s) /\ i \in 0..Len(t)
      BY <1>2
<1>5. /\ u \in Seq(Token) /\ Len(u) = i /\ \A j \in 1..i : u[j] = s[j]
      BY <1>2, <1>3, <1>4, PrefixIs
<1>6. /\ v \in Seq(Token) /\ Len(v) = i /\ \A j \in 1..i : v[j] = t[j]
      BY <1>2, <1>3, <1>4, PrefixIs
<1>7. ASSUME NEW j \in 1..i PROVE u[j] = v[j]
  <2>1. j \in 1..n
        OBVIOUS
  <2>   QED
        BY <1>2, <1>5, <1>6, <2>1
<1>8. u = [j \in 1..i |-> u[j]] /\ v = [j \in 1..i |-> v[j]]
      BY <1>5, <1>6
<1>9. u = v
      BY <1>7, <1>8
<1>10. Len(s) <= Len(t) /\ SubSeq(s, 1, Len(s)) = SubSeq(t, 1, Len(s))
      BY <1>2, <1>3, <1>9
<1>   QED
      BY <1>1, <1>10 DEF IsPrefix

\* Whatever the message is and wherever its lines, body bytes and chunks are
\* cut apart, the last buffer completes the request without an error if the
\* message holds what it announces.  If it falls short of that, or announces and
\* holds no byte, the request is still read on, and its client waits.
THEOREM WholeIsAnsweredCorrect == Spec => []WholeIsAnswered
<1>1. AInv => WholeIsAnswered
  <2>   SUFFICES ASSUME AInv, aligned, wire = <<>>
                 PROVE  ~req.bad /\ (AsAnnounced(msg) => Received(req))
                                 /\ (Short(msg) => ~Received(req))
        BY DEF WholeIsAnswered
  <2>1. PICK p \in Stops(msg), late \in BOOLEAN :
            /\ wire = Part(msg, p, Whole(msg)) /\ req = Arrived(msg, p, late)
            /\ late => HeadEnd(msg) < p
        BY DEF AInv, Follows
  <2>2. msg \in Messages /\ p = Whole(msg)
        BY <2>1, NoneLeft DEF AInv
  <2>3. PICK h, w, n, a \in Nat : /\ h = HeadEnd(msg) /\ w = Whole(msg) /\ h <= w /\ p = w
                                  /\ n = msg.length /\ a = msg.announced
        BY <2>2, MessageIs, StopsAre
  <2>4. req = Ready(msg, p, late)
        BY <2>1, <2>3 DEF Arrived
  <2>5. /\ req.hdr /\ ~req.bad /\ req.type = msg.method
        /\ req.done = Done(msg, p, late)
        BY <2>2, <2>4, ReadyIs
  <2>6. msg.body = "length" => Got(msg, p) = n /\ w = h + n
        BY <2>3 DEF Got, Whole
  <2>7. ASSUME AsAnnounced(msg) PROVE Received(req)
    <3>1. CASE msg.method = "GET"
          BY <2>5, <3>1, ReceivedIs
    <3>2. CASE msg.method = "POST"
      <4>1. msg.body = "length" => Got(msg, p) = msg.announced /\ msg.announced # 0
            BY <2>3, <2>6, <2>7, <3>2 DEF AsAnnounced
      <4>2. Done(msg, p, late)
            BY <2>2, <4>1, MessageIs DEF Done
      <4>   QED
            BY <2>5, <3>2, <4>2, ReceivedIs
    <3>   QED
          BY <2>2, <3>1, <3>2, MessageIs
  <2>8. ASSUME Short(msg) PROVE ~Received(req)
    <3>1. msg.method = "POST" /\ msg.body = "length" /\ (n < a \/ n = 0)
          BY <2>3, <2>8 DEF Short
    <3>2. a = 0 => ~late
          BY <2>1, <2>3, <2>6, <3>1
    <3>3. a # 0 => n # a
          BY <2>3, <3>1
    <3>4. ~Done(msg, p, late)
          BY <2>3, <2>6, <3>1, <3>2, <3>3 DEF Done
    <3>   QED
          BY <2>5, <3>1, <3>4, ReceivedIs
  <2>   QED
        BY <2>5, <2>7, <2>8
<1>   QED
      BY <1>1, AlignedInvariance, PTL

\* The method and the body the request is answered from are those the client
\* sent: no byte lost, doubled or displaced, nothing of the framing kept, and
\* as many as were announced.
THEOREM ReceivedIsSentCorrect == Spec => []ReceivedIsSent
<1>1. AInv => ReceivedIsSent
  <2>   SUFFICES ASSUME AInv, aligned, Received(req)
                 PROVE  /\ req.type = msg.method
                        /\ IsPrefix(req.body, Body(msg))
                        /\ msg.method = "POST" /\ msg.body = "length" =>
                                msg.announced = 0 \/ Len(req.body) = msg.announced
                        /\ msg.body = "none" \/ (msg.method = "POST" /\ msg.body = "chunked") =>
                                wire = <<>> /\ req.body = Body(msg)
        BY DEF ReceivedIsSent
  <2>1. PICK p \in Stops(msg), late \in BOOLEAN :
            wire = Part(msg, p, Whole(msg)) /\ req = Arrived(msg, p, late)
        BY DEF AInv, Follows
  <2>2. PICK h, w, n \in Nat : /\ msg \in Messages /\ h = HeadEnd(msg) /\ w = Whole(msg)
                               /\ n = msg.length /\ p \in Nat /\ p <= w
                               /\ (msg.body = "none" => h = w)
        BY StopsAre, MessageIs DEF AInv
  <2>3. ~ (p < h)
    <3>   SUFFICES ASSUME p < h PROVE FALSE
          OBVIOUS
    <3>1. Lines(msg) \in {2, 3} /\ h = 4 * Lines(msg) + 2
          BY <2>2 DEF Lines, HeadEnd
    <3>2. PICK q : q = p \div 4 /\ q \in 0..Lines(msg)
          BY <2>2, <3>1
    <3>3. req = Begun(msg, q)
          BY <2>1, <2>2, <3>2 DEF Arrived
    <3>4. ~req.hdr /\ ~req.bad
          BY <2>2, <3>2, <3>3, BegunIs
    <3>5. ~req.done
      <4>1. PICK no : no = FALSE
            OBVIOUS
      <4>2. req.done = no
            BY <3>3, <4>1 DEF Begun, Req
      <4>   QED
            BY <4>1, <4>2
    <3>   QED
          BY <3>4, <3>5, ReceivedIs
  <2>4. req = Ready(msg, p, late)
        BY <2>1, <2>2, <2>3 DEF Arrived
  <2>5. /\ req.type = msg.method /\ ~req.bad /\ req.done = Done(msg, p, late)
        /\ req.body = Data(0, Got(msg, p))
        BY <2>2, <2>4, ReadyIs
  <2>6. PICK g \in Nat : g = Got(msg, p) /\ g <= n /\ (p = w => g = n)
        BY <2>2, <2>3, GotIs
  <2>7. IsPrefix(req.body, Body(msg))
        BY <2>2, <2>5, <2>6, DataPrefix DEF Body
  <2>8. msg.method = "POST" => Done(msg, p, late)
        BY <2>5, ReceivedIs
  <2>9. ASSUME msg.method = "POST", msg.body = "length", msg.announced # 0
        PROVE  Len(req.body) = msg.announced
    <3>1. g = msg.announced
          BY <2>6, <2>8, <2>9 DEF Done
    <3>2. PICK z \in Nat : z = 0
          OBVIOUS
    <3>3. Len(Data(z, g)) = g
          BY <3>2, DataIs
    <3>   QED
          BY <2>5, <2>6, <3>1, <3>2, <3>3
  <2>10. ASSUME msg.body = "none" \/ (msg.method = "POST" /\ msg.body = "chunked")
         PROVE  wire = <<>> /\ req.body = Body(msg)
    <3>1. p = w
      <4>1. CASE msg.body = "none"
            BY <2>2, <2>3, <4>1
      <4>2. CASE msg.method = "POST" /\ msg.body = "chunked"
            BY <2>2, <2>8, <4>2 DEF Done
      <4>   QED
            BY <2>10, <4>1, <4>2
    <3>2. wire = <<>>
          BY <2>1, <2>2, <3>1, NoneLeft
    <3>   QED
          BY <2>2, <2>5, <2>6, <3>1, <3>2 DEF Body
  <2>   QED
        BY <2>5, <2>7, <2>9, <2>10
<1>   QED
      BY <1>1, AlignedInvariance, PTL
=============================================================================
