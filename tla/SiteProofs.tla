----------------------------- MODULE SiteProofs -----------------------------
(***************************************************************************)
(* Theorems about Site: for every site, every set of configuration files,  *)
(* URLs and uploads, no answer changes more of the disk than its request   *)
(* and its location allow, what a DELETE removed is gone, every answer has *)
(* a body, and a robust configuration stays up.  How a URL finds its file, *)
(* and how text is replaced in it, are folds over the characters, of which *)
(* nothing is used here but that they do not look at the disk.             *)
(***************************************************************************)
EXTENDS Site, ConfigProofs

-----------------------------------------------------------------------------
(***************************************************************************)
(* What a request can do: end the process, be answered and change nothing, *)
(* remove a path, or store an upload.                                      *)
(***************************************************************************)

Codes == {0, 204, 301, 302, 400, 403, 404, 405, 413}

\* What ends the process when server block i is asked.
Fatal(i, type, url) ==
    \/ ~Has(servers[i].dirs, "error_log")
    \/ ~Found(i)
    \/ url \in URLs /\ BadMaxBody(servers[i], LocationOf(servers[i], url))
    \/ type = "POST" /\ LocationOf(servers[i], url) = <<>> /\ url \in URLs
    \/ type \in {"MALFORMED", "CUT"}
    \/ BadErrorPage(servers[i])

EndsOn(i, type, url) == Dies(i, type, url) /\ Fatal(i, type, url)

Ends == \E i, type, url : i \in DOMAIN servers /\ EndsOn(i, type, url)

\* An answer that is sent.
Says(i, type, url, code, body, to, kept) ==
    /\ answer' = [server |-> i, type |-> type, url |-> url, code |-> code,
                  body |-> body \o (IF HasErrorBody(code)
                                    THEN ErrorBody(servers[i], code) ELSE <<>>),
                  to |-> to, kept |-> kept]
    /\ UNCHANGED configVars

\* What a GET of a URL finds.
Looked(i, url, code, body) ==
    \E p, out, isFile :
        /\ code = GetCode(servers[i], LocationOf(servers[i], url), p, isFile)
        /\ body = GetBody(servers[i], LocationOf(servers[i], url), p, isFile, out)

TellsAt(i, type, url, code, body, to, kept) ==
    /\ Says(i, type, url, code, body, to, kept)
    /\ type = "DELETE" => code # 0
    /\ type = "GET" => Looked(i, url, code, body)
    /\ type = "BAD" => code = 400 /\ body = <<>>
    /\ Unchanged

Tells ==
    \E i \in DOMAIN servers, type \in {"BAD", "ANY", "GET", "POST", "DELETE"},
       code \in Codes :
        \E url, body, to, kept : TellsAt(i, type, url, code, body, to, kept)

RemovesAt(i, url, p) ==
    /\ HasAllowedMethod(servers[i], LocationOf(servers[i], url), "DELETE")
    /\ p \in FullPaths(servers[i], url, LocationOf(servers[i], url))
    /\ Removable(p)
    /\ Says(i, "DELETE", url, 0, <<>>, <<>>, p)
    /\ files' = [f \in DOMAIN files \ {Resolved(p)} |-> files[f]]
    /\ dirs' = dirs \ {Resolved(p)}

Removes == \E i, url, p : i \in DOMAIN servers /\ RemovesAt(i, url, p)

StoresAt(i, url, p, body, to) ==
    /\ body \in Bodies
    /\ ~TooLong(servers[i], LocationOf(servers[i], url), body)
    /\ \/ Says(i, "POST", url, 302, <<>>, to, body)
       \/ BadErrorPage(servers[i]) /\ Unwinds(i, "POST", url, to)
    /\ Save(p, body)
    /\ UNCHANGED dirs

Stores ==
    \E i, url, p, body, to : i \in DOMAIN servers /\ StoresAt(i, url, p, body, to)

LEMMA AnswersSplit ==
    ASSUME NEW i, NEW type, NEW url, NEW code, NEW body, NEW to, NEW kept,
           Answers(i, type, url, code, body, to, kept)
    PROVE  \/ Says(i, type, url, code, body, to, kept)
           \/ /\ HasErrorBody(code) /\ BadErrorPage(servers[i])
              /\ Unwinds(i, type, url, to)
BY DEF Answers, Says

\* An answer that changes nothing on the disk is sent, or its error page ends
\* the process.
LEMMA Telling ==
    ASSUME NEW i \in DOMAIN servers, NEW code \in Codes,
           NEW type \in {"BAD", "ANY", "GET", "POST", "DELETE"},
           NEW url, NEW body, NEW to, NEW kept,
           Answers(i, type, url, code, body, to, kept), Unchanged,
           HasErrorBody(code) => to = <<>>,
           type = "DELETE" => code # 0,
           type = "GET" => Looked(i, url, code, body),
           type = "BAD" => code = 400 /\ body = <<>>
    PROVE  Ends \/ Tells
<1>1. CASE Says(i, type, url, code, body, to, kept)
  <2>1. TellsAt(i, type, url, code, body, to, kept)
        BY <1>1 DEF TellsAt
  <2>   QED
        BY <2>1 DEF Tells
<1>2. CASE /\ HasErrorBody(code) /\ BadErrorPage(servers[i])
           /\ Unwinds(i, type, url, to)
      BY <1>2 DEF Ends, EndsOn, Fatal, Dies
<1>   QED
      BY <1>1, <1>2, AnswersSplit

LEMMA ImageIs ==
    ASSUME NEW upload \in Uploads, NEW parts, parts = upload.parts
    PROVE  Image(parts) \in Bodies
<1>   PICK b : b = [i \in DOMAIN parts |-> IF parts[i].typed THEN parts[i].body ELSE <<>>]
      OBVIOUS
<1>   PICK R : R = PartType
      OBVIOUS
<1>1. parts \in Seq(R)
      BY SiteAssumption
<1>2. /\ Len(parts) \in Nat /\ DOMAIN parts = 1..Len(parts)
      /\ \A i \in 1..Len(parts) : parts[i] \in R
      BY ONLY <1>1
<1>n. PICK n \in Nat : n = Len(parts) /\ DOMAIN parts = 1..n /\ \A i \in 1..n : parts[i] \in R
      BY <1>2
<1>3. ASSUME NEW i \in 1..n PROVE b[i] \in Seq(STRING)
  <2>1. parts[i] \in [typed : BOOLEAN, name : Seq(STRING), body : Bodies]
        BY <1>n DEF PartType
  <2>2. parts[i].body \in Seq(STRING)
        BY <2>1 DEF Bodies
  <2>3. b[i] = IF parts[i].typed THEN parts[i].body ELSE <<>>
        BY <1>n
  <2>4. b[i] = parts[i].body \/ b[i] = <<>>
        BY <2>3
  <2>5. <<>> \in Seq(STRING)
        OBVIOUS
  <2>   QED
        BY <2>2, <2>4, <2>5
<1>4. b = [i \in 1..n |-> b[i]]
      BY <1>n
<1>5. b \in Seq(Seq(STRING))
  <2>1. \A i \in 1..n : b[i] \in Seq(STRING)
        BY <1>3
  <2>   QED
        BY ONLY <1>4, <2>1, n \in Nat
<1>6. FlattenSeq(b) \in Seq(STRING)
      BY <1>5, FlattenIs
<1>   QED
      BY <1>6 DEF Image, Bodies

LEMMA Outcomes ==
    ASSUME Serve
    PROVE  /\ phase = "serve"
           /\ Ends \/ Tells \/ Removes \/ Stores
<1>1. PICK i \in DOMAIN servers :
        \/ Accept(i) \/ Malformed(i) \/ BadRequest(i) \/ NoLocations(i)
        \/ Found(i) /\ \E url \in URLs : \E loc \in {LocationOf(servers[i], url)} :
            \/ Redirect(i, url, loc) \/ Get(i, url, loc)
            \/ Delete(i, url, loc) \/ Post(i, url, loc)
      BY DEF Serve
<1>2. CASE Accept(i)
      BY <1>2 DEF Accept, Ends, EndsOn, Fatal
<1>m. CASE Malformed(i)
      BY <1>m DEF Malformed, Ends, EndsOn, Fatal
<1>3. CASE BadRequest(i)
      BY <1>3, Telling DEF BadRequest, Codes
<1>4. CASE NoLocations(i)
      BY <1>4 DEF NoLocations, Ends, EndsOn, Fatal
<1>5. ASSUME NEW url \in URLs, NEW loc, loc = LocationOf(servers[i], url),
             \/ Redirect(i, url, loc) \/ Get(i, url, loc)
             \/ Delete(i, url, loc) \/ Post(i, url, loc)
      PROVE  phase = "serve" /\ (Ends \/ Tells \/ Removes \/ Stores)
  <2>1. CASE Redirect(i, url, loc)
        BY <2>1, Telling DEF Redirect, Codes, HasErrorBody
  <2>2. CASE Get(i, url, loc)
    <3>1. PICK p, out, isFile :
            Answers(i, "GET", url, GetCode(servers[i], loc, p, isFile),
                    GetBody(servers[i], loc, p, isFile, out), <<>>, <<>>)
          BY <2>2 DEF Get
    <3>2. GetCode(servers[i], loc, p, isFile) \in {0, 403, 404}
      <4>1. Stat(p) \in {"file", "dir", "none"}
            BY DEF Stat
      <4>   QED
            BY <4>1 DEF GetCode, ReadCode
    <3>3. PICK code, body :
            /\ code = GetCode(servers[i], loc, p, isFile)
            /\ body = GetBody(servers[i], loc, p, isFile, out)
          OBVIOUS
    <3>4. Looked(i, url, code, body)
          BY <1>5, <3>3 DEF Looked
    <3>5. code \in Codes
          BY <3>2, <3>3 DEF Codes
    <3>6. Answers(i, "GET", url, code, body, <<>>, <<>>) /\ Unchanged
          BY <2>2, <3>1, <3>3 DEF Get
    <3>7. Ends \/ Tells
          BY <3>4, <3>5, <3>6, Telling
    <3>   QED
          BY <2>2, <3>7 DEF Get, Asked
  <2>3. CASE Delete(i, url, loc)
    <3>1. CASE HasAllowedMethod(servers[i], loc, "DELETE")
      <4>1. PICK p \in FullPaths(servers[i], url, loc) : DeleteAt(i, url, p)
            BY <2>3, <3>1 DEF Delete
      <4>2. CASE Removable(p)
        <5>1. RemovesAt(i, url, p)
              BY <1>5, <3>1, <4>1, <4>2, AnswersSplit
              DEF DeleteAt, RemovesAt, HasErrorBody
        <5>   QED
              BY <2>3, <5>1 DEF Delete, Asked, Removes
      <4>3. CASE ~Removable(p)
            BY <2>3, <4>1, <4>3, Telling DEF Delete, Asked, DeleteAt, Codes
      <4>   QED
            BY <4>2, <4>3
    <3>2. CASE ~HasAllowedMethod(servers[i], loc, "DELETE")
          BY <2>3, <3>2, Telling DEF Delete, Asked, Codes
    <3>   QED
          BY <3>1, <3>2
  <2>4. CASE Post(i, url, loc)
    <3>1. phase = "serve"
          BY <2>4 DEF Post, Asked
    <3>2. CASE BadMaxBody(servers[i], loc)
          BY <1>5, <2>4, <3>1, <3>2 DEF Post, Ends, EndsOn, Fatal
    <3>3. CASE ~BadMaxBody(servers[i], loc) /\ IsCgi(servers[i], loc)
      <4>1. PICK out : PostCgi(i, url, loc, out)
            BY <2>4, <3>3 DEF Post
      <4>   QED
            BY <3>1, <4>1, Telling DEF PostCgi, Codes
    <3>4. CASE ~BadMaxBody(servers[i], loc) /\ ~IsCgi(servers[i], loc)
      <4>1. PICK upload \in Uploads :
                IF upload.cut THEN Dies(i, "CUT", url)
                ELSE PostImage(i, url, loc, upload.parts)
            BY <2>4, <3>4 DEF Post
      <4>0. PICK parts : parts = upload.parts
            OBVIOUS
      <4>c. CASE upload.cut
            BY <3>1, <4>1, <4>c DEF Ends, EndsOn, Fatal
      <4>5. CASE ~upload.cut /\ PostImage(i, url, loc, parts)
        <5>2. CASE TooLong(servers[i], loc, Image(parts))
              BY <3>1, <4>5, <5>2, Telling DEF PostImage, Codes
        <5>3. CASE ~TooLong(servers[i], loc, Image(parts)) /\ loc = <<>>
              BY <1>5, <3>1, <4>5, <5>3 DEF PostImage, Ends, EndsOn, Fatal
        <5>4. CASE ~TooLong(servers[i], loc, Image(parts)) /\ loc # <<>>
          <6>1. PICK p, to :
                  /\ Answers(i, "POST", url, 302, <<>>, to, Image(parts))
                  /\ Save(p, Image(parts))
                  /\ UNCHANGED dirs
                BY <4>5, <5>4 DEF PostImage
          <6>2. Image(parts) \in Bodies
                BY <4>0, ImageIs
          <6>3. StoresAt(i, url, p, Image(parts), to)
                BY <1>5, <5>4, <6>1, <6>2, AnswersSplit DEF StoresAt
          <6>   QED
                BY <3>1, <6>3 DEF Stores
        <5>   QED
              BY <5>2, <5>3, <5>4
      <4>   QED
            BY <4>0, <4>1, <4>c, <4>5
    <3>   QED
          BY <3>2, <3>3, <3>4
  <2>   QED
        BY <1>5, <2>1, <2>2, <2>3, <2>4
<1>   QED
      BY <1>1, <1>2, <1>m, <1>3, <1>4, <1>5
      DEF Accept, Malformed, BadRequest, NoLocations

(***************************************************************************)
(* The invariant.  That there is no answer before the site is served is    *)
(* what keeps the server blocks of an answer where they are: only start-up *)
(* writes them.                                                            *)
(***************************************************************************)

Phases == {"read", "parse", "validate", "listen", "serve", "ended"}

SInv ==
    /\ phase \in Phases
    /\ answer.type # "none" => phase \in {"serve", "ended"}
    /\ IsAnswered => answer.server \in DOMAIN servers /\ answer.code \in Codes
    /\ TInv
    /\ DOMAIN files \cap dirs = {}
    /\ \A p \in DOMAIN files : files[p] \in Bodies

LEMMA TypesKept == ASSUME TInv, UNCHANGED configVars \/ Throw PROVE TInv'
BY DEF TInv, Throw, configVars

LEMMA Starting ==
    ASSUME StartUp
    PROVE  /\ phase \in {"read", "parse", "validate", "listen"}
           /\ phase' \in Phases
BY DEF StartUp, Read, OpenServer, EndOfText, BadDirective, NormalDirective,
       OpenLocation, CloseServer, LocationDirective, CloseLocation, Validate,
       Listen, InServer, InLocation, Throw, Phases

\* An answer to a request is one of those the parts of the code give.
LEMMA SaysIs ==
    ASSUME NEW i, NEW type, type \in {"BAD", "ANY", "GET", "POST", "DELETE"},
           NEW url, NEW code, NEW body, NEW to, NEW kept,
           Says(i, type, url, code, body, to, kept)
    PROVE  /\ answer'.server = i /\ answer'.type = type /\ answer'.url = url
           /\ answer'.code = code /\ answer'.kept = kept
           /\ IsAnswered' /\ UNCHANGED configVars
BY DEF Says, IsAnswered

LEMMA SInitially == SiteInit => SInv
BY SiteAssumption, TInitially DEF SiteInit, Init, SInv, Phases, NoAnswer, IsAnswered

LEMMA SKept == SInv /\ [Next]_vars => SInv'
<1>   SUFFICES ASSUME SInv, [Next]_vars PROVE SInv'
      OBVIOUS
<1>1. CASE UNCHANGED vars
      BY <1>1, TypesKept DEF SInv, vars, configVars, siteVars, IsAnswered
<1>2. CASE StartUp /\ UNCHANGED siteVars
      BY <1>2, Starting, ParsedIs DEF SInv, siteVars, IsAnswered
<1>3. CASE Serve
  <2>1. CASE Ends
    <3>1. PICK i, type, url : Dies(i, type, url)
          BY <2>1 DEF Ends, EndsOn
    <3>2. TInv'
          BY <3>1, TypesKept DEF SInv, Dies, Unwinds
    <3>   QED
          BY <3>1, <3>2 DEF Dies, Unwinds, Throw, Thrown, Unchanged, SInv, Phases, IsAnswered
  <2>2. CASE Tells
    <3>1. PICK i \in DOMAIN servers, type \in {"BAD", "ANY", "GET", "POST", "DELETE"},
               code \in Codes :
            \E url, body, to, kept : TellsAt(i, type, url, code, body, to, kept)
          BY <2>2 DEF Tells
    <3>2. PICK url, body, to, kept : Says(i, type, url, code, body, to, kept) /\ Unchanged
          BY <3>1 DEF TellsAt
    <3>3. TInv' /\ UNCHANGED configVars
          BY <3>2, TypesKept DEF SInv, Says
    <3>   QED
          BY <1>3, <3>2, <3>3, Outcomes, SaysIs
          DEF Unchanged, SInv, Phases, IsAnswered, configVars
  <2>3. CASE Removes
    <3>1. PICK i, url, p : i \in DOMAIN servers /\ RemovesAt(i, url, p)
          BY <2>3 DEF Removes
    <3>2. /\ i \in DOMAIN servers /\ answer'.server = i /\ answer'.code = 0
          /\ UNCHANGED configVars
          BY <3>1 DEF RemovesAt, Says
    <3>3. /\ DOMAIN files' = DOMAIN files \ {Resolved(p)}
          /\ dirs' = dirs \ {Resolved(p)}
          BY <3>1 DEF RemovesAt
    <3>4. \A f \in DOMAIN files' : files'[f] \in Bodies
          BY <3>1 DEF RemovesAt, SInv
    <3>5. TInv'
          BY <3>2, TypesKept DEF SInv
    <3>   QED
          BY <1>3, <3>2, <3>3, <3>4, <3>5, Outcomes DEF SInv, Phases, Codes, configVars
  <2>4. CASE Stores
    <3>1. PICK i, url, p, body, to : i \in DOMAIN servers /\ StoresAt(i, url, p, body, to)
          BY <2>4 DEF Stores
    <3>2. /\ i \in DOMAIN servers
          /\ IsAnswered' => answer'.server = i /\ answer'.code = 302
          /\ UNCHANGED configVars \/ Throw
          /\ answer'.type # "none"
          BY <3>1 DEF StoresAt, Says, Unwinds, Thrown, IsAnswered
    <3>3. (DOMAIN files)' \cap dirs' = {}
          BY <3>1 DEF StoresAt, Save, SInv
    <3>4. \A f \in DOMAIN files' : files'[f] \in Bodies
          BY <3>1 DEF StoresAt, Save, SInv
    <3>5. TInv'
          BY <3>2, TypesKept DEF SInv
    <3>   QED
          BY <1>3, <3>2, <3>3, <3>4, <3>5, Outcomes DEF SInv, Phases, Codes, Throw, configVars
  <2>   QED
        BY <1>3, <2>1, <2>2, <2>3, <2>4, Outcomes
<1>   QED
      BY <1>1, <1>2, <1>3 DEF Next

LEMMA SInvariance == Spec => []SInv
BY SInitially, SKept, PTL DEF Spec

\* Type correctness: the phase is one of six, an answer names a server block
\* of the configuration and has a code the server sends, and no path is both a
\* file and a directory.
THEOREM TypeCorrect == Spec => []TypeOK
<1>1. SInv => TypeOK
      BY DEF SInv, TypeOK, TInv, Phases, Codes
<1>   QED
      BY <1>1, SInvariance, PTL

-----------------------------------------------------------------------------
(***************************************************************************)
(* What changes of the disk.                                               *)
(***************************************************************************)

LEMMA ChangeIsAllowed ==
    ASSUME SInv, Next, ~UNCHANGED <<files, dirs>>
    PROVE  LET s == servers[answer'.server]
               loc == LocationOf(s, answer'.url)
           IN /\ dirs' \subseteq dirs
              /\ Removed # {} => /\ Answered("DELETE", 0)'
                                 /\ HasAllowedMethod(s, loc, "DELETE")
              /\ \A f \in Written : /\ Stored(s, answer')
                                    /\ ~TooLong(s, loc, files'[f])
<1>1. Removes \/ Stores
      BY Outcomes DEF Next, siteVars, Ends, EndsOn, Dies, Tells, TellsAt, Unchanged
<1>2. CASE Removes
  <2>1. PICK i, url, p : i \in DOMAIN servers /\ RemovesAt(i, url, p)
        BY <1>2 DEF Removes
  <2>2. /\ answer'.server = i /\ answer'.url = url
        /\ Answered("DELETE", 0)'
        BY <2>1 DEF RemovesAt, Says, Answered, IsAnswered
  <2>3. Written = {}
        BY <2>1 DEF RemovesAt, Written
  <2>4. /\ dirs' \subseteq dirs
        /\ HasAllowedMethod(servers[i], LocationOf(servers[i], url), "DELETE")
        BY <2>1 DEF RemovesAt
  <2>   QED
        BY <2>2, <2>3, <2>4
<1>3. CASE Stores
  <2>1. PICK i, url, p, body, to : i \in DOMAIN servers /\ StoresAt(i, url, p, body, to)
        BY <1>3 DEF Stores
  <2>2. /\ answer'.server = i /\ answer'.url = url
        /\ servers' = servers
        /\ Stored(servers[i], answer')
        BY <2>1 DEF StoresAt, Says, Unwinds, Throw, Thrown, Stored, configVars
  <2>3. dirs' = dirs /\ Removed = {}
        BY <2>1 DEF StoresAt, Save, Removed
  <2>4. \A f \in Written : files'[f] = body
        BY <2>1 DEF StoresAt, Save, Written
  <2>5. ~TooLong(servers[i], LocationOf(servers[i], url), body)
        BY <2>1 DEF StoresAt
  <2>   QED
        BY <2>2, <2>3, <2>4, <2>5
<1>   QED
      BY <1>1, <1>2, <1>3

\* A file or directory disappears only through a DELETE its location allows and
\* that answers 200; a file appears or changes only through a POST that answers
\* 302, or ends the process over the number of an error page, and whose body is
\* within the limit of its location; and no directory appears: on every path
\* through the constructor of Response the method is tested before remove(), and
\* the limit before save_image.
THEOREM ChangesAreAllowedCorrect == Spec => ChangesAreAllowed
<1>1. SInv /\ [Next]_vars =>
        [LET s == servers[answer'.server]
             loc == LocationOf(s, answer'.url)
         IN /\ dirs' \subseteq dirs
            /\ Removed # {} => /\ Answered("DELETE", 0)'
                               /\ HasAllowedMethod(s, loc, "DELETE")
            /\ \A f \in Written : /\ Stored(s, answer')
                                  /\ ~TooLong(s, loc, files'[f])]_<<files, dirs>>
      BY ChangeIsAllowed DEF vars, siteVars
<1>   QED
      BY <1>1, SInvariance, PTL DEF Spec, ChangesAreAllowed

-----------------------------------------------------------------------------
(***************************************************************************)
(* What was deleted.  Only the first of the rules by which a URL finds its *)
(* file looks at the disk: a path that another rule gave is the one that   *)
(* rule gives again.                                                       *)
(***************************************************************************)

\* What a URL names where no file lies at it below the root of the server.
ElsePath(s, url, loc) ==
    IF url \in {<<"/">>, <<>>}
    THEN Root(s) \o <<"/">> \o Spelled(Value(s.dirs, "index"))
    ELSE IF loc # <<>> THEN InLocationPath(s, url, loc)
    ELSE Root(s) \o url

LEMMA TwoPaths ==
    ASSUME NEW s, NEW url, NEW loc, NEW p \in FullPaths(s, url, loc),
           p # Root(s) \o url
    PROVE  p = ElsePath(s, url, loc) /\ Stat(Root(s) \o url) # "file"
BY DEF FullPaths, FullPath, ElsePath, IsFile

LEMMA TwoPathsAfter ==
    ASSUME NEW s, NEW url, NEW loc, NEW p, p \in FullPaths(s, url, loc)'
    PROVE  p = Root(s) \o url \/ p = ElsePath(s, url, loc)
BY DEF FullPaths, FullPath, ElsePath

\* An answered DELETE leaves no file at the path it removed, nor at the one the
\* URL names now.
LEMMA RemovedIsGone ==
    ASSUME NEW i, NEW url, NEW p, RemovesAt(i, url, p), p # Root(servers[i]) \o url,
           NEW q \in FullPaths(servers[i], url, LocationOf(servers[i], url))'
    PROVE  Stat(q)' # "file"
<1>   DEFINE s == servers[i]
             loc == LocationOf(s, url)
<1>1. UNCHANGED servers
      BY DEF RemovesAt, Says, configVars
<1>2. PICK t : t = s
      OBVIOUS
<1>3. PICK l : l = LocationOf(t, url)
      OBVIOUS
<1>4. /\ p \in FullPaths(t, url, l)
      /\ p # Root(t) \o url
      BY <1>2, <1>3 DEF RemovesAt
<1>5. q \in FullPaths(t, url, l)'
      BY <1>1, <1>2, <1>3
<1>6. p = ElsePath(t, url, l) /\ Stat(Root(t) \o url) # "file"
      BY <1>4, TwoPaths
<1>7. q = Root(t) \o url \/ q = p
      BY <1>5, <1>6, TwoPathsAfter
<1>8. DOMAIN files' = DOMAIN files \ {Resolved(p)} /\ dirs' \subseteq dirs
      BY DEF RemovesAt
<1>w. PICK w : w = Walk(q)
      OBVIOUS
<1>9. CASE q = p
  <2>1. w.at \notin DOMAIN files'
        BY <1>8, <1>9, <1>w DEF Resolved
  <2>   QED
        BY <2>1, <1>w DEF Stat
<1>10. CASE q = Root(t) \o url
  <2>1. ~Passes(q, w) \/ w.at \notin DOMAIN files
        BY <1>6, <1>10, <1>w DEF Stat
  <2>2. ~Passes(q, w)' \/ w.at \notin DOMAIN files'
        BY <1>8, <2>1 DEF Passes
  <2>   QED
        BY <2>2, <1>w DEF Stat
<1>   QED
      BY <1>7, <1>9, <1>10

LEMMA GoneKept == SInv /\ DeletedIsGone /\ [Next]_vars => DeletedIsGone'
<1>   SUFFICES ASSUME SInv, DeletedIsGone, [Next]_vars PROVE DeletedIsGone'
      OBVIOUS
<1>1. CASE UNCHANGED vars
      BY <1>1 DEF vars, configVars, siteVars, DeletedIsGone, Answered, IsAnswered,
                  FullPaths, FullPath, IsFile, Stat, Passes
<1>2. CASE StartUp /\ UNCHANGED siteVars
  <2>1. answer'.type = "none"
        BY <1>2, Starting DEF SInv, siteVars
  <2>   QED
        BY <2>1 DEF DeletedIsGone, Answered, IsAnswered
<1>3. CASE Serve
  <2>1. CASE Ends \/ Tells \/ Stores
    <3>1. ~Answered("DELETE", 0)'
      <4>1. CASE Ends
            BY <4>1 DEF Ends, EndsOn, Dies, Unwinds, Thrown, Answered, IsAnswered
      <4>2. CASE Tells
            BY <4>2 DEF Tells, TellsAt, Says, Answered, IsAnswered
      <4>3. CASE Stores
            BY <4>3 DEF Stores, StoresAt, Says, Unwinds, Thrown, Answered, IsAnswered
      <4>   QED
            BY <2>1, <4>1, <4>2, <4>3
    <3>   QED
          BY <3>1 DEF DeletedIsGone
  <2>2. CASE Removes
    <3>1. PICK i, url, p : i \in DOMAIN servers /\ RemovesAt(i, url, p)
          BY <2>2 DEF Removes
    <3>2. /\ answer'.server = i /\ answer'.url = url /\ answer'.kept = p
          /\ servers' = servers
          BY <3>1 DEF RemovesAt, Says, configVars
    <3>3. CASE p = Root(servers[i]) \o url
          BY <3>2, <3>3 DEF DeletedIsGone
    <3>4. CASE p # Root(servers[i]) \o url
      <4>1. \A q \in FullPaths(servers[i], url, LocationOf(servers[i], url))' :
                Stat(q)' # "file"
            BY <3>1, <3>4, RemovedIsGone
      <4>   QED
            BY <3>2, <4>1 DEF DeletedIsGone
    <3>   QED
          BY <3>3, <3>4
  <2>   QED
        BY <1>3, <2>1, <2>2, Outcomes
<1>   QED
      BY <1>1, <1>2, <1>3 DEF Next

\* After a DELETE that answered 200 the URL names no file, unless what was
\* removed lay below the root of the server itself: get_full_path asks the disk
\* again, but only its first rule does.
THEOREM DeletedIsGoneCorrect == Spec => []DeletedIsGone
<1>1. SiteInit => DeletedIsGone
      BY DEF SiteInit, NoAnswer, DeletedIsGone, Answered, IsAnswered
<1>   QED
      BY <1>1, GoneKept, SInvariance, PTL DEF Spec

-----------------------------------------------------------------------------
(***************************************************************************)
(* How the configuration is read.                                          *)
(***************************************************************************)

LEMMA CKept == CInv /\ [Next]_vars => CInv'
<1>   SUFFICES ASSUME CInv, [Next]_vars PROVE CInv'
      OBVIOUS
<1>1. CASE StartUp
      BY <1>1, StartUpKept
<1>2. CASE UNCHANGED configVars
      BY <1>2, FixedKept DEF configVars, Fixed
<1>3. CASE Throw
      BY <1>3, FixedKept DEF Throw, Fixed
<1>4. CASE Serve
  <2>1. CASE Ends
        BY <1>3, <2>1 DEF Ends, EndsOn, Dies, Unwinds
  <2>2. CASE Tells
        BY <1>2, <2>2 DEF Tells, TellsAt, Says
  <2>3. CASE Removes
        BY <1>2, <2>3 DEF Removes, RemovesAt, Says
  <2>4. CASE Stores
        BY <1>2, <1>3, <2>4 DEF Stores, StoresAt, Says, Unwinds
  <2>   QED
        BY <1>4, <2>1, <2>2, <2>3, <2>4, Outcomes
<1>   QED
      BY <1>1, <1>2, <1>4 DEF Next, vars

\* Of every file whose directives end in a semicolon, whatever is closed is
\* read once: as many directives as there are semicolons, and as many blocks
\* as there are brackets, when the parser reaches the end of the text.
THEOREM EveryDirectiveIsReadCorrect == Spec => []EveryDirectiveIsRead
<1>1. SiteInit => CInv
      BY CInitially DEF SiteInit
<1>   QED
      BY <1>1, CKept, AllIsRead, PTL DEF Spec

-----------------------------------------------------------------------------
(***************************************************************************)
(* What ends the process.                                                  *)
(***************************************************************************)

LEMMA Longest ==
    ASSUME NEW n \in Nat, NEW len, \A i \in 1..n : len[i] \in Nat,
           NEW S \in SUBSET (1..n), S # {}
    PROVE  \E i \in S : \A j \in S : len[j] <= len[i]
<1>   DEFINE Upto(k) == {i \in S : i <= k}
             Best(U) == U = {} \/ \E i \in U : \A j \in U : len[j] <= len[i]
             P == {k \in Nat : Best(Upto(k))}
<1>0. \A k : k \in S => k \in 1..n
      OBVIOUS
<1>1. 0 \in P
  <2>1. Upto(0) = {}
    <3>   SUFFICES ASSUME NEW k \in S, k <= 0 PROVE FALSE
          OBVIOUS
    <3>   QED
          BY <1>0
  <2>   QED
        BY <2>1
<1>2. ASSUME NEW k \in 1..n, k - 1 \in P PROVE k \in P
  <2>1. Upto(k) = Upto(k - 1) \cup (IF k \in S THEN {k} ELSE {})
    <3>1. ASSUME NEW i \in S PROVE i <= k <=> (i <= k - 1 \/ i = k)
          BY <1>0
    <3>   QED
          BY <3>1
  <2>2. CASE k \notin S
    <3>1. Upto(k) = Upto(k - 1)
          BY <2>1, <2>2
    <3>2. Best(Upto(k - 1))
          BY <1>2
    <3>   HIDE DEF Best, Upto
    <3>3. Best(Upto(k)) /\ k \in Nat
          BY <3>1, <3>2
    <3>   QED
          BY <3>3
  <2>3. CASE k \in S /\ Upto(k - 1) = {}
    <3>1. Upto(k) = {k}
          BY <2>1, <2>3
    <3>   QED
          BY <3>1
  <2>4. CASE k \in S /\ Upto(k - 1) # {}
    <3>1. PICK i \in Upto(k - 1) : \A j \in Upto(k - 1) : len[j] <= len[i]
          BY <1>2, <2>4
    <3>2. /\ Upto(k) = Upto(k - 1) \cup {k}
          /\ len[i] \in Nat /\ len[k] \in Nat
          BY <2>1, <2>4
    <3>3. CASE len[k] <= len[i]
          BY <3>1, <3>2, <3>3
    <3>4. CASE ~(len[k] <= len[i])
      <4>1. \A j \in Upto(k - 1) : len[j] \in Nat
            OBVIOUS
      <4>2. \A j \in Upto(k) : len[j] <= len[k]
            BY <3>1, <3>2, <3>4, <4>1
      <4>   QED
            BY <2>4, <4>2
    <3>   QED
          BY <3>3, <3>4
  <2>   QED
        BY <2>2, <2>3, <2>4
<1>   HIDE DEF P
<1>3. n \in P
  <2>1. \A i \in 0..n : i \in P
        BY <1>1, <1>2, Stepwise
  <2>   QED
        BY <2>1
<1>   QED
  <2>1. Upto(n) = S
    <3>1. \A k \in S : k <= n
          BY <1>0
    <3>   QED
          BY <3>1
  <2>   QED
        BY <1>3, <2>1 DEF P

\* Every URL that begins with a slash has a location where there is one "/".
LEMMA HasLocation ==
    ASSUME NEW s \in ServerType, NEW url, NEW i \in DOMAIN s.locs,
           s.locs[i].path = <<"/">>, IsPrefix(<<"/">>, url)
    PROVE  LocationOf(s, url) # <<>>
<1>1. PICK L : L = s.locs
      OBVIOUS
<1>2. L \in Seq(LocationType)
      BY <1>1 DEF ServerType
<1>3. PICK n \in Nat : DOMAIN L = 1..n /\ \A j \in 1..n : L[j] \in LocationType
      BY ONLY <1>2
<1>4. \A j \in 1..n : L[j].path \in Seq(STRING)
      BY <1>3 DEF LocationType
<1>5. PICK len : len = [j \in 1..n |-> Len(L[j].path)]
      OBVIOUS
<1>6. \A j \in 1..n : len[j] = Len(L[j].path) /\ len[j] \in Nat
      BY <1>4, <1>5
<1>7. PICK S \in SUBSET (1..n) : S = {j \in 1..n : IsPrefix(L[j].path, url)}
      OBVIOUS
<1>8. i \in S
      BY <1>1, <1>3, <1>7
<1>9. \E j \in S : \A k \in S : len[k] <= len[j]
      BY <1>6, <1>8, Longest
<1>10. PICK j \in S : /\ \A k \in S : Len(L[k].path) <= Len(L[j].path)
                      /\ j = CHOOSE m \in S : \A k \in S :
                                Len(L[k].path) <= Len(L[m].path)
      BY <1>6, <1>9
<1>11. LocationOf(s, url) = L[j].path
      BY <1>1, <1>3, <1>7, <1>8, <1>10 DEF LocationOf
<1>12. Len(L[i].path) = 1
      BY <1>1
<1>13. Len(L[j].path) >= 1
      BY <1>4, <1>8, <1>10, <1>12
<1>   QED
      BY <1>11, <1>13

Excepted(type, url) == type \in {"MALFORMED", "CUT"} \/ (type = "POST" /\ url = <<>>)

LEMMA EndsByRequest ==
    ASSUME NEW i, i \in DOMAIN servers, NEW type, NEW url, EndsOn(i, type, url),
           servers[i] \in ServerType, Robust(servers[i])
    PROVE  answer' = Thrown(i, type, url, <<>>) /\ Excepted(type, url)
<1>1. Fatal(i, type, url) /\ answer' = Thrown(i, type, url, <<>>)
      BY DEF EndsOn, Dies, Unwinds
<1>2. PICK s : s = servers[i]
      OBVIOUS
<1>3. PICK j \in DOMAIN s.locs : s.locs[j].path = <<"/">>
      BY <1>2 DEF Robust
<1>4. Found(i)
  <2>1. s.locs # <<>>
        BY <1>3
  <2>   QED
        BY <1>2, <2>1 DEF Found
<1>5. CASE type \in {"MALFORMED", "CUT"}
      BY <1>1, <1>5 DEF Excepted
<1>6. CASE type \notin {"MALFORMED", "CUT"}
  <2>1. type = "POST" /\ LocationOf(s, url) = <<>> /\ url \in URLs
        BY <1>1, <1>2, <1>4, <1>6 DEF Fatal, Robust
  <2>2. ~IsPrefix(<<"/">>, url)
        BY <1>2, <1>3, <2>1, HasLocation
  <2>   QED
        BY <1>1, <2>1, <2>2, SiteAssumption DEF Excepted
<1>   QED
      BY <1>5, <1>6

LEMMA RobustIs == ASSUME NEW s PROVE Robust(s)' <=> Robust(s)
OBVIOUS

LEMMA RobustKept == SInv /\ RobustStaysUp /\ [Next]_vars => RobustStaysUp'
<1>   SUFFICES ASSUME SInv, RobustStaysUp, [Next]_vars,
                      answer'.type = "thrown",
                      (\A i \in DOMAIN servers : Robust(servers[i]))'
               PROVE  Excepted(answer'.request, answer'.url)
      BY DEF RobustStaysUp, Excepted
<1>1. CASE UNCHANGED vars
  <2>1. servers' = servers /\ answer' = answer
        BY <1>1 DEF vars, configVars, siteVars
  <2>2. \A i \in DOMAIN servers : Robust(servers[i])
        BY <2>1
  <2>   QED
        BY <2>1, <2>2 DEF RobustStaysUp, Excepted
<1>2. CASE StartUp /\ UNCHANGED siteVars
      BY <1>2, Starting DEF SInv, siteVars
<1>3. CASE Serve
  <2>1. CASE Ends
    <3>1. PICK i, type, url : i \in DOMAIN servers /\ EndsOn(i, type, url)
          BY <2>1 DEF Ends
    <3>2. servers' = servers
          BY <3>1 DEF EndsOn, Dies, Unwinds, Throw
    <3>3. servers[i] \in ServerType /\ Robust(servers[i])
      <4>1. servers \in Seq(ServerType)
            BY DEF SInv, TInv
      <4>   QED
            BY <3>1, <3>2, <4>1
    <3>4. answer' = Thrown(i, type, url, <<>>) /\ Excepted(type, url)
          BY <3>1, <3>3, EndsByRequest
    <3>   QED
          BY <3>4 DEF Thrown
  <2>2. CASE Tells
        BY <2>2 DEF Tells, TellsAt, Says
  <2>3. CASE Removes
        BY <2>3 DEF Removes, RemovesAt, Says
  <2>4. CASE Stores
    <3>1. PICK i, url, p, body, to : i \in DOMAIN servers /\ StoresAt(i, url, p, body, to)
          BY <2>4 DEF Stores
    <3>2. BadErrorPage(servers[i]) /\ Unwinds(i, "POST", url, to)
          BY <3>1 DEF StoresAt, Says
    <3>3. servers' = servers
          BY <3>2 DEF Unwinds, Throw
    <3>   QED
          BY <3>1, <3>2, <3>3 DEF Robust
  <2>   QED
        BY <1>3, <2>1, <2>2, <2>3, <2>4, Outcomes
<1>   QED
      BY <1>1, <1>2, <1>3 DEF Next

\* Where every server block logs its errors, has limits and page numbers that
\* the conversions take, and a location "/", the process is ended only by a
\* request that the parser of requests throws on, by a POST without a path, and
\* by one whose body is cut behind a boundary: that location matches every path,
\* and of the look-ups and conversions outside the try blocks of the constructor
\* only those fail that no location or number answers.
THEOREM RobustStaysUpCorrect == Spec => []RobustStaysUp
<1>1. SiteInit => RobustStaysUp
      BY DEF SiteInit, NoAnswer, RobustStaysUp
<1>   QED
      BY <1>1, RobustKept, SInvariance, PTL DEF Spec

-----------------------------------------------------------------------------
(***************************************************************************)
(* What the client sees.                                                   *)
(***************************************************************************)

LEMMA ReadableIs ==
    ASSUME NEW p, \A f \in DOMAIN files : files[f] \in Bodies
    PROVE  Readable(p) \in Seq(STRING)
<1>1. CASE Stat(p) = "file"
  <2>1. Resolved(p) \in DOMAIN files
        BY <1>1 DEF Stat, Resolved
  <2>   QED
        BY <1>1, <2>1 DEF Readable, Bodies
<1>2. CASE Stat(p) # "file"
      BY <1>2 DEF Readable
<1>   QED
      BY <1>1, <1>2

LEMMA ErrorBodyIs ==
    ASSUME NEW s \in ServerType, NEW code, \A p \in DOMAIN files : files[p] \in Bodies
    PROVE  ErrorBody(s, code) \in Seq(STRING)
<1>1. PICK D : D = s.dirs
      OBVIOUS
<1>2. D \in Seq(DirectiveType)
      BY <1>1 DEF ServerType
<1>3. PICK n \in Nat : DOMAIN D = 1..n
      BY ONLY <1>2
<1>4. PICK pages : pages = [i \in 1..n |->
        IF D[i].key = "error_page" /\ Number[D[i].values[1]] = code
        THEN Readable(Root(s) \o <<"/">> \o Spelled(D[i].values[2]))
        ELSE <<>>]
      OBVIOUS
<1>5. \A p : Readable(p) \in Seq(STRING)
      BY ReadableIs
<1>6. ASSUME NEW i \in 1..n PROVE pages[i] \in Seq(STRING)
  <2>1. PICK p : p = Root(s) \o <<"/">> \o Spelled(D[i].values[2])
        OBVIOUS
  <2>2. pages[i] \in {Readable(p), <<>>}
        BY <1>4, <2>1
  <2>3. <<>> \in Seq(STRING)
        OBVIOUS
  <2>   QED
        BY <1>5, <2>2, <2>3
<1>7. pages \in Seq(Seq(STRING))
      BY <1>4, <1>6
<1>8. FlattenSeq(pages) \in Seq(STRING)
      BY <1>7, FlattenIs
<1>9. ErrorBody(s, code) = FlattenSeq(pages)
      BY <1>1, <1>3, <1>4 DEF ErrorBody
<1>   QED
      BY <1>8, <1>9

\* Why the body of an answer may be empty.
Excused(s, url) ==
    \/ IsCgi(s, LocationOf(s, url))
    \/ \E f \in DOMAIN files : files[f] = <<>>
    \/ \E code \in {400, 403, 404} : ErrorBody(s, code) = <<>>

LEMMA BothEmpty ==
    ASSUME NEW T, NEW a \in Seq(T), NEW b \in Seq(T), a \o b = <<>>
    PROVE  a = <<>> /\ b = <<>>
<1>1. Len(a) + Len(b) = Len(a \o b) /\ Len(a) \in Nat /\ Len(b) \in Nat
      BY Joined
<1>2. Len(a \o b) = 0
      OBVIOUS
<1>3. Len(a) = 0 /\ Len(b) = 0
      BY <1>1, <1>2
<1>   QED
      BY <1>3

LEMMA GetExcused ==
    ASSUME NEW s \in ServerType, NEW url, NEW p, NEW out, NEW isFile,
           \A f \in DOMAIN files : files[f] \in Bodies,
           NEW code, code = GetCode(s, LocationOf(s, url), p, isFile),
           NEW body, body = GetBody(s, LocationOf(s, url), p, isFile, out),
           body \o (IF HasErrorBody(code) THEN ErrorBody(s, code) ELSE <<>>) = <<>>
    PROVE  Excused(s, url)
<1>   PICK loc : loc = LocationOf(s, url)
      OBVIOUS
<1>   SUFFICES ASSUME ~IsCgi(s, loc) PROVE Excused(s, url)
      BY DEF Excused
<1>   DEFINE T == STRING \cup {"listing"}
<1>1. Stat(p) \in {"file", "dir", "none"}
      BY DEF Stat
<1>2. code \in {0, 403, 404}
      BY <1>1 DEF GetCode, ReadCode
<1>3. ErrorBody(s, code) \in Seq(T)
  <2>1. ErrorBody(s, code) \in Seq(STRING)
        BY ErrorBodyIs
  <2>   QED
        BY ONLY <2>1
<1>4. Readable(p) \in Seq(T)
  <2>1. Readable(p) \in Seq(STRING)
        BY ReadableIs
  <2>   QED
        BY ONLY <2>1
<1>5. body \in {<<"listing">>, <<>>, Readable(p)}
      BY DEF GetBody
<1>6. body \in Seq(T)
      BY <1>4, <1>5
<1>7. CASE code # 0
  <2>1. body \o ErrorBody(s, code) = <<>>
        BY <1>2, <1>7 DEF HasErrorBody
  <2>e. PICK e : e = ErrorBody(s, code)
        OBVIOUS
  <2>t. PICK U : body \in Seq(U) /\ e \in Seq(U)
        BY <1>3, <1>6, <2>e
  <2>a. body \o e = <<>>
        BY <2>1, <2>e
  <2>b. e = <<>>
        BY ONLY <2>t, <2>a, BothEmpty
  <2>2. ErrorBody(s, code) = <<>>
        BY <2>b, <2>e
  <2>   QED
        BY <1>2, <1>7, <2>2 DEF Excused
<1>8. CASE code = 0
  <2>1. body \o <<>> = <<>>
        BY <1>8 DEF HasErrorBody
  <2>2. body = <<>>
        BY <1>6, <2>1
  <2>3. body = Readable(p) /\ Stat(p) = "file"
        BY <1>1, <1>8, <2>2 DEF GetCode, GetBody, ReadCode
  <2>4. Resolved(p) \in DOMAIN files /\ files[Resolved(p)] = <<>>
        BY <2>2, <2>3 DEF Readable, Stat, Resolved
  <2>   QED
        BY <2>4 DEF Excused
<1>   QED
      BY <1>7, <1>8

LEMMA BadExcused ==
    ASSUME NEW s \in ServerType, NEW url,
           \A f \in DOMAIN files : files[f] \in Bodies,
           <<>> \o ErrorBody(s, 400) = <<>>
    PROVE  Excused(s, url)
<1>1. ErrorBody(s, 400) \in Seq(STRING)
      BY ErrorBodyIs
<1>2. ErrorBody(s, 400) = <<>>
      BY <1>1
<1>   QED
      BY <1>2 DEF Excused

LEMMA ToldIsExcused ==
    ASSUME SInv, NEW i \in DOMAIN servers, NEW type \in {"BAD", "GET"}, NEW code \in Codes,
           NEW url, NEW body, NEW to, NEW kept, TellsAt(i, type, url, code, body, to, kept),
           answer'.body = <<>>
    PROVE  Excused(servers[i], url)
<1>1. PICK s \in ServerType : s = servers[i]
  <2>1. servers \in Seq(ServerType)
        BY DEF SInv, TInv
  <2>   QED
        BY <2>1
<1>2. \A f \in DOMAIN files : files[f] \in Bodies
      BY DEF SInv
<1>3. body \o (IF HasErrorBody(code) THEN ErrorBody(s, code) ELSE <<>>) = <<>>
      BY <1>1 DEF TellsAt, Says
<1>4. CASE type = "BAD"
  <2>1. code = 400 /\ body = <<>>
        BY <1>4 DEF TellsAt
  <2>2. <<>> \o ErrorBody(s, 400) = <<>>
        BY <1>3, <2>1 DEF HasErrorBody
  <2>3. Excused(s, url)
        BY <1>2, <2>2, BadExcused
  <2>   QED
        BY <1>1, <2>3
<1>5. CASE type = "GET"
  <2>1. PICK p, out, isFile :
            /\ code = GetCode(s, LocationOf(s, url), p, isFile)
            /\ body = GetBody(s, LocationOf(s, url), p, isFile, out)
        BY <1>1, <1>5 DEF TellsAt, Looked
  <2>2. Excused(s, url)
        BY <1>2, <1>3, <2>1, GetExcused
  <2>   QED
        BY <1>1, <2>2
<1>   QED
      BY <1>4, <1>5

LEMMA WholeIs ==
    AnswersAreWhole <=>
        ((IsAnswered /\ answer.type \in {"GET", "BAD"} /\ ~IsWhole(answer)) =>
            Excused(servers[answer.server], answer.url))
BY DEF AnswersAreWhole, Excused

LEMMA ExcusedStays ==
    ASSUME NEW s, NEW url, UNCHANGED <<files, dirs>>, Excused(s, url)
    PROVE  Excused(s, url)'
<1>1. ASSUME NEW p PROVE Readable(p)' = Readable(p)
  <2>1. Stat(p)' = Stat(p)
        BY DEF Stat, Passes
  <2>   QED
        BY <2>1 DEF Readable
<1>2. ASSUME NEW code PROVE ErrorBody(s, code)' = ErrorBody(s, code)
      BY <1>1 DEF ErrorBody
<1>   QED
      BY <1>2 DEF Excused

LEMMA WholeKept == SInv /\ AnswersAreWhole /\ [Next]_vars => AnswersAreWhole'
<1>   SUFFICES ASSUME SInv, AnswersAreWhole, [Next]_vars,
                      (IsAnswered /\ answer.type \in {"GET", "BAD"} /\ ~IsWhole(answer))'
               PROVE  Excused(servers[answer.server], answer.url)'
      BY DEF AnswersAreWhole, Excused
<1>1. CASE UNCHANGED vars
  <2>1. /\ servers' = servers /\ answer' = answer /\ UNCHANGED <<files, dirs>>
        BY <1>1 DEF vars, configVars, siteVars
  <2>2. Excused(servers[answer.server], answer.url)
        BY <2>1, WholeIs DEF IsAnswered
  <2>3. PICK s, url : s = servers[answer.server] /\ url = answer.url
        OBVIOUS
  <2>4. Excused(s, url)'
        BY <2>1, <2>2, <2>3, ExcusedStays
  <2>   QED
        BY <2>1, <2>3, <2>4
<1>2. CASE StartUp /\ UNCHANGED siteVars
      BY <1>2, Starting DEF SInv, siteVars, IsAnswered
<1>3. CASE Serve
  <2>1. CASE Ends
        BY <2>1 DEF Ends, EndsOn, Dies, Unwinds, Thrown, IsAnswered
  <2>2. CASE Tells
    <3>1. PICK i \in DOMAIN servers, type \in {"BAD", "ANY", "GET", "POST", "DELETE"},
               code \in Codes :
            \E url, body, to, kept : TellsAt(i, type, url, code, body, to, kept)
          BY <2>2 DEF Tells
    <3>2. PICK url, body, to, kept : TellsAt(i, type, url, code, body, to, kept)
          BY <3>1
    <3>3. /\ answer'.server = i /\ answer'.type = type /\ answer'.url = url
          /\ servers' = servers /\ UNCHANGED <<files, dirs>>
          BY <3>2 DEF TellsAt, Says, Unchanged, configVars
    <3>4. type \in {"BAD", "GET"} /\ answer'.body = <<>>
          BY <3>3 DEF IsWhole
    <3>5. Excused(servers[i], url)
          BY <3>1, <3>2, <3>4, ToldIsExcused
    <3>6. PICK s : s = servers[i]
          OBVIOUS
    <3>7. Excused(s, url)'
          BY <3>3, <3>5, <3>6, ExcusedStays
    <3>   QED
          BY <3>3, <3>6, <3>7
  <2>3. CASE Removes
        BY <2>3 DEF Removes, RemovesAt, Says
  <2>4. CASE Stores
        BY <2>4 DEF Stores, StoresAt, Says, Unwinds, Thrown, IsAnswered
  <2>   QED
        BY <1>3, <2>1, <2>2, <2>3, <2>4, Outcomes
<1>   QED
      BY <1>1, <1>2, <1>3 DEF Next

\* An answer to a GET or to a bad request has a body, and so a header that
\* ends, unless a script printed it, a file of the site is empty or a code of
\* an error has no page that can be read: each way through the constructor
\* reads a file, lists a directory or sets a code whose pages are appended.
THEOREM AnswersAreWholeCorrect == Spec => []AnswersAreWhole
<1>1. SiteInit => AnswersAreWhole
      BY DEF SiteInit, NoAnswer, AnswersAreWhole, IsAnswered
<1>   QED
      BY <1>1, WholeKept, SInvariance, PTL DEF Spec

=============================================================================
