--------------------------------- MODULE Site ---------------------------------
(***************************************************************************)
(* The Response constructor over the parsed configuration and the files of *)
(* the site: which location a URL belongs to, which file it names, and     *)
(* what a GET, POST or DELETE answers, stores or removes.  Paths are       *)
(* sequences of characters, because the code compares and replaces text:   *)
(* "/" is one of them.  One request is answered at a time; how requests    *)
(* arrive and answers leave is the business of Server.                     *)
(***************************************************************************)
EXTENDS Config

CONSTANTS
    InitialFiles,  \* the files of the site: path -> body, a sequence of chunks
    InitialDirs,   \* its directories
    URLs,          \* the paths requests ask for
    Cwd,           \* the directory the server runs in
    Uploads,       \* what a POST carries: parts, and whether the last is cut
    Outputs,       \* what a script may print
    Leading,       \* of a word that only begins with a number: that number
    MaxInt,        \* what an int holds, and
    MaxLong        \* what an unsigned long holds: only compared with

Bodies == Seq(STRING)

PartType == [typed : BOOLEAN, name : Seq(STRING), body : Bodies]

\* No path is both a file and a directory.  find_request_path gives the first
\* line from its first slash on, or nothing.
ASSUME SiteAssumption ==
    /\ DOMAIN InitialFiles \cap InitialDirs = {}
    /\ \A p \in DOMAIN InitialFiles : InitialFiles[p] \in Bodies
    /\ \A u \in URLs : u = <<>> \/ IsPrefix(<<"/">>, u)
    /\ Uploads \subseteq [parts : Seq(PartType), cut : BOOLEAN]

VARIABLES
    files,   \* the files, by path
    dirs,    \* the directories
    answer   \* the last answer, with the request it answers

siteVars == <<files, dirs, answer>>
vars == <<configVars, siteVars>>

NoAnswer == [type |-> "none"]

\* A request in the middle of which an exception was thrown, after an upload
\* was stored for the path "to" if that is not empty.
Thrown(i, type, url, to) ==
    [type |-> "thrown", server |-> i, request |-> type, url |-> url, to |-> to]

IsAnswered == answer.type \notin {"none", "thrown"}

-------------------------------------------------------------------------------
(***************************************************************************)
(* The file system.  A file or directory is known by its path from the top *)
(* directory, <<>>: a slash and a name for every step down.                *)
(***************************************************************************)

Parent(d) == SubSeq(d, 1, SelectLastInSeq(d, LAMBDA c : c = "/") - 1)

\* What a name leads to from directory d: there may be several slashes between
\* two names, and none behind the last.
Step(d, name) ==
    CASE name \in {<<>>, <<".">>} -> d
      [] name = <<"..">> -> Parent(d)
      [] OTHER -> d \o <<"/">> \o name

\* The system follows a path name by name, each from a directory.
Walk(p) ==
    FoldLeft(LAMBDA w, c :
        IF c = "/" THEN [at |-> Step(w.at, w.name), name |-> <<>>,
                         through |-> w.through \cup {w.at}]
        ELSE [w EXCEPT !.name = Append(@, c)],
        [at |-> IF IsPrefix(<<"/">>, p) THEN <<>> ELSE Cwd, name |-> <<>>,
         through |-> {}], p \o <<"/">>)

Resolved(p) == Walk(p).at

Passes(p, w) == p # <<>> /\ w.through \subseteq dirs

Stat(p) ==
    LET w == Walk(p)
    IN IF ~Passes(p, w) THEN "none"
       ELSE IF w.at \in DOMAIN files THEN "file"
       ELSE IF w.at \in dirs THEN "dir"
       ELSE "none"

Empty(d) == \A p \in DOMAIN files \cup dirs : ~IsPrefix(d \o <<"/">>, p)

NoSlash(p) == IF p # <<>> /\ Last(p) = "/" THEN Front(p) ELSE p

-------------------------------------------------------------------------------
(***************************************************************************)
(* From the URL to the location and to the file.                           *)
(***************************************************************************)

\* Mutant: the location itself does not match, only what is longer.
LocationOfLonger(s, url) ==
    LET matching == {i \in DOMAIN s.locs : IsStrictPrefix(s.locs[i].path, url)}
    IN IF matching = {} THEN <<>>
       ELSE s.locs[CHOOSE i \in matching : \A j \in matching :
                      Len(s.locs[j].path) <= Len(s.locs[i].path)].path

\* get_location_path: the longest location the URL begins with, or nothing.
LocationOf(s, url) ==
    LET matching == {i \in DOMAIN s.locs : IsPrefix(s.locs[i].path, url)}
    IN IF matching = {} THEN <<>>
       ELSE s.locs[CHOOSE i \in matching : \A j \in matching :
                      Len(s.locs[j].path) <= Len(s.locs[i].path)].path

\* find_location_directive: the directives of that location, or of the server
\* block where there is none.
Scope(s, loc) ==
    IF loc = <<>> THEN s.dirs
    ELSE s.locs[SelectInSeq(s.locs, LAMBDA l : l.path = loc)].dirs

InLocationOf(s, loc, key) == loc # <<>> /\ Has(Scope(s, loc), key)

Root(s) == Spelled(Value(s.dirs, "root"))

\* get_true_root, get_true_index
TrueValue(s, loc, key) ==
    Spelled(Value(IF InLocationOf(s, loc, key) THEN Scope(s, loc) ELSE s.dirs, key))

IsAutoindex(s, loc) ==
    Has(Scope(s, loc), "autoindex") /\ Value(Scope(s, loc), "autoindex") = "on"

IsCgi(s, loc) == InLocationOf(s, loc, "cgi_pass")

IsRedirect(s, loc) == InLocationOf(s, loc, "return")

HasAllowedMethod(s, loc, method) ==
    /\ InLocationOf(s, loc, "allowed_methods")
    /\ Contains(Values(Scope(s, loc), "allowed_methods"), method)

HasMaxBody(s, loc) == Has(Scope(s, loc), "client_max_body_size")

\* stoul takes the digits a word begins with, and throws where there are none
\* or the number is too large.
IsLimit(w) ==
    \/ IsNumber(w) /\ Number[w] <= MaxLong
    \/ w \in DOMAIN Leading /\ Leading[w] <= MaxLong

LimitOf(w) == IF IsNumber(w) THEN Number[w] ELSE Leading[w]

MaxBody(s, loc) == LimitOf(Value(Scope(s, loc), "client_max_body_size"))

BadMaxBody(s, loc) ==
    HasMaxBody(s, loc) /\ ~IsLimit(Value(Scope(s, loc), "client_max_body_size"))

\* is_file does not look at what stat returned: for a path that does not exist
\* it tests whatever the buffer held.
IsFile(p, garbage) == Stat(p) = "file" \/ (Stat(p) = "none" /\ garbage)

Slashed(p) == NoSlash(p) \o <<"/">>

\* replaceAll, left to right, of every occurrence.
ReplaceAllOf(p, from, to) ==
    FoldLeftDomain(LAMBDA acc, i :
        IF acc.skip > 0 THEN [acc EXCEPT !.skip = @ - 1]
        ELSE IF IsPrefix(from, From(p, i))
             THEN [out |-> acc.out \o to, skip |-> Len(from) - 1]
             ELSE [acc EXCEPT !.out = Append(@, p[i])],
        [out |-> <<>>, skip |-> 0], p).out

\* Mutant: the root of the server in place of that of the location.
InLocationPathOfServer(s, url, loc) ==
    IF (loc = url /\ ~IsAutoindex(s, loc)) \/ IsCgi(s, loc)
    THEN Slashed(TrueValue(s, loc, "root")) \o TrueValue(s, loc, "index")
    ELSE ReplaceAllOf(url, loc, NoSlash(Root(s)))

InLocationPath(s, url, loc) ==
    IF (loc = url /\ ~IsAutoindex(s, loc)) \/ IsCgi(s, loc)
    THEN Slashed(TrueValue(s, loc, "root")) \o TrueValue(s, loc, "index")
    ELSE ReplaceAllOf(url, loc, NoSlash(TrueValue(s, loc, "root")))

\* Mutant: the location is looked at before the root of the server.
FullPathLocationFirst(s, url, loc, garbage) ==
    IF loc # <<>> /\ IsFile(InLocationPath(s, url, loc), garbage)
    THEN InLocationPath(s, url, loc)
    ELSE IF url \in {<<"/">>, <<>>}
         THEN Root(s) \o <<"/">> \o Spelled(Value(s.dirs, "index"))
    ELSE Root(s) \o url

\* get_full_path: the URL below the root of the server, if it is a file there,
\* else the index, or the URL with its location replaced by the root of that.
FullPath(s, url, loc, garbage) ==
    IF IsFile(Root(s) \o url, garbage) THEN Root(s) \o url
    ELSE IF url \in {<<"/">>, <<>>}
         THEN Root(s) \o <<"/">> \o Spelled(Value(s.dirs, "index"))
    ELSE IF loc # <<>> THEN InLocationPath(s, url, loc)
    ELSE Root(s) \o url

FullPaths(s, url, loc) == {FullPath(s, url, loc, g) : g \in BOOLEAN}

-------------------------------------------------------------------------------
(***************************************************************************)
(* The answer.                                                             *)
(***************************************************************************)

\* read_file
Readable(p) == IF Stat(p) = "file" THEN files[Resolved(p)] ELSE <<>>

\* Mutant: a directory is no error.
ReadCodeOfDirectory(p) == IF Stat(p) = "none" THEN 404 ELSE 0

ReadCode(p) == CASE Stat(p) = "file" -> 0 [] Stat(p) = "dir" -> 403
                 [] Stat(p) = "none" -> 404

\* build_error_body: the pages given for the code, one after the other.
ErrorBody(s, code) ==
    FlattenSeq([i \in DOMAIN s.dirs |->
        IF s.dirs[i].key = "error_page" /\ Number[s.dirs[i].values[1]] = code
        THEN Readable(Root(s) \o <<"/">> \o Spelled(s.dirs[i].values[2]))
        ELSE <<>>])

\* stoi throws on the number of a page that is too large for an int.
BadErrorPage(s) ==
    \E i \in DOMAIN s.dirs : /\ s.dirs[i].key = "error_page"
                             /\ Number[s.dirs[i].values[1]] > MaxInt

\* build_header writes the blank line that ends the header together with the
\* Content-Length of a body, or with a Location.
IsWhole(a) == a.code \in {301, 302} \/ a.body # <<>>

\* An exception unwinds through launch().
Unwinds(i, type, url, to) == Throw /\ answer' = Thrown(i, type, url, to)

HasErrorBody(code) == code \notin {0, 301}

Answers(i, type, url, code, body, to, kept) ==
    IF HasErrorBody(code) /\ BadErrorPage(servers[i]) THEN Unwinds(i, type, url, to)
    ELSE /\ answer' = [server |-> i, type |-> type, url |-> url, code |-> code,
                       body |-> body \o (IF HasErrorBody(code)
                                         THEN ErrorBody(servers[i], code) ELSE <<>>),
                       to |-> to, kept |-> kept]
         /\ UNCHANGED configVars

Unchanged == UNCHANGED <<files, dirs>>

\* An exception before anything changed.
Dies(i, type, url) == Unwinds(i, type, url, <<>>) /\ Unchanged

\* The look-ups before the method is known, outside every try.
Found(i) == servers[i].locs # <<>>

Asked(i, loc) ==
    /\ phase = "serve" /\ Has(servers[i].dirs, "error_log")
    /\ ~IsRedirect(servers[i], loc)

\* Accepting a client is logged in the error_log of its server block.
Accept(i) ==
    /\ phase = "serve" /\ ~Has(servers[i].dirs, "error_log")
    /\ Dies(i, "CONNECT", <<>>)

\* The parser of requests throws on a first line of three words without a slash,
\* and on a Content-Length that is empty or too large.
Malformed(i) ==
    /\ phase = "serve" /\ Has(servers[i].dirs, "error_log")
    /\ Dies(i, "MALFORMED", <<>>)

BadRequest(i) ==
    /\ phase = "serve" /\ Has(servers[i].dirs, "error_log")
    /\ Answers(i, "BAD", <<>>, 400, <<>>, <<>>, <<>>)
    /\ Unchanged

NoLocations(i) ==
    /\ phase = "serve" /\ Has(servers[i].dirs, "error_log") /\ ~Found(i)
    /\ Dies(i, "ANY", <<>>)

Redirect(i, url, loc) ==
    /\ phase = "serve" /\ Has(servers[i].dirs, "error_log")
    /\ IsRedirect(servers[i], loc)
    /\ Answers(i, "ANY", url, 301, <<>>,
               Spelled(Value(Scope(servers[i], loc), "return")), <<>>)
    /\ Unchanged

\* The code and the body of a GET whose file is p.
GetCode(s, loc, p, isFile) ==
    IF IsAutoindex(s, loc) /\ ~isFile
    THEN IF Stat(p) = "dir" THEN 0 ELSE 404
    ELSE IF IsCgi(s, loc) THEN 0
    ELSE ReadCode(p)

GetBody(s, loc, p, isFile, out) ==
    IF IsAutoindex(s, loc) /\ ~isFile
    THEN IF Stat(p) = "dir" THEN <<"listing">> ELSE <<>>
    ELSE IF IsCgi(s, loc) THEN IF Stat(p) = "none" THEN <<>> ELSE out
    ELSE Readable(p)

Printed(s, loc) == IF IsCgi(s, loc) THEN Outputs ELSE {<<>>}

Get(i, url, loc) ==
    /\ Asked(i, loc)
    /\ \E p \in FullPaths(servers[i], url, loc), out \in Printed(servers[i], loc) :
        \E isFile \in {IsFile(p, g) : g \in BOOLEAN} :
            Answers(i, "GET", url,
                    GetCode(servers[i], loc, p, isFile),
                    GetBody(servers[i], loc, p, isFile, out), <<>>, <<>>)
    /\ Unchanged

\* remove() unlinks a file and removes an empty directory.
Removable(p) ==
    Stat(p) = "file" \/ (Stat(p) = "dir" /\ Last(p) # "." /\ Empty(Resolved(p)))

DeleteAt(i, url, p) ==
    IF ~Removable(p)
    THEN Answers(i, "DELETE", url, 204, <<>>, <<>>, <<>>) /\ Unchanged
    ELSE /\ Answers(i, "DELETE", url, 0, <<>>, <<>>, p)
         /\ files' = [f \in DOMAIN files \ {Resolved(p)} |-> files[f]]
         /\ dirs' = dirs \ {Resolved(p)}

\* Mutant: the allowed methods are not looked at.
DeleteUnchecked(i, url, loc) ==
    /\ Asked(i, loc)
    /\ \E p \in FullPaths(servers[i], url, loc) : DeleteAt(i, url, p)

Delete(i, url, loc) ==
    /\ Asked(i, loc)
    /\ IF HasAllowedMethod(servers[i], loc, "DELETE")
       THEN \E p \in FullPaths(servers[i], url, loc) : DeleteAt(i, url, p)
       ELSE Answers(i, "DELETE", url, 405, <<>>, <<>>, <<>>) /\ Unchanged

\* process_image: the bodies of the parts that have a type, one after the
\* other, under the name of the last of them.  Its substr throws on a body that
\* ends less than two bytes behind a boundary.
Image(parts) ==
    FlattenSeq([i \in DOMAIN parts |-> IF parts[i].typed THEN parts[i].body ELSE <<>>])

ImageName(parts) ==
    FoldLeft(LAMBDA n, p : IF p.typed THEN p.name ELSE n, <<>>, parts)

\* Mutant: the file is written without being opened.
SaveUnopened(p, body) ==
    files' = [f \in DOMAIN files \cup {Resolved(p)} |->
                  IF f = Resolved(p) THEN body ELSE files[f]]

\* An ofstream that cannot be opened writes nothing, and nobody asks.
Save(p, body) ==
    files' = IF Passes(p, Walk(p)) /\ Resolved(p) \notin dirs
             THEN [f \in DOMAIN files \cup {Resolved(p)} |->
                      IF f = Resolved(p) THEN body ELSE files[f]]
             ELSE files

TooLong(s, loc, body) == HasMaxBody(s, loc) /\ Len(body) > MaxBody(s, loc)

\* Mutant: the root of the first location, whatever the URL.
PostImageToFirst(i, url, loc, parts) ==
    IF TooLong(servers[i], loc, Image(parts))
    THEN Answers(i, "POST", url, 413, <<>>, <<>>, <<>>) /\ Unchanged
    ELSE IF loc = <<>> THEN Dies(i, "POST", url)
    ELSE /\ Answers(i, "POST", url, 302, <<>>,
                    Slashed(url) \o ImageName(parts), Image(parts))
         /\ Save(Slashed(TrueValue(servers[i], servers[i].locs[1].path, "root"))
                    \o ImageName(parts), Image(parts))
         /\ UNCHANGED dirs

PostImage(i, url, loc, parts) ==
    IF TooLong(servers[i], loc, Image(parts))
    THEN Answers(i, "POST", url, 413, <<>>, <<>>, <<>>) /\ Unchanged
    ELSE IF loc = <<>> THEN Dies(i, "POST", url)
    ELSE /\ Answers(i, "POST", url, 302, <<>>,
                    Slashed(url) \o ImageName(parts), Image(parts))
         /\ Save(Slashed(TrueValue(servers[i], loc, "root")) \o ImageName(parts),
                 Image(parts))
         /\ UNCHANGED dirs

PostCgi(i, url, loc, out) ==
    /\ IF TooLong(servers[i], loc, out)
       THEN Answers(i, "POST", url, 413, <<>>, <<>>, <<>>)
       ELSE Answers(i, "POST", url, 0, out, <<>>, <<>>)
    /\ Unchanged

Post(i, url, loc) ==
    /\ Asked(i, loc)
    /\ IF BadMaxBody(servers[i], loc) THEN Dies(i, "POST", url)
       ELSE IF IsCgi(servers[i], loc)
       THEN \E p \in FullPaths(servers[i], url, loc), out \in Outputs :
                PostCgi(i, url, loc, IF Stat(p) = "none" THEN <<>> ELSE out)
       ELSE \E upload \in Uploads :
                IF upload.cut THEN Dies(i, "CUT", url)
                ELSE PostImage(i, url, loc, upload.parts)

Serve ==
    \E i \in DOMAIN servers :
        \/ Accept(i) \/ Malformed(i) \/ BadRequest(i) \/ NoLocations(i)
        \/ Found(i) /\ \E url \in URLs : \E loc \in {LocationOf(servers[i], url)} :
            \/ Redirect(i, url, loc) \/ Get(i, url, loc)
            \/ Delete(i, url, loc) \/ Post(i, url, loc)

SiteInit ==
    /\ Init
    /\ files = InitialFiles
    /\ dirs = InitialDirs
    /\ answer = NoAnswer

Next ==
    \/ StartUp /\ UNCHANGED siteVars
    \/ Serve

Spec == SiteInit /\ [][Next]_vars /\ WF_vars(StartUp /\ UNCHANGED siteVars)

-------------------------------------------------------------------------------
(***************************************************************************)
(* The properties of the site.                                             *)
(***************************************************************************)

Answered(type, code) ==
    IsAnswered /\ answer.type = type /\ answer.code = code

TypeOK ==
    /\ phase \in {"read", "parse", "validate", "listen", "serve", "ended"}
    /\ IsAnswered =>
        /\ answer.server \in DOMAIN servers
        /\ answer.code \in {0, 204, 301, 302, 400, 403, 404, 405, 413}
    /\ servers \in Seq(ServerType)
    /\ DOMAIN files \cap dirs = {}
    /\ \A p \in DOMAIN files : files[p] \in Bodies

\* The upload of one image to a location, as the code stores it.
StoredUnder(s, loc, name) ==
    /\ name # <<>>
    /\ Stat(Slashed(TrueValue(s, loc, "root")) \o name) = "file"

\* Where the redirection of an upload leads back to the stored file: it was
\* posted to the location itself, the location does not end in a slash, its
\* text does not occur in the file's name, and neither a longer location nor a
\* file of that name below the server's root comes first.
LeadsBack(s, url, loc, to) ==
    /\ url \in {loc, Slashed(loc)}
    /\ Last(loc) # "/"
    /\ LocationOf(s, to) = loc
    /\ Len(ReplaceAllOf(to, loc, <<>>)) = Len(to) - Len(loc)
    /\ Stat(Root(s) \o to) # "file"

Serves(s, url, loc, body) ==
    /\ GetCode(s, loc, FullPath(s, url, loc, FALSE), TRUE) = 0
    /\ \A p \in FullPaths(s, url, loc) : \A isFile \in {IsFile(p, g) : g \in BOOLEAN} :
        \/ GetCode(s, loc, p, isFile) = 404
        \/ GetBody(s, loc, p, isFile, <<>>) = body

\* What a POST stored is what a GET of the URL it redirects to answers; where
\* is_file is misled by its buffer, nothing is, but never something else.
UploadIsServed ==
    Answered("POST", 302) =>
        LET s == servers[answer.server]
            loc == LocationOf(s, answer.url)
        IN (/\ LeadsBack(s, answer.url, loc, answer.to)
            /\ StoredUnder(s, loc, From(answer.to, Len(Slashed(answer.url)) + 1)))
           => Serves(s, answer.to, loc, answer.kept)

\* After a DELETE that answered 200 no file is left at its URL, unless the one
\* it removed lay below the server's root and hid one of the location.
DeletedIsGone ==
    Answered("DELETE", 0) =>
        LET s == servers[answer.server]
        IN \A p \in FullPaths(s, answer.url, LocationOf(s, answer.url)) :
            Stat(p) = "file" => answer.kept = Root(s) \o answer.url

\* Every answer to a GET or to a bad request ends its header, on a site whose
\* files are not empty and whose error pages exist, scripts aside.
AnswersAreWhole ==
    (IsAnswered /\ answer.type \in {"GET", "BAD"} /\ ~IsWhole(answer)) =>
        LET s == servers[answer.server]
        IN \/ IsCgi(s, LocationOf(s, answer.url))
           \/ \E f \in DOMAIN files : files[f] = <<>>
           \/ \E code \in {400, 403, 404} : ErrorBody(s, code) = <<>>

\* The root itself included: a DELETE of the location with a slash behind it
\* removes the root once it is empty.
Below(root, f) ==
    f = Resolved(root) \/ IsPrefix(Resolved(root) \o <<"/">>, f)

Removed == (DOMAIN files \cup dirs) \ (DOMAIN files' \cup dirs')

Written == {f \in DOMAIN files' : f \notin DOMAIN files \/ files[f] # files'[f]}

\* A POST whose upload was stored, answered or not.
Stored(s, a) ==
    \/ a.type = "POST" /\ a.code = 302
    \/ a.type = "thrown" /\ a.request = "POST" /\ BadErrorPage(s)

\* A file or directory disappears only through a DELETE its location allows and
\* that answers 200; a file appears or changes only through a POST within the
\* limit of its location, which answers 302 or ends the process over the number
\* of an error page; and no directory appears.
ChangesAreAllowed ==
    [][LET s == servers[answer'.server]
           loc == LocationOf(s, answer'.url)
       IN /\ dirs' \subseteq dirs
          /\ Removed # {} => /\ Answered("DELETE", 0)'
                             /\ HasAllowedMethod(s, loc, "DELETE")
          /\ \A f \in Written : /\ Stored(s, answer')
                                /\ ~TooLong(s, loc, files'[f])]_<<files, dirs>>

\* The names of the request or of the configuration lead up the directories.
LeadsUp(s, loc, a) ==
    ".." \in Range(a.url) \cup Range(a.to) \cup Range(TrueValue(s, loc, "index"))
             \cup Range(Spelled(Value(s.dirs, "index")))

\* The location is one or more whole names of the URL, and not repeated: in
\* "/upx" and "/up/up" the location "/up" is not, nor is "/" in any but "/".
Names(loc, url) ==
    LET behind == From(url, Len(loc) + 1)
    IN behind = <<>> \/ (IsPrefix(<<"/">>, behind) /\ ~IsPrefix(loc, behind))

\* Where no name leads up, what an upload stores lies below the root of the
\* server or of the location the URL belongs to, and so does what a DELETE
\* removes if the URL names its location.
ChangesStayBelow ==
    [][LET s == servers[answer'.server]
           loc == LocationOf(s, answer'.url)
       IN \A f \in Removed \cup Written :
              \/ Below(Root(s), f) \/ Below(TrueValue(s, loc, "root"), f)
              \/ LeadsUp(s, loc, answer')
              \/ answer'.type = "DELETE" /\ ~Names(loc, answer'.url)]_<<files, dirs>>

\* A server block with an error_log, a location "/", limits that are numbers
\* and error pages for numbers an int holds.
Robust(s) ==
    /\ Has(s.dirs, "error_log")
    /\ \E i \in DOMAIN s.locs : s.locs[i].path = <<"/">>
    /\ \A url \in URLs : ~BadMaxBody(s, LocationOf(s, url))
    /\ ~BadErrorPage(s)

\* Once such a configuration is served, a request ends the process only if the
\* parser of requests throws on it, or if it is a POST that has no path or whose
\* body is cut behind a boundary.
RobustStaysUp ==
    (answer.type = "thrown" /\ \A i \in DOMAIN servers : Robust(servers[i]))
        => \/ answer.request \in {"MALFORMED", "CUT"}
           \/ answer.request = "POST" /\ answer.url = <<>>
===============================================================================
