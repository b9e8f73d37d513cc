-------------------------------- MODULE Config --------------------------------
(***************************************************************************)
(* How webserv starts: webserv.conf is read, parsed directive by           *)
(* directive, validated, and a socket is opened for every server block.    *)
(* The text is a sequence of tokens: the two brackets, the semicolon and   *)
(* words.  An action is one turn of one of the parser's three loops, or    *)
(* one of the calls start_server makes.  Every exception leads to the      *)
(* catch of main, which ends the process.                                  *)
(***************************************************************************)
EXTENDS Integers, Sequences, SequencesExt, FiniteSets, FiniteSetsExt

CONSTANTS
    Texts,         \* the configuration files the process may find
    Blank,         \* the character between two words of a line
    Chars,         \* of a word whose characters matter: those, as a sequence
    Number,        \* of a word of digits: its value
    Upper,         \* of a word that has small letters: the word in capitals
    MaxDirectives  \* bound of the model: directives of one block

Outside == <<"not in a block">>  \* of block and inner: not in one

\* A file is a sequence of tokens, none of which has blanks in it.
ASSUME TextsAssumption ==
    \A t \in Texts : t \in Seq(STRING) /\ \A i \in DOMAIN t : t[i] # Outside[1]

ASSUME WordsAssumption ==
    /\ Blank \in STRING
    /\ \A w \in DOMAIN Chars : Chars[w] \in Seq(STRING)
    /\ \A w \in DOMAIN Upper : Upper[w] \in STRING

VARIABLES
    phase,    \* "read", "parse", "validate", "listen", "serve" or "ended"
    text,     \* the file
    rest,     \* what parse_config has not parsed yet
    block,    \* what parse_server_block has not parsed yet, inside a server block
    inner,    \* what parse_server_location_block has not, inside a location block
    server,   \* the server block being built
    location, \* the location block being built
    servers   \* the parsed server blocks, in the order of the file

configVars == <<phase, text, rest, block, inner, server, location, servers>>

DirectiveType == [key : STRING, values : Seq(STRING)]
LocationType == [path : Seq(STRING), dirs : Seq(DirectiveType)]
ServerType == [dirs : Seq(DirectiveType), locs : Seq(LocationType)]

NoServer == [dirs |-> <<>>, locs |-> <<>>]
NoLocation == [path |-> <<>>, dirs |-> <<>>]

-------------------------------------------------------------------------------
(***************************************************************************)
(* The keywords, and look-ups in what was parsed.                          *)
(***************************************************************************)

OneValue == {"listen", "root", "index", "autoindex", "client_max_body_size"}
TwoValues == {"error_log", "error_page"}
LocationOneValue ==
    {"cgi_pass", "root", "autoindex", "index", "client_max_body_size", "return"}

Count(dirs, key) == Cardinality({i \in DOMAIN dirs : dirs[i].key = key})

Has(dirs, key) == Count(dirs, key) > 0

\* The multimap finds the first of several directives with the same key.
Values(dirs, key) ==
    dirs[SelectInSeq(dirs, LAMBDA d : d.key = key)].values

Value(dirs, key) == Values(dirs, key)[1]

\* Of a word that is only passed on, one character stands for all of them.
Spelled(w) == IF w \in DOMAIN Chars THEN Chars[w] ELSE <<w>>

Capitals(w) == IF w \in DOMAIN Upper THEN Upper[w] ELSE w

-------------------------------------------------------------------------------
(***************************************************************************)
(* Scanning.                                                               *)
(***************************************************************************)

Opening == "{"
Closing == "}"
Semicolon == ";"

\* find_first_of: the length of the text plus one stands for npos.
FirstOf(s, tokens) == Min({i \in DOMAIN s : s[i] \in tokens} \cup {Len(s) + 1})

From(s, i) == SubSeq(s, i, Len(s))

Line(s) == SubSeq(s, 1, FirstOf(s, {Opening, Semicolon}) - 1)

EndsAt(s, token) ==
    /\ FirstOf(s, {Opening, Semicolon}) <= Len(s)
    /\ s[FirstOf(s, {Opening, Semicolon})] = token

\* Mutant: the text is not moved behind the directive.
AfterSemicolonStaying(s) == s

\* substr(find_first_of(";") + 1), which is the whole text if there is none.
AfterSemicolon(s) ==
    IF FirstOf(s, {Semicolon}) > Len(s) THEN s ELSE From(s, FirstOf(s, {Semicolon}) + 1)

AfterBracket(s) == From(s, FirstOf(s, {Opening}) + 1)

\* extract_bracket_content passes over an opening bracket together with the
\* closing one after it: the block ends at the first closing bracket that has
\* no opening one behind the closing bracket before it.
Closings(s) ==
    {k \in DOMAIN s :
        /\ s[k] = Closing
        /\ \A j \in 1 .. k - 1 :
            s[j] = Opening => \E m \in j .. k - 1 : s[m] = Closing}

Content(s) == SubSeq(s, 1, Min(Closings(s)) - 1)

BehindContent(s) == From(s, Min(Closings(s)) + 1)

HasContent(s) == Closings(s) # {} /\ Content(s) # <<>>

\* The words from the second on, with their blanks: the path of a location.
PathOf(line) ==
    FlattenSeq([i \in 1 .. Len(line) - 1 |->
        IF i = 1 THEN Spelled(line[2]) ELSE <<Blank>> \o Spelled(line[i + 1])])

-------------------------------------------------------------------------------
Init ==
    /\ phase = "read"
    /\ text \in Texts
    /\ rest = text
    /\ block = Outside /\ inner = Outside
    /\ server = NoServer /\ location = NoLocation
    /\ servers = <<>>

Throw ==
    /\ phase' = "ended"
    /\ UNCHANGED <<text, rest, block, inner, server, location, servers>>

Read ==
    /\ phase = "read"
    /\ IF text = <<>> THEN Throw
       ELSE /\ phase' = "parse"
            /\ UNCHANGED <<text, rest, block, inner, server, location, servers>>

(***************************************************************************)
(* parse_config.  What follows the last bracket or semicolon is not read.  *)
(***************************************************************************)

OpenServer ==
    /\ phase = "parse" /\ block = Outside
    /\ FirstOf(rest, {Opening, Semicolon}) <= Len(rest)
    /\ IF \/ Line(rest) = <<>> \/ rest[1] # "server"
          \/ EndsAt(rest, Semicolon)
          \/ ~HasContent(AfterBracket(rest))
       THEN Throw
       ELSE /\ block' = Content(AfterBracket(rest))
            /\ rest' = BehindContent(AfterBracket(rest))
            /\ server' = NoServer
            /\ UNCHANGED <<phase, text, inner, location, servers>>

EndOfText ==
    /\ phase = "parse" /\ block = Outside
    /\ FirstOf(rest, {Opening, Semicolon}) > Len(rest)
    /\ phase' = "validate"
    /\ UNCHANGED <<text, rest, block, inner, server, location, servers>>

(***************************************************************************)
(* parse_server_block.                                                     *)
(***************************************************************************)

InServer ==
    /\ phase = "parse" /\ block # Outside /\ inner = Outside
    /\ FirstOf(block, {Opening, Semicolon}) <= Len(block)

Directive(line) == [key |-> line[1], values |-> Tail(line)]

BadDirective ==
    /\ InServer
    /\ \/ Line(block) = <<>>
       \/ block[1] \notin OneValue \cup TwoValues \cup {"location"}
    /\ Throw

NormalDirective ==
    /\ InServer
    /\ Line(block) # <<>> /\ block[1] \in OneValue \cup TwoValues
    /\ IF Len(Line(block)) # (IF block[1] \in TwoValues THEN 3 ELSE 2)
       THEN Throw
       ELSE /\ Len(server.dirs) < MaxDirectives
            /\ server' = [server EXCEPT !.dirs = Append(@, Directive(Line(block)))]
            /\ block' = AfterSemicolon(block)
            /\ UNCHANGED <<phase, text, rest, inner, location, servers>>

OpenLocation ==
    /\ InServer
    /\ Line(block) # <<>> /\ block[1] = "location"
    /\ IF \/ EndsAt(block, Semicolon)
          \/ Len(Line(block)) < 2
          \/ ~HasContent(AfterBracket(block))
       THEN Throw
       ELSE /\ location' = [path |-> PathOf(Line(block)), dirs |-> <<>>]
            /\ inner' = Content(AfterBracket(block))
            /\ block' = BehindContent(AfterBracket(block))
            /\ UNCHANGED <<phase, text, rest, server, servers>>

\* Mutant: a map in place of the multimap keeps one server block.
CloseServerReplacing ==
    /\ phase = "parse" /\ block # Outside /\ inner = Outside
    /\ FirstOf(block, {Opening, Semicolon}) > Len(block)
    /\ servers' = <<server>>
    /\ block' = Outside
    /\ UNCHANGED <<phase, text, rest, inner, server, location>>

CloseServer ==
    /\ phase = "parse" /\ block # Outside /\ inner = Outside
    /\ FirstOf(block, {Opening, Semicolon}) > Len(block)
    /\ servers' = Append(servers, server)
    /\ block' = Outside
    /\ UNCHANGED <<phase, text, rest, inner, server, location>>

(***************************************************************************)
(* parse_server_location_block.                                            *)
(***************************************************************************)

InLocation ==
    /\ phase = "parse" /\ inner # Outside
    /\ FirstOf(inner, {Semicolon}) <= Len(inner)

InnerLine == SubSeq(inner, 1, FirstOf(inner, {Semicolon}) - 1)

IsLocationDirective(line) ==
    \/ line # <<>> /\ line[1] \in LocationOneValue /\ Len(line) = 2
    \/ line # <<>> /\ line[1] = "allowed_methods" /\ Len(line) \in 2 .. 4

LocationDirective ==
    /\ InLocation
    /\ IF ~IsLocationDirective(InnerLine) THEN Throw
       ELSE /\ Len(location.dirs) < MaxDirectives
            /\ location' = [location EXCEPT !.dirs = Append(@,
                    IF inner[1] = "allowed_methods"
                    THEN [key |-> inner[1],
                          values |-> [i \in 1 .. Len(InnerLine) - 1 |->
                                        Capitals(InnerLine[i + 1])]]
                    ELSE Directive(InnerLine))]
            /\ inner' = AfterSemicolon(inner)
            /\ UNCHANGED <<phase, text, rest, block, server, servers>>

CloseLocation ==
    /\ phase = "parse" /\ inner # Outside
    /\ FirstOf(inner, {Semicolon}) > Len(inner)
    /\ server' = [server EXCEPT !.locs = Append(@, location)]
    /\ inner' = Outside
    /\ UNCHANGED <<phase, text, rest, block, location, servers>>

(***************************************************************************)
(* validate_config, and the sockets the Server opens.                      *)
(***************************************************************************)

IsNumber(w) == w \in DOMAIN Number

ValidMethods(ms) ==
    /\ Len(ms) <= 3
    /\ \A i \in DOMAIN ms : ms[i] \in {"GET", "POST", "DELETE"}
    /\ IsInjective(ms)

ValidDirective(d) ==
    /\ d.key \in {"listen", "error_page"} => IsNumber(d.values[1])
    /\ d.key = "error_log" =>
            Capitals(d.values[2]) \in {"DEBUG", "INFO", "WARN", "ERROR"}
    /\ d.key = "autoindex" => Capitals(d.values[1]) \in {"ON", "OFF"}

ValidLocation(l) ==
    /\ Count(l.dirs, "root") <= 1 /\ Count(l.dirs, "index") <= 1
    /\ Has(l.dirs, "autoindex") =>
            Capitals(Value(l.dirs, "autoindex")) \in {"ON", "OFF"}
    /\ Has(l.dirs, "allowed_methods") =>
            ValidMethods(Values(l.dirs, "allowed_methods"))

ValidServer(s) ==
    /\ \A key \in {"listen", "root", "index"} : Count(s.dirs, key) = 1
    /\ \A i \in DOMAIN s.dirs : ValidDirective(s.dirs[i])
    /\ \A i \in DOMAIN s.locs : ValidLocation(s.locs[i])
    /\ \A i, j \in DOMAIN s.locs : i # j => s.locs[i].path # s.locs[j].path

\* The ports are compared as they are written.
ValidConfig ==
    /\ \A i \in DOMAIN servers : ValidServer(servers[i])
    /\ \A i, j \in DOMAIN servers : i # j =>
            Value(servers[i].dirs, "listen") # Value(servers[j].dirs, "listen")

Validate ==
    /\ phase = "validate"
    /\ phase' = IF ValidConfig THEN "listen" ELSE "ended"
    /\ UNCHANGED <<text, rest, block, inner, server, location, servers>>

\* htons keeps sixteen bits; bind refuses a port that is taken.
Port(s) == Number[Value(s.dirs, "listen")] % 2 ^ 16

Listen ==
    /\ phase = "listen"
    /\ phase' = IF /\ servers # <<>>
                   /\ \A i, j \in DOMAIN servers :
                        i # j => Port(servers[i]) # Port(servers[j])
                THEN "serve" ELSE "ended"
    /\ UNCHANGED <<text, rest, block, inner, server, location, servers>>

StartUp ==
    \/ Read \/ OpenServer \/ EndOfText
    \/ BadDirective \/ NormalDirective \/ OpenLocation \/ CloseServer
    \/ LocationDirective \/ CloseLocation
    \/ Validate \/ Listen

-------------------------------------------------------------------------------
(***************************************************************************)
(* The properties of the start-up.                                         *)
(***************************************************************************)

\* A directive of a server block that is ended by a bracket.
EndedByBracket ==
    \E i, j \in DOMAIN text :
        /\ i < j /\ text[i] \in OneValue \cup TwoValues /\ text[j] = Opening
        /\ \A k \in i + 1 .. j - 1 : text[k] \notin {Semicolon, Opening, Closing}

Tokens(token) == Cardinality({i \in DOMAIN text : text[i] = token})

\* The blocks of server blocks ss: <<i, 0>> is the i-th of them and <<i, l>> its
\* l-th location; and their directives, each with the block that holds it.
Blocks(ss) == UNION {{i} \X (0 .. Len(ss[i].locs)) : i \in DOMAIN ss}

BlockDirs(ss, b) == IF b[2] = 0 THEN ss[b[1]].dirs ELSE ss[b[1]].locs[b[2]].dirs

Directives(ss) == UNION {{b} \X DOMAIN BlockDirs(ss, b) : b \in Blocks(ss)}

\* The reading neither loses nor doubles anything that is closed: when the
\* parser accepts a file, every semicolon closes one directive it holds and
\* every bracket one block, however the blocks are nested and ordered.
EveryDirectiveIsRead ==
    (phase = "validate" /\ ~EndedByBracket) =>
        /\ Tokens(Semicolon) = Cardinality(Directives(servers))
        /\ Tokens(Opening) = Cardinality(Blocks(servers))

\* Start-up ends, serving or with an error, on every file but those with a
\* directive ended by a bracket: without a semicolon behind it, the parser
\* reads that directive again and again.
StartsOrEnds == <>(phase \in {"serve", "ended"} \/ EndedByBracket)
===============================================================================
