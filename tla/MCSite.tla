-------------------------------- MODULE MCSite --------------------------------
(***************************************************************************)
(* A site of six files, configuration files that are accepted and files   *)
(* that are not, and requests to every kind of location.                   *)
(***************************************************************************)
EXTENDS Site, TLC

MCChars ==
    ("store/" :> <<"store", "/">>) @@ ("/up" :> <<"/", "up">>)
    @@ ("/upx" :> <<"/", "up", "x">>) @@ ("/up/a" :> <<"/", "up", "/", "a">>)
    @@ ("/list" :> <<"/", "list">>) @@ ("/cgi" :> <<"/", "cgi">>)

MCNumber ==
    ("80" :> 80) @@ ("080" :> 80) @@ ("81" :> 81) @@ ("65616" :> 65616)
    @@ ("100001" :> 100001) @@ ("200001" :> 200001) @@ ("1" :> 1) @@ ("400" :> 400) @@ ("403" :> 403) @@ ("404" :> 404)

\* Of a limit in megabytes stoul takes the number.
MCLeading == "1M" :> 1

MCUpper ==
    [w \in {"get", "delete", "post", "put", "on", "off", "On", "info", "loud"} |->
        CASE w = "get" -> "GET" [] w = "delete" -> "DELETE" [] w = "post" -> "POST"
          [] w \in {"on", "On"} -> "ON" [] w = "off" -> "OFF"
          [] w = "info" -> "INFO" [] w = "put" -> "PUT" [] w = "loud" -> "LOUD"]

Paths(p) == <<"root", p, ";">>

Block(word, content) == word \o <<"{">> \o content \o <<"}">>

Port80 == <<"listen", "80", ";">>
Pages == <<"root", "public", ";", "index", "home", ";">>
Log == <<"error_log", "log", "info", ";">>
Errors == <<"error_page", "404", "lost", ";", "error_page", "403", "lost", ";",
            "error_page", "400", "lost", ";">>
Basic == Port80 \o Pages \o Log \o Errors

Up == Block(<<"location", "/up">>,
        Paths("store") \o <<"allowed_methods", "get", "delete", ";",
                            "client_max_body_size", "1", ";">>)
UpSlash == Block(<<"location", "/up">>,
        Paths("store/") \o <<"allowed_methods", "delete", ";">>)
UpList == Block(<<"location", "/up">>,
        Paths("store") \o <<"autoindex", "on", ";", "allowed_methods", "delete", ";">>)
UpA == Block(<<"location", "/up/a">>, Paths("bin") \o <<"index", "run", ";">>)
Upx == Block(<<"location", "/upx">>, <<"return", "/up", ";">>)
List == Block(<<"location", "/list">>, Paths("store") \o <<"autoindex", "on", ";">>)
ListOn == Block(<<"location", "/list">>, Paths("store") \o <<"autoindex", "On", ";">>)
Cgi == Block(<<"location", "/cgi">>,
        <<"cgi_pass", ".py", ";">> \o Paths("bin") \o <<"index", "run", ";">>)
All == Block(<<"location", "/">>, <<"client_max_body_size", "1", ";">>)
AllDelete == Block(<<"location", "/">>,
        <<"client_max_body_size", "1M", ";", "allowed_methods", "delete", ";">>)
Limit(word) == Block(<<"location", "/up">>, <<"client_max_body_size", word, ";">>)

Server(content) == Block(<<"server">>, content)

Accepted == {
    Server(Basic \o Up \o Upx),
    Server(Up \o Basic \o <<"client_max_body_size", "1", ";">> \o UpA),
    Server(Basic \o AllDelete \o UpSlash \o Cgi),
    Server(Basic \o All \o UpList \o List),
    Server(Basic \o List \o <<"autoindex", "on", ";">>),
    Server(Basic \o ListOn \o <<"autoindex", "off">>),
    Server(Basic \o All) \o Server(<<"listen", "81", ";">> \o Pages \o Log \o Up),
    Server(Basic \o Up) \o <<"server">>,
    Server(Basic),
    Server(Port80 \o Pages \o All),
    Server(Basic \o Limit("big")), Server(Basic \o Limit("200001")),
    Server(Basic \o <<"error_page", "100001", "lost", ";">> \o Up) }

Refused == {
    <<>>, <<"server">>, <<";">>, <<"server", ";">>,
    Server(<<>>), <<"http", "{", "}">>, <<"server", "{">> \o Basic,
    Server(Pages \o Log \o All), Server(Port80 \o Port80 \o Pages \o All),
    Server(Basic \o <<"listen", ";">>), Server(Basic \o <<";">>),
    Server(Basic \o <<"server_name", "me", ";">>),
    Server(Basic \o <<"location", "/up", ";">>),
    Server(Basic \o Block(<<"location">>, Paths("store"))),
    Server(Basic \o Block(<<"location", "/up">>, <<>>)),
    Server(Basic \o Block(<<"location", "/up">>, <<"listen", "80", ";">>)),
    Server(Basic \o Block(<<"location", "/up">>, Paths("bin") \o Paths("store"))),
    Server(Basic \o Block(<<"location", "/up">>, <<"allowed_methods", "put", ";">>)),
    Server(Basic \o Block(<<"location", "/up">>,
                          <<"allowed_methods", "get", "get", ";">>)),
    Server(Basic \o Up \o UpA \o Up),
    Server(Port80 \o Pages \o <<"error_log", "log", "loud", ";">>),
    Server(<<"listen", "http", ";">> \o Pages),
    Server(Basic \o All) \o Server(Basic \o All),
    Server(Basic \o All) \o Server(<<"listen", "080", ";">> \o Pages \o Log),
    Server(Basic \o All) \o Server(<<"listen", "65616", ";">> \o Pages \o Log),
    Server(Basic \o <<"autoindex", "on", "{", "}">>) }

MCTexts == Accepted \cup Refused

MCCwd == <<"/", "srv">>

At(path) == MCCwd \o <<"/">> \o path

MCFiles ==
    (At(<<"public", "/", "home">>) :> <<"home">>)
    @@ (At(<<"public", "/", "lost">>) :> <<"lost">>)
    @@ (At(<<"public", "/", "up", "/", "b">>) :> <<"shown">>)
    @@ (At(<<"store", "/", "b">>) :> <<"hidden">>)
    @@ (At(<<"store", "x">>) :> <<"beside">>)
    @@ (At(<<"bin", "/", "run">>) :> <<"script">>)

MCDirs == {<<>>, MCCwd} \cup
    {At(d) : d \in {<<"public">>, <<"public", "/", "up">>, <<"store">>, <<"bin">>}}

MCURLs == {<<>>, <<"/">>, <<"/", "up">>, <<"/", "up", "/">>,
           <<"/", "up", "/", "a">>, <<"/", "up", "/", "b">>,
           <<"/", "up", "/", "..", "/", "up", "/", "b">>,
           <<"/", "up", "/", "up">>, <<"/", "up", "x">>, <<"/", "list">>,
           <<"/", "list", "/", "b">>, <<"/", "cgi">>, <<"/", "none">>}

Part(name, body) == [typed |-> TRUE, name |-> name, body |-> body]

Whole(parts) == [parts |-> parts, cut |-> FALSE]

MCUploads == {
    Whole(<<>>),
    Whole(<<[typed |-> FALSE, name |-> <<>>, body |-> <<"d">>], Part(<<"b">>, <<"c">>)>>),
    Whole(<<Part(<<"a">>, <<"c">>), Part(<<"up">>, <<"d">>)>>),
    [parts |-> <<Part(<<"b">>, <<"c">>)>>, cut |-> TRUE] }

MCOutputs == {<<"out">>, <<"out", "put">>}
===============================================================================
