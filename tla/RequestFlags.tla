---------------------------- MODULE RequestFlags ----------------------------
(***************************************************************************)
(* A Request as the poll loop sees it: the method and the three flags that *)
(* receiver() reads, and every way one buffer may change them.  Server     *)
(* uses it for any client; Request shows that the bytes of a message, cut  *)
(* anywhere, change the flags in no other way.                             *)
(***************************************************************************)

CONSTANT Conns

Methods == {"GET", "POST"}   \* DELETE is read and completed as GET is

\* src is a ghost: the connection whose bytes the request was read from.
Request == [src : Conns, type : Methods \cup {"NONE"},
            hdr : BOOLEAN, done : BOOLEAN, bad : BOOLEAN]

Fresh(c) == [src |-> c, type |-> "NONE", hdr |-> FALSE, done |-> FALSE, bad |-> FALSE]

\* The methods the first line of a request may still turn out to name.
MethodsOf(r) == IF r.type = "NONE" THEN Methods ELSE {r.type}

FoundType(r, t)    == [r EXCEPT !.type = t]
EndHeader(r, t, d) == [r EXCEPT !.type = t, !.hdr = TRUE, !.done = d]

\* What one buffer can make of a request whose header is not done: nothing
\* recognised yet, the method found, a bad first line, or the end of the
\* header, which completes a GET and completes a POST that has no body or all
\* of it.
ReadHeader(r) ==
    {r} \cup {FoundType(r, t) : t \in MethodsOf(r)}
        \cup (IF r.type = "NONE" THEN {[r EXCEPT !.bad = TRUE]} ELSE {})
        \cup {EndHeader(r, t, TRUE) : t \in MethodsOf(r)}
        \cup {EndHeader(r, t, FALSE) : t \in MethodsOf(r) \ {"GET"}}

\* add_body: a body only ever completes a POST; a malformed chunk ends it too.
AddBody(r) ==
    IF r.type # "POST" THEN {r}
    ELSE {r, [r EXCEPT !.done = TRUE], [r EXCEPT !.done = TRUE, !.bad = TRUE]}

\* The test with which receiver() decides that the request is complete.
Received(r) == (r.hdr /\ r.type = "GET") \/ (r.done /\ r.type = "POST") \/ r.bad

=============================================================================
