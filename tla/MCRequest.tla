----------------------------- MODULE MCRequest -----------------------------
(***************************************************************************)
(* Small sets of messages for Request.                                     *)
(***************************************************************************)
EXTENDS Request

Message(m, b, n, a) == [method |-> m, body |-> b, length |-> n, announced |-> a]

\* POSTs that announce up to three bytes, none included, and hold up to four:
\* as many, fewer or more.
Announcing == {Message("POST", "length", n, a) : n \in 0..4, a \in 0..3}

\* GET, with or without a body, and POST without one, announcing it, or in chunks.
AllKinds ==
    {Message("GET", "none", 0, 0), Message("GET", "length", 2, 2),
     Message("GET", "length", 1, 3), Message("GET", "chunked", 2, 0),
     Message("POST", "none", 0, 0)}
        \cup Announcing
        \cup {Message("POST", "chunked", n, 0) : n \in 2..4}

OneGet == {Message("GET", "none", 0, 0)}

=============================================================================
