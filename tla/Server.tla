------------------------------- MODULE Server -------------------------------
(***************************************************************************)
(* The poll loop of webserv (server/Server.cpp): one thread that waits in  *)
(* poll(), then scans _poll_fds from the first entry to the last and       *)
(* serves each entry by what poll reported of it.  The listening sockets   *)
(* come first in _poll_fds; a client is pushed at the end when accepted    *)
(* and erased in the middle of a scan when it is served, hangs up or       *)
(* expires.  What the kernel and the peers do (connect, send, close,       *)
(* reset) is interleaved between any two entries of a scan, so an entry is *)
(* always served by what poll saw, not by what is true when it is served.  *)
(*                                                                         *)
(* A std::map keyed by a descriptor is a total function on Fds with None   *)
(* (0 for _timeout) for an absent key.  The bytes of a request are         *)
(* abstracted to the flags the loop reads of a Request (RequestFlags).     *)
(***************************************************************************)
EXTENDS Integers, FiniteSets, SequencesExt, RequestFlags

CONSTANTS
    ServerFds,   \* the listening descriptors, in the order of _server_sockets
    Fds,         \* the descriptors accept() may return; Conns, of RequestFlags,
                 \* are the connections peers may ever open
    None,        \* an absent map entry
    MaxTimeout,  \* scans a client may wait (1000 in Server.cpp:204)
    MaxText,     \* send() calls a response may need
    Garbage,     \* what the unset revents of a fresh pollfd may hold
    Faulty,      \* listeners poll may report with something else than POLLIN
    ErrorLog     \* listeners whose server block has an error_log directive

Listeners == Range(ServerFds)
Flags     == {"IN", "OUT", "HUP", "ERR"}

ASSUME ServerFdsAssumption ==
    /\ ServerFds \in Seq(Listeners)
    /\ Len(ServerFds) > 0
    /\ \A i, j \in 1..Len(ServerFds) : ServerFds[i] = ServerFds[j] => i = j
ASSUME DescriptorsAssumption ==
    /\ Listeners \cap Fds = {}
    /\ None \notin Listeners \cup Fds \cup Conns
ASSUME LimitsAssumption ==
    /\ MaxTimeout \in Nat \ {0}
    /\ MaxText \in Nat \ {0}
ASSUME EnvironmentAssumption ==
    /\ Garbage \subseteq SUBSET Flags
    /\ Faulty \subseteq Listeners
    /\ ErrorLog \subseteq Listeners

VARIABLES
    \* the kernel and the peers
    link,         \* link[c]: where connection c stands
    peer,         \* peer[c]: what the other end has done
    pending,      \* pending[c]: unread bytes in the socket
    dest,         \* dest[c]: the listener c connected to
    backlog,      \* backlog[l]: connections waiting for accept()
    sock,         \* sock[fd]: the connection an open descriptor stands for
    sent,         \* sent[c]: history of what c was answered with
    \* the members of Server
    pollFds, clientSockets, requests, responses, clientServer, timeout,
    \* the control of launch()
    pos,          \* index of the entry under scan, 0 in poll()
    halt          \* "no", or why the process no longer serves

kernel == <<link, peer, pending, dest, backlog, sock, sent>>
tables == <<pollFds, clientSockets, requests, responses, clientServer, timeout>>
vars   == <<kernel, tables, pos, halt>>

-----------------------------------------------------------------------------
\* A response: the copy of the request it answers, the listener whose
\* configuration it was built with, and the send() calls it may still need.
Response == [req : Request, via : Listeners, left : 1..MaxText]

ASSUME NoneAssumption == None \notin Request \cup Response

Entry == [fd : Listeners \cup Fds, events : SUBSET Flags, revents : SUBSET Flags]

\* send() accepts some bytes; none at all when it fails, or when respond()
\* does not reach it because the request is not done.
Sendable(resp, c) ==
    IF resp.req.done \/ resp.req.bad
    THEN (1..resp.left) \cup (IF peer[c] = "rst" THEN {0} ELSE {})
    ELSE {0}

-----------------------------------------------------------------------------
Init ==
    /\ link = [c \in Conns |-> "idle"]
    /\ peer = [c \in Conns |-> "up"]
    /\ pending = [c \in Conns |-> FALSE]
    /\ dest = [c \in Conns |-> None]
    /\ backlog = [l \in Listeners |-> <<>>]
    /\ sock = [fd \in Fds |-> None]
    /\ sent = [c \in Conns |-> {}]
    /\ pollFds = [i \in 1..Len(ServerFds) |->
                     [fd |-> ServerFds[i], events |-> {"IN"}, revents |-> {}]]
    /\ clientSockets = {}
    /\ requests = [fd \in Fds |-> None]
    /\ responses = [fd \in Fds |-> None]
    /\ clientServer = [fd \in Fds |-> None]
    /\ timeout = [fd \in Fds |-> 0]
    /\ pos = 0
    /\ halt = "no"

-----------------------------------------------------------------------------
\* The environment: peers and the kernel's side of their connections.

EnvUnchanged == UNCHANGED <<sock, sent, tables, pos, halt>>

Connect(c, l) ==
    /\ halt = "no"
    /\ link[c] = "idle"
    /\ link' = [link EXCEPT ![c] = "queued"]
    /\ dest' = [dest EXCEPT ![c] = l]
    /\ backlog' = [backlog EXCEPT ![l] = Append(@, c)]
    /\ UNCHANGED <<peer, pending>>
    /\ EnvUnchanged

\* A queued connection vanishes before accept() takes it.
Abort(c) ==
    /\ halt = "no"
    /\ link[c] = "queued"
    /\ link' = [link EXCEPT ![c] = "gone"]
    /\ \E i \in 1..Len(backlog[dest[c]]) :
          /\ backlog[dest[c]][i] = c
          /\ backlog' = [backlog EXCEPT ![dest[c]] = RemoveAt(@, i)]
    /\ pending' = [pending EXCEPT ![c] = FALSE]
    /\ UNCHANGED <<peer, dest>>
    /\ EnvUnchanged

PeerSends(c) ==
    /\ halt = "no"
    /\ link[c] \in {"queued", "open"}
    /\ peer[c] = "up"
    /\ ~pending[c]
    /\ pending' = [pending EXCEPT ![c] = TRUE]
    /\ UNCHANGED <<link, peer, dest, backlog>>
    /\ EnvUnchanged

PeerCloses(c) ==
    /\ halt = "no"
    /\ link[c] \in {"queued", "open"}
    /\ peer[c] = "up"
    /\ peer' = [peer EXCEPT ![c] = "fin"]
    /\ UNCHANGED <<link, pending, dest, backlog>>
    /\ EnvUnchanged

PeerResets(c) ==
    /\ halt = "no"
    /\ link[c] = "open"
    /\ peer[c] # "rst"
    /\ peer' = [peer EXCEPT ![c] = "rst"]
    /\ pending' = [pending EXCEPT ![c] = FALSE]
    /\ UNCHANGED <<link, dest, backlog>>
    /\ EnvUnchanged

-----------------------------------------------------------------------------
\* poll(): every entry gets the events it asked for and that hold now.

\* What poll reports of a listener and of a client, given the clients whose
\* send buffer is full, those it reports as hung up, and the listeners in error.
ListenerReport(l, faults) ==
    (IF backlog[l] # <<>> THEN {"IN"} ELSE {}) \cup (IF l \in faults THEN {"ERR"} ELSE {})

ClientReport(e, full, hups) ==
    LET c == sock[e.fd]
    IN  (e.events \cap (IF pending[c] \/ peer[c] # "up" THEN {"IN"} ELSE {}))
        \cup (e.events \cap (IF e.fd \notin full THEN {"OUT"} ELSE {}))
        \cup (IF e.fd \in hups THEN {"HUP"} ELSE {})

Poll ==
    /\ halt = "no"
    /\ pos = 0
    /\ \E full \in SUBSET clientSockets, faults \in SUBSET Faulty,
          hups \in SUBSET {fd \in clientSockets : peer[sock[fd]] # "up"} :
          pollFds' = [i \in 1..Len(pollFds) |->
              [pollFds[i] EXCEPT !.revents =
                  IF pollFds[i].fd \in Listeners
                  THEN ListenerReport(pollFds[i].fd, faults)
                  ELSE ClientReport(pollFds[i], full, hups)]]
    /\ pos' = 1
    /\ UNCHANGED <<kernel, clientSockets, requests, responses, clientServer, timeout, halt>>

\* The process stops serving; nothing else matters from here.
Halt(why) ==
    /\ halt' = why
    /\ UNCHANGED <<kernel, tables, pos>>

PollFails ==
    /\ halt = "no"
    /\ pos = 0
    /\ Halt("poll")

-----------------------------------------------------------------------------
\* The scan.  Advance: the loop's i++ and its bound, re-read at every turn.

\* Mutant: the bound is one too low.
AdvanceShort(entries) == IF pos + 1 < Len(entries) THEN pos + 1 ELSE 0

Advance(entries) == IF pos + 1 <= Len(entries) THEN pos + 1 ELSE 0

Scanning(fd) ==
    /\ halt = "no"
    /\ pos # 0
    /\ pollFds[pos].fd = fd

Reported == pollFds[pos].revents

\* Mutant: the count is compared before it is incremented.
ExpiredLate(fd) == timeout[fd] > MaxTimeout

Expired(fd) == timeout[fd] + 1 > MaxTimeout

\* ++_timeout[fd], which creates the entry of a client that has none.
Tick(fd) == timeout' = [timeout EXCEPT ![fd] = @ + 1]

\* Mutants of remove_client, which leave some of its work undone.
RemoveClientBut(fd, undone) ==
    /\ clientServer' = [clientServer EXCEPT ![fd] = None]
    /\ requests' = IF "requests" \in undone THEN requests ELSE [requests EXCEPT ![fd] = None]
    /\ responses' = [responses EXCEPT ![fd] = None]
    /\ clientSockets' = clientSockets \ {fd}
    /\ timeout' = IF "timeout" \in undone THEN timeout ELSE [timeout EXCEPT ![fd] = 0]
    /\ IF "close" \in undone THEN UNCHANGED <<link, sock>>
       ELSE /\ link' = [link EXCEPT ![sock[fd]] = "gone"]
            /\ sock' = [sock EXCEPT ![fd] = None]
    /\ pollFds' = RemoveAt(pollFds, pos)
    /\ pos' = IF "scan" \in undone THEN 1 ELSE Advance(pollFds')
    /\ UNCHANGED <<peer, pending, dest, backlog, halt>>
RemoveClientKeepsCount(fd)   == RemoveClientBut(fd, {"timeout"})
RemoveClientKeepsRequest(fd) == RemoveClientBut(fd, {"requests"})
RemoveClientKeepsSocket(fd)  == RemoveClientBut(fd, {"close"})
RemoveClientRescans(fd)      == RemoveClientBut(fd, {"scan"})

\* remove_client: every table, the descriptor, and the entry under scan, whose
\* successor slides into its place and is skipped by i++.
RemoveClient(fd) ==
    /\ clientServer' = [clientServer EXCEPT ![fd] = None]
    /\ requests' = [requests EXCEPT ![fd] = None]
    /\ responses' = [responses EXCEPT ![fd] = None]
    /\ clientSockets' = clientSockets \ {fd}
    /\ timeout' = [timeout EXCEPT ![fd] = 0]
    /\ link' = [link EXCEPT ![sock[fd]] = "gone"]
    /\ sock' = [sock EXCEPT ![fd] = None]
    /\ pollFds' = RemoveAt(pollFds, pos)
    /\ pos' = Advance(pollFds')
    /\ UNCHANGED <<peer, pending, dest, backlog, halt>>

TimeoutClient(fd) ==
    /\ Scanning(fd)
    /\ Expired(fd)
    /\ RemoveClient(fd)
    /\ UNCHANGED sent

\* Nothing reported, or nothing launch() has a branch for.
SkipClient(fd) ==
    /\ Scanning(fd)
    /\ ~Expired(fd)
    /\ Reported \cap {"HUP", "IN", "OUT"} = {}
    /\ Tick(fd)
    /\ pos' = Advance(pollFds)
    /\ UNCHANGED <<kernel, pollFds, clientSockets, requests, responses, clientServer, halt>>

SkipListener(l) ==
    /\ Scanning(l)
    /\ Reported = {}
    /\ pos' = Advance(pollFds)
    /\ UNCHANGED <<kernel, tables, halt>>

\* "Server no longer on POLLIN": the rest of the scan is abandoned.
ListenerFault(l) ==
    /\ Scanning(l)
    /\ Reported \notin {{}, {"IN"}}
    /\ pos' = 0
    /\ UNCHANGED <<kernel, tables, halt>>

\* acceptor(): the fresh entry's revents is never set, and the same scan will
\* reach it.
Accept(l, fd) ==
    /\ Scanning(l)
    /\ Reported = {"IN"}
    /\ backlog[l] # <<>>
    /\ sock[fd] = None
    /\ l \in ErrorLog
    /\ LET c == Head(backlog[l])
       IN  /\ link' = [link EXCEPT ![c] = "open"]
           /\ sock' = [sock EXCEPT ![fd] = c]
    /\ backlog' = [backlog EXCEPT ![l] = Tail(@)]
    /\ clientSockets' = clientSockets \cup {fd}
    /\ clientServer' = [clientServer EXCEPT ![fd] = IF @ = None THEN l ELSE @]
    /\ \E noise \in Garbage :
          pollFds' = Append(pollFds, [fd |-> fd, events |-> {"IN"}, revents |-> noise])
    /\ pos' = Advance(pollFds')
    /\ UNCHANGED <<peer, pending, dest, sent, requests, responses, timeout, halt>>

\* accept() fails: the queue has emptied since poll, or no descriptor is left.
AcceptFails(l) ==
    /\ Scanning(l)
    /\ Reported = {"IN"}
    /\ backlog[l] = <<>> \/ \A fd \in Fds : sock[fd] # None
    /\ pos' = Advance(pollFds)
    /\ UNCHANGED <<kernel, tables, halt>>

\* Logging the accept reads the server block's error_log and throws without one.
AcceptThrows(l) ==
    /\ Scanning(l)
    /\ Reported = {"IN"}
    /\ backlog[l] # <<>>
    /\ \E fd \in Fds : sock[fd] = None
    /\ l \notin ErrorLog
    /\ Halt("exception")

HangUp(fd) ==
    /\ Scanning(fd)
    /\ ~Expired(fd)
    /\ "HUP" \in Reported
    /\ RemoveClient(fd)
    /\ UNCHANGED sent

\* The POLLIN branch is taken.
Receiving(fd) ==
    /\ Scanning(fd)
    /\ ~Expired(fd)
    /\ "HUP" \notin Reported
    /\ "IN" \in Reported

\* recv() returns 0.
RecvEof(fd) ==
    /\ Receiving(fd)
    /\ ~pending[sock[fd]]
    /\ peer[sock[fd]] # "up"
    /\ RemoveClient(fd)
    /\ UNCHANGED sent

\* recv() returns -1 (reset, or nothing to read): append(buffer, -1) throws.
RecvFails(fd) ==
    /\ Receiving(fd)
    /\ ~pending[sock[fd]]
    /\ peer[sock[fd]] # "fin"
    /\ Halt("exception")

\* The request at fd that the bytes of c belong to, a new one if there is none.
Current(fd, c) == IF requests[fd] = None THEN Fresh(c) ELSE requests[fd]

\* What receiver() makes of the bytes it got from c.
Parsed(fd, c) ==
    IF Current(fd, c).hdr THEN AddBody(Current(fd, c)) ELSE ReadHeader(Current(fd, c))

\* Mutant: every buffer restarts the count.
RestartAlways(fd) == 0

\* The count of scans after a buffer: a new request restarts it.
Restart(fd) == IF requests[fd] = None THEN 0 ELSE timeout[fd] + 1

\* Mutant: the entry is turned at the end of the header, before the body.
RequeueAtHeader(r) == IF r.hdr THEN [pollFds EXCEPT ![pos].events = {"OUT"}] ELSE pollFds

\* A complete request turns the entry to POLLOUT.
Requeue(r) == IF Received(r) THEN [pollFds EXCEPT ![pos].events = {"OUT"}] ELSE pollFds

RecvData(fd) ==
    /\ Receiving(fd)
    /\ pending[sock[fd]]
    /\ \E more \in BOOLEAN : pending' = [pending EXCEPT ![sock[fd]] = more]
    /\ timeout' = [timeout EXCEPT ![fd] = Restart(fd)]
    /\ \E r \in Parsed(fd, sock[fd]) :
          /\ requests' = [requests EXCEPT ![fd] = r]
          /\ pollFds' = Requeue(r)
    /\ pos' = Advance(pollFds)
    /\ UNCHANGED <<link, peer, dest, backlog, sock, sent,
                   clientSockets, responses, clientServer, halt>>

\* A header may not parse at all: no "/" in the request line, a Content-Length
\* that is empty or out of range.
RecvThrows(fd) ==
    /\ Receiving(fd)
    /\ pending[sock[fd]]
    /\ ~Current(fd, sock[fd]).hdr
    /\ Halt("exception")

\* The POLLOUT branch is taken.
Responding(fd) ==
    /\ Scanning(fd)
    /\ ~Expired(fd)
    /\ Reported \cap {"HUP", "IN", "OUT"} = {"OUT"}

\* _requests.find(fd)->second with no request: past the end of the map.
RespondBlind(fd) ==
    /\ Responding(fd)
    /\ requests[fd] = None
    /\ Halt("undefined")

\* Building the response throws (a directive the configuration lacks) or never
\* returns (a CGI script that waits on its parent, which waits on it).
RespondStops(fd) ==
    /\ Responding(fd)
    /\ requests[fd] # None
    /\ responses[fd] = None
    /\ \E why \in {"exception", "hung"} : Halt(why)

\* Writing to a connection the peer has reset raises SIGPIPE.
RespondKilled(fd) ==
    /\ Responding(fd)
    /\ requests[fd] # None
    /\ peer[sock[fd]] = "rst"
    /\ Halt("signal")

\* The response at fd, built on the first POLLOUT from the request and the
\* configuration of the listener the client came through.
ResponseFor(fd) ==
    IF responses[fd] = None
    THEN [req |-> requests[fd], via |-> clientServer[fd], left |-> MaxText]
    ELSE responses[fd]

\* Some bytes of the response leave for the connection behind fd.
Deliver(fd, resp) ==
    sent' = [sent EXCEPT ![sock[fd]] = @ \cup {<<resp.req.src, resp.via>>}]

RespondPart(fd) ==
    /\ Responding(fd)
    /\ requests[fd] # None
    /\ LET resp == ResponseFor(fd)
       IN  \E n \in Sendable(resp, sock[fd]) :
              /\ n < resp.left
              /\ responses' = [responses EXCEPT ![fd] = [resp EXCEPT !.left = @ - n]]
              /\ IF n = 0 THEN UNCHANGED sent ELSE Deliver(fd, resp)
    /\ Tick(fd)
    /\ pos' = Advance(pollFds)
    /\ UNCHANGED <<link, peer, pending, dest, backlog, sock,
                   pollFds, clientSockets, requests, clientServer, halt>>

RespondAll(fd) ==
    /\ Responding(fd)
    /\ requests[fd] # None
    /\ LET resp == ResponseFor(fd)
       IN  /\ resp.left \in Sendable(resp, sock[fd])
           /\ Deliver(fd, resp)
    /\ RemoveClient(fd)

-----------------------------------------------------------------------------
ServeListener(l) ==
    \/ SkipListener(l)
    \/ ListenerFault(l)
    \/ \E fd \in Fds : Accept(l, fd)
    \/ AcceptFails(l)
    \/ AcceptThrows(l)

ServeClient(fd) ==
    \/ TimeoutClient(fd)
    \/ SkipClient(fd)
    \/ HangUp(fd)
    \/ RecvEof(fd)
    \/ RecvFails(fd)
    \/ RecvData(fd)
    \/ RecvThrows(fd)
    \/ RespondBlind(fd)
    \/ RespondStops(fd)
    \/ RespondKilled(fd)
    \/ RespondPart(fd)
    \/ RespondAll(fd)

Loop ==
    \/ Poll
    \/ PollFails
    \/ \E l \in Listeners : ServeListener(l)
    \/ \E fd \in Fds : ServeClient(fd)

Environment ==
    \E c \in Conns :
        \/ \E l \in Listeners : Connect(c, l)
        \/ Abort(c)
        \/ PeerSends(c)
        \/ PeerCloses(c)
        \/ PeerResets(c)

Next == Loop \/ Environment

Spec == Init /\ [][Next]_vars

-----------------------------------------------------------------------------
\* Properties.

First == Len(ServerFds)   \* clients come after the entries 1..First

ClientEntries == {i \in 1..Len(pollFds) : i > First}

Polled(fd) == \E i \in ClientEntries : pollFds[i].fd = fd

\* Type invariant: the shape of the kernel's state, the maps and the loop.
TypeOK ==
    /\ link \in [Conns -> {"idle", "queued", "open", "gone"}]
    /\ peer \in [Conns -> {"up", "fin", "rst"}]
    /\ pending \in [Conns -> BOOLEAN]
    /\ dest \in [Conns -> Listeners \cup {None}]
    /\ backlog \in [Listeners -> Seq(Conns)]
    /\ sock \in [Fds -> Conns \cup {None}]
    /\ sent \in [Conns -> SUBSET (Conns \X Listeners)]
    /\ pollFds \in Seq(Entry)
    /\ clientSockets \in SUBSET Fds
    /\ requests \in [Fds -> Request \cup {None}]
    /\ responses \in [Fds -> Response \cup {None}]
    /\ clientServer \in [Fds -> Listeners \cup {None}]
    /\ timeout \in [Fds -> 0..MaxTimeout]
    /\ pos \in 0..Len(pollFds)
    /\ halt \in {"no", "poll", "exception", "signal", "undefined", "hung"}

\* The listeners keep the head of _poll_fds, in order, whatever is erased.
ListenersLead ==
    /\ Len(pollFds) >= First
    /\ \A i \in 1..First : pollFds[i].fd = ServerFds[i]

\* No client is polled twice, and no listener behind the head.
OneEntryEach ==
    /\ \A i \in ClientEntries : pollFds[i].fd \in Fds
    /\ \A i, j \in ClientEntries : pollFds[i].fd = pollFds[j].fd => i = j

\* A descriptor is open exactly when it is polled, listed in _client_sockets
\* and paired with a listener.
TablesAgree ==
    \A fd \in Fds :
        /\ sock[fd] # None <=> Polled(fd)
        /\ sock[fd] # None <=> fd \in clientSockets
        /\ sock[fd] # None <=> clientServer[fd] # None

\* A closed descriptor leaves no request, response or count behind for the
\* connection that will be given its number next.
ClosedIsCleared ==
    \A fd \in Fds : sock[fd] = None =>
        /\ requests[fd] = None
        /\ responses[fd] = None
        /\ timeout[fd] = 0

\* The maps of Server, _poll_fds and the kernel agree between any two steps
\* of a scan, across erasures in its middle and the reuse of descriptors.
Tables == ListenersLead /\ OneEntryEach /\ TablesAgree /\ ClosedIsCleared

\* A client is polled for POLLOUT exactly when receiver() has found its
\* request complete, and only then may it have a response.
WriteReady ==
    \A i \in ClientEntries :
        LET fd == pollFds[i].fd
            ready == requests[fd] # None /\ Received(requests[fd])
        IN  /\ pollFds[i].events = IF ready THEN {"OUT"} ELSE {"IN"}
            /\ responses[fd] # None => ready /\ responses[fd].req = requests[fd]

\* A connection is only ever answered from its own bytes, with the
\* configuration of the listener it connected to, whichever descriptors were
\* reused in between (_requests, _responses and _client_server_pair are keyed
\* by descriptor).
OwnTraffic ==
    /\ \A c \in Conns : sent[c] \subseteq {<<c, dest[c]>>}
    /\ \A fd \in Fds : sock[fd] # None => clientServer[fd] = dest[sock[fd]]
    /\ \A fd \in Fds : requests[fd] # None => requests[fd].src = sock[fd]

\* What poll() reported readable stays so until the scan comes to it, whatever
\* the scan has served and the peers have done in between: recv() never finds
\* nothing there, so an exception out of it (Server.cpp:119) needs a reset by
\* the peer, or a fresh entry whose unset revents reads POLLIN.
ReadableIsRead ==
    (\A noise \in Garbage : "IN" \notin noise) =>
        \A fd \in Fds : Receiving(fd) => pending[sock[fd]] \/ peer[sock[fd]] # "up"

\* The comment of launch() (Server.cpp:175-180): a client is written to once
\* its request is finished and it was put back as POLLOUT.
FinishedBeforeWrite ==
    \A i \in ClientEntries : "OUT" \in pollFds[i].revents =>
        /\ requests[pollFds[i].fd] # None
        /\ Received(requests[pollFds[i].fd])

\* The scan has come to a listener in error and is about to be abandoned.
Faulted ==
    /\ pos # 0
    /\ pollFds[pos].fd \in Listeners
    /\ Reported \notin {{}, {"IN"}}

\* No accepted client holds its descriptor for ever, however slowly its peer
\* sends or reads: it is answered, hangs up or is expired, unless a listener
\* stays in error (Server.cpp:229-233: what is behind it is not served then).
ClientsLeave ==
    <>[]~Faulted =>
        \A c \in Conns : link[c] = "open" ~> link[c] = "gone" \/ halt # "no"

\* Every connection in an accept queue is taken from it: the descriptors the
\* clients hold come back (under the same condition).
QueueDrains ==
    <>[]~Faulted =>
        \A c \in Conns : link[c] = "queued" ~> link[c] # "queued" \/ halt # "no"

-----------------------------------------------------------------------------
\* The abstract service this loop implements, one phase per connection.

\* The entry of connection c asks for POLLOUT.
Turned(c) == \E i \in ClientEntries : /\ sock[pollFds[i].fd] = c
                                     /\ pollFds[i].events = {"OUT"}

Phase(c) ==
    CASE link[c] # "open" -> link[c]
      [] link[c] = "open" /\ Turned(c) -> "writing"
      [] link[c] = "open" /\ ~Turned(c) -> "reading"

Service == INSTANCE ConnectionService
    WITH phase <- [c \in Conns |-> Phase(c)],
         answered <- [c \in Conns |-> sent[c] # {}],
         up <- halt = "no"

\* The loop implements the life cycle of ConnectionService.
Implements == Service!Spec

=============================================================================
