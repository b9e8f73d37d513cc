---------------------------- MODULE ServerProofs ----------------------------
(***************************************************************************)
(* Proofs about Server and TimedServer, for every number of listeners,     *)
(* descriptors and connections, every bound, and whatever an unset revents *)
(* may hold: whose bytes are answered, when a client may be written to and *)
(* read from, that the poll loop implements ConnectionService, and how     *)
(* long a client may stay.                                                 *)
(***************************************************************************)
EXTENDS TimedServer, SequenceTheorems, TLAPS

-----------------------------------------------------------------------------
\* vector::erase at position i: one entry fewer, those behind it moved up.
LEMMA RemoveAtProperties ==
    ASSUME NEW S, NEW s \in Seq(S), NEW i \in 1..Len(s)
    PROVE  /\ RemoveAt(s, i) \in Seq(S)
           /\ Len(RemoveAt(s, i)) = Len(s) - 1
           /\ \A j \in 1..Len(s) - 1 :
                 RemoveAt(s, i)[j] = IF j < i THEN s[j] ELSE s[j + 1]
<1> DEFINE front == SubSeq(s, 1, i - 1)
           back  == SubSeq(s, i + 1, Len(s))
<1>0. Len(s) \in Nat /\ i \in Nat
    BY LenProperties
<1>1. /\ front \in Seq(S)
      /\ Len(front) = i - 1
      /\ \A j \in 1..i - 1 : front[j] = s[j]
  <2>1. \A j \in 1..i - 1 : s[j] \in S
    BY <1>0, ElementOfSeq
  <2>2. QED
    BY <1>0, <2>1, SubSeqProperties
<1>2. /\ back \in Seq(S)
      /\ Len(back) = Len(s) - i
      /\ \A j \in 1..Len(s) - i : back[j] = s[i + j]
  <2>1. \A j \in i + 1..Len(s) : s[j] \in S
    BY <1>0, ElementOfSeq
  <2>2. QED
    BY <1>0, <2>1, SubSeqProperties
<1>3. RemoveAt(s, i) = front \o back
    BY DEF RemoveAt
<1> HIDE DEF front, back
<1>4. /\ front \o back \in Seq(S)
      /\ Len(front \o back) = Len(front) + Len(back)
      /\ \A j \in 1..Len(front) + Len(back) :
            (front \o back)[j] = IF j <= Len(front) THEN front[j] ELSE back[j - Len(front)]
    BY <1>1, <1>2, ConcatProperties
<1>5. QED
    BY <1>0, <1>1, <1>2, <1>3, <1>4

\* Removing an entry of a sequence without repetitions: the others remain,
\* it does not, and still nothing is repeated.
LEMMA RemoveFromDistinct ==
    ASSUME NEW S, NEW s \in Seq(S), NEW k \in 1..Len(s),
           \A i, j \in 1..Len(s) : s[i] = s[j] => i = j
    PROVE  LET t == RemoveAt(s, k)
           IN  /\ \A i \in 1..Len(t) : t[i] # s[k] /\ \E j \in 1..Len(s) : t[i] = s[j]
               /\ \A i, j \in 1..Len(t) : t[i] = t[j] => i = j
<1> DEFINE t == RemoveAt(s, k)
           Old(i) == IF i < k THEN i ELSE i + 1
<1>1. /\ Len(t) = Len(s) - 1
      /\ \A i \in 1..Len(s) - 1 : t[i] = IF i < k THEN s[i] ELSE s[i + 1]
    BY RemoveAtProperties
<1>2. Len(s) \in Nat /\ k \in Nat
    BY LenProperties
<1> HIDE DEF t
<1>3. ASSUME NEW i \in 1..Len(t)
      PROVE  /\ Old(i) \in 1..Len(s)
             /\ Old(i) # k
             /\ t[i] = s[Old(i)]
  <2>1. i \in 1..Len(s) - 1
      BY <1>1
  <2>2. QED
      BY <1>1, <1>2, <2>1
<1>4. \A i, j \in 1..Len(t) : Old(i) = Old(j) => i = j
  <2> SUFFICES ASSUME NEW i \in 1..Len(t), NEW j \in 1..Len(t), Old(i) = Old(j)
               PROVE  i = j
      OBVIOUS
  <2>1. i \in Nat /\ j \in Nat
      BY <1>1, <1>2
  <2>2. QED
      BY <1>2, <2>1
<1> HIDE DEF Old
<1>5. \A i \in 1..Len(t) : t[i] # s[k] /\ \E j \in 1..Len(s) : t[i] = s[j]
    BY <1>3
<1>6. \A i, j \in 1..Len(t) : t[i] = t[j] => i = j
    BY <1>3, <1>4
<1>7. QED
    BY <1>5, <1>6 DEF t

-----------------------------------------------------------------------------
\* What the proofs need of the constants.
LEMMA ListenersFact ==
    /\ First \in Nat \ {0}
    /\ \A i \in 1..First : ServerFds[i] \in Listeners /\ ServerFds[i] \notin Fds
<1>1. Len(ServerFds) \in Nat
    BY ServerFdsAssumption, LenProperties
<1>2. \A i \in 1..Len(ServerFds) : ServerFds[i] \in Listeners
    BY ServerFdsAssumption, ElementOfSeq
<1>3. QED
    BY <1>1, <1>2, ServerFdsAssumption, DescriptorsAssumption DEF First

\* The scan never points past the entries, whatever was pushed or erased.
LEMMA AdvanceInRange ==
    ASSUME NEW entries \in Seq(Entry), pos \in Nat
    PROVE  Advance(entries) \in 0..Len(entries)
BY LenProperties DEF Advance

\* A client's entry under scan lies behind the listeners and is an open one.
LEMMA ScannedIsOpen ==
    ASSUME TypeOK, Tables, NEW fd \in Fds, Scanning(fd)
    PROVE  /\ pos \in 1..Len(pollFds)
           /\ pos \in ClientEntries
           /\ sock[fd] \in Conns
           /\ fd \in clientSockets
           /\ clientServer[fd] \in Listeners
<1>1. /\ Len(pollFds) \in Nat
      /\ pos \in 1..Len(pollFds)
      /\ pollFds[pos].fd = fd
    BY LenProperties DEF TypeOK, Scanning
<1>2. pos \in ClientEntries
    BY <1>1, ListenersFact DEF ClientEntries, Tables, ListenersLead
<1>3. sock[fd] # None
    BY <1>1, <1>2 DEF Polled, Tables, TablesAgree
<1>4. QED
    BY <1>1, <1>2, <1>3 DEF TypeOK, Tables, TablesAgree

-----------------------------------------------------------------------------
\* Tables survives a step that keeps the descriptors of the entries, the open
\* ones, and what belongs to the closed ones.
LEMMA TablesKept ==
    ASSUME Tables,
           Len(pollFds') = Len(pollFds),
           \A i \in 1..Len(pollFds) : pollFds'[i].fd = pollFds[i].fd,
           UNCHANGED <<sock, clientSockets, clientServer>>,
           \A fd \in Fds : sock[fd] = None =>
               /\ requests'[fd] = requests[fd]
               /\ responses'[fd] = responses[fd]
               /\ timeout'[fd] = timeout[fd],
           Len(pollFds) \in Nat
    PROVE  Tables'
<1>1. ClientEntries' = ClientEntries
    BY DEF ClientEntries, First
<1>2. ListenersLead'
    BY ListenersFact DEF Tables, ListenersLead, First
<1>3. \A i \in ClientEntries : pollFds'[i].fd = pollFds[i].fd
    BY DEF ClientEntries
<1>4. OneEntryEach'
    BY <1>1, <1>3 DEF Tables, OneEntryEach
<1>5. \A fd \in Fds : Polled(fd)' <=> Polled(fd)
    BY <1>1, <1>3 DEF Polled
<1>6. TablesAgree'
    BY <1>5 DEF Tables, TablesAgree
<1>7. ClosedIsCleared'
    BY DEF Tables, ClosedIsCleared
<1>8. QED
    BY <1>2, <1>4, <1>6, <1>7 DEF Tables

\* remove_client keeps it: one client leaves every table at once, and the
\* entries that move up are all clients.
LEMMA TablesRemove ==
    ASSUME TypeOK, Tables, NEW fd \in Fds, Scanning(fd), RemoveClient(fd)
    PROVE  /\ pollFds' \in Seq(Entry)
           /\ pos' \in 0..Len(pollFds')
           /\ Tables'
<1>0. /\ pos \in 1..Len(pollFds)
      /\ pos \in ClientEntries
      /\ pollFds \in Seq(Entry)
      /\ Len(pollFds) \in Nat
      /\ First \in Nat
    BY ScannedIsOpen, LenProperties, ListenersFact DEF TypeOK
<1>1. /\ pollFds' \in Seq(Entry)
      /\ Len(pollFds') = Len(pollFds) - 1
      /\ \A j \in 1..Len(pollFds) - 1 :
            pollFds'[j] = IF j < pos THEN pollFds[j] ELSE pollFds[j + 1]
    BY <1>0, RemoveAtProperties DEF RemoveClient
<1>2. pos' \in 0..Len(pollFds')
    BY <1>0, <1>1, AdvanceInRange DEF RemoveClient
<1>3. pollFds[pos].fd = fd
    BY DEF Scanning
<1>4. pos > First
    BY <1>0 DEF ClientEntries
<1>5. ListenersLead'
    BY <1>0, <1>1, <1>4 DEF Tables, ListenersLead, First
<1> DEFINE Old(j) == IF j < pos THEN j ELSE j + 1
<1>6. ASSUME NEW j \in ClientEntries'
      PROVE  /\ Old(j) \in ClientEntries
             /\ Old(j) # pos
             /\ pollFds'[j].fd = pollFds[Old(j)].fd
  <2>1. j \in 1..Len(pollFds) - 1 /\ j > First /\ pos \in Nat
      BY <1>0, <1>1 DEF ClientEntries, First
  <2>2. Old(j) \in 1..Len(pollFds) /\ Old(j) > First /\ Old(j) # pos
      BY <1>0, <1>4, <2>1
  <2>3. QED
      BY <1>1, <2>1, <2>2 DEF ClientEntries
<1>7. OneEntryEach'
  <2>1. \A j \in ClientEntries' : pollFds'[j].fd \in Fds
      BY <1>6 DEF Tables, OneEntryEach
  <2>2. ASSUME NEW i \in ClientEntries', NEW j \in ClientEntries',
               pollFds'[i].fd = pollFds'[j].fd
        PROVE  i = j
    <3>1. i \in Nat /\ j \in Nat /\ pos \in Nat
        BY <1>0, <1>1 DEF ClientEntries
    <3>2. Old(i) = Old(j)
        BY <1>6, <2>2 DEF Tables, OneEntryEach
    <3>3. QED
        BY <3>1, <3>2
  <2>3. QED
      BY <2>1, <2>2 DEF OneEntryEach
<1>8. ASSUME NEW g \in Fds
      PROVE  Polled(g)' <=> Polled(g) /\ g # fd
  <2>1. ASSUME Polled(g)'
        PROVE  Polled(g) /\ g # fd
    <3>1. PICK j \in ClientEntries' : pollFds'[j].fd = g
        BY <2>1 DEF Polled
    <3>2. Old(j) \in ClientEntries /\ Old(j) # pos /\ pollFds[Old(j)].fd = g
        BY <1>6, <3>1
    <3>3. QED
        BY <1>0, <1>3, <3>2 DEF Polled, Tables, OneEntryEach
  <2>2. ASSUME Polled(g), g # fd
        PROVE  Polled(g)'
    <3>1. PICK i \in ClientEntries : pollFds[i].fd = g
        BY <2>2 DEF Polled
    <3>2. i # pos
        BY <1>3, <2>2, <3>1
    <3>3. CASE i < pos
      <4>1. i \in ClientEntries' /\ pollFds'[i].fd = g
          BY <1>0, <1>1, <3>1, <3>3 DEF ClientEntries, First
      <4>2. QED
          BY <4>1 DEF Polled
    <3>4. CASE i > pos
      <4>1. i - 1 \in ClientEntries' /\ pollFds'[i - 1].fd = g
          BY <1>0, <1>1, <1>4, <3>1, <3>4 DEF ClientEntries, First
      <4>2. QED
          BY <4>1 DEF Polled
    <3>5. i \in Nat /\ pos \in Nat
        BY <1>0 DEF ClientEntries
    <3>6. QED
        BY <3>2, <3>3, <3>4, <3>5
  <2>3. QED
      BY <2>1, <2>2
<1>9. \A g \in Fds :
         /\ sock'[g] = IF g = fd THEN None ELSE sock[g]
         /\ clientServer'[g] = IF g = fd THEN None ELSE clientServer[g]
         /\ requests'[g] = IF g = fd THEN None ELSE requests[g]
         /\ responses'[g] = IF g = fd THEN None ELSE responses[g]
         /\ timeout'[g] = IF g = fd THEN 0 ELSE timeout[g]
         /\ g \in clientSockets' <=> g \in clientSockets /\ g # fd
    BY DEF RemoveClient, TypeOK
<1>10. TablesAgree'
    BY <1>8, <1>9 DEF Tables, TablesAgree
<1>11. ClosedIsCleared'
    BY <1>9 DEF Tables, ClosedIsCleared
<1>12. QED
    BY <1>1, <1>2, <1>5, <1>7, <1>10, <1>11 DEF Tables

\* acceptor() keeps it: the new entry is the last, for a descriptor that no
\* entry has, with a key in the maps it is pushed to and in no other.
LEMMA TablesAccept ==
    ASSUME TypeOK, Tables, NEW l \in Listeners, NEW fd \in Fds, Accept(l, fd)
    PROVE  /\ pollFds' \in Seq(Entry)
           /\ pos' \in 0..Len(pollFds')
           /\ sock'[fd] \in Conns
           /\ Tables'
<1>0. /\ pollFds \in Seq(Entry)
      /\ Len(pollFds) \in Nat
      /\ First \in Nat
      /\ pos \in Nat
    BY LenProperties, ListenersFact DEF TypeOK
<1>1. /\ pollFds' \in Seq(Entry)
      /\ Len(pollFds') = Len(pollFds) + 1
      /\ \A i \in 1..Len(pollFds) : pollFds'[i] = pollFds[i]
      /\ pollFds'[Len(pollFds) + 1].fd = fd
  <2>1. PICK noise \in Garbage :
           pollFds' = Append(pollFds, [fd |-> fd, events |-> {"IN"}, revents |-> noise])
      BY DEF Accept
  <2>2. [fd |-> fd, events |-> {"IN"}, revents |-> noise] \in Entry
      BY EnvironmentAssumption DEF Entry, Flags
  <2>3. QED
      BY <1>0, <2>1, <2>2, AppendProperties
<1>2. pos' \in 0..Len(pollFds')
    BY <1>0, <1>1, AdvanceInRange DEF Accept
<1>3. Head(backlog[l]) \in Conns
  <2>1. backlog[l] \in Seq(Conns) /\ backlog[l] # <<>>
      BY DEF TypeOK, Accept
  <2>2. QED
      BY <2>1, HeadTailProperties
<1>4. /\ sock[fd] = None
      /\ \A g \in Fds :
            /\ sock'[g] = IF g = fd THEN Head(backlog[l]) ELSE sock[g]
            /\ clientServer'[g] = IF g = fd THEN l ELSE clientServer[g]
            /\ g \in clientSockets' <=> g \in clientSockets \/ g = fd
      /\ UNCHANGED <<requests, responses, timeout>>
    BY DEF Accept, TypeOK, Tables, TablesAgree
<1>5. ListenersLead'
    BY <1>0, <1>1 DEF Tables, ListenersLead, First
<1>6. ~Polled(fd)
    BY <1>4 DEF Tables, TablesAgree
<1>7. /\ \A i \in ClientEntries' : i \in ClientEntries \/ i = Len(pollFds) + 1
      /\ \A i \in ClientEntries : i \in ClientEntries' /\ pollFds'[i].fd = pollFds[i].fd
      /\ Len(pollFds) + 1 \in ClientEntries'
      /\ pollFds'[Len(pollFds) + 1].fd = fd
  <2>1. Len(pollFds) >= First
      BY DEF Tables, ListenersLead
  <2>2. /\ ClientEntries' = {i \in 1..Len(pollFds) + 1 : i > First}
        /\ ClientEntries = {i \in 1..Len(pollFds) : i > First}
      BY <1>1 DEF ClientEntries, First
  <2>3. QED
      BY <1>0, <1>1, <2>1, <2>2
<1>8. OneEntryEach'
  <2>1. \A i \in ClientEntries' : pollFds'[i].fd \in Fds
      BY <1>7 DEF Tables, OneEntryEach
  <2>2. ASSUME NEW i \in ClientEntries', NEW j \in ClientEntries',
               pollFds'[i].fd = pollFds'[j].fd
        PROVE  i = j
    <3>1. CASE pollFds'[i].fd = fd
      <4>1. \A k \in ClientEntries : pollFds[k].fd # fd
          BY <1>6 DEF Polled
      <4>2. \A k \in ClientEntries' : pollFds'[k].fd = fd => k = Len(pollFds) + 1
          BY <1>7, <4>1
      <4>3. QED
          BY <2>2, <3>1, <4>2
    <3>2. CASE pollFds'[i].fd # fd
        BY <1>7, <2>2, <3>2 DEF Tables, OneEntryEach
    <3>3. QED
        BY <3>1, <3>2
  <2>3. QED
      BY <2>1, <2>2 DEF OneEntryEach
<1>9. \A g \in Fds : Polled(g)' <=> Polled(g) \/ g = fd
    BY <1>1, <1>7 DEF Polled
<1>10. TablesAgree'
    BY <1>3, <1>4, <1>9, DescriptorsAssumption DEF Tables, TablesAgree
<1>11. ClosedIsCleared'
    BY <1>3, <1>4, DescriptorsAssumption DEF Tables, ClosedIsCleared
<1>12. QED
    BY <1>1, <1>2, <1>3, <1>4, <1>5, <1>8, <1>10, <1>11 DEF Tables

-----------------------------------------------------------------------------
\* The requests and responses a step makes have their types.
LEMMA ParsedType ==
    ASSUME NEW r \in Request, NEW q \in ReadHeader(r) \cup AddBody(r)
    PROVE  q \in Request
<1>1. CASE q \in AddBody(r)
    BY <1>1 DEF AddBody, Request
<1>2. CASE q \in ReadHeader(r)
  <2>1. MethodsOf(r) \subseteq Methods \cup {"NONE"}
      BY DEF Request, MethodsOf
  <2>2. \A t \in Methods \cup {"NONE"} :
           /\ FoundType(r, t) \in Request
           /\ EndHeader(r, t, TRUE) \in Request
           /\ EndHeader(r, t, FALSE) \in Request
      BY DEF Request, FoundType, EndHeader
  <2>3. [r EXCEPT !.bad = TRUE] \in Request
      BY DEF Request
  <2>4. QED
      BY <1>2, <2>1, <2>2, <2>3 DEF ReadHeader
<1>3. QED
    BY <1>1, <1>2

LEMMA FreshType ==
    ASSUME NEW c \in Conns
    PROVE  Fresh(c) \in Request
BY DEF Fresh, Request

LEMMA ResponseForType ==
    ASSUME TypeOK, NEW fd \in Fds, requests[fd] # None, clientServer[fd] \in Listeners
    PROVE  ResponseFor(fd) \in Response
BY LimitsAssumption DEF TypeOK, ResponseFor, Response

-----------------------------------------------------------------------------
Ind == TypeOK /\ Tables

LEMMA InitInd == Init => Ind
<1> SUFFICES ASSUME Init PROVE Ind
    OBVIOUS
<1>1. /\ pollFds \in Seq(Entry)
      /\ Len(pollFds) = First
      /\ \A i \in 1..First : pollFds[i].fd = ServerFds[i]
  <2>1. \A i \in 1..First : [fd |-> ServerFds[i], events |-> {"IN"}, revents |-> {}] \in Entry
      BY ListenersFact DEF Entry, Flags
  <2>2. pollFds \in [1..First -> Entry]
      BY <2>1 DEF Init, First
  <2>3. QED
      BY <2>2, ListenersFact DEF Init, First
<1>2. TypeOK
    BY <1>1, LimitsAssumption, ListenersFact, EmptySeq DEF Init, TypeOK
<1>3. ClientEntries = {}
    BY <1>1, ListenersFact DEF ClientEntries
<1>4. ListenersLead /\ OneEntryEach
    BY <1>1, <1>3, ListenersFact DEF ListenersLead, OneEntryEach
<1>5. TablesAgree /\ ClosedIsCleared
    BY <1>3 DEF Init, TablesAgree, ClosedIsCleared, Polled
<1>6. QED
    BY <1>2, <1>4, <1>5 DEF Ind, Tables

-----------------------------------------------------------------------------
\* The steps of the environment touch no table.
LEMMA EnvironmentInd ==
    ASSUME Ind, NEW c \in Conns, NEW l \in Listeners,
           \/ Connect(c, l) \/ Abort(c) \/ PeerSends(c) \/ PeerCloses(c) \/ PeerResets(c)
    PROVE  Ind'
<1> USE DEF Ind
<1>0. UNCHANGED <<sock, sent, tables, pos, halt>>
    BY DEF Connect, Abort, PeerSends, PeerCloses, PeerResets, EnvUnchanged
<1>1. Tables'
    BY <1>0, TablesKept, LenProperties DEF tables, TypeOK
<1>2. /\ link' \in [Conns -> {"idle", "queued", "open", "gone"}]
      /\ peer' \in [Conns -> {"up", "fin", "rst"}]
      /\ pending' \in [Conns -> BOOLEAN]
      /\ dest' \in [Conns -> Listeners \cup {None}]
    BY DEF Connect, Abort, PeerSends, PeerCloses, PeerResets, TypeOK
<1>3. backlog' \in [Listeners -> Seq(Conns)]
  <2>1. CASE Connect(c, l)
    <3>1. Append(backlog[l], c) \in Seq(Conns)
        BY AppendProperties DEF TypeOK
    <3>2. QED
        BY <2>1, <3>1 DEF Connect, TypeOK
  <2>2. CASE Abort(c)
    <3>1. PICK i \in 1..Len(backlog[dest[c]]) :
             backlog' = [backlog EXCEPT ![dest[c]] = RemoveAt(@, i)]
        BY <2>2 DEF Abort
    <3>2. \A m \in Listeners : backlog[m] \in Seq(Conns)
        BY DEF TypeOK
    <3>3. dest[c] \in Listeners => RemoveAt(backlog[dest[c]], i) \in Seq(Conns)
        BY <3>2, RemoveAtProperties
    <3>4. QED
        BY <3>1, <3>3 DEF TypeOK
  <2>3. CASE PeerSends(c) \/ PeerCloses(c) \/ PeerResets(c)
      BY <2>3 DEF PeerSends, PeerCloses, PeerResets, TypeOK
  <2>4. QED
      BY <2>1, <2>2, <2>3
<1>4. QED
    BY <1>0, <1>1, <1>2, <1>3 DEF TypeOK, tables

\* Stopping changes nothing else.
LEMMA HaltInd ==
    ASSUME Ind, NEW why \in {"poll", "exception", "signal", "undefined", "hung"}, Halt(why)
    PROVE  Ind'
<1>1. Tables'
    BY TablesKept, LenProperties DEF Ind, Halt, kernel, tables, TypeOK
<1>2. TypeOK'
    BY DEF Ind, Halt, kernel, tables, TypeOK
<1>3. QED
    BY <1>1, <1>2 DEF Ind

\* poll() writes the revents of every entry and nothing else.
LEMMA PollInd ==
    ASSUME Ind, Poll
    PROVE  Ind'
<1>0. pollFds \in Seq(Entry) /\ Len(pollFds) \in Nat
    BY LenProperties DEF Ind, TypeOK
<1>1. PICK full \in SUBSET clientSockets, faults \in SUBSET Faulty,
           hups \in SUBSET {fd \in clientSockets : peer[sock[fd]] # "up"} :
         pollFds' = [i \in 1..Len(pollFds) |->
             [pollFds[i] EXCEPT !.revents =
                 IF pollFds[i].fd \in Listeners
                 THEN ListenerReport(pollFds[i].fd, faults)
                 ELSE ClientReport(pollFds[i], full, hups)]]
    BY DEF Poll
<1>2. /\ pollFds' \in Seq(Entry)
      /\ Len(pollFds') = Len(pollFds)
      /\ \A i \in 1..Len(pollFds) : pollFds'[i].fd = pollFds[i].fd
  <2>1. ASSUME NEW i \in 1..Len(pollFds)
        PROVE  pollFds'[i] \in Entry /\ pollFds'[i].fd = pollFds[i].fd
    <3>1. pollFds[i] \in Entry
        BY <1>0, ElementOfSeq
    <3>2. ListenerReport(pollFds[i].fd, faults) \in SUBSET Flags
        BY DEF ListenerReport, Flags
    <3>3. ClientReport(pollFds[i], full, hups) \in SUBSET Flags
        BY <3>1 DEF ClientReport, Flags, Entry
    <3>4. QED
        BY <1>1, <3>1, <3>2, <3>3 DEF Entry
  <2>2. pollFds' \in [1..Len(pollFds) -> Entry]
      BY <1>1, <2>1
  <2>3. QED
      BY <1>0, <2>1, <2>2
<1>3. Tables'
    BY <1>0, <1>2, TablesKept DEF Ind, Poll, kernel
<1>4. Len(pollFds) >= 1
    BY <1>0, ListenersFact DEF Ind, Tables, ListenersLead
<1>5. TypeOK'
    BY <1>0, <1>2, <1>4 DEF Ind, TypeOK, Poll, kernel
<1>6. QED
    BY <1>3, <1>5 DEF Ind

\* A listener's turn.
LEMMA ListenerInd ==
    ASSUME Ind, NEW l \in Listeners, ServeListener(l)
    PROVE  Ind'
<1>0. pos \in Nat /\ pollFds \in Seq(Entry) /\ Len(pollFds) \in Nat
    BY LenProperties DEF Ind, TypeOK
<1>1. CASE SkipListener(l) \/ ListenerFault(l) \/ AcceptFails(l)
  <2>1. Tables'
      BY <1>0, <1>1, TablesKept DEF Ind, SkipListener, ListenerFault, AcceptFails, kernel, tables
  <2>2. pos' \in 0..Len(pollFds)
      BY <1>0, <1>1, AdvanceInRange DEF SkipListener, ListenerFault, AcceptFails
  <2>3. TypeOK'
      BY <1>1, <2>2 DEF Ind, TypeOK, SkipListener, ListenerFault, AcceptFails, kernel, tables
  <2>4. QED
      BY <2>1, <2>3 DEF Ind
<1>2. ASSUME NEW fd \in Fds, Accept(l, fd)
      PROVE  Ind'
  <2>1. /\ pollFds' \in Seq(Entry)
        /\ pos' \in 0..Len(pollFds')
        /\ sock'[fd] \in Conns
        /\ Tables'
      BY <1>2, TablesAccept DEF Ind
  <2>2. backlog' \in [Listeners -> Seq(Conns)]
    <3>1. backlog[l] \in Seq(Conns) /\ backlog[l] # <<>>
        BY <1>2 DEF Ind, TypeOK, Accept
    <3>2. Tail(backlog[l]) \in Seq(Conns)
        BY <3>1, HeadTailProperties
    <3>3. QED
        BY <1>2, <3>2 DEF Ind, TypeOK, Accept
  <2>3. sock' \in [Fds -> Conns \cup {None}]
      BY <1>2, <2>1 DEF Ind, TypeOK, Accept
  <2>4. TypeOK'
      BY <1>2, <2>1, <2>2, <2>3 DEF Ind, TypeOK, Accept
  <2>5. QED
      BY <2>1, <2>4 DEF Ind
<1>3. CASE AcceptThrows(l)
    BY <1>3, HaltInd DEF AcceptThrows
<1>4. QED
    BY <1>1, <1>2, <1>3 DEF ServeListener

\* A removal that has delivered what it had to.
LEMMA RemoveInd ==
    ASSUME Ind, NEW fd \in Fds, Scanning(fd), RemoveClient(fd),
           sent' \in [Conns -> SUBSET (Conns \X Listeners)]
    PROVE  Ind'
<1>1. /\ pollFds' \in Seq(Entry)
      /\ pos' \in 0..Len(pollFds')
      /\ Tables'
    BY TablesRemove DEF Ind
<1>2. /\ link' \in [Conns -> {"idle", "queued", "open", "gone"}]
      /\ sock' \in [Fds -> Conns \cup {None}]
      /\ clientSockets' \in SUBSET Fds
      /\ requests' \in [Fds -> Request \cup {None}]
      /\ responses' \in [Fds -> Response \cup {None}]
      /\ clientServer' \in [Fds -> Listeners \cup {None}]
    BY DEF Ind, TypeOK, RemoveClient
<1>3. timeout' \in [Fds -> 0..MaxTimeout]
    BY LimitsAssumption DEF Ind, TypeOK, RemoveClient
<1>4. UNCHANGED <<peer, pending, dest, backlog, halt>>
    BY DEF RemoveClient
<1>5. QED
    BY <1>1, <1>2, <1>3, <1>4 DEF Ind, TypeOK

\* Bytes only leave for a connection from a request read on it or before it.
LEMMA DeliverType ==
    ASSUME TypeOK, NEW fd \in Fds, NEW resp \in Response, Deliver(fd, resp)
    PROVE  sent' \in [Conns -> SUBSET (Conns \X Listeners)]
<1>1. <<resp.req.src, resp.via>> \in Conns \X Listeners
    BY DEF Response, Request
<1>2. QED
    BY <1>1 DEF TypeOK, Deliver

\* The steps that end with remove_client.
LEMMA LeaveInd ==
    ASSUME Ind, NEW fd \in Fds,
           \/ TimeoutClient(fd) \/ HangUp(fd) \/ RecvEof(fd) \/ RespondAll(fd)
    PROVE  Ind'
<1>1. CASE TimeoutClient(fd) \/ HangUp(fd) \/ RecvEof(fd)
    BY <1>1, RemoveInd DEF TimeoutClient, HangUp, RecvEof, Receiving, Ind, TypeOK
<1>2. CASE RespondAll(fd)
  <2>1. Scanning(fd) /\ RemoveClient(fd) /\ Deliver(fd, ResponseFor(fd)) /\ requests[fd] # None
      BY <1>2 DEF RespondAll, Responding
  <2>2. ResponseFor(fd) \in Response
      BY <2>1, ScannedIsOpen, ResponseForType DEF Ind
  <2>3. sent' \in [Conns -> SUBSET (Conns \X Listeners)]
      BY <2>1, <2>2, DeliverType DEF Ind
  <2>4. QED
      BY <2>1, <2>3, RemoveInd
<1>3. QED
    BY <1>1, <1>2

\* The steps that stop the process.
LEMMA StopInd ==
    ASSUME Ind, NEW fd \in Fds,
           \/ RecvFails(fd) \/ RecvThrows(fd) \/ RespondBlind(fd)
           \/ RespondStops(fd) \/ RespondKilled(fd)
    PROVE  Ind'
BY HaltInd DEF RecvFails, RecvThrows, RespondBlind, RespondStops, RespondKilled

\* The steps after which the client keeps its entry.
LEMMA StayInd ==
    ASSUME Ind, NEW fd \in Fds,
           SkipClient(fd) \/ RecvData(fd) \/ RespondPart(fd)
    PROVE  Ind'
<1>0. /\ pos \in 1..Len(pollFds)
      /\ pollFds \in Seq(Entry)
      /\ Len(pollFds) \in Nat
      /\ sock[fd] \in Conns
      /\ clientServer[fd] \in Listeners
      /\ sock[fd] # None
      /\ Scanning(fd) /\ ~Expired(fd)
  <2>1. Scanning(fd) /\ ~Expired(fd)
      BY DEF SkipClient, RecvData, RespondPart, Receiving, Responding
  <2>2. QED
      BY <2>1, ScannedIsOpen, LenProperties, DescriptorsAssumption DEF Ind, TypeOK
<1>1. pos' \in 0..Len(pollFds)
    BY <1>0, AdvanceInRange DEF SkipClient, RecvData, RespondPart
<1>2. timeout[fd] \in 0..MaxTimeout /\ timeout[fd] + 1 \in 0..MaxTimeout
    BY <1>0, LimitsAssumption DEF Ind, TypeOK, Expired
<1>3. CASE SkipClient(fd)
  <2>1. Tables'
      BY <1>0, <1>3, TablesKept DEF Ind, SkipClient, Tick, kernel, TypeOK
  <2>2. TypeOK'
      BY <1>1, <1>2, <1>3 DEF Ind, SkipClient, Tick, kernel, TypeOK
  <2>3. QED
      BY <2>1, <2>2 DEF Ind
<1>4. CASE RecvData(fd)
  <2>1. PICK r \in Parsed(fd, sock[fd]) :
           /\ requests' = [requests EXCEPT ![fd] = r]
           /\ pollFds' = Requeue(r)
      BY <1>4 DEF RecvData
  <2>2. r \in Request
    <3>1. Current(fd, sock[fd]) \in Request
        BY <1>0, FreshType DEF Ind, TypeOK, Current
    <3>2. r \in ReadHeader(Current(fd, sock[fd])) \cup AddBody(Current(fd, sock[fd]))
        BY DEF Parsed
    <3>3. QED
        BY <3>1, <3>2, ParsedType
  <2>3. /\ pollFds' \in Seq(Entry)
        /\ Len(pollFds') = Len(pollFds)
        /\ \A i \in 1..Len(pollFds) : pollFds'[i].fd = pollFds[i].fd
    <3> DEFINE e == [pollFds[pos] EXCEPT !.events = {"OUT"}]
    <3>1. e \in Entry /\ e.fd = pollFds[pos].fd
      <4>1. pollFds[pos] \in Entry
          BY <1>0, ElementOfSeq
      <4>2. QED
          BY <4>1 DEF Entry, Flags
    <3>2. pollFds' = [pollFds EXCEPT ![pos] = e] \/ pollFds' = pollFds
        BY <2>1 DEF Requeue
    <3> HIDE DEF e
    <3>3. QED
        BY <1>0, <3>1, <3>2, ExceptSeq
  <2>4. \A g \in Fds : g # fd => requests'[g] = requests[g] /\ timeout'[g] = timeout[g]
      BY <1>4, <2>1 DEF RecvData, Ind, TypeOK
  <2>5. Tables'
      BY <1>0, <1>4, <2>3, <2>4, TablesKept DEF Ind, RecvData
  <2>6. /\ pending' \in [Conns -> BOOLEAN]
        /\ timeout' \in [Fds -> 0..MaxTimeout]
        /\ requests' \in [Fds -> Request \cup {None}]
    <3>1. pending' \in [Conns -> BOOLEAN]
        BY <1>4 DEF Ind, TypeOK, RecvData
    <3>2. (IF requests[fd] = None THEN 0 ELSE timeout[fd] + 1) \in 0..MaxTimeout
        BY <1>2, LimitsAssumption
    <3>3. timeout' \in [Fds -> 0..MaxTimeout]
        BY <1>4, <3>2 DEF Ind, TypeOK, RecvData, Restart
    <3>4. requests' \in [Fds -> Request \cup {None}]
        BY <2>1, <2>2 DEF Ind, TypeOK
    <3>5. QED
        BY <3>1, <3>3, <3>4
  <2>7. TypeOK'
      BY <1>1, <1>4, <2>3, <2>6 DEF Ind, TypeOK, RecvData
  <2>8. QED
      BY <2>5, <2>7 DEF Ind
<1>5. CASE RespondPart(fd)
  <2>1. PICK n \in Sendable(ResponseFor(fd), sock[fd]) :
           /\ n < ResponseFor(fd).left
           /\ responses' = [responses EXCEPT ![fd] = [ResponseFor(fd) EXCEPT !.left = @ - n]]
           /\ IF n = 0 THEN UNCHANGED sent ELSE Deliver(fd, ResponseFor(fd))
      BY <1>5 DEF RespondPart
  <2>2. ResponseFor(fd) \in Response
      BY <1>0, <1>5, ResponseForType DEF Ind, RespondPart
  <2>3. [ResponseFor(fd) EXCEPT !.left = @ - n] \in Response
    <3>1. n \in Nat /\ ResponseFor(fd).left \in 1..MaxText
        BY <2>1, <2>2, LimitsAssumption DEF Sendable, Response
    <3>2. ResponseFor(fd).left - n \in 1..MaxText
        BY <2>1, <3>1, LimitsAssumption
    <3>3. QED
        BY <2>2, <3>2 DEF Response
  <2>4. sent' \in [Conns -> SUBSET (Conns \X Listeners)]
      BY <2>1, <2>2, DeliverType DEF Ind, TypeOK
  <2>5. Tables'
      BY <1>0, <1>5, <2>1, TablesKept DEF Ind, RespondPart, Tick, TypeOK
  <2>6. TypeOK'
      BY <1>1, <1>2, <1>5, <2>1, <2>3, <2>4 DEF Ind, TypeOK, RespondPart, Tick
  <2>7. QED
      BY <2>5, <2>6 DEF Ind
<1>6. QED
    BY <1>3, <1>4, <1>5

\* Every step of the system keeps the types and the agreement of the tables.
LEMMA StepInd == Ind /\ [Next]_vars => Ind'
<1> SUFFICES ASSUME Ind, [Next]_vars PROVE Ind'
    OBVIOUS
<1>1. CASE Poll
    BY <1>1, PollInd
<1>2. CASE PollFails
    BY <1>2, HaltInd DEF PollFails
<1>3. ASSUME NEW l \in Listeners, ServeListener(l)
      PROVE  Ind'
    BY <1>3, ListenerInd
<1>4. ASSUME NEW fd \in Fds, ServeClient(fd)
      PROVE  Ind'
    BY <1>4, LeaveInd, StopInd, StayInd DEF ServeClient
<1>5. CASE Environment
  <2>1. PICK c \in Conns :
           \/ \E l \in Listeners : Connect(c, l)
           \/ Abort(c) \/ PeerSends(c) \/ PeerCloses(c) \/ PeerResets(c)
      BY <1>5 DEF Environment
  <2>2. \E l \in Listeners : TRUE
      BY ListenersFact
  <2>3. QED
      BY <2>1, <2>2, EnvironmentInd
<1>6. CASE UNCHANGED vars
  <2>1. Tables'
      BY <1>6, TablesKept, LenProperties DEF Ind, vars, kernel, tables, TypeOK
  <2>2. TypeOK'
      BY <1>6 DEF Ind, vars, kernel, tables, TypeOK
  <2>3. QED
      BY <2>1, <2>2 DEF Ind
<1>7. QED
    BY <1>1, <1>2, <1>3, <1>4, <1>5, <1>6 DEF Next, Loop

\* The state of the loop is always well formed: in particular pos never leaves
\* _poll_fds although entries are pushed and erased during the scan, and no
\* count passes the limit.
THEOREM TypeCorrect == Spec => []TypeOK
<1>1. Ind => TypeOK
    BY DEF Ind
<1>2. QED
    BY InitInd, StepInd, <1>1, PTL DEF Spec

\* The maps of Server, _poll_fds and the open descriptors always agree, and a
\* closed descriptor leaves nothing behind.
THEOREM TablesCorrect == Spec => []Tables
<1>1. Ind => Tables
    BY DEF Ind
<1>2. QED
    BY InitInd, StepInd, <1>1, PTL DEF Spec

-----------------------------------------------------------------------------
(***************************************************************************)
(* Whose bytes a connection gets.  OwnTraffic is not inductive: it needs   *)
(* that descriptors and connections pair off, that an accept queue holds   *)
(* each connection once and under its own listener, and that a response    *)
(* in progress carries the owner and the listener of its descriptor.       *)
(***************************************************************************)

\* No two descriptors stand for one connection, and one that is not open has none.
OneSocketEach ==
    /\ \A fd \in Fds : sock[fd] # None => link[sock[fd]] = "open"
    /\ \A f, g \in Fds : sock[f] = sock[g] /\ sock[f] # None => f = g

QueueSound ==
    \A l \in Listeners :
        /\ \A i \in 1..Len(backlog[l]) :
              link[backlog[l][i]] = "queued" /\ dest[backlog[l][i]] = l
        /\ \A i, j \in 1..Len(backlog[l]) : backlog[l][i] = backlog[l][j] => i = j

ResponsesOwned ==
    \A fd \in Fds : responses[fd] # None =>
        responses[fd].req.src = sock[fd] /\ responses[fd].via = clientServer[fd]

UnansweredYet == \A c \in Conns : link[c] \in {"idle", "queued"} => sent[c] = {}

Own == OneSocketEach /\ QueueSound /\ ResponsesOwned /\ UnansweredYet /\ OwnTraffic

LEMMA InitOwn == Init => Own
BY DEF Init, Own, OneSocketEach, QueueSound, ResponsesOwned, UnansweredYet, OwnTraffic

\* What a step leaves alone keeps Own.
LEMMA OwnKept ==
    ASSUME Own, UNCHANGED <<link, dest, backlog, sock, sent, requests, responses, clientServer>>
    PROVE  Own'
BY DEF Own, OneSocketEach, QueueSound, ResponsesOwned, UnansweredYet, OwnTraffic

\* A new connection enters one queue, once.
LEMMA ConnectOwn ==
    ASSUME Ind, Own, NEW c \in Conns, NEW l \in Listeners, Connect(c, l)
    PROVE  Own'
<1> USE DEF Ind
<1>1. /\ link' = [link EXCEPT ![c] = "queued"]
      /\ dest' = [dest EXCEPT ![c] = l]
      /\ backlog' = [backlog EXCEPT ![l] = Append(@, c)]
      /\ link[c] = "idle"
      /\ UNCHANGED <<sock, sent, requests, responses, clientServer>>
    BY DEF Connect, EnvUnchanged, tables
<1>2. \A m \in Listeners : backlog[m] \in Seq(Conns) /\ Len(backlog[m]) \in Nat
    BY LenProperties DEF TypeOK
<1>3. \A m \in Listeners : \A i \in 1..Len(backlog[m]) : backlog[m][i] \in Conns /\ backlog[m][i] # c
    BY <1>1, <1>2, ElementOfSeq DEF Own, QueueSound
<1>4. /\ Len(Append(backlog[l], c)) = Len(backlog[l]) + 1
      /\ \A i \in 1..Len(backlog[l]) : Append(backlog[l], c)[i] = backlog[l][i]
      /\ Append(backlog[l], c)[Len(backlog[l]) + 1] = c
    BY <1>2, AppendProperties
<1>5. ASSUME NEW m \in Listeners
      PROVE  /\ \A i \in 1..Len(backlog'[m]) :
                   link'[backlog'[m][i]] = "queued" /\ dest'[backlog'[m][i]] = m
             /\ \A i, j \in 1..Len(backlog'[m]) : backlog'[m][i] = backlog'[m][j] => i = j
  <2>1. CASE m = l
    <3>1. backlog'[m] = Append(backlog[l], c)
        BY <1>1, <2>1 DEF TypeOK
    <3>2. \A i \in 1..Len(backlog'[m]) :
             \/ i \in 1..Len(backlog[l]) /\ backlog'[m][i] = backlog[l][i]
             \/ i = Len(backlog[l]) + 1 /\ backlog'[m][i] = c
        BY <1>2, <1>4, <3>1
    <3>3. \A i \in 1..Len(backlog'[m]) :
             link'[backlog'[m][i]] = "queued" /\ dest'[backlog'[m][i]] = m
        BY <1>1, <1>3, <2>1, <3>2 DEF Own, QueueSound, TypeOK
    <3>4. \A i, j \in 1..Len(backlog'[m]) : backlog'[m][i] = backlog'[m][j] => i = j
        BY <1>3, <3>2 DEF Own, QueueSound
    <3>5. QED
        BY <3>3, <3>4
  <2>2. CASE m # l
      BY <1>1, <1>3, <2>2 DEF Own, QueueSound, TypeOK
  <2>3. QED
      BY <2>1, <2>2
<1>6. QueueSound'
    BY <1>5 DEF QueueSound
<1>7. OneSocketEach'
    BY <1>1 DEF Own, OneSocketEach, TypeOK
<1>8. UnansweredYet' /\ ResponsesOwned'
    BY <1>1 DEF Own, UnansweredYet, ResponsesOwned, TypeOK
<1>9. OwnTraffic'
  <2>1. \A d \in Conns : d # c => dest'[d] = dest[d]
      BY <1>1 DEF TypeOK
  <2>2. sent[c] = {}
      BY <1>1 DEF Own, UnansweredYet
  <2>3. \A fd \in Fds : sock[fd] # None => sock[fd] \in Conns /\ sock[fd] # c
      BY <1>1 DEF Own, OneSocketEach, TypeOK
  <2>4. QED
      BY <1>1, <2>1, <2>2, <2>3 DEF Own, OwnTraffic
<1>10. QED
    BY <1>6, <1>7, <1>8, <1>9 DEF Own

\* The other steps of the environment: only an abort moves a queue.
LEMMA PeerOwn ==
    ASSUME Ind, Own, NEW c \in Conns,
           Abort(c) \/ PeerSends(c) \/ PeerCloses(c) \/ PeerResets(c)
    PROVE  Own'
<1> USE DEF Ind
<1>1. CASE PeerSends(c) \/ PeerCloses(c) \/ PeerResets(c)
    BY <1>1, OwnKept DEF PeerSends, PeerCloses, PeerResets, EnvUnchanged, tables
<1>2. CASE Abort(c)
  <2>1. PICK k \in 1..Len(backlog[dest[c]]) :
           /\ backlog[dest[c]][k] = c
           /\ backlog' = [backlog EXCEPT ![dest[c]] = RemoveAt(@, k)]
      BY <1>2 DEF Abort
  <2>2. /\ link' = [link EXCEPT ![c] = "gone"]
        /\ link[c] = "queued"
        /\ UNCHANGED <<dest, sock, sent, requests, responses, clientServer>>
      BY <1>2 DEF Abort, EnvUnchanged, tables
  <2>3. \A m \in Listeners : /\ backlog[m] \in Seq(Conns)
                             /\ Len(backlog[m]) \in Nat
                             /\ \A i \in 1..Len(backlog[m]) : backlog[m][i] \in Conns
      BY LenProperties, ElementOfSeq DEF TypeOK
  <2>4. ASSUME NEW m \in Listeners
        PROVE  /\ \A i \in 1..Len(backlog'[m]) :
                     link'[backlog'[m][i]] = "queued" /\ dest'[backlog'[m][i]] = m
               /\ \A i, j \in 1..Len(backlog'[m]) : backlog'[m][i] = backlog'[m][j] => i = j
    <3>1. CASE m = dest[c]
      <4>1. backlog'[m] = RemoveAt(backlog[m], k)
          BY <2>1, <3>1 DEF TypeOK
      <4>2. /\ \A i \in 1..Len(backlog'[m]) :
                  backlog'[m][i] # c /\ \E j \in 1..Len(backlog[m]) : backlog'[m][i] = backlog[m][j]
            /\ \A i, j \in 1..Len(backlog'[m]) : backlog'[m][i] = backlog'[m][j] => i = j
        <5>1. k \in 1..Len(backlog[m]) /\ backlog[m][k] = c
            BY <2>1, <3>1
        <5>2. \A i, j \in 1..Len(backlog[m]) : backlog[m][i] = backlog[m][j] => i = j
            BY DEF Own, QueueSound
        <5>3. backlog[m] \in Seq(Conns)
            BY <2>3
        <5>4. QED
            BY <4>1, <5>1, <5>2, <5>3, RemoveFromDistinct
      <4>3. ASSUME NEW i \in 1..Len(backlog'[m])
            PROVE  link'[backlog'[m][i]] = "queued" /\ dest'[backlog'[m][i]] = m
        <5>1. PICK j \in 1..Len(backlog[m]) : backlog'[m][i] = backlog[m][j]
            BY <4>2
        <5>2. /\ backlog[m][j] \in Conns
              /\ link[backlog[m][j]] = "queued"
              /\ dest[backlog[m][j]] = m
            BY <2>3 DEF Own, QueueSound
        <5>3. backlog'[m][i] # c
            BY <4>2
        <5>4. QED
            BY <2>2, <5>1, <5>2, <5>3 DEF TypeOK
      <4>4. QED
          BY <4>2, <4>3
    <3>2. CASE m # dest[c]
      <4>1. backlog'[m] = backlog[m]
          BY <2>1, <3>2 DEF TypeOK
      <4>2. \A i \in 1..Len(backlog[m]) : backlog[m][i] # c
          BY <3>2 DEF Own, QueueSound
      <4>3. QED
          BY <2>2, <2>3, <4>1, <4>2 DEF Own, QueueSound, TypeOK
    <3>3. QED
        BY <3>1, <3>2
  <2>5. QueueSound'
      BY <2>4 DEF QueueSound
  <2>6. OneSocketEach'
      BY <2>2 DEF Own, OneSocketEach, TypeOK
  <2>7. UnansweredYet' /\ ResponsesOwned'
      BY <2>2 DEF Own, UnansweredYet, ResponsesOwned, TypeOK
  <2>8. OwnTraffic'
      BY <2>2 DEF Own, OwnTraffic
  <2>9. QED
      BY <2>5, <2>6, <2>7, <2>8 DEF Own
<1>3. QED
    BY <1>1, <1>2

\* accept() pairs the oldest connection of the queue with a free descriptor.
LEMMA AcceptOwn ==
    ASSUME Ind, Own, NEW l \in Listeners, NEW fd \in Fds, Accept(l, fd)
    PROVE  Own'
<1> USE DEF Ind
<1> DEFINE c == Head(backlog[l])
<1>1. /\ link' = [link EXCEPT ![c] = "open"]
      /\ sock' = [sock EXCEPT ![fd] = c]
      /\ backlog' = [backlog EXCEPT ![l] = Tail(@)]
      /\ clientServer' = [clientServer EXCEPT ![fd] = l]
      /\ sock[fd] = None
      /\ UNCHANGED <<dest, sent, requests, responses>>
    BY DEF Accept, Tables, TablesAgree
<1>2. \A m \in Listeners : /\ backlog[m] \in Seq(Conns)
                           /\ Len(backlog[m]) \in Nat
                           /\ \A i \in 1..Len(backlog[m]) : backlog[m][i] \in Conns
    BY LenProperties, ElementOfSeq DEF TypeOK
<1>3. /\ Len(backlog[l]) >= 1
      /\ c = backlog[l][1]
      /\ Len(Tail(backlog[l])) = Len(backlog[l]) - 1
      /\ \A i \in 1..Len(backlog[l]) - 1 : Tail(backlog[l])[i] = backlog[l][i + 1]
  <2>1. backlog[l] # <<>> /\ backlog[l] \in Seq(Conns)
      BY <1>2 DEF Accept
  <2>2. QED
      BY <1>2, <2>1, HeadTailProperties, EmptySeq
<1> HIDE DEF c
<1>4. /\ c \in Conns /\ link[c] = "queued" /\ dest[c] = l /\ sent[c] = {}
      /\ c # None
    BY <1>2, <1>3, DescriptorsAssumption DEF Own, QueueSound, UnansweredYet
<1>5. ASSUME NEW m \in Listeners
      PROVE  /\ \A i \in 1..Len(backlog'[m]) :
                   link'[backlog'[m][i]] = "queued" /\ dest'[backlog'[m][i]] = m
             /\ \A i, j \in 1..Len(backlog'[m]) : backlog'[m][i] = backlog'[m][j] => i = j
  <2>1. CASE m = l
    <3>1. backlog'[m] = Tail(backlog[l])
        BY <1>1, <2>1 DEF TypeOK
    <3>2. \A i \in 1..Len(backlog'[m]) :
             /\ i + 1 \in 1..Len(backlog[l])
             /\ i + 1 # 1
             /\ backlog'[m][i] = backlog[l][i + 1]
        BY <1>2, <1>3, <3>1
    <3>3. 1 \in 1..Len(backlog[l])
        BY <1>2, <1>3
    <3>4. \A i \in 1..Len(backlog'[m]) : backlog'[m][i] # c
        BY <1>3, <3>2, <3>3 DEF Own, QueueSound
    <3>5. \A i \in 1..Len(backlog'[m]) :
             link'[backlog'[m][i]] = "queued" /\ dest'[backlog'[m][i]] = m
        BY <1>1, <1>2, <2>1, <3>2, <3>4 DEF Own, QueueSound, TypeOK
    <3>6. \A i, j \in 1..Len(backlog'[m]) : backlog'[m][i] = backlog'[m][j] => i = j
      <4>1. \A i, j \in 1..Len(backlog'[m]) :
               backlog'[m][i] = backlog'[m][j] => i + 1 = j + 1
          BY <3>2 DEF Own, QueueSound
      <4>2. QED
          BY <4>1
    <3>7. QED
        BY <3>5, <3>6
  <2>2. CASE m # l
    <3>1. backlog'[m] = backlog[m]
        BY <1>1, <2>2 DEF TypeOK
    <3>2. \A i \in 1..Len(backlog[m]) : backlog[m][i] # c
        BY <1>4, <2>2 DEF Own, QueueSound
    <3>3. QED
        BY <1>1, <1>2, <3>1, <3>2 DEF Own, QueueSound, TypeOK
  <2>3. QED
      BY <2>1, <2>2
<1>6. QueueSound'
    BY <1>5 DEF QueueSound
<1>7. \A g \in Fds : /\ sock'[g] = IF g = fd THEN c ELSE sock[g]
                     /\ clientServer'[g] = IF g = fd THEN l ELSE clientServer[g]
    BY <1>1 DEF TypeOK
<1>8. \A g \in Fds : sock[g] # c
    BY <1>4 DEF Own, OneSocketEach
<1>9. OneSocketEach'
    BY <1>1, <1>4, <1>7, <1>8 DEF Own, OneSocketEach, TypeOK
<1>10. requests[fd] = None /\ responses[fd] = None
    BY <1>1 DEF Tables, ClosedIsCleared
<1>11. ResponsesOwned'
    BY <1>1, <1>7, <1>10 DEF Own, ResponsesOwned
<1>12. UnansweredYet'
    BY <1>1, <1>4 DEF Own, UnansweredYet, TypeOK
<1>13. OwnTraffic'
    BY <1>1, <1>4, <1>7, <1>10 DEF Own, OwnTraffic
<1>14. QED
    BY <1>6, <1>9, <1>11, <1>12, <1>13 DEF Own

\* What leaves for the connection behind fd came from it, through its listener.
LEMMA DeliverOwn ==
    ASSUME Ind, Own, NEW fd \in Fds, sock[fd] # None, requests[fd] # None,
           Deliver(fd, ResponseFor(fd)), UNCHANGED dest
    PROVE  \A c \in Conns : /\ sent'[c] \subseteq {<<c, dest'[c]>>}
                            /\ c # sock[fd] => sent'[c] = sent[c]
<1>1. sock[fd] \in Conns
    BY DEF Ind, TypeOK
<1>2. requests[fd].src = sock[fd] /\ clientServer[fd] = dest[sock[fd]]
    BY DEF Own, OwnTraffic
<1>3. ResponseFor(fd).req.src = sock[fd] /\ ResponseFor(fd).via = dest[sock[fd]]
    BY <1>2 DEF ResponseFor, Own, ResponsesOwned
<1>4. sent' = [sent EXCEPT ![sock[fd]] = @ \cup {<<sock[fd], dest[sock[fd]]>>}]
    BY <1>3 DEF Deliver
<1>5. QED
    BY <1>1, <1>4 DEF Ind, TypeOK, Own, OwnTraffic

\* A removal forgets the pair and whatever was kept for it.
LEMMA RemoveOwn ==
    ASSUME Ind, Own, NEW fd \in Fds, Scanning(fd), RemoveClient(fd),
           \A c \in Conns : /\ sent'[c] \subseteq {<<c, dest[c]>>}
                            /\ c # sock[fd] => sent'[c] = sent[c]
    PROVE  Own'
<1>1. sock[fd] \in Conns /\ sock[fd] # None
    BY ScannedIsOpen, DescriptorsAssumption DEF Ind
<1>2. /\ link' = [link EXCEPT ![sock[fd]] = "gone"]
      /\ \A g \in Fds : /\ sock'[g] = IF g = fd THEN None ELSE sock[g]
                        /\ clientServer'[g] = IF g = fd THEN None ELSE clientServer[g]
                        /\ requests'[g] = IF g = fd THEN None ELSE requests[g]
                        /\ responses'[g] = IF g = fd THEN None ELSE responses[g]
      /\ UNCHANGED <<dest, backlog>>
    BY DEF RemoveClient, Ind, TypeOK
<1>3. link[sock[fd]] = "open"
    BY <1>1 DEF Own, OneSocketEach
<1>4. OneSocketEach'
    BY <1>1, <1>2 DEF Own, OneSocketEach, Ind, TypeOK
<1>5. QueueSound'
  <2>1. ASSUME NEW l \in Listeners, NEW i \in 1..Len(backlog[l])
        PROVE  link'[backlog[l][i]] = "queued"
    <3>1. link[backlog[l][i]] = "queued" /\ backlog[l][i] \in Conns
      <4>1. backlog[l] \in Seq(Conns)
          BY DEF Ind, TypeOK
      <4>2. QED
          BY <4>1, ElementOfSeq DEF Own, QueueSound
    <3>2. QED
        BY <1>2, <1>3, <3>1 DEF Ind, TypeOK
  <2>2. QED
      BY <1>2, <2>1 DEF Own, QueueSound
<1>6. ResponsesOwned'
    BY <1>2 DEF Own, ResponsesOwned
<1>7. UnansweredYet'
    BY <1>2, <1>3 DEF Own, UnansweredYet, Ind, TypeOK
<1>8. OwnTraffic'
    BY <1>2 DEF Own, OwnTraffic
<1>9. QED
    BY <1>4, <1>5, <1>6, <1>7, <1>8 DEF Own

\* A client's turn.
LEMMA ClientOwn ==
    ASSUME Ind, Own, NEW fd \in Fds, ServeClient(fd)
    PROVE  Own'
<1>1. Scanning(fd)
    BY DEF ServeClient, TimeoutClient, SkipClient, HangUp, RecvEof, RecvFails, RecvData,
           RecvThrows, RespondBlind, RespondStops, RespondKilled, RespondPart, RespondAll,
           Receiving, Responding
<1>2. sock[fd] \in Conns /\ sock[fd] # None
    BY <1>1, ScannedIsOpen, DescriptorsAssumption DEF Ind
<1>3. CASE TimeoutClient(fd) \/ HangUp(fd) \/ RecvEof(fd)
  <2>1. RemoveClient(fd) /\ UNCHANGED sent
      BY <1>3 DEF TimeoutClient, HangUp, RecvEof
  <2>2. QED
      BY <1>1, <2>1, RemoveOwn DEF Own, OwnTraffic
<1>4. CASE \/ RecvFails(fd) \/ RecvThrows(fd) \/ RespondBlind(fd)
           \/ RespondStops(fd) \/ RespondKilled(fd)
    BY <1>4, OwnKept DEF RecvFails, RecvThrows, RespondBlind, RespondStops, RespondKilled,
                         Halt, kernel, tables
<1>5. CASE SkipClient(fd)
    BY <1>5, OwnKept DEF SkipClient, kernel
<1>6. CASE RecvData(fd)
  <2>1. PICK r \in Parsed(fd, sock[fd]) : requests' = [requests EXCEPT ![fd] = r]
      BY <1>6 DEF RecvData
  <2>2. r.src = sock[fd]
    <3>1. Current(fd, sock[fd]).src = sock[fd] /\ Current(fd, sock[fd]) \in Request
        BY <1>2, FreshType DEF Current, Fresh, Own, OwnTraffic, Ind, TypeOK
    <3>2. \A q \in Request : \A p \in ReadHeader(q) \cup AddBody(q) : p.src = q.src
        BY DEF ReadHeader, AddBody, MethodsOf, FoundType, EndHeader, Request
    <3>3. r \in ReadHeader(Current(fd, sock[fd])) \cup AddBody(Current(fd, sock[fd]))
        BY DEF Parsed
    <3>4. QED
        BY <3>1, <3>2, <3>3
  <2>3. UNCHANGED <<link, dest, backlog, sock, sent, responses, clientServer>>
      BY <1>6 DEF RecvData
  <2>4. OwnTraffic'
      BY <2>1, <2>2, <2>3 DEF Own, OwnTraffic, Ind, TypeOK
  <2>5. QED
      BY <2>3, <2>4 DEF Own, OneSocketEach, QueueSound, ResponsesOwned, UnansweredYet
<1>7. CASE RespondPart(fd)
  <2>1. PICK n \in Sendable(ResponseFor(fd), sock[fd]) :
           /\ responses' = [responses EXCEPT ![fd] = [ResponseFor(fd) EXCEPT !.left = @ - n]]
           /\ IF n = 0 THEN UNCHANGED sent ELSE Deliver(fd, ResponseFor(fd))
      BY <1>7 DEF RespondPart
  <2>2. /\ requests[fd] # None
        /\ UNCHANGED <<link, dest, backlog, sock, requests, clientServer>>
      BY <1>7 DEF RespondPart
  <2>3. \A c \in Conns : /\ sent'[c] \subseteq {<<c, dest[c]>>}
                         /\ c # sock[fd] => sent'[c] = sent[c]
    <3>1. CASE n = 0
        BY <2>1, <3>1 DEF Own, OwnTraffic
    <3>2. CASE n # 0
        BY <1>2, <2>1, <2>2, <3>2, DeliverOwn
    <3>3. QED
        BY <3>1, <3>2
  <2>4. ResponsesOwned'
    <3>1. ResponseFor(fd).req.src = sock[fd] /\ ResponseFor(fd).via = clientServer[fd]
        BY <1>2, <2>2 DEF ResponseFor, Own, ResponsesOwned, OwnTraffic
    <3>2. ResponseFor(fd) \in Response
        BY <1>1, <2>2, ScannedIsOpen, ResponseForType DEF Ind
    <3>3. /\ [ResponseFor(fd) EXCEPT !.left = @ - n].req.src = sock[fd]
          /\ [ResponseFor(fd) EXCEPT !.left = @ - n].via = clientServer[fd]
        BY <3>1, <3>2 DEF Response
    <3>4. QED
        BY <2>1, <2>2, <3>3 DEF Own, ResponsesOwned, Ind, TypeOK
  <2>5. UnansweredYet'
    <3>1. link[sock[fd]] = "open"
        BY <1>2 DEF Own, OneSocketEach
    <3>2. QED
        BY <2>2, <2>3, <3>1 DEF Own, UnansweredYet
  <2>6. OwnTraffic'
      BY <2>2, <2>3 DEF Own, OwnTraffic
  <2>7. QED
      BY <2>2, <2>4, <2>5, <2>6 DEF Own, OneSocketEach, QueueSound
<1>8. CASE RespondAll(fd)
  <2>1. /\ requests[fd] # None
        /\ Deliver(fd, ResponseFor(fd))
        /\ RemoveClient(fd)
        /\ UNCHANGED dest
      BY <1>8 DEF RespondAll, RemoveClient
  <2>2. \A c \in Conns : /\ sent'[c] \subseteq {<<c, dest[c]>>}
                         /\ c # sock[fd] => sent'[c] = sent[c]
      BY <1>2, <2>1, DeliverOwn
  <2>3. QED
      BY <1>1, <2>1, <2>2, RemoveOwn
<1>9. QED
    BY <1>3, <1>4, <1>5, <1>6, <1>7, <1>8 DEF ServeClient

LEMMA StepOwn == Ind /\ Own /\ [Next]_vars => Own'
<1> SUFFICES ASSUME Ind, Own, [Next]_vars PROVE Own'
    OBVIOUS
<1>1. CASE Poll \/ PollFails
    BY <1>1, OwnKept DEF Poll, PollFails, Halt, kernel, tables
<1>2. ASSUME NEW l \in Listeners, ServeListener(l)
      PROVE  Own'
  <2>1. CASE \E fd \in Fds : Accept(l, fd)
      BY <2>1, AcceptOwn
  <2>2. CASE SkipListener(l) \/ ListenerFault(l) \/ AcceptFails(l) \/ AcceptThrows(l)
      BY <2>2, OwnKept DEF SkipListener, ListenerFault, AcceptFails, AcceptThrows, Halt, kernel, tables
  <2>3. QED
      BY <1>2, <2>1, <2>2 DEF ServeListener
<1>3. ASSUME NEW fd \in Fds, ServeClient(fd)
      PROVE  Own'
    BY <1>3, ClientOwn
<1>4. CASE Environment
    BY <1>4, ConnectOwn, PeerOwn DEF Environment
<1>5. CASE UNCHANGED vars
    BY <1>5, OwnKept DEF vars, kernel, tables
<1>6. QED
    BY <1>1, <1>2, <1>3, <1>4, <1>5 DEF Next, Loop

\* However descriptors are reused, a connection is answered from its own bytes
\* only, with the configuration of the listener it connected to.
THEOREM OwnTrafficCorrect == Spec => []OwnTraffic
<1>1. Ind /\ Own => OwnTraffic
    BY DEF Own
<1>2. QED
    BY InitInd, StepInd, InitOwn, StepOwn, <1>1, PTL DEF Spec

\* Open descriptors and open connections pair off.
THEOREM OneSocketEachCorrect == Spec => []OneSocketEach
<1>1. Ind /\ Own => OneSocketEach
    BY DEF Own
<1>2. QED
    BY InitInd, StepInd, InitOwn, StepOwn, <1>1, PTL DEF Spec

-----------------------------------------------------------------------------
(***************************************************************************)
(* What the scan will find.  WriteReady is not inductive: that a client    *)
(* with a response is not read again needs what poll() reported of the     *)
(* entries the scan has yet to come to, and so does ReadableIsRead.  The   *)
(* invariant is stated of one client's entry at a time, because an erasure *)
(* moves the entries and leaves each of them as it was.                    *)
(***************************************************************************)

\* poll() has returned and the scan has not been past entry i.
Unserved(i) == pos # 0 /\ i >= pos

\* The connection at fd has bytes to read, or its end.
Readable(fd) == pending[sock[fd]] \/ peer[sock[fd]] # "up"

\* WriteReady, of entry i.
ReadyAt(i) ==
    LET fd == pollFds[i].fd
        ready == requests[fd] # None /\ Received(requests[fd])
    IN  /\ pollFds[i].events = IF ready THEN {"OUT"} ELSE {"IN"}
        /\ responses[fd] # None => ready /\ responses[fd].req = requests[fd]

\* poll() only reports what was asked for; the unset revents of an entry that
\* was pushed since belongs to a client nothing was read from.
AskedAt(i) ==
    Unserved(i) =>
        \/ requests[pollFds[i].fd] = None
        \/ pollFds[i].revents \cap {"IN", "OUT"} \subseteq pollFds[i].events

\* What was readable when poll() returned is so until the scan comes to it.
ReadableAt(i) ==
    /\ Unserved(i)
    /\ "IN" \in pollFds[i].revents
    /\ \A noise \in Garbage : "IN" \notin noise
    => Readable(pollFds[i].fd)

Sound(i) == ReadyAt(i) /\ AskedAt(i) /\ ReadableAt(i)

Scan == \A i \in ClientEntries : Sound(i)

LEMMA InitScan == Init => Scan
<1> SUFFICES ASSUME Init PROVE Scan
    OBVIOUS
<1>1. ClientEntries = {}
    BY ListenersFact DEF Init, ClientEntries, First
<1>2. QED
    BY <1>1 DEF Scan

-----------------------------------------------------------------------------
\* A step that keeps what is known of the client at fd; its connection may
\* only have become readable.
SameClient(fd) ==
    /\ requests'[fd] = requests[fd]
    /\ responses'[fd] = responses[fd]
    /\ Readable(fd) => Readable(fd)'

\* An entry stays sound wherever it moves, as long as the scan does not go back.
LEMMA EntryKept ==
    ASSUME NEW i \in ClientEntries, NEW j \in ClientEntries', NEW fd \in Fds,
           pollFds[i].fd = fd,
           Sound(i),
           pollFds'[j] = pollFds[i],
           Unserved(j)' => Unserved(i),
           SameClient(fd)
    PROVE  Sound(j)'
<1>1. ReadyAt(j)'
    BY DEF Sound, ReadyAt, SameClient, Received
<1>2. AskedAt(j)'
    BY DEF Sound, AskedAt, SameClient
<1>3. ReadableAt(j)'
    BY DEF Sound, ReadableAt, SameClient, Readable
<1>4. QED
    BY <1>1, <1>2, <1>3 DEF Sound

\* The scan goes on, or ends.
LEMMA AdvanceUnserved ==
    ASSUME NEW entries, NEW i \in Nat, pos \in Nat, pos # 0, pos' = Advance(entries),
           Unserved(i)'
    PROVE  i > pos
BY DEF Advance, Unserved

\* A client's entry is its own, and its connection an open one.
LEMMA EntryOfClient ==
    ASSUME Ind, NEW i \in ClientEntries
    PROVE  /\ pollFds[i].fd \in Fds
           /\ sock[pollFds[i].fd] \in Conns
           /\ \A j \in ClientEntries : pollFds[i].fd = pollFds[j].fd => i = j
BY DEF Ind, TypeOK, Tables, OneEntryEach, TablesAgree, Polled

\* A step that moves no entry.
LEMMA ScanKept ==
    ASSUME Ind, Scan, UNCHANGED pollFds,
           \A i \in ClientEntries : Unserved(i)' => Unserved(i),
           \A fd \in Fds : sock[fd] \in Conns => SameClient(fd)
    PROVE  Scan'
<1>1. ClientEntries' = ClientEntries
    BY DEF ClientEntries, First
<1>2. ASSUME NEW i \in ClientEntries
      PROVE  Sound(i)'
  <2>1. PICK fd \in Fds : pollFds[i].fd = fd /\ sock[fd] \in Conns
      BY EntryOfClient
  <2>2. QED
      BY <1>1, <2>1, EntryKept DEF Scan
<1>3. QED
    BY <1>1, <1>2 DEF Scan

\* A client's turn that leaves it in place: only its own entry may change, and
\* the scan is past it.
LEMMA ScanServed ==
    ASSUME Ind, Scan, NEW fd \in Fds, Scanning(fd),
           NEW k, k = pos,
           Len(pollFds') = Len(pollFds),
           \A i \in 1..Len(pollFds) : i # k => pollFds'[i] = pollFds[i],
           pos' = Advance(pollFds'),
           ReadyAt(k)',
           \A g \in Fds : g # fd /\ sock[g] \in Conns => SameClient(g)
    PROVE  Scan'
<1>0. /\ Len(pollFds) \in Nat
      /\ pos \in Nat /\ pos # 0
      /\ k \in ClientEntries
      /\ pollFds[k].fd = fd
    BY ScannedIsOpen, LenProperties DEF Ind, TypeOK, Scanning
<1>1. ClientEntries' = ClientEntries
    BY DEF ClientEntries, First
<1>2. \A i \in ClientEntries : Unserved(i)' => i > pos
    BY <1>0, AdvanceUnserved DEF ClientEntries
<1>3. Sound(k)'
  <2>1. ~Unserved(k)'
      BY <1>0, <1>2
  <2>2. QED
      BY <2>1 DEF Sound, AskedAt, ReadableAt
<1>4. ASSUME NEW i \in ClientEntries, i # k
      PROVE  Sound(i)'
  <2>1. PICK g \in Fds : pollFds[i].fd = g /\ g # fd /\ sock[g] \in Conns
      BY <1>0, <1>4, EntryOfClient
  <2>2. pollFds'[i] = pollFds[i]
      BY <1>4 DEF ClientEntries
  <2>3. Unserved(i)' => Unserved(i)
      BY <1>0, <1>2 DEF Unserved, ClientEntries
  <2>4. QED
      BY <1>1, <2>1, <2>2, <2>3, EntryKept DEF Scan
<1>5. QED
    BY <1>1, <1>3, <1>4 DEF Scan

-----------------------------------------------------------------------------
\* The environment only ever makes an open connection readable.
LEMMA EnvironmentScan ==
    ASSUME Ind, Own, Scan, NEW c \in Conns, NEW l \in Listeners,
           \/ Connect(c, l) \/ Abort(c) \/ PeerSends(c) \/ PeerCloses(c) \/ PeerResets(c)
    PROVE  Scan'
<1>1. UNCHANGED <<pollFds, sock, requests, responses, pos>>
    BY DEF Connect, Abort, PeerSends, PeerCloses, PeerResets, EnvUnchanged, tables
<1>2. \A fd \in Fds : sock[fd] \in Conns => link[sock[fd]] = "open"
    BY DescriptorsAssumption DEF Own, OneSocketEach
<1>3. \A fd \in Fds : sock[fd] \in Conns => SameClient(fd)
    BY <1>1, <1>2 DEF SameClient, Readable, Ind, TypeOK,
                      Connect, Abort, PeerSends, PeerCloses, PeerResets
<1>4. \A i \in ClientEntries : Unserved(i)' => Unserved(i)
    BY <1>1 DEF Unserved
<1>5. QED
    BY <1>1, <1>3, <1>4, ScanKept

\* poll() reports of a client what was asked for and what holds.
LEMMA PollScan ==
    ASSUME Ind, Scan, Poll
    PROVE  Scan'
<1>1. PICK full \in SUBSET clientSockets, faults \in SUBSET Faulty,
           hups \in SUBSET {fd \in clientSockets : peer[sock[fd]] # "up"} :
         pollFds' = [i \in 1..Len(pollFds) |->
             [pollFds[i] EXCEPT !.revents =
                 IF pollFds[i].fd \in Listeners
                 THEN ListenerReport(pollFds[i].fd, faults)
                 ELSE ClientReport(pollFds[i], full, hups)]]
    BY DEF Poll
<1>2. Len(pollFds) \in Nat /\ pollFds \in Seq(Entry)
    BY LenProperties DEF Ind, TypeOK
<1>3. ClientEntries' = ClientEntries
    BY <1>1, <1>2 DEF ClientEntries, First
<1>4. UNCHANGED <<sock, pending, peer, requests, responses>>
    BY DEF Poll, kernel
<1>5. ASSUME NEW i \in ClientEntries
      PROVE  Sound(i)'
  <2>1. PICK fd \in Fds : pollFds[i].fd = fd /\ fd \notin Listeners
      BY EntryOfClient, DescriptorsAssumption
  <2>2. pollFds[i] \in Entry /\ i \in 1..Len(pollFds)
      BY <1>2, ElementOfSeq DEF ClientEntries
  <2>3. /\ pollFds'[i].fd = fd
        /\ pollFds'[i].events = pollFds[i].events
        /\ pollFds'[i].revents = ClientReport(pollFds[i], full, hups)
      BY <1>1, <2>1, <2>2 DEF Entry
  <2>4. ReadyAt(i)'
      BY <1>4, <1>5, <2>1, <2>3 DEF Scan, Sound, ReadyAt, Received
  <2>5. AskedAt(i)'
      BY <2>3 DEF AskedAt, ClientReport
  <2>6. ReadableAt(i)'
      BY <1>4, <2>1, <2>3 DEF ReadableAt, Readable, ClientReport
  <2>7. QED
      BY <2>4, <2>5, <2>6 DEF Sound
<1>6. QED
    BY <1>3, <1>5 DEF Scan

-----------------------------------------------------------------------------
\* After an erasure each entry is one that was there, and none of those the
\* scan has yet to come to was served before.
LEMMA RemoveEntries ==
    ASSUME Ind, NEW fd \in Fds, Scanning(fd), RemoveClient(fd),
           NEW j \in ClientEntries'
    PROVE  \E i \in ClientEntries :
              /\ i # pos
              /\ pollFds'[j] = pollFds[i]
              /\ Unserved(j)' => Unserved(i)
<1> DEFINE old == IF j < pos THEN j ELSE j + 1
<1>0. /\ pollFds \in Seq(Entry)
      /\ Len(pollFds) \in Nat
      /\ pos \in 1..Len(pollFds)
      /\ pos > First
      /\ First \in Nat
    BY ScannedIsOpen, LenProperties, ListenersFact DEF Ind, TypeOK, ClientEntries
<1>1. /\ Len(pollFds') = Len(pollFds) - 1
      /\ \A k \in 1..Len(pollFds) - 1 :
            pollFds'[k] = IF k < pos THEN pollFds[k] ELSE pollFds[k + 1]
    BY <1>0, RemoveAtProperties DEF RemoveClient
<1>2. j \in 1..Len(pollFds) - 1 /\ j > First
    BY <1>1 DEF ClientEntries, First
<1>3. old \in ClientEntries /\ old # pos /\ pollFds'[j] = pollFds[old]
    BY <1>0, <1>1, <1>2 DEF ClientEntries
<1>4. Unserved(j)' => Unserved(old)
    BY <1>0, <1>2, AdvanceUnserved DEF Unserved, RemoveClient
<1>5. QED
    BY <1>3, <1>4

\* And every entry but the erased one is still there.
LEMMA RemoveKeepsEntries ==
    ASSUME Ind, NEW fd \in Fds, Scanning(fd), RemoveClient(fd),
           NEW i \in ClientEntries, i # pos
    PROVE  \E j \in ClientEntries' : pollFds'[j] = pollFds[i]
<1> DEFINE new == IF i < pos THEN i ELSE i - 1
<1>0. /\ pollFds \in Seq(Entry)
      /\ Len(pollFds) \in Nat
      /\ pos \in 1..Len(pollFds)
      /\ pos > First
      /\ First \in Nat
    BY ScannedIsOpen, LenProperties, ListenersFact DEF Ind, TypeOK, ClientEntries
<1>1. /\ Len(pollFds') = Len(pollFds) - 1
      /\ \A k \in 1..Len(pollFds) - 1 :
            pollFds'[k] = IF k < pos THEN pollFds[k] ELSE pollFds[k + 1]
    BY <1>0, RemoveAtProperties DEF RemoveClient
<1>2. i \in 1..Len(pollFds) /\ i > First
    BY DEF ClientEntries
<1>3. new \in ClientEntries' /\ pollFds'[new] = pollFds[i]
    BY <1>0, <1>1, <1>2 DEF ClientEntries, First
<1>4. QED
    BY <1>3

\* remove_client leaves every other client as it was.
LEMMA RemoveScan ==
    ASSUME Ind, Own, Scan, NEW fd \in Fds, Scanning(fd), RemoveClient(fd)
    PROVE  Scan'
<1>1. pos \in ClientEntries /\ pollFds[pos].fd = fd
    BY ScannedIsOpen DEF Ind, Scanning
<1>2. \A g \in Fds : g # fd => SameClient(g)
    BY DEF RemoveClient, SameClient, Readable, Ind, TypeOK
<1>3. ASSUME NEW j \in ClientEntries'
      PROVE  Sound(j)'
  <2>1. PICK i \in ClientEntries : i # pos /\ pollFds'[j] = pollFds[i] /\ (Unserved(j)' => Unserved(i))
      BY RemoveEntries
  <2>2. PICK g \in Fds : pollFds[i].fd = g /\ g # fd
      BY <1>1, <2>1, EntryOfClient
  <2>3. QED
      BY <1>2, <2>1, <2>2, EntryKept DEF Scan
<1>4. QED
    BY <1>3 DEF Scan

\* acceptor() pushes an entry behind those that were there.
LEMMA AcceptEntries ==
    ASSUME Ind, NEW l \in Listeners, NEW fd \in Fds, Accept(l, fd)
    PROVE  \E noise \in Garbage, n \in Nat :
              /\ n = Len(pollFds) + 1
              /\ pollFds'[n] = [fd |-> fd, events |-> {"IN"}, revents |-> noise]
              /\ ClientEntries' = ClientEntries \cup {n}
              /\ \A i \in ClientEntries : i # n /\ pollFds'[i] = pollFds[i]
<1>1. /\ pollFds \in Seq(Entry)
      /\ Len(pollFds) \in Nat
      /\ First \in Nat
      /\ Len(pollFds) >= First
    BY LenProperties, ListenersFact DEF Ind, TypeOK, Tables, ListenersLead
<1>2. PICK noise \in Garbage :
         pollFds' = Append(pollFds, [fd |-> fd, events |-> {"IN"}, revents |-> noise])
    BY DEF Accept
<1>3. [fd |-> fd, events |-> {"IN"}, revents |-> noise] \in Entry
    BY EnvironmentAssumption DEF Entry, Flags
<1>4. /\ Len(pollFds') = Len(pollFds) + 1
      /\ \A i \in 1..Len(pollFds) : pollFds'[i] = pollFds[i]
      /\ pollFds'[Len(pollFds) + 1] = [fd |-> fd, events |-> {"IN"}, revents |-> noise]
    BY <1>1, <1>2, <1>3, AppendProperties
<1>5. ClientEntries' = ClientEntries \cup {Len(pollFds) + 1}
    BY <1>1, <1>4 DEF ClientEntries, First
<1>6. \A i \in ClientEntries : i # Len(pollFds) + 1 /\ pollFds'[i] = pollFds[i]
    BY <1>1, <1>4 DEF ClientEntries
<1>7. Len(pollFds) + 1 \in Nat
    BY <1>1
<1> WITNESS noise \in Garbage, Len(pollFds) + 1 \in Nat
<1>9. QED
    BY <1>4, <1>5, <1>6

\* The fresh client has no request yet, and whatever its revents hold, no
\* client that was there is touched.
LEMMA AcceptScan ==
    ASSUME Ind, Own, Scan, NEW l \in Listeners, NEW fd \in Fds, Accept(l, fd)
    PROVE  Scan'
<1>1. PICK noise \in Garbage, n \in Nat :
         /\ pollFds'[n] = [fd |-> fd, events |-> {"IN"}, revents |-> noise]
         /\ ClientEntries' = ClientEntries \cup {n}
         /\ \A i \in ClientEntries : i # n /\ pollFds'[i] = pollFds[i]
    BY AcceptEntries
<1>2. requests'[fd] = None /\ responses'[fd] = None
    BY DEF Accept, Ind, Tables, ClosedIsCleared
<1>3. Sound(n)'
    BY <1>1, <1>2 DEF Sound, ReadyAt, AskedAt, ReadableAt
<1>4. ASSUME NEW i \in ClientEntries
      PROVE  Sound(i)'
  <2>1. PICK g \in Fds : pollFds[i].fd = g /\ sock[g] \in Conns
      BY EntryOfClient
  <2>2. g # fd
      BY <2>1, DescriptorsAssumption DEF Accept
  <2>3. SameClient(g)
      BY <2>2 DEF Accept, SameClient, Readable, Ind, TypeOK
  <2>4. Unserved(i)' => Unserved(i)
    <3>1. i \in Nat /\ pos \in Nat /\ pos # 0
        BY LenProperties DEF ClientEntries, Ind, TypeOK, Accept, Scanning
    <3>2. pos' = Advance(pollFds')
        BY DEF Accept
    <3>3. QED
        BY <3>1, <3>2, AdvanceUnserved DEF Unserved
  <2>5. QED
      BY <1>1, <2>1, <2>3, <2>4, EntryKept DEF Scan
<1>5. QED
    BY <1>1, <1>3, <1>4 DEF Scan

-----------------------------------------------------------------------------
\* A buffer completes a request or leaves it to be read on; one that is
\* complete is not read again, because its entry no longer asks for POLLIN.
LEMMA RecvScan ==
    ASSUME Ind, Own, Scan, NEW fd \in Fds, RecvData(fd)
    PROVE  Scan'
<1>0. /\ Scanning(fd) /\ "IN" \in Reported
      /\ pollFds \in Seq(Entry)
      /\ pos \in 1..Len(pollFds)
      /\ pos \in ClientEntries
      /\ pos \in Nat /\ pos # 0
      /\ pollFds[pos].fd = fd
      /\ sock[fd] \in Conns
    BY ScannedIsOpen, LenProperties DEF RecvData, Receiving, Scanning, Ind, TypeOK
<1>1. PICK r \in Parsed(fd, sock[fd]) :
         /\ requests' = [requests EXCEPT ![fd] = r]
         /\ pollFds' = Requeue(r)
    BY DEF RecvData
<1>2. r \in Request
  <2>1. Current(fd, sock[fd]) \in Request
      BY <1>0, FreshType DEF Current, Ind, TypeOK
  <2>2. r \in ReadHeader(Current(fd, sock[fd])) \cup AddBody(Current(fd, sock[fd]))
      BY DEF Parsed
  <2>3. QED
      BY <2>1, <2>2, ParsedType
<1>3. r # None
    BY <1>2, NoneAssumption
<1>4. pollFds[pos].events = {"IN"} /\ responses[fd] = None
  <2>1. ReadyAt(pos) /\ AskedAt(pos) /\ Unserved(pos)
      BY <1>0 DEF Scan, Sound, Unserved
  <2>2. CASE requests[fd] = None
      BY <1>0, <2>1, <2>2 DEF ReadyAt
  <2>3. CASE requests[fd] # None
      BY <1>0, <2>1, <2>3 DEF ReadyAt, AskedAt, Reported
  <2>4. QED
      BY <2>2, <2>3
<1>5. PICK k : k = pos
    OBVIOUS
<1>6. /\ Len(pollFds') = Len(pollFds)
      /\ \A i \in 1..Len(pollFds) : i # k => pollFds'[i] = pollFds[i]
      /\ pollFds'[k].fd = fd
      /\ pollFds'[k].events = IF Received(r) THEN {"OUT"} ELSE {"IN"}
  <2> DEFINE e == [pollFds[pos] EXCEPT !.events = {"OUT"}]
  <2>1. /\ e \in Entry
        /\ e.fd = fd
        /\ e.events = {"OUT"}
    <3>1. pollFds[pos] \in Entry
        BY <1>0, ElementOfSeq
    <3>2. QED
        BY <1>0, <3>1 DEF Entry, Flags
  <2> HIDE DEF e
  <2>2. CASE Received(r)
    <3>1. pollFds' = [pollFds EXCEPT ![pos] = e]
        BY <1>1, <2>2 DEF Requeue, e
    <3>2. QED
        BY <1>0, <1>5, <2>1, <2>2, <3>1, ExceptSeq
  <2>3. CASE ~Received(r)
      BY <1>0, <1>1, <1>4, <1>5, <2>3 DEF Requeue
  <2>4. QED
      BY <2>2, <2>3
<1>7. requests'[fd] = r /\ responses'[fd] = None
    BY <1>1, <1>4 DEF RecvData, Ind, TypeOK
<1>8. ReadyAt(k)'
    BY <1>3, <1>6, <1>7 DEF ReadyAt, Received
<1>9. \A g \in Fds : g # fd /\ sock[g] \in Conns => SameClient(g)
  <2> SUFFICES ASSUME NEW g \in Fds, g # fd, sock[g] \in Conns PROVE SameClient(g)
      OBVIOUS
  <2>1. sock[g] # sock[fd]
      BY <1>0, DescriptorsAssumption DEF Own, OneSocketEach
  <2>2. \E more \in BOOLEAN : pending' = [pending EXCEPT ![sock[fd]] = more]
      BY DEF RecvData
  <2>3. UNCHANGED <<peer, sock, responses>>
      BY DEF RecvData
  <2>4. QED
      BY <1>1, <2>1, <2>2, <2>3 DEF SameClient, Readable, Ind, TypeOK
<1>10. pos' = Advance(pollFds')
    BY <1>6 DEF RecvData, Advance
<1>11. QED
    BY <1>0, <1>5, <1>6, <1>8, <1>9, <1>10, ScanServed

\* A response is only begun for a client whose request is complete, and it
\* goes on with the request it was begun from.
LEMMA RespondReady ==
    ASSUME Ind, Scan, NEW fd \in Fds, Responding(fd), requests[fd] # None
    PROVE  /\ pollFds[pos].events = {"OUT"}
           /\ Received(requests[fd])
           /\ ResponseFor(fd).req = requests[fd]
<1>1. /\ pos \in ClientEntries /\ pos \in Nat /\ pos # 0
      /\ pollFds[pos].fd = fd
      /\ "OUT" \in pollFds[pos].revents
    BY ScannedIsOpen DEF Responding, Scanning, Reported, Ind, ClientEntries
<1>2. ReadyAt(pos) /\ AskedAt(pos) /\ Unserved(pos)
    BY <1>1 DEF Scan, Sound, Unserved
<1>3. "OUT" \in pollFds[pos].events
    BY <1>1, <1>2 DEF AskedAt
<1>4. QED
    BY <1>1, <1>2, <1>3 DEF ReadyAt, ResponseFor

LEMMA RespondScan ==
    ASSUME Ind, Own, Scan, NEW fd \in Fds, RespondPart(fd)
    PROVE  Scan'
<1>1. /\ Responding(fd) /\ requests[fd] # None /\ Scanning(fd)
      /\ UNCHANGED <<peer, pending, sock, pollFds, requests>>
      /\ pos' = Advance(pollFds')
    BY DEF RespondPart, Responding
<1>2. PICK n \in Sendable(ResponseFor(fd), sock[fd]) :
         responses' = [responses EXCEPT ![fd] = [ResponseFor(fd) EXCEPT !.left = @ - n]]
    BY DEF RespondPart
<1>3. ResponseFor(fd) \in Response
    BY <1>1, ScannedIsOpen, ResponseForType DEF Ind
<1>4. responses'[fd].req = requests[fd]
    BY <1>1, <1>2, <1>3, RespondReady DEF Response, Ind, TypeOK
<1>5. PICK k : k = pos
    OBVIOUS
<1>6. ReadyAt(k)'
  <2>1. /\ pollFds[k].fd = fd
        /\ pollFds[k].events = {"OUT"}
        /\ Received(requests[fd])
      BY <1>1, <1>5, RespondReady DEF Scanning
  <2>2. QED
      BY <1>1, <1>4, <2>1 DEF ReadyAt, Received
<1>7. \A g \in Fds : g # fd /\ sock[g] \in Conns => SameClient(g)
    BY <1>1, <1>2 DEF SameClient, Readable, Ind, TypeOK
<1>8. QED
    BY <1>1, <1>5, <1>6, <1>7, ScanServed

-----------------------------------------------------------------------------
LEMMA ClientScan ==
    ASSUME Ind, Own, Scan, NEW fd \in Fds, ServeClient(fd)
    PROVE  Scan'
<1>1. CASE TimeoutClient(fd) \/ HangUp(fd) \/ RecvEof(fd) \/ RespondAll(fd)
    BY <1>1, RemoveScan DEF TimeoutClient, HangUp, RecvEof, RespondAll, Receiving, Responding
<1>2. CASE RecvData(fd)
    BY <1>2, RecvScan
<1>3. CASE RespondPart(fd)
    BY <1>3, RespondScan
<1>4. CASE SkipClient(fd)
  <2>1. /\ Scanning(fd)
        /\ pos' = Advance(pollFds)
        /\ UNCHANGED <<pollFds, peer, pending, sock, requests, responses>>
      BY <1>4 DEF SkipClient, kernel
  <2>2. pos \in Nat /\ pos # 0
      BY <2>1, ScannedIsOpen, LenProperties DEF Ind, TypeOK, Scanning
  <2>3. \A i \in ClientEntries : Unserved(i)' => Unserved(i)
      BY <2>1, <2>2, AdvanceUnserved DEF Unserved, ClientEntries
  <2>4. QED
      BY <2>1, <2>3, ScanKept DEF SameClient, Readable
<1>5. CASE \/ RecvFails(fd) \/ RecvThrows(fd) \/ RespondBlind(fd)
           \/ RespondStops(fd) \/ RespondKilled(fd)
  <2>1. UNCHANGED <<pollFds, peer, pending, sock, requests, responses, pos>>
      BY <1>5 DEF RecvFails, RecvThrows, RespondBlind, RespondStops, RespondKilled,
                  Halt, kernel, tables
  <2>2. QED
      BY <2>1, ScanKept DEF Unserved, SameClient, Readable
<1>6. QED
    BY <1>1, <1>2, <1>3, <1>4, <1>5 DEF ServeClient

LEMMA ListenerScan ==
    ASSUME Ind, Own, Scan, NEW l \in Listeners, ServeListener(l)
    PROVE  Scan'
<1>1. CASE \E fd \in Fds : Accept(l, fd)
    BY <1>1, AcceptScan
<1>2. CASE SkipListener(l) \/ ListenerFault(l) \/ AcceptFails(l) \/ AcceptThrows(l)
  <2>1. /\ pos # 0
        /\ pos' \in {0, pos} \/ pos' = Advance(pollFds)
        /\ UNCHANGED <<pollFds, peer, pending, sock, requests, responses>>
      BY <1>2 DEF SkipListener, ListenerFault, AcceptFails, AcceptThrows, Halt,
                  Scanning, kernel, tables
  <2>2. pos \in Nat /\ \A i \in ClientEntries : i \in Nat
      BY LenProperties DEF Ind, TypeOK, ClientEntries
  <2>3. \A i \in ClientEntries : Unserved(i)' => Unserved(i)
      BY <2>1, <2>2, AdvanceUnserved DEF Unserved
  <2>4. QED
      BY <2>1, <2>3, ScanKept DEF SameClient, Readable
<1>3. QED
    BY <1>1, <1>2 DEF ServeListener

LEMMA StepScan == Ind /\ Own /\ Scan /\ [Next]_vars => Scan'
<1> SUFFICES ASSUME Ind, Own, Scan, [Next]_vars PROVE Scan'
    OBVIOUS
<1>1. CASE Poll
    BY <1>1, PollScan
<1>2. ASSUME NEW l \in Listeners, ServeListener(l)
      PROVE  Scan'
    BY <1>2, ListenerScan
<1>3. ASSUME NEW fd \in Fds, ServeClient(fd)
      PROVE  Scan'
    BY <1>3, ClientScan
<1>4. CASE Environment
  <2>1. PICK c \in Conns :
           \/ \E l \in Listeners : Connect(c, l)
           \/ Abort(c) \/ PeerSends(c) \/ PeerCloses(c) \/ PeerResets(c)
      BY <1>4 DEF Environment
  <2>2. \E l \in Listeners : TRUE
      BY ListenersFact
  <2>3. QED
      BY <2>1, <2>2, EnvironmentScan
<1>5. CASE PollFails \/ UNCHANGED vars
  <2>1. UNCHANGED <<pollFds, peer, pending, sock, requests, responses, pos>>
      BY <1>5 DEF PollFails, Halt, vars, kernel, tables
  <2>2. QED
      BY <2>1, ScanKept DEF Unserved, SameClient, Readable
<1>6. QED
    BY <1>1, <1>2, <1>3, <1>4, <1>5 DEF Next, Loop

\* All that holds of the loop at every step.
LEMMA Invariance == Spec => [](Ind /\ Own /\ Scan)
BY InitInd, StepInd, InitOwn, StepOwn, InitScan, StepScan, PTL DEF Spec

\* A client is polled for POLLOUT exactly when its request is complete, and a
\* response in progress is that of the request that was completed: no later
\* bytes of the client reach it.
THEOREM WriteReadyCorrect == Spec => []WriteReady
<1>1. Scan => WriteReady
    BY DEF Scan, Sound, ReadyAt, WriteReady
<1>2. QED
    BY Invariance, <1>1, PTL

\* Unless an unset revents reads POLLIN, recv() is only called where there are
\* bytes to read, or the end of the connection: nothing the scan does to the
\* other clients, and nothing a peer does, takes that away.
THEOREM ReadableIsReadCorrect == Spec => []ReadableIsRead
<1>1. ASSUME Ind, Scan
      PROVE  ReadableIsRead
  <2> SUFFICES ASSUME \A noise \in Garbage : "IN" \notin noise,
                      NEW fd \in Fds, Receiving(fd)
               PROVE  pending[sock[fd]] \/ peer[sock[fd]] # "up"
      BY DEF ReadableIsRead
  <2>1. /\ Scanning(fd) /\ pos # 0 /\ pollFds[pos].fd = fd
        /\ "IN" \in pollFds[pos].revents
      BY DEF Receiving, Scanning, Reported
  <2>2. pos \in ClientEntries /\ pos \in Nat
      BY <1>1, <2>1, ScannedIsOpen DEF Ind, ClientEntries
  <2>3. ReadableAt(pos) /\ Unserved(pos)
      BY <1>1, <2>1, <2>2 DEF Scan, Sound, Unserved
  <2>4. QED
      BY <2>1, <2>3 DEF ReadableAt, Readable
<1>2. QED
    BY Invariance, <1>1, PTL

-----------------------------------------------------------------------------
(***************************************************************************)
(* The refinement.  Under the mapping Service of Server, a step of the     *)
(* loop that turns, answers or drops a client, an accept and an abort are  *)
(* steps of one connection; every other step changes nothing a connection  *)
(* can see of the service.                                                 *)
(***************************************************************************)

\* The phase of the client at entry i.
PhaseOf(i) == IF pollFds[i].events = {"OUT"} THEN "writing" ELSE "reading"

\* The mapping gives an open connection the phase of its one entry.
LEMMA PhaseOfEntry ==
    ASSUME Ind, Own, NEW i \in ClientEntries, NEW c, sock[pollFds[i].fd] = c
    PROVE  link[c] = "open" /\ Phase(c) = PhaseOf(i)
<1>1. PICK fd \in Fds : pollFds[i].fd = fd /\ sock[fd] \in Conns
    BY EntryOfClient
<1>2. link[c] = "open"
    BY <1>1, DescriptorsAssumption DEF Own, OneSocketEach
<1>3. \A j \in ClientEntries : sock[pollFds[j].fd] = c => i = j
    BY <1>1, EntryOfClient, DescriptorsAssumption DEF Own, OneSocketEach
<1>4. Turned(c) <=> pollFds[i].events = {"OUT"}
    BY <1>3 DEF Turned
<1>5. QED
    BY <1>2, <1>4 DEF Phase, PhaseOf

\* A connection keeps its phase when its link and its entry are kept.
LEMMA PhaseKept ==
    ASSUME NEW c,
           link'[c] = link[c],
           Turned(c)' <=> Turned(c)
    PROVE  Phase(c)' = Phase(c)
BY DEF Phase

\* A step of connection c alone.
LEMMA PhaseMove ==
    ASSUME NEW c \in Conns, NEW from, NEW to,
           halt = "no", UNCHANGED halt,
           Phase(c) \in from, Phase(c)' = to,
           \A d \in Conns : d # c => Phase(d)' = Phase(d)
    PROVE  Service!Move(c, from, to)
BY DEF Service!Move

\* What connections see of a step that serves none of them.
LEMMA ServiceStutters ==
    ASSUME UNCHANGED <<link, sent, halt>>,
           \A c \in Conns : Phase(c)' = Phase(c)
    PROVE  UNCHANGED Service!vars
BY DEF Service!vars

\* Every phase is kept by a step that keeps the links and sockets, the order of
\* the entries and the events they ask for.
LEMMA PhasesKept ==
    ASSUME UNCHANGED <<link, sock>>,
           Len(pollFds') = Len(pollFds),
           \A i \in ClientEntries : /\ pollFds'[i].fd = pollFds[i].fd
                                    /\ pollFds'[i].events = pollFds[i].events,
           NEW c
    PROVE  Phase(c)' = Phase(c)
<1>1. ClientEntries' = ClientEntries
    BY DEF ClientEntries, First
<1>2. Turned(c)' <=> Turned(c)
    BY <1>1 DEF Turned
<1>3. QED
    BY <1>2, PhaseKept

\* remove_client ends the service of one connection and of no other.
LEMMA RemovePhases ==
    ASSUME Ind, Own, NEW fd \in Fds, Scanning(fd), RemoveClient(fd)
    PROVE  /\ Phase(sock[fd]) = PhaseOf(pos)
           /\ \A c \in Conns : Phase(c)' = IF c = sock[fd] THEN "gone" ELSE Phase(c)
<1>0. /\ pos \in ClientEntries
      /\ pollFds[pos].fd = fd
      /\ sock[fd] \in Conns
    BY ScannedIsOpen DEF Ind, Scanning
<1>1. Phase(sock[fd]) = PhaseOf(pos)
    BY <1>0, PhaseOfEntry
<1>2. ASSUME NEW c \in Conns, c = sock[fd]
      PROVE  Phase(c)' = "gone"
  <2>1. link'[c] = "gone"
      BY <1>2 DEF RemoveClient, Ind, TypeOK
  <2>2. QED
      BY <2>1 DEF Phase
<1>3. ASSUME NEW c \in Conns, c # sock[fd]
      PROVE  Phase(c)' = Phase(c)
  <2>1. link'[c] = link[c]
      BY <1>3 DEF RemoveClient, Ind, TypeOK
  <2>2. \A g \in Fds : g # fd => sock'[g] = sock[g]
      BY DEF RemoveClient, Ind, TypeOK
  <2>3. ASSUME NEW j \in ClientEntries', sock'[pollFds'[j].fd] = c, pollFds'[j].events = {"OUT"}
        PROVE  \E i \in ClientEntries : sock[pollFds[i].fd] = c /\ pollFds[i].events = {"OUT"}
    <3>1. PICK i \in ClientEntries : i # pos /\ pollFds'[j] = pollFds[i]
        BY RemoveEntries
    <3>2. pollFds[i].fd \in Fds /\ pollFds[i].fd # fd
        BY <1>0, <3>1, EntryOfClient
    <3>3. QED
        BY <2>2, <2>3, <3>1, <3>2
  <2>4. ASSUME NEW i \in ClientEntries, sock[pollFds[i].fd] = c, pollFds[i].events = {"OUT"}
        PROVE  \E j \in ClientEntries' : sock'[pollFds'[j].fd] = c /\ pollFds'[j].events = {"OUT"}
    <3>1. i # pos
        BY <1>0, <1>3, <2>4
    <3>2. PICK j \in ClientEntries' : pollFds'[j] = pollFds[i]
        BY <3>1, RemoveKeepsEntries
    <3>3. pollFds[i].fd \in Fds /\ pollFds[i].fd # fd
        BY <1>0, <3>1, EntryOfClient
    <3>4. QED
        BY <2>2, <2>4, <3>2, <3>3
  <2>5. QED
      BY <2>1, <2>3, <2>4, PhaseKept DEF Turned
<1>4. QED
    BY <1>1, <1>2, <1>3

\* accept() begins the service of the connection it takes.
LEMMA AcceptPhases ==
    ASSUME Ind, Own, NEW l \in Listeners, NEW fd \in Fds, Accept(l, fd)
    PROVE  \E c \in Conns :
              /\ Phase(c) = "queued"
              /\ \A d \in Conns : Phase(d)' = IF d = c THEN "reading" ELSE Phase(d)
<1>1. PICK c \in Conns : c = Head(backlog[l]) /\ link[c] = "queued"
  <2>1. backlog[l] \in Seq(Conns) /\ backlog[l] # <<>>
      BY DEF Accept, Ind, TypeOK
  <2>2. /\ Head(backlog[l]) \in Conns
        /\ Len(backlog[l]) \in Nat \ {0}
        /\ Head(backlog[l]) = backlog[l][1]
      BY <2>1, HeadTailProperties, EmptySeq
  <2>3. QED
      BY <2>2 DEF Own, QueueSound
<1>2. /\ link' = [link EXCEPT ![c] = "open"]
      /\ sock' = [sock EXCEPT ![fd] = c]
      /\ sock[fd] = None
    BY <1>1 DEF Accept
<1>3. PICK noise \in Garbage, n \in Nat :
         /\ pollFds'[n] = [fd |-> fd, events |-> {"IN"}, revents |-> noise]
         /\ ClientEntries' = ClientEntries \cup {n}
         /\ \A i \in ClientEntries : i # n /\ pollFds'[i] = pollFds[i]
    BY AcceptEntries
<1>4. \A i \in ClientEntries : /\ pollFds[i].fd \in Fds
                               /\ pollFds[i].fd # fd
                               /\ sock[pollFds[i].fd] \in Conns
                               /\ sock'[pollFds[i].fd] = sock[pollFds[i].fd]
                               /\ sock[pollFds[i].fd] # c
  <2> SUFFICES ASSUME NEW i \in ClientEntries
               PROVE  /\ pollFds[i].fd \in Fds
                      /\ pollFds[i].fd # fd
                      /\ sock[pollFds[i].fd] \in Conns
                      /\ sock'[pollFds[i].fd] = sock[pollFds[i].fd]
                      /\ sock[pollFds[i].fd] # c
      OBVIOUS
  <2>1. PICK g \in Fds : pollFds[i].fd = g /\ sock[g] \in Conns
      BY EntryOfClient
  <2>2. g # fd
      BY <1>2, <2>1, DescriptorsAssumption
  <2>3. link[sock[g]] = "open"
      BY <2>1, DescriptorsAssumption DEF Own, OneSocketEach
  <2>4. QED
      BY <1>1, <1>2, <2>1, <2>2, <2>3 DEF Ind, TypeOK
<1>5. Phase(c) = "queued"
    BY <1>1 DEF Phase
<1>6. Phase(c)' = "reading"
  <2>1. link'[c] = "open"
      BY <1>1, <1>2 DEF Ind, TypeOK
  <2>2. ~Turned(c)'
      BY <1>3, <1>4 DEF Turned
  <2>3. QED
      BY <2>1, <2>2 DEF Phase
<1>7. ASSUME NEW d \in Conns, d # c
      PROVE  Phase(d)' = Phase(d)
  <2>1. link'[d] = link[d]
      BY <1>2, <1>7 DEF Ind, TypeOK
  <2>2. sock'[fd] = c
      BY <1>2 DEF Ind, TypeOK
  <2>3. Turned(d)' <=> Turned(d)
      BY <1>3, <1>4, <1>7, <2>2 DEF Turned
  <2>4. QED
      BY <2>1, <2>3, PhaseKept
<1>8. QED
    BY <1>1, <1>5, <1>6, <1>7

-----------------------------------------------------------------------------
\* Who is answered by a step.
LEMMA NobodyAnswered ==
    ASSUME UNCHANGED sent
    PROVE  [c \in Conns |-> sent[c] # {}]' = [c \in Conns |-> sent[c] # {}]
OBVIOUS

LEMMA OneAnswered ==
    ASSUME Ind, NEW fd \in Fds, sock[fd] \in Conns, NEW resp, Deliver(fd, resp)
    PROVE  [c \in Conns |-> sent[c] # {}]'
              = [[c \in Conns |-> sent[c] # {}] EXCEPT ![sock[fd]] = TRUE]
BY DEF Deliver, Ind, TypeOK

\* The loop stops, or does nothing a connection can see.
LEMMA HaltService ==
    ASSUME halt = "no", NEW why, why # "no", Halt(why)
    PROVE  Service!Next
<1>1. UNCHANGED <<link, sock, pollFds, sent>> /\ halt' = why
    BY DEF Halt, kernel, tables
<1>2. \A c \in Conns : Phase(c)' = Phase(c)
    BY <1>1, PhasesKept
<1>3. Service!Stop
    BY <1>1, <1>2 DEF Service!Stop
<1>4. QED
    BY <1>3 DEF Service!Next

LEMMA QuietService ==
    ASSUME UNCHANGED <<link, sock, sent, halt>>,
           Len(pollFds') = Len(pollFds),
           \A i \in ClientEntries : /\ pollFds'[i].fd = pollFds[i].fd
                                    /\ pollFds'[i].events = pollFds[i].events
    PROVE  UNCHANGED Service!vars
BY PhasesKept, ServiceStutters

\* The environment: connections arrive and are dropped while they wait.
LEMMA EnvironmentService ==
    ASSUME Ind, Own, NEW c \in Conns, NEW l \in Listeners,
           \/ Connect(c, l) \/ Abort(c) \/ PeerSends(c) \/ PeerCloses(c) \/ PeerResets(c)
    PROVE  [Service!Next]_Service!vars
<1>1. /\ halt = "no"
      /\ UNCHANGED <<sock, sent, pollFds, halt>>
    BY DEF Connect, Abort, PeerSends, PeerCloses, PeerResets, EnvUnchanged, tables
<1>2. CASE PeerSends(c) \/ PeerCloses(c) \/ PeerResets(c)
  <2>1. UNCHANGED link
      BY <1>2 DEF PeerSends, PeerCloses, PeerResets
  <2>2. QED
      BY <1>1, <2>1, QuietService
<1>3. ASSUME NEW to \in {"queued", "gone"}, link' = [link EXCEPT ![c] = to]
      PROVE  /\ Phase(c)' = to
             /\ \A d \in Conns : d # c => Phase(d)' = Phase(d)
  <2>1. link'[c] = to /\ \A d \in Conns : d # c => link'[d] = link[d]
      BY <1>3 DEF Ind, TypeOK
  <2>2. \A d \in Conns : Turned(d)' <=> Turned(d)
      BY <1>1 DEF Turned, ClientEntries, First
  <2>3. Phase(c)' = to
      BY <2>1 DEF Phase
  <2>4. QED
      BY <2>1, <2>2, <2>3, PhaseKept
<1>4. CASE Connect(c, l)
  <2>1. Phase(c) = "idle" /\ link' = [link EXCEPT ![c] = "queued"]
      BY <1>4 DEF Connect, Phase
  <2>2. Service!Move(c, {"idle"}, "queued")
      BY <1>1, <1>3, <2>1, PhaseMove
  <2>3. Service!Arrive(c)
      BY <1>1, <2>2, NobodyAnswered DEF Service!Arrive
  <2>4. QED
      BY <2>3 DEF Service!Next
<1>5. CASE Abort(c)
  <2>1. Phase(c) = "queued" /\ link' = [link EXCEPT ![c] = "gone"]
      BY <1>5 DEF Abort, Phase
  <2>2. Service!Move(c, {"queued", "reading", "writing"}, "gone")
      BY <1>1, <1>3, <2>1, PhaseMove
  <2>3. Service!Close(c)
      BY <1>1, <2>2, NobodyAnswered DEF Service!Close
  <2>4. QED
      BY <2>3 DEF Service!Next
<1>6. QED
    BY <1>2, <1>4, <1>5

LEMMA PollService ==
    ASSUME Ind, Poll
    PROVE  UNCHANGED Service!vars
<1>1. PICK full \in SUBSET clientSockets, faults \in SUBSET Faulty,
           hups \in SUBSET {fd \in clientSockets : peer[sock[fd]] # "up"} :
         pollFds' = [i \in 1..Len(pollFds) |->
             [pollFds[i] EXCEPT !.revents =
                 IF pollFds[i].fd \in Listeners
                 THEN ListenerReport(pollFds[i].fd, faults)
                 ELSE ClientReport(pollFds[i], full, hups)]]
    BY DEF Poll
<1>2. Len(pollFds) \in Nat /\ pollFds \in Seq(Entry)
    BY LenProperties DEF Ind, TypeOK
<1>3. Len(pollFds') = Len(pollFds)
    BY <1>1, <1>2
<1>4. \A i \in ClientEntries : /\ pollFds'[i].fd = pollFds[i].fd
                               /\ pollFds'[i].events = pollFds[i].events
  <2> SUFFICES ASSUME NEW i \in ClientEntries
               PROVE  /\ pollFds'[i].fd = pollFds[i].fd
                      /\ pollFds'[i].events = pollFds[i].events
      OBVIOUS
  <2>1. pollFds[i] \in Entry /\ i \in 1..Len(pollFds)
      BY <1>2, ElementOfSeq DEF ClientEntries
  <2>2. QED
      BY <1>1, <2>1 DEF Entry
<1>5. UNCHANGED <<link, sock, sent, halt>>
    BY DEF Poll, kernel
<1>6. QED
    BY <1>3, <1>4, <1>5, QuietService

\* A listener's turn takes a connection from its queue, or none.
LEMMA ListenerService ==
    ASSUME Ind, Own, NEW l \in Listeners, ServeListener(l)
    PROVE  [Service!Next]_Service!vars
<1>1. CASE SkipListener(l) \/ ListenerFault(l) \/ AcceptFails(l)
  <2>1. UNCHANGED <<link, sock, sent, halt, pollFds>>
      BY <1>1 DEF SkipListener, ListenerFault, AcceptFails, kernel, tables
  <2>2. QED
      BY <2>1, QuietService
<1>2. CASE AcceptThrows(l)
    BY <1>2, HaltService DEF AcceptThrows, Scanning
<1>3. ASSUME NEW fd \in Fds, Accept(l, fd)
      PROVE  [Service!Next]_Service!vars
  <2>1. PICK c \in Conns :
           /\ Phase(c) = "queued"
           /\ \A d \in Conns : Phase(d)' = IF d = c THEN "reading" ELSE Phase(d)
      BY <1>3, AcceptPhases
  <2>2. halt = "no" /\ UNCHANGED <<halt, sent>>
      BY <1>3 DEF Accept, Scanning
  <2>3. Service!Move(c, {"queued"}, "reading")
      BY <2>1, <2>2, PhaseMove
  <2>4. Service!Take(c)
      BY <2>2, <2>3, NobodyAnswered DEF Service!Take
  <2>5. QED
      BY <2>4 DEF Service!Next
<1>4. QED
    BY <1>1, <1>2, <1>3 DEF ServeListener

\* A client's turn.  That an answer only leaves for a client whose request is
\* complete is RespondReady.
LEMMA ClientService ==
    ASSUME Ind, Own, Scan, NEW fd \in Fds, ServeClient(fd)
    PROVE  [Service!Next]_Service!vars
<1>1. Scanning(fd)
    BY DEF ServeClient, TimeoutClient, SkipClient, HangUp, RecvEof, RecvFails, RecvData,
           RecvThrows, RespondBlind, RespondStops, RespondKilled, RespondPart, RespondAll,
           Receiving, Responding
<1>2. /\ halt = "no"
      /\ pos \in ClientEntries
      /\ pollFds[pos].fd = fd
    BY <1>1, ScannedIsOpen DEF Ind, Scanning
<1>3. PICK c \in Conns : sock[fd] = c
    BY <1>1, ScannedIsOpen DEF Ind
<1>4. Phase(c) = PhaseOf(pos)
    BY <1>2, <1>3, PhaseOfEntry
<1>5. Phase(c) \in {"reading", "writing"}
    BY <1>4 DEF PhaseOf
<1>6. CASE TimeoutClient(fd) \/ HangUp(fd) \/ RecvEof(fd)
  <2>1. RemoveClient(fd) /\ UNCHANGED sent
      BY <1>6 DEF TimeoutClient, HangUp, RecvEof
  <2>2. UNCHANGED halt
      BY <2>1 DEF RemoveClient
  <2>3. Service!Move(c, {"queued", "reading", "writing"}, "gone")
      BY <1>1, <1>2, <1>3, <1>5, <2>1, <2>2, RemovePhases, PhaseMove
  <2>4. Service!Close(c)
      BY <2>1, <2>3, NobodyAnswered DEF Service!Close
  <2>5. QED
      BY <2>4 DEF Service!Next
<1>7. CASE \/ RecvFails(fd) \/ RecvThrows(fd) \/ RespondBlind(fd)
           \/ RespondStops(fd) \/ RespondKilled(fd)
    BY <1>2, <1>7, HaltService DEF RecvFails, RecvThrows, RespondBlind, RespondStops, RespondKilled
<1>8. CASE SkipClient(fd)
  <2>1. UNCHANGED <<link, sock, sent, halt, pollFds>>
      BY <1>8 DEF SkipClient, kernel
  <2>2. QED
      BY <2>1, QuietService
<1>9. CASE RecvData(fd)
  <2>0. UNCHANGED <<link, sock, sent, halt>>
      BY <1>9 DEF RecvData
  <2>1. PICK r \in Parsed(fd, sock[fd]) : pollFds' = Requeue(r)
      BY <1>9 DEF RecvData
  <2>2. CASE pollFds' = pollFds
      BY <2>0, <2>2, QuietService
  <2>3. CASE pollFds' = [pollFds EXCEPT ![pos].events = {"OUT"}] /\ PhaseOf(pos) = "writing"
    <3>1. /\ Len(pollFds') = Len(pollFds)
          /\ \A i \in ClientEntries : /\ pollFds'[i].fd = pollFds[i].fd
                                      /\ pollFds'[i].events = pollFds[i].events
      <4>1. pollFds \in Seq(Entry) /\ Len(pollFds) \in Nat
          BY LenProperties DEF Ind, TypeOK
      <4>2. pollFds[pos] \in Entry /\ pollFds[pos].events = {"OUT"} /\ pos \in 1..Len(pollFds)
          BY <1>2, <2>3, <4>1, ElementOfSeq DEF PhaseOf, ClientEntries
      <4>3. [pollFds[pos] EXCEPT !.events = {"OUT"}] = pollFds[pos]
          BY <4>2 DEF Entry
      <4>4. pollFds' = [pollFds EXCEPT ![pos] = pollFds[pos]]
          BY <2>3, <4>3
      <4>5. QED
          BY <4>1, <4>2, <4>4, ExceptSeq DEF ClientEntries
    <3>2. QED
        BY <2>0, <3>1, QuietService
  <2>4. CASE pollFds' = [pollFds EXCEPT ![pos].events = {"OUT"}] /\ PhaseOf(pos) = "reading"
    <3>1. /\ ClientEntries' = ClientEntries
          /\ pollFds'[pos].fd = fd
          /\ pollFds'[pos].events = {"OUT"}
          /\ \A i \in ClientEntries : i # pos => pollFds'[i] = pollFds[i]
      <4>1. pollFds \in Seq(Entry) /\ Len(pollFds) \in Nat
          BY LenProperties DEF Ind, TypeOK
      <4>2. pollFds[pos] \in Entry /\ pos \in 1..Len(pollFds)
          BY <1>2, <4>1, ElementOfSeq DEF ClientEntries
      <4>3. PICK e : e = [pollFds[pos] EXCEPT !.events = {"OUT"}]
          OBVIOUS
      <4>4. e \in Entry /\ e.fd = fd /\ e.events = {"OUT"}
          BY <1>2, <4>2, <4>3 DEF Entry, Flags
      <4>5. pollFds' = [pollFds EXCEPT ![pos] = e]
          BY <2>4, <4>3
      <4>6. QED
          BY <4>1, <4>2, <4>4, <4>5, ExceptSeq DEF ClientEntries, First
    <3>2. Phase(c)' = "writing"
      <4>1. link'[c] = "open"
          BY <1>2, <1>3, <2>0, PhaseOfEntry
      <4>2. Turned(c)'
          BY <1>2, <1>3, <2>0, <3>1 DEF Turned
      <4>3. QED
          BY <4>1, <4>2 DEF Phase
    <3>3. ASSUME NEW d \in Conns, d # c
          PROVE  Phase(d)' = Phase(d)
      <4>1. Turned(d)' <=> Turned(d)
          BY <1>2, <1>3, <2>0, <3>1, <3>3 DEF Turned
      <4>2. QED
          BY <2>0, <4>1, PhaseKept
    <3>4. Service!Move(c, {"reading"}, "writing")
        BY <1>2, <1>4, <2>0, <2>4, <3>2, <3>3, PhaseMove
    <3>5. Service!Complete(c)
        BY <2>0, <3>4, NobodyAnswered DEF Service!Complete
    <3>6. QED
        BY <3>5 DEF Service!Next
  <2>5. QED
      BY <2>1, <2>2, <2>3, <2>4 DEF Requeue, PhaseOf
<1>10. ASSUME Responding(fd), requests[fd] # None
       PROVE  Phase(c) = "writing"
    BY <1>4, <1>10, RespondReady DEF PhaseOf
<1>11. CASE RespondPart(fd)
  <2>1. PICK n \in Sendable(ResponseFor(fd), sock[fd]) :
           IF n = 0 THEN UNCHANGED sent ELSE Deliver(fd, ResponseFor(fd))
      BY <1>11 DEF RespondPart
  <2>2. UNCHANGED <<link, sock, pollFds, halt>> /\ Phase(c) = "writing"
      BY <1>10, <1>11 DEF RespondPart
  <2>3. CASE n = 0
      BY <2>1, <2>2, <2>3, QuietService
  <2>4. CASE n # 0
    <3>1. \A d \in Conns : Phase(d)' = Phase(d)
        BY <2>2, PhasesKept
    <3>2. Service!Move(c, {"writing"}, "writing")
        BY <1>2, <2>2, <3>1, PhaseMove
    <3>3. Service!Answer(c)
        BY <1>3, <2>1, <2>4, <3>2, OneAnswered DEF Service!Answer
    <3>4. QED
        BY <3>3 DEF Service!Next
  <2>5. QED
      BY <2>3, <2>4
<1>12. CASE RespondAll(fd)
  <2>1. /\ Responding(fd) /\ requests[fd] # None
        /\ Deliver(fd, ResponseFor(fd))
        /\ RemoveClient(fd)
      BY <1>12 DEF RespondAll
  <2>2. UNCHANGED halt
      BY <2>1 DEF RemoveClient
  <2>3. Service!Move(c, {"writing"}, "gone")
      BY <1>1, <1>2, <1>3, <1>10, <2>1, <2>2, RemovePhases, PhaseMove
  <2>4. Service!Answer(c)
      BY <1>3, <2>1, <2>3, OneAnswered DEF Service!Answer
  <2>5. QED
      BY <2>4 DEF Service!Next
<1>13. QED
    BY <1>6, <1>7, <1>8, <1>9, <1>11, <1>12 DEF ServeClient

LEMMA InitService == Init => Service!Init
<1> SUFFICES ASSUME Init PROVE Service!Init
    OBVIOUS
<1>1. \A c \in Conns : Phase(c) = "idle"
    BY DEF Init, Phase
<1>2. QED
    BY <1>1 DEF Init, Service!Init

LEMMA StepService == Ind /\ Own /\ Scan /\ [Next]_vars => [Service!Next]_Service!vars
<1> SUFFICES ASSUME Ind, Own, Scan, [Next]_vars PROVE [Service!Next]_Service!vars
    OBVIOUS
<1>1. CASE Poll
    BY <1>1, PollService
<1>2. CASE PollFails
    BY <1>2, HaltService DEF PollFails
<1>3. ASSUME NEW l \in Listeners, ServeListener(l)
      PROVE  [Service!Next]_Service!vars
    BY <1>3, ListenerService
<1>4. ASSUME NEW fd \in Fds, ServeClient(fd)
      PROVE  [Service!Next]_Service!vars
    BY <1>4, ClientService
<1>5. CASE Environment
  <2>1. PICK c \in Conns :
           \/ \E l \in Listeners : Connect(c, l)
           \/ Abort(c) \/ PeerSends(c) \/ PeerCloses(c) \/ PeerResets(c)
      BY <1>5 DEF Environment
  <2>2. \E l \in Listeners : TRUE
      BY ListenersFact
  <2>3. QED
      BY <2>1, <2>2, EnvironmentService
<1>6. CASE UNCHANGED vars
    BY <1>6, QuietService DEF vars, kernel, tables
<1>7. QED
    BY <1>1, <1>2, <1>3, <1>4, <1>5, <1>6 DEF Next, Loop

\* The poll loop implements the service: whatever the order of scans, erasures
\* and accepts, each connection is queued, taken, read until its request is
\* complete, answered only after that, and closed once and for all.
THEOREM ImplementsCorrect == Spec => Implements
BY Invariance, InitService, StepService, PTL DEF Spec, Implements, Service!Spec

-----------------------------------------------------------------------------
(***************************************************************************)
(* TimedServer: what _timeout says of how long a client has been scanned.  *)
(***************************************************************************)

\* Every step of the timed system is one of the untimed system, so that what
\* is proved of the one holds of the other.
LEMMA TimedInd == TimedSpec => []Ind
<1>1. TimedInit => Ind
    BY InitInd DEF TimedInit
<1>2. Ind /\ [TimedNext]_timedVars => Ind'
    BY StepInd DEF TimedNext, timedVars
<1>3. QED
    BY <1>1, <1>2, PTL DEF TimedSpec

\* A clock that runs only for an open client.
ClosedAge == \A fd \in Fds : sock[fd] = None => age[fd] = 0

AgeType == age \in [Fds -> Nat]

Aged == AgeType /\ ClosedAge /\ AgeBound

LEMMA InitAged == TimedInit => Aged
BY DEF TimedInit, Init, Aged, AgeType, ClosedAge, AgeBound

-----------------------------------------------------------------------------
\* Only a client's own turn moves its clock or its count.
LEMMA AgeKept ==
    ASSUME Ind, Aged, Clocks, NEW fd \in Fds, ~Served(fd),
           \/ sock'[fd] = None
           \/ /\ sock[fd] = None
              /\ timeout'[fd] = 0
              /\ requests'[fd] = None
           \/ /\ timeout'[fd] = timeout[fd]
              /\ requests'[fd] = requests[fd]
              /\ sock[fd] # None
    PROVE  /\ sock'[fd] = None => age'[fd] = 0
           /\ sock'[fd] # None =>
                 /\ age'[fd] >= timeout'[fd]
                 /\ age'[fd] <= timeout'[fd] + (IF requests'[fd] = None THEN 0 ELSE MaxTimeout)
<1>1. age'[fd] = IF sock'[fd] = None THEN 0 ELSE age[fd]
    BY DEF Clocks
<1>2. age[fd] \in Nat /\ timeout[fd] \in 0..MaxTimeout /\ MaxTimeout \in Nat
    BY LimitsAssumption DEF Aged, AgeType, Ind, TypeOK
<1>3. CASE sock'[fd] = None
    BY <1>1, <1>3
<1>4. CASE sock[fd] = None /\ timeout'[fd] = 0 /\ requests'[fd] = None
    BY <1>1, <1>2, <1>4 DEF Aged, ClosedAge
<1>5. CASE /\ timeout'[fd] = timeout[fd]
           /\ requests'[fd] = requests[fd]
           /\ sock[fd] # None
    BY <1>1, <1>2, <1>5 DEF Aged, AgeBound
<1>6. QED
    BY <1>3, <1>4, <1>5

\* A turn that leaves the client its entry is one scan for both: unless it
\* reads the first bytes of a request, which restart the count.
LEMMA AgeServed ==
    ASSUME Ind, Aged, Clocks, NEW fd \in Fds, Served(fd), ~Expired(fd),
           sock[fd] # None, sock'[fd] = sock[fd],
           \/ /\ timeout'[fd] = timeout[fd] + 1
              /\ requests'[fd] = None <=> requests[fd] = None
           \/ /\ timeout'[fd] = 0
              /\ requests[fd] = None
              /\ requests'[fd] # None
    PROVE  /\ age'[fd] >= timeout'[fd]
           /\ age'[fd] <= timeout'[fd] + (IF requests'[fd] = None THEN 0 ELSE MaxTimeout)
<1>1. age[fd] \in Nat /\ timeout[fd] \in 0..MaxTimeout /\ MaxTimeout \in Nat
    BY LimitsAssumption DEF Aged, AgeType, Ind, TypeOK
<1>2. timeout[fd] + 1 <= MaxTimeout
    BY <1>1 DEF Expired
<1>3. /\ age[fd] >= timeout[fd]
      /\ age[fd] <= timeout[fd] + (IF requests[fd] = None THEN 0 ELSE MaxTimeout)
    BY DEF Aged, AgeBound
<1>4. age[fd] < MaxAge
    BY <1>1, <1>3 DEF MaxAge
<1>5. age'[fd] = age[fd] + 1
    BY <1>4 DEF Clocks
<1>6. QED
    BY <1>1, <1>2, <1>3, <1>5

\* The steps in which no client has its turn.
LEMMA OthersAged ==
    ASSUME Ind, Aged, Clocks,
           \/ Poll \/ PollFails \/ Environment
           \/ \E l \in Listeners : ServeListener(l)
    PROVE  Aged'
<1>1. ASSUME NEW fd \in Fds
      PROVE  /\ ~Served(fd)
             /\ \/ sock'[fd] = None
                \/ /\ sock[fd] = None
                   /\ timeout'[fd] = 0
                   /\ requests'[fd] = None
                \/ /\ timeout'[fd] = timeout[fd]
                   /\ requests'[fd] = requests[fd]
                   /\ sock[fd] # None
  <2>1. CASE Poll \/ PollFails
      BY <2>1 DEF Poll, PollFails, Halt, kernel, tables, Served, Scanning
  <2>2. CASE Environment
      BY <2>2 DEF Environment, Connect, Abort, PeerSends, PeerCloses, PeerResets,
                  EnvUnchanged, tables, Served
  <2>3. ASSUME NEW l \in Listeners, ServeListener(l)
        PROVE  /\ ~Served(fd)
               /\ \/ sock'[fd] = None
                  \/ /\ sock[fd] = None
                     /\ timeout'[fd] = 0
                     /\ requests'[fd] = None
                  \/ /\ timeout'[fd] = timeout[fd]
                     /\ requests'[fd] = requests[fd]
                     /\ sock[fd] # None
    <3>1. ~Scanning(fd)
      <4>1. Scanning(l)
          BY <2>3 DEF ServeListener, SkipListener, ListenerFault, Accept, AcceptFails, AcceptThrows
      <4>2. QED
          BY <4>1, DescriptorsAssumption DEF Scanning
    <3>2. CASE SkipListener(l) \/ ListenerFault(l) \/ AcceptFails(l) \/ AcceptThrows(l)
        BY <3>1, <3>2 DEF SkipListener, ListenerFault, AcceptFails, AcceptThrows, Halt,
                          kernel, tables, Served
    <3>3. ASSUME NEW g \in Fds, Accept(l, g)
          PROVE  /\ UNCHANGED <<timeout, requests>>
                 /\ \/ sock[fd] = None /\ timeout[fd] = 0 /\ requests[fd] = None
                    \/ sock[fd] # None
      <4>1. UNCHANGED <<timeout, requests>>
          BY <3>3 DEF Accept
      <4>2. sock[fd] = None => timeout[fd] = 0 /\ requests[fd] = None
          BY DEF Ind, Tables, ClosedIsCleared
      <4>3. QED
          BY <4>1, <4>2
    <3>4. QED
        BY <2>3, <3>1, <3>2, <3>3 DEF ServeListener, Served
  <2>4. QED
      BY <2>1, <2>2, <2>3
<1>2. AgeType'
    BY DEF Clocks, Aged, AgeType
<1>3. ClosedAge' /\ AgeBound'
    BY <1>1, AgeKept DEF ClosedAge, AgeBound
<1>4. QED
    BY <1>2, <1>3 DEF Aged

\* A client's turn: it is closed, counted once more, or read for the first time.
LEMMA ClientAged ==
    ASSUME Ind, Aged, Clocks, NEW fd \in Fds, ServeClient(fd)
    PROVE  Aged'
<1>1. Scanning(fd) /\ pos \in Nat /\ sock[fd] \in Conns /\ sock[fd] # None
  <2>1. Scanning(fd)
      BY DEF ServeClient, TimeoutClient, SkipClient, HangUp, RecvEof, RecvFails, RecvData,
             RecvThrows, RespondBlind, RespondStops, RespondKilled, RespondPart, RespondAll,
             Receiving, Responding
  <2>2. QED
      BY <2>1, ScannedIsOpen, LenProperties, DescriptorsAssumption DEF Ind, TypeOK
<1>2. \A g \in Fds : g # fd => ~Served(g)
    BY <1>1 DEF Served, Scanning
<1>3. \A g \in Fds : g # fd =>
         \/ sock'[g] = None
         \/ /\ timeout'[g] = timeout[g]
            /\ requests'[g] = requests[g]
            /\ sock[g] # None
  <2>1. CASE TimeoutClient(fd) \/ HangUp(fd) \/ RecvEof(fd) \/ RespondAll(fd)
      BY <2>1 DEF TimeoutClient, HangUp, RecvEof, RespondAll, RemoveClient, Ind, TypeOK
  <2>2. CASE SkipClient(fd) \/ RespondPart(fd)
      BY <2>2 DEF SkipClient, RespondPart, Tick, kernel, Ind, TypeOK
  <2>3. CASE RecvData(fd)
      BY <2>3 DEF RecvData, Ind, TypeOK
  <2>4. CASE \/ RecvFails(fd) \/ RecvThrows(fd) \/ RespondBlind(fd)
             \/ RespondStops(fd) \/ RespondKilled(fd)
      BY <2>4 DEF RecvFails, RecvThrows, RespondBlind, RespondStops, RespondKilled,
                  Halt, kernel, tables
  <2>5. QED
      BY <2>1, <2>2, <2>3, <2>4 DEF ServeClient
<1>4. /\ sock'[fd] = None => age'[fd] = 0
      /\ sock'[fd] # None =>
            /\ age'[fd] >= timeout'[fd]
            /\ age'[fd] <= timeout'[fd] + (IF requests'[fd] = None THEN 0 ELSE MaxTimeout)
  <2>0. ASSUME pos' = Advance(pollFds)
        PROVE  Served(fd)
      BY <1>1, <2>0 DEF Served, Advance, Scanning
  <2>1. CASE TimeoutClient(fd) \/ HangUp(fd) \/ RecvEof(fd) \/ RespondAll(fd)
    <3>1. sock'[fd] = None
        BY <2>1 DEF TimeoutClient, HangUp, RecvEof, RespondAll, RemoveClient, Ind, TypeOK
    <3>2. QED
        BY <3>1 DEF Clocks
  <2>2. CASE SkipClient(fd) \/ RespondPart(fd)
    <3>1. /\ ~Expired(fd)
          /\ pos' = Advance(pollFds)
          /\ sock' = sock
          /\ requests' = requests
          /\ timeout'[fd] = timeout[fd] + 1
        BY <2>2 DEF SkipClient, RespondPart, Responding, Tick, kernel, Ind, TypeOK
    <3>2. QED
        BY <1>1, <2>0, <3>1, AgeServed
  <2>3. CASE RecvData(fd)
    <3>1. PICK r \in Parsed(fd, sock[fd]) : requests' = [requests EXCEPT ![fd] = r]
        BY <2>3 DEF RecvData
    <3>2. r # None
      <4>1. Current(fd, sock[fd]) \in Request
          BY <1>1, FreshType DEF Current, Ind, TypeOK
      <4>2. r \in ReadHeader(Current(fd, sock[fd])) \cup AddBody(Current(fd, sock[fd]))
          BY DEF Parsed
      <4>3. QED
          BY <4>1, <4>2, ParsedType, NoneAssumption
    <3>3. /\ ~Expired(fd)
          /\ pos' = Advance(pollFds)
          /\ sock' = sock
          /\ requests'[fd] # None
          /\ timeout'[fd] = IF requests[fd] = None THEN 0 ELSE timeout[fd] + 1
        BY <2>3, <3>1, <3>2 DEF RecvData, Receiving, Restart, Ind, TypeOK
    <3>4. QED
        BY <1>1, <2>0, <3>3, AgeServed
  <2>4. CASE \/ RecvFails(fd) \/ RecvThrows(fd) \/ RespondBlind(fd)
             \/ RespondStops(fd) \/ RespondKilled(fd)
    <3>1. UNCHANGED <<pos, sock, timeout, requests>>
        BY <2>4 DEF RecvFails, RecvThrows, RespondBlind, RespondStops, RespondKilled,
                    Halt, kernel, tables
    <3>2. QED
        BY <1>1, <3>1, AgeKept DEF Served
  <2>5. QED
      BY <2>1, <2>2, <2>3, <2>4 DEF ServeClient
<1>5. \A g \in Fds : g # fd =>
         /\ sock'[g] = None => age'[g] = 0
         /\ sock'[g] # None =>
               /\ age'[g] >= timeout'[g]
               /\ age'[g] <= timeout'[g] + (IF requests'[g] = None THEN 0 ELSE MaxTimeout)
    BY <1>2, <1>3, AgeKept
<1>6. AgeType'
    BY DEF Clocks, Aged, AgeType
<1>7. ClosedAge' /\ AgeBound'
    BY <1>4, <1>5 DEF ClosedAge, AgeBound
<1>8. QED
    BY <1>6, <1>7 DEF Aged

LEMMA StepAged == Ind /\ Aged /\ [TimedNext]_timedVars => Aged'
<1> SUFFICES ASSUME Ind, Aged, [TimedNext]_timedVars PROVE Aged'
    OBVIOUS
<1>1. CASE UNCHANGED timedVars
    BY <1>1 DEF timedVars, vars, kernel, tables, Aged, AgeType, ClosedAge, AgeBound
<1>2. CASE TimedNext
  <2>1. ASSUME NEW fd \in Fds, ServeClient(fd)
        PROVE  Aged'
      BY <1>2, <2>1, ClientAged DEF TimedNext
  <2>2. QED
      BY <1>2, <2>1, OthersAged DEF TimedNext, Next, Loop
<1>3. QED
    BY <1>1, <1>2

\* _timeout never runs ahead of the scans of its own client, whoever had the
\* descriptor before, and falls behind them by one restart at most: a client
\* is scanned at most MaxTimeout times before its first bytes, and MaxTimeout
\* times after.
THEOREM AgeBoundCorrect == TimedSpec => []AgeBound
<1>1. Aged => AgeBound
    BY DEF Aged
<1>2. QED
    BY TimedInd, InitAged, StepAged, <1>1, PTL DEF TimedSpec

=============================================================================
