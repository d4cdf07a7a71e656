-------------------------------- MODULE Dns --------------------------------
(***************************************************************************)
(* The DNS server of dns.go: Start, the serveLoop goroutine with its one   *)
(* read buffer, a handleQuery goroutine per datagram, the table of peers   *)
(* behind d.mu, the forwarding to upstream servers, and Stop.              *)
(*                                                                         *)
(* serveLoop gives every handler a slice of the same buffer and goes on    *)
(* reading into it, so a handler reads whatever the buffer holds by then.  *)
(* A read that overlaps an overwrite may see parts of both datagrams: its  *)
(* outcome is left open among the values that can be there.                *)
(***************************************************************************)
EXTENDS Naturals, Sequences, FiniteSets

CONSTANTS
    Datagrams,   \* the datagrams clients may send, a sequence
    Names,       \* names a question may hold
    NexusNames,  \* those that end in "." followed by the domain
    Wild,        \* "*." followed by the domain
    Configured,  \* host name -> address, from the peers of the configuration
    IPs,         \* addresses AddPeer may be called with
    NoIP,        \* a name that is not in the table
    Upstream,    \* the number of upstream servers, tried in order
    Reliable,    \* the upstream servers that always answer a whole query
    MaxEdits,    \* bound on the calls of AddPeer and RemovePeer
    MaxQueries   \* bound on the datagrams that arrive

\* A datagram: its id, its question, its length, and whether it is too short
\* for a header, says it has no question, or has one that does not parse or whose
\* compression pointers lead in a circle.
Query == [id : Nat, name : Names, type : {"A", "other"}, len : Nat,
          form : {"good", "short", "empty", "broken", "circle"}]

\* A query is the place of its datagram; each gets one handler.
Queries == DOMAIN Datagrams

ASSUME DnsAssumption ==
    /\ Datagrams \in Seq(Query)
    /\ NexusNames \subseteq Names /\ Wild \in NexusNames
    /\ DOMAIN Configured \subseteq NexusNames
    /\ NoIP \notin IPs \cup {"upstream"} /\ \A n \in DOMAIN Configured : Configured[n] \in IPs
    /\ Upstream \in Nat /\ Reliable \subseteq 1..Upstream
    /\ MaxEdits \in Nat /\ MaxQueries \in Nat

VARIABLES
    cancelled,  \* ctx.Done() is closed
    conn,       \* d.conn: "none" (nil), "open", "closed"
    starter,    \* the caller of Start: "idle", "populate", "returned"
    todo,       \* configured peers Start has still to enter
    loop,       \* serveLoop: "none", "head", "reading", "returned"
    stopper,    \* the caller of Stop: "idle", "waiting", "done"
    peers,      \* d.peers
    edits,      \* calls of AddPeer and RemovePeer so far
    buf,        \* serveLoop's buffer: the datagram read last
    pc,         \* the handleQuery goroutine of each datagram
    racing,     \* the buffer was overwritten since the handler's last step
    work,       \* what a handler has gathered: id, name and answer
    up,         \* the upstream server a handler has got to
    reply,      \* what the client of each datagram was sent
    foreign,    \* history: a handler has read a buffer that is not its own
    window,     \* history: the tables d.peers has been since the datagram came
    removed     \* history: the names RemovePeer was called with

serverVars == <<cancelled, conn, starter, todo, loop, stopper>>
tableVars == <<peers, edits, window, removed>>
handlerVars == <<pc, work, up, reply, foreign>>
vars == <<serverVars, tableVars, handlerVars, buf, racing>>

Tables == [NexusNames -> IPs \cup {NoIP}]

Blank == [id |-> 0, name |-> Wild, ans |-> {}]

\* No reply yet: no table gives NoIP for an answer.
NoReply == [Blank EXCEPT !.ans = {NoIP}]

\* make([]byte, 4096): a header that counts no question.
ZeroBuf == [id |-> 0, name |-> Wild, type |-> "other", len |-> 0, form |-> "empty"]

Live(q) == pc[q] \notin {"none", "done"}

\* A stack that overflows ends the whole process.
Alive == \A q \in Queries : pc[q] # "overflow"

Init ==
    /\ cancelled = FALSE /\ conn = "none" /\ starter = "idle"
    /\ todo = DOMAIN Configured /\ loop = "none" /\ stopper = "idle"
    /\ peers = [n \in NexusNames |-> NoIP] /\ edits = 0 /\ removed = {}
    /\ buf = ZeroBuf
    /\ pc = [q \in Queries |-> "none"]
    /\ racing = [q \in Queries |-> FALSE]
    /\ work = [q \in Queries |-> Blank]
    /\ up = [q \in Queries |-> 1]
    /\ reply = [q \in Queries |-> NoReply]
    /\ foreign = [q \in Queries |-> FALSE]
    /\ window = [q \in Queries |-> {}]

-----------------------------------------------------------------------------
(* The table.                                                              *)

SetRecord(n, ip) ==
    /\ peers' = [peers EXCEPT ![n] = ip]
    /\ window' = [q \in Queries |-> IF Live(q) THEN window[q] \cup {peers'} ELSE window[q]]

AddPeer(n, ip) ==
    /\ edits < MaxEdits /\ edits' = edits + 1
    /\ SetRecord(n, ip)
    /\ UNCHANGED <<serverVars, handlerVars, buf, racing, removed>>

RemovePeer(n) ==
    /\ edits < MaxEdits /\ edits' = edits + 1
    /\ SetRecord(n, NoIP)
    /\ removed' = removed \cup {n}
    /\ UNCHANGED <<serverVars, handlerVars, buf, racing>>

-----------------------------------------------------------------------------
(* The life cycle.                                                         *)

\* Start binds the socket; a failure returns the error and changes nothing.
Start ==
    /\ starter = "idle" /\ stopper = "idle"
    /\ conn' = "open" /\ starter' = "populate"
    /\ UNCHANGED <<cancelled, todo, loop, stopper, tableVars, handlerVars, buf, racing>>

\* One round of the loop over cfg.Peers.
Populate(n) ==
    /\ starter = "populate" /\ n \in todo
    /\ todo' = todo \ {n}
    /\ SetRecord(n, Configured[n])
    /\ UNCHANGED <<cancelled, conn, starter, loop, stopper, handlerVars, buf, racing,
                   edits, removed>>

\* Mutant: serveLoop is spawned before the records are entered.
SpawnEarly ==
    /\ starter = "populate" /\ loop = "none"
    /\ loop' = "head"
    /\ UNCHANGED <<cancelled, conn, starter, todo, stopper, tableVars, handlerVars, buf,
                   racing>>

\* The records are entered: Start spawns serveLoop and returns.
Spawn ==
    /\ starter = "populate" /\ todo = {}
    /\ starter' = "returned" /\ loop' = "head"
    /\ UNCHANGED <<cancelled, conn, todo, stopper, tableVars, handlerVars, buf, racing>>

Cancel ==
    /\ ~cancelled /\ cancelled' = TRUE
    /\ UNCHANGED <<conn, starter, todo, loop, stopper, tableVars, handlerVars, buf, racing>>

\* Stop, called once Start has returned or in its place, closes the socket and
\* waits for serveLoop.
Stop ==
    /\ stopper = "idle" /\ starter # "populate"
    /\ stopper' = "waiting"
    /\ conn' = IF conn = "open" THEN "closed" ELSE conn
    /\ UNCHANGED <<cancelled, starter, todo, loop, tableVars, handlerVars, buf, racing>>

\* d.wg counts serveLoop only, none of the handlers.
StopReturns ==
    /\ stopper = "waiting" /\ loop \in {"none", "returned"}
    /\ stopper' = "done"
    /\ UNCHANGED <<cancelled, conn, starter, todo, loop, tableVars, handlerVars, buf,
                   racing>>

-----------------------------------------------------------------------------
(* serveLoop.                                                              *)

\* Mutant: the loop does not look at the context.
NeverDone == FALSE

\* case <-ctx.Done() of either select.
Done == cancelled

LoopHead ==
    /\ loop = "head"
    /\ loop' = IF Done THEN "returned" ELSE "reading"
    /\ UNCHANGED <<cancelled, conn, starter, todo, stopper, tableVars, handlerVars, buf,
                   racing>>

\* ReadFromUDP fails: after a second without a datagram, or at once on a closed
\* socket.  Only the second looks at the context before going round again.
ReadError ==
    /\ loop = "reading"
    /\ loop' = IF conn = "closed" /\ Done THEN "returned" ELSE "head"
    /\ UNCHANGED <<cancelled, conn, starter, todo, stopper, tableVars, handlerVars, buf,
                   racing>>

Received == {q \in Queries : pc[q] # "none"}

\* A datagram arrives: it overwrites the buffer every handler has a slice of,
\* and gets a handler of its own.  One shorter than a header leaves the rest
\* of the buffer as it was.
Receive(q) ==
    /\ loop = "reading" /\ conn = "open" /\ pc[q] = "none"
    /\ Cardinality(Received) < MaxQueries
    /\ loop' = "head"
    /\ buf' = IF Datagrams[q].form = "short" THEN [buf EXCEPT !.id = Datagrams[q].id] ELSE Datagrams[q]
    /\ racing' = [p \in Queries |-> racing[p] \/ Live(p)]
    /\ pc' = [pc EXCEPT ![q] = "header"]
    /\ window' = [window EXCEPT ![q] = {peers}]
    /\ UNCHANGED <<cancelled, conn, starter, todo, stopper, peers, edits, removed, work,
                   up, reply, foreign>>

-----------------------------------------------------------------------------
(* handleQuery.  A read of the slice sees the datagram in the buffer, or,  *)
(* when it overlaps ReadFromUDP, parts of several received ones.           *)

Ids(q) == IF racing[q] THEN {Datagrams[p].id : p \in Received} \cup {buf.id} ELSE {buf.id}

Texts(q) == IF racing[q] THEN Names ELSE {buf.name}

Kinds(q) == IF racing[q] THEN {"A", "other"} ELSE {buf.type}

Forms(q) == IF racing[q] THEN {Datagrams[p].form : p \in Received} \cup {"broken", "circle"}
            ELSE {buf.form}

\* The slice has the length of the handler's own datagram: a longer one that has
\* taken its place is cut.
Cut(q) == racing[q] \/ buf.len > Datagrams[q].len

Saw(q) == foreign' = [foreign EXCEPT ![q] = @ \/ racing[q] \/ buf # Datagrams[q]]

Goto(q, label) == /\ pc' = [pc EXCEPT ![q] = label]
                  /\ racing' = [racing EXCEPT ![q] = FALSE]

\* len(data) < 12: return.
TooShort(q) ==
    /\ pc[q] = "header" /\ Datagrams[q].form = "short"
    /\ Goto(q, "done")
    /\ UNCHANGED <<serverVars, tableVars, buf, work, up, reply, foreign>>

\* The id and the question count.  Without a question the handler returns.
ReadHeader(q) ==
    /\ pc[q] = "header" /\ Datagrams[q].form # "short"
    /\ Saw(q)
    /\ \E i \in Ids(q), f \in Forms(q) :
          /\ work' = [work EXCEPT ![q].id = i]
          /\ Goto(q, IF f = "empty" THEN "done" ELSE "question")
    /\ UNCHANGED <<serverVars, tableVars, buf, up, reply>>

\* The question section parses: an A question under the domain is looked up
\* here, any other goes to the upstream servers.
ReadQuestion(q) ==
    /\ pc[q] = "question"
    /\ Saw(q)
    /\ \E f \in Forms(q) : f \notin {"broken", "circle"}
    /\ racing[q] \/ ~Cut(q)
    /\ \E n \in Texts(q), t \in Kinds(q) :
          /\ work' = [work EXCEPT ![q].name = n]
          /\ Goto(q, IF n \in NexusNames /\ t = "A" THEN "lookup" ELSE "forward")
    /\ UNCHANGED <<serverVars, tableVars, buf, up, reply>>

\* A name or a question that does not end inside the slice: return.
BadQuestion(q) ==
    /\ pc[q] = "question"
    /\ Saw(q)
    /\ "broken" \in Forms(q) \/ Cut(q)
    /\ Goto(q, "done")
    /\ UNCHANGED <<serverVars, tableVars, buf, work, up, reply>>

\* A pointer leads back to where it was met: parseDNSName calls itself until the
\* stack is at its limit.
Overflow(q) ==
    /\ pc[q] = "question"
    /\ Saw(q)
    /\ "circle" \in Forms(q)
    /\ Goto(q, "overflow")
    /\ UNCHANGED <<serverVars, tableVars, buf, work, up, reply>>

\* The first locked section of handleNexusQuery.
Lookup(q) ==
    /\ pc[q] = "lookup"
    /\ LET n == work[q].name
       IN  IF peers[n] # NoIP
           THEN work' = [work EXCEPT ![q].ans = {peers[n]}] /\ Goto(q, "respond")
           ELSE UNCHANGED work /\ Goto(q, IF n = Wild THEN "wildcard" ELSE "respond")
    /\ UNCHANGED <<serverVars, tableVars, buf, up, reply, foreign>>

\* The answer to a wildcard query: every address in the table.
AllIPs(table) == {table[n] : n \in NexusNames} \ {NoIP}

\* Mutant: the table is walked without the lock, and an entry may be missed.
WildcardUnlocked(q) ==
    /\ pc[q] = "wildcard"
    /\ \E found \in SUBSET AllIPs(peers) : work' = [work EXCEPT ![q].ans = found]
    /\ Goto(q, "respond")
    /\ UNCHANGED <<serverVars, tableVars, buf, up, reply, foreign>>

\* The second locked section, for a wildcard query only.
Wildcard(q) ==
    /\ pc[q] = "wildcard"
    /\ work' = [work EXCEPT ![q].ans = AllIPs(peers)]
    /\ Goto(q, "respond")
    /\ UNCHANGED <<serverVars, tableVars, buf, up, reply, foreign>>

\* WriteToUDP, which fails on a closed socket; its error is ignored.
WriteToUDP(q, r) == reply' = IF conn = "open" THEN [reply EXCEPT ![q] = r] ELSE reply

\* Mutant: the id is read from the packet again when the response is built.
RespondRereading(q) ==
    /\ pc[q] = "respond"
    /\ WriteToUDP(q, [work[q] EXCEPT !.id = buf.id])
    /\ Goto(q, "done")
    /\ UNCHANGED <<serverVars, tableVars, buf, work, up, foreign>>

\* buildResponse, buildMultiResponse, or buildNXDOMAIN when there is no address:
\* all three echo the saved id and name.
Respond(q) ==
    /\ pc[q] = "respond"
    /\ WriteToUDP(q, work[q])
    /\ Goto(q, "done")
    /\ UNCHANGED <<serverVars, tableVars, buf, work, up, foreign>>

-----------------------------------------------------------------------------
(* forwardToUpstream.                                                      *)

\* The answer of an upstream server, told apart from addresses in the table.
External == {"upstream"}

\* The next upstream server gets the slice as it now is: its id and name are
\* those the answer will carry.  A cut datagram is not a whole query.
Forward(q) ==
    /\ pc[q] = "forward" /\ up[q] <= Upstream
    /\ Saw(q)
    /\ \E i \in Ids(q), n \in Texts(q), whole \in BOOLEAN :
          /\ whole => racing[q] \/ ~Cut(q)
          /\ ~whole => Cut(q)
          /\ work' = [work EXCEPT ![q] = [id |-> i, name |-> n, ans |-> External]]
          /\ Goto(q, IF whole THEN "await" ELSE "awaitCut")
    /\ UNCHANGED <<serverVars, tableVars, buf, up, reply>>

\* The answer arrives within three seconds and is handed on.
UpstreamAnswers(q) ==
    /\ pc[q] \in {"await", "awaitCut"}
    /\ WriteToUDP(q, work[q])
    /\ Goto(q, "done")
    /\ UNCHANGED <<serverVars, tableVars, buf, work, up, foreign>>

\* Mutant: the first failure ends the forwarding.
UpstreamFailsForGood(q) ==
    /\ \/ pc[q] = "forward" /\ up[q] \in (1..Upstream) \ Reliable
       \/ pc[q] = "await" /\ up[q] \notin Reliable
       \/ pc[q] = "awaitCut"
    /\ Goto(q, "done")
    /\ UNCHANGED <<serverVars, tableVars, buf, work, up, reply, foreign>>

\* Mutant: the same server is asked again.
UpstreamRetries(q) ==
    /\ \/ pc[q] = "await" /\ up[q] \notin Reliable
       \/ pc[q] = "awaitCut"
    /\ Goto(q, "forward")
    /\ UNCHANGED <<serverVars, tableVars, buf, work, up, reply, foreign>>

\* The dial fails, or no answer comes in time: on to the next server.
UpstreamFails(q) ==
    /\ \/ pc[q] = "forward" /\ up[q] \in (1..Upstream) \ Reliable
       \/ pc[q] = "await" /\ up[q] \notin Reliable
       \/ pc[q] = "awaitCut"
    /\ up' = [up EXCEPT ![q] = @ + 1]
    /\ Goto(q, "forward")
    /\ UNCHANGED <<serverVars, tableVars, buf, work, reply, foreign>>

\* No server is left: the client gets no answer.
AllFailed(q) ==
    /\ pc[q] = "forward" /\ up[q] > Upstream
    /\ Goto(q, "done")
    /\ UNCHANGED <<serverVars, tableVars, buf, work, up, reply, foreign>>

Handler(q) ==
    \/ TooShort(q) \/ ReadHeader(q) \/ ReadQuestion(q) \/ BadQuestion(q) \/ Overflow(q)
    \/ Lookup(q) \/ Wildcard(q) \/ Respond(q)
    \/ Forward(q) \/ UpstreamAnswers(q) \/ UpstreamFails(q) \/ AllFailed(q)

Next ==
    /\ Alive
    /\ \/ Start \/ Spawn \/ Cancel \/ Stop \/ StopReturns \/ LoopHead \/ ReadError
       \/ \E n \in DOMAIN Configured : Populate(n)
       \/ \E n \in NexusNames : RemovePeer(n) \/ \E ip \in IPs : AddPeer(n, ip)
       \/ \E q \in Queries : Receive(q) \/ Handler(q)

Spec == Init /\ [][Next]_vars

\* The Go scheduler runs every goroutine that can go on: serveLoop, whose reads
\* end after a second, the handlers, whose waits end after three, and Stop's
\* caller.  Nothing is asked of clients or of the callers of the other methods.
\* A handler takes finitely many steps, so fairness to all of them together is
\* enough.
FairSpec ==
    /\ Spec
    /\ WF_vars(Alive /\ StopReturns) /\ WF_vars(Alive /\ (LoopHead \/ ReadError))
    /\ WF_vars(Alive /\ \E q \in Queries : Handler(q))

-----------------------------------------------------------------------------
(* Properties.                                                             *)

\* Types; a handler asks the upstream servers one after the other and gives up
\* right after the last.
TypeOK ==
    /\ cancelled \in BOOLEAN
    /\ conn \in {"none", "open", "closed"}
    /\ starter \in {"idle", "populate", "returned"}
    /\ todo \subseteq DOMAIN Configured
    /\ loop \in {"none", "head", "reading", "returned"}
    /\ stopper \in {"idle", "waiting", "done"}
    /\ peers \in Tables /\ edits \in 0..MaxEdits /\ removed \subseteq NexusNames
    /\ buf \in Query
    /\ pc \in [Queries -> {"none", "header", "question", "overflow", "lookup", "wildcard",
                           "respond", "forward", "await", "awaitCut", "done"}]
    /\ racing \in [Queries -> BOOLEAN] /\ foreign \in [Queries -> BOOLEAN]
    /\ \A q \in Queries : up[q] \in 1..(Upstream + 1) /\ window[q] \subseteq Tables
    /\ \A q \in Queries : {work[q].name, reply[q].name} \subseteq Names

\* What a name means in one state of the table.
Resolve(table, n) ==
    IF n = Wild /\ table[n] = NoIP THEN AllIPs(table) ELSE {table[n]} \ {NoIP}

Replied(q) == reply[q] # NoReply

\* A client whose datagram stayed in the buffer while its handler read it gets
\* the answer to its own question under its own id, however the other handlers
\* and the reads into the shared buffer interleave with the rest of the work.
OwnAnswer ==
    \A q \in Queries :
        Replied(q) /\ ~foreign[q] => reply[q].id = Datagrams[q].id /\ reply[q].name = Datagrams[q].name

\* What the two locked sections make of the tables there were: the answer of one of
\* them, or, when AddPeer gives the wildcard a record of its own between the
\* sections, all the addresses of one, after another without that record.
FromTable(tables, n, ans) ==
    \E table \in tables :
        \/ ans = Resolve(table, n)
        \/ n = Wild /\ ans = AllIPs(table) /\ \E before \in tables : before[Wild] = NoIP

\* Every answer from the table, NXDOMAIN and the wildcard's included, is what the
\* whole table said at one moment between the datagram's arrival and the reply,
\* although handleNexusQuery takes the lock twice; only a wildcard that gets a
\* record meanwhile is still answered with all the addresses of one moment.
AnswerWasTrue ==
    \A q \in Queries :
        Replied(q) /\ reply[q].ans # External
            => FromTable(window[q], reply[q].name, reply[q].ans)

\* A peer of the configuration is never denied, from the first query on, unless
\* its record has been removed.
ConfiguredResolves ==
    \A q \in Queries :
        Replied(q) /\ reply[q].name \in DOMAIN Configured \ removed => reply[q].ans # {}

\* A well-formed query that its handler read intact is answered as long as the
\* socket is open, by way of a later upstream server when earlier ones fail.
Answered ==
    \A q \in Queries :
        /\ pc[q] = "done" /\ conn = "open"
        /\ Datagrams[q].form = "good" /\ ~foreign[q] /\ Reliable # {}
        => Replied(q)

\* No handler goroutine lives for ever, whatever it finds in the buffer and
\* whichever upstream servers stay silent: each one ends, or the pointers it reads
\* lead in a circle and the process ends with it.
HandlersFinish == <>[](Alive => \A q \in Queries : ~Live(q))

\* Stop returns once the context is cancelled, in a process that lives.
StopTerminates == (stopper = "waiting" /\ cancelled) ~> (stopper = "done" \/ ~Alive)
=============================================================================
