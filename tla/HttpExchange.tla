---------------------------- MODULE HttpExchange ----------------------------
(***************************************************************************)
(* One request of a client to a server: the callbacks of the two Simple-   *)
(* Web-Server classes, with the timers of the server and the second try of *)
(* the client.  Both io_services run on one thread, so a callback is a     *)
(* step.  The client opens a connection per request, has no time limits    *)
(* (Config::timeout is 0), and a second connection is its last.  On one    *)
(* machine a connection breaks only when the server closes it or dies.     *)
(***************************************************************************)
EXTENDS Naturals, FiniteSets

CONSTANTS Requests,    \* kinds of request: get, post, throwing, unknown
          MaxCrashes   \* bound: server processes that end

VARIABLES
    client,     \* the session of the client
    conns,      \* the connections, by number
    listening,  \* the server process runs and accepts connections
    runs,       \* how often a handler has run for the request
    crashes

vars == <<client, conns, listening, runs, crashes>>

ASSUME ExchangeAssumption ==
    Requests \subseteq {"get", "post", "throwing", "unknown"} /\ MaxCrashes \in Nat

\* A get has no content; the handler of a throwing one ends with an exception,
\* and an unknown one has none.
HasContent == client.kind = "post"

\* A connection.  up: no, open (both ends hold it) or cut; request, reply: how much
\* of each has arrived (none, head, all); session: what the server waits for (none,
\* head, content, sending, over); timer: it is set; expired: its callback is queued.
Unused == [up |-> "no", request |-> "none", reply |-> "none", session |-> "none",
           timer |-> FALSE, expired |-> FALSE]

Init ==
    /\ \E k \in Requests :
          client = [kind |-> k, pc |-> "connecting", conn |-> 1, reconnect |-> TRUE]
    /\ conns = [c \in {1, 2} |-> Unused]
    /\ listening \in BOOLEAN
    /\ runs = 0 /\ crashes = 0

SetConn(c, r) == conns' = [conns EXCEPT ![c] = r]
Mine == conns[client.conn]

-----------------------------------------------------------------------------
(* The client.  Its destructor closes what is still open. *)
Finish(o) ==
    /\ client' = [client EXCEPT !.pc = o]
    /\ SetConn(client.conn, [Mine EXCEPT !.up = IF @ = "open" THEN "cut" ELSE @])

\* connect: the port is resolved, and a server accepts or nobody listens.
Connect ==
    /\ client.pc = "connecting"
    /\ IF listening
       THEN /\ client' = [client EXCEPT !.pc = "writing"]
            /\ SetConn(client.conn, [Mine EXCEPT !.up = "open"])
       ELSE Finish("failed")
    /\ UNCHANGED <<listening, runs, crashes>>

\* async_write hands the header to the connection, and then the content.
Write ==
    /\ client.pc = "writing" /\ Mine.up = "open"
    /\ LET last == ~HasContent \/ Mine.request = "head"
       IN  /\ SetConn(client.conn, [Mine EXCEPT !.request = IF last THEN "all" ELSE "head"])
           /\ client' = [client EXCEPT !.pc = IF last THEN "reading" ELSE @]
    /\ UNCHANGED <<listening, runs, crashes>>

\* The connection is cut meanwhile: an error for the caller, or not noticed yet.
WriteLost ==
    /\ client.pc = "writing" /\ Mine.up = "cut"
    /\ \/ Finish("failed")
       \/ client' = [client EXCEPT !.pc = "reading"] /\ UNCHANGED conns
    /\ UNCHANGED <<listening, runs, crashes>>

\* The header of the response has come; the length of the rest is known.
ReadHead ==
    /\ client.pc = "reading" /\ Mine.reply # "none"
    /\ client' = [client EXCEPT !.pc = "body", !.reconnect = TRUE]
    /\ UNCHANGED <<conns, listening, runs, crashes>>

ReadBody ==
    /\ client.pc = "body" /\ Mine.reply = "all"
    /\ Finish("answered")
    /\ UNCHANGED <<listening, runs, crashes>>

\* Mutant: every connection that breaks is replaced.
ReadLostAgain ==
    /\ client.pc = "reading" /\ Mine.up = "cut"
    /\ client' = [client EXCEPT !.pc = "connecting", !.conn = 2]
    /\ conns' = [conns EXCEPT ![2] = Unused]
    /\ UNCHANGED <<listening, runs, crashes>>

\* No header, and the connection is cut: the whole request once more, over a new
\* connection, or an error if this was it.
ReadLost ==
    /\ client.pc = "reading" /\ Mine.up = "cut"
    /\ IF client.reconnect
       THEN /\ client' = [client EXCEPT !.pc = "connecting", !.conn = 2, !.reconnect = FALSE]
            /\ UNCHANGED conns
       ELSE Finish("failed")
    /\ UNCHANGED <<listening, runs, crashes>>

\* The rest is not waited for again, whatever reconnect says.
BodyLost ==
    /\ client.pc = "body" /\ Mine.up = "cut"
    /\ Finish("failed")
    /\ UNCHANGED <<listening, runs, crashes>>

ClientNext == Connect \/ Write \/ WriteLost \/ ReadHead \/ ReadBody \/ ReadLost \/ BodyLost

-----------------------------------------------------------------------------
(* The server.  A session begins with a timer: timeout_request, 5 seconds. *)
Waiting(r, what) == [r EXCEPT !.session = what, !.timer = TRUE]

\* accept, and read_request_and_content for a new connection.
Accept(c) ==
    /\ listening /\ conns[c].up = "open" /\ conns[c].session = "none"
    /\ SetConn(c, Waiting(conns[c], "head"))
    /\ UNCHANGED <<client, listening, runs, crashes>>

\* find_resource and write_response: the handler runs, and when it lets go of
\* the response, what it wrote is sent: nothing if it threw.  If there is no
\* handler, nothing holds the session or its connection any longer.
Respond(c) ==
    IF client.kind = "unknown"
    THEN /\ SetConn(c, [conns[c] EXCEPT !.session = "over", !.timer = FALSE, !.up = "cut"])
         /\ UNCHANGED runs
    ELSE /\ SetConn(c, [Waiting(conns[c], "sending") EXCEPT !.request = "none"])
         /\ runs' = runs + 1

\* Mutant: a read that is under way survives the end of its connection.
HeadReadBlind(c) ==
    /\ conns[c].session = "head" /\ conns[c].request # "none"
    /\ \/ conns[c].request = "all" /\ Respond(c)
       \/ HasContent /\ SetConn(c, Waiting(conns[c], "content")) /\ UNCHANGED runs
    /\ UNCHANGED <<client, listening, crashes>>

\* The header has been read.  The content may be in the buffer too; if not, it
\* is waited for, 300 seconds.
HeadRead(c) ==
    /\ conns[c].session = "head" /\ conns[c].up = "open" /\ conns[c].request # "none"
    /\ \/ conns[c].request = "all" /\ Respond(c)
       \/ HasContent /\ SetConn(c, Waiting(conns[c], "content")) /\ UNCHANGED runs
    /\ UNCHANGED <<client, listening, crashes>>

ContentRead(c) ==
    /\ conns[c].session = "content" /\ conns[c].up = "open" /\ conns[c].request = "all"
    /\ Respond(c)
    /\ UNCHANGED <<client, listening, crashes>>

\* send writes the response, as far as the connection takes it.
Send(c) ==
    /\ conns[c].session = "sending" /\ conns[c].up = "open"
    /\ client.kind # "throwing" /\ conns[c].reply # "all"
    /\ SetConn(c, [conns[c] EXCEPT !.reply = IF @ = "none" THEN "head" ELSE "all"])
    /\ UNCHANGED <<client, listening, runs, crashes>>

\* Mutant: the next request is waited for without a timer.
SentUntimed(c) ==
    /\ conns[c].session = "sending" /\ conns[c].up = "open"
    /\ client.kind = "throwing" \/ conns[c].reply = "all"
    /\ SetConn(c, [conns[c] EXCEPT !.session = "head", !.timer = FALSE])
    /\ UNCHANGED <<client, listening, runs, crashes>>

\* It has been sent, empty ones too: in HTTP/1.1 the next request is waited for.
Sent(c) ==
    /\ conns[c].session = "sending" /\ conns[c].up = "open"
    /\ client.kind = "throwing" \/ conns[c].reply = "all"
    /\ SetConn(c, Waiting(conns[c], "head"))
    /\ UNCHANGED <<client, listening, runs, crashes>>

\* A read or write fails on a connection that is cut: on_error, and the end.
Lost(c) ==
    /\ conns[c].session \in {"head", "content", "sending"} /\ conns[c].up = "cut"
    /\ SetConn(c, [conns[c] EXCEPT !.session = "over", !.timer = FALSE])
    /\ UNCHANGED <<client, listening, runs, crashes>>

\* The time is up.  From here on cancel_timeout comes too late ...
Expire(c) ==
    /\ conns[c].timer
    /\ SetConn(c, [conns[c] EXCEPT !.timer = FALSE, !.expired = TRUE])
    /\ UNCHANGED <<client, listening, runs, crashes>>

\* ... and the connection is closed whatever its session does by now.
Close(c) ==
    /\ conns[c].expired
    /\ SetConn(c, [conns[c] EXCEPT !.expired = FALSE, !.up = "cut"])
    /\ UNCHANGED <<client, listening, runs, crashes>>

ServerNext(c) ==
    \/ Accept(c) \/ HeadRead(c) \/ ContentRead(c) \/ Send(c) \/ Sent(c) \/ Lost(c)
    \/ Expire(c) \/ Close(c)

\* The server process ends, and its user may start it again.
Crash ==
    /\ listening /\ crashes < MaxCrashes
    /\ listening' = FALSE /\ crashes' = crashes + 1
    /\ conns' = [c \in {1, 2} |->
          IF conns[c].up = "no" THEN conns[c]
          ELSE [conns[c] EXCEPT !.up = "cut", !.session = "over",
                                !.timer = FALSE, !.expired = FALSE]]
    /\ UNCHANGED <<client, runs>>

Listen ==
    /\ ~listening
    /\ listening' = TRUE
    /\ UNCHANGED <<client, conns, runs, crashes>>

Next == ClientNext \/ (\E c \in {1, 2} : ServerNext(c)) \/ Crash \/ Listen

Spec     == Init /\ [][Next]_vars
FairSpec == Spec /\ WF_vars(ClientNext) /\ \A c \in {1, 2} : WF_vars(ServerNext(c))

-----------------------------------------------------------------------------
\* A connection the server still works on is never left without a time limit:
\* a timer is set or its callback is about to close the connection, or it is
\* closed and the pending read or write is about to fail.
AlwaysTimed ==
    \A c \in {1, 2} : conns[c].session \in {"head", "content", "sending"} =>
        conns[c].timer \/ conns[c].expired \/ conns[c].up = "cut"

\* When the request has been sent again, its handler no longer runs for the first
\* connection, nor for any once the caller has been told how it ended.
RunsInTurn ==
    [][runs' # runs =>
        /\ client.pc \in {"writing", "reading"}
        /\ conns'[client.conn].session # Mine.session]_vars

\* The client keeps the promise of Exchange: at most two runs, none without a
\* reason, an answer only if a handler ran, and an end in any case.
Outcome == IF client.pc \in {"answered", "failed"} THEN client.pc ELSE "pending"
Promise == INSTANCE Exchange WITH outcome <- Outcome
KeepsPromise == Promise!ExchangeSpec

\* The server gives up every connection.
SessionsEnd == \A c \in {1, 2} : conns[c].session # "none" ~> conns[c].session = "over"

=============================================================================
