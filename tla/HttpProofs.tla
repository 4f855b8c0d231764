------------------------------ MODULE HttpProofs ------------------------------
(***************************************************************************)
(* Safety of one HTTP request, its timers and its second try, however      *)
(* often the server dies.                                                  *)
(***************************************************************************)
EXTENDS HttpExchange, FiniteSetTheorems, TLAPS

Busy == {"head", "content", "sending"}

Client ==
    [kind : {"get", "post", "throwing", "unknown"},
     pc : {"connecting", "writing", "reading", "body", "answered", "failed"},
     conn : {1, 2}, reconnect : BOOLEAN]

Conn ==
    [up : {"no", "open", "cut"}, request : {"none", "head", "all"},
     reply : {"none", "head", "all"}, session : {"none", "over"} \cup Busy,
     timer : BOOLEAN, expired : BOOLEAN]

Shape ==
    /\ client \in Client /\ conns \in [{1, 2} -> Conn]
    /\ runs \in Nat

\* The handler has run, and its response is on its way or has arrived.
Served(r) == r.session = "sending" \/ r.reply # "none"

\* A connection r with the number c, for a client cl and a number n of runs.
ConnInv(c, r, cl, n) ==
    /\ r.up = "no" => r.session = "none" /\ r.request = "none" /\ r.reply = "none"
                      /\ ~r.timer /\ ~r.expired
    /\ r.up = "open" => c = cl.conn /\ cl.pc \in {"writing", "reading", "body"}
    /\ c > cl.conn \/ (c = cl.conn /\ cl.pc = "connecting") => r.up = "no"
    /\ r.session \in Busy => r.timer \/ r.expired \/ r.up = "cut"
    /\ Served(r) => r.request = "none" /\ n > 0
    /\ c = cl.conn /\ cl.pc = "writing" => r.request # "all" /\ ~Served(r)
    /\ c = cl.conn /\ cl.pc \in {"body", "answered"} => r.reply # "none"

\* A second connection is the last, and there is no run of the handler to come
\* once the request has been taken off the connection.
ClientInv ==
    /\ client.conn = 2 /\ client.pc \in {"connecting", "writing", "reading"} => ~client.reconnect
    /\ runs <= client.conn
    /\ client.pc \in {"connecting", "writing"} \/ Mine.request # "none" => runs < client.conn

Inv ==
    /\ Shape /\ ClientInv
    /\ \A c \in {1, 2} : ConnInv(c, conns[c], client, runs)

-----------------------------------------------------------------------------
LEMMA InitInv == Init => Inv
<1> SUFFICES ASSUME Init
             PROVE  Inv
    OBVIOUS
<1>1. Unused \in Conn
    BY DEF Unused, Conn, Busy
<1>2. PICK k \in Requests :
         client = [kind |-> k, pc |-> "connecting", conn |-> 1, reconnect |-> TRUE]
    BY DEF Init
<1>3. client \in Client
    BY <1>2, ExchangeAssumption DEF Client
<1>4. conns = [c \in {1, 2} |-> Unused] /\ runs = 0
    BY DEF Init
<1> QED
    BY <1>1, <1>2, <1>3, <1>4
    DEF Inv, Shape, ClientInv, ConnInv, Mine, Unused, Served, Busy

\* Steps of the client: its connection becomes r, or stays.
LEMMA ClientStep ==
    ASSUME Inv, NEW cl \in Client, client' = cl, NEW r \in Conn,
           SetConn(client.conn, r), UNCHANGED runs,
           cl.conn = client.conn,
           client.pc \in {"connecting", "writing", "reading", "body"},
           ConnInv(client.conn, r, cl, runs),
           ClientInv'
    PROVE  Inv'
<1>1. conns' = [conns EXCEPT ![client.conn] = r] /\ client.conn \in {1, 2}
    BY DEF SetConn, Inv, Shape, Client
<1>2. conns'[client.conn] = r /\ \A c \in {1, 2} : c # client.conn => conns'[c] = conns[c]
    BY <1>1 DEF Inv, Shape
<1>3. Shape'
    BY <1>1 DEF Inv, Shape
<1>4. ASSUME NEW c \in {1, 2}
      PROVE  ConnInv(c, conns'[c], client', runs')
    <2>1. CASE c = client.conn
        BY <1>2, <2>1
    <2>2. CASE c # client.conn
        BY <1>2, <2>2 DEF Inv, ConnInv
    <2> QED
        BY <2>1, <2>2
<1> QED
    BY <1>3, <1>4 DEF Inv

LEMMA FinishInv ==
    ASSUME Inv, NEW o \in {"answered", "failed"}, Finish(o), UNCHANGED runs,
           client.pc \in {"connecting", "writing", "reading", "body"},
           o = "answered" => client.pc = "body"
    PROVE  Inv'
<1> DEFINE cl == [client EXCEPT !.pc = o]
           r  == [Mine EXCEPT !.up = IF Mine.up = "open" THEN "cut" ELSE Mine.up]
<1>1. client \in Client /\ Mine \in Conn /\ client.conn \in {1, 2}
    BY DEF Inv, Shape, Client, Mine
<1>2. cl \in Client /\ cl.conn = client.conn /\ cl.pc = o /\ client' = cl
      /\ cl.reconnect = client.reconnect
    BY <1>1 DEF Client, Finish
<1>3. r \in Conn /\ SetConn(client.conn, r)
    BY <1>1 DEF Conn, Finish
<1>4. ConnInv(client.conn, Mine, client, runs)
    BY <1>1 DEF Inv, Mine
<1>5. ConnInv(client.conn, r, cl, runs)
    BY <1>1, <1>2, <1>4 DEF ConnInv, Served, Conn
<1>6. Mine'.request = Mine.request
    BY <1>1, <1>2, <1>3 DEF Mine, SetConn, Inv, Shape, Conn
<1>7. ClientInv'
    BY <1>2, <1>6 DEF Inv, ClientInv
<1> HIDE DEF cl, r
<1> QED
    BY <1>2, <1>3, <1>5, <1>7, ClientStep

LEMMA ClientInvStep ==
    ASSUME Inv, ClientNext
    PROVE  Inv'
<1>1. client \in Client /\ Mine \in Conn /\ client.conn \in {1, 2}
    BY DEF Inv, Shape, Client, Mine
<1>2. ConnInv(client.conn, Mine, client, runs)
    BY <1>1 DEF Inv, Mine
<1>3. CASE (Connect /\ ~listening) \/ ReadBody \/ BodyLost
           \/ (WriteLost /\ Finish("failed")) \/ (ReadLost /\ ~client.reconnect)
    BY <1>3, FinishInv DEF Connect, ReadBody, BodyLost, WriteLost, ReadLost
<1>4. CASE Connect /\ listening
    <2> DEFINE cl == [client EXCEPT !.pc = "writing"]
               r  == [Mine EXCEPT !.up = "open"]
    <2>1. cl \in Client /\ cl.conn = client.conn /\ cl.pc = "writing" /\ client' = cl
          /\ cl.reconnect = client.reconnect
        BY <1>1, <1>4 DEF Client, Connect
    <2>2. r \in Conn /\ SetConn(client.conn, r) /\ UNCHANGED runs /\ client.pc = "connecting"
        BY <1>1, <1>4 DEF Conn, Connect
    <2>3. ConnInv(client.conn, r, cl, runs)
        BY <1>1, <1>2, <2>1, <2>2 DEF ConnInv, Served, Conn, Busy
    <2>4. ClientInv'
        BY <2>1, <2>2 DEF Inv, ClientInv
    <2> HIDE DEF cl, r
    <2> QED
        BY <2>1, <2>2, <2>3, <2>4, ClientStep
<1>5. CASE Write
    <2> DEFINE last == ~HasContent \/ Mine.request = "head"
               cl == [client EXCEPT !.pc = IF last THEN "reading" ELSE client.pc]
               r  == [Mine EXCEPT !.request = IF last THEN "all" ELSE "head"]
    <2>1. cl \in Client /\ cl.conn = client.conn /\ cl.pc \in {"writing", "reading"}
          /\ (last => cl.pc = "reading") /\ client' = cl
          /\ cl.reconnect = client.reconnect
        BY <1>1, <1>5 DEF Client, Write
    <2>2. r \in Conn /\ SetConn(client.conn, r) /\ UNCHANGED runs /\ client.pc = "writing"
          /\ Mine.up = "open"
        BY <1>1, <1>5 DEF Conn, Write
    <2>3. ConnInv(client.conn, r, cl, runs)
        BY <1>1, <1>2, <2>1, <2>2 DEF ConnInv, Served, Conn, Busy
    <2>4. ClientInv'
        BY <2>1, <2>2 DEF Inv, ClientInv
    <2> HIDE DEF last, cl, r
    <2> QED
        BY <2>1, <2>2, <2>3, <2>4, ClientStep
<1>6. CASE (WriteLost /\ UNCHANGED conns) \/ ReadHead
    <2>1. client' \in Client /\ client'.conn = client.conn /\ UNCHANGED <<conns, runs>>
        BY <1>1, <1>6 DEF Client, WriteLost, ReadHead, Finish
    <2>2. Shape' /\ ClientInv'
        BY <1>1, <1>6, <2>1 DEF Inv, Shape, ClientInv, Mine, Client, WriteLost, ReadHead, Finish
    <2>3. ASSUME NEW c \in {1, 2}
          PROVE  ConnInv(c, conns[c], client', runs)
        <3>1. CASE WriteLost /\ UNCHANGED conns
            BY <1>1, <2>1, <2>3, <3>1 DEF Inv, ConnInv, Mine, WriteLost, Finish, Client
        <3>2. CASE ReadHead
            BY <1>1, <2>1, <2>3, <3>2 DEF Inv, ConnInv, Mine, ReadHead, Client
        <3> QED
            BY <1>6, <3>1, <3>2
    <2> QED
        BY <2>1, <2>2, <2>3 DEF Inv
<1>7. CASE ReadLost /\ client.reconnect
    <2>1. client' = [client EXCEPT !.pc = "connecting", !.conn = 2, !.reconnect = FALSE]
          /\ UNCHANGED <<conns, runs>> /\ client.pc = "reading" /\ Mine.up = "cut"
        BY <1>7 DEF ReadLost
    <2>2. client' \in Client /\ client'.pc = "connecting" /\ client'.conn = 2
          /\ ~client'.reconnect
        BY <1>1, <2>1 DEF Client
    <2>3. client.conn = 1
        BY <1>1, <1>7, <2>1 DEF Inv, ClientInv
    <2>4. Shape' /\ ClientInv'
        BY <2>1, <2>2, <2>3 DEF Inv, Shape, ClientInv
    <2>5. ASSUME NEW c \in {1, 2}
          PROVE  ConnInv(c, conns[c], client', runs)
        BY <2>1, <2>2, <2>3 DEF Inv, ConnInv, Mine, Served
    <2> QED
        BY <2>1, <2>4, <2>5 DEF Inv
<1> QED
    BY <1>3, <1>4, <1>5, <1>6, <1>7 DEF ClientNext, WriteLost, Connect, ReadLost

-----------------------------------------------------------------------------
\* A handler that runs takes the only copy of the request, for a client that waits.
LEMMA RespondFacts ==
    ASSUME Inv, NEW c \in {1, 2}, conns[c].up = "open", conns[c].request = "all"
    PROVE  c = client.conn /\ client.pc = "reading" /\ runs < client.conn
<1>1. ConnInv(c, conns[c], client, runs) /\ client \in Client
    BY DEF Inv, Shape
<1>2. c = client.conn /\ client.pc = "reading"
    BY <1>1 DEF ConnInv, Served
<1> QED
    BY <1>2 DEF Inv, ClientInv, Mine

\* Steps of the server: a connection becomes r.
LEMMA ServerStep ==
    ASSUME Inv, NEW c \in {1, 2}, NEW r \in Conn, SetConn(c, r), UNCHANGED client,
           runs' = runs \/ runs' = runs + 1,
           ConnInv(c, r, client, runs'),
           r.request # "none" => r.request = conns[c].request,
           runs' # runs => c = client.conn /\ client.pc = "reading"
                           /\ runs < client.conn /\ r.request = "none"
    PROVE  Inv'
<1>1. conns' = [conns EXCEPT ![c] = r]
    BY DEF SetConn
<1>2. conns'[c] = r /\ \A d \in {1, 2} : d # c => conns'[d] = conns[d]
    BY <1>1 DEF Inv, Shape
<1>3. Shape'
    BY <1>1 DEF Inv, Shape
<1>4. ASSUME NEW d \in {1, 2}
      PROVE  ConnInv(d, conns'[d], client, runs')
    <2>1. CASE d = c
        BY <1>2, <2>1
    <2>2. CASE d # c
        BY <1>2, <2>2 DEF Inv, Shape, ConnInv
    <2> QED
        BY <2>1, <2>2
<1>5. ClientInv'
    <2>1. Mine'.request # "none" => Mine'.request = Mine.request
        BY <1>2 DEF Mine, Inv, Shape, Client
    <2>2. client.conn \in {1, 2} /\ runs \in Nat
        BY DEF Inv, Shape, Client
    <2>3. CASE runs' = runs
        BY <2>1, <2>3 DEF Inv, ClientInv
    <2>4. CASE runs' # runs
        <3>1. Mine'.request = "none"
            BY <1>2, <2>4 DEF Mine
        <3> QED
            BY <2>2, <2>4, <3>1 DEF Inv, ClientInv
    <2> QED
        BY <2>3, <2>4
<1> QED
    BY <1>3, <1>4, <1>5 DEF Inv

LEMMA ServerInv ==
    ASSUME Inv, NEW c \in {1, 2}, ServerNext(c)
    PROVE  Inv'
<1>1. ConnInv(c, conns[c], client, runs) /\ conns[c] \in Conn /\ client \in Client
      /\ runs \in Nat
    BY DEF Inv, Shape
<1>2. UNCHANGED client
    BY DEF ServerNext, Accept, HeadRead, ContentRead, Send, Sent, Lost, Expire, Close
<1>3. CASE Respond(c) /\ conns[c].up = "open" /\ conns[c].request = "all"
    <2>1. c = client.conn /\ client.pc = "reading" /\ runs < client.conn
        BY <1>3, RespondFacts
    <2>2. CASE client.kind = "unknown"
        <3> DEFINE r == [conns[c] EXCEPT !.session = "over", !.timer = FALSE, !.up = "cut"]
        <3>1. r \in Conn /\ SetConn(c, r) /\ runs' = runs
            BY <1>1, <1>3, <2>2 DEF Respond, Conn
        <3>2. ConnInv(c, r, client, runs) /\ r.request = conns[c].request
            BY <1>1, <2>1 DEF ConnInv, Served, Conn, Busy
        <3> HIDE DEF r
        <3> QED
            BY <1>2, <3>1, <3>2, ServerStep
    <2>3. CASE client.kind # "unknown"
        <3> DEFINE r == [Waiting(conns[c], "sending") EXCEPT !.request = "none"]
        <3>1. r \in Conn /\ r.request = "none" /\ r.timer = TRUE /\ r.session = "sending"
              /\ r.up = "open" /\ r.reply = conns[c].reply
            BY <1>1, <1>3 DEF Conn, Waiting, Busy
        <3>2. SetConn(c, r) /\ runs' = runs + 1
            BY <1>3, <2>3 DEF Respond
        <3> HIDE DEF r
        <3>3. ConnInv(c, r, client, runs')
            BY <1>1, <2>1, <3>1, <3>2 DEF ConnInv, Served
        <3> QED
            BY <1>1, <1>2, <2>1, <3>1, <3>2, <3>3, ServerStep
    <2> QED
        BY <2>2, <2>3
<1>4. CASE \E what \in {"head", "content"} :
              /\ SetConn(c, Waiting(conns[c], what)) /\ UNCHANGED runs
              /\ conns[c].up = "open"
    <2>1. PICK what \in {"head", "content"} :
              SetConn(c, Waiting(conns[c], what)) /\ UNCHANGED runs
              /\ conns[c].up = "open"
        BY <1>4
    <2> DEFINE r == Waiting(conns[c], what)
    <2>2. r \in Conn /\ r.session = what /\ r.timer = TRUE
          /\ r.up = "open" /\ r.reply = conns[c].reply /\ r.request = conns[c].request
        BY <1>1, <2>1 DEF Waiting, Conn, Busy
    <2> HIDE DEF r
    <2>3. ConnInv(c, r, client, runs)
        BY <1>1, <2>1, <2>2 DEF ConnInv, Served
    <2> QED
        BY <1>2, <2>1, <2>2, <2>3, ServerStep DEF r
<1>5. CASE Send(c)
    <2> DEFINE r == [conns[c] EXCEPT !.reply = IF conns[c].reply = "none" THEN "head" ELSE "all"]
    <2>1. r \in Conn /\ SetConn(c, r) /\ runs' = runs /\ conns[c].session = "sending"
        BY <1>1, <1>5 DEF Send, Conn
    <2>2. ConnInv(c, r, client, runs) /\ r.request = conns[c].request
        BY <1>1, <1>5, <2>1 DEF ConnInv, Served, Conn, Busy, Send
    <2> HIDE DEF r
    <2> QED
        BY <1>2, <2>1, <2>2, ServerStep
<1>6. CASE Lost(c)
    <2> DEFINE r == [conns[c] EXCEPT !.session = "over", !.timer = FALSE]
    <2>1. r \in Conn /\ SetConn(c, r) /\ runs' = runs
        BY <1>1, <1>6 DEF Lost, Conn
    <2>2. ConnInv(c, r, client, runs) /\ r.request = conns[c].request
        BY <1>1, <1>6, <2>1 DEF ConnInv, Served, Conn, Busy, Lost
    <2> HIDE DEF r
    <2> QED
        BY <1>2, <2>1, <2>2, ServerStep
<1>7. CASE Expire(c)
    <2> DEFINE r == [conns[c] EXCEPT !.timer = FALSE, !.expired = TRUE]
    <2>1. r \in Conn /\ SetConn(c, r) /\ runs' = runs
        BY <1>1, <1>7 DEF Expire, Conn
    <2>2. ConnInv(c, r, client, runs) /\ r.request = conns[c].request
        BY <1>1, <1>7, <2>1 DEF ConnInv, Served, Conn, Busy, Expire
    <2> HIDE DEF r
    <2> QED
        BY <1>2, <2>1, <2>2, ServerStep
<1>8. CASE Close(c)
    <2> DEFINE r == [conns[c] EXCEPT !.expired = FALSE, !.up = "cut"]
    <2>1. r \in Conn /\ SetConn(c, r) /\ runs' = runs
        BY <1>1, <1>8 DEF Close, Conn
    <2>2. ConnInv(c, r, client, runs) /\ r.request = conns[c].request
        BY <1>1, <1>8, <2>1 DEF ConnInv, Served, Conn, Busy, Close
    <2> HIDE DEF r
    <2> QED
        BY <1>2, <2>1, <2>2, ServerStep
<1> QED
    BY <1>3, <1>4, <1>5, <1>6, <1>7, <1>8 DEF ServerNext, Accept, HeadRead, ContentRead, Sent

LEMMA CrashInv ==
    ASSUME Inv, Crash
    PROVE  Inv'
<1>1. \A c \in {1, 2} : conns'[c] =
          IF conns[c].up = "no" THEN conns[c]
          ELSE [conns[c] EXCEPT !.up = "cut", !.session = "over",
                                !.timer = FALSE, !.expired = FALSE]
    BY DEF Crash
<1>2. UNCHANGED <<client, runs>> /\ client \in Client /\ client.conn \in {1, 2}
    BY DEF Crash, Inv, Shape, Client
<1>3. ASSUME NEW c \in {1, 2}
      PROVE  /\ conns'[c] \in Conn /\ ConnInv(c, conns'[c], client, runs)
             /\ conns'[c].request = conns[c].request
    <2>1. conns[c] \in Conn /\ ConnInv(c, conns[c], client, runs)
        BY DEF Inv, Shape
    <2>2. CASE conns[c].up = "no"
        BY <1>1, <2>1, <2>2
    <2>3. CASE conns[c].up # "no"
        <3> DEFINE r == [conns[c] EXCEPT !.up = "cut", !.session = "over", !.timer = FALSE,
                                         !.expired = FALSE]
        <3>1. r \in Conn /\ r.request = conns[c].request
            BY <2>1 DEF Conn
        <3>2. ConnInv(c, r, client, runs)
            BY <2>1, <2>3 DEF ConnInv, Served, Conn, Busy
        <3>3. conns'[c] = r
            BY <1>1, <2>3
        <3> HIDE DEF r
        <3> QED
            BY <3>1, <3>2, <3>3
    <2> QED
        BY <2>2, <2>3
<1>4. conns' = [c \in {1, 2} |-> conns'[c]]
    BY DEF Crash
<1>5. Shape'
    BY <1>2, <1>3, <1>4 DEF Inv, Shape
<1>6. ClientInv'
    BY <1>2, <1>3 DEF Inv, ClientInv, Mine
<1> QED
    BY <1>2, <1>3, <1>5, <1>6 DEF Inv

LEMMA InvStep == Inv /\ [Next]_vars => Inv'
<1> SUFFICES ASSUME Inv, [Next]_vars
             PROVE  Inv'
    OBVIOUS
<1>1. CASE ClientNext
    BY <1>1, ClientInvStep
<1>2. CASE \E c \in {1, 2} : ServerNext(c)
    BY <1>2, ServerInv
<1>3. CASE Crash
    BY <1>3, CrashInv
<1>4. CASE Listen \/ UNCHANGED vars
    BY <1>4 DEF Listen, vars, Inv, Shape, ClientInv, Mine
<1> QED
    BY <1>1, <1>2, <1>3, <1>4 DEF Next

LEMMA InvAlways == Spec => []Inv
    BY InitInv, InvStep, PTL DEF Spec

-----------------------------------------------------------------------------
\* However requests, timers and crashes interleave, the server never waits for a
\* connection without a time limit.
THEOREM AlwaysTimedHolds == Spec => []AlwaysTimed
<1>1. Inv => AlwaysTimed
    BY DEF Inv, ConnInv, AlwaysTimed, Busy
<1> QED
    BY <1>1, InvAlways, PTL

\* The handler runs for a client that still waits for its answer, and only for
\* the connection the client waits at.
LEMMA RunsOnce ==
    ASSUME Inv, [Next]_vars, runs' # runs
    PROVE  /\ client.pc = "reading" /\ UNCHANGED client
           /\ runs < client.conn /\ runs' = runs + 1
           /\ conns'[client.conn].session # Mine.session
<1>1. PICK c \in {1, 2} :
         /\ HeadRead(c) \/ ContentRead(c)
         /\ Respond(c) /\ conns[c].up = "open" /\ conns[c].request = "all"
         /\ UNCHANGED client /\ conns[c].session \in {"head", "content"}
    <2>1. ~ClientNext
        BY DEF ClientNext, Connect, Write, WriteLost, ReadHead, ReadBody, ReadLost, BodyLost
    <2>2. PICK c \in {1, 2} : ServerNext(c)
        BY <2>1 DEF Next, vars, Crash, Listen
    <2>3. HeadRead(c) \/ ContentRead(c)
        BY <2>2 DEF ServerNext, Accept, Send, Sent, Lost, Expire, Close
    <2> QED
        BY <2>3 DEF HeadRead, ContentRead
<1>2. c = client.conn /\ client.pc = "reading" /\ runs < client.conn
    BY <1>1, RespondFacts
<1>3. /\ conns' = [conns EXCEPT ![c] = [Waiting(conns[c], "sending") EXCEPT !.request = "none"]]
      /\ runs' = runs + 1
    BY <1>1 DEF Respond, SetConn
<1>4. conns'[c] = [Waiting(conns[c], "sending") EXCEPT !.request = "none"]
    BY <1>3 DEF Inv, Shape
<1>5. conns'[c].session = "sending"
    BY <1>4 DEF Waiting, Inv, Shape, Conn
<1> QED
    BY <1>1, <1>2, <1>3, <1>5 DEF Mine

\* The handler does not run for a connection the client has left, nor once the
\* caller knows the outcome.
THEOREM HandlersRunInTurn == Spec => RunsInTurn
<1>1. Inv /\ [Next]_vars =>
        [runs' # runs => client.pc \in {"writing", "reading"}
                         /\ conns'[client.conn].session # Mine.session]_vars
    BY RunsOnce
<1> QED
    BY <1>1, InvAlways, PTL DEF Spec, RunsInTurn

\* The safety part of KeepsPromise: every step of client and server is one the
\* promise allows, or none of its concern.
THEOREM PromiseKept ==
    Spec => Promise!Begun /\ [][Promise!ExchangeNext]_<<runs, Outcome>>
<1>1. Init => Promise!Begun
    BY DEF Init, Promise!Begun, Outcome
<1>2. Inv /\ [Next]_vars => [Promise!ExchangeNext]_<<runs, Outcome>>
    <2> SUFFICES ASSUME Inv, [Next]_vars
                 PROVE  [Promise!ExchangeNext]_<<runs, Outcome>>
        OBVIOUS
    <2>1. client \in Client /\ runs \in Nat
        BY DEF Inv, Shape
    <2>2. CASE runs' # runs
        <3>1. Outcome = "pending" /\ Outcome' = Outcome /\ runs < 2 /\ runs' = runs + 1
            BY <2>1, <2>2, RunsOnce DEF Outcome, Client
        <3> QED
            BY <3>1 DEF Promise!ExchangeNext, Promise!Run
    <2>3. CASE runs' = runs /\ Outcome' # Outcome
        <3>1. ClientNext
            BY <2>3 DEF Next, vars, Outcome, Crash, Listen, ServerNext, Accept, HeadRead,
                        ContentRead, Send, Sent, Lost, Expire, Close
        <3>2. client.pc \in {"connecting", "writing", "reading", "body"} /\ Outcome = "pending"
            BY <3>1 DEF ClientNext, Connect, Write, WriteLost, ReadHead, ReadBody, ReadLost,
                        BodyLost, Outcome
        <3>3. client'.pc \in {"answered", "failed"} /\ Outcome' = client'.pc
            BY <2>3, <3>2 DEF Outcome
        <3>4. CASE client'.pc = "failed"
            BY <2>3, <3>2, <3>3, <3>4 DEF Promise!ExchangeNext, Promise!Fail
        <3>5. CASE client'.pc = "answered"
            <4>1. ReadBody
                BY <2>1, <3>1, <3>5 DEF ClientNext, Connect, Write, WriteLost, ReadHead,
                                        ReadLost,
                        BodyLost, Finish, Client
            <4>2. runs > 0
                BY <2>1, <4>1 DEF ReadBody, Inv, ConnInv, Mine, Client, Served
            <4> QED
                BY <2>3, <3>2, <3>3, <3>5, <4>2 DEF Promise!ExchangeNext, Promise!Answer
        <3> QED
            BY <3>3, <3>4, <3>5
    <2> QED
        BY <2>2, <2>3
<1> QED
    BY <1>1, <1>2, InvAlways, PTL DEF Spec

-----------------------------------------------------------------------------
(* The scope that callbacks of a server or client run in: whatever the number *)
(* of callbacks and of calls of stop(), no callback is in it once a stop()    *)
(* has returned.                                                              *)

CONSTANTS Callbacks, Stoppers
VARIABLES count, expected, pc

Scope == INSTANCE ScopeRunner

\* What the counter, the holders and the threads' copies of it have in common.
Counts ==
    /\ IF count >= 0 THEN count = Cardinality(Scope!Holders) ELSE Scope!Holders = {}
    /\ \A s \in Stoppers :
          /\ pc[s] \in {"out", "loop", "stopped"}
          /\ pc[s] = "loop" => expected[s] = 0
          /\ pc[s] = "stopped" => count = -1
    /\ \A c \in Callbacks :
          /\ pc[c] \in {"out", "loop", "in", "refused"}
          /\ pc[c] = "loop" /\ expected[c] < 0 => count = -1
          /\ pc[c] = "refused" => count = -1

ScopeInv == Scope!TypeOK /\ Counts

LEMMA HoldersFinite ==
    ASSUME Scope!ScopeAssumption PROVE IsFiniteSet(Scope!Holders)
  BY FS_Subset DEF Scope!ScopeAssumption, Scope!Holders, Scope!IsFiniteSet, IsFiniteSet

LEMMA ScopeInit == Scope!Init => ScopeInv
<1> SUFFICES ASSUME Scope!Init PROVE ScopeInv
  OBVIOUS
<1>1. Scope!Holders = {}
  BY DEF Scope!Init, Scope!Holders, Scope!Threads
<1>2. Cardinality(Scope!Holders) = 0
  BY <1>1, FS_EmptySet
<1> QED
  BY <1>1, <1>2 DEF Scope!Init, ScopeInv, Scope!TypeOK, Counts, Scope!Threads

\* A step of a callback.
LEMMA CallbackInv ==
    ASSUME Scope!ScopeAssumption, ScopeInv, NEW c \in Callbacks, Scope!Callback(c) PROVE ScopeInv'
<1> USE DEF ScopeInv
<1>1. c \in Scope!Threads /\ c \notin Stoppers
  BY DEF Scope!ScopeAssumption, Scope!Threads
<1>2. CASE Scope!Load(c) \/ Scope!Refused(c) \/ Scope!LockFails(c)
  <2>1. Scope!TypeOK'
    BY <1>1, <1>2 DEF Scope!Load, Scope!Refused, Scope!LockFails, Scope!Goto, Scope!TypeOK
  <2>2. \A d \in Callbacks : pc'[d] = "in" <=> pc[d] = "in"
    BY <1>1, <1>2 DEF Scope!Load, Scope!Refused, Scope!LockFails, Scope!Goto, Scope!TypeOK,
                      Scope!Threads
  <2>3. Scope!Holders' = Scope!Holders
    BY <2>2 DEF Scope!Holders
  <2>4. count' = count
    BY <1>2 DEF Scope!Load, Scope!Refused, Scope!LockFails
  <2> QED
    BY <1>1, <1>2, <2>1, <2>3, <2>4 DEF Scope!Load, Scope!Refused, Scope!LockFails, Scope!Goto,
                                        Scope!TypeOK, Counts, Scope!Threads
<1>3. CASE Scope!Lock(c)
  <2>1. Scope!TypeOK'
    BY <1>1, <1>3 DEF Scope!Lock, Scope!Goto, Scope!TypeOK
  <2>2. Scope!Holders' = Scope!Holders \cup {c} /\ c \notin Scope!Holders
    BY <1>1, <1>3 DEF Scope!Lock, Scope!Goto, Scope!TypeOK, Scope!Holders, Scope!Threads
  <2>3. Cardinality(Scope!Holders') = Cardinality(Scope!Holders) + 1
    BY <2>2, HoldersFinite, FS_AddElement
  <2>4. count >= 0 /\ count' = count + 1 /\ count \in Int
    BY <1>1, <1>3 DEF Scope!Lock, Scope!TypeOK
  <2> QED
    BY <1>1, <1>3, <2>1, <2>3, <2>4 DEF Scope!Lock, Scope!Goto, Scope!TypeOK, Counts,
                                        Scope!Threads
<1>4. CASE Scope!Unlock(c)
  <2>1. Scope!Holders' = Scope!Holders \ {c} /\ c \in Scope!Holders
    BY <1>1, <1>4 DEF Scope!Unlock, Scope!Goto, Scope!TypeOK, Scope!Holders, Scope!Threads
  <2>2. Cardinality(Scope!Holders') = Cardinality(Scope!Holders) - 1
    BY <2>1, HoldersFinite, FS_RemoveElement
  <2>3. count >= 0 /\ count = Cardinality(Scope!Holders) /\ count' = count - 1
    BY <1>4, <2>1 DEF Scope!Unlock, Scope!TypeOK, Counts
  <2>4. Cardinality(Scope!Holders) >= 1
    BY <2>1, HoldersFinite, FS_EmptySet, FS_CardinalityType
  <2>5. Scope!TypeOK'
    BY <1>1, <1>4, <2>3, <2>4 DEF Scope!Unlock, Scope!Goto, Scope!TypeOK
  <2> QED
    BY <1>1, <1>4, <2>2, <2>3, <2>4, <2>5 DEF Scope!Unlock, Scope!Goto, Scope!TypeOK, Counts,
                                              Scope!Threads
<1> QED
  BY <1>2, <1>3, <1>4 DEF Scope!Callback

\* A step of a thread in stop().
LEMMA StopperInv ==
    ASSUME Scope!ScopeAssumption, ScopeInv, NEW s \in Stoppers, Scope!Stopper(s) PROVE ScopeInv'
<1> USE DEF ScopeInv
<1>1. s \in Scope!Threads /\ s \notin Callbacks
  BY DEF Scope!ScopeAssumption, Scope!Threads
<1>2. Scope!Holders' = Scope!Holders
  BY <1>1 DEF Scope!Stopper, Scope!Stop, Scope!Close, Scope!CloseFails, Scope!Goto,
              Scope!TypeOK, Scope!Holders, Scope!Threads
<1>3. CASE Scope!Stop(s)
  BY <1>1, <1>2, <1>3 DEF Scope!Stop, Scope!Goto, Scope!TypeOK, Counts, Scope!Threads
<1>4. CASE Scope!Close(s)
  <2>1. count = 0 /\ count' = -1
    BY <1>4 DEF Scope!Close, Counts
  <2>2. Scope!Holders = {}
    BY <2>1, HoldersFinite, FS_EmptySet DEF Counts
  <2>3. Scope!TypeOK'
    BY <1>1, <1>4, <2>1 DEF Scope!Close, Scope!Goto, Scope!TypeOK
  <2> QED
    BY <1>1, <1>2, <1>4, <2>1, <2>2, <2>3 DEF Scope!Close, Scope!Goto, Scope!TypeOK, Counts,
                                              Scope!Threads
<1>5. CASE Scope!CloseFails(s)
  <2>1. count' = count /\ count \in Int /\ (count < 0 => count = -1)
    BY <1>5 DEF Scope!CloseFails, Scope!TypeOK
  <2>2. Scope!TypeOK'
    BY <1>1, <1>5, <2>1 DEF Scope!CloseFails, Scope!Goto, Scope!TypeOK
  <2> QED
    BY <1>1, <1>2, <1>5, <2>1, <2>2 DEF Scope!CloseFails, Scope!Goto, Scope!TypeOK, Counts,
                                        Scope!Threads
<1> QED
  BY <1>3, <1>4, <1>5 DEF Scope!Stopper

LEMMA ScopeInvariant ==
    ASSUME Scope!ScopeAssumption PROVE Scope!Spec => []ScopeInv
<1>1. ScopeInv /\ [Scope!Next]_Scope!vars => ScopeInv'
  <2> SUFFICES ASSUME ScopeInv, [Scope!Next]_Scope!vars PROVE ScopeInv'
    OBVIOUS
  <2>1. CASE UNCHANGED Scope!vars
    BY <2>1 DEF Scope!vars, ScopeInv, Scope!TypeOK, Counts, Scope!Holders
  <2> QED
    BY <2>1, CallbackInv, StopperInv DEF Scope!Next
<1> QED
  BY ScopeInit, <1>1, PTL DEF Scope!Spec

-----------------------------------------------------------------------------
\* The destructor of the server or client does not return while a callback that
\* uses it is in the scope, and none enters later.
THEOREM StopIsExclusive ==
    ASSUME Scope!ScopeAssumption PROVE Scope!Spec => []Scope!StopExcludes
<1>1. ScopeInv => Scope!StopExcludes
  BY DEF ScopeInv, Counts, Scope!StopExcludes
<1> QED
  BY <1>1, ScopeInvariant, PTL

\* Losing a race for the counter turns no callback away.
THEOREM RefusalsAreFinal ==
    ASSUME Scope!ScopeAssumption PROVE Scope!Spec => []Scope!RefusedOnlyIfStopped
<1>1. ScopeInv => Scope!RefusedOnlyIfStopped
  BY DEF ScopeInv, Counts, Scope!RefusedOnlyIfStopped
<1> QED
  BY <1>1, ScopeInvariant, PTL

=============================================================================
