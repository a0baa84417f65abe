-------------------------------- MODULE Server -------------------------------
(***************************************************************************)
(* The HTTP key server: `authkeys serve` binds one KeyServer per listen    *)
(* entry, runs the accept loop of the first on the main thread and the     *)
(* others on threads of their own, and gives every connection a handler    *)
(* thread, of which each KeyServer has max_connections.  Ctrl-C stops the  *)
(* loops one after the other and closes the sockets.                       *)
(*                                                                         *)
(* What a handler does to resolve its users is the business of Delegation  *)
(* and SourceCache; here a group lookup, under the lock of the shared      *)
(* AuthKeys, and a fetch, outside it, take a while, raise, or hang.        *)
(***************************************************************************)
EXTENDS Naturals, FiniteSets

CONSTANTS
  Listeners,       \* the listen entries, one KeyServer each
  First,           \* the one whose loop runs on the main thread
  Conns,           \* the connections clients make
  None,            \* no listener, no connection, no reply yet
  MaxConnections,  \* [serve] max_connections
  MaxUsernames,    \* [serve] max_usernames
  Tls,             \* is there a certificate?
  Trickling,       \* connections whose client sends a byte just before each timeout
  Hung,            \* connections that ask for keys of a source that never answers
  HungGroups       \* connections that ask for a user of a group whose lookup hangs

\* What a client can get: the keys, a 404, 401 or 400, a 503, or a closed connection.
Replies == {"keys", "refused", "busy", "nothing"}

ASSUME ServerAssumption ==
  /\ First \in Listeners
  /\ MaxConnections \in Nat
  /\ MaxUsernames \in Nat
  /\ Tls \in BOOLEAN
  /\ Trickling \subseteq Conns
  /\ Hung \subseteq Conns
  /\ HungGroups \subseteq Conns
  /\ None \notin Listeners \cup Conns \cup Replies

VARIABLES
  apikey,    \* [serve] api_key: not in the file, resolved to nothing, or set
  main,      \* where the main thread is in Serve.__call__ and serve()
  sock,      \* the listening socket of each KeyServer
  loop,      \* where each accept loop is
  stop,      \* the loop's shutdown request
  taken,     \* the connection an accept loop is dealing with
  slots,     \* KeyServer._slots, the free ones
  at,        \* the listener a connection was made to
  conn,      \* where each connection is
  shown,     \* has its request shown the api key?
  left,      \* how many of the users it named are still to be resolved
  reply      \* what the client got; not None: the connection is of no more use

vars == <<apikey, main, sock, loop, stop, taken, slots, at, conn, shown, left, reply>>

MainSteps == {"binding", "starting", "serving", "stopping", "closed", "exited", "failed"}
LoopSteps == {"off", "polling", "accepted", "slotted", "started", "stopped"}
Handling  == {"handshake", "reading", "refusing", "resolving", "loading", "fetching",
              "storing", "sending", "closing", "releasing"}
ConnSteps == Handling \cup {"away", "backlog", "accepted", "over"}

Init ==
  /\ apikey \in {"absent", "empty", "set"}
  /\ main = "binding"
  /\ sock = [l \in Listeners |-> "none"]
  /\ loop = [l \in Listeners |-> "off"]
  /\ stop = [l \in Listeners |-> FALSE]
  /\ taken = [l \in Listeners |-> None]
  /\ slots = [l \in Listeners |-> MaxConnections]
  /\ at = [c \in Conns |-> None]
  /\ conn = [c \in Conns |-> "away"]
  /\ shown = [c \in Conns |-> FALSE]
  /\ left = [c \in Conns |-> 0]
  /\ reply = [c \in Conns |-> None]

MainTo(from, to) == main = from /\ main' = to
LoopTo(l, from, to) == loop[l] = from /\ loop' = [loop EXCEPT ![l] = to]
ConnTo(c, from, to) == conn[c] = from /\ conn' = [conn EXCEPT ![c] = to]

requests == <<at, conn, shown, left, reply>>
loops    == <<loop, stop, taken, slots>>

\* Definitions named X_... are faulty variants of X; no specification uses them.
-----------------------------------------------------------------------------
(* Starting: Serve.__call__, bind_servers and serve                        *)

\* An api_key line that resolves to nothing stops the program.
RefuseToStart ==
  /\ apikey = "empty"
  /\ MainTo("binding", "failed")
  /\ UNCHANGED <<apikey, sock, loops, requests>>

\* An empty key passes for no key.
Bind_AnyKey(l) ==
  /\ sock[l] = "none"
  /\ sock' = [sock EXCEPT ![l] = "open"]
  /\ MainTo("binding", IF \A m \in Listeners \ {l} : sock[m] = "open"
                       THEN "starting" ELSE "binding")
  /\ UNCHANGED <<apikey, loops, requests>>

\* KeyServer(authkeys, address, ...): the socket listens from now on.
Bind(l) ==
  /\ apikey # "empty"
  /\ sock[l] = "none"
  /\ sock' = [sock EXCEPT ![l] = "open"]
  /\ MainTo("binding", IF \A m \in Listeners \ {l} : sock[m] = "open"
                       THEN "starting" ELSE "binding")
  /\ UNCHANGED <<apikey, loops, requests>>

\* What the clients of closed sockets see.
Drop(dropped) ==
  /\ conn' = [c \in Conns |-> IF c \in dropped THEN "over" ELSE conn[c]]
  /\ reply' = [c \in Conns |-> IF c \in dropped THEN "nothing" ELSE reply[c]]
  /\ UNCHANGED <<at, shown, left>>

CloseSockets ==
  sock' = [l \in Listeners |-> IF sock[l] = "open" THEN "closed" ELSE sock[l]]

\* The sockets already bound stay open.
BindFails_KeepsOpen ==
  /\ apikey # "empty"
  /\ MainTo("binding", "failed")
  /\ UNCHANGED <<apikey, sock, loops, requests>>

\* One address cannot be bound: those that were are closed.
BindFails ==
  /\ apikey # "empty"
  /\ MainTo("binding", "failed")
  /\ CloseSockets
  /\ Drop({c \in Conns : conn[c] = "backlog"})
  /\ UNCHANGED <<apikey, loops>>

\* threading.Thread(target=server.serve_forever).start()
StartLoop(l) ==
  /\ main = "starting"
  /\ l # First
  /\ LoopTo(l, "off", "polling")
  /\ UNCHANGED <<apikey, main, sock, stop, taken, slots, requests>>

\* servers[0].serve_forever()
ServeFirst ==
  /\ \A l \in Listeners \ {First} : loop[l] # "off"
  /\ MainTo("starting", "serving")
  /\ LoopTo(First, "off", "polling")
  /\ UNCHANGED <<apikey, sock, stop, taken, slots, requests>>

-----------------------------------------------------------------------------
(* The accept loop: serve_forever and process_request                      *)

\* A client connects; the kernel keeps the connection until it is accepted.
Connect(c, l) ==
  /\ sock[l] = "open"
  /\ ConnTo(c, "away", "backlog")
  /\ at' = [at EXCEPT ![c] = l]
  /\ UNCHANGED <<apikey, main, sock, loops, shown, left, reply>>

Accept(l, c) ==
  /\ ~stop[l]
  /\ at[c] = l
  /\ LoopTo(l, "polling", "accepted")
  /\ ConnTo(c, "backlog", "accepted")
  /\ taken' = [taken EXCEPT ![l] = c]
  /\ UNCHANGED <<apikey, main, sock, stop, slots, at, shown, left, reply>>

\* self._slots.acquire(blocking=False)
TakeSlot(l) ==
  /\ slots[l] > 0
  /\ LoopTo(l, "accepted", "slotted")
  /\ slots' = [slots EXCEPT ![l] = @ - 1]
  /\ UNCHANGED <<apikey, main, sock, stop, taken, requests>>

\* The connection is done with on the loop's thread.
Finish(l, from, what) ==
  /\ LoopTo(l, from, "polling")
  /\ taken' = [taken EXCEPT ![l] = None]
  /\ conn' = [conn EXCEPT ![taken[l]] = "over"]
  /\ reply' = [reply EXCEPT ![taken[l]] = what]
  /\ UNCHANGED <<apikey, main, sock, stop, at, shown, left>>

\* None left: 503, and the connection is closed.
TurnAway(l) ==
  /\ slots[l] = 0
  /\ Finish(l, "accepted", "busy")
  /\ UNCHANGED slots

\* The TLS handshake runs in the accept loop.
Spawn_Handshakes(l) ==
  /\ taken[l] \notin Trickling
  /\ LoopTo(l, "slotted", "started")
  /\ conn' = [conn EXCEPT ![taken[l]] = "reading"]
  /\ UNCHANGED <<apikey, main, sock, stop, taken, slots, at, shown, left, reply>>

\* super().process_request: a handler thread runs ...
Spawn(l) ==
  /\ LoopTo(l, "slotted", "started")
  /\ conn' = [conn EXCEPT ![taken[l]] = IF Tls THEN "handshake" ELSE "reading"]
  /\ UNCHANGED <<apikey, main, sock, stop, taken, slots, at, shown, left, reply>>

\* ... and the loop comes back from starting it.  (A Ctrl-C here that finds every
\* slot free comes to the same: the release it causes raises ValueError, which the
\* loop takes for a failed request.)
Return(l) ==
  /\ LoopTo(l, "started", "polling")
  /\ taken' = [taken EXCEPT ![l] = None]
  /\ UNCHANGED <<apikey, main, sock, stop, slots, requests>>

\* An exception while the handler is started gives the slot back, unless the bounded
\* semaphore finds all of them back already.
Releasable(l) == loop[l] \in {"slotted", "started"} /\ slots[l] < MaxConnections

\* The slot is not given back.
SpawnFails_KeepsSlot(l) ==
  /\ Finish(l, "slotted", "nothing")
  /\ UNCHANGED slots

\* The thread cannot be started.
SpawnFails(l) ==
  /\ Finish(l, "slotted", "nothing")
  /\ slots' = [slots EXCEPT ![l] = @ + 1]

\* The loop sees the shutdown request between two connections.
LoopStops(l) ==
  /\ stop[l]
  /\ LoopTo(l, "polling", "stopped")
  /\ stop' = [stop EXCEPT ![l] = FALSE]
  /\ UNCHANGED <<apikey, main, sock, taken, slots, requests>>

-----------------------------------------------------------------------------
(* The handler thread: process_request_thread, finish_request and do_GET   *)

others == <<apikey, main, sock, loop, stop, taken, at>>

Handshake(c) ==
  /\ reply[c] = None
  /\ ConnTo(c, "handshake", "reading")
  /\ UNCHANGED <<others, slots, shown, left, reply>>

\* The request has arrived.  It must show the api key if one is set, and be for the
\* route and name one to max_usernames users; 0 stands for one that does not.
Read(c, key, users) ==
  /\ reply[c] = None
  /\ shown' = [shown EXCEPT ![c] = key]
  /\ left' = [left EXCEPT ![c] = users]
  /\ ConnTo(c, "reading",
            IF users > 0 /\ (apikey = "set" => key) THEN "resolving" ELSE "refusing")
  /\ UNCHANGED <<others, slots, reply>>

\* 404, 401 or 400
Refuse(c) ==
  /\ reply[c] = None
  /\ ConnTo(c, "refusing", "closing")
  /\ reply' = [reply EXCEPT ![c] = "refused"]
  /\ UNCHANGED <<others, slots, shown, left>>

\* The lock is held over the fetch as well.
Free_Fetching == \A d \in Conns : conn[d] \notin {"loading", "fetching"}

\* Nobody holds the lock that all handlers share: it is kept only while the groups
\* of a delegation are looked up.
Free == \A d \in Conns : conn[d] # "loading"

\* authkeys.resolve for the next user takes the lock, to drop the grants of earlier
\* requests and, if the user delegates to groups, to look these up.
Lock(c, groups) ==
  /\ Free
  /\ ConnTo(c, "resolving", IF groups THEN "loading" ELSE "fetching")
  /\ UNCHANGED <<others, slots, shown, left, reply>>

\* The groups are known, or have failed, and the lock is given back.
Loaded(c) ==
  /\ ConnTo(c, "loading", "fetching")
  /\ UNCHANGED <<others, slots, shown, left, reply>>

\* The sources are asked, without the lock.
Fetch(c) ==
  /\ ConnTo(c, "fetching", "storing")
  /\ UNCHANGED <<others, slots, shown, left, reply>>

\* The cache is read and written under the lock, and the user is done.  (The read,
\* before the fetch, would wait for the same holder of the lock as this write.)
Resolve(c) ==
  /\ Free
  /\ ConnTo(c, "storing", IF left[c] = 1 THEN "sending" ELSE "resolving")
  /\ left' = [left EXCEPT ![c] = @ - 1]
  /\ UNCHANGED <<others, slots, shown, reply>>

Send(c) ==
  /\ reply[c] = None
  /\ ConnTo(c, "sending", "closing")
  /\ reply' = [reply EXCEPT ![c] = "keys"]
  /\ UNCHANGED <<others, slots, shown, left>>

\* A failed handshake, a client that is silent for request_timeout or goes away, a
\* user map that raises: logged, and the client gets no reply.
Break(c) ==
  /\ conn[c] \in {"handshake", "reading", "refusing", "fetching", "sending"}
  /\ ConnTo(c, conn[c], "closing")
  /\ reply' = [reply EXCEPT ![c] = "nothing"]
  /\ UNCHANGED <<others, slots, shown, left>>

\* shutdown_request
Close(c) ==
  /\ ConnTo(c, "closing", "releasing")
  /\ UNCHANGED <<others, slots, shown, left, reply>>

\* finally: self._slots.release(), after the client has seen the end.  The semaphore
\* is a bounded one: a release too many raises, and the thread ends with that.
ReleaseSlot(c) ==
  /\ ConnTo(c, "releasing", "over")
  /\ slots' = [slots EXCEPT ![at[c]] = IF @ < MaxConnections THEN @ + 1 ELSE @]
  /\ UNCHANGED <<others, shown, left, reply>>

-----------------------------------------------------------------------------
(* Stopping: serve                                                         *)

\* Ctrl-C ends the loop on the main thread, whatever it is doing; a connection
\* it has in hand is closed, also if its handler runs by now.  Its slot is given
\* back, to be released once more by that handler; or is not, just before and just
\* after the statement that starts the handler.
Interrupt(released) ==
  /\ MainTo("serving", "stopping")
  /\ released => Releasable(First)
  /\ loop' = [loop EXCEPT ![First] = "stopped"]
  /\ taken' = [taken EXCEPT ![First] = None]
  /\ slots' = [slots EXCEPT ![First] = IF released THEN @ + 1 ELSE @]
  /\ conn' = [c \in Conns |-> IF c = taken[First] /\ loop[First] # "started"
                              THEN "over" ELSE conn[c]]
  /\ reply' = [c \in Conns |-> IF c = taken[First] /\ reply[c] = None
                               THEN "nothing" ELSE reply[c]]
  /\ UNCHANGED <<apikey, sock, stop, at, shown, left>>

\* server.shutdown(), which waits for the loop before the next one is asked
Shutdown(l) ==
  /\ main = "stopping"
  /\ loop[l] # "stopped"
  /\ \A m \in Listeners : ~stop[m]
  /\ stop' = [stop EXCEPT ![l] = TRUE]
  /\ UNCHANGED <<apikey, main, sock, loop, taken, slots, requests>>

\* The handlers are waited for.
CloseAll_Joins ==
  /\ \A l \in Listeners : loop[l] = "stopped"
  /\ \A c \in Conns : conn[c] \notin Handling
  /\ MainTo("stopping", "closed")
  /\ CloseSockets
  /\ Drop({c \in Conns : conn[c] = "backlog"})
  /\ UNCHANGED <<apikey, loops>>

\* server.server_close() for every server; nobody waits for the handlers.
CloseAll ==
  /\ \A l \in Listeners : loop[l] = "stopped"
  /\ MainTo("stopping", "closed")
  /\ CloseSockets
  /\ Drop({c \in Conns : conn[c] = "backlog"})
  /\ UNCHANGED <<apikey, loops>>

\* The process ends, and the handlers, daemon threads, with it.
Exit ==
  /\ MainTo("closed", "exited")
  /\ conn' = [c \in Conns |-> IF conn[c] \in Handling THEN "over" ELSE conn[c]]
  /\ reply' = [c \in Conns |-> IF conn[c] \in Handling /\ reply[c] = None
                               THEN "nothing" ELSE reply[c]]
  /\ UNCHANGED <<apikey, sock, loops, at, shown, left>>

-----------------------------------------------------------------------------

Starting == RefuseToStart \/ (\E l \in Listeners : Bind(l) \/ StartLoop(l)) \/ ServeFirst
Stopping == (\E l \in Listeners : Shutdown(l)) \/ CloseAll \/ Exit

Listen(l) ==
  \/ \E c \in Conns : Accept(l, c)
  \/ TakeSlot(l) \/ TurnAway(l) \/ Spawn(l) \/ Return(l) \/ LoopStops(l)

Handle(c) ==
  \/ Handshake(c) \/ \E key \in BOOLEAN, users \in 0 .. MaxUsernames : Read(c, key, users)
  \/ \E groups \in BOOLEAN : Lock(c, groups)
  \/ Loaded(c) \/ Fetch(c) \/ Resolve(c)
  \/ Refuse(c) \/ Send(c) \/ Break(c) \/ Close(c) \/ ReleaseSlot(c)

Next ==
  \/ Starting \/ BindFails \/ Stopping
  \/ \E released \in BOOLEAN : Interrupt(released)
  \/ \E l \in Listeners : Listen(l) \/ SpawnFails(l) \/ \E c \in Conns : Connect(c, l)
  \/ \E c \in Conns : Handle(c)

Spec == Init /\ [][Next]_vars

\* Threads that can go on do.  A silent client is timed out; one that trickles
\* keeps its handler where it is, as a source or a group lookup that hangs does.  No
\* thread has to fail to start.
Stuck(c) ==
  \/ (c \in Trickling /\ conn[c] \in {"handshake", "reading"})
  \/ (c \in Hung /\ conn[c] = "fetching")
  \/ (c \in HungGroups /\ conn[c] = "loading")

Forward(c) == ~Stuck(c) /\ Handle(c)

Fairness ==
  /\ WF_vars(Starting) /\ WF_vars(Stopping)
  /\ \A l \in Listeners : WF_vars(Listen(l))
  /\ \A c \in Conns : WF_vars(Forward(c))

FairSpec == Spec /\ Fairness

-----------------------------------------------------------------------------
(* Properties                                                              *)

TypeOK ==
  /\ apikey \in {"absent", "empty", "set"}
  /\ main \in MainSteps
  /\ sock \in [Listeners -> {"none", "open", "closed"}]
  /\ loop \in [Listeners -> LoopSteps]
  /\ stop \in [Listeners -> BOOLEAN]
  /\ taken \in [Listeners -> Conns \cup {None}]
  /\ slots \in [Listeners -> 0 .. MaxConnections]
  /\ at \in [Conns -> Listeners \cup {None}]
  /\ conn \in [Conns -> ConnSteps]
  /\ shown \in [Conns -> BOOLEAN]
  /\ left \in [Conns -> 0 .. MaxUsernames]
  /\ reply \in [Conns -> Replies \cup {None}]

\* The connections of l that hold one of its slots.
Holders(l) ==
  {c \in Conns :
     /\ at[c] = l
     /\ conn[c] \in Handling \/ (conn[c] = "accepted" /\ loop[l] = "slotted")}

\* The loop that Ctrl-C has ended: nobody takes its slots any more.
Interrupted(l) == l = First /\ loop[l] = "stopped"

\* A slot is free exactly if nobody holds it: none leaks however a connection
\* ends, and none is released twice (process_request, process_request_thread), as
\* long as the loop may still give it away.
SlotsAccounted ==
  main # "exited" =>
    \A l \in Listeners :
      Interrupted(l) \/ slots[l] + Cardinality(Holders(l)) = MaxConnections

\* A client is turned away only while max_connections handlers run at its
\* listener ("more get 503").
BusyOnlyWhenFull ==
  [][\A c \in Conns :
       reply'[c] = "busy" /\ reply[c] # "busy" =>
         Cardinality(Holders(at[c])) = MaxConnections]_vars

\* With an api_key line in the configuration nobody gets keys without showing
\* the key, whatever the line resolves to ("Fail closed").
FailClosed ==
  apikey # "absent" => \A c \in Conns : reply[c] = "keys" => shown[c]

\* Who can no longer be served is not kept waiting: a server that failed to
\* start or has stopped has no socket open and no connection pending.
NothingLeftOpen ==
  main \in {"failed", "closed", "exited"} =>
    /\ \A l \in Listeners : sock[l] # "open"
    /\ \A c \in Conns : conn[c] \notin {"backlog", "accepted"}

\* A connection is taken up while the server runs, whatever its other clients
\* and their sources do ("a slow client cannot stall the accept loop").
TakenUp ==
  \A c \in Conns : conn[c] = "backlog" ~> conn[c] # "backlog"

\* A group lookup hangs and keeps the lock.
Stalled == \E d \in HungGroups : conn[d] = "loading"

\* A request ends, with a reply or without, unless its own client, source or group
\* lookup holds it up, or a group lookup holds up everybody: a source that hangs for
\* one request "can't stall concurrent requests", of one user or of several.
Served ==
  []<>~Stalled =>
    \A c \in Conns \ (Trickling \cup Hung \cup HungGroups) :
      conn[c] \in Handling ~> conn[c] = "over"

\* Ctrl-C ends the program, whatever clients and sources do.
Stops == main = "stopping" ~> main = "exited"
=============================================================================
