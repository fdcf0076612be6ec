--------------------------- MODULE OwnerLifecycle ---------------------------
(***************************************************************************)
(* The shared owner process of one repository and its clients: a client    *)
(* that finds no owner starts one, processes that lose the race for the    *)
(* lock file go away, the winner writes its address and capability to      *)
(* endpoint.json, serves, and leaves after a while without connections.    *)
(*                                                                         *)
(* Sources: runtime.rs (OwnerClient::connect, call, call_once, run_owner,  *)
(* its accept loop, serve_connection up to the lease).                     *)
(*                                                                         *)
(* A process is its own capability (a random 256 bit string).  A process   *)
(* that has ended may be started again under its name once nothing refers  *)
(* to it any more.  The 100 attempts of connect are not counted; every     *)
(* SpawnEvery-th of them starts a process.                                 *)
(***************************************************************************)
EXTENDS Naturals, FiniteSets

CONSTANTS
    Process,        \* owner processes
    Client,         \* front ends
    Port,           \* TCP ports
    SpawnEvery,     \* attempts from one start of a process to the next: 20
    MaxFaults       \* crashes of owners and connections cut for silence

NoProcess == "nobody"
ASSUME OwnerAssumption ==
    /\ SpawnEvery \in Nat \ {0} /\ MaxFaults \in Nat
    /\ NoProcess \notin Process

VARIABLES
    owner,      \* processes: where run_owner is, and the port it listens on
    lock,       \* who holds owner.lock
    endpoint,   \* endpoint.json
    client,     \* front ends
    conn,       \* each front end's TCP connection
    faults

vars == <<owner, lock, endpoint, client, conn, faults>>

NoPort == "no port"
NoEndpoint == [port |-> NoPort, capability |-> NoProcess]     \* absent or unreadable
NoConn == [peer |-> NoProcess, stage |-> "none"]
Gone == [pc |-> "gone", port |-> NoPort]

Listening(p) == owner[p].pc \in {"bound", "writing", "serving", "polled", "stopping",
                                 "joined", "unlinked"}
Serving(p) == owner[p].pc \in {"serving", "polled"}

Init ==
    /\ owner = [p \in Process |-> Gone]
    /\ lock = NoProcess
    /\ endpoint = NoEndpoint
    /\ client = [c \in Client |-> [pc |-> "idle", port |-> NoPort,
                                   capability |-> NoProcess, attempt |-> 0]]
    /\ conn = [c \in Client |-> NoConn]
    /\ faults = 0

Goto(c, pc) == client' = [client EXCEPT ![c].pc = pc]

(***************************************************************************)
(* The front end: connect, call and the end of its process.                *)
(***************************************************************************)
Start(c) ==
    /\ client[c].pc = "idle"
    /\ Goto(c, "look")
    /\ UNCHANGED <<owner, lock, endpoint, conn, faults>>

Look(c) ==
    /\ client[c].pc = "look"
    /\ client' = [client EXCEPT ![c] =
                     IF endpoint = NoEndpoint
                     THEN [@ EXCEPT !.pc = "retry"]
                     ELSE [@ EXCEPT !.pc = "dial", !.port = endpoint.port,
                                    !.capability = endpoint.capability]]
    /\ UNCHANGED <<owner, lock, endpoint, conn, faults>>

(* The attempt has failed; what it has read of endpoint.json is dropped. *)
GiveUp(c) == client' = [client EXCEPT ![c] = [@ EXCEPT !.pc = "retry", !.port = NoPort,
                                                       !.capability = NoProcess]]

(* Whoever listens on the port takes the connection into its queue. *)
Dial(c) ==
    /\ client[c].pc = "dial"
    /\ \/ \E p \in Process :
              /\ Listening(p) /\ owner[p].port = client[c].port
              /\ conn' = [conn EXCEPT ![c] = [peer |-> p, stage |-> "queued"]]
              /\ Goto(c, "hello")
       \/ /\ \A p \in Process : ~(Listening(p) /\ owner[p].port = client[c].port)
          /\ GiveUp(c) /\ UNCHANGED conn
    /\ UNCHANGED <<owner, lock, endpoint, faults>>

(* The answer to the hello, the end of the connection, or, while the owner *)
(* is leaving, 30 seconds without either.                                  *)
HelloAnswered(c) ==
    /\ client[c].pc = "hello"
    /\ \/ /\ conn[c].stage = "open"
          /\ Goto(c, "connected") /\ UNCHANGED conn
       \/ /\ \/ conn[c].stage = "closed"
             \/ conn[c].stage = "queued" /\ ~Serving(conn[c].peer)
          /\ GiveUp(c) /\ conn' = [conn EXCEPT ![c] = NoConn]
    /\ UNCHANGED <<owner, lock, endpoint, faults>>

(* A failed attempt; the first of every SpawnEvery starts an owner. *)
Unreferenced(p) ==
    /\ owner[p] = Gone /\ endpoint.capability # p
    /\ \A c \in Client : client[c].capability # p /\ conn[c].peer # p

NextAttemptLate(n) == (n + 1) % (SpawnEvery + 1)
NextAttempt(n) == (n + 1) % SpawnEvery

RetryIfUnpublished(c) ==
    /\ client[c].pc = "retry"
    /\ client' = [client EXCEPT ![c] =
                     [@ EXCEPT !.pc = "look", !.attempt = NextAttempt(client[c].attempt)]]
    /\ IF client[c].attempt = 0 /\ endpoint = NoEndpoint
       THEN \E p \in Process :
                /\ Unreferenced(p)
                /\ owner' = [owner EXCEPT ![p].pc = "started"]
       ELSE UNCHANGED owner
    /\ UNCHANGED <<lock, endpoint, conn, faults>>
Retry(c) ==
    /\ client[c].pc = "retry"
    /\ client' = [client EXCEPT ![c] =
                     [@ EXCEPT !.pc = "look", !.attempt = NextAttempt(client[c].attempt)]]
    /\ IF client[c].attempt = 0
       THEN \E p \in Process :
                /\ Unreferenced(p)
                /\ owner' = [owner EXCEPT ![p].pc = "started"]
       ELSE UNCHANGED owner
    /\ UNCHANGED <<lock, endpoint, conn, faults>>

Reconnect(c) ==
    /\ client' = [client EXCEPT ![c] = [pc |-> "look", port |-> NoPort,
                                        capability |-> NoProcess, attempt |-> 0]]
    /\ conn' = [conn EXCEPT ![c] = NoConn]

(* call_once writes the request.  On a connection whose peer is gone all   *)
(* bytes may be taken before the reset arrives; the reset may arrive while *)
(* serde_json writes, whose error is not an io::Error, so that call hands  *)
(* it on and keeps the connection; or while the newline is written, and    *)
(* then call reconnects.  After the reset every first byte fails.          *)
Call(c) ==
    /\ client[c].pc = "connected" /\ conn[c].stage \in {"open", "closed"}
    /\ \/ Goto(c, "called") /\ UNCHANGED conn
       \/ /\ conn[c].stage = "closed"
          /\ conn' = [conn EXCEPT ![c].stage = "reset"]
          /\ UNCHANGED client
       \/ conn[c].stage = "closed" /\ Reconnect(c)
    /\ UNCHANGED <<owner, lock, endpoint, faults>>

(* call_once reads the response; a failed read is an io::Error, or the end *)
(* of the stream, and call connects anew.                                  *)
Response(c) ==
    /\ client[c].pc = "called"
    /\ \/ conn[c].stage = "open" /\ Goto(c, "connected") /\ UNCHANGED conn
       \/ conn[c].stage = "closed" /\ Reconnect(c)
    /\ UNCHANGED <<owner, lock, endpoint, faults>>

Quit(c) ==
    /\ client[c].pc # "idle"
    /\ client' = [client EXCEPT ![c] = [pc |-> "idle", port |-> NoPort,
                                        capability |-> NoProcess, attempt |-> 0]]
    /\ conn' = [conn EXCEPT ![c] = NoConn]
    /\ UNCHANGED <<owner, lock, endpoint, faults>>

(***************************************************************************)
(* The owner process.                                                      *)
(***************************************************************************)
Step(p, from, to) == owner[p].pc = from /\ owner' = [owner EXCEPT ![p].pc = to]

(* Only the holder of the lock goes on. *)
TakeLock(p) ==
    /\ owner[p].pc = "started"
    /\ IF lock = NoProcess THEN lock' = p /\ Step(p, "started", "locked")
                           ELSE owner' = [owner EXCEPT ![p] = Gone] /\ UNCHANGED lock
    /\ UNCHANGED <<endpoint, client, conn, faults>>

Bind(p) ==
    /\ owner[p].pc = "locked"
    /\ \E q \in Port : /\ \A o \in Process : owner[o].port # q
                       /\ owner' = [owner EXCEPT ![p] = [pc |-> "bound", port |-> q]]
    /\ UNCHANGED <<lock, endpoint, client, conn, faults>>

(* write_private truncates the file before it writes it. *)
Truncate(p) ==
    /\ Step(p, "bound", "writing")
    /\ endpoint' = NoEndpoint
    /\ UNCHANGED <<lock, client, conn, faults>>

WriteEndpoint(p) ==
    /\ Step(p, "writing", "serving")
    /\ endpoint' = [port |-> owner[p].port, capability |-> p]
    /\ UNCHANGED <<lock, client, conn, faults>>

(* One round of the accept loop: a connection is taken, if there is one,   *)
(* and counted before its thread starts.                                   *)
QueuedAt(p) == {c \in Client : conn[c] = [peer |-> p, stage |-> "queued"]}

Accept(p, c) ==
    /\ c \in QueuedAt(p)
    /\ Step(p, "serving", "polled")
    /\ conn' = [conn EXCEPT ![c].stage = "accepted"]
    /\ UNCHANGED <<lock, endpoint, client, faults>>

WouldBlockForever(p) == QueuedAt(p) # {} /\ Step(p, "serving", "polled")
    /\ UNCHANGED <<lock, endpoint, client, conn, faults>>
WouldBlock(p) ==
    /\ QueuedAt(p) = {}
    /\ Step(p, "serving", "polled")
    /\ UNCHANGED <<lock, endpoint, client, conn, faults>>

LiveThreads(p) == {c \in Client : conn[c] = [peer |-> p, stage |-> "open"]}
Live(p) == {c \in Client : conn[c].peer = p /\ conn[c].stage \in {"accepted", "open"}}

GoOn(p) ==
    /\ Step(p, "polled", "serving")
    /\ UNCHANGED <<lock, endpoint, client, conn, faults>>

(* Three seconds have passed without a connection. *)
IdleOut(p) ==
    /\ Live(p) = {}
    /\ Step(p, "polled", "stopping")
    /\ UNCHANGED <<lock, endpoint, client, conn, faults>>

JoinWorkers(p) ==
    /\ Step(p, "stopping", "joined")
    /\ UNCHANGED <<lock, endpoint, client, conn, faults>>

(* The endpoint goes while the lock is still held, the lock comes last. *)
UnlinkUnlocked(p) ==
    /\ Step(p, "joined", "unlinked")
    /\ endpoint' = NoEndpoint /\ lock' = NoProcess
    /\ UNCHANGED <<client, conn, faults>>
UnlinkLate(p) ==
    /\ owner[p].pc = "joined"
    /\ IF owner[p].port # NoPort
       THEN /\ owner' = [owner EXCEPT ![p].port = NoPort] /\ lock' = NoProcess
            /\ UNCHANGED endpoint
       ELSE /\ owner' = [owner EXCEPT ![p].pc = "unlinked"] /\ endpoint' = NoEndpoint
            /\ UNCHANGED lock
    /\ UNCHANGED <<client, conn, faults>>
Unlink(p) ==
    /\ Step(p, "joined", "unlinked")
    /\ endpoint' = NoEndpoint
    /\ UNCHANGED <<lock, client, conn, faults>>

(* The end of a process: its lock, its port and its connections go with it. *)
Ends(p) ==
    /\ owner' = [owner EXCEPT ![p] = Gone]
    /\ lock' = IF lock = p THEN NoProcess ELSE lock
    /\ conn' = [c \in Client |-> IF conn[c].peer = p
                                 THEN [peer |-> NoProcess, stage |-> "closed"] ELSE conn[c]]

Exit(p) ==
    /\ owner[p].pc = "unlinked"
    /\ Ends(p)
    /\ UNCHANGED <<endpoint, client, faults>>

Crash(p) ==
    /\ owner[p] # Gone /\ faults < MaxFaults
    /\ faults' = faults + 1
    /\ Ends(p)
    /\ UNCHANGED <<endpoint, client>>

(* serve_connection: the hello must name the owner's own capability. *)
AnyHello(p, c) == TRUE
GoodHello(p, c) == client[c].capability = p
Handshake(c) ==
    /\ conn[c].stage = "accepted"
    /\ conn' = [conn EXCEPT ![c] = IF GoodHello(conn[c].peer, c)
                                   THEN [@ EXCEPT !.stage = "open"]
                                   ELSE [peer |-> NoProcess, stage |-> "closed"]]
    /\ UNCHANGED <<owner, lock, endpoint, client, faults>>

(* Fifteen seconds without a request: the machine slept, say. *)
CutOff(c) ==
    /\ conn[c].stage = "open" /\ faults < MaxFaults
    /\ faults' = faults + 1
    /\ conn' = [conn EXCEPT ![c] = [peer |-> NoProcess, stage |-> "closed"]]
    /\ UNCHANGED <<owner, lock, endpoint, client>>

ClientStep(c) == \/ Look(c) \/ Dial(c) \/ HelloAnswered(c) \/ Retry(c)
                 \/ Call(c) \/ Response(c)
OwnerStep(p) ==
    \/ TakeLock(p) \/ Bind(p) \/ Truncate(p) \/ WriteEndpoint(p)
    \/ (\E c \in Client : Accept(p, c)) \/ WouldBlock(p) \/ GoOn(p) \/ IdleOut(p)
    \/ JoinWorkers(p) \/ Unlink(p) \/ Exit(p)

Next ==
    \/ \E c \in Client : Start(c) \/ ClientStep(c) \/ Quit(c) \/ Handshake(c) \/ CutOff(c)
    \/ \E p \in Process : OwnerStep(p) \/ Crash(p)

Spec == Init /\ [][Next]_vars

(* Threads and processes that can run do, the listen queue is first in,     *)
(* first out, and an owner that nobody tries to reach leaves.  A client     *)
(* that reads an owner's endpoint dials it every 50 milliseconds and the    *)
(* owner looks at its queue for at least three seconds before it can leave, *)
(* so owners do not for ever leave in front of such a client.               *)
Connecting(c) == client[c].pc \in {"look", "dial", "hello", "retry"}
Sought(p) == endpoint.capability = p /\ \E c \in Client : Connecting(c)
Fairness ==
    /\ \A c \in Client : /\ WF_vars(ClientStep(c)) /\ WF_vars(Handshake(c))
                         /\ SF_vars(\E p \in Process : Accept(p, c))
    /\ \A p \in Process : WF_vars(OwnerStep(p)) /\ SF_vars(IdleOut(p) /\ ~Sought(p))
    /\ <>[][\A p \in Process : IdleOut(p) => ~Sought(p)]_vars
FairSpec == Spec /\ Fairness

(***************************************************************************)
(* Properties.                                                             *)
(***************************************************************************)
Capability == Process \cup {NoProcess}
Ports == Port \cup {NoPort}

OwnerType == [pc : {"gone", "started", "locked", "bound", "writing", "serving", "polled",
                    "stopping", "joined", "unlinked"}, port : Ports]
ClientType == [pc : {"idle", "look", "dial", "hello", "retry", "connected", "called"},
               port : Ports, capability : Capability, attempt : 0..(SpawnEvery - 1)]
ConnType == [peer : Capability,
             stage : {"none", "queued", "accepted", "open", "closed", "reset"}]

(* Every variable has its type. *)
TypeOK ==
    /\ owner \in [Process -> OwnerType]
    /\ lock \in Capability /\ endpoint \in [port : Ports, capability : Capability]
    /\ client \in [Client -> ClientType] /\ conn \in [Client -> ConnType]
    /\ faults \in Nat

(* At most one process is past the lock, where it opens the store and starts  *)
(* its workers, however many clients start one and whenever one dies.        *)
OneOwner ==
    \A p, q \in Process : owner[p].pc \notin {"gone", "started"}
                              /\ owner[q].pc \notin {"gone", "started"} => p = q

(* An owner that serves can be found: endpoint.json is its own, so a process *)
(* that leaves never removes or overwrites its successor's.                  *)
ServingIsPublished ==
    \A p \in Process : Serving(p) => endpoint = [port |-> owner[p].port, capability |-> p]

(* An owner never leaves while a connection it has accepted is open, even if *)
(* that connection's thread has not run yet.                                 *)
AcceptedNotAbandoned ==
    \A p \in Process, c \in Client :
        owner[p].pc \in {"stopping", "joined", "unlinked"} =>
            ~(conn[c].peer = p /\ conn[c].stage \in {"accepted", "open"})

(* A client is served by the process whose endpoint it has read, though a    *)
(* port is reused while endpoint.json still names its former owner.          *)
ServedByChosen == \A c \in Client : conn[c].stage = "open" => client[c].capability = conn[c].peer

(* Whoever looks for an owner gets one, or quits. *)
ClientsServed ==
    \A c \in Client : (client[c].pc = "look") ~> (client[c].pc \in {"connected", "idle"})

(* Once all clients have gone for good, so does the owner, and its lock. *)
OwnerLeaves ==
    <>[](\A c \in Client : client[c].pc = "idle") => <>[](lock = NoProcess)

(* A front end whose owner has died, or has dropped it, is connected to an   *)
(* owner again (the test live_frontend_recovers_after_its_owner_process_     *)
(* crashes, and "broken connections are detected by heartbeat/read timeouts" *)
(* in the README), or quits.                                                 *)
FrontendRecovers ==
    \A c \in Client :
        (client[c].pc = "connected" /\ conn[c].stage = "closed")
            ~> (client[c].pc = "idle" \/ conn[c].stage = "open")
=============================================================================
