---------------------------- MODULE OwnerProofs -----------------------------
(***************************************************************************)
(* One owner at a time, found by its endpoint, that abandons no connection *)
(* and serves no stranger, for every number of processes, clients, ports   *)
(* and crashes.                                                            *)
(***************************************************************************)
EXTENDS OwnerLifecycle, TLAPS

USE DEF Gone, NoEndpoint, Listening, Serving, Step, Ends,
        QueuedAt, Live, GoodHello, Capability, Ports, Unreferenced

(* The inductive invariant: a process past the lock holds it, and a client  *)
(* has a connection only from its dialling to its giving up.               *)
PastLock(p) == owner[p].pc \notin {"gone", "started"}
HoldsLock == \A p \in Process : PastLock(p) => lock = p
ConnOnlyInUse ==
    \A c \in Client :
        /\ client[c].pc \in {"idle", "look", "dial", "retry"} => conn[c] = NoConn
        /\ conn[c].stage \in {"queued", "accepted"} => client[c].pc = "hello"
Lifecycle ==
    /\ TypeOK /\ HoldsLock /\ ConnOnlyInUse
    /\ ServingIsPublished /\ AcceptedNotAbandoned /\ ServedByChosen

(* The next attempt is counted modulo SpawnEvery. *)
LEMMA AttemptType ==
  ASSUME NEW n \in 0..(SpawnEvery - 1)
  PROVE  NextAttempt(n) \in 0..(SpawnEvery - 1)
  BY OwnerAssumption DEF NextAttempt

(* At most a process is started. *)
LEMMA StartedForm ==
  ASSUME owner \in [Process -> OwnerType],
         \/ UNCHANGED owner
         \/ \E p \in Process : owner[p] = Gone /\ owner' = [owner EXCEPT ![p].pc = "started"]
  PROVE  /\ owner' \in [Process -> OwnerType]
         /\ \A p \in Process : \/ owner'[p] = owner[p]
                               \/ owner[p].pc = "gone" /\ owner'[p].pc = "started"
  <1>1. CASE UNCHANGED owner
    BY <1>1
  <1>2. ASSUME NEW p \in Process, owner[p] = Gone, owner' = [owner EXCEPT ![p].pc = "started"]
        PROVE  /\ owner' \in [Process -> OwnerType]
               /\ \A q \in Process : \/ owner'[q] = owner[q]
                                     \/ owner[q].pc = "gone" /\ owner'[q].pc = "started"
    <2> DEFINE s == [pc |-> "started", port |-> NoPort]
    <2>1. owner' = [owner EXCEPT ![p] = s] /\ s \in OwnerType
      <3>1. s = [owner[p] EXCEPT !.pc = "started"]
        BY <1>2
      <3>2. NoPort \in Ports
        OBVIOUS
      <3> QED BY <1>2, <3>1, <3>2 DEF OwnerType
    <2>2. owner[p].pc = "gone" /\ s.pc = "started"
      BY <1>2
    <2> HIDE DEF s, Gone
    <2> QED BY <2>1, <2>2
  <1> QED BY <1>1, <1>2

(* A step of a front end: its own state and connection change, consistently, *)
(* no connection is accepted, and at most a process is started.             *)
LEMMA ClientMoves ==
  ASSUME Lifecycle, NEW c \in Client, NEW s \in ClientType, NEW k \in ConnType,
         client' = [client EXCEPT ![c] = s], conn' = [conn EXCEPT ![c] = k],
         UNCHANGED <<lock, endpoint, faults>>,
         \/ UNCHANGED owner
         \/ \E p \in Process : owner[p] = Gone /\ owner' = [owner EXCEPT ![p].pc = "started"],
         s.pc \in {"idle", "look", "dial", "retry"} => k = NoConn,
         k.stage \in {"queued", "accepted"} => s.pc = "hello",
         k = conn[c] \/ k.stage \notin {"accepted", "open"},
         k.stage = "open" => s.capability = k.peer
  PROVE  Lifecycle'
  <1>1. /\ client' \in [Client -> ClientType] /\ conn' \in [Client -> ConnType]
        /\ \A d \in Client : /\ client'[d] = IF d = c THEN s ELSE client[d]
                             /\ conn'[d] = IF d = c THEN k ELSE conn[d]
    BY DEF Lifecycle, TypeOK
  <1>2. /\ owner' \in [Process -> OwnerType]
        /\ \A p \in Process : \/ owner'[p] = owner[p]
                              \/ owner[p].pc = "gone" /\ owner'[p].pc = "started"
    BY StartedForm DEF Lifecycle, TypeOK
  <1>3. TypeOK'
    BY <1>1, <1>2 DEF Lifecycle, TypeOK
  <1>4. HoldsLock' /\ ServingIsPublished'
    BY <1>2 DEF Lifecycle, HoldsLock, PastLock, ServingIsPublished
  <1>5. ConnOnlyInUse'
    BY <1>1 DEF Lifecycle, ConnOnlyInUse
  <1>6. ServedByChosen'
    BY <1>1 DEF Lifecycle, ServedByChosen
  <1>7. AcceptedNotAbandoned'
    BY <1>1, <1>2 DEF Lifecycle, AcceptedNotAbandoned
  <1> QED BY <1>3, <1>4, <1>5, <1>6, <1>7 DEF Lifecycle

(* Its state before the step is well-formed and as the invariant says. *)
LEMMA ClientIs ==
  ASSUME Lifecycle, NEW c \in Client
  PROVE  /\ client[c] \in ClientType /\ conn[c] \in ConnType
         /\ conn' = conn => conn' = [conn EXCEPT ![c] = conn[c]]
         /\ client' = client => client' = [client EXCEPT ![c] = client[c]]
         /\ endpoint \in [port : Ports, capability : Capability]
         /\ client[c].pc \in {"idle", "look", "dial", "retry"} => conn[c] = NoConn
         /\ conn[c].stage \in {"queued", "accepted"} => client[c].pc = "hello"
         /\ conn[c].stage = "open" => client[c].capability = conn[c].peer
  <1>1. client \in [Client -> ClientType] /\ conn \in [Client -> ConnType]
    BY DEF Lifecycle, TypeOK
  <1>2. endpoint \in [port : Ports, capability : Capability]
    BY DEF Lifecycle, TypeOK
  <1> QED BY <1>1, <1>2 DEF Lifecycle, ConnOnlyInUse, ServedByChosen

(* What a front end's steps make of its state. *)
Pc(s, pc) == [s EXCEPT !.pc = pc]
LookingAt(s) == [s EXCEPT !.pc = "dial", !.port = endpoint.port,
                          !.capability = endpoint.capability]
GivenUp(s) == [s EXCEPT !.pc = "retry", !.port = NoPort, !.capability = NoProcess]
NextTry(s, n) == [s EXCEPT !.pc = "look", !.attempt = n]
Fresh(pc) == [pc |-> pc, port |-> NoPort, capability |-> NoProcess, attempt |-> 0]

(* Each is well-formed. *)
LEMMA PcForm ==
  ASSUME NEW s \in ClientType,
         NEW pc \in {"idle", "look", "dial", "hello", "retry", "connected", "called"}
  PROVE  /\ Pc(s, pc) \in ClientType /\ Pc(s, pc).pc = pc
         /\ Pc(s, pc).capability = s.capability
  BY DEF Pc, ClientType

(* So is the state without an owner. *)
LEMMA FreshForm ==
  ASSUME NEW pc \in {"idle", "look"}
  PROVE  Fresh(pc) \in ClientType /\ Fresh(pc).pc = pc
  <1>1. 0 \in 0..(SpawnEvery - 1)
    BY OwnerAssumption
  <1> QED BY <1>1 DEF Fresh, ClientType

(* So is what looking and giving up leave. *)
LEMMA ClientForms ==
  ASSUME NEW s \in ClientType, endpoint \in [port : Ports, capability : Capability]
  PROVE  /\ LookingAt(s) \in ClientType /\ LookingAt(s).pc = "dial"
         /\ GivenUp(s) \in ClientType /\ GivenUp(s).pc = "retry"
  BY DEF LookingAt, GivenUp, ClientType

(* So is the next attempt. *)
LEMMA NextTryForm ==
  ASSUME NEW s \in ClientType
  PROVE  LET n == NextAttempt(s.attempt)
         IN  NextTry(s, n) \in ClientType /\ NextTry(s, n).pc = "look"
  <1>1. NextAttempt(s.attempt) \in 0..(SpawnEvery - 1)
    BY AttemptType DEF ClientType
  <1> QED BY <1>1 DEF NextTry, ClientType

(* So is the absence of a connection. *)
LEMMA NoConnForm == NoConn \in ConnType /\ NoConn.stage = "none"
  BY DEF NoConn, ConnType

(* So is each connection. *)
LEMMA ConnForms ==
  ASSUME NEW k \in ConnType, NEW p \in Capability,
         NEW stage \in {"none", "queued", "accepted", "open", "closed", "reset"}
  PROVE  /\ [peer |-> p, stage |-> stage] \in ConnType
         /\ [k EXCEPT !.stage = stage] \in ConnType /\ [k EXCEPT !.stage = stage].stage = stage
  BY DEF NoConn, ConnType

(* A front end starts without a connection. *)
LEMMA StartKeeps ==
  ASSUME Lifecycle, NEW c \in Client, Start(c)
  PROVE  Lifecycle'
  <1> DEFINE s == Pc(client[c], "look")
             k == conn[c]
  <1>1. client[c].pc = "idle" /\ UNCHANGED conn /\ UNCHANGED <<owner, lock, endpoint, faults>>
    BY Zenon DEF Start
  <1>2. client' = [client EXCEPT ![c] = s] /\ conn' = [conn EXCEPT ![c] = k]
    BY <1>1, ClientIs DEF Start, Pc, Goto
  <1>3. s \in ClientType /\ k \in ConnType /\ s.pc = "look" /\ k = NoConn /\ k = conn[c]
    BY <1>1, ClientIs, ClientForms, PcForm, FreshForm, NoConnForm, ConnForms
  <1> HIDE DEF s, k
  <1> QED BY <1>1, <1>2, <1>3, NoConnForm, ClientMoves

(* It ends, and its connection with it. *)
LEMMA QuitKeeps ==
  ASSUME Lifecycle, NEW c \in Client, Quit(c)
  PROVE  Lifecycle'
  <1> DEFINE s == Fresh("idle")
             k == NoConn
  <1>1. UNCHANGED <<owner, lock, endpoint, faults>>
    BY Zenon DEF Quit
  <1>2. client' = [client EXCEPT ![c] = s] /\ conn' = [conn EXCEPT ![c] = k]
    BY <1>1, ClientIs DEF Quit, Fresh
  <1>3. s \in ClientType /\ k \in ConnType /\ s.pc = "idle" /\ k = NoConn /\ k.stage = "none"
    BY <1>1, ClientIs, ClientForms, PcForm, FreshForm, NoConnForm, ConnForms
  <1> HIDE DEF s, k
  <1> QED BY <1>1, <1>2, <1>3, NoConnForm, ClientMoves

(* It reads endpoint.json, or finds none. *)
LEMMA LookKeeps ==
  ASSUME Lifecycle, NEW c \in Client, Look(c)
  PROVE  Lifecycle'
  <1>1. client[c].pc = "look" /\ UNCHANGED conn /\ UNCHANGED <<owner, lock, endpoint, faults>>
    BY Zenon DEF Look
  <1>2. CASE client' = [client EXCEPT ![c] = [@ EXCEPT !.pc = "retry"]] /\ UNCHANGED conn
    <2> DEFINE s == Pc(client[c], "retry")
               k == conn[c]
    <2>1. client' = [client EXCEPT ![c] = s] /\ conn' = [conn EXCEPT ![c] = k]
      BY <1>2, ClientIs, Zenon DEF Pc
    <2>2. s \in ClientType /\ k \in ConnType /\ s.pc = "retry" /\ k = NoConn /\ k = conn[c]
      BY <1>1, ClientIs, ClientForms, PcForm, FreshForm, NoConnForm, ConnForms
    <2> HIDE DEF s, k
    <2> QED BY <1>1, <1>2, <2>1, <2>2, NoConnForm, ClientMoves
  <1>3. CASE /\ client' = [client EXCEPT ![c] = [@ EXCEPT !.pc = "dial", !.port = endpoint.port,
                                                    !.capability = endpoint.capability]]
            /\ UNCHANGED conn
    <2> DEFINE s == LookingAt(client[c])
               k == conn[c]
    <2>1. client' = [client EXCEPT ![c] = s] /\ conn' = [conn EXCEPT ![c] = k]
      BY <1>3, ClientIs, Zenon DEF LookingAt
    <2>2. s \in ClientType /\ k \in ConnType /\ s.pc = "dial" /\ k = NoConn /\ k = conn[c]
      BY <1>1, ClientIs, ClientForms, PcForm, FreshForm, NoConnForm, ConnForms
    <2> HIDE DEF s, k
    <2> QED BY <1>1, <1>3, <2>1, <2>2, NoConnForm, ClientMoves
  <1> QED BY <1>2, <1>3, Zenon DEF Look

(* It connects to whoever listens, or gives up. *)
LEMMA DialKeeps ==
  ASSUME Lifecycle, NEW c \in Client, Dial(c)
  PROVE  Lifecycle'
  <1>1. client[c].pc = "dial" /\ UNCHANGED <<owner, lock, endpoint, faults>>
    BY Zenon DEF Dial
  <1>2. CASE \E p \in Process : /\ conn' = [conn EXCEPT ![c] = [peer |-> p, stage |-> "queued"]]
                                /\ Goto(c, "hello")
    <2>0. PICK p \in Process : /\ conn' = [conn EXCEPT ![c] = [peer |-> p, stage |-> "queued"]]
                                /\ Goto(c, "hello")
      BY <1>2
    <2> DEFINE s == Pc(client[c], "hello")
               k == [peer |-> p, stage |-> "queued"]
    <2>1. client' = [client EXCEPT ![c] = s] /\ conn' = [conn EXCEPT ![c] = k]
      BY <2>0, ClientIs, Zenon DEF Pc, Goto
    <2>2. s \in ClientType /\ s.pc = "hello"
      BY ClientIs, PcForm
    <2>3. k \in ConnType /\ k.stage = "queued"
      BY DEF ConnType
    <2> HIDE DEF s, k
    <2> QED BY <1>1, <1>2, <2>1, <2>2, <2>3, NoConnForm, ClientMoves
  <1>3. CASE GiveUp(c) /\ UNCHANGED conn
    <2> DEFINE s == GivenUp(client[c])
               k == conn[c]
    <2>1. client' = [client EXCEPT ![c] = s] /\ conn' = [conn EXCEPT ![c] = k]
      BY <1>3, ClientIs, Zenon DEF GivenUp, GiveUp
    <2>2. s \in ClientType /\ k \in ConnType /\ s.pc = "retry" /\ k = NoConn /\ k = conn[c]
      BY <1>1, <1>3, ClientIs, ClientForms, PcForm, FreshForm, NoConnForm, ConnForms
    <2> HIDE DEF s, k
    <2> QED BY <1>1, <1>3, <2>1, <2>2, NoConnForm, ClientMoves
  <1> QED BY <1>2, <1>3, Zenon DEF Dial

(* Its hello is answered or not. *)
LEMMA HelloAnsweredKeeps ==
  ASSUME Lifecycle, NEW c \in Client, HelloAnswered(c)
  PROVE  Lifecycle'
  <1>1. UNCHANGED <<owner, lock, endpoint, faults>>
    BY Zenon DEF HelloAnswered
  <1>2. CASE conn[c].stage = "open" /\ Goto(c, "connected") /\ UNCHANGED conn
    <2> DEFINE s == Pc(client[c], "connected")
               k == conn[c]
    <2>1. client' = [client EXCEPT ![c] = s] /\ conn' = [conn EXCEPT ![c] = k]
      BY <1>2, ClientIs, Zenon DEF Pc, Goto
    <2>2. s \in ClientType /\ k \in ConnType /\ s.pc = "connected" /\ k.stage = "open"
          /\ s.capability = k.peer /\ k = conn[c]
      BY <1>1, <1>2, ClientIs, ClientForms, PcForm, FreshForm, NoConnForm, ConnForms
    <2> HIDE DEF s, k
    <2> QED BY <1>1, <1>2, <2>1, <2>2, NoConnForm, ClientMoves
  <1>3. CASE GiveUp(c) /\ conn' = [conn EXCEPT ![c] = NoConn]
    <2> DEFINE s == GivenUp(client[c])
               k == NoConn
    <2>1. client' = [client EXCEPT ![c] = s] /\ conn' = [conn EXCEPT ![c] = k]
      BY <1>3, ClientIs, Zenon DEF GivenUp, GiveUp
    <2>2. s \in ClientType /\ k \in ConnType /\ s.pc = "retry" /\ k = NoConn /\ k.stage = "none"
      BY <1>1, ClientIs, ClientForms, PcForm, FreshForm, NoConnForm, ConnForms
    <2> HIDE DEF s, k
    <2> QED BY <1>1, <1>3, <2>1, <2>2, NoConnForm, ClientMoves
  <1> QED BY <1>2, <1>3, Zenon DEF HelloAnswered

(* It tries again and may start a process. *)
LEMMA RetryKeeps ==
  ASSUME Lifecycle, NEW c \in Client, Retry(c)
  PROVE  Lifecycle'
  <1> DEFINE n == NextAttempt(client[c].attempt)
             s == NextTry(client[c], n)
             k == conn[c]
  <1>1. /\ client[c].pc = "retry" /\ UNCHANGED conn /\ UNCHANGED <<lock, endpoint, faults>>
        /\ \/ UNCHANGED owner
           \/ \E p \in Process : owner[p] = Gone /\ owner' = [owner EXCEPT ![p].pc = "started"]
    BY DEF Retry
  <1>2. client' = [client EXCEPT ![c] = s] /\ conn' = [conn EXCEPT ![c] = k]
    <2>1. client' = [client EXCEPT ![c] = s]
      BY Zenon DEF Retry, NextTry
    <2> QED BY <2>1, <1>1, ClientIs, Zenon
  <1>3. s \in ClientType /\ k \in ConnType /\ s.pc = "look" /\ k = NoConn
    BY <1>1, ClientIs, NextTryForm
  <1> HIDE DEF s, k
  <1> QED BY <1>1, <1>2, <1>3, NoConnForm, ClientMoves

(* It writes a request. *)
LEMMA CallKeeps ==
  ASSUME Lifecycle, NEW c \in Client, Call(c)
  PROVE  Lifecycle'
  <1>1. client[c].pc = "connected" /\ UNCHANGED <<owner, lock, endpoint, faults>>
    BY Zenon DEF Call
  <1>2. CASE Goto(c, "called") /\ UNCHANGED conn
    <2> DEFINE s == Pc(client[c], "called")
               k == conn[c]
    <2>1. client' = [client EXCEPT ![c] = s] /\ conn' = [conn EXCEPT ![c] = k]
      BY <1>2, ClientIs, Zenon DEF Pc, Goto
    <2>2. s \in ClientType /\ k \in ConnType /\ s.pc = "called" /\ k = conn[c]
          /\ (k.stage = "open" => s.capability = k.peer)
          /\ k.stage \notin {"queued", "accepted"}
      BY <1>1, <1>2, ClientIs, ClientForms, PcForm, FreshForm, NoConnForm, ConnForms
    <2> HIDE DEF s, k
    <2> QED BY <1>1, <1>2, <2>1, <2>2, NoConnForm, ClientMoves
  <1>3. CASE conn' = [conn EXCEPT ![c].stage = "reset"] /\ UNCHANGED client
    <2> DEFINE s == client[c]
               k == [conn[c] EXCEPT !.stage = "reset"]
    <2>1. client' = [client EXCEPT ![c] = s] /\ conn' = [conn EXCEPT ![c] = k]
      BY <1>3, ClientIs, Zenon DEF Call
    <2>2. s \in ClientType /\ k \in ConnType /\ s.pc = "connected" /\ k.stage = "reset"
      BY <1>1, ClientIs, ClientForms, PcForm, FreshForm, NoConnForm, ConnForms
    <2> HIDE DEF s, k
    <2> QED BY <1>1, <1>3, <2>1, <2>2, NoConnForm, ClientMoves
  <1>4. CASE Reconnect(c)
    <2> DEFINE s == Fresh("look")
               k == NoConn
    <2>1. client' = [client EXCEPT ![c] = s] /\ conn' = [conn EXCEPT ![c] = k]
      BY <1>4, ClientIs, Zenon DEF Reconnect, Fresh
    <2>2. s \in ClientType /\ k \in ConnType /\ s.pc = "look" /\ k = NoConn /\ k.stage = "none"
      BY <1>1, <1>4, ClientIs, ClientForms, PcForm, FreshForm, NoConnForm, ConnForms
    <2> HIDE DEF s, k
    <2> QED BY <1>1, <1>4, <2>1, <2>2, NoConnForm, ClientMoves
  <1> QED BY <1>2, <1>3, <1>4, Zenon DEF Call

(* It reads an answer, or connects anew. *)
LEMMA ResponseKeeps ==
  ASSUME Lifecycle, NEW c \in Client, Response(c)
  PROVE  Lifecycle'
  <1>1. client[c].pc = "called" /\ UNCHANGED <<owner, lock, endpoint, faults>>
    BY Zenon DEF Response
  <1>2. CASE conn[c].stage = "open" /\ Goto(c, "connected") /\ UNCHANGED conn
    <2> DEFINE s == Pc(client[c], "connected")
               k == conn[c]
    <2>1. client' = [client EXCEPT ![c] = s] /\ conn' = [conn EXCEPT ![c] = k]
      BY <1>2, ClientIs, Zenon DEF Pc, Goto
    <2>2. s \in ClientType /\ k \in ConnType /\ s.pc = "connected" /\ k.stage = "open"
          /\ s.capability = k.peer /\ k = conn[c]
      BY <1>2, ClientIs, PcForm
    <2> HIDE DEF s, k
    <2> QED BY <1>1, <1>2, <2>1, <2>2, NoConnForm, ClientMoves
  <1>3. CASE Reconnect(c)
    <2> DEFINE s == Fresh("look")
               k == NoConn
    <2>1. client' = [client EXCEPT ![c] = s] /\ conn' = [conn EXCEPT ![c] = k]
      BY <1>3, ClientIs, Zenon DEF Reconnect, Fresh
    <2>2. s \in ClientType /\ k \in ConnType /\ s.pc = "look" /\ k = NoConn /\ k.stage = "none"
      BY <1>1, <1>3, ClientIs, ClientForms, PcForm, FreshForm, NoConnForm, ConnForms
    <2> HIDE DEF s, k
    <2> QED BY <1>1, <1>3, <2>1, <2>2, NoConnForm, ClientMoves
  <1> QED BY <1>2, <1>3, Zenon DEF Response

(* Only the owner a client has chosen accepts its hello. *)
LEMMA HandshakeKeeps ==
  ASSUME Lifecycle, NEW c \in Client, Handshake(c)
  PROVE  Lifecycle'
  <1> USE DEF Lifecycle, Handshake
  <1>1. TypeOK'
    BY DEF TypeOK, OwnerType, ClientType, ConnType, NoConn
  <1>2. HoldsLock' /\ ServingIsPublished'
    BY OwnerAssumption DEF TypeOK, OwnerType, HoldsLock, PastLock, ServingIsPublished
  <1>3. ConnOnlyInUse' /\ AcceptedNotAbandoned' /\ ServedByChosen'
    BY OwnerAssumption DEF TypeOK, OwnerType, ClientType, ConnType, NoConn,
                           ConnOnlyInUse, AcceptedNotAbandoned,
                           ServedByChosen
  <1> QED BY <1>1, <1>2, <1>3

(* A silent connection is closed. *)
LEMMA CutOffKeeps ==
  ASSUME Lifecycle, NEW c \in Client, CutOff(c)
  PROVE  Lifecycle'
  <1> USE DEF Lifecycle, CutOff
  <1>1. TypeOK'
    BY DEF TypeOK, OwnerType, ClientType, ConnType, NoConn
  <1>2. HoldsLock' /\ ServingIsPublished'
    BY OwnerAssumption DEF TypeOK, OwnerType, HoldsLock, PastLock, ServingIsPublished
  <1>3. ConnOnlyInUse' /\ AcceptedNotAbandoned' /\ ServedByChosen'
    BY OwnerAssumption DEF TypeOK, OwnerType, ClientType, ConnType, NoConn,
                           ConnOnlyInUse, AcceptedNotAbandoned,
                           ServedByChosen
  <1> QED BY <1>1, <1>2, <1>3

(* The lock is free or the process goes away. *)
LEMMA TakeLockKeeps ==
  ASSUME Lifecycle, NEW p \in Process, TakeLock(p)
  PROVE  Lifecycle'
  <1> USE DEF Lifecycle, TakeLock
  <1>1. TypeOK'
    BY DEF TypeOK, OwnerType, ClientType, ConnType, NoConn
  <1>2. HoldsLock' /\ ServingIsPublished'
    BY OwnerAssumption DEF TypeOK, OwnerType, HoldsLock, PastLock, ServingIsPublished
  <1>3. ConnOnlyInUse' /\ AcceptedNotAbandoned' /\ ServedByChosen'
    BY OwnerAssumption DEF TypeOK, OwnerType, ClientType, ConnType, NoConn,
                           ConnOnlyInUse, AcceptedNotAbandoned,
                           ServedByChosen
  <1> QED BY <1>1, <1>2, <1>3

(* The holder of the lock listens. *)
LEMMA BindKeeps ==
  ASSUME Lifecycle, NEW p \in Process, Bind(p)
  PROVE  Lifecycle'
  <1> USE DEF Lifecycle, Bind
  <1>1. TypeOK'
    BY DEF TypeOK, OwnerType, ClientType, ConnType, NoConn
  <1>2. HoldsLock' /\ ServingIsPublished'
    BY OwnerAssumption DEF TypeOK, OwnerType, HoldsLock, PastLock, ServingIsPublished
  <1>3. ConnOnlyInUse' /\ AcceptedNotAbandoned' /\ ServedByChosen'
    BY OwnerAssumption DEF TypeOK, OwnerType, ClientType, ConnType, NoConn,
                           ConnOnlyInUse, AcceptedNotAbandoned,
                           ServedByChosen
  <1> QED BY <1>1, <1>2, <1>3

(* Only the holder of the lock touches endpoint.json. *)
LEMMA TruncateKeeps ==
  ASSUME Lifecycle, NEW p \in Process, Truncate(p)
  PROVE  Lifecycle'
  <1> USE DEF Lifecycle, Truncate
  <1>1. TypeOK'
    BY DEF TypeOK, OwnerType, ClientType, ConnType, NoConn
  <1>2. HoldsLock' /\ ServingIsPublished'
    BY OwnerAssumption DEF TypeOK, OwnerType, HoldsLock, PastLock, ServingIsPublished
  <1>3. ConnOnlyInUse' /\ AcceptedNotAbandoned' /\ ServedByChosen'
    BY OwnerAssumption DEF TypeOK, OwnerType, ClientType, ConnType, NoConn,
                           ConnOnlyInUse, AcceptedNotAbandoned,
                           ServedByChosen
  <1> QED BY <1>1, <1>2, <1>3

(* It serves once its endpoint is written. *)
LEMMA WriteEndpointKeeps ==
  ASSUME Lifecycle, NEW p \in Process, WriteEndpoint(p)
  PROVE  Lifecycle'
  <1> USE DEF Lifecycle, WriteEndpoint
  <1>1. TypeOK'
    BY DEF TypeOK, OwnerType, ClientType, ConnType, NoConn
  <1>2. HoldsLock' /\ ServingIsPublished'
    BY OwnerAssumption DEF TypeOK, OwnerType, HoldsLock, PastLock, ServingIsPublished
  <1>3. ConnOnlyInUse' /\ AcceptedNotAbandoned' /\ ServedByChosen'
    BY OwnerAssumption DEF TypeOK, OwnerType, ClientType, ConnType, NoConn,
                           ConnOnlyInUse, AcceptedNotAbandoned,
                           ServedByChosen
  <1> QED BY <1>1, <1>2, <1>3

(* An empty queue changes nothing. *)
LEMMA WouldBlockKeeps ==
  ASSUME Lifecycle, NEW p \in Process, WouldBlock(p)
  PROVE  Lifecycle'
  <1> USE DEF Lifecycle, WouldBlock
  <1>1. TypeOK'
    BY DEF TypeOK, OwnerType, ClientType, ConnType, NoConn
  <1>2. HoldsLock' /\ ServingIsPublished'
    BY OwnerAssumption DEF TypeOK, OwnerType, HoldsLock, PastLock, ServingIsPublished
  <1>3. ConnOnlyInUse' /\ AcceptedNotAbandoned' /\ ServedByChosen'
    BY OwnerAssumption DEF TypeOK, OwnerType, ClientType, ConnType, NoConn,
                           ConnOnlyInUse, AcceptedNotAbandoned,
                           ServedByChosen
  <1> QED BY <1>1, <1>2, <1>3

(* Neither does another round. *)
LEMMA GoOnKeeps ==
  ASSUME Lifecycle, NEW p \in Process, GoOn(p)
  PROVE  Lifecycle'
  <1> USE DEF Lifecycle, GoOn
  <1>1. TypeOK'
    BY DEF TypeOK, OwnerType, ClientType, ConnType, NoConn
  <1>2. HoldsLock' /\ ServingIsPublished'
    BY OwnerAssumption DEF TypeOK, OwnerType, HoldsLock, PastLock, ServingIsPublished
  <1>3. ConnOnlyInUse' /\ AcceptedNotAbandoned' /\ ServedByChosen'
    BY OwnerAssumption DEF TypeOK, OwnerType, ClientType, ConnType, NoConn,
                           ConnOnlyInUse, AcceptedNotAbandoned,
                           ServedByChosen
  <1> QED BY <1>1, <1>2, <1>3

(* It stops serving only without connections. *)
LEMMA IdleOutKeeps ==
  ASSUME Lifecycle, NEW p \in Process, IdleOut(p)
  PROVE  Lifecycle'
  <1> USE DEF Lifecycle, IdleOut
  <1>1. TypeOK'
    BY DEF TypeOK, OwnerType, ClientType, ConnType, NoConn
  <1>2. HoldsLock' /\ ServingIsPublished'
    BY OwnerAssumption DEF TypeOK, OwnerType, HoldsLock, PastLock, ServingIsPublished
  <1>3. ConnOnlyInUse' /\ AcceptedNotAbandoned' /\ ServedByChosen'
    BY OwnerAssumption DEF TypeOK, OwnerType, ClientType, ConnType, NoConn,
                           ConnOnlyInUse, AcceptedNotAbandoned,
                           ServedByChosen
  <1> QED BY <1>1, <1>2, <1>3

(* It still holds the lock. *)
LEMMA JoinWorkersKeeps ==
  ASSUME Lifecycle, NEW p \in Process, JoinWorkers(p)
  PROVE  Lifecycle'
  <1> USE DEF Lifecycle, JoinWorkers
  <1>1. TypeOK'
    BY DEF TypeOK, OwnerType, ClientType, ConnType, NoConn
  <1>2. HoldsLock' /\ ServingIsPublished'
    BY OwnerAssumption DEF TypeOK, OwnerType, HoldsLock, PastLock, ServingIsPublished
  <1>3. ConnOnlyInUse' /\ AcceptedNotAbandoned' /\ ServedByChosen'
    BY OwnerAssumption DEF TypeOK, OwnerType, ClientType, ConnType, NoConn,
                           ConnOnlyInUse, AcceptedNotAbandoned,
                           ServedByChosen
  <1> QED BY <1>1, <1>2, <1>3

(* It removes its own endpoint, still holding the lock. *)
LEMMA UnlinkKeeps ==
  ASSUME Lifecycle, NEW p \in Process, Unlink(p)
  PROVE  Lifecycle'
  <1> USE DEF Lifecycle, Unlink
  <1>1. TypeOK'
    BY DEF TypeOK, OwnerType, ClientType, ConnType, NoConn
  <1>2. HoldsLock' /\ ServingIsPublished'
    BY OwnerAssumption DEF TypeOK, OwnerType, HoldsLock, PastLock, ServingIsPublished
  <1>3. ConnOnlyInUse' /\ AcceptedNotAbandoned' /\ ServedByChosen'
    BY OwnerAssumption DEF TypeOK, OwnerType, ClientType, ConnType, NoConn,
                           ConnOnlyInUse, AcceptedNotAbandoned,
                           ServedByChosen
  <1> QED BY <1>1, <1>2, <1>3

(* The lock and the connections go with it. *)
LEMMA ExitKeeps ==
  ASSUME Lifecycle, NEW p \in Process, Exit(p)
  PROVE  Lifecycle'
  <1> USE DEF Lifecycle, Exit
  <1>1. TypeOK'
    BY DEF TypeOK, OwnerType, ClientType, ConnType, NoConn
  <1>2. HoldsLock' /\ ServingIsPublished'
    BY OwnerAssumption DEF TypeOK, OwnerType, HoldsLock, PastLock, ServingIsPublished
  <1>3. ConnOnlyInUse' /\ AcceptedNotAbandoned' /\ ServedByChosen'
    BY OwnerAssumption DEF TypeOK, OwnerType, ClientType, ConnType, NoConn,
                           ConnOnlyInUse, AcceptedNotAbandoned,
                           ServedByChosen
  <1> QED BY <1>1, <1>2, <1>3

(* A crash drops the lock and the connections too. *)
LEMMA CrashKeeps ==
  ASSUME Lifecycle, NEW p \in Process, Crash(p)
  PROVE  Lifecycle'
  <1> USE DEF Lifecycle, Crash
  <1>1. TypeOK'
    BY DEF TypeOK, OwnerType, ClientType, ConnType, NoConn
  <1>2. HoldsLock' /\ ServingIsPublished'
    BY OwnerAssumption DEF TypeOK, OwnerType, HoldsLock, PastLock, ServingIsPublished
  <1>3. ConnOnlyInUse' /\ AcceptedNotAbandoned' /\ ServedByChosen'
    BY OwnerAssumption DEF TypeOK, OwnerType, ClientType, ConnType, NoConn,
                           ConnOnlyInUse, AcceptedNotAbandoned,
                           ServedByChosen
  <1> QED BY <1>1, <1>2, <1>3

(* A connection is accepted only while serving. *)
LEMMA AcceptKeeps ==
  ASSUME Lifecycle, NEW p \in Process, NEW c \in Client, Accept(p, c)
  PROVE  Lifecycle'
  <1> USE DEF Lifecycle, Accept
  <1>1. TypeOK'
    BY DEF TypeOK, OwnerType, ClientType, ConnType, NoConn
  <1>2. HoldsLock' /\ ServingIsPublished'
    BY OwnerAssumption DEF TypeOK, OwnerType, HoldsLock, PastLock, ServingIsPublished
  <1>3. ConnOnlyInUse' /\ AcceptedNotAbandoned' /\ ServedByChosen'
    BY OwnerAssumption DEF TypeOK, OwnerType, ClientType, ConnType, NoConn,
                           ConnOnlyInUse, AcceptedNotAbandoned,
                           ServedByChosen
  <1> QED BY <1>1, <1>2, <1>3

(***************************************************************************)
(* The specification.                                                      *)
(***************************************************************************)
(* At first there is no process, no endpoint and no connection. *)
LEMMA InitLifecycle == Init => Lifecycle
  <1> SUFFICES ASSUME Init PROVE Lifecycle
    OBVIOUS
  <1> USE DEF Init
  <1>1. TypeOK
    <2>1. 0 \in 0..(SpawnEvery - 1)
      BY OwnerAssumption
    <2> QED BY <2>1 DEF TypeOK, OwnerType, ClientType, ConnType, NoConn
  <1>2. HoldsLock /\ ServingIsPublished
    BY DEF HoldsLock, PastLock, ServingIsPublished
  <1>3. ConnOnlyInUse /\ AcceptedNotAbandoned /\ ServedByChosen
    BY DEF ConnOnlyInUse, AcceptedNotAbandoned, ServedByChosen, NoConn
  <1> QED BY <1>1, <1>2, <1>3 DEF Lifecycle

(* Every step of a process or a front end keeps the invariant. *)
LEMMA NextKeeps ==
  ASSUME Lifecycle, [Next]_vars
  PROVE  Lifecycle'
  <1>1. ASSUME NEW c \in Client, Start(c) \/ ClientStep(c) \/ Quit(c) \/ Handshake(c) \/ CutOff(c)
        PROVE  Lifecycle'
    BY <1>1, StartKeeps, LookKeeps, DialKeeps, HelloAnsweredKeeps, RetryKeeps,
       CallKeeps, ResponseKeeps, QuitKeeps, HandshakeKeeps, CutOffKeeps DEF ClientStep
  <1>2. ASSUME NEW p \in Process, OwnerStep(p) \/ Crash(p)
        PROVE  Lifecycle'
    BY <1>2, TakeLockKeeps, BindKeeps, TruncateKeeps, WriteEndpointKeeps, AcceptKeeps,
       WouldBlockKeeps, GoOnKeeps, IdleOutKeeps, JoinWorkersKeeps, UnlinkKeeps, ExitKeeps,
       CrashKeeps DEF OwnerStep
  <1>3. CASE UNCHANGED vars
    BY <1>3 DEF vars, Lifecycle, TypeOK, HoldsLock, PastLock, ConnOnlyInUse,
                ServingIsPublished, AcceptedNotAbandoned, ServedByChosen
  <1> QED BY <1>1, <1>2, <1>3 DEF Next

(* The invariant holds throughout: a process past the lock holds it, and a  *)
(* front end has a connection only while it uses one (runtime.rs, run_owner *)
(* and OwnerClient).                                                       *)
THEOREM LifecycleAlways == Spec => []Lifecycle
  <1>1. Lifecycle /\ [Next]_vars => Lifecycle'
    BY NextKeeps
  <1> QED BY <1>1, InitLifecycle, PTL DEF Spec

(* Every variable keeps its type (runtime.rs, run_owner, serve_connection    *)
(* and OwnerClient): a front end's attempts stay below the number after      *)
(* which it starts a process again.                                         *)
THEOREM OwnerTyped == Spec => []TypeOK
  <1>1. Lifecycle => TypeOK
    BY DEF Lifecycle
  <1> QED BY <1>1, LifecycleAlways, PTL

(* At most one process is past owner.lock, whoever starts and whoever dies   *)
(* (run_owner opens the store and starts its workers only there).            *)
THEOREM OneOwnerAlways == Spec => []OneOwner
  <1>1. Lifecycle => OneOwner
    BY DEF Lifecycle, HoldsLock, PastLock, OneOwner
  <1> QED BY <1>1, LifecycleAlways, PTL

(* endpoint.json names the process that serves (run_owner writes it before   *)
(* its accept loop and removes it after, under the lock).                    *)
THEOREM ServingAlwaysPublished == Spec => []ServingIsPublished
  <1>1. Lifecycle => ServingIsPublished
    BY DEF Lifecycle
  <1> QED BY <1>1, LifecycleAlways, PTL

(* An owner that leaves has no accepted connection (the accept loop counts   *)
(* a connection before it starts its thread).                               *)
THEOREM NeverAbandoned == Spec => []AcceptedNotAbandoned
  <1>1. Lifecycle => AcceptedNotAbandoned
    BY DEF Lifecycle
  <1> QED BY <1>1, LifecycleAlways, PTL

(* Only the process whose capability a client has read serves it             *)
(* (serve_connection compares the hello's capability with its own).          *)
THEOREM AlwaysServedByChosen == Spec => []ServedByChosen
  <1>1. Lifecycle => ServedByChosen
    BY DEF Lifecycle
  <1> QED BY <1>1, LifecycleAlways, PTL
=============================================================================
