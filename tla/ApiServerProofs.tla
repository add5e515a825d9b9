-------------------------- MODULE ApiServerProofs --------------------------
(***************************************************************************)
(* Proofs about ApiServer for every set of descriptors and of requests,     *)
(* every queue capacity and every number of workers.                        *)
(***************************************************************************)
EXTENDS ApiServer, SequenceTheorems, FiniteSetTheorems, TLAPS

\* The elements of a sequence, and whether they are all different.
Elements(p) == {p[k] : k \in 1 .. Len(p)}
Distinct(p) == \A k, l \in 1 .. Len(p) : p[k] = p[l] => k = l

\* Who answers for a descriptor, without counting: the queue, the workers and
\* the accept thread share the open descriptors between them.
OwnershipInv ==
  /\ apc \in {"peek", "submit", "serve", "refuse"} => afd \in Fds
  /\ Distinct(pending)
  /\ Elements(pending) \cap running = {}
  /\ Accepted \cap (Elements(pending) \cup running) = {}
  /\ Open = Elements(pending) \cup running \cup Accepted

\* A connection that is queued, or that the accept thread has not decided
\* about, has no handler yet.
Unhandled == Elements(pending) \cup (IF apc \in {"peek", "submit"} THEN {afd} ELSE {})
PhaseInv ==
  /\ \A fd \in Unhandled : conn[fd].at = "idle"
  /\ apc = "returned" => pending = <<>> /\ running = {}

\* What a connection's handler has done, by the place it is at.
Effect(c) ==
  /\ c.at \in {"idle", "reading", "routing"} => c.ran = 0 /\ c.status = NoStatus
  /\ c.at = "executing" =>
       c.ran = 1 /\ c.read = 5 /\ c.status = NoStatus /\ c.req.path = "/query"
  /\ c.ran = 1 => c.read = 5
  /\ c.status \in {404, 405, 503} => c.ran = 0
  /\ c.status = 200 /\ c.req.path = "/query" => c.ran = 1
EffectInv == \A fd \in Open : Effect(conn[fd])

\* The inductive invariant.
IndInv == TypeOK /\ IsFiniteSet(running) /\ OwnershipInv /\ PhaseInv /\ EffectInv

-----------------------------------------------------------------------------
(* Sequences and sets *)

\* Joining the queue.
LEMMA AppendElements ==
  ASSUME NEW S, NEW p \in Seq(S), NEW x \in S, x \notin Elements(p), Distinct(p)
  PROVE  /\ Elements(Append(p, x)) = Elements(p) \cup {x}
         /\ Distinct(Append(p, x))
<1> DEFINE q == Append(p, x)
<1>1. /\ Len(p) \in Nat /\ Len(q) = Len(p) + 1
      /\ \A i \in 1 .. Len(p) : q[i] = p[i]
      /\ q[Len(p) + 1] = x
  BY LenProperties, AppendProperties
<1> HIDE DEF q
<1>2. Elements(q) = Elements(p) \cup {x}
  <2>1. \A k \in 1 .. Len(q) : q[k] \in Elements(p) \cup {x}
    BY <1>1 DEF Elements
  <2>2. \A y \in Elements(p) : y \in Elements(q)
    BY <1>1 DEF Elements
  <2>3. x \in Elements(q)
    BY <1>1 DEF Elements
  <2> QED BY <2>1, <2>2, <2>3 DEF Elements
<1>3. Distinct(q)
  <2> SUFFICES ASSUME NEW k \in 1 .. Len(q), NEW l \in 1 .. Len(q), q[k] = q[l]
               PROVE  k = l
    BY DEF Distinct
  <2>1. \A i \in 1 .. Len(p) : q[i] # x
    BY <1>1 DEF Elements
  <2> QED BY <1>1, <2>1 DEF Distinct
<1> QED BY <1>2, <1>3 DEF q

\* Leaving it at the head.
LEMMA TailElements ==
  ASSUME NEW S, NEW p \in Seq(S), p # <<>>, Distinct(p)
  PROVE  /\ Head(p) \in Elements(p)
         /\ Elements(Tail(p)) = Elements(p) \ {Head(p)}
         /\ Distinct(Tail(p))
<1> DEFINE q == Tail(p)
<1>1. /\ Len(p) \in Nat \ {0} /\ Len(q) = Len(p) - 1
      /\ \A i \in 1 .. Len(q) : q[i] = p[i + 1]
  BY EmptySeq, HeadTailProperties
<1>2. Head(p) = p[1]
  OBVIOUS
<1> HIDE DEF q
<1>3. Head(p) \in Elements(p)
  BY <1>1, <1>2 DEF Elements
<1>4. Elements(q) = Elements(p) \ {Head(p)}
  <2>1. ASSUME NEW i \in 1 .. Len(q) PROVE q[i] \in Elements(p) /\ q[i] # Head(p)
    <3>1. i + 1 \in 1 .. Len(p) /\ i + 1 # 1 /\ 1 \in 1 .. Len(p)
      BY <1>1
    <3> QED BY <1>1, <1>2, <3>1 DEF Elements, Distinct
  <2>2. ASSUME NEW k \in 1 .. Len(p), p[k] # Head(p) PROVE p[k] \in Elements(q)
    <3>1. k - 1 \in 1 .. Len(q) /\ (k - 1) + 1 = k
      BY <1>1, <1>2, <2>2
    <3>2. q[k - 1] = p[k]
      BY <1>1, <3>1
    <3> QED BY <3>1, <3>2 DEF Elements
  <2> QED BY <2>1, <2>2 DEF Elements
<1>5. Distinct(q)
  BY <1>1 DEF Distinct
<1> QED BY <1>3, <1>4, <1>5 DEF q

\* The next piece that a client sends is one of the cuts of its request.
LEMMA MinOfCuts ==
  ASSUME NEW S \in SUBSET (1 .. 5), S # {}
  PROVE  Min(S) \in S
<1>1. \E x \in S : \A y \in S : x <= y
  <2>1. PICK z \in S : z \in 1 .. 5
    OBVIOUS
  <2>2. z = 1 \/ z = 2 \/ z = 3 \/ z = 4 \/ z = 5
    BY <2>1
  <2> QED BY <2>2
<1> QED BY <1>1 DEF Min

\* Open descriptors are those with a connection.
LEMMA OpenHasConnection ==
  ASSUME TypeOK, NEW fd \in Fds
  PROVE  /\ fd \in Open <=> conn[fd] \in Connection
         /\ fd \notin Open <=> conn[fd] = Closed
<1>1. \A c \in Connection : c # Closed
  <2> SUFFICES ASSUME NEW c \in Connection, c = Closed PROVE FALSE
    OBVIOUS
  <2>1. c.at # "closed"
    BY DEF Connection
  <2>2. c.at = "closed"
    BY DEF Closed
  <2> QED BY <2>1, <2>2
<1> QED BY <1>1 DEF TypeOK, Open

-----------------------------------------------------------------------------
(* Steps that rewrite one connection *)

\* A connection is opened or rewritten.
LEMMA ConnectionStored ==
  ASSUME TypeOK, NEW fd \in Fds, NEW c \in Connection, conn' = [conn EXCEPT ![fd] = c]
  PROVE  /\ conn' \in [Fds -> Connection \cup {Closed}]
         /\ Open' = Open \cup {fd}
         /\ conn'[fd] = c
         /\ \A g \in Fds \ {fd} : conn'[g] = conn[g]
<1>1. conn' \in [Fds -> Connection \cup {Closed}]
  BY DEF TypeOK
<1>2. conn'[fd] = c /\ \A g \in Fds \ {fd} : conn'[g] = conn[g]
  BY DEF TypeOK
<1>3. c # Closed
  <2>1. c.at # "closed"
    BY DEF Connection
  <2> QED BY <2>1 DEF Closed
<1>4. Open' = Open \cup {fd}
  BY <1>2, <1>3 DEF Open
<1> QED BY <1>1, <1>2, <1>4

\* Rewriting an open connection preserves the invariant if the new one is as
\* its place says, and if a connection without a handler stays without.
LEMMA ConnectionRewritten ==
  ASSUME IndInv, NEW fd \in Open, NEW c \in Connection,
         conn' = [conn EXCEPT ![fd] = c], Effect(c),
         conn[fd].at = "idle" => c.at = "idle",
         UNCHANGED <<apc, afd, poolVars, alive>>
  PROVE  IndInv'
<1>1. fd \in Fds
  BY DEF Open
<1>2. TypeOK /\ OwnershipInv /\ PhaseInv /\ EffectInv /\ IsFiniteSet(running)
  BY DEF IndInv
<1>3. /\ conn' \in [Fds -> Connection \cup {Closed}]
      /\ Open' = Open
      /\ conn'[fd] = c
      /\ \A g \in Fds \ {fd} : conn'[g] = conn[g]
  <2>1. /\ conn' \in [Fds -> Connection \cup {Closed}]
        /\ Open' = Open \cup {fd}
        /\ conn'[fd] = c
        /\ \A g \in Fds \ {fd} : conn'[g] = conn[g]
    BY <1>1, <1>2, ConnectionStored
  <2> QED BY <2>1
<1>4. UNCHANGED <<apc, afd, pending, running, closed, alive>>
  BY DEF poolVars
<1>5. TypeOK'
  <2>1. closed' \in BOOLEAN /\ alive' \in BOOLEAN
    BY <1>2, <1>4, Zenon DEF TypeOK
  <2> QED BY <1>2, <1>3, <1>4, <2>1 DEF TypeOK
<1>6. OwnershipInv'
  BY <1>2, <1>3, <1>4 DEF OwnershipInv, Accepted, Distinct, Elements
<1>7. PhaseInv'
  <2>1. Unhandled' = Unhandled
    BY <1>4 DEF Unhandled, Elements
  <2>2. Unhandled \subseteq Fds
    BY <1>2 DEF Unhandled, OwnershipInv, Open, Accepted
  <2>3. \A g \in Unhandled : conn'[g].at = "idle"
    BY <1>2, <1>3, <2>2 DEF PhaseInv
  <2> QED BY <1>2, <1>4, <2>1, <2>3 DEF PhaseInv
<1>8. EffectInv'
  BY <1>2, <1>3 DEF EffectInv, Open
<1>9. IsFiniteSet(running)'
  BY <1>2, <1>4
<1> QED BY <1>5, <1>6, <1>7, <1>8, <1>9 DEF IndInv

\* The fields of an open connection.
LEMMA ConnectionFields ==
  ASSUME IndInv, NEW fd \in Open
  PROVE  /\ fd \in Fds /\ conn[fd] \in Connection /\ Effect(conn[fd])
         /\ conn[fd].req \in Requests /\ conn[fd].req \in RequestType
         /\ conn[fd].sent \in 0 .. 5 /\ conn[fd].read \in 0 .. 5
<1>1. fd \in Fds /\ conn[fd] \in Connection
  BY OpenHasConnection DEF IndInv, Open
<1>2. Effect(conn[fd])
  BY DEF IndInv, EffectInv
<1> QED BY <1>1, <1>2, RequestsAssumption DEF Connection

\* An answer preserves the invariant if it says what happened.
LEMMA AnswerPreserves ==
  ASSUME IndInv, NEW fd \in Open, conn[fd].at # "idle",
         NEW status \in Statuses \cup {NoStatus}, Answer(fd, status),
         status \in {404, 405, 503} => conn[fd].ran = 0,
         status = 200 /\ conn[fd].req.path = "/query" => conn[fd].ran = 1
  PROVE  IndInv'
<1> DEFINE c == [conn[fd] EXCEPT !.status = status, !.at = "sending"]
<1>1. fd \in Fds /\ conn[fd] \in Connection /\ Effect(conn[fd])
  BY ConnectionFields
<1>2. c \in Connection
  BY <1>1 DEF Connection
<1>3. /\ c.at = "sending" /\ c.status = status
      /\ c.ran = conn[fd].ran /\ c.read = conn[fd].read /\ c.req = conn[fd].req
  BY <1>1 DEF Connection
<1>4. conn' = [conn EXCEPT ![fd] = c]
  BY <1>1 DEF Answer, IndInv, TypeOK
<1>5. UNCHANGED <<apc, afd, poolVars, alive>>
  BY DEF Answer
<1> HIDE DEF c
<1>6. Effect(c)
  BY <1>1, <1>3 DEF Effect
<1> QED BY <1>2, <1>4, <1>5, <1>6, ConnectionRewritten

-----------------------------------------------------------------------------
(* The actions *)

\* The clients.
LEMMA ClientPreserves ==
  ASSUME IndInv, NEW fd \in Fds, ClientStep(fd)
  PROVE  IndInv'
<1>1. fd \in Open
  BY DEF ClientStep, SendPart, Leave
<1>2. /\ conn[fd] \in Connection /\ Effect(conn[fd])
      /\ conn[fd].req \in RequestType
  BY <1>1, ConnectionFields
<1>3. CASE SendPart(fd)
  <2> DEFINE m == Min(Unsent(conn[fd]))
             c == [conn[fd] EXCEPT !.sent = m]
  <2>1. Unsent(conn[fd]) \in SUBSET (1 .. 5) /\ Unsent(conn[fd]) # {}
    BY <1>2, <1>3 DEF SendPart, Unsent, RequestType
  <2>2. m \in 1 .. 5
    BY <2>1, MinOfCuts
  <2>3. conn' = [conn EXCEPT ![fd] = c] /\ UNCHANGED <<apc, afd, poolVars, alive>>
    BY <1>3 DEF SendPart
  <2> HIDE DEF m
  <2>4. c \in Connection /\ c.at = conn[fd].at
    BY <1>2, <2>2 DEF Connection
  <2>5. Effect(c)
    BY <1>2 DEF Effect, Connection
  <2> QED BY <1>1, <2>3, <2>4, <2>5, ConnectionRewritten
<1>4. CASE Leave(fd)
  <2>1. PICK peer \in {"shut", "gone"} : conn' = [conn EXCEPT ![fd].peer = peer]
    BY <1>4 DEF Leave
  <2> DEFINE c == [conn[fd] EXCEPT !.peer = peer]
  <2>2. conn' = [conn EXCEPT ![fd] = c] /\ UNCHANGED <<apc, afd, poolVars, alive>>
    BY <1>4, <2>1 DEF Leave
  <2>3. c \in Connection /\ c.at = conn[fd].at
    BY <1>2 DEF Connection
  <2>4. Effect(c)
    BY <1>2 DEF Effect, Connection
  <2> QED BY <1>1, <2>2, <2>3, <2>4, ConnectionRewritten
<1> QED BY <1>3, <1>4 DEF ClientStep

\* The handler, but for the end of its job.
LEMMA HandlerPreserves ==
  ASSUME IndInv, NEW fd \in Fds,
         \/ Receive(fd) \/ ReceiveEnd(fd) \/ Route(fd) \/ CallEngine(fd)
         \/ EngineReturns(fd) \/ ReadFails(fd) \/ RouteFails(fd)
  PROVE  IndInv'
<1>1. fd \in Open /\ conn[fd].at # "idle"
  BY DEF Receive, ReceiveEnd, Route, CallEngine, EngineReturns, ReadFails,
         RouteFails, Handled
<1>2. /\ conn[fd] \in Connection /\ Effect(conn[fd])
      /\ conn[fd].req \in RequestType
      /\ conn[fd].sent \in 0 .. 5 /\ conn[fd].read \in 0 .. 5
  BY <1>1, ConnectionFields
<1>3. CASE Receive(fd)
  <2> DEFINE b == [conn[fd] EXCEPT !.read = conn[fd].sent]
             c == IF RequestComplete(b) THEN [b EXCEPT !.at = "routing"] ELSE b
  <2>1. conn' = [conn EXCEPT ![fd] = c] /\ UNCHANGED <<apc, afd, poolVars, alive>>
    BY <1>3 DEF Receive
  <2>2. conn[fd].at = "reading"
    BY <1>3 DEF Receive
  <2>3. c \in Connection
    BY <1>2 DEF Connection
  <2>4. /\ c.at \in {"reading", "routing"}
        /\ c.ran = conn[fd].ran /\ c.status = conn[fd].status
    BY <1>2, <2>2 DEF Connection
  <2> HIDE DEF c
  <2>5. Effect(c)
    BY <1>2, <2>2, <2>4 DEF Effect, NoStatus
  <2> QED BY <1>1, <2>1, <2>2, <2>3, <2>5, ConnectionRewritten
<1>4. ASSUME conn[fd].at = "reading", conn' = [conn EXCEPT ![fd].at = "routing"],
             UNCHANGED <<apc, afd, poolVars, alive>>
      PROVE  IndInv'
  <2> DEFINE c == [conn[fd] EXCEPT !.at = "routing"]
  <2>1. conn' = [conn EXCEPT ![fd] = c]
    BY <1>4
  <2>2. c \in Connection
    BY <1>2 DEF Connection
  <2>3. Effect(c)
    BY <1>2, <1>4 DEF Effect, Connection
  <2> QED BY <1>1, <1>4, <2>1, <2>2, <2>3, ConnectionRewritten
<1>5. ASSUME NEW status \in {NoStatus, 400, 500}, Answer(fd, status) PROVE IndInv'
  BY <1>1, <1>5, AnswerPreserves DEF Statuses, NoStatus
<1>6. CASE ReceiveEnd(fd)
  <2>1. 400 \in {NoStatus, 400, 500}
    OBVIOUS
  <2> QED BY <1>4, <1>5, <1>6, <2>1 DEF ReceiveEnd
<1>7. CASE ReadFails(fd)
  BY <1>5, <1>7 DEF ReadFails
<1>8. CASE RouteFails(fd)
  BY <1>5, <1>8 DEF RouteFails
<1>9. CASE Route(fd)
  <2>1. conn[fd].ran = 0
    BY <1>2, <1>9 DEF Route, Effect
  <2>2. PICK status \in {200, 400, 404, 405} :
          /\ Answer(fd, status)
          /\ status = 200 => conn[fd].req.path \in {"/health", "/HEALTH"}
    BY <1>9 DEF Route
  <2>3. status \in Statuses \cup {NoStatus}
    BY DEF Statuses
  <2> QED BY <1>1, <2>1, <2>2, <2>3, AnswerPreserves
<1>10. CASE EngineReturns(fd)
  <2>1. conn[fd].ran = 1
    BY <1>2, <1>10 DEF EngineReturns, Effect
  <2>2. PICK status \in {200, 400} : Answer(fd, status)
    BY <1>10 DEF EngineReturns
  <2>3. status \in Statuses \cup {NoStatus} /\ status \notin {404, 405, 503}
    BY DEF Statuses
  <2> QED BY <1>1, <2>1, <2>2, <2>3, AnswerPreserves
<1>11. CASE CallEngine(fd)
  <2> DEFINE c == [conn[fd] EXCEPT !.at = "executing", !.ran = 1]
  <2>1. /\ conn[fd].at = "routing" /\ conn[fd].req.path = "/query"
        /\ conn[fd].read = 5 /\ conn[fd].ran = 0 /\ conn[fd].status = NoStatus
    BY <1>2, <1>11 DEF CallEngine, ExtractsSql, Effect
  <2>2. conn' = [conn EXCEPT ![fd] = c] /\ UNCHANGED <<apc, afd, poolVars, alive>>
    <3>1. conn' = [conn EXCEPT ![fd].at = "executing", ![fd].ran = conn[fd].ran + 1]
      BY <1>2, <1>11 DEF CallEngine, IndInv, TypeOK, Connection
    <3>2. conn[fd].ran + 1 = 1
      BY <2>1
    <3> QED BY <1>2, <1>11, <3>1, <3>2 DEF CallEngine, IndInv, TypeOK
  <2>3. c \in Connection
    <3>1. [conn[fd] EXCEPT !.at = "executing"] \in Connection
      BY <1>2 DEF Connection
    <3>2. 1 \in 0 .. 1
      OBVIOUS
    <3>3. \A d \in Connection, n \in 0 .. 1 : [d EXCEPT !.ran = n] \in Connection
      BY DEF Connection
    <3>4. c = [[conn[fd] EXCEPT !.at = "executing"] EXCEPT !.ran = 1]
      OBVIOUS
    <3> QED BY <3>1, <3>2, <3>3, <3>4
  <2>4. /\ c.at = "executing" /\ c.ran = 1 /\ c.read = 5
        /\ c.status = NoStatus /\ c.req = conn[fd].req
    BY <1>2, <2>1 DEF Connection
  <2> HIDE DEF c
  <2>5. Effect(c)
    BY <2>1, <2>4 DEF Effect, NoStatus
  <2> QED BY <1>1, <2>1, <2>2, <2>3, <2>5, ConnectionRewritten
<1> QED BY <1>3, <1>6, <1>7, <1>8, <1>9, <1>10, <1>11

\* The accept thread's own steps leave the pool alone but for Close.
LEMMA AcceptThreadPreserves ==
  ASSUME IndInv, \/ \E fd \in Fds : Accept(fd)
                 \/ Peek \/ AcceptFails \/ JoinPool
  PROVE  IndInv'
<1>1. TypeOK /\ OwnershipInv /\ PhaseInv /\ EffectInv /\ IsFiniteSet(running)
  BY DEF IndInv
<1>2. ASSUME NEW fd \in Fds, Accept(fd) PROVE IndInv'
  <2>1. PICK r \in Requests :
          conn' = [conn EXCEPT ![fd] =
                     [req |-> r, sent |-> 0, read |-> 0, peer |-> "sending",
                      at |-> "idle", ran |-> 0, status |-> NoStatus]]
    BY <1>2 DEF Accept
  <2> DEFINE c == [req |-> r, sent |-> 0, read |-> 0, peer |-> "sending",
                   at |-> "idle", ran |-> 0, status |-> NoStatus]
  <2>2. c \in Connection
    BY DEF Connection
  <2>3. Effect(c) /\ c.at = "idle"
    BY DEF Effect, NoStatus
  <2> HIDE DEF c
  <2>4. /\ conn' \in [Fds -> Connection \cup {Closed}]
        /\ Open' = Open \cup {fd}
        /\ conn'[fd] = c
        /\ \A g \in Fds \ {fd} : conn'[g] = conn[g]
    BY <1>1, <2>1, <2>2, ConnectionStored DEF c
  <2>5. /\ apc = "accept" /\ apc' = "peek" /\ afd' = fd /\ fd \notin Open
        /\ pending' = pending /\ running' = running /\ closed' = closed /\ alive' = alive
    BY <1>2 DEF Accept, poolVars
  <2>6. TypeOK'
    <3>1. closed' \in BOOLEAN /\ alive' \in BOOLEAN
      BY <1>1, <2>5, Zenon DEF TypeOK
    <3> QED BY <1>1, <2>4, <2>5, <3>1 DEF TypeOK, AcceptPc
  <2>7. Accepted = {} /\ Accepted' = {fd} /\ Elements(pending') = Elements(pending)
    BY <2>5 DEF Accepted
  <2>8. OwnershipInv'
    BY <1>1, <2>4, <2>5, <2>7 DEF OwnershipInv, Distinct
  <2>9. PhaseInv'
    <3>1. Unhandled' = Unhandled \cup {fd} /\ Unhandled \subseteq Open
      BY <1>1, <2>5, <2>7 DEF Unhandled, OwnershipInv
    <3>2. \A g \in Unhandled : conn'[g].at = "idle"
      BY <1>1, <2>4, <2>5, <3>1 DEF PhaseInv, Open
    <3> QED BY <2>3, <2>4, <2>5, <3>1, <3>2 DEF PhaseInv
  <2>10. EffectInv'
    BY <1>1, <2>3, <2>4 DEF EffectInv, Open
  <2> QED BY <1>1, <2>5, <2>6, <2>8, <2>9, <2>10 DEF IndInv
<1>3. CASE Peek
  <2>1. /\ apc = "peek" /\ apc' \in {"serve", "submit"} /\ afd' = afd
        /\ pending' = pending /\ running' = running /\ closed' = closed /\ alive' = alive
    BY <1>3 DEF Peek, poolVars
  <2>2. afd \in Open /\ afd \in Fds /\ afd \notin Elements(pending)
    BY <1>1, <2>1 DEF OwnershipInv, Accepted
  <2>3. conn[afd] \in Connection /\ Effect(conn[afd]) /\ conn[afd].at = "idle"
    BY <1>1, <2>1, <2>2, ConnectionFields DEF PhaseInv, Unhandled
  <2>4. PICK c \in Connection :
          /\ conn' = [conn EXCEPT ![afd] = c] /\ Effect(c)
          /\ apc' = "submit" => c.at = "idle"
    <3>1. CASE apc' = "serve"
      <4> DEFINE d == [conn[afd] EXCEPT !.at = "reading"]
      <4>1. conn' = [conn EXCEPT ![afd] = d]
        BY <1>3, <3>1 DEF Peek
      <4>2. d \in Connection
        BY <2>3 DEF Connection
      <4>3. Effect(d)
        BY <2>3 DEF Effect, Connection
      <4> QED BY <3>1, <4>1, <4>2, <4>3
    <3>2. CASE apc' = "submit"
      <4>1. conn' = [conn EXCEPT ![afd] = conn[afd]]
        BY <1>1, <1>3, <3>2 DEF Peek, TypeOK
      <4> QED BY <2>3, <4>1
    <3> QED BY <2>1, <3>1, <3>2
  <2>5. /\ conn' \in [Fds -> Connection \cup {Closed}]
        /\ Open' = Open \cup {afd}
        /\ conn'[afd] = c
        /\ \A g \in Fds \ {afd} : conn'[g] = conn[g]
    BY <1>1, <2>2, <2>4, ConnectionStored
  <2>6. TypeOK'
    <3>1. closed' \in BOOLEAN /\ alive' \in BOOLEAN
      BY <1>1, <2>1, Zenon DEF TypeOK
    <3> QED BY <1>1, <2>1, <2>5, <3>1 DEF TypeOK, AcceptPc
  <2>7. Accepted = {afd} /\ Accepted' = {afd} /\ Elements(pending') = Elements(pending)
    BY <2>1 DEF Accepted
  <2>8. OwnershipInv'
    BY <1>1, <2>1, <2>2, <2>5, <2>7 DEF OwnershipInv, Distinct
  <2>9. PhaseInv'
    <3>1. Elements(pending) \subseteq Fds
      BY <1>1 DEF OwnershipInv, Open
    <3>2. \A g \in Elements(pending) : conn'[g].at = "idle"
      BY <1>1, <2>2, <2>5, <3>1 DEF PhaseInv, Unhandled
    <3> QED BY <2>1, <2>4, <2>5, <2>7, <3>2 DEF PhaseInv, Unhandled
  <2>10. EffectInv'
    BY <1>1, <2>4, <2>5 DEF EffectInv, Open
  <2> QED BY <1>1, <2>1, <2>6, <2>8, <2>9, <2>10 DEF IndInv
<1>4. CASE AcceptFails \/ JoinPool
  <2>1. /\ apc \in {"accept", "joining"} /\ apc' \in {"joining", "returned"}
        /\ afd' = afd /\ conn' = conn
        /\ pending' = pending /\ running' = running /\ alive' = alive
        /\ closed' = closed \/ closed' = TRUE
        /\ apc' = "returned" => pending = <<>> /\ running = {}
    BY <1>4 DEF AcceptFails, JoinPool, Pool!Close, poolVars
  <2>2. TypeOK'
    <3>1. closed' \in BOOLEAN /\ alive' \in BOOLEAN
      BY <1>1, <2>1, Zenon DEF TypeOK
    <3> QED BY <1>1, <2>1, <3>1 DEF TypeOK, AcceptPc
  <2>3. Accepted = {} /\ Accepted' = {} /\ Open' = Open
    BY <2>1 DEF Accepted, Open
  <2>4. OwnershipInv'
    BY <1>1, <2>1, <2>3 DEF OwnershipInv, Distinct
  <2>5. PhaseInv'
    BY <1>1, <2>1 DEF PhaseInv, Unhandled
  <2>6. EffectInv'
    BY <1>1, <2>1, <2>3 DEF EffectInv
  <2> QED BY <1>1, <2>1, <2>2, <2>4, <2>5, <2>6 DEF IndInv
<1> QED BY <1>2, <1>3, <1>4

\* thread_pool_submit: the queue becomes the owner, or the accept thread stays
\* it and refuses.
LEMMA SubmitPreserves ==
  ASSUME IndInv, Submit
  PROVE  IndInv'
<1>1. TypeOK /\ OwnershipInv /\ PhaseInv /\ EffectInv /\ IsFiniteSet(running)
  BY DEF IndInv
<1> DEFINE accepted == ~closed /\ Len(pending) < Capacity
<1>2. /\ apc = "submit" /\ afd' = afd /\ alive' = alive
      /\ running' = running /\ closed' = closed
      /\ pending' = IF accepted THEN Append(pending, afd) ELSE pending
      /\ \/ apc' = "accept" /\ conn' = conn
         \/ apc' = "refuse" /\ conn' = Refused(afd)
  BY DEF Submit, Pool!Submit
<1>3. apc' # "refuse" <=> accepted
  BY DEF Submit, Pool!Submit
<1>4. afd \in Open /\ afd \in Fds /\ afd \notin Elements(pending) /\ afd \notin running
  BY <1>1, <1>2 DEF OwnershipInv, Accepted
<1>5. conn[afd] \in Connection /\ Effect(conn[afd]) /\ conn[afd].at = "idle"
  BY <1>1, <1>2, <1>4, ConnectionFields DEF PhaseInv, Unhandled
<1>6. /\ pending \in Seq(Fds) /\ Len(pending) \in Nat /\ Len(pending) <= Capacity
      /\ Capacity \in Nat /\ Distinct(pending)
      /\ Unhandled = Elements(pending) \cup {afd}
  BY <1>1, <1>2, LenProperties, CapacityAssumption
     DEF TypeOK, OwnershipInv, Unhandled
<1>7. closed' \in BOOLEAN /\ alive' \in BOOLEAN
  BY <1>1, <1>2, Zenon DEF TypeOK
<1>8. CASE accepted
  <2>1. apc' = "accept" /\ conn' = conn /\ pending' = Append(pending, afd)
    BY <1>2, <1>3, <1>8
  <2>2. /\ pending' \in Seq(Fds) /\ Len(pending') = Len(pending) + 1
    BY <1>4, <1>6, <2>1, AppendProperties
  <2>3. Elements(pending') = Elements(pending) \cup {afd} /\ Distinct(pending')
    BY <1>4, <1>6, <2>1, AppendElements
  <2>4. TypeOK'
    BY <1>1, <1>2, <1>6, <1>7, <1>8, <2>1, <2>2 DEF TypeOK, AcceptPc
  <2>5. Accepted = {afd} /\ Accepted' = {} /\ Open' = Open
    BY <1>2, <2>1 DEF Accepted, Open
  <2>6. OwnershipInv'
    <3>1. Distinct(pending)'
      BY <2>3 DEF Distinct
    <3>2. Elements(pending)' = Elements(pending) \cup {afd}
      BY <2>3 DEF Elements
    <3>3. /\ Elements(pending) \cap running = {}
          /\ Open = Elements(pending) \cup running \cup Accepted
      BY <1>1 DEF OwnershipInv
    <3> QED BY <1>2, <1>4, <2>1, <2>5, <3>1, <3>2, <3>3 DEF OwnershipInv
  <2>7. PhaseInv'
    <3>1. Unhandled' = Unhandled
      BY <1>2, <1>6, <2>1, <2>3 DEF Unhandled, Elements
    <3> QED BY <1>1, <2>1, <3>1 DEF PhaseInv
  <2>8. EffectInv'
    BY <1>1, <2>1, <2>5 DEF EffectInv
  <2> QED BY <1>1, <1>2, <2>4, <2>6, <2>7, <2>8 DEF IndInv
<1>9. CASE ~accepted
  <2>0. PICK status \in Statuses : status = 503
    BY DEF Statuses
  <2> DEFINE c == [conn[afd] EXCEPT !.status = status, !.at = "sending"]
  <2>1. apc' = "refuse" /\ pending' = pending /\ conn' = [conn EXCEPT ![afd] = c]
    <3>1. apc' = "refuse" /\ pending' = pending /\ conn' = Refused(afd)
      BY <1>2, <1>3, <1>9
    <3>2. Refused(afd) = [conn EXCEPT ![afd].status = status, ![afd].at = "sending"]
      BY <2>0 DEF Refused
    <3> QED BY <1>1, <1>4, <3>1, <3>2 DEF TypeOK
  <2>2. c \in Connection
    BY <1>5 DEF Connection
  <2>3. /\ c.at = "sending" /\ c.status = 503
        /\ c.ran = conn[afd].ran /\ c.read = conn[afd].read
    BY <1>5, <2>0 DEF Connection
  <2> HIDE DEF c
  <2>4. Effect(c)
    BY <1>5, <2>3 DEF Effect
  <2>5. /\ conn' \in [Fds -> Connection \cup {Closed}]
        /\ Open' = Open \cup {afd}
        /\ conn'[afd] = c
        /\ \A g \in Fds \ {afd} : conn'[g] = conn[g]
    BY <1>1, <1>4, <2>1, <2>2, ConnectionStored
  <2>6. TypeOK'
    BY <1>1, <1>2, <1>7, <2>1, <2>5 DEF TypeOK, AcceptPc
  <2>7. Accepted = {afd} /\ Accepted' = {afd} /\ Elements(pending') = Elements(pending)
    BY <1>2, <2>1 DEF Accepted
  <2>8. OwnershipInv'
    BY <1>1, <1>2, <1>4, <2>1, <2>5, <2>7 DEF OwnershipInv, Distinct
  <2>9. PhaseInv'
    <3>1. Elements(pending) \subseteq Fds
      BY <1>1 DEF OwnershipInv, Open
    <3>2. \A g \in Elements(pending) : conn'[g].at = "idle"
      BY <1>1, <1>4, <2>5, <3>1 DEF PhaseInv, Unhandled
    <3> QED BY <2>1, <2>7, <3>2 DEF PhaseInv, Unhandled
  <2>10. EffectInv'
    BY <1>1, <2>4, <2>5 DEF EffectInv, Open
  <2> QED BY <1>1, <1>2, <2>6, <2>8, <2>9, <2>10 DEF IndInv
<1> QED BY <1>8, <1>9

\* queue_pop: a worker takes over from the queue.
LEMMA StartPreserves ==
  ASSUME IndInv, StartWorker
  PROVE  IndInv'
<1>1. TypeOK /\ OwnershipInv /\ PhaseInv /\ EffectInv /\ IsFiniteSet(running)
  BY DEF IndInv
<1> DEFINE h == Head(pending)
           c == [conn[h] EXCEPT !.at = "reading"]
<1>2. /\ pending # <<>> /\ Cardinality(running) < N
      /\ running' = running \cup {h} /\ pending' = Tail(pending)
      /\ conn' = [conn EXCEPT ![h].at = "reading"]
      /\ apc' = apc /\ afd' = afd /\ alive' = alive /\ closed' = closed
  <2>1. /\ pending # <<>> /\ conn' = [conn EXCEPT ![h].at = "reading"]
        /\ apc' = apc /\ afd' = afd /\ alive' = alive
    BY DEF StartWorker
  <2>2. Pool!Start
    BY DEF StartWorker
  <2>3. running' = running \cup {h} /\ pending' = Tail(pending) /\ closed' = closed
    BY <2>2, Zenon DEF Pool!Start
  <2>4. Cardinality(running) < N
    BY <2>2, Zenon DEF Pool!Start, Pool!Cardinality, Cardinality
  <2> QED BY <2>1, <2>3, <2>4
<1>3. /\ h \in Elements(pending) /\ Elements(pending') = Elements(pending) \ {h}
      /\ Distinct(pending')
  BY <1>1, <1>2, TailElements DEF TypeOK, OwnershipInv
<1>4. pending' \in Seq(Fds) /\ Len(pending') = Len(pending) - 1 /\ Len(pending) \in Nat
  BY <1>1, <1>2, HeadTailProperties, LenProperties DEF TypeOK
<1> HIDE DEF h
<1>5. h \in Open /\ h \in Fds /\ h \notin running /\ h \notin Accepted
  BY <1>1, <1>3 DEF OwnershipInv, Open
<1>6. conn[h] \in Connection /\ Effect(conn[h]) /\ conn[h].at = "idle"
  BY <1>1, <1>3, <1>5, ConnectionFields DEF PhaseInv, Unhandled
<1>7. c \in Connection
  BY <1>6 DEF Connection
<1>8. Effect(c)
  BY <1>6 DEF Effect, Connection
<1>9. conn' = [conn EXCEPT ![h] = c]
  BY <1>2
<1> HIDE DEF c
<1>10. /\ conn' \in [Fds -> Connection \cup {Closed}]
       /\ Open' = Open \cup {h}
       /\ conn'[h] = c
       /\ \A g \in Fds \ {h} : conn'[g] = conn[g]
  BY <1>1, <1>5, <1>7, <1>9, ConnectionStored
<1>11. IsFiniteSet(running') /\ Cardinality(running') = Cardinality(running) + 1
  BY <1>1, <1>2, <1>5, FS_AddElement
<1>12. Cardinality(running) \in Nat /\ N \in Nat /\ Capacity \in Nat
  BY <1>1, FS_CardinalityType, NAssumption, CapacityAssumption
<1>13. TypeOK'
  <2>1. closed' \in BOOLEAN /\ alive' \in BOOLEAN
    BY <1>1, <1>2, Zenon DEF TypeOK
  <2>2. running' \subseteq Fds /\ Cardinality(running') <= N
    BY <1>1, <1>2, <1>5, <1>11, <1>12 DEF TypeOK
  <2>3. Len(pending') <= Capacity
    BY <1>1, <1>4, <1>12 DEF TypeOK
  <2> QED BY <1>1, <1>2, <1>4, <1>10, <2>1, <2>2, <2>3 DEF TypeOK
<1>14. Accepted' = Accepted
  BY <1>2 DEF Accepted
<1>15. OwnershipInv'
  BY <1>1, <1>2, <1>3, <1>5, <1>10, <1>14 DEF OwnershipInv, Distinct
<1>16. PhaseInv'
  <2>1. Unhandled' \subseteq Unhandled \ {h}
    <3>1. apc \in {"peek", "submit"} => h # afd
      BY <1>5 DEF Accepted
    <3> QED BY <1>2, <1>3, <3>1 DEF Unhandled
  <2>2. Unhandled \subseteq Fds
    BY <1>1 DEF Unhandled, OwnershipInv, Open
  <2>3. \A g \in Unhandled' : conn'[g].at = "idle"
    BY <1>1, <1>10, <2>1, <2>2 DEF PhaseInv
  <2> QED BY <1>1, <1>2, <2>3 DEF PhaseInv
<1>17. EffectInv'
  BY <1>1, <1>8, <1>10 DEF EffectInv, Open
<1> QED BY <1>11, <1>13, <1>15, <1>16, <1>17 DEF IndInv

\* close, by whoever owns the descriptor.
LEMMA ClosePreserves ==
  ASSUME IndInv, NEW fd \in Fds, SendAndClose(fd)
  PROVE  IndInv'
<1>1. TypeOK /\ OwnershipInv /\ PhaseInv /\ EffectInv /\ IsFiniteSet(running)
  BY DEF IndInv
<1>2. /\ fd \in Open /\ conn[fd].at = "sending" /\ alive' = alive
      /\ conn' = [conn EXCEPT ![fd] = Closed]
      /\ \/ /\ fd \in running /\ running' = running \ {fd}
            /\ apc' = apc /\ afd' = afd
         \/ /\ fd \in Accepted /\ running' = running
            /\ apc' = "accept" /\ afd' = afd
      /\ pending' = pending /\ closed' = closed
  BY DEF SendAndClose, Handled, Pool!Finish, poolVars
<1>3. /\ conn' \in [Fds -> Connection \cup {Closed}]
      /\ conn'[fd] = Closed
      /\ \A g \in Fds \ {fd} : conn'[g] = conn[g]
  BY <1>1, <1>2 DEF TypeOK
<1>4. Open' = Open \ {fd}
  BY <1>3 DEF Open
<1>5. fd \notin Unhandled
  BY <1>1, <1>2 DEF PhaseInv
<1>6. /\ IsFiniteSet(running')
      /\ Cardinality(running') \in Nat /\ Cardinality(running') <= Cardinality(running)
      /\ running' \subseteq running
  <2>1. running' \in SUBSET running
    BY <1>2
  <2> QED BY <1>1, <2>1, FS_Subset, FS_CardinalityType
<1>7. Cardinality(running) \in Nat /\ N \in Nat
  BY <1>1, FS_CardinalityType, NAssumption
<1>8. TypeOK'
  <2>1. closed' \in BOOLEAN /\ alive' \in BOOLEAN
    BY <1>1, <1>2, Zenon DEF TypeOK
  <2>2. running' \subseteq Fds /\ Cardinality(running') <= N
    BY <1>1, <1>6, <1>7 DEF TypeOK
  <2> QED BY <1>1, <1>2, <1>3, <2>1, <2>2 DEF TypeOK, AcceptPc
<1>9. Elements(pending') = Elements(pending) /\ fd \notin Elements(pending)
  BY <1>2, <1>5 DEF Unhandled
<1>10. OwnershipInv'
  <2>1. CASE fd \in running
    <3>1. fd \notin Accepted
      BY <1>1, <2>1 DEF OwnershipInv
    <3>2. running' = running \ {fd} /\ apc' = apc /\ afd' = afd
      BY <1>2, <3>1
    <3>3. Accepted' = Accepted
      BY <3>2 DEF Accepted
    <3> QED BY <1>1, <1>2, <1>4, <1>9, <3>1, <3>2, <3>3 DEF OwnershipInv, Distinct
  <2>2. CASE fd \notin running
    <3>1. fd \in Accepted /\ running' = running /\ apc' = "accept"
      BY <1>2, <2>2
    <3>2. Accepted = {fd} /\ Accepted' = {}
      BY <3>1 DEF Accepted
    <3> QED BY <1>1, <1>2, <1>4, <1>9, <2>2, <3>1, <3>2 DEF OwnershipInv, Distinct
  <2> QED BY <2>1, <2>2
<1>11. PhaseInv'
  <2>1. Unhandled' \subseteq Unhandled
    BY <1>2, <1>9 DEF Unhandled
  <2>2. Unhandled \subseteq Fds
    BY <1>1 DEF Unhandled, OwnershipInv, Open
  <2>3. \A g \in Unhandled' : conn'[g].at = "idle"
    BY <1>1, <1>3, <1>5, <2>1, <2>2 DEF PhaseInv
  <2>4. apc' = "returned" => pending' = <<>> /\ running' = {}
    BY <1>1, <1>2 DEF PhaseInv
  <2> QED BY <2>3, <2>4 DEF PhaseInv
<1>12. EffectInv'
  BY <1>1, <1>3, <1>4 DEF EffectInv, Open
<1> QED BY <1>6, <1>8, <1>10, <1>11, <1>12 DEF IndInv

\* The invariant holds initially, and every step preserves it.
LEMMA Invariance == Spec => []IndInv
<1>1. Init => IndInv
  <2> SUFFICES ASSUME Init PROVE IndInv
    OBVIOUS
  <2>1. IsFiniteSet(running) /\ Cardinality(running) = 0
    BY FS_EmptySet DEF Init
  <2>2. closed \in BOOLEAN /\ alive \in BOOLEAN
    BY Zenon DEF Init
  <2>3. pending \in Seq(Fds) /\ Len(pending) = 0 /\ pending = <<>>
    BY EmptySeq DEF Init
  <2>4. TypeOK
    <3>1. conn \in [Fds -> Connection \cup {Closed}]
      BY DEF Init
    <3>2. Len(pending) <= Capacity /\ Cardinality(running) <= N
      BY <2>1, <2>3, NAssumption, CapacityAssumption
    <3> QED BY <2>2, <2>3, <3>1, <3>2 DEF Init, TypeOK, AcceptPc
  <2>5. Elements(pending) = {} /\ Accepted = {} /\ Open = {}
    BY <2>3 DEF Init, Elements, Accepted, Open
  <2>6. OwnershipInv
    BY <2>3, <2>5 DEF Init, OwnershipInv, Distinct
  <2>7. PhaseInv
    BY <2>5 DEF Init, PhaseInv, Unhandled
  <2>8. EffectInv
    BY <2>5 DEF EffectInv
  <2> QED BY <2>1, <2>4, <2>6, <2>7, <2>8 DEF IndInv
<1>2. ASSUME IndInv, [Next]_vars PROVE IndInv'
  <2>1. ASSUME UNCHANGED <<apc, afd, conn, pending, running, closed>>,
               alive' = alive \/ alive' = FALSE
        PROVE  IndInv'
    <3>1. TypeOK /\ OwnershipInv /\ PhaseInv /\ EffectInv /\ IsFiniteSet(running)
      BY <1>2 DEF IndInv
    <3>2. closed' \in BOOLEAN /\ alive' \in BOOLEAN
      BY <2>1, <3>1, Zenon DEF TypeOK
    <3>3. TypeOK'
      BY <2>1, <3>1, <3>2 DEF TypeOK
    <3>4. Open' = Open /\ Accepted' = Accepted /\ Unhandled' = Unhandled
      BY <2>1 DEF Open, Accepted, Unhandled
    <3>5. OwnershipInv' /\ PhaseInv' /\ EffectInv' /\ IsFiniteSet(running)'
      BY <2>1, <3>1, <3>4 DEF OwnershipInv, PhaseInv, EffectInv, Distinct
    <3> QED BY <3>3, <3>5 DEF IndInv
  <2>2. ASSUME NEW fd \in Fds, Sigpipe(fd) PROVE IndInv'
    BY <2>1, <2>2 DEF Sigpipe, poolVars
  <2>3. CASE UNCHANGED vars
    BY <2>1, <2>3 DEF vars
  <2>4. ASSUME NEW fd \in Fds, HandlerStep(fd) PROVE IndInv'
    BY <1>2, <2>4, HandlerPreserves, ClosePreserves DEF HandlerStep
  <2> QED
    BY <1>2, <2>2, <2>3, <2>4, ClientPreserves, HandlerPreserves,
       AcceptThreadPreserves, SubmitPreserves, StartPreserves DEF Next
<1> QED BY <1>1, <1>2, PTL DEF Spec

-----------------------------------------------------------------------------
(* The results *)

\* Types of the server's state: in particular at most worker_count handlers run
\* in workers and at most queue_capacity connections wait.
THEOREM TypeCorrect == Spec => []TypeOK
  BY Invariance, PTL DEF IndInv

\* A client descriptor is closed by exactly one thread, whoever it is, and no
\* thread still holds it when accept returns it for another client.
THEOREM DescriptorsHaveOneOwner == Spec => []OneOwnerPerDescriptor
<1>1. IndInv => OneOwnerPerDescriptor
  <2> SUFFICES ASSUME IndInv PROVE OneOwnerPerDescriptor
    OBVIOUS
  <2>1. TypeOK /\ OwnershipInv
    BY DEF IndInv
  <2>2. Len(pending) \in Nat
    BY <2>1, LenProperties DEF TypeOK
  <2>3. ASSUME NEW fd \in Fds
        PROVE  /\ Cardinality({k \in 1 .. Len(pending) : pending[k] = fd})
                    = IF fd \in Elements(pending) THEN 1 ELSE 0
               /\ Cardinality(running \cap {fd}) = IF fd \in running THEN 1 ELSE 0
               /\ Cardinality(Accepted \cap {fd}) = IF fd \in Accepted THEN 1 ELSE 0
    <3> DEFINE queued == {k \in 1 .. Len(pending) : pending[k] = fd}
    <3>1. ASSUME fd \in Elements(pending) PROVE Cardinality(queued) = 1
      <4>1. PICK k \in 1 .. Len(pending) : pending[k] = fd
        BY <3>1 DEF Elements
      <4>2. queued = {k}
        BY <2>1, <4>1 DEF OwnershipInv, Distinct
      <4> QED BY <4>2, FS_Singleton
    <3>2. ASSUME fd \notin Elements(pending) PROVE Cardinality(queued) = 0
      <4>1. queued = {}
        BY <3>2 DEF Elements
      <4> QED BY <4>1, FS_EmptySet
    <3>3. \A S : Cardinality(S \cap {fd}) = IF fd \in S THEN 1 ELSE 0
      <4> SUFFICES ASSUME NEW S PROVE Cardinality(S \cap {fd}) = IF fd \in S THEN 1 ELSE 0
        OBVIOUS
      <4>1. S \cap {fd} = IF fd \in S THEN {fd} ELSE {}
        OBVIOUS
      <4> QED BY <4>1, FS_Singleton, FS_EmptySet
    <3> QED BY <3>1, <3>2, <3>3
  <2>4. \A fd \in Fds :
          /\ fd \in Open <=> \/ fd \in Elements(pending) \/ fd \in running
                             \/ fd \in Accepted
          /\ ~(fd \in Elements(pending) /\ fd \in running)
          /\ ~(fd \in Accepted /\ (fd \in Elements(pending) \/ fd \in running))
    BY <2>1 DEF OwnershipInv
  <2> QED BY <2>1, <2>3, <2>4 DEF OneOwnerPerDescriptor, OwnershipInv, Distinct
<1> QED BY Invariance, <1>1, PTL

\* The status that a client reads agrees with what the engine did for it, and
\* the engine is never called for a statement that has not arrived completely.
THEOREM AnswersMatchEffects == Spec => []AnswerMatchesEffect
<1>1. IndInv => AnswerMatchesEffect
  BY DEF IndInv, EffectInv, Effect, AnswerMatchesEffect
<1> QED BY Invariance, <1>1, PTL

\* When api_server_run has returned and main destroys the engine, no handler is
\* left that could still call it.
THEOREM EngineDiesLast == Spec => []EngineOutlivesHandlers
<1>1. IndInv => EngineOutlivesHandlers
  <2> SUFFICES ASSUME IndInv, apc = "returned" PROVE Open = {}
    BY DEF EngineOutlivesHandlers
  <2>1. pending = <<>> /\ running = {} /\ Accepted = {}
    BY DEF IndInv, PhaseInv, Accepted
  <2>2. Elements(pending) = {}
    BY <2>1 DEF Elements
  <2> QED BY <2>1, <2>2 DEF IndInv, OwnershipInv
<1> QED BY Invariance, <1>1, PTL

\* The server keeps its part of the pool's contract: thread_pool_submit is only
\* called with a descriptor that is neither queued nor handled, so the guard of
\* JobPool's Submit never holds the accept thread back.
THEOREM SubmitsOnlyItsOwn ==
  Spec => [](apc = "submit" => afd \notin Elements(pending) \cup running)
<1>1. IndInv => (apc = "submit" => afd \notin Elements(pending) \cup running)
  BY DEF IndInv, OwnershipInv, Accepted
<1> QED BY Invariance, <1>1, PTL
=============================================================================
