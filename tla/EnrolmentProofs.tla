--------------------------- MODULE EnrolmentProofs ---------------------------
(***************************************************************************)
(* Theorems about Enrolment, for any number of codes, devices, requests,   *)
(* failed calls and crashes: one code makes one peer, a consumed code has  *)
(* its peer, and a device that was told it is paired is served.            *)
(*                                                                         *)
(* The argument rests on no lock: while a code has not been claimed again  *)
(* under a running claimant, one handler at most works for it, and what    *)
(* that handler has done so far explains every peer of the code.           *)
(***************************************************************************)
EXTENDS Enrolment, FiniteSetTheorems, TLAPS

-----------------------------------------------------------------------------
\* What is true of the record q of a request.

RequestFields == {"pc", "device", "code", "via", "added", "revision", "from", "then"}

\* Where q is, or goes back to when it has removed a lock.
stepOf(q) == IF q.pc = "stale" THEN q.then ELSE q.pc

Working == {"claimMove", "add", "commit", "commitMove", "serve", "remove", "release",
            "releaseMove"}

\* q works for code k, and has added the peer of device d for it.
Works(q, k) == stepOf(q) \in Working /\ q.code = k
Added(q, k, d) ==
  /\ stepOf(q) \in {"commit", "commitMove", "remove"} /\ q.code = k /\ q.device = d /\ q.added

\* Every request of a device is for its one code, over its one transport.  The
\* revision a handler keeps is relay.json with the peer it has added.
RequestOK(q) ==
  /\ q = [x \in RequestFields |-> q[x]]
  /\ q.pc \in Over \cup Working \cup {"claim", "stale"}
  /\ q.pc = "stale" => q.then \in {"claim", "commit", "release"}
  /\ q.pc \notin Over =>
       /\ q.code \in Code /\ q.device \in Device
       /\ q.code = device[q.device].code /\ q.via = device[q.device].transport
  /\ q.pc = "ok" => q.device \in Device
  /\ q.added \in BOOLEAN
  /\ stepOf(q) = "remove" => q.added
  /\ q.added => q.pc \notin Over /\ q.revision # None /\ q.revision[q.device].code = q.code

IsPeer(d, k) == peers[d] # None /\ peers[d].code = k
Consumed(k, d) == place[k] = "history" /\ record[k].peer = d

-----------------------------------------------------------------------------
\* The inductive invariant.

RecordType == [claim : Request \cup {None}, leased : BOOLEAN, peer : Device \cup {None}]
PairingType ==
  [pc : {"none", "idle", "waiting", "paired", "failed"}, code : Code \cup {None},
   transport : {"https", "stdio", None}, key : BOOLEAN]

EnrolmentType ==
  /\ place \in [Code -> {"none", "pending", "inflight", "history"}]
  /\ record \in [Code -> RecordType]
  /\ peers \in [Device -> Peer \cup {None}]
  /\ device \in [Device -> PairingType]
  /\ \A d \in Device : device[d].pc \in {"none", "idle"} => device[d].code = None
  /\ request = [r \in Request |-> request[r]]
  /\ \A r \in Request : RequestOK(request[r])

\* One handler works for a code that was not overrun, before the code is
\* consumed or, to tell the relay of the new peer, just after.
OneClaimant ==
  \A k \in Code \ overran :
    /\ \A r, s \in Request : Works(request[r], k) /\ Works(request[s], k) => r = s
    /\ \A r \in Request : Works(request[r], k) =>
         IF stepOf(request[r]) = "serve" THEN Consumed(k, request[r].device)
         ELSE place[k] \in {"pending", "inflight"}

\* What is committed is a peer of relay.json.
CommitsPeer ==
  \A k \in Code \ overran :
    /\ \A r \in Request :
         /\ Works(request[r], k) /\ stepOf(request[r]) \in {"commit", "commitMove"} =>
              IsPeer(request[r].device, k)
         /\ Works(request[r], k) /\ stepOf(request[r]) = "commitMove" =>
              record[k].peer = request[r].device
    /\ place[k] = "history" => record[k].peer \in Device /\ IsPeer(record[k].peer, k)

\* A peer has a reason: its code is consumed, or its handler is at work.
PeerHasReason ==
  \A k \in Code \ (overran \cup orphaned) : \A d \in Device :
    IsPeer(d, k) => Consumed(k, d) \/ \E r \in Request : Added(request[r], k, d)

\* A device that is told that it is paired, or will be by a handler that is done.
Told(d) == device[d].pc = "paired" \/ \E r \in Request : request[r].pc = "ok" /\ request[r].device = d

ToldIsServed ==
  \A d \in Device :
    /\ device[d].pc \in {"waiting", "paired"} => device[d].key
    /\ Told(d) => device[d].code \in Code
    /\ Told(d) /\ device[d].code \notin overran =>
         /\ Consumed(device[d].code, d)
         /\ device[d].transport = "https" /\ up /\ ~peers[d].revoked => d \in live

EnrolmentInv == EnrolmentType /\ OneClaimant /\ CommitsPeer /\ PeerHasReason /\ ToldIsServed

-----------------------------------------------------------------------------
\* How a step changes the record of its request.

moved(q, pc) == [q EXCEPT !.pc = pc]
done(q, pc) == [NoRequest EXCEPT !.pc = pc, !.device = q.device]

LEMMA Goes ==
  ASSUME NEW r \in Request, NEW pc, goes(r, pc)
  PROVE  /\ pc \in Over => request' = [request EXCEPT ![r] = done(request[r], pc)]
         /\ pc \notin Over => request' = [request EXCEPT ![r] = moved(request[r], pc)]
BY Zenon DEF goes, moved, done, ended, deviceOf

LEMMA Changed ==
  ASSUME EnrolmentType, NEW r \in Request, NEW q, request' = [request EXCEPT ![r] = q]
  PROVE  /\ request' = [s \in Request |-> IF s = r THEN q ELSE request[s]]
         /\ request'[r] = q
         /\ \A s \in Request : s # r => request'[s] = request[s]
<1>1. request' = [s \in Request |-> IF s = r THEN q ELSE request[s]]
  BY Zenon DEF EnrolmentType
<1> QED
  BY <1>1, Zenon

LEMMA Moved ==
  ASSUME NEW q, RequestOK(q), q.pc \notin Over, NEW pc \in Working, pc = "remove" => q.added
  PROVE  /\ RequestOK(moved(q, pc))
         /\ moved(q, pc).pc = pc /\ stepOf(moved(q, pc)) = pc
         /\ moved(q, pc).code = q.code /\ moved(q, pc).device = q.device
         /\ moved(q, pc).added = q.added
<1> DEFINE s == moved(q, pc)
<1>1. /\ s = [x \in RequestFields |-> s[x]]
      /\ s.pc = pc /\ s.code = q.code /\ s.device = q.device /\ s.added = q.added
      /\ s.via = q.via /\ s.revision = q.revision /\ s.then = q.then
  BY Zenon DEF moved, RequestOK, RequestFields
<1> HIDE DEF s
<1>2. pc \notin Over \cup {"stale"}
  BY Zenon DEF Working, Over
<1>3. stepOf(s) = pc
  BY <1>1, <1>2, Zenon DEF stepOf
<1>4. RequestOK(s)
  BY <1>1, <1>2, <1>3, Zenon DEF RequestOK
<1> QED
  BY <1>1, <1>3, <1>4, Zenon DEF s

LEMMA Done ==
  ASSUME NEW q, NEW pc \in {"ok", "error", "dead"}, pc = "ok" => q.device \in Device
  PROVE  /\ RequestOK(done(q, pc)) /\ done(q, pc).pc = pc /\ done(q, pc).device = q.device
         /\ stepOf(done(q, pc)) = pc
         /\ \A k : ~Works(done(q, pc), k)
<1> DEFINE s == done(q, pc)
<1>1. /\ s = [x \in RequestFields |-> s[x]]
      /\ s.pc = pc /\ s.device = q.device /\ s.added = FALSE
  BY Zenon DEF done, NoRequest, RequestFields
<1> HIDE DEF s
<1>2. stepOf(s) = pc
  BY <1>1, Zenon DEF stepOf
<1>3. RequestOK(s) /\ \A k : ~Works(s, k)
  BY <1>1, <1>2, Zenon DEF RequestOK, Over, Works, Working
<1> QED
  BY <1>1, <1>2, <1>3, Zenon DEF s

LEMMA WorksAt ==
  ASSUME EnrolmentInv, NEW r \in Request, request[r].pc \notin Over
  PROVE  /\ RequestOK(request[r]) /\ codeOf(r) = request[r].code /\ deviceOf(r) = request[r].device
         /\ request[r].code \in Code /\ request[r].device \in Device
         /\ request[r].code = device[request[r].device].code
         /\ request[r].via = device[request[r].device].transport
         /\ request[r].pc # "stale" => stepOf(request[r]) = request[r].pc
         /\ request[r].pc \in Working => Works(request[r], codeOf(r))
<1>1. RequestOK(request[r])
  BY Zenon DEF EnrolmentInv, EnrolmentType
<1>2. request[r].pc \in Working => request[r].pc # "stale"
  BY Zenon DEF Working
<1> QED
  BY <1>1, <1>2, Zenon DEF RequestOK, codeOf, deviceOf, stepOf, Works

-----------------------------------------------------------------------------
\* A step of handler r for code k, to q, that touches no peer.

Steps(r, q, k) ==
  /\ request' = [request EXCEPT ![r] = q] /\ RequestOK(q)
  /\ UNCHANGED <<peers, device, up, live, overran>> /\ orphaned \subseteq orphaned'
  /\ place' \in [Code -> {"none", "pending", "inflight", "history"}]
  /\ record' \in [Code -> RecordType]
  /\ \A x \in Code : x # k => place'[x] = place[x] /\ record'[x] = record[x]
  /\ \A x \in Code : Works(q, x) => x = k /\ Works(request[r], k)
  /\ Works(request[r], k) \/ UNCHANGED <<place, record>>

\* What q has to know if the code was not overrun.
Knows(r, q, k) ==
  /\ place[k] = "history" => place'[k] = "history" /\ record'[k].peer = record[k].peer
  /\ place'[k] = "history" => place[k] = "history" \/
       (record'[k].peer = request[r].device /\ IsPeer(request[r].device, k))
  /\ Works(q, k) =>
       /\ IF stepOf(q) = "serve" THEN place'[k] = "history" /\ record'[k].peer = q.device
          ELSE place'[k] \in {"pending", "inflight"}
       /\ stepOf(q) \in {"commit", "commitMove"} => IsPeer(q.device, k)
       /\ stepOf(q) = "commitMove" => record'[k].peer = q.device
  /\ \A d \in Device : Added(request[r], k, d) /\ k \notin orphaned' =>
       Added(q, k, d) \/ (place'[k] = "history" /\ record'[k].peer = d)

LEMMA HandlerStep ==
  ASSUME EnrolmentInv, NEW r \in Request, NEW q, NEW k \in Code, Steps(r, q, k),
         k \notin overran => Knows(r, q, k), q.pc # "ok",
         \A x \in Code, d \in Device : Added(request[r], x, d) => x = k
  PROVE  EnrolmentInv'
<1>1. /\ request' = [s \in Request |-> IF s = r THEN q ELSE request[s]]
      /\ request'[r] = q /\ \A s \in Request : s # r => request'[s] = request[s]
  BY Changed, Zenon DEF EnrolmentInv, Steps
<1>2. EnrolmentType'
  <2>1. \A s \in Request : RequestOK(request'[s])
    BY <1>1, Zenon DEF EnrolmentInv, EnrolmentType, Steps
  <2>2. \A s \in Request : RequestOK(request[s])'
    BY <2>1 DEF RequestOK, Steps
  <2> QED
    BY <1>1, <2>2, Zenon DEF EnrolmentInv, EnrolmentType, Steps
<1>3. ASSUME NEW x \in Code, NEW s \in Request, Works(request'[s], x)
      PROVE  Works(request[s], x) /\ (s = r => x = k /\ request'[s] = q)
  BY <1>1, <1>3, Zenon DEF Steps
<1>4. ASSUME NEW x \in Code \ overran, NEW s \in Request, s # r, Works(request[s], x)
      PROVE  place'[x] = place[x] /\ record'[x] = record[x]
  <2>1. x = k => ~Works(request[r], k)
    BY <1>4, Zenon DEF EnrolmentInv, OneClaimant
  <2> QED
    BY <1>4, <2>1, Zenon DEF Steps
<1>5. OneClaimant'
  <2>1. ASSUME NEW x \in Code \ overran, NEW s \in Request, Works(request'[s], x)
        PROVE  IF stepOf(request'[s]) = "serve" THEN Consumed(x, request[s].device)'
               ELSE place'[x] \in {"pending", "inflight"}
    <3>1. CASE s = r
      BY <1>1, <1>3, <2>1, <3>1, Zenon DEF Knows, Consumed
    <3>2. CASE s # r
      BY <1>1, <1>4, <2>1, <3>2 DEF EnrolmentInv, OneClaimant, Consumed
    <3> QED
      BY <3>1, <3>2, Zenon
  <2> QED
    BY <1>3, <2>1 DEF EnrolmentInv, OneClaimant, Steps, Works, stepOf
<1>6. CommitsPeer'
  <2>1. ASSUME NEW x \in Code \ overran, NEW s \in Request, Works(request'[s], x)
        PROVE  /\ stepOf(request'[s]) \in {"commit", "commitMove"} =>
                    IsPeer(request'[s].device, x)
               /\ stepOf(request'[s]) = "commitMove" => record'[x].peer = request'[s].device
    <3>1. CASE s = r
      BY <1>1, <1>3, <2>1, <3>1, Zenon DEF Knows
    <3>2. CASE s # r
      BY <1>1, <1>4, <2>1, <3>2 DEF EnrolmentInv, CommitsPeer
    <3> QED
      BY <3>1, <3>2, Zenon
  <2>2. ASSUME NEW x \in Code \ overran, place'[x] = "history"
        PROVE  record'[x].peer \in Device /\ IsPeer(record'[x].peer, x)
    <3>1. CASE x = k /\ place[k] # "history"
      <4>1. Works(request[r], k)
        BY <2>2, <3>1, Zenon DEF Steps
      <4>2. request[r].device \in Device
        <5>1. RequestOK(request[r])
          BY Zenon DEF EnrolmentInv, EnrolmentType
        <5>2. request[r].pc \notin Over
          BY <4>1, <5>1, Zenon DEF RequestOK, Works, stepOf, Working, Over
        <5> QED
          BY <5>1, <5>2, Zenon DEF RequestOK
      <4> QED
        BY <2>2, <3>1, <4>2, Zenon DEF Knows
    <3>2. CASE ~(x = k /\ place[k] # "history")
      <4>1. place[x] = "history" /\ record'[x].peer = record[x].peer
        BY <2>2, <3>2, Zenon DEF Knows, Steps
      <4> QED
        BY <4>1, Zenon DEF EnrolmentInv, CommitsPeer
    <3> QED
      BY <3>1, <3>2, Zenon
  <2> QED
    BY <2>1, <2>2 DEF CommitsPeer, Steps, IsPeer, Works, stepOf
<1>7. PeerHasReason'
  <2> SUFFICES ASSUME NEW x \in Code \ (overran \cup orphaned'), NEW d \in Device, IsPeer(d, x)
               PROVE  Consumed(x, d)' \/ \E s \in Request : Added(request'[s], x, d)
    BY DEF PeerHasReason, Steps, IsPeer, Added, stepOf
  <2>1. Consumed(x, d) \/ \E s \in Request : Added(request[s], x, d)
    BY Zenon DEF EnrolmentInv, PeerHasReason, Steps
  <2>2. CASE Consumed(x, d)
    BY <2>2, Zenon DEF Knows, Steps, Consumed
  <2>3. ASSUME NEW s \in Request, Added(request[s], x, d)
        PROVE  Consumed(x, d)' \/ Added(request'[s], x, d)
    <3>1. CASE s = r
      BY <1>1, <2>3, <3>1, Zenon DEF Knows, Consumed
    <3>2. CASE s # r
      BY <1>1, <2>3, <3>2, Zenon
    <3> QED
      BY <3>1, <3>2, Zenon
  <2> QED
    BY <2>1, <2>2, <2>3, Zenon
<1>8. ToldIsServed'
  <2>1. ASSUME NEW d \in Device, Told(d)'
        PROVE  Told(d)
    <3>1. \A s \in Request : request'[s].pc = "ok" => request'[s] = request[s]
      BY <1>1, Zenon
    <3> QED
      BY <2>1, <3>1, Zenon DEF Told, Steps
  <2>2. ASSUME NEW d \in Device, device[d].code \in Code, device[d].code \notin overran,
               Consumed(device[d].code, d)
        PROVE  Consumed(device[d].code, d)'
    BY <2>2, Zenon DEF Knows, Steps, Consumed
  <2> QED
    BY <2>1, <2>2, Zenon DEF EnrolmentInv, ToldIsServed, Steps
<1> QED
  BY <1>2, <1>5, <1>6, <1>7, <1>8, Zenon DEF EnrolmentInv

-----------------------------------------------------------------------------
\* Steps that go on, or end with an error.

\* Only the record of code k changes.
Leaves(k) ==
  /\ UNCHANGED <<peers, device, up, live, overran>> /\ orphaned \subseteq orphaned'
  /\ place' \in [Code -> {"none", "pending", "inflight", "history"}]
  /\ record' \in [Code -> RecordType]
  /\ \A x \in Code : x # k => place'[x] = place[x] /\ record'[x] = record[x]

\* Before the code is consumed, its record is in one of two directories.
LEMMA AtWork ==
  ASSUME EnrolmentInv, NEW r \in Request, NEW k \in Code \ overran, Works(request[r], k),
         stepOf(request[r]) # "serve"
  PROVE  place[k] \in {"pending", "inflight"}
BY Zenon DEF EnrolmentInv, OneClaimant

LEMMA MoveOn ==
  ASSUME EnrolmentInv, NEW r \in Request, request[r].pc \notin Over,
         stepOf(request[r]) \in Working,
         NEW pc \in Working, goes(r, pc), pc = "remove" => request[r].added,
         Leaves(request[r].code),
         request[r].code \notin overran => Knows(r, moved(request[r], pc), request[r].code)
  PROVE  EnrolmentInv'
<1> DEFINE k == request[r].code
           q == moved(request[r], pc)
<1>1. RequestOK(request[r]) /\ k \in Code
  BY WorksAt, Zenon
<1>2. RequestOK(q) /\ q.pc = pc /\ q.code = k
  BY <1>1, Moved, Zenon
<1>3. pc \notin Over /\ pc # "ok"
  BY Zenon DEF Working, Over
<1>4. request' = [request EXCEPT ![r] = q]
  BY <1>3, Goes, Zenon
<1> HIDE DEF q
<1>5. Works(request[r], k) /\ \A x : Works(q, x) \/ (\E d : Added(request[r], x, d)) => x = k
  BY <1>2, Zenon DEF Works, Added
<1>6. Steps(r, q, k)
  BY <1>2, <1>4, <1>5, Zenon DEF Steps, Leaves
<1>7. k \notin overran => Knows(r, q, k)
  BY Zenon DEF q
<1> HIDE DEF k
<1> QED
  BY <1>1, <1>2, <1>3, <1>5, <1>6, <1>7, HandlerStep, Zenon

LEMMA Fails ==
  ASSUME EnrolmentInv, NEW r \in Request, request[r].pc \notin Over, goes(r, "error"),
         Leaves(request[r].code),
         UNCHANGED <<place, record>> \/ stepOf(request[r]) \in Working \ {"serve"},
         stepOf(request[r]) \notin {"commit", "commitMove", "remove"},
         request[r].code \notin overran /\ place'[request[r].code] = "history" =>
           UNCHANGED <<place, record>>
  PROVE  EnrolmentInv'
<1> DEFINE k == request[r].code
           q == done(request[r], "error")
<1>1. RequestOK(request[r]) /\ k \in Code /\ codeOf(r) = k
  BY WorksAt, Zenon
<1>2. RequestOK(q) /\ q.pc = "error" /\ \A x : ~Works(q, x)
  BY Done, Zenon
<1>3. request' = [request EXCEPT ![r] = q]
  BY Goes, Zenon DEF Over
<1> HIDE DEF q
<1>4. \A x, d : ~Added(request[r], x, d)
  BY Zenon DEF Added
<1>5. Works(request[r], k) \/ UNCHANGED <<place, record>>
  BY Zenon DEF Works
<1>6. Steps(r, q, k)
  BY <1>2, <1>3, <1>5, Zenon DEF Steps, Leaves
<1>7. k \notin overran => Knows(r, q, k)
  <2>1. k \notin overran /\ place[k] = "history" => UNCHANGED <<place, record>>
    BY <1>1, AtWork, Zenon DEF Works, Working
  <2> QED
    BY <1>2, <1>4, <2>1, Zenon DEF Knows
<1> HIDE DEF k
<1> QED
  BY <1>1, <1>2, <1>4, <1>6, <1>7, HandlerStep, Zenon

-----------------------------------------------------------------------------
\* The steps of enroll.

LEMMA ClaimMoveStep ==
  ASSUME EnrolmentInv, NEW r \in Request, ClaimMove(r)
  PROVE  EnrolmentInv'
<1> DEFINE k == request[r].code
           q == [request[r] EXCEPT !.pc = "add", !.from = None]
<1>1. request[r].pc = "claimMove" /\ request[r].pc \notin Over /\ request[r].pc # "stale"
      /\ request[r].pc \in Working
  BY Zenon DEF ClaimMove, at, Over, Working
<1>2. /\ RequestOK(request[r]) /\ codeOf(r) = k /\ k \in Code /\ Works(request[r], k)
      /\ stepOf(request[r]) = "claimMove"
  BY <1>1, WorksAt, Zenon
<1>3. EnrolmentType /\ (k \notin overran => place[k] \in {"pending", "inflight"})
  BY <1>2, AtWork, Zenon DEF EnrolmentInv
<1>4. Leaves(k)
  BY <1>2, <1>3, Zenon DEF ClaimMove, Leaves, EnrolmentType, relay
<1>5. CASE goes(r, "error") /\ UNCHANGED <<place, record>>
  BY <1>1, <1>2, <1>4, <1>5, Fails, Zenon
<1>6. CASE /\ request' = [request EXCEPT ![r].pc = "add", ![r].from = None]
           /\ place' = place \/ place' = [place EXCEPT ![k] = "inflight"]
  <2>1. request' = [request EXCEPT ![r] = q]
    BY <1>3, <1>6, Zenon DEF EnrolmentType
  <2>2. /\ q = [x \in RequestFields |-> q[x]] /\ q.pc = "add" /\ q.code = k
        /\ q.device = request[r].device /\ q.added = request[r].added
        /\ q.via = request[r].via /\ q.revision = request[r].revision
    BY <1>2, Zenon DEF RequestOK, RequestFields
  <2> HIDE DEF q
  <2>3. stepOf(q) = "add"
    BY <2>2, Zenon DEF stepOf
  <2>4. RequestOK(q)
    BY <1>1, <1>2, <2>2, <2>3, Zenon DEF RequestOK, Over, Working
  <2>5. \A x, d : ~Added(request[r], x, d)
    BY <1>2, Zenon DEF Added
  <2>6. Steps(r, q, k)
    BY <1>2, <1>4, <2>1, <2>2, <2>4, Zenon DEF Steps, Leaves, Works
  <2>7. k \notin overran => place'[k] \in {"pending", "inflight"}
    BY <1>2, <1>3, <1>6, Zenon DEF EnrolmentType
  <2>8. k \notin overran => Knows(r, q, k)
    BY <1>3, <2>3, <2>5, <2>7, Zenon DEF Knows
  <2> HIDE DEF k
  <2> QED
    BY <1>2, <2>2, <2>5, <2>6, <2>8, HandlerStep, Zenon
<1> QED
  BY <1>2, <1>5, <1>6, Zenon DEF ClaimMove

LEMMA PolicyStep ==
  ASSUME EnrolmentInv, NEW r \in Request, PolicyMismatch(r)
  PROVE  EnrolmentInv'
<1> DEFINE k == request[r].code
<1>1. request[r].pc = "add" /\ request[r].pc \notin Over /\ request[r].pc \in Working
      /\ "release" \in Working
  BY Zenon DEF PolicyMismatch, at, Over, Working
<1>2. RequestOK(request[r]) /\ codeOf(r) = k /\ k \in Code /\ Works(request[r], k)
      /\ stepOf(request[r]) = "add"
  BY <1>1, WorksAt, Zenon
<1>3. EnrolmentType /\ (k \notin overran => place[k] \in {"pending", "inflight"})
  BY <1>2, AtWork, Zenon DEF EnrolmentInv
<1>4. Leaves(k) /\ UNCHANGED <<place, record>> /\ goes(r, "release")
  BY <1>3, Zenon DEF PolicyMismatch, Leaves, EnrolmentType, relay, code, history
<1>5. k \notin overran => Knows(r, moved(request[r], "release"), k)
  <2>1. stepOf(moved(request[r], "release")) = "release"
    BY <1>1, <1>2, Moved, Zenon
  <2> QED
    BY <1>2, <1>3, <1>4, <2>1, Zenon DEF Knows, Added
<1> QED
  BY <1>1, <1>2, <1>4, <1>5, MoveOn, Zenon

LEMMA CommitStep ==
  ASSUME EnrolmentInv, NEW r \in Request, Commit(r)
  PROVE  EnrolmentInv'
<1> DEFINE k == request[r].code
           d == request[r].device
<1>1. request[r].pc = "commit" /\ request[r].pc \notin Over /\ request[r].pc \in Working
      /\ {"commitMove", "remove", "release"} \subseteq Working
  BY Zenon DEF Commit, at, Over, Working
<1>2. /\ RequestOK(request[r]) /\ codeOf(r) = k /\ k \in Code /\ Works(request[r], k)
      /\ stepOf(request[r]) = "commit" /\ deviceOf(r) = d /\ d \in Device
  BY <1>1, WorksAt, Zenon
<1>3. EnrolmentType /\ (k \notin overran => place[k] \in {"pending", "inflight"} /\ IsPeer(d, k))
  BY <1>2, AtWork, Zenon DEF EnrolmentInv, CommitsPeer
<1>4. UNCHANGED <<peers, device, up, live, overran, orphaned, place>>
  BY Zenon DEF Commit, relay, history
<1>5. CASE claimedRecord(r) /\ codeOf(r) \notin expired
  <2>1. /\ goes(r, "commitMove")
        /\ record' = [record EXCEPT ![k] = [Unclaimed EXCEPT !.peer = d]]
    BY <1>2, <1>5, Zenon DEF Commit, writePairing
  <2>2. [Unclaimed EXCEPT !.peer = d] \in RecordType /\ [Unclaimed EXCEPT !.peer = d].peer = d
    BY <1>2, Zenon DEF Unclaimed, RecordType
  <2>3. Leaves(k) /\ record'[k].peer = d
    BY <1>2, <1>3, <1>4, <2>1, <2>2, Zenon DEF Leaves, EnrolmentType
  <2>4. k \notin overran => Knows(r, moved(request[r], "commitMove"), k)
    <3> DEFINE q == moved(request[r], "commitMove")
    <3>1. /\ stepOf(q) = "commitMove" /\ q.code = k /\ q.device = d
          /\ q.added = request[r].added
      BY <1>1, <1>2, Moved
    <3> HIDE DEF q
    <3>2. k \notin overran => Knows(r, q, k)
      BY <1>3, <1>4, <2>3, <3>1, Zenon DEF Knows, Added
    <3> QED
      BY <3>2, Zenon DEF q
  <2> QED
    BY <1>1, <1>2, <2>1, <2>3, <2>4, MoveOn, Zenon
<1>6. CASE ~(claimedRecord(r) /\ codeOf(r) \notin expired)
  <2>1. Leaves(k) /\ UNCHANGED record
    BY <1>3, <1>4, <1>6, Zenon DEF Commit, Leaves, EnrolmentType
  <2>2. PICK pc \in {"remove", "release"} :
          goes(r, pc) /\ (pc = "remove" <=> request[r].added)
    BY <1>2, <1>6, Zenon DEF Commit, failed, RequestOK
  <2>3. k \notin overran => Knows(r, moved(request[r], pc), k)
    <3> DEFINE q == moved(request[r], pc)
    <3>1. /\ stepOf(q) = pc /\ q.code = k /\ q.device = d /\ q.added = request[r].added
      BY <1>1, <1>2, <2>2, Moved
    <3> HIDE DEF q
    <3>2. k \notin overran => Knows(r, q, k)
      BY <1>3, <1>4, <2>1, <2>2, <3>1, Zenon DEF Knows, Added
    <3> QED
      BY <3>2, Zenon DEF q
  <2> QED
    BY <1>1, <1>2, <2>1, <2>2, <2>3, MoveOn, Zenon
<1> QED
  BY <1>5, <1>6, Zenon

LEMMA CommitMoveStep ==
  ASSUME EnrolmentInv, NEW r \in Request, CommitMove(r)
  PROVE  EnrolmentInv'
<1> DEFINE k == request[r].code
           d == request[r].device
<1>1. request[r].pc = "commitMove" /\ request[r].pc \notin Over /\ request[r].pc \in Working
      /\ {"serve", "remove", "release"} \subseteq Working
  BY Zenon DEF CommitMove, at, Over, Working
<1>2. /\ RequestOK(request[r]) /\ codeOf(r) = k /\ k \in Code /\ Works(request[r], k)
      /\ stepOf(request[r]) = "commitMove" /\ deviceOf(r) = d /\ d \in Device
  BY <1>1, WorksAt, Zenon
<1>3. /\ EnrolmentType
      /\ k \notin overran =>
           place[k] \in {"pending", "inflight"} /\ IsPeer(d, k) /\ record[k].peer = d
  BY <1>2, AtWork, Zenon DEF EnrolmentInv, CommitsPeer
<1>4. UNCHANGED <<peers, device, up, live, overran, orphaned, record>>
  BY Zenon DEF CommitMove, relay
<1>5. CASE place' = [place EXCEPT ![k] = "history"] /\ goes(r, "serve")
  <2>1. Leaves(k) /\ place'[k] = "history"
    BY <1>2, <1>3, <1>4, <1>5, Zenon DEF Leaves, EnrolmentType
  <2>2. k \notin overran => Knows(r, moved(request[r], "serve"), k)
    <3> DEFINE q == moved(request[r], "serve")
    <3>1. stepOf(q) = "serve" /\ q.device = d
      BY <1>1, <1>2, Moved, Zenon
    <3> HIDE DEF q
    <3>2. k \notin overran => Knows(r, q, k)
      BY <1>3, <1>4, <2>1, <3>1, Zenon DEF Knows, Added
    <3> QED
      BY <3>2, Zenon DEF q
  <2> QED
    BY <1>1, <1>2, <1>5, <2>1, <2>2, MoveOn, Zenon
<1>6. CASE goes(r, failed(r)) /\ UNCHANGED place
  <2>1. Leaves(k)
    BY <1>3, <1>4, <1>6, Zenon DEF Leaves, EnrolmentType
  <2>2. PICK pc \in {"remove", "release"} :
          goes(r, pc) /\ (pc = "remove" <=> request[r].added)
    BY <1>2, <1>6, Zenon DEF failed, RequestOK
  <2>3. k \notin overran => Knows(r, moved(request[r], pc), k)
    <3> DEFINE q == moved(request[r], pc)
    <3>1. /\ stepOf(q) = pc /\ q.code = k /\ q.device = d /\ q.added = request[r].added
      BY <1>1, <1>2, <2>2, Moved
    <3> HIDE DEF q
    <3>2. k \notin overran => Knows(r, q, k)
      BY <1>3, <1>4, <1>6, <2>2, <3>1, Zenon DEF Knows, Added
    <3> QED
      BY <3>2, Zenon DEF q
  <2> QED
    BY <1>1, <1>2, <2>1, <2>2, <2>3, MoveOn, Zenon
<1> QED
  BY <1>2, <1>5, <1>6, Zenon DEF CommitMove

LEMMA ReleaseStep ==
  ASSUME EnrolmentInv, NEW r \in Request, Release(r)
  PROVE  EnrolmentInv'
<1> DEFINE k == request[r].code
<1>1. request[r].pc = "release" /\ request[r].pc \notin Over /\ request[r].pc \in Working
      /\ "releaseMove" \in Working
  BY Zenon DEF Release, at, Over, Working
<1>2. /\ RequestOK(request[r]) /\ codeOf(r) = k /\ k \in Code /\ Works(request[r], k)
      /\ stepOf(request[r]) = "release"
  BY <1>1, WorksAt, Zenon
<1>3. EnrolmentType /\ (k \notin overran => place[k] \in {"pending", "inflight"})
  BY <1>2, AtWork, Zenon DEF EnrolmentInv
<1>4. UNCHANGED <<peers, device, up, live, overran, orphaned, place>>
  BY Zenon DEF Release, relay, history
<1>5. CASE claimedRecord(r)
  <2>1. goes(r, "releaseMove") /\ record' = [record EXCEPT ![k] = Unclaimed]
    BY <1>2, <1>5, Zenon DEF Release, writePairing
  <2>2. Unclaimed \in RecordType
    BY Zenon DEF Unclaimed, RecordType
  <2>3. Leaves(k)
    BY <1>2, <1>3, <1>4, <2>1, <2>2, Zenon DEF Leaves, EnrolmentType
  <2>4. stepOf(moved(request[r], "releaseMove")) = "releaseMove"
    BY <1>1, <1>2, Moved, Zenon
  <2>5. k \notin overran => Knows(r, moved(request[r], "releaseMove"), k)
    BY <1>2, <1>3, <1>4, <2>4, Zenon DEF Knows, Added
  <2> QED
    BY <1>1, <1>2, <2>1, <2>3, <2>5, MoveOn, Zenon
<1>6. CASE ~claimedRecord(r)
  <2>1. goes(r, "error") /\ Leaves(k) /\ UNCHANGED <<place, record>>
    BY <1>3, <1>4, <1>6, Zenon DEF Release, Leaves, EnrolmentType
  <2> QED
    BY <1>1, <1>2, <2>1, Fails, Zenon
<1> QED
  BY <1>5, <1>6, Zenon

LEMMA ReleaseMoveStep ==
  ASSUME EnrolmentInv, NEW r \in Request, ReleaseMove(r)
  PROVE  EnrolmentInv'
<1> DEFINE k == request[r].code
<1>1. request[r].pc = "releaseMove" /\ request[r].pc \notin Over /\ request[r].pc \in Working
  BY Zenon DEF ReleaseMove, at, Over, Working
<1>2. /\ codeOf(r) = k /\ k \in Code /\ stepOf(request[r]) = "releaseMove"
      /\ stepOf(request[r]) \in Working \ {"serve"}
  BY <1>1, WorksAt, Zenon
<1>3. EnrolmentType
  BY Zenon DEF EnrolmentInv
<1>4. /\ UNCHANGED <<peers, device, up, live, overran, orphaned, record>> /\ goes(r, "error")
      /\ place' = place \/ place' = [place EXCEPT ![k] = "pending"]
  BY <1>2, Zenon DEF ReleaseMove, relay
<1>5. Leaves(k)
  BY <1>2, <1>3, <1>4, Zenon DEF Leaves, EnrolmentType
<1>6. place'[k] = "history" => UNCHANGED <<place, record>>
  BY <1>2, <1>3, <1>4, Zenon DEF EnrolmentType
<1> QED
  BY <1>1, <1>2, <1>4, <1>5, <1>6, Fails, Zenon

LEMMA GivesUpLockStep ==
  ASSUME EnrolmentInv, NEW r \in Request,
         \/ GivesUpLock(r, "claim", "error") \/ GivesUpLock(r, "commit", failed(r))
         \/ GivesUpLock(r, "release", "error")
  PROVE  EnrolmentInv'
<1> DEFINE k == request[r].code
           d == request[r].device
<1>1. /\ request[r].pc \in {"claim", "commit", "release"} /\ request[r].pc \notin Over
      /\ request[r].pc # "stale"
  BY Zenon DEF GivesUpLock, at, Over
<1>2. /\ RequestOK(request[r]) /\ codeOf(r) = k /\ k \in Code
      /\ stepOf(request[r]) = request[r].pc
  BY <1>1, WorksAt, Zenon
<1>3. Leaves(k) /\ UNCHANGED <<place, record>>
  BY Zenon DEF GivesUpLock, Leaves, EnrolmentInv, EnrolmentType, relay, code, history
<1>4. CASE goes(r, "error") /\ request[r].pc # "commit"
  BY <1>1, <1>2, <1>3, <1>4, Fails, Zenon
<1>5. CASE goes(r, failed(r)) /\ request[r].pc = "commit"
  <2>1. {"commit", "remove", "release"} \subseteq Working
    BY Zenon DEF Working
  <2>2. PICK pc \in {"remove", "release"} :
          goes(r, pc) /\ (pc = "remove" <=> request[r].added)
    BY <1>2, <1>5, Zenon DEF failed, RequestOK
  <2>3. Works(request[r], k)
    BY <1>2, <1>5, <2>1, Zenon DEF Works
  <2>4. k \notin overran => place[k] \in {"pending", "inflight"}
    BY <1>2, <1>5, <2>3, AtWork, Zenon
  <2>5. k \notin overran => Knows(r, moved(request[r], pc), k)
    <3> DEFINE q == moved(request[r], pc)
    <3>1. /\ stepOf(q) = pc /\ q.code = k /\ q.device = d /\ q.added = request[r].added
      BY <1>1, <1>2, <2>1, <2>2, Moved
    <3> HIDE DEF q
    <3>2. k \notin overran => Knows(r, q, k)
      BY <1>2, <1>3, <1>5, <2>2, <2>4, <3>1, Zenon DEF Knows, Added
    <3> QED
      BY <3>2, Zenon DEF q
  <2> QED
    BY <1>1, <1>2, <1>3, <1>5, <2>1, <2>2, <2>5, MoveOn, Zenon
<1> QED
  BY <1>4, <1>5, Zenon DEF GivesUpLock, at

\* A step that only changes how r waits.
LEMMA WaitStep ==
  ASSUME EnrolmentInv, NEW r \in Request, NEW q, request' = [request EXCEPT ![r] = q],
         RequestOK(q), stepOf(q) = stepOf(request[r]), q.code = request[r].code,
         q.device = request[r].device, q.added = request[r].added,
         request[r].pc \notin Over, q.pc # "ok",
         UNCHANGED <<place, record, peers, device, up, live, overran, orphaned>>
  PROVE  EnrolmentInv'
<1> DEFINE k == request[r].code
<1>1. k \in Code
  BY WorksAt, Zenon
<1>2. \A x : (Works(q, x) <=> Works(request[r], x)) /\ (Works(q, x) => x = k)
  BY Zenon DEF Works
<1>3. \A x, d : (Added(q, x, d) <=> Added(request[r], x, d)) /\ (Added(q, x, d) => x = k)
  BY Zenon DEF Added
<1>4. Steps(r, q, k)
  BY <1>2, Zenon DEF Steps, EnrolmentInv, EnrolmentType
<1>5. k \notin overran => Knows(r, q, k)
  BY <1>1, <1>2, <1>3 DEF Knows, EnrolmentInv, OneClaimant, CommitsPeer, Consumed
<1> HIDE DEF k
<1> QED
  BY <1>1, <1>3, <1>4, <1>5, HandlerStep, Zenon

LEMMA StaleLockStep ==
  ASSUME EnrolmentInv, NEW r \in Request, SeesStaleLock(r) \/ RemoveStaleLock(r)
  PROVE  EnrolmentInv'
<1>1. RequestOK(request[r]) /\ request = [s \in Request |-> request[s]]
  BY Zenon DEF EnrolmentInv, EnrolmentType
<1>2. UNCHANGED <<place, record, peers, device, up, live, overran, orphaned>>
  BY Zenon DEF SeesStaleLock, RemoveStaleLock, relay, code, history
<1>3. CASE SeesStaleLock(r)
  <2> DEFINE q == [request[r] EXCEPT !.pc = "stale", !.then = request[r].pc]
  <2>1. /\ request[r].pc \in {"claim", "commit", "release"}
        /\ request' = [request EXCEPT ![r] = q]
    BY <1>1, <1>3, Zenon DEF SeesStaleLock
  <2>2. /\ q = [x \in RequestFields |-> q[x]] /\ q.pc = "stale" /\ q.then = request[r].pc
        /\ q.code = request[r].code /\ q.device = request[r].device
        /\ q.added = request[r].added /\ q.via = request[r].via
        /\ q.revision = request[r].revision
    BY <1>1, Zenon DEF RequestOK, RequestFields
  <2> HIDE DEF q
  <2>3. stepOf(q) = request[r].pc /\ stepOf(request[r]) = request[r].pc
    BY <2>1, <2>2, Zenon DEF stepOf
  <2>4. request[r].pc \notin Over /\ q.pc \notin Over
    BY <2>1, <2>2, Zenon DEF Over
  <2>5. RequestOK(q)
    BY <1>1, <2>1, <2>2, <2>3, <2>4, Zenon DEF RequestOK
  <2> QED
    BY <1>2, <2>1, <2>2, <2>3, <2>4, <2>5, WaitStep, Zenon
<1>4. CASE RemoveStaleLock(r)
  <2> DEFINE q == [request[r] EXCEPT !.pc = request[r].then, !.then = None]
  <2>1. request[r].pc = "stale" /\ request' = [request EXCEPT ![r] = q]
    BY <1>1, <1>4, Zenon DEF RemoveStaleLock, at
  <2>2. /\ q = [x \in RequestFields |-> q[x]] /\ q.pc = request[r].then
        /\ q.code = request[r].code /\ q.device = request[r].device
        /\ q.added = request[r].added /\ q.via = request[r].via
        /\ q.revision = request[r].revision
    BY <1>1, Zenon DEF RequestOK, RequestFields
  <2>3. q.pc \in {"claim", "commit", "release"}
    BY <1>1, <2>1, <2>2, Zenon DEF RequestOK
  <2> HIDE DEF q
  <2>4. stepOf(q) = request[r].then /\ stepOf(request[r]) = request[r].then
    BY <2>1, <2>2, <2>3, Zenon DEF stepOf
  <2>5. request[r].pc \notin Over /\ q.pc \notin Over
    BY <2>1, <2>3, Zenon DEF Over
  <2>6. RequestOK(q)
    BY <1>1, <2>1, <2>2, <2>3, <2>4, <2>5, Zenon DEF RequestOK, Working
  <2> QED
    BY <1>2, <2>1, <2>2, <2>3, <2>4, <2>5, <2>6, WaitStep, Zenon
<1> QED
  BY <1>3, <1>4, Zenon

\* The claim: a code that has a claimant already is overrun.
LEMMA ClaimStep ==
  ASSUME EnrolmentInv, NEW r \in Request, Claim(r)
  PROVE  EnrolmentInv'
<1> DEFINE k == request[r].code
           q == [request[r] EXCEPT !.pc = "claimMove", !.from = place[k]]
<1>1. request[r].pc = "claim" /\ request[r].pc \notin Over /\ request[r].pc # "stale"
  BY Zenon DEF Claim, at, Over
<1>2. /\ RequestOK(request[r]) /\ codeOf(r) = k /\ k \in Code
      /\ stepOf(request[r]) = "claim" /\ EnrolmentType
  BY <1>1, WorksAt, Zenon DEF EnrolmentInv
<1>3. CASE ~claimable(k)
  <2>1. goes(r, "error") /\ Leaves(k) /\ UNCHANGED <<place, record>>
    BY <1>2, <1>3, Zenon DEF Claim, Leaves, EnrolmentType, relay
  <2> QED
    BY <1>1, <1>2, <2>1, Fails, Zenon
<1>4. CASE claimable(k)
  <2>1. /\ request' = [request EXCEPT ![r].pc = "claimMove", ![r].from = place[k]]
        /\ record' = [record EXCEPT ![k] = [record[k] EXCEPT !.claim = r, !.leased = TRUE]]
    BY <1>2, <1>4, Zenon DEF Claim, writePairing
  <2>0. UNCHANGED <<place, peers, device, up, live, orphaned>> /\ overran \subseteq overran'
    BY <1>2, <1>4, Zenon DEF Claim, relay
  <2>2. k \notin overran' => \A s \in Request : ~Works(request[s], k)
    BY <1>2, <1>4, Zenon DEF Claim, Works, Working, stepOf, step, at, codeOf, Over
  <2>3. /\ [record[k] EXCEPT !.claim = r, !.leased = TRUE] \in RecordType
        /\ [record[k] EXCEPT !.claim = r, !.leased = TRUE].peer = record[k].peer
    BY <1>2, ZenonT(30), ZenonT(30) DEF EnrolmentType, RecordType
  <2>4. /\ record' \in [Code -> RecordType]
        /\ \A x \in Code : record'[x].peer = record[x].peer
    BY <1>2, <2>1, <2>3, Zenon DEF EnrolmentType
  <2>5. request' = [request EXCEPT ![r] = q]
    BY <1>2, <2>1, Zenon DEF EnrolmentType
  <2>6. /\ q = [x \in RequestFields |-> q[x]] /\ q.pc = "claimMove" /\ q.code = k
        /\ q.device = request[r].device /\ q.added = request[r].added
        /\ q.via = request[r].via /\ q.revision = request[r].revision
    BY <1>2, Zenon DEF RequestOK, RequestFields
  <2> HIDE DEF q
  <2>7. stepOf(q) = "claimMove"
    BY <2>6, Zenon DEF stepOf
  <2>8. RequestOK(q)
    BY <1>1, <1>2, <2>6, <2>7, Zenon DEF RequestOK, Over, Working
  <2>9. /\ request' = [s \in Request |-> IF s = r THEN q ELSE request[s]]
        /\ request'[r] = q /\ \A s \in Request : s # r => request'[s] = request[s]
    BY <1>2, <2>5, Changed, Zenon
  <2>10. EnrolmentType'
    <3>1. \A s \in Request : RequestOK(request'[s])
      BY <1>2, <2>8, <2>9, Zenon DEF EnrolmentType
    <3>2. \A s \in Request : RequestOK(request[s])'
      BY <2>0, <3>1, Zenon DEF RequestOK
    <3> QED
      BY <1>2, <2>0, <2>4, <2>9, <3>2, Zenon DEF EnrolmentType
  <2>11. ASSUME NEW x \in Code \ overran', NEW s \in Request, Works(request'[s], x)
         PROVE  \/ s = r /\ x = k
                \/ s # r /\ x # k /\ x \notin overran /\ Works(request[s], x)
                     /\ request'[s] = request[s]
    BY <2>0, <2>2, <2>6, <2>9, <2>11, Zenon DEF Works
  <2>12. OneClaimant'
    <3>1. place[k] \in {"pending", "inflight"}
      BY <1>4, Zenon DEF claimable
    <3>2. ASSUME NEW x \in Code \ overran', NEW s \in Request, Works(request'[s], x)
          PROVE  IF stepOf(request'[s]) = "serve" THEN Consumed(x, request[s].device)'
                 ELSE place'[x] \in {"pending", "inflight"}
      BY <2>0, <2>4, <2>7, <2>9, <2>11, <3>1, <3>2 DEF EnrolmentInv, OneClaimant, Consumed
    <3>3. ASSUME NEW x \in Code \ overran', NEW s \in Request, NEW t \in Request,
                 Works(request'[s], x), Works(request'[t], x)
          PROVE  s = t
      BY <2>11, <3>3, Zenon DEF EnrolmentInv, OneClaimant
    <3> QED
      BY <3>2, <3>3, Zenon DEF OneClaimant, Works, stepOf
  <2>13. CommitsPeer'
    <3>1. ASSUME NEW x \in Code \ overran', NEW s \in Request, Works(request'[s], x)
          PROVE  /\ stepOf(request'[s]) \in {"commit", "commitMove"} =>
                      IsPeer(request'[s].device, x)
                 /\ stepOf(request'[s]) = "commitMove" => record'[x].peer = request'[s].device
      BY <2>4, <2>7, <2>9, <2>11, <3>1 DEF EnrolmentInv, CommitsPeer
    <3>2. ASSUME NEW x \in Code \ overran', place'[x] = "history"
          PROVE  record'[x].peer \in Device /\ IsPeer(record'[x].peer, x)
      BY <2>0, <2>4, <3>2, Zenon DEF EnrolmentInv, CommitsPeer
    <3> QED
      BY <2>0, <3>1, <3>2 DEF CommitsPeer, IsPeer, Works, stepOf
  <2>14. PeerHasReason'
    <3> SUFFICES ASSUME NEW x \in Code \ (overran' \cup orphaned'), NEW d \in Device, IsPeer(d, x)
                 PROVE  Consumed(x, d)' \/ \E s \in Request : Added(request'[s], x, d)
      BY <2>0 DEF PeerHasReason, IsPeer, Added, stepOf
    <3>1. Consumed(x, d) \/ \E s \in Request : Added(request[s], x, d)
      BY <2>0, Zenon DEF EnrolmentInv, PeerHasReason
    <3>2. Consumed(x, d) => Consumed(x, d)'
      BY <2>0, <2>4, Zenon DEF Consumed
    <3>3. \A s \in Request : Added(request[s], x, d) => Added(request'[s], x, d)
      BY <1>2, <2>9, Zenon DEF Added
    <3> QED
      BY <3>1, <3>2, <3>3, Zenon
  <2>15. ToldIsServed'
    <3>1. \A d \in Device : Told(d)' => Told(d)
      BY <2>0, <2>6, <2>9, Zenon DEF Told
    <3>2. \A d \in Device : device[d].code \in Code =>
            (Consumed(device[d].code, d) => Consumed(device[d].code, d)')
      BY <2>0, <2>4, Zenon DEF Consumed
    <3> QED
      BY <2>0, <3>1, <3>2, Zenon DEF EnrolmentInv, ToldIsServed
  <2> QED
    BY <2>10, <2>12, <2>13, <2>14, <2>15, Zenon DEF EnrolmentInv
<1> QED
  BY <1>3, <1>4, Zenon

-----------------------------------------------------------------------------
\* The steps that write relay.json.

LEMMA PeerAdded ==
  ASSUME NEW d \in Device, NEW k \in Code, applyPeerChange("add", d, k, None) # None
  PROVE  /\ peers[d] = None
         /\ applyPeerChange("add", d, k, None)
              = [peers EXCEPT ![d] = [code |-> k, revoked |-> FALSE]]
BY Zenon DEF applyPeerChange

LEMMA PeerRemoved ==
  ASSUME NEW d \in Device, NEW k, NEW expected, applyPeerChange("remove", d, k, expected) # None
  PROVE  /\ expected = peers /\ peers[d] # None
         /\ applyPeerChange("remove", d, k, expected) = [peers EXCEPT ![d] = None]
BY Zenon DEF applyPeerChange

LEMMA PeerRevoked ==
  ASSUME NEW d \in Device, applyPeerChange("revoke", d, None, None) # None
  PROVE  /\ peers[d] # None
         /\ applyPeerChange("revoke", d, None, None)
              = [peers EXCEPT ![d] = [peers[d] EXCEPT !.revoked = TRUE]]
BY Zenon DEF applyPeerChange

\* While r works for a code, the peers of the code are those r has added.
LEMMA OnlyPeer ==
  ASSUME EnrolmentInv, NEW r \in Request, NEW k \in Code \ (overran \cup orphaned),
         Works(request[r], k), stepOf(request[r]) # "serve",
         NEW d \in Device, IsPeer(d, k)
  PROVE  Added(request[r], k, d)
<1>1. place[k] # "history"
  BY AtWork, Zenon
<1>2. PICK s \in Request : Added(request[s], k, d)
  BY <1>1, Zenon DEF EnrolmentInv, PeerHasReason, Consumed
<1>3. Works(request[s], k)
  BY <1>2, Zenon DEF Added, Works, Working
<1> QED
  BY <1>2, <1>3, Zenon DEF EnrolmentInv, OneClaimant

LEMMA PeerStep ==
  ASSUME EnrolmentInv, NEW r \in Request, NEW q, request' = [request EXCEPT ![r] = q],
         RequestOK(q), NEW k \in Code, Works(request[r], k), stepOf(request[r]) # "serve",
         UNCHANGED <<place, record, device, up, live, overran>>, orphaned \subseteq orphaned',
         peers' \in [Device -> Peer \cup {None}],
         q.code = k, q.pc \in {"commit", "release"},
         \A d \in Device, x \in Code : x # k /\ IsPeer(d, x) => peers'[d] = peers[d],
         \A d \in Device, x \in Code : x # k /\ IsPeer(d, x)' => IsPeer(d, x),
         q.pc = "commit" => peers'[q.device] # None /\ peers'[q.device].code = k,
         \A d \in Device : k \notin overran \cup orphaned' /\ IsPeer(d, k)' => Added(q, k, d)
  PROVE  EnrolmentInv'
<1>1. /\ request' = [s \in Request |-> IF s = r THEN q ELSE request[s]]
      /\ request'[r] = q /\ \A s \in Request : s # r => request'[s] = request[s]
  BY Changed, Zenon DEF EnrolmentInv
<1>2. stepOf(q) = q.pc /\ q.pc # "ok" /\ q.pc # "serve" /\ q.pc # "commitMove"
  BY Zenon DEF stepOf
<1>3. EnrolmentType'
  <2>1. \A s \in Request : RequestOK(request'[s])
    BY <1>1, Zenon DEF EnrolmentInv, EnrolmentType
  <2>2. ASSUME NEW s \in Request PROVE RequestOK(request[s])'
    <3>1. RequestOK(request'[s])
      BY <2>1, <2>2, Zenon
    <3>2. UNCHANGED device
      BY Zenon
    <3> QED
      BY ONLY <3>1, <3>2, Zenon DEF RequestOK, stepOf
  <2> QED
    BY <1>1, <2>2, Zenon DEF EnrolmentInv, EnrolmentType
<1>4. k \notin overran => place[k] \in {"pending", "inflight"}
  BY AtWork, Zenon
<1>5. ASSUME NEW x \in Code \ overran, NEW s \in Request, Works(request'[s], x)
      PROVE  \/ s = r /\ x = k
             \/ s # r /\ x # k /\ Works(request[s], x) /\ request'[s] = request[s]
  BY <1>1, <1>5 DEF EnrolmentInv, OneClaimant, Works
<1>6. OneClaimant'
  <2>1. ASSUME NEW x \in Code \ overran, NEW s \in Request, Works(request'[s], x)
        PROVE  IF stepOf(request'[s]) = "serve" THEN Consumed(x, request[s].device)'
               ELSE place'[x] \in {"pending", "inflight"}
    BY <1>1, <1>2, <1>4, <1>5, <2>1 DEF EnrolmentInv, OneClaimant, Consumed
  <2>2. ASSUME NEW x \in Code \ overran, NEW s \in Request, NEW t \in Request,
               Works(request'[s], x), Works(request'[t], x)
        PROVE  s = t
    BY <1>5, <2>2, Zenon DEF EnrolmentInv, OneClaimant
  <2> QED
    BY <2>1, <2>2 DEF OneClaimant, Works, stepOf
<1>7. ASSUME NEW x \in Code \ overran, x # k, NEW d \in Device, IsPeer(d, x)
      PROVE  IsPeer(d, x)'
  BY <1>7, Zenon DEF IsPeer
<1>8. CommitsPeer'
  <2>1. ASSUME NEW x \in Code \ overran, NEW s \in Request, Works(request'[s], x),
               stepOf(request'[s]) \in {"commit", "commitMove"}
        PROVE  /\ IsPeer(request[s].device, x)'
               /\ stepOf(request'[s]) = "commitMove" => record'[x].peer = request'[s].device
    <3>1. CASE s = r /\ x = k
      BY <1>1, <1>2, <2>1, <3>1, Zenon DEF IsPeer
    <3>2. CASE s # r /\ x # k /\ Works(request[s], x) /\ request'[s] = request[s]
      <4>1. request[s].device \in Device
        <5>1. RequestOK(request[s])
          BY Zenon DEF EnrolmentInv, EnrolmentType
        <5>2. request[s].pc \notin Over
          BY <3>2, <5>1 DEF Works, stepOf, Working, Over, RequestOK
        <5> QED
          BY <5>1, <5>2, Zenon DEF RequestOK
      <4>2. /\ IsPeer(request[s].device, x)
            /\ stepOf(request[s]) = "commitMove" => record[x].peer = request[s].device
        BY <2>1, <3>2, Zenon DEF EnrolmentInv, CommitsPeer
      <4>3. peers'[request[s].device] = peers[request[s].device]
        BY <3>2, <4>1, <4>2, Zenon
      <4> QED
        BY <3>2, <4>2, <4>3, Zenon DEF IsPeer
    <3> QED
      BY <1>5, <2>1, <3>1, <3>2, Zenon
  <2>2. ASSUME NEW x \in Code \ overran, place'[x] = "history"
        PROVE  record'[x].peer \in Device /\ IsPeer(record[x].peer, x)'
    <3>1. x # k /\ record[x].peer \in Device /\ IsPeer(record[x].peer, x)
      BY <1>4, <2>2, Zenon DEF EnrolmentInv, CommitsPeer
    <3>2. peers'[record[x].peer] = peers[record[x].peer]
      BY <3>1, Zenon
    <3> QED
      BY <3>1, <3>2, Zenon DEF IsPeer
  <2> QED
    BY <2>1, <2>2 DEF CommitsPeer, Works, stepOf
<1>9. PeerHasReason'
  <2> SUFFICES ASSUME NEW x \in Code \ (overran \cup orphaned'), NEW d \in Device, IsPeer(d, x)'
               PROVE  Consumed(x, d)' \/ \E s \in Request : Added(request'[s], x, d)
    BY Zenon DEF PeerHasReason, Added, stepOf
  <2>1. CASE x = k
    BY <1>1, <2>1, Zenon
  <2>2. CASE x # k
    <3>1. Consumed(x, d) \/ \E s \in Request : Added(request[s], x, d)
      BY <2>2, Zenon DEF EnrolmentInv, PeerHasReason
    <3>2. \A s \in Request : Added(request[s], x, d) => s # r
      BY <2>2, Zenon DEF Added, Works
    <3> QED
      BY <1>1, <3>1, <3>2, Zenon DEF Consumed
  <2> QED
    BY <2>1, <2>2, Zenon
<1>10. ToldIsServed'
  <2>1. \A d \in Device : Told(d)' => Told(d)
    BY <1>1, <1>2 DEF Told
  <2>2. ASSUME NEW d \in Device, Told(d), device[d].code \notin overran
        PROVE  Consumed(device[d].code, d)' /\ peers'[d] = peers[d]
    <3>1. device[d].code \in Code /\ Consumed(device[d].code, d)
      BY <2>2, Zenon DEF EnrolmentInv, ToldIsServed
    <3>2. device[d].code # k /\ IsPeer(d, device[d].code)
      BY <1>4, <2>2, <3>1, Zenon DEF EnrolmentInv, CommitsPeer, Consumed
    <3> QED
      BY <3>1, <3>2, Zenon DEF Consumed
  <2> QED
    BY <2>1, <2>2, Zenon DEF EnrolmentInv, ToldIsServed
<1> QED
  BY <1>3, <1>6, <1>8, <1>9, <1>10, Zenon DEF EnrolmentInv

LEMMA AddStep ==
  ASSUME EnrolmentInv, NEW r \in Request, Add(r)
  PROVE  EnrolmentInv'
<1> DEFINE k == request[r].code
           d == request[r].device
           saved == applyPeerChange("add", d, k, None)
           new == [code |-> k, revoked |-> FALSE]
<1>1. request[r].pc = "add" /\ request[r].pc \notin Over /\ request[r].pc \in Working
      /\ {"commit", "release"} \subseteq Working
  BY Zenon DEF Add, at, Over, Working
<1>2. /\ RequestOK(request[r]) /\ codeOf(r) = k /\ k \in Code /\ Works(request[r], k)
      /\ stepOf(request[r]) = "add" /\ deviceOf(r) = d /\ d \in Device
      /\ k = device[d].code /\ request[r].via = device[d].transport
  BY <1>1, WorksAt, Zenon
<1>3. EnrolmentType /\ (k \notin overran => place[k] \in {"pending", "inflight"})
  BY <1>2, AtWork, Zenon DEF EnrolmentInv
<1>4. UNCHANGED <<place, record, device, up, live, overran>>
  BY Zenon DEF Add, code, relay
<1>5. ASSUME saved # None
      PROVE  /\ peers[d] = None /\ saved = [peers EXCEPT ![d] = new] /\ saved[d] = new
             /\ saved \in [Device -> Peer \cup {None}]
             /\ \A e \in Device : e # d => saved[e] = peers[e]
             /\ new # None /\ new.code = k
  <2>1. peers[d] = None /\ saved = [peers EXCEPT ![d] = new]
    BY <1>2, <1>5, PeerAdded, Zenon
  <2>2. new \in Peer /\ new.code = k
    BY <1>2, Zenon DEF Peer
  <2> HIDE DEF saved, new
  <2> QED
    BY <1>2, <1>3, <2>1, <2>2, EnrolmentAssumption DEF EnrolmentType
\* A new peer is the only one of the code: r is its only handler, and adds now.
<1>6. ASSUME saved # None, peers' = saved
      PROVE  /\ \A e \in Device, x \in Code : x # k /\ IsPeer(e, x) => peers'[e] = peers[e]
             /\ \A e \in Device, x \in Code : x # k /\ IsPeer(e, x)' => IsPeer(e, x)
             /\ \A e \in Device : k \notin overran \cup orphaned /\ (peers'[e] # None /\ peers'[e].code = k) => e = d
             /\ peers' \in [Device -> Peer \cup {None}]
             /\ peers'[d] # None /\ peers'[d].code = k
  <2> HIDE DEF saved, new
  <2>1. \A e \in Device, x \in Code : x # k /\ IsPeer(e, x) => peers'[e] = peers[e]
    BY <1>5, <1>6, Zenon DEF IsPeer
  <2>2. \A e \in Device, x \in Code : x # k /\ IsPeer(e, x)' => IsPeer(e, x)
    BY <1>5, <1>6, Zenon DEF IsPeer
  <2>3. ASSUME NEW e \in Device, k \notin overran \cup orphaned,
               peers'[e] # None, peers'[e].code = k, e # d
        PROVE  FALSE
    <3>1. IsPeer(e, k)
      BY <1>5, <1>6, <2>3, Zenon DEF IsPeer
    <3>2. Added(request[r], k, e)
      BY <1>2, <2>3, <3>1, OnlyPeer, Zenon
    <3> QED
      BY <1>2, <3>2, Zenon DEF Added
  <2> QED
    BY <1>5, <1>6, <2>1, <2>2, <2>3, Zenon
<1>7. CASE /\ saved # None /\ peers' = saved /\ UNCHANGED orphaned
           /\ request' = [request EXCEPT ![r].pc = "commit", ![r].added = TRUE,
                                         ![r].revision = saved]
  <2> DEFINE q == [request[r] EXCEPT !.pc = "commit", !.added = TRUE, !.revision = saved]
  <2> HIDE DEF saved, new
  <2>1. request' = [request EXCEPT ![r] = q]
    BY <1>3, <1>7, Zenon DEF EnrolmentType
  <2>2. /\ q = [x \in RequestFields |-> q[x]] /\ q.pc = "commit" /\ q.code = k
        /\ q.device = d /\ q.added = TRUE /\ q.via = request[r].via /\ q.revision = saved
    BY <1>2, Zenon DEF RequestOK, RequestFields
  <2> HIDE DEF q
  <2>3. stepOf(q) = "commit"
    BY <2>2, Zenon DEF stepOf
  <2>4. RequestOK(q)
    BY <1>1, <1>2, <1>5, <1>7, <2>2, <2>3, ZenonT(30) DEF RequestOK, Over, Working
  <2>5. \A e \in Device : k \notin overran \cup orphaned' /\ peers'[e] # None /\ peers'[e].code = k =>
          Added(q, k, e)
    BY <1>6, <1>7, <2>2, <2>3, Zenon DEF Added
  <2> HIDE DEF k, d
  <2>6. PICK kk \in Code : kk = k
    BY <1>2, Zenon
  <2>7. \A e \in Device, x \in Code : IsPeer(e, x)' <=> peers'[e] # None /\ peers'[e].code = x
    BY Zenon DEF IsPeer
  <2>8. /\ \A e \in Device, x \in Code : x # kk /\ IsPeer(e, x) => peers'[e] = peers[e]
        /\ \A e \in Device, x \in Code : x # kk /\ IsPeer(e, x)' => IsPeer(e, x)
        /\ peers'[q.device] # None /\ peers'[q.device].code = kk
    BY <1>6, <1>7, <2>2, <2>6, Zenon
  <2>9. \A e \in Device : kk \notin overran \cup orphaned' /\ IsPeer(e, kk)' => Added(q, kk, e)
    BY <2>5, <2>6, <2>7, Zenon
  <2>10. /\ Works(request[r], kk) /\ stepOf(request[r]) # "serve" /\ q.code = kk
         /\ q.pc \in {"commit", "release"} /\ orphaned \subseteq orphaned'
         /\ peers' \in [Device -> Peer \cup {None}]
    BY <1>2, <1>6, <1>7, <2>2, <2>6, Zenon
  <2> QED
    BY <1>4, <2>1, <2>4, <2>8, <2>9, <2>10, PeerStep, Zenon
<1>8. CASE /\ saved # None /\ peers' = saved /\ orphaned' = orphaned \cup {k}
           /\ goes(r, "release")
  <2> DEFINE q == moved(request[r], "release")
  <2> HIDE DEF saved, new
  <2>1. request' = [request EXCEPT ![r] = q]
    BY <1>8, Goes, Zenon DEF Over
  <2>2. RequestOK(q) /\ q.pc = "release" /\ q.code = k
    BY <1>1, <1>2, Moved, Zenon
  <2> HIDE DEF q, k, d
  <2>3. PICK kk \in Code : kk = k
    BY <1>2, Zenon
  <2>4. \A e \in Device, x \in Code : IsPeer(e, x)' <=> peers'[e] # None /\ peers'[e].code = x
    BY Zenon DEF IsPeer
  <2> QED
    BY <1>2, <1>4, <1>6, <1>8, <2>1, <2>2, <2>3, <2>4, PeerStep, Zenon
<1>9. CASE goes(r, "release") /\ UNCHANGED <<peers, orphaned>>
  <2>1. Leaves(k)
    BY <1>3, <1>4, <1>9, Zenon DEF Leaves, EnrolmentType
  <2>2. stepOf(moved(request[r], "release")) = "release"
    BY <1>1, <1>2, Moved, Zenon
  <2>3. k \notin overran => Knows(r, moved(request[r], "release"), k)
    BY <1>2, <1>3, <1>4, <2>2, Zenon DEF Knows, Added
  <2> QED
    BY <1>1, <1>2, <1>9, <2>1, <2>3, MoveOn, Zenon
<1>10. CASE goes(r, "commit") /\ containsExactEnrollmentPeer(d, k) /\ UNCHANGED <<peers, orphaned>>
  <2>1. Leaves(k)
    BY <1>3, <1>4, <1>10, Zenon DEF Leaves, EnrolmentType
  <2>2. IsPeer(d, k)
    <3>1. new \in Peer /\ peers[d] = new /\ new.code = k
      BY <1>2, <1>10, Zenon DEF containsExactEnrollmentPeer, Peer
    <3> QED
      BY <3>1, EnrolmentAssumption, Zenon DEF IsPeer
  <2>3. k \notin overran => Knows(r, moved(request[r], "commit"), k)
    <3> DEFINE q == moved(request[r], "commit")
    <3>1. stepOf(q) = "commit" /\ q.device = d
      BY <1>1, <1>2, Moved, Zenon
    <3> HIDE DEF q
    <3>2. k \notin overran => Knows(r, q, k)
      BY <1>2, <1>3, <1>4, <2>2, <3>1, Zenon DEF Knows, Added
    <3> QED
      BY <3>2, Zenon DEF q
  <2> QED
    BY <1>1, <1>2, <1>10, <2>1, <2>3, MoveOn, Zenon
<1> QED
  BY <1>2, <1>7, <1>8, <1>9, <1>10, Zenon DEF Add

LEMMA RemoveStep ==
  ASSUME EnrolmentInv, NEW r \in Request, Remove(r)
  PROVE  EnrolmentInv'
<1> DEFINE k == request[r].code
           d == request[r].device
           saved == applyPeerChange("remove", d, k, request[r].revision)
           q == moved(request[r], "release")
<1>1. request[r].pc = "remove" /\ request[r].pc \notin Over /\ request[r].pc \in Working
      /\ "release" \in Working
  BY Zenon DEF Remove, at, Over, Working
<1>2. /\ RequestOK(request[r]) /\ codeOf(r) = k /\ k \in Code /\ Works(request[r], k)
      /\ stepOf(request[r]) = "remove" /\ deviceOf(r) = d /\ d \in Device
  BY <1>1, WorksAt, Zenon
<1>3. /\ EnrolmentType /\ (k \notin overran => place[k] \in {"pending", "inflight"})
      /\ request[r].revision[d].code = k
  BY <1>2, AtWork, Zenon DEF EnrolmentInv, RequestOK
<1>4. UNCHANGED <<place, record, device, up, live, overran>> /\ goes(r, "release")
  BY Zenon DEF Remove, code, relay
<1>5. CASE saved # None /\ peers' = saved /\ UNCHANGED orphaned
  <2>1. IsPeer(d, k) /\ peers' = [peers EXCEPT ![d] = None]
    BY <1>2, <1>3, <1>5, PeerRemoved DEF IsPeer
  <2> HIDE DEF saved
  <2>2. request' = [request EXCEPT ![r] = q]
    BY <1>4, Goes, Zenon DEF Over
  <2>3. RequestOK(q) /\ q.pc = "release" /\ q.code = k
    BY <1>1, <1>2, Moved, Zenon
  <2> HIDE DEF q
  <2>4. \A e \in Device, x \in Code : x # k /\ IsPeer(e, x) => peers'[e] = peers[e]
    BY <1>2, <1>3, <2>1, Zenon DEF EnrolmentType, IsPeer
  <2>5. \A e \in Device, x \in Code : IsPeer(e, x)' => IsPeer(e, x) /\ e # d
    BY <1>2, <1>3, <2>1, Zenon DEF EnrolmentType, IsPeer
  <2>6. \A e \in Device : k \notin overran \cup orphaned /\ IsPeer(e, k) => e = d
    <3>1. \A e \in Device : Added(request[r], k, e) => e = d
      BY Zenon DEF Added
    <3> QED
      BY <1>2, <3>1, OnlyPeer, Zenon
  <2>7. peers' \in [Device -> Peer \cup {None}]
    BY <1>3, <2>1, Zenon DEF EnrolmentType
  <2> HIDE DEF k, d
  <2>8. PICK kk \in Code : kk = k
    BY <1>2, Zenon
  <2> QED
    BY <1>2, <1>4, <1>5, <2>2, <2>3, <2>4, <2>5, <2>6, <2>7, <2>8, PeerStep, Zenon
<1>6. CASE orphaned' = orphaned \cup {k} /\ UNCHANGED peers
  <2>1. Leaves(k) /\ k \in orphaned'
    BY <1>3, <1>4, <1>6, Zenon DEF Leaves, EnrolmentType
  <2>2. stepOf(q) = "release"
    BY <1>1, <1>2, Moved, Zenon
  <2> HIDE DEF q
  <2>3. k \notin overran => Knows(r, q, k)
    BY <1>2, <1>3, <1>4, <2>1, <2>2, Zenon DEF Knows
  <2> QED
    BY <1>1, <1>2, <1>4, <2>1, <2>3, MoveOn, Zenon DEF q
<1> QED
  BY <1>2, <1>5, <1>6, Zenon DEF Remove

\* The handler is done: its device is a peer, its code is consumed, and the relay
\* that enrolled it over HTTPS accepts its envelopes.
LEMMA ServeStep ==
  ASSUME EnrolmentInv, NEW r \in Request, Serve(r)
  PROVE  EnrolmentInv'
<1> DEFINE k == request[r].code
           d == request[r].device
           q == done(request[r], "ok")
<1>1. request[r].pc = "serve" /\ request[r].pc \notin Over /\ request[r].pc \in Working
  BY Zenon DEF Serve, at, Over, Working
<1>2. /\ RequestOK(request[r]) /\ deviceOf(r) = d /\ k \in Code /\ Works(request[r], k)
      /\ stepOf(request[r]) = "serve" /\ d \in Device
      /\ k = device[d].code /\ request[r].via = device[d].transport
  BY <1>1, WorksAt, Zenon
<1>3. UNCHANGED <<place, record, peers, device, up, overran, orphaned>>
  BY Zenon DEF Serve, code, history
<1>4. live' = IF request[r].via = "https" THEN live \cup {d} ELSE live
  BY <1>2, Zenon DEF Serve
<1>5. request' = [request EXCEPT ![r] = q]
  BY Goes, Zenon DEF Serve, Over
<1>6. /\ RequestOK(q) /\ q.pc = "ok" /\ q.device = d /\ stepOf(q) = "ok"
      /\ \A x : ~Works(q, x)
  BY <1>2, Done, Zenon
<1> HIDE DEF q
<1>7. request'[r] = q /\ (\A s \in Request : s # r => request'[s] = request[s])
      /\ request' = [s \in Request |-> IF s = r THEN q ELSE request[s]]
  BY <1>5, Changed, Zenon DEF EnrolmentInv
<1>8. EnrolmentType'
  <2>1. \A s \in Request : RequestOK(request'[s])
    BY <1>6, <1>7, Zenon DEF EnrolmentInv, EnrolmentType
  <2>2. \A s \in Request : RequestOK(request[s])'
    BY <1>3, <2>1, Zenon DEF RequestOK
  <2>3. request' = [s \in Request |-> request'[s]]
    BY <1>7, Zenon
  <2> QED
    BY <1>3, <2>2, <2>3, Zenon DEF EnrolmentInv, EnrolmentType
<1>9. \A s \in Request, x \in Code : Works(request'[s], x) => s # r /\ request'[s] = request[s]
  BY <1>6, <1>7, Zenon
<1>10. OneClaimant'
  BY <1>3, <1>9 DEF EnrolmentInv, OneClaimant, Consumed
<1>11. CommitsPeer'
  BY <1>3, <1>9 DEF EnrolmentInv, CommitsPeer, IsPeer
<1>12. PeerHasReason'
  <2>1. \A s \in Request, x \in Code, e \in Device : Added(request[s], x, e) => s # r
    BY <1>2, Zenon DEF Added
  <2> QED
    BY <1>3, <1>7, <2>1 DEF EnrolmentInv, PeerHasReason, IsPeer, Consumed, Added
<1>13. ToldIsServed'
  <2>1. \A e \in Device : Told(e)' => Told(e) \/ e = d
    BY <1>3, <1>6, <1>7, Zenon DEF Told
  <2>2. k \notin overran => Consumed(k, d)
    BY <1>2, Zenon DEF EnrolmentInv, OneClaimant
  <2>3. device[d].transport = "https" => d \in live'
    BY <1>2, <1>4, Zenon
  <2>4. live \subseteq live'
    BY <1>4, Zenon
  <2> QED
    BY <1>2, <1>3, <2>1, <2>2, <2>3, <2>4, ZenonT(30) DEF EnrolmentInv, ToldIsServed, Consumed
<1> QED
  BY <1>8, <1>10, <1>11, <1>12, <1>13, Zenon DEF EnrolmentInv

\* A handler that is killed leaves its code to whoever claims it next, and a peer
\* it had added without a reason.
LEMMA KilledStep ==
  ASSUME EnrolmentInv, NEW R \in SUBSET Request, killed(R),
         \A r \in R : request[r].pc \notin Over,
         UNCHANGED <<up, live>> \/ (up' = FALSE)
  PROVE  EnrolmentInv'
<1> DEFINE dead == [NoRequest EXCEPT !.pc = "dead"]
<1>1. UNCHANGED <<place, record, peers, device, overran>>
  BY Zenon DEF killed, code
<1>2. /\ request' = [s \in Request |-> IF s \in R THEN dead ELSE request[s]]
      /\ orphaned' = orphaned \cup {codeOf(r) : r \in {s \in R :
           request[s].added /\ step(s) \in {"commit", "commitMove", "remove"}}}
  BY Zenon DEF killed
<1>3. /\ dead.pc = "dead" /\ dead.added = FALSE /\ dead = [x \in RequestFields |-> dead[x]]
  BY Zenon DEF NoRequest, RequestFields
<1> HIDE DEF dead
<1>4. stepOf(dead) = "dead" /\ RequestOK(dead) /\ \A x : ~Works(dead, x)
  BY <1>3, Zenon DEF stepOf, RequestOK, Over, Works, Working
<1>5. \A s \in Request : request'[s] = IF s \in R THEN dead ELSE request[s]
  BY <1>2, Zenon
<1>6. EnrolmentType'
  <2>1. \A s \in Request : RequestOK(request'[s])
    BY <1>4, <1>5, Zenon DEF EnrolmentInv, EnrolmentType
  <2>2. \A s \in Request : RequestOK(request[s])'
    BY <1>1, <2>1, Zenon DEF RequestOK
  <2>3. request' = [s \in Request |-> request'[s]]
    BY <1>2, Zenon
  <2> QED
    BY <1>1, <2>2, <2>3, Zenon DEF EnrolmentInv, EnrolmentType
<1>7. \A s \in Request, x \in Code : Works(request'[s], x) => request'[s] = request[s]
  BY <1>4, <1>5, Zenon
<1>8. OneClaimant'
  BY <1>1, <1>7 DEF EnrolmentInv, OneClaimant, Consumed
<1>9. CommitsPeer'
  BY <1>1, <1>7 DEF EnrolmentInv, CommitsPeer, IsPeer
<1>10. PeerHasReason'
  <2>1. \A s \in R, x \in Code, e \in Device : Added(request[s], x, e) => x \in orphaned'
    BY <1>2, Zenon DEF Added, stepOf, step, at, codeOf
  <2>2. orphaned \subseteq orphaned'
    BY <1>2, Zenon
  <2> QED
    BY <1>1, <1>5, <2>1, <2>2 DEF EnrolmentInv, PeerHasReason, IsPeer, Consumed
<1>11. ToldIsServed'
  <2>1. \A e \in Device : Told(e)' => Told(e)
    BY <1>1, <1>3, <1>5, Zenon DEF Told
  <2> QED
    BY <1>1, <2>1, Zenon DEF EnrolmentInv, ToldIsServed, Consumed
<1> QED
  BY <1>6, <1>8, <1>9, <1>10, <1>11, Zenon DEF EnrolmentInv

-----------------------------------------------------------------------------
\* Steps that change no request.

LEMMA RevokeStep ==
  ASSUME EnrolmentInv, NEW d \in Device, Revoke(d)
  PROVE  EnrolmentInv'
<1>1. UNCHANGED <<place, record, request, device, up, live, overran, orphaned>>
  BY Zenon DEF Revoke, code, relay, history
<1>2. peers[d] # None /\ peers' = [peers EXCEPT ![d].revoked = TRUE]
  BY PeerRevoked, Zenon DEF Revoke
<1>3. peers \in [Device -> Peer \cup {None}] /\ peers[d] \in Peer
  BY <1>2, Zenon DEF EnrolmentInv, EnrolmentType
<1>4. [peers[d] EXCEPT !.revoked = TRUE] \in Peer
      /\ [peers[d] EXCEPT !.revoked = TRUE].code = peers[d].code
      /\ [peers[d] EXCEPT !.revoked = TRUE].revoked
  BY <1>3, Zenon DEF Peer
<1> DEFINE new == [peers[d] EXCEPT !.revoked = TRUE]
<1>5. peers' = [peers EXCEPT ![d] = new]
  BY <1>2, Zenon
<1>6. new \in Peer /\ new # None /\ new.code = peers[d].code /\ new.revoked
  BY <1>4, EnrolmentAssumption, Zenon
<1> HIDE DEF new
<1>7. /\ peers' \in [Device -> Peer \cup {None}]
      /\ peers'[d] = new /\ \A e \in Device : e # d => peers'[e] = peers[e]
  BY <1>3, <1>5, <1>6, Zenon
<1>8. \A e \in Device, x \in Code : IsPeer(e, x)' <=> IsPeer(e, x)
  BY <1>2, <1>6, <1>7, Zenon DEF IsPeer
<1>9. EnrolmentType'
  BY <1>1, <1>7 DEF EnrolmentInv, EnrolmentType, RequestOK
<1>10. OneClaimant'
  BY <1>1, Zenon DEF EnrolmentInv, OneClaimant, Consumed
<1>11. CommitsPeer'
  <2>1. \A r \in Request, x \in Code : Works(request[r], x) => request[r].device \in Device
    BY Zenon DEF EnrolmentInv, EnrolmentType, RequestOK, Works, Working, Over, stepOf
  <2> QED
    BY <1>1, <1>8, <2>1, Zenon DEF EnrolmentInv, CommitsPeer
<1>12. PeerHasReason'
  BY <1>1, <1>8, Zenon DEF EnrolmentInv, PeerHasReason, Consumed
<1>13. ToldIsServed'
  <2>1. \A e \in Device : Told(e)' <=> Told(e)
    BY <1>1, Zenon DEF Told
  <2>2. \A e \in Device : ~peers'[e].revoked => ~peers[e].revoked
    BY <1>6, <1>7, Zenon
  <2> QED
    BY <1>1, <2>1, <2>2, Zenon DEF EnrolmentInv, ToldIsServed, Consumed
<1> QED
  BY <1>9, <1>10, <1>11, <1>12, <1>13, Zenon DEF EnrolmentInv


\* The map of a relay that starts holds every peer whose code is consumed.
LEMMA StartStep ==
  ASSUME EnrolmentInv, Start
  PROVE  EnrolmentInv'
<1>1. UNCHANGED <<place, record, peers, request, device, overran, orphaned>>
  BY Zenon DEF Start, code, history
<1>2. EnrolmentType' /\ OneClaimant' /\ CommitsPeer' /\ PeerHasReason'
  BY <1>1 DEF EnrolmentInv, EnrolmentType, RequestOK, OneClaimant, CommitsPeer, PeerHasReason,
     Consumed, IsPeer
<1>3. ToldIsServed'
  <2>1. \A e \in Device : Told(e)' <=> Told(e)
    BY <1>1, Zenon DEF Told
  <2>2. \A e \in Device : Told(e) /\ device[e].code \notin overran => peers[e] # None
    BY DEF EnrolmentInv, ToldIsServed, CommitsPeer, Consumed, IsPeer
  <2>3. \A e \in Device : peers[e] # None /\ ~peers[e].revoked => e \in live'
    BY Zenon DEF Start, configuredRelayPeer
  <2> QED
    BY <1>1, <2>1, <2>2, <2>3, Zenon DEF EnrolmentInv, ToldIsServed, Consumed
<1> QED
  BY <1>2, <1>3, Zenon DEF EnrolmentInv

\* A new code, the end of a lease, and what the invariant does not mention.
LEMMA CodeStep ==
  ASSUME EnrolmentInv, UNCHANGED <<peers, request, device, up, live, overran, orphaned>>,
         place' \in [Code -> {"none", "pending", "inflight", "history"}],
         record' \in [Code -> RecordType],
         \A k \in Code : IF place[k] = "none" THEN place'[k] # "history" ELSE place'[k] = place[k],
         \A k \in Code : record'[k].peer = record[k].peer
  PROVE  EnrolmentInv'
<1>1. EnrolmentType'
  BY DEF EnrolmentInv, EnrolmentType, RequestOK
<1>2. \A k \in Code, d \in Device : Consumed(k, d)' <=> Consumed(k, d)
  BY Zenon DEF Consumed
<1>3. OneClaimant'
  <2>1. \A k \in Code : place[k] \in {"pending", "inflight"} => place'[k] = place[k]
    OBVIOUS
  <2>2. \A k \in Code, r \in Request : Works(request[r], k) => request[r].device \in Device
    BY SMTT(30), SMTT(30) DEF EnrolmentInv, EnrolmentType, RequestOK, Works, Working, Over, stepOf
  <2> QED
    BY <1>2, <2>1, <2>2, Zenon DEF EnrolmentInv, OneClaimant
<1>4. CommitsPeer'
  BY DEF EnrolmentInv, CommitsPeer, IsPeer
<1>5. PeerHasReason'
  BY <1>2, Zenon DEF EnrolmentInv, PeerHasReason, IsPeer
<1>6. ToldIsServed'
  BY <1>2, Zenon DEF EnrolmentInv, ToldIsServed, Told
<1> QED
  BY <1>1, <1>3, <1>4, <1>5, <1>6, Zenon DEF EnrolmentInv

LEMMA WorldStep ==
  ASSUME EnrolmentInv,
         \/ \E k \in Code : Create(k) \/ Expire(k) \/ LeaseEnds(k) \/ LockAges(k)
         \/ \E d \in Device : runRelayConnectorAdd(d) \/ runRelayConnectorRemove(d)
         \/ runRelayConfigure
         \/ UNCHANGED vars
  PROVE  EnrolmentInv'
<1>0. /\ place \in [Code -> {"none", "pending", "inflight", "history"}]
      /\ record \in [Code -> RecordType]
  BY Zenon DEF EnrolmentInv, EnrolmentType
<1>1. ASSUME NEW k \in Code, Create(k) PROVE EnrolmentInv'
  <2>1. /\ UNCHANGED <<peers, request, device, up, live, overran, orphaned, record>>
        /\ place[k] = "none" /\ place' = [place EXCEPT ![k] = "pending"]
    BY <1>1, Zenon DEF Create, relay, history
  <2> QED
    BY <1>0, <2>1, CodeStep, Zenon
<1>2. ASSUME NEW k \in Code, LeaseEnds(k) PROVE EnrolmentInv'
  <2>1. /\ UNCHANGED <<peers, request, device, up, live, overran, orphaned, place>>
        /\ record' = [record EXCEPT ![k].leased = FALSE]
    BY <1>2, Zenon DEF LeaseEnds, relay, history
  <2> DEFINE new == [record[k] EXCEPT !.leased = FALSE]
  <2>2. record' = [record EXCEPT ![k] = new]
    BY <2>1, Zenon
  <2>3. new \in RecordType /\ new.peer = record[k].peer
    BY <1>0, Zenon DEF RecordType
  <2> HIDE DEF new
  <2>4. record' \in [Code -> RecordType] /\ \A x \in Code : record'[x].peer = record[x].peer
    BY <1>0, <2>2, <2>3, Zenon
  <2> QED
    BY <1>0, <2>1, <2>4, CodeStep, Zenon
<1>3. CASE UNCHANGED <<place, record, peers, request, device, up, live, overran, orphaned>>
  BY <1>0, <1>3, CodeStep, Zenon
<1> QED
  BY <1>1, <1>2, <1>3, Zenon DEF Expire, LockAges, runRelayConnectorAdd, runRelayConnectorRemove,
     runRelayConfigure, vars, code, relay, history

-----------------------------------------------------------------------------
\* The steps of devices.  A device that has chosen a code keeps it and its
\* transport, which every request of it carries; a free request may begin.

LEMMA DeviceStep ==
  ASSUME EnrolmentInv, UNCHANGED <<place, record, peers, up, live, overran, orphaned>>,
         NEW d \in Device, NEW p \in PairingType, device' = [device EXCEPT ![d] = p],
         \/ device[d].pc \in {"none", "idle"} /\ p.pc # "paired"
         \/ p.code = device[d].code /\ p.transport = device[d].transport,
         p.pc = "paired" => Told(d), p.pc \in {"waiting", "paired"} => p.key,
         p.pc \in {"none", "idle"} => p.code = None,
         request' = [s \in Request |-> request'[s]],
         \A s \in Request :
           \/ request'[s] = request[s]
           \/ request[s].pc = "free" /\ request'[s].pc = "claim" /\ RequestOK(request[s])'
  PROVE  EnrolmentInv'
<1>1. device'[d] = p /\ \A e \in Device : e # d => device'[e] = device[e]
  BY Zenon DEF EnrolmentInv, EnrolmentType
<1>2. device[d].pc \in {"none", "idle"} => device[d].code \notin Code
  BY EnrolmentAssumption, Zenon DEF EnrolmentInv, EnrolmentType
<1>3. \A s \in Request, x \in Code : Works(request'[s], x) => request'[s] = request[s]
  BY Zenon DEF Works, Working, stepOf
<1>4. EnrolmentType'
  <2>1. ASSUME NEW s \in Request, request'[s] = request[s]
        PROVE  RequestOK(request[s])'
    <3>1. RequestOK(request[s])
      BY Zenon DEF EnrolmentInv, EnrolmentType
    <3>2. ASSUME request[s].pc \notin Over
          PROVE  /\ request[s].code = device'[request[s].device].code
                 /\ request[s].via = device'[request[s].device].transport
      BY <1>1, <1>2, <3>1, <3>2 DEF RequestOK
    <3> QED
      BY <2>1, <3>1, <3>2 DEF RequestOK
  <2>2. \A s \in Request : RequestOK(request[s])'
    BY <2>1, Zenon
  <2>3. device' \in [Device -> PairingType]
    BY Zenon DEF EnrolmentInv, EnrolmentType
  <2>4. \A e \in Device : device'[e].pc \in {"none", "idle"} => device'[e].code = None
    BY <1>1, Zenon DEF EnrolmentInv, EnrolmentType
  <2> QED
    BY <2>2, <2>3, <2>4, Zenon DEF EnrolmentInv, EnrolmentType
<1>5. OneClaimant'
  BY <1>3 DEF EnrolmentInv, OneClaimant, Consumed
<1>6. CommitsPeer'
  BY <1>3 DEF EnrolmentInv, CommitsPeer, IsPeer
<1>7. PeerHasReason'
  <2>1. \A s \in Request, x \in Code, e \in Device :
          Added(request[s], x, e) => request'[s] = request[s]
    BY Zenon DEF Added, stepOf
  <2> QED
    BY <2>1 DEF EnrolmentInv, PeerHasReason, IsPeer, Consumed
<1>8. ToldIsServed'
  <2>1. \A e \in Device : Told(e)' => Told(e)
    BY <1>1 DEF Told
  <2>2. Told(d) => device[d].code \in Code
    BY Zenon DEF EnrolmentInv, ToldIsServed
  <2>3. Told(d) => p.code = device[d].code /\ p.transport = device[d].transport
    BY <1>2, <2>2, Zenon
  <2>4. /\ p.pc \in {"waiting", "paired"} => p.key
        /\ Told(d)' => p.code \in Code
        /\ Told(d)' /\ p.code \notin overran =>
             /\ Consumed(p.code, d)
             /\ p.transport = "https" /\ up /\ ~peers[d].revoked => d \in live
    BY <2>1, <2>2, <2>3, Zenon DEF EnrolmentInv, ToldIsServed
  <2>5. \A e \in Device : e # d =>
          /\ device[e].pc \in {"waiting", "paired"} => device[e].key
          /\ Told(e)' => device[e].code \in Code
          /\ Told(e)' /\ device[e].code \notin overran =>
               /\ Consumed(device[e].code, e)
               /\ device[e].transport = "https" /\ up /\ ~peers[e].revoked => e \in live
    BY <2>1, Zenon DEF EnrolmentInv, ToldIsServed
  <2> QED
    BY <1>1, <2>4, <2>5 DEF ToldIsServed, Consumed
<1> QED
  BY <1>4, <1>5, <1>6, <1>7, <1>8, Zenon DEF EnrolmentInv


LEMMA PairingChanges ==
  ASSUME EnrolmentInv, NEW d \in Device, UNCHANGED request,
         UNCHANGED <<place, record, peers, up, live, overran, orphaned>>,
         NEW p \in PairingType, device' = [device EXCEPT ![d] = p],
         \/ device[d].pc \in {"none", "idle"} /\ p.pc # "paired"
         \/ p.code = device[d].code /\ p.transport = device[d].transport,
         p.pc = "paired" => Told(d), p.pc \in {"waiting", "paired"} => p.key,
         p.pc \in {"none", "idle"} => p.code = None
  PROVE  EnrolmentInv'
<1>1. request' = [s \in Request |-> request'[s]]
  BY Zenon DEF EnrolmentInv, EnrolmentType
<1>2. \A s \in Request : request'[s] = request[s]
  OBVIOUS
<1> QED
  BY <1>1, <1>2, DeviceStep, Zenon

LEMMA PairingStep ==
  ASSUME EnrolmentInv, NEW d \in Device,
         \/ runRemoteConfigure(d) \/ GivesUp(d)
         \/ \E k \in Code : Pair(d, k)
         \/ \E r \in Request : Answered(d, r) \/ Decided(d, r)
  PROVE  EnrolmentInv'
<1>0. /\ UNCHANGED request /\ UNCHANGED <<place, record, peers, up, live, overran, orphaned>>
      /\ device[d] \in PairingType
      /\ device[d].pc \in {"none", "idle"} => device[d].code = None
      /\ device[d].pc = "waiting" => device[d].key
  BY Zenon DEF runRemoteConfigure, GivesUp, Pair, Answered, Decided, code, relay, history,
     EnrolmentInv, EnrolmentType, ToldIsServed
<1>1. CASE runRemoteConfigure(d)
  <2>1. PICK t \in {"https", "stdio"} :
          /\ device[d].pc = "none"
          /\ device' = [device EXCEPT ![d].pc = "idle", ![d].transport = t]
    BY <1>1, Zenon DEF runRemoteConfigure, CreateRemote
  <2> DEFINE p == [device[d] EXCEPT !.pc = "idle", !.transport = t]
  <2>2. device' = [device EXCEPT ![d] = p]
    BY <2>1, Zenon DEF EnrolmentInv, EnrolmentType
  <2>3. p \in PairingType /\ p.pc = "idle" /\ p.code = device[d].code
    BY <1>0, Zenon DEF PairingType
  <2> HIDE DEF p
  <2> QED
    BY <1>0, <2>1, <2>2, <2>3, PairingChanges, ZenonT(30)
<1>2. ASSUME device[d].pc = "waiting", device' = fails(d)
      PROVE  EnrolmentInv'
  <2> DEFINE p == Delete([device[d] EXCEPT !.pc = "failed"])
  <2>1. device' = [device EXCEPT ![d] = p]
    BY <1>2, Zenon DEF fails
  <2>2. p \in PairingType /\ p.pc = "failed" /\ p.code = device[d].code
        /\ p.transport = device[d].transport
    BY <1>0, Zenon DEF PairingType, Delete
  <2> HIDE DEF p
  <2> QED
    BY <1>0, <2>1, <2>2, PairingChanges, Zenon
<1>3. ASSUME NEW k \in Code, Pair(d, k)
      PROVE  EnrolmentInv'
  <2> DEFINE p == Put([device[d] EXCEPT !.pc = "waiting", !.code = k])
  <2>1. device[d].pc = "idle" /\ device' = [device EXCEPT ![d] = p]
    BY <1>3, Zenon DEF Pair, waits
  <2>2. p \in PairingType /\ p.pc = "waiting" /\ p.key
    BY <1>0, Zenon DEF PairingType, Put
  <2> HIDE DEF p
  <2> QED
    BY <1>0, <2>1, <2>2, PairingChanges, Zenon
<1>4. ASSUME NEW r \in Request, at(r, "ok"), deviceOf(r) = d, device[d].pc = "waiting",
             NEW pc \in {"paired", "failed"}, device' = [device EXCEPT ![d].pc = pc]
      PROVE  EnrolmentInv'
  <2> DEFINE p == [device[d] EXCEPT !.pc = pc]
  <2>1. device' = [device EXCEPT ![d] = p]
    BY <1>4, Zenon
  <2>2. p \in PairingType /\ p.pc = pc /\ p.code = device[d].code
        /\ p.transport = device[d].transport /\ p.key = device[d].key
    BY <1>0, Zenon DEF PairingType
  <2>3. Told(d)
    BY <1>4, Zenon DEF Told, at, deviceOf
  <2> HIDE DEF p
  <2> QED
    BY <1>0, <1>4, <2>1, <2>2, <2>3, PairingChanges, Zenon
<1> QED
  BY <1>1, <1>2, <1>3, <1>4, Zenon DEF GivesUp, Answered, Decided

\* A request begins with the device and the code it was sent with.
LEMMA Begins ==
  ASSUME EnrolmentInv, NEW r \in Request, request[r].pc = "free",
         NEW d \in Device, NEW k \in Code, NEW via,
         k = device'[d].code, via = device'[d].transport,
         request' = [request EXCEPT ![r].pc = "claim", ![r].device = d, ![r].code = k,
                                    ![r].via = via]
  PROVE  /\ request' = [s \in Request |-> request'[s]]
         /\ \A s \in Request :
              \/ request'[s] = request[s]
              \/ request[s].pc = "free" /\ request'[s].pc = "claim" /\ RequestOK(request[s])'
<1> DEFINE q == [request[r] EXCEPT !.pc = "claim", !.device = d, !.code = k, !.via = via]
<1>1. RequestOK(request[r]) /\ request = [s \in Request |-> request[s]]
  BY Zenon DEF EnrolmentInv, EnrolmentType
<1>2. request' = [request EXCEPT ![r] = q]
  BY <1>1, Zenon
<1>3. /\ q = [x \in RequestFields |-> q[x]] /\ q.pc = "claim" /\ q.device = d /\ q.code = k
      /\ q.via = via /\ q.added = FALSE
  BY <1>1, Zenon DEF RequestOK, RequestFields, Over
<1> HIDE DEF q
<1>4. /\ request' = [s \in Request |-> IF s = r THEN q ELSE request[s]]
      /\ request'[r] = q /\ \A s \in Request : s # r => request'[s] = request[s]
  BY <1>2, Changed, Zenon DEF EnrolmentInv
<1>5. RequestOK(request[r])'
  BY <1>3, <1>4, Zenon DEF RequestOK, Over, Working, stepOf
<1>6. ASSUME NEW s \in Request
      PROVE  \/ request'[s] = request[s]
             \/ request[s].pc = "free" /\ request'[s].pc = "claim" /\ RequestOK(request[s])'
  <2>1. CASE s = r
    BY <1>3, <1>4, <1>5, <2>1, Zenon
  <2>2. CASE s # r
    BY <1>4, <2>2, Zenon
  <2> QED
    BY <2>1, <2>2, Zenon
<1>7. request' = [s \in Request |-> request'[s]]
  BY <1>4, Zenon
<1> QED
  BY <1>6, <1>7, Zenon

LEMMA ConnectorPairStep ==
  ASSUME EnrolmentInv, NEW r \in Request, NEW d \in Device, NEW k \in Code,
         ConnectorPair(r, d, k)
  PROVE  EnrolmentInv'
<1> DEFINE p == Put([device[d] EXCEPT !.pc = "waiting", !.code = k])
<1>0. device \in [Device -> PairingType]
  BY Zenon DEF EnrolmentInv, EnrolmentType
<1>1. /\ device[d].pc = "idle" /\ device[d].transport = "stdio"
      /\ device' = [device EXCEPT ![d] = p]
  BY Zenon DEF ConnectorPair, waits
<1>2. p \in PairingType /\ p.pc = "waiting" /\ p.key /\ p.code = k /\ p.transport = "stdio"
  BY <1>0, <1>1, Zenon DEF PairingType, Put
<1> HIDE DEF p
<1>3. k = device'[d].code /\ "stdio" = device'[d].transport
  BY <1>0, <1>1, <1>2, Zenon
<1>4. /\ request[r].pc = "free"
      /\ request' = [request EXCEPT ![r].pc = "claim", ![r].device = d, ![r].code = k,
                                    ![r].via = "stdio"]
      /\ UNCHANGED <<place, record, peers, up, live, overran, orphaned>>
  BY Zenon DEF ConnectorPair, pairStdio, at, code, relay, history
<1>5. /\ request' = [s \in Request |-> request'[s]]
      /\ \A s \in Request :
           \/ request'[s] = request[s]
           \/ request[s].pc = "free" /\ request'[s].pc = "claim" /\ RequestOK(request[s])'
  BY <1>3, <1>4, Begins, Zenon
<1> QED
  BY <1>1, <1>2, <1>4, <1>5, DeviceStep, Zenon

LEMMA ReceiveStep ==
  ASSUME EnrolmentInv, NEW r \in Request, NEW d \in Device, Receive(r, d)
  PROVE  EnrolmentInv'
<1>0. /\ device \in [Device -> PairingType]
      /\ device[d].pc \in {"waiting", "paired"} => device[d].key
      /\ device[d].pc \in {"none", "idle"} => device[d].code = None
      /\ device[d].pc = "paired" => Told(d)
  BY Zenon DEF EnrolmentInv, EnrolmentType, ToldIsServed, Told
<1>1. PICK k \in Code : k = device[d].code
  <2>1. device[d] \in PairingType /\ device[d].code # None
    BY <1>0, Zenon DEF Receive
  <2> QED
    BY <2>1, Zenon DEF PairingType
<1>2. UNCHANGED <<place, record, peers, up, live, overran, orphaned>> /\ UNCHANGED device
      /\ device[d].transport = "https" /\ request[r].pc = "free"
      /\ request' = [request EXCEPT ![r].pc = "claim", ![r].device = d, ![r].code = k,
                                    ![r].via = "https"]
  BY <1>1, Zenon DEF Receive, at, code, relay, history
<1>3. /\ request' = [s \in Request |-> request'[s]]
      /\ \A s \in Request :
           \/ request'[s] = request[s]
           \/ request[s].pc = "free" /\ request'[s].pc = "claim" /\ RequestOK(request[s])'
  <2>1. k = device'[d].code /\ "https" = device'[d].transport
    BY <1>1, <1>2, Zenon
  <2> QED
    BY <1>2, <2>1, Begins, Zenon
<1> DEFINE p == device[d]
<1>4. p \in PairingType /\ device' = [device EXCEPT ![d] = p]
  BY <1>0, <1>2, Zenon
<1>5. /\ p.code = device[d].code /\ p.transport = device[d].transport
      /\ p.pc = "paired" => Told(d)
      /\ p.pc \in {"waiting", "paired"} => p.key
      /\ p.pc \in {"none", "idle"} => p.code = None
  BY <1>0, Zenon
<1>6. UNCHANGED <<place, record, peers, up, live, overran, orphaned>>
  BY <1>2, Zenon
<1> HIDE DEF p
<1> QED
  BY <1>3, <1>4, <1>5, <1>6, DeviceStep, Zenon


-----------------------------------------------------------------------------
LEMMA EnrolmentInit == Init => EnrolmentInv
<1> SUFFICES ASSUME Init PROVE EnrolmentInv
  OBVIOUS
<1>1. /\ \A r \in Request : request[r] = NoRequest
      /\ \A d \in Device : device[d] = NoPairing /\ peers[d] = None
      /\ \A k \in Code : place[k] = "none"
  BY Zenon DEF Init
<1>2. /\ NoRequest.pc = "free" /\ NoRequest.added = FALSE
      /\ NoRequest = [x \in RequestFields |-> NoRequest[x]]
  BY Zenon DEF NoRequest, RequestFields
<1>3. stepOf(NoRequest) = "free" /\ RequestOK(NoRequest) /\ \A k : ~Works(NoRequest, k)
  BY <1>2, Zenon DEF stepOf, RequestOK, Over, Works, Working
<1>4. EnrolmentType
  <2>1. Unclaimed \in RecordType /\ NoPairing \in PairingType
        /\ NoPairing.pc = "none" /\ NoPairing.code = None
    BY Zenon DEF Unclaimed, RecordType, NoPairing, PairingType
  <2> QED
    BY <1>1, <1>3, <2>1, Zenon DEF Init, EnrolmentType
<1>5. OneClaimant /\ CommitsPeer /\ PeerHasReason
  BY <1>1, <1>3, Zenon DEF OneClaimant, CommitsPeer, PeerHasReason, IsPeer
<1>6. ToldIsServed
  BY <1>1, <1>2 DEF ToldIsServed, Told, NoPairing
<1> QED
  BY <1>4, <1>5, <1>6, Zenon DEF EnrolmentInv

LEMMA EnrolmentNext == EnrolmentInv /\ [Next]_vars => EnrolmentInv'
<1> SUFFICES ASSUME EnrolmentInv, [Next]_vars PROVE EnrolmentInv'
  OBVIOUS
<1>1. ASSUME NEW r \in Request, Handle(r) PROVE EnrolmentInv'
  BY <1>1, ReceiveStep, ClaimStep, ClaimMoveStep, PolicyStep, AddStep, CommitStep,
     CommitMoveStep, RemoveStep, ReleaseStep, ReleaseMoveStep, ServeStep, GivesUpLockStep,
     StaleLockStep, Zenon DEF Handle
<1>2. ASSUME NEW r \in Request, KillPairing(r) PROVE EnrolmentInv'
  <2>1. {r} \in SUBSET Request /\ killed({r}) /\ UNCHANGED <<up, live>>
        /\ \A s \in {r} : request[s].pc \notin Over
    BY <1>2, Zenon DEF KillPairing, running
  <2> QED
    BY <2>1, KilledStep, Zenon
<1>3. ASSUME Crash PROVE EnrolmentInv'
  <2> DEFINE R == running("https")
  <2>1. R \in SUBSET Request /\ killed(R) /\ up' = FALSE
        /\ \A s \in R : request[s].pc \notin Over
    BY <1>3, Zenon DEF Crash, running
  <2> HIDE DEF R
  <2> QED
    BY <2>1, KilledStep, Zenon
<1>4. ASSUME NEW d \in Device,
             \/ runRemoteConfigure(d) \/ GivesUp(d) \/ Revoke(d)
             \/ \E k \in Code : Pair(d, k) \/ \E r \in Request : ConnectorPair(r, d, k)
             \/ \E r \in Request : Answered(d, r) \/ Decided(d, r)
      PROVE  EnrolmentInv'
  BY <1>4, PairingStep, RevokeStep, ConnectorPairStep, Zenon
<1>5. CASE Start
  BY <1>5, StartStep, Zenon
<1> QED
  BY <1>1, <1>2, <1>3, <1>4, <1>5, WorldStep, Zenon DEF Next

LEMMA EnrolmentIsInvariant == EnrolmentSpec => []EnrolmentInv
BY EnrolmentInit, EnrolmentNext, PTL DEF EnrolmentSpec

-----------------------------------------------------------------------------
LEMMA PeerIsAlone == EnrolmentInv => OnePeerPerCode
<1> SUFFICES ASSUME EnrolmentInv, NEW k \in Code \ (overran \cup orphaned)
             PROVE  Cardinality({d \in Device : peers[d] # None /\ peers[d].code = k}) <= 1
  BY Zenon DEF OnePeerPerCode
<1> DEFINE S == {d \in Device : peers[d] # None /\ peers[d].code = k}
<1>1. \A r \in Request, d \in Device : Added(request[r], k, d) =>
        Works(request[r], k) /\ stepOf(request[r]) # "serve" /\ request[r].device = d
  BY Zenon DEF Added, Works, Working
<1>2. ASSUME NEW d \in S, NEW e \in S
      PROVE  d = e
  <2>1. /\ Consumed(k, d) \/ \E r \in Request : Added(request[r], k, d)
        /\ Consumed(k, e) \/ \E r \in Request : Added(request[r], k, e)
    BY Zenon DEF EnrolmentInv, PeerHasReason, IsPeer
  <2>2. \A r, s \in Request : Works(request[r], k) /\ Works(request[s], k) => r = s
    BY Zenon DEF EnrolmentInv, OneClaimant
  <2>3. \A r \in Request : Works(request[r], k) /\ stepOf(request[r]) # "serve" =>
          place[k] # "history"
    BY Zenon DEF EnrolmentInv, OneClaimant
  <2> QED
    BY <1>1, <2>1, <2>2, <2>3 DEF Consumed
<1> HIDE DEF S
<1>3. CASE S = {}
  BY <1>3, FS_EmptySet DEF S
<1>4. ASSUME NEW d \in S PROVE Cardinality(S) <= 1
  <2>1. S = {d}
    BY <1>2, Zenon
  <2> QED
    BY <2>1, FS_Singleton
<1> QED
  BY <1>3, <1>4, Zenon DEF S

(***************************************************************************)
(* OnePeerPerCode, for every number of devices and of handlers at once: a  *)
(* code makes at most one peer of relay.json, whatever enroll is           *)
(* interrupted by, unless a claimant of the code was overrun or a peer was *)
(* left by a handler that could not know of it.                            *)
(***************************************************************************)
THEOREM CodeMakesOnePeer == EnrolmentSpec => []OnePeerPerCode
BY EnrolmentIsInvariant, PeerIsAlone, PTL

(***************************************************************************)
(* ConsumedIsEnrolled: the commit of a code (pairing.go) is never ahead of *)
(* relay.json, and no roll-back of enroll takes the peer of a consumed     *)
(* code away.                                                              *)
(***************************************************************************)
THEOREM ConsumedCodeIsEnrolled == EnrolmentSpec => []ConsumedIsEnrolled
<1>1. EnrolmentInv => ConsumedIsEnrolled
  <2> SUFFICES ASSUME EnrolmentInv, NEW k \in Code \ overran, place[k] = "history"
               PROVE  LET d == record[k].peer IN d # None /\ peers[d] # None /\ peers[d].code = k
    BY Zenon DEF ConsumedIsEnrolled
  <2>1. record[k].peer \in Device /\ IsPeer(record[k].peer, k)
    BY Zenon DEF EnrolmentInv, CommitsPeer
  <2> QED
    BY <2>1, EnrolmentAssumption, Zenon DEF IsPeer
<1> QED
  BY <1>1, EnrolmentIsInvariant, PTL

(***************************************************************************)
(* PairedIsServed: a device that `remote pair` told it is paired has its   *)
(* key, is in relay.json and, over HTTPS, in the map of the running relay, *)
(* whatever restarts, revocations and other pairings come between.         *)
(***************************************************************************)
THEOREM PairedDeviceIsServed == EnrolmentSpec => []PairedIsServed
<1>1. EnrolmentInv => PairedIsServed
  <2> SUFFICES ASSUME EnrolmentInv, NEW d \in Device, device[d].pc = "paired",
                      device[d].code \notin overran
               PROVE  /\ device[d].key /\ peers[d] # None
                      /\ device[d].transport = "https" /\ up /\ ~peers[d].revoked => d \in live
    BY Zenon DEF PairedIsServed
  <2>1. Told(d)
    BY Zenon DEF Told
  <2>2. /\ device[d].key /\ device[d].code \in Code /\ Consumed(device[d].code, d)
        /\ device[d].transport = "https" /\ up /\ ~peers[d].revoked => d \in live
    BY <2>1, Zenon DEF EnrolmentInv, ToldIsServed
  <2>3. peers[d] # None
    BY <2>2 DEF EnrolmentInv, CommitsPeer, Consumed, IsPeer
  <2> QED
    BY <2>2, <2>3, Zenon
<1> QED
  BY <1>1, EnrolmentIsInvariant, PTL

=============================================================================
