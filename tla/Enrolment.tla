------------------------------ MODULE Enrolment ------------------------------
(***************************************************************************)
(* How a device becomes a peer of a relay.  `relay bind` creates a code; a *)
(* device makes a key and sends its public part, over HTTPS to the relay   *)
(* together with the code (`remote pair`, app/remote.go), or over stdio to *)
(* the command that started it through a host connector (`relay connector  *)
(* pair`, app/relay_connector.go).  The relay or that command claims the   *)
(* code (relay/pairing.go), adds the peer to relay.json (remoteconfig/     *)
(* peers.go) and commits the code (enroll, app/relay.go).  The claim, the  *)
(* commit and the release of a code are two file operations each, a        *)
(* rewrite and a rename, under the code's lock.                            *)
(*                                                                         *)
(* A peer is named by its device: its ID is the hash of the public key.    *)
(* The revision of relay.json is the hash of its contents: here, they.     *)
(* The lock of relay.json is held for one read and one write, so a change  *)
(* of it is one step.                                                      *)
(***************************************************************************)
EXTENDS Naturals, FiniteSets, StorageLock

CONSTANTS
  Code,        \* pairing codes
  Device,      \* devices, each with one key and one `remote pair`
  Request,     \* handlers of the relay and pairing commands, each for one request
  None,
  MaxFaults,   \* bound: calls that fail
  MaxKills     \* bound: crashes of the relay and of pairing commands

\* What relay.json holds of a peer.
Peer == [code : Code, revoked : BOOLEAN]

ASSUME EnrolmentAssumption ==
  /\ MaxFaults \in Nat /\ MaxKills \in Nat
  /\ None \notin Code \cup Device \cup Request \cup Peer \cup [Device -> Peer \cup {None}]

VARIABLES
  place,      \* per code: the directory its record is in
  record,     \* per code: who has claimed it, whether the lease runs, its peer
  expired,    \* codes whose lifetime is over
  lock,       \* per code: its lock file
  peers,      \* relay.json: per device None, or its code and whether revoked
  configured, \* there is a relay.json
  connectors, \* host-connectors.json: the devices the host can start a command on
  up,         \* the relay is running
  live,       \* the peers the running relay accepts envelopes from
  request,    \* per handler: where it is and its variables
  device,     \* per device: where its `remote pair` is, and its key
  overran,    \* history: codes claimed again while an earlier claimant ran on,
              \* its lease over, its commit failed half-way or its lock stolen
  orphaned,   \* history: codes of which a peer was saved by a handler that was
              \* killed, or was told that saving it had failed
  faults, kills

code == <<place, record, lock>>
history == <<overran, orphaned, faults, kills>>
relay == <<up, live, configured, connectors>>
vars == <<code, expired, peers, relay, request, device, history>>

Unclaimed == [claim |-> None, leased |-> FALSE, peer |-> None]
NoRequest == [pc |-> "free", device |-> None, code |-> None, via |-> None,
              added |-> FALSE, revision |-> None, from |-> None, then |-> None]
NoPairing == [pc |-> "none", code |-> None, transport |-> None, key |-> FALSE]

Init ==
  /\ place = [k \in Code |-> "none"] /\ record = [k \in Code |-> Unclaimed]
  /\ expired = {} /\ lock = [k \in Code |-> NoLock]
  /\ peers = [d \in Device |-> None] /\ configured = FALSE /\ connectors = {}
  /\ up = FALSE /\ live = {}
  /\ request = [r \in Request |-> NoRequest]
  /\ device = [d \in Device |-> NoPairing]
  /\ overran = {} /\ orphaned = {} /\ faults = 0 /\ kills = 0

at(r, pc) == request[r].pc = pc
codeOf(r) == request[r].code
deviceOf(r) == request[r].device
Over == {"free", "ok", "error", "dead"}
\* A handler that has ended keeps nothing but whom it answers.
ended(r, pc) == [NoRequest EXCEPT !.pc = pc, !.device = deviceOf(r)]
goes(r, pc) ==
  request' = [request EXCEPT ![r] = IF pc \in Over THEN ended(r, pc)
                                    ELSE [@ EXCEPT !.pc = pc]]
Fault == faults < MaxFaults /\ faults' = faults + 1

-----------------------------------------------------------------------------
\* relay bind: an exclusive write of a new pending record.
Create(k) ==
  /\ place[k] = "none"
  /\ place' = [place EXCEPT ![k] = "pending"]
  /\ UNCHANGED <<record, lock, expired, peers, relay, request, device, history>>

Expire(k) ==
  /\ place[k] \in {"pending", "inflight"} /\ k \notin expired
  /\ expired' = expired \cup {k}
  /\ UNCHANGED <<code, peers, relay, request, device, history>>

\* The two minutes of a lease pass.
LeaseEnds(k) ==
  /\ record[k].leased
  /\ record' = [record EXCEPT ![k].leased = FALSE]
  /\ UNCHANGED <<place, lock, expired, peers, relay, request, device, history>>

-----------------------------------------------------------------------------
\* The configuration: each file is created once, under its lock.

Initialize == ~configured /\ configured' = TRUE
CreateRemote(d, transport) ==
  /\ device[d].pc = "none"
  /\ device' = [device EXCEPT ![d].pc = "idle", ![d].transport = transport]
\* One identity has one connector.
mutate(registry) == connectors' = registry
addConnector(d) == d \notin connectors /\ mutate(connectors \cup {d})
removeConnector(d) == d \in connectors /\ mutate(connectors \ {d})

runRelayConfigure ==
  /\ Initialize
  /\ UNCHANGED <<code, expired, peers, up, live, connectors, request, device, history>>

runRemoteConfigure(d) ==
  /\ \E transport \in {"https", "stdio"} : CreateRemote(d, transport)
  /\ UNCHANGED <<code, expired, peers, relay, request, history>>

runRelayConnectorAdd(d) ==
  /\ addConnector(d)
  /\ UNCHANGED <<code, expired, peers, up, live, configured, request, device, history>>

runRelayConnectorRemove(d) ==
  /\ removeConnector(d)
  /\ UNCHANGED <<code, expired, peers, up, live, configured, request, device, history>>

-----------------------------------------------------------------------------
\* The key of a device (secretstore), in its record.
Get(d) == device[d].key
Put(pairing) == [pairing EXCEPT !.key = TRUE]
Delete(pairing) == [pairing EXCEPT !.key = FALSE]

\* The key is stored before anything is sent; a key that exists is an error.
waits(d, k) == [device EXCEPT ![d] = Put([@ EXCEPT !.pc = "waiting", !.code = k])]
fails(d) == [device EXCEPT ![d] = Delete([@ EXCEPT !.pc = "failed"])]

\* remote pair: the device posts the code and the public key.
Pair(d, k) ==
  /\ device[d].pc = "idle" /\ device[d].transport = "https" /\ ~Get(d)
  /\ place[k] # "none"
  /\ device' = waits(d, k)
  /\ UNCHANGED <<code, expired, peers, relay, request, history>>

\* The command starts `remote pair --stdio` on the device and reads its hello with
\* the public key; the device never sees the code.
pairStdio(r, d, k) ==
  request' = [request EXCEPT ![r].pc = "claim", ![r].device = d, ![r].code = k,
                             ![r].via = "stdio"]

\* relay connector pair.
ConnectorPair(r, d, k) ==
  /\ at(r, "free") /\ d \in connectors
  /\ device[d].pc = "idle" /\ device[d].transport = "stdio" /\ ~Get(d)
  /\ place[k] # "none"
  /\ device' = waits(d, k)
  /\ pairStdio(r, d, k)
  /\ UNCHANGED <<code, expired, peers, relay, history>>

\* The answer of a handler.  A device refuses a policy that is not its own: over
\* HTTPS it keeps the key for recovery ...
Answered(d, r) ==
  /\ device[d].pc = "waiting" /\ device[d].transport = "https" /\ deviceOf(r) = d
  /\ \/ at(r, "ok") /\ device' = [device EXCEPT ![d].pc = "paired"]
     \/ at(r, "ok") /\ device' = [device EXCEPT ![d].pc = "failed"]
     \/ at(r, "error") /\ device' = fails(d)
  /\ UNCHANGED <<code, expired, peers, relay, request, history>>

\* ... and over stdio it does not.
Decided(d, r) ==
  /\ device[d].pc = "waiting" /\ device[d].transport = "stdio" /\ deviceOf(r) = d
  /\ \/ at(r, "ok") /\ device' = [device EXCEPT ![d].pc = "paired"]
     \/ at(r, "ok") /\ device' = fails(d)
     \/ at(r, "error") /\ device' = fails(d)
  /\ UNCHANGED <<code, expired, peers, relay, request, history>>

\* The answer is lost or late, or the user interrupts: the key is deleted.
GivesUp(d) ==
  /\ device[d].pc = "waiting"
  /\ device' = fails(d)
  /\ UNCHANGED <<code, expired, peers, relay, request, history>>

-----------------------------------------------------------------------------
\* enroll, in the relay or in a pairing command.

\* The relay receives a request, which may arrive twice, and late.
Receive(r, d) ==
  /\ up /\ at(r, "free")
  /\ device[d].transport = "https" /\ device[d].code # None
  /\ request' = [request EXCEPT ![r].pc = "claim", ![r].device = d,
                                ![r].code = device[d].code, ![r].via = "https"]
  /\ UNCHANGED <<code, expired, peers, relay, device, history>>

\* acquireStorageLock: a handler that finds the code locked waits or gives up.
Locks(r) == ~isHeld(lock, codeOf(r)) /\ lock' = created(lock, codeOf(r), r)
Unlocks(r) == lock' = released(lock, codeOf(r), r)

GivesUpLock(r, pc, then) ==
  /\ at(r, pc) /\ isHeld(lock, codeOf(r))
  /\ goes(r, then)
  /\ UNCHANGED <<code, expired, peers, relay, device, history>>

LockAges(k) ==
  /\ isHeld(lock, k) /\ ~lock[k].old /\ at(lock[k].owner, "dead")
  /\ lock' = aged(lock, k)
  /\ UNCHANGED <<place, record, expired, peers, relay, request, device, history>>

\* A handler that waits for a stale lock removes it by its name, whoever owns it
\* by then, and tries again.
SeesStaleLock(r) ==
  /\ request[r].pc \in {"claim", "commit", "release"} /\ isStale(lock, codeOf(r))
  /\ request' = [request EXCEPT ![r].pc = "stale", ![r].then = request[r].pc]
  /\ UNCHANGED <<code, expired, peers, relay, device, history>>

RemoveStaleLock(r) ==
  /\ at(r, "stale")
  /\ lock' = removed(lock, codeOf(r))
  /\ request' = [request EXCEPT ![r].pc = request[r].then, ![r].then = None]
  /\ UNCHANGED <<place, record, expired, peers, relay, device, history>>

\* Where r is, or goes back to when it has removed a lock.
step(r) == IF at(r, "stale") THEN request[r].then ELSE request[r].pc

claimable(k) ==
  /\ place[k] \in {"pending", "inflight"}
  /\ place[k] = "inflight" => ~record[k].leased
  /\ k \notin expired

writePairing(k, pairing) == record' = [record EXCEPT ![k] = pairing]

\* The record is rewritten where it is ...
Claim(r) ==
  LET k == codeOf(r)
      claimants == {s \in Request : codeOf(s) = k /\ step(s) \notin Over \cup {"claim"}}
  IN
  /\ at(r, "claim")
  /\ IF claimable(k)
     THEN /\ Locks(r)
          /\ writePairing(k, [record[k] EXCEPT !.claim = r, !.leased = TRUE])
          /\ overran' = IF claimants # {} THEN overran \cup {k} ELSE overran
          /\ request' = [request EXCEPT ![r].pc = "claimMove", ![r].from = place[k]]
     ELSE /\ ~isHeld(lock, k)
          /\ goes(r, "error")
          /\ UNCHANGED <<record, lock, overran>>
  /\ UNCHANGED <<place, expired, peers, relay, device, orphaned, faults, kills>>

\* ... and moved to the inflight directory, unless it was there.  A record that is
\* gone cannot be moved.
ClaimMove(r) ==
  LET k == codeOf(r)
      from == request[r].from
  IN
  /\ at(r, "claimMove")
  /\ Unlocks(r)
  /\ \/ /\ from \in {"inflight", place[k]}
        /\ place' = IF from = "inflight" THEN place ELSE [place EXCEPT ![k] = "inflight"]
        /\ request' = [request EXCEPT ![r].pc = "add", ![r].from = None]
        /\ UNCHANGED faults
     \/ /\ Fault \/ (from \notin {"inflight", place[k]} /\ UNCHANGED faults)
        /\ goes(r, "error")
        /\ UNCHANGED place
  /\ UNCHANGED <<record, expired, peers, relay, device, overran, orphaned, kills>>

\* A code for another team or runtime than the host connector's is given back.
PolicyMismatch(r) ==
  /\ at(r, "add")
  /\ request[r].via = "stdio"
  /\ goes(r, "release")
  /\ UNCHANGED <<code, expired, peers, relay, device, history>>

\* relay.json after a change, or None if the change is refused.
applyPeerChange(change, d, k, expected) ==
  IF \/ ~configured
     \/ expected \notin {None, peers}
     \/ change = "add" /\ peers[d] # None
     \/ change \in {"revoke", "remove"} /\ peers[d] = None
     \/ change = "revoke" /\ peers[d].revoked
     \/ change = "remove" /\ expected = None
  THEN None
  ELSE [peers EXCEPT ![d] = CASE change = "add" -> [code |-> k, revoked |-> FALSE]
                              [] change = "revoke" -> [@ EXCEPT !.revoked = TRUE]
                              [] change = "remove" -> None]

\* Mutant: a code is committed although its peer could not be saved.
AddForgiving(r) ==
  /\ at(r, "add") /\ Fault
  /\ goes(r, "commit")
  /\ UNCHANGED <<code, expired, peers, relay, device, overran, orphaned, kills>>

containsExactEnrollmentPeer(d, k) == peers[d] = [code |-> k, revoked |-> FALSE]

\* Apply: relay.json is read, changed and saved under its lock, then read again,
\* which fails if the device has gone: the peer stays.  The very peer of this
\* code may be there from an earlier attempt.
Add(r) ==
  LET d == deviceOf(r)
      saved == applyPeerChange("add", d, codeOf(r), None)
  IN
  /\ at(r, "add")
  /\ \/ /\ saved # None
        /\ peers' = saved
        /\ request' = [request EXCEPT ![r].pc = "commit", ![r].added = TRUE,
                                      ![r].revision = saved]
        /\ UNCHANGED <<orphaned, faults>>
     \/ /\ saved # None /\ device[d].pc # "waiting" /\ Fault
        /\ peers' = saved
        /\ orphaned' = orphaned \cup {codeOf(r)}
        /\ goes(r, "release")
     \/ /\ saved # None /\ Fault
        /\ goes(r, "release")
        /\ UNCHANGED <<peers, orphaned>>
     \/ /\ saved = None
        /\ goes(r, IF containsExactEnrollmentPeer(d, codeOf(r))
                   THEN "commit" ELSE "release")
        /\ UNCHANGED <<peers, orphaned, faults>>
  /\ UNCHANGED <<code, expired, relay, device, overran, kills>>

\* claimedRecord: the record is inflight and the claim is still this one.
claimedRecord(r) == place[codeOf(r)] = "inflight" /\ record[codeOf(r)].claim = r

\* A commit that is refused takes the added peer back before the claim.
failed(r) == IF request[r].added THEN "remove" ELSE "release"

Commit(r) ==
  /\ at(r, "commit") /\ ~isHeld(lock, codeOf(r))
  /\ IF claimedRecord(r) /\ codeOf(r) \notin expired
     THEN /\ Locks(r)
          /\ writePairing(codeOf(r), [Unclaimed EXCEPT !.peer = deviceOf(r)])
          /\ goes(r, "commitMove")
     ELSE /\ goes(r, failed(r))
          /\ UNCHANGED <<record, lock>>
  /\ UNCHANGED <<place, expired, peers, relay, device, history>>

CommitMove(r) ==
  /\ at(r, "commitMove")
  /\ Unlocks(r)
  /\ \/ /\ place[codeOf(r)] = "inflight"
        /\ place' = [place EXCEPT ![codeOf(r)] = "history"]
        /\ goes(r, "serve")
        /\ UNCHANGED faults
     \/ /\ Fault \/ (place[codeOf(r)] # "inflight" /\ UNCHANGED faults)
        /\ goes(r, failed(r))
        /\ UNCHANGED place
  /\ UNCHANGED <<record, expired, peers, relay, device, overran, orphaned, kills>>

\* Mutant: a peer whose code was not committed stays.
RemoveKept(r) ==
  /\ at(r, "remove")
  /\ goes(r, "release")
  /\ UNCHANGED <<code, expired, peers, relay, device, history>>

\* The removal is refused if relay.json has changed since the peer was added.
Remove(r) ==
  LET saved == applyPeerChange("remove", deviceOf(r), codeOf(r), request[r].revision) IN
  /\ at(r, "remove")
  /\ goes(r, "release")
  /\ \/ /\ saved # None
        /\ peers' = saved
        /\ UNCHANGED <<orphaned, faults>>
     \/ /\ \/ saved = None /\ faults' = faults
           \/ saved # None /\ Fault
        /\ orphaned' = orphaned \cup {codeOf(r)}
        /\ UNCHANGED peers
  /\ UNCHANGED <<code, expired, relay, device, overran, kills>>

\* Release: its own errors are ignored.
Release(r) ==
  /\ at(r, "release") /\ ~isHeld(lock, codeOf(r))
  /\ IF claimedRecord(r)
     THEN /\ Locks(r)
          /\ writePairing(codeOf(r), Unclaimed)
          /\ goes(r, "releaseMove")
     ELSE /\ goes(r, "error")
          /\ UNCHANGED <<record, lock>>
  /\ UNCHANGED <<place, expired, peers, relay, device, history>>

ReleaseMove(r) ==
  /\ at(r, "releaseMove")
  /\ Unlocks(r)
  /\ \/ /\ place[codeOf(r)] = "inflight"
        /\ place' = [place EXCEPT ![codeOf(r)] = "pending"]
        /\ UNCHANGED faults
     \/ /\ Fault \/ (place[codeOf(r)] # "inflight" /\ UNCHANGED faults)
        /\ UNCHANGED place
  /\ goes(r, "error")
  /\ UNCHANGED <<record, expired, peers, relay, device, overran, orphaned, kills>>

\* Mutant: the running relay learns of the peer at its next start.
ServeLater(r) ==
  /\ at(r, "serve")
  /\ goes(r, "ok")
  /\ UNCHANGED <<code, expired, peers, relay, device, history>>

\* The peer joins the map of the process that enrolled it: the ingress of the
\* relay reads it, that of a pairing command ends with the command.
Serve(r) ==
  /\ at(r, "serve")
  /\ live' = IF request[r].via = "https" THEN live \cup {deviceOf(r)} ELSE live
  /\ goes(r, "ok")
  /\ UNCHANGED <<code, expired, peers, up, configured, connectors, device, history>>

-----------------------------------------------------------------------------
\* relay peers revoke: another process changes relay.json.  The running relay
\* has its own map.
Revoke(d) ==
  /\ applyPeerChange("revoke", d, None, None) # None
  /\ peers' = applyPeerChange("revoke", d, None, None)
  /\ UNCHANGED <<code, expired, relay, request, device, history>>

\* A kill of the processes that run these requests.
killed(requests) ==
  /\ kills < MaxKills /\ kills' = kills + 1
  /\ request' = [r \in Request |->
       IF r \in requests THEN [NoRequest EXCEPT !.pc = "dead"] ELSE request[r]]
  /\ orphaned' = orphaned \cup
       {codeOf(r) : r \in {s \in requests : request[s].added /\
                            step(s) \in {"commit", "commitMove", "remove"}}}
  /\ UNCHANGED <<code, expired, peers, configured, connectors, device, overran, faults>>

running(via) == {r \in Request : request[r].via = via /\ request[r].pc \notin Over}

\* The relay ends with all its handlers, a pairing command alone.
Crash == up /\ up' = FALSE /\ live' = {} /\ killed(running("https"))
KillPairing(r) == r \in running("stdio") /\ killed({r}) /\ UNCHANGED <<up, live>>

configuredRelayPeer(d) == peers[d] # None /\ ~peers[d].revoked

\* newRelayRuntime builds the map from relay.json.
Start ==
  /\ ~up /\ configured /\ up' = TRUE
  /\ live' = {d \in Device : configuredRelayPeer(d)}
  /\ UNCHANGED <<code, expired, peers, configured, connectors, request, device, history>>

Handle(r) ==
  \/ \E d \in Device : Receive(r, d)
  \/ Claim(r) \/ ClaimMove(r) \/ PolicyMismatch(r) \/ Add(r)
  \/ Commit(r) \/ CommitMove(r) \/ Remove(r) \/ Release(r) \/ ReleaseMove(r) \/ Serve(r)
  \/ GivesUpLock(r, "claim", "error") \/ GivesUpLock(r, "commit", failed(r))
  \/ GivesUpLock(r, "release", "error")
  \/ SeesStaleLock(r) \/ RemoveStaleLock(r)

Next ==
  \/ \E k \in Code : Create(k) \/ Expire(k) \/ LeaseEnds(k) \/ LockAges(k)
  \/ \E d \in Device :
       \/ runRemoteConfigure(d) \/ runRelayConnectorAdd(d) \/ runRelayConnectorRemove(d)
       \/ \E k \in Code : Pair(d, k) \/ \E r \in Request : ConnectorPair(r, d, k)
       \/ \E r \in Request : Answered(d, r) \/ Decided(d, r)
       \/ GivesUp(d) \/ Revoke(d)
  \/ \E r \in Request : Handle(r) \/ KillPairing(r)
  \/ runRelayConfigure \/ Start \/ Crash

EnrolmentSpec == Init /\ [][Next]_vars

-----------------------------------------------------------------------------
(***************************************************************************)
(* One code makes at most one peer, whatever devices use it, in whatever   *)
(* order, with every failure in between, except in the two windows the     *)
(* code leaves open: a handler that runs on after it has lost its claim,   *)
(* and one that was killed or refused after relay.json was saved.          *)
(***************************************************************************)
OnePeerPerCode ==
  \A k \in Code \ (overran \cup orphaned) :
    Cardinality({d \in Device : peers[d] # None /\ peers[d].code = k}) <= 1

(***************************************************************************)
(* A consumed code names a peer that relay.json holds under that code: no  *)
(* failure, crash or later handler removes a peer whose code is gone.  A   *)
(* handler that has lost its claim may remove the peer a second request of *)
(* the same device has committed.                                          *)
(***************************************************************************)
ConsumedIsEnrolled ==
  \A k \in Code \ overran :
    place[k] = "history" =>
      LET d == record[k].peer IN d # None /\ peers[d] # None /\ peers[d].code = k

(***************************************************************************)
(* A device that was told it is paired holds its key and is a peer of      *)
(* relay.json, which the host reads again for every pull over stdio; over  *)
(* HTTPS the running relay accepts its envelopes, also after a restart,    *)
(* unless the peer was revoked.                                            *)
(***************************************************************************)
PairedIsServed ==
  \A d \in Device :
    device[d].pc = "paired" /\ device[d].code \notin overran =>
      /\ device[d].key /\ peers[d] # None
      /\ device[d].transport = "https" /\ up /\ ~peers[d].revoked => d \in live

=============================================================================
