-------------------------------- MODULE Relay --------------------------------
(***************************************************************************)
(* The relay end to end: the outbox of a remote device and the ingress of  *)
(* its host, joined by exchanges that can fail at any moment.  A request   *)
(* is lost before a handler has it; an acknowledgement is lost after the   *)
(* receipt is durable; a sender that has given up an exchange may send the *)
(* item again while the first handler is still at work.  Each side can be  *)
(* killed and restarted on its own.                                        *)
(***************************************************************************)
EXTENDS Outbox, Ingress

\* A body is named by the process that signed it, on both sides.
ASSUME RelayAssumption == Key = DeliveryKey /\ Producer \subseteq Body

relayVars == <<outboxVars, ingressVars>>

RelayInit == OutboxInit /\ IngressInit

\* The request of the exchange that f has begun reaches a handler.
Deliver(f, h) ==
  /\ fwd[f].pc = "sending"
  /\ Arrive(h, fwd[f].key, fwd[f].item.body, prod[fwd[f].item.body].sentAt,
            f, sends[fwd[f].key])
  /\ fwd' = [fwd EXCEPT ![f].pc = "awaiting"]
  /\ UNCHANGED <<disk, lock, stolen, prod, now, sent, sends, kills>>

\* The handler's reply to the exchange f waits for.
isReply(f, h) ==
  /\ fwd[f].pc = "awaiting"
  /\ hand[h].from = f /\ hand[h].exchange = sends[fwd[f].key]
  /\ hand[h].key = fwd[f].key

Reply(f, h) ==
  /\ isReply(f, h)
  /\ \/ hand[h].pc = "ack" /\ Acked(f)
     \/ hand[h].pc = "refused" /\ Failed(f)
  /\ hand' = [hand EXCEPT ![h] = Free]
  /\ UNCHANGED <<stores, enqueues, crashes, faults>>

RelayTick == Prompt /\ Tick /\ UNCHANGED ingressVars

Clean(b) == Cleanup(b) /\ UNCHANGED outboxVars

SenderStep ==
  /\ \/ \E n \in Key \cup {"capacity"} : LockAges(n)
     \/ \E p \in Producer :
          EmitStep(p) \/ KillProducer(p) \/ \E k \in Key : Emit(p, k)
     \/ \E f \in Forwarder : ForwardStep(f) \/ Failed(f) \/ KillForwarder(f)
  /\ UNCHANGED ingressVars

ReceiverStep ==
  /\ \/ Crash
     \/ \E k \in Key : ReceiptLockAges(k)
     \/ \E h \in Handler : AcceptStep(h) \/ ReplyLost(h)
  /\ UNCHANGED outboxVars

RelayNext ==
  \/ RelayTick \/ SenderStep \/ ReceiverStep
  \/ \E b \in Body : Clean(b)
  \/ \E f \in Forwarder, h \in Handler : Deliver(f, h) \/ Reply(f, h)

\* Every process that can go on does, and a forwarder that waits for a reply
\* that never comes has a timeout.
RelayFairness ==
  /\ WF_relayVars(RelayTick)
  /\ \A n \in Key \cup {"capacity"} : WF_relayVars(LockAges(n) /\ UNCHANGED ingressVars)
  /\ \A p \in Producer : WF_relayVars(EmitStep(p) /\ UNCHANGED ingressVars)
  /\ \A f \in Forwarder :
       WF_relayVars((ForwardStep(f) \/ Failed(f)) /\ UNCHANGED ingressVars)
  /\ \A h \in Handler :
       WF_relayVars((AcceptStep(h) \/ ReplyLost(h)) /\ UNCHANGED outboxVars)

RelaySpec == RelayInit /\ [][RelayNext]_relayVars /\ RelayFairness

-----------------------------------------------------------------------------
\* There is an acknowledgement, on its way or in the history of the outbox, only
\* when the receipt and the event in the local queue are durable, whatever was
\* killed or repeated on the way.
AcknowledgedIsDurable ==
  \A k \in Key :
    \/ exists("history", k)
    \/ \E h \in Handler : hand[h].key = k /\ hand[h].pc = "ack"
    => committed[k] # NoBody /\ localQueue[k] = committed[k]

\* Repeated, late and overlapping requests of one delivery key reach
\* Queue.Enqueue at most once, although the receiver is killed between the
\* nonce, the event and the receipt and the request is sent again.
EnqueuedOnce == \A k \in Key : enqueues[k] <= 1 \/ Unlocked(k)

\* The outbox, the exchanges and the receipts implement the promise.
Promise == INSTANCE Delivery WITH
  accepted <- {k \in Key : \E d \in Dir : exists(d, k)},
  delivered <- {k \in Key : localQueue[k] # NoBody},
  acknowledged <- listing("history"),
  abandoned <- listing("dead")

\* The relay, with all its files and its failures, is an implementation of the
\* abstract delivery: nothing accepted disappears, nothing is delivered that was
\* not accepted, an acknowledgement follows a delivery, and every event settles.
KeepsPromise == Promise!Spec
=============================================================================
