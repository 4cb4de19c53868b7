----------------------------- MODULE QueueRetry -----------------------------
(***************************************************************************)
(* The service together with `agentbell queue retry <id>`, a command in a  *)
(* process of its own (Queue.Retry).  The queue's mutex lives in one       *)
(* process, so the command's file operations interleave with the           *)
(* service's.  One command runs at a time; it can be killed.               *)
(***************************************************************************)
EXTENDS Service

CONSTANTS
  MaxTrouble      \* bound: retry commands, killed commands and kills of the service

ASSUME RetryAssumption == MaxTrouble \in Nat

VARIABLES
  cli,         \* the command: where it is, the item and the envelope it read
  retries,     \* history: retry commands so far
  cliCrashes,  \* history: killed retry commands so far
  raced        \* history: between the two file operations of a command the service
               \* was killed, and its repair may have seen both copies, or it has
               \* already given the item up and found the old copy in its way

retryVars == <<vars, cli, retries, cliCrashes, raced>>

NoCommand == [pc |-> "idle", item |-> NoItem, envelope |-> NewEnvelope]

RetryInit ==
  Init /\ cli = NoCommand /\ retries = 0 /\ cliCrashes = 0 /\ raced = FALSE

trouble == retries + cliCrashes + crashes

retryEnvelope(envelope) ==
  [envelope EXCEPT !.attempts = 0, !.next = ZeroTime]

RetryRead(i) ==
  /\ cli.pc = "idle" /\ trouble < MaxTrouble
  /\ exists("dead", i)
  /\ cli' = [pc |-> "write", item |-> i,
             envelope |-> retryEnvelope(disk["dead"][i])]
  /\ retries' = retries + 1
  /\ UNCHANGED <<vars, cliCrashes, raced>>

\* Mutant: the source is removed before the destination is written.
RetryRemoveFirst ==
  /\ cli.pc = "write"
  /\ remove("dead", cli.item)
  /\ cli' = [cli EXCEPT !.pc = "remove"]
  /\ UNCHANGED <<now, local, observed, retries, cliCrashes, raced>>

RetryWrite ==
  /\ cli.pc = "write"
  /\ IF exists("pending", cli.item)
     THEN cli' = NoCommand /\ UNCHANGED disk
     ELSE /\ write("pending", cli.item, cli.envelope)
          /\ cli' = [cli EXCEPT !.pc = "remove"]
  /\ UNCHANGED <<now, local, observed, retries, cliCrashes, raced>>

\* Mutant: the dead copy is left behind.
RetryKeepsDead ==
  /\ cli.pc = "remove"
  /\ cli' = NoCommand
  /\ UNCHANGED <<vars, retries, cliCrashes, raced>>

RetryRemove ==
  /\ cli.pc = "remove"
  /\ remove("dead", cli.item)
  /\ cli' = NoCommand
  /\ UNCHANGED <<now, local, observed, retries, cliCrashes, raced>>

CliCrash ==
  /\ cli.pc # "idle" /\ trouble < MaxTrouble
  /\ cli' = NoCommand
  /\ cliCrashes' = cliCrashes + 1
  /\ UNCHANGED <<vars, retries, raced>>

RetryStep ==
  RetryWrite \/ RetryRemove \/ CliCrash \/ \E i \in Item : RetryRead(i)

RetryNext ==
  \/ /\ Next
     /\ crashes' # crashes => trouble < MaxTrouble
     /\ raced' = (\/ raced
                  \/ cli.pc = "remove" /\ crashes' # crashes
                  \/ cli.pc = "remove" /\ cli.item = cur /\ pc = "write" /\ dst = "dead")
     /\ UNCHANGED <<cli, retries, cliCrashes>>
  \/ RetryStep

\* The service is as fair as it is alone; nothing is assumed of the command.
RetrySpec ==
  /\ RetryInit /\ [][RetryNext]_retryVars
  /\ WF_vars(Startup) /\ WF_vars(ProcessOne) /\ WF_vars(Tick)

-----------------------------------------------------------------------------
\* An event that someone retries by hand is not lost, whoever of the command and
\* the service is killed, unless they meet between the two file operations of the
\* command: a restarted service takes the inflight copy for a left-over.
RetryKeepsItem == raced \/ NoLostItem

\* Every accepted event, retried or not, is settled in the end: delivered or
\* given up in history, or dead after its last attempt.  A kill or a failed file
\* operation can leave it inflight instead, and so can a command that is slower
\* than the last attempt of the item it retries; nothing leaves it pending.
EventuallySettled ==
  \A i \in Item :
    i \in accepted ~>
      \/ exists("history", i) \/ exists("dead", i) \/ i \in forgotten
      \/ exists("inflight", i) /\ crashes + faults + cliCrashes > 0
      \/ raced

\* While no retry command has been killed half-way, a retry never sends again
\* to a target whose success is in the ledger, unless the retention rules have
\* removed the dead copy that the command had read.
RetryNoResend ==
  [][\A i \in Item, t \in Target :
       sends'[i][t] # sends[i][t] =>
         t \notin recorded[i] \/ i \in forgotten \/ cliCrashes > 0]_retryVars
=============================================================================
