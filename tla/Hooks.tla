-------------------------------- MODULE Hooks --------------------------------
(***************************************************************************)
(* The hooks AgentBell keeps in the settings of seven coding agents        *)
(* (adapter/), installed by `adapter install` and `setup`, removed by      *)
(* `adapter uninstall` and `uninstall`.  Each change reads the agent's     *)
(* file, writes it whole and then writes or removes the ownership receipt, *)
(* under no lock, while the agent may edit the file.  `hook reconcile`     *)
(* audits three of the adapters before and after it installs them.         *)
(*                                                                         *)
(* A hook is the command it runs: the executable, which is the stable      *)
(* bridge for codex, claude-code and kimi-code once there is one, else the *)
(* Core of the version in use, and the form the agent's version asks for,  *)
(* which only claude-code tells apart.  The events of an adapter come and  *)
(* go together, so a file holds a set of commands and a set of other       *)
(* entries.  Backups are not modelled.                                     *)
(***************************************************************************)
EXTENDS Naturals, Sequences, FiniteSets

CONSTANTS
  Core,        \* executables of the Core, one per version
  Bridge,      \* the executable of the stable bridge
  Entry,       \* entries of a settings file that are not AgentBell's
  Process,     \* command lines, one command after the other
  Pair,        \* how many agents a machine has
  None, Gone,
  MaxFaults,   \* bound: calls that fail, and processes killed
  MaxEdits     \* bound: changes of versions, and edits by the agents

\* A hook, by what tells one from another.
Hook == [exe : Core \cup {Bridge}, form : {"exec", "shell"}]

ASSUME HooksAssumption ==
  /\ MaxFaults \in Nat /\ MaxEdits \in Nat /\ Pair \in Nat \ {0}
  /\ Bridge \notin Core /\ None \notin Core \cup {Bridge}
  /\ None \notin Hook /\ Gone \notin Hook \cup {None}

supportedAdapterIDs ==
  <<"codex", "claude-code", "kimi-code", "opencode", "qoder", "qoder-work", "trae">>
Adapter == {supportedAdapterIDs[i] : i \in DOMAIN supportedAdapterIDs}

VARIABLES
  agents,     \* the agents of this machine
  file,       \* per adapter: AgentBell's commands, the other entries, whether it parses
  receipt,    \* per adapter: the command of the ownership receipt, or None
  runtime,    \* the Core in use and whether there is a stable bridge
  modern,     \* the version of claude-code takes the arguments of a hook apart
  process,    \* per process: where it is and its variables
  claimed,    \* history: what the last command on an adapter reported, while it stands
  wanted,     \* history: the other entries as the agent wrote them last
  exposed,    \* history: adapters whose receipt does not tell all of their hooks: a
              \* command was stopped before it wrote the receipt, two overlapped, or
              \* codex moved to another Core without a bridge
  clobbered,  \* history: adapters whose agent wrote while a command was at work
  edits, faults

hooksHistory == <<claimed, wanted, exposed, clobbered>>
bounds == <<edits, faults>>
machine == <<agents, runtime, modern>>
hooksVars == <<machine, file, receipt, process, hooksHistory, bounds>>

\* A command of some kind with the adapters it is to take; no plan yet.
command(pc, kind, rest, r) ==
  [pc |-> pc, kind |-> kind, rest |-> rest, runtime |-> r, plan |-> None, command |-> None]

NoProcess == command("free", None, {}, None)

HooksInit ==
  /\ agents \in {s \in SUBSET Adapter : Cardinality(s) = Pair}
  /\ file = [a \in agents |-> [own |-> {}, other |-> {}, parses |-> TRUE]]
  /\ receipt = [a \in agents |-> None]
  /\ runtime \in [core : Core, bridged : BOOLEAN]
  /\ modern \in {FALSE, "claude-code" \in agents}
  /\ process = [p \in Process |-> NoProcess]
  /\ claimed = [a \in agents |-> None] /\ wanted = [a \in agents |-> {}]
  /\ exposed = {} /\ clobbered = {} /\ edits = 0 /\ faults = 0

at(p, pc) == process[p].pc = pc
\* The adapters of a command are taken in the order of the list.
first(ids) ==
  supportedAdapterIDs[CHOOSE i \in DOMAIN supportedAdapterIDs :
    supportedAdapterIDs[i] \in ids /\ \A j \in 1..(i - 1) : supportedAdapterIDs[j] \notin ids]

adapterOf(p) == first(process[p].rest)
goes(p, pc) == process' = [process EXCEPT ![p].pc = pc]
ends(p) == process' = [process EXCEPT ![p] = NoProcess]
Fault == faults < MaxFaults /\ faults' = faults + 1

-----------------------------------------------------------------------------
\* The hook to install.

\* commandDetails of claude-code: older versions take one shell command.
form(a) == IF a = "claude-code" /\ modern THEN "exec" ELSE "shell"

resolveHookInvocation(a, r) ==
  [exe |-> IF r.bridged /\ a \in {"codex", "claude-code", "kimi-code"} THEN Bridge ELSE r.core,
   form |-> form(a)]

alternateCommand(c) == [c EXCEPT !.form = IF @ = "exec" THEN "shell" ELSE "exec"]

\* The merges, removals and searches of each file format leave the other
\* entries alone.
mergeCodexHooks(own, c) == own \cup {c}
removeCodexHooks(own, c) == own \ {c}
hasCodexHook(own, c) == c \in own

mergeClaudeHooks(own, c) == own \cup {c}
removeClaudeHooks(own, c) == own \ {c}
hasClaudeHook(own, c) == c \in own

mergeQoderHooks(own, c) == own \cup {c}
removeQoderHooks(own, c) == own \ {c}
hasQoderHook(own, c) == c \in own

mergeShellHooks(own, c) == own \cup {c}
removeShellHooks(own, c) == own \ {c}
hasShellHook(own, c) == c \in own

\* The commands of another Core are known by their arguments.
removeManagedShellHooks(own, keep) == own \cap {keep}

\* A region with another command is replaced where it is.
installKimiRegion(own, c) == {c}

\* Without a region, another hook written inline in the top table is refused.
hasInlineHooksConflict(a, f) == a = "kimi-code" /\ f.own = {} /\ f.other # {}

\* A plugin file that is not AgentBell's is not written over.
isForeignPlugin(a, f) == a = "opencode" /\ f.other # {}

\* Per adapter: the file's hooks after Install, given those read, the receipt r
\* and the command c to install.
\* Mutant: the hook of the receipt stays beside the new one.
codexInstallBeside(own, r, c, bridged) == mergeCodexHooks(own, c)

codexInstall(own, r, c, bridged) ==
  mergeCodexHooks(IF bridged /\ r # None /\ r # c THEN removeCodexHooks(own, r) ELSE own, c)

claudeInstall(own, r, c) ==
  mergeClaudeHooks(removeClaudeHooks(own, IF r = None THEN alternateCommand(c)
                                          ELSE IF r # c THEN r ELSE None), c)

kimiInstall(own, c) == installKimiRegion(own, c)
opencodeInstall(own, c) == {c}

\* Mutant: a receipt of another command is not looked at.
qoderInstallOver(own, r, c) == mergeQoderHooks(own, c)

qoderInstall(own, r, c) ==
  mergeQoderHooks(IF r # None /\ r # c THEN removeQoderHooks(own, r) ELSE own, c)

qoderWorkInstall(own, r, c) ==
  mergeShellHooks(removeManagedShellHooks(removeShellHooks(own, r), c), c)

traeInstall(own, r, c) ==
  mergeShellHooks(removeManagedShellHooks(removeShellHooks(own, r), c), c)

Install(a, own, c, bridged) ==
  LET r == receipt[a] IN
  CASE a = "codex" -> codexInstall(own, r, c, bridged)
    [] a = "claude-code" -> claudeInstall(own, r, c)
    [] a = "kimi-code" -> kimiInstall(own, c)
    [] a = "opencode" -> opencodeInstall(own, c)
    [] a = "qoder" -> qoderInstall(own, r, c)
    [] a = "qoder-work" -> qoderWorkInstall(own, r, c)
    [] a = "trae" -> traeInstall(own, r, c)

-----------------------------------------------------------------------------
\* Per adapter: the hooks after Uninstall.  Three remove the command of the
\* receipt, or the current one if there is none; four know theirs.
receiptOr(r, c) == IF r # None THEN r ELSE c

codexUninstall(own, r, c) == removeCodexHooks(own, receiptOr(r, c))
claudeUninstall(own, r, c) == removeClaudeHooks(own, receiptOr(r, c))
kimiUninstall(own) == {}
opencodeUninstall(own) == {}
\* Mutant: the command in use now is removed, whatever was installed.
qoderUninstallCurrent(own, r, c) == removeQoderHooks(own, c)

qoderUninstall(own, r, c) == removeQoderHooks(own, receiptOr(r, c))
qoderWorkUninstall(own) == removeManagedShellHooks(own, None)
traeUninstall(own) == removeManagedShellHooks(own, None)

Uninstall(a, own, c) ==
  LET r == receipt[a] IN
  CASE a = "codex" -> codexUninstall(own, r, c)
    [] a = "claude-code" -> claudeUninstall(own, r, c)
    [] a = "kimi-code" -> kimiUninstall(own)
    [] a = "opencode" -> opencodeUninstall(own)
    [] a = "qoder" -> qoderUninstall(own, r, c)
    [] a = "qoder-work" -> qoderWorkUninstall(own)
    [] a = "trae" -> traeUninstall(own)

-----------------------------------------------------------------------------
\* Per adapter: Verify, for the command c that would be installed now.
codexVerify(own, c) == hasCodexHook(own, c)
claudeVerify(own, r, c) == (r # None => r.form = c.form) /\ hasClaudeHook(own, receiptOr(r, c))
kimiVerify(own, r, c) == receiptOr(r, c) \in own
opencodeVerify(own, r, c) == c \in own \/ r \in own
qoderVerify(own, r, c) == hasQoderHook(own, receiptOr(r, c))
qoderWorkVerify(own, r, c) == hasShellHook(own, receiptOr(r, c))
traeVerify(own, r, c) == hasShellHook(own, receiptOr(r, c))

Verify(a, c) ==
  LET own == file[a].own
      r == receipt[a] IN
  /\ file[a].parses
  /\ CASE a = "codex" -> codexVerify(own, c)
       [] a = "claude-code" -> claudeVerify(own, r, c)
       [] a = "kimi-code" -> kimiVerify(own, r, c)
       [] a = "opencode" -> opencodeVerify(own, r, c)
       [] a = "qoder" -> qoderVerify(own, r, c)
       [] a = "qoder-work" -> qoderWorkVerify(own, r, c)
       [] a = "trae" -> traeVerify(own, r, c)

-----------------------------------------------------------------------------
\* The audit: what to add to the hooks of an event and what to remove, given
\* the hook that is desired and those a receipt or a region proves to be ours.
\* Hooks nobody vouches for are only reported.
hookAuditAdapterIDs == {"codex", "claude-code", "kimi-code"}

Audit(entries, owned, desired) ==
  [add |-> {desired} \ entries, remove |-> (entries \cap owned) \ {desired}]

codexAudit(own, r, c) == Audit(own, {r} \ {None, c}, c)
claudeAudit(own, r, c) == Audit(own, {r} \ {None}, c)
kimiAudit(own, r, c) == Audit(own, own \cup ({r} \ {None}), c)

AuditHooks(a, c) ==
  LET own == file[a].own
      r == receipt[a] IN
  CASE a = "codex" -> codexAudit(own, r, c)
    [] a = "claude-code" -> claudeAudit(own, r, c)
    [] a = "kimi-code" -> kimiAudit(own, r, c)

\* The audit wants a stable bridge and a file that is there and parses, and it
\* is stopped by entries of others whose structure or command it cannot read.
stableAuditInvocation(r) == r.bridged
readHookAuditFile(a) == a \in agents /\ file[a].parses
mayBeAbsent(a) == file[a].own = {} /\ file[a].other = {}
mayBeUnsafe(a) == file[a].other # {}

-----------------------------------------------------------------------------
\* The commands.

begins(p, kind, pc, rest) ==
  /\ at(p, "free")
  /\ process' = [process EXCEPT ![p] = command(pc, kind, rest, runtime)]
  /\ UNCHANGED <<machine, file, receipt, hooksHistory, bounds>>

AdapterInstall(p, a) == begins(p, "install", "read", {a})
AdapterUninstall(p, a) == begins(p, "uninstall", "read", {a})
Setup(p) == begins(p, "setup", "confirm", agents)
ProductUninstall(p) == begins(p, "product", "preflight", agents)

\* hook reconcile, of one adapter or of all that can be audited.
Reconcile(p) ==
  /\ at(p, "free")
  /\ \E ids \in {hookAuditAdapterIDs} \cup {{a} : a \in hookAuditAdapterIDs} :
       process' = [process EXCEPT ![p] = command("audit", "reconcile", ids, None)]
  /\ UNCHANGED <<machine, file, receipt, hooksHistory, bounds>>

installs(p) == process[p].kind \in {"install", "setup", "reconcile"}

\* The command is done with its first adapter: setup asks about the next one,
\* a product uninstall takes it.
advanced(p) ==
  LET rest == process[p].rest \ {adapterOf(p)}
      kind == process[p].kind
      next == IF kind = "setup" THEN "confirm"
              ELSE IF rest = {} THEN "free"
              ELSE IF kind = "reconcile" THEN "audit" ELSE "read"
  IN IF next = "free" THEN NoProcess
     ELSE [process[p] EXCEPT !.pc = next, !.rest = rest, !.plan = None, !.command = None]

reported(p, a) == IF installs(p) THEN process[p].command ELSE Gone

\* setup asks before each adapter; after the last one it registers the login
\* service, which is left out here.
Confirm(p) ==
  /\ at(p, "confirm")
  /\ IF process[p].rest = {} THEN ends(p)
     ELSE goes(p, "read") \/ process' = [process EXCEPT ![p] = advanced(p)]
  /\ UNCHANGED <<machine, file, receipt, hooksHistory, bounds>>

\* The adapter is resolved anew and audited; its plan is only reported.
AuditBefore(p) ==
  LET a == adapterOf(p) IN
  /\ at(p, "audit")
  /\ \/ /\ stableAuditInvocation(runtime) /\ readHookAuditFile(a)
        /\ process' = [process EXCEPT ![p].pc = "read", ![p].runtime = runtime]
     \/ /\ stableAuditInvocation(runtime) /\ readHookAuditFile(a) =>
             mayBeAbsent(a) \/ mayBeUnsafe(a)
        /\ ends(p)
  /\ UNCHANGED <<machine, file, receipt, hooksHistory, bounds>>

AuditAfter(p) ==
  /\ at(p, "after")
  /\ process' = [process EXCEPT ![p] = IF readHookAuditFile(adapterOf(p)) THEN advanced(p)
                                       ELSE NoProcess]
  /\ UNCHANGED <<machine, file, receipt, hooksHistory, bounds>>

\* uninstall looks at everything before it changes anything.
Preflight(p) ==
  /\ at(p, "preflight")
  /\ IF \A a \in agents : file[a].parses THEN goes(p, "service") ELSE ends(p)
  /\ UNCHANGED <<machine, file, receipt, hooksHistory, bounds>>

\* The login service is unregistered first; an error of that ends the command.
UninstallService(p) ==
  /\ at(p, "service")
  /\ \/ goes(p, "read") /\ UNCHANGED faults
     \/ ends(p) /\ Fault
  /\ UNCHANGED <<machine, file, receipt, hooksHistory, edits>>

\* What follows a change with command c: setup verifies it, reconcile audits it.
done(p, c) ==
  CASE process[p].kind = "setup" -> [process[p] EXCEPT !.pc = "verify", !.command = c,
                                                       !.plan = None]
    [] process[p].kind = "reconcile" -> command("after", "reconcile", process[p].rest, None)
    [] OTHER -> advanced(p)

working(p, a) == process[p].pc \in {"write", "receipt"} /\ adapterOf(p) = a
overlaps(p, a) == \E q \in Process \ {p} : working(q, a)

\* The file and the receipt are read; a file that holds what it should is not
\* written, nor is the receipt.
Read(p) ==
  LET a == adapterOf(p)
      f == file[a]
      c == resolveHookInvocation(a, process[p].runtime)
      plan == IF installs(p) THEN Install(a, f.own, c, process[p].runtime.bridged)
              ELSE Uninstall(a, f.own, c)
      refused == ~f.parses \/ (installs(p) /\ isForeignPlugin(a, f))
  IN
  /\ at(p, "read")
  /\ \/ /\ refused \/ (installs(p) /\ hasInlineHooksConflict(a, f))
        /\ ends(p) /\ UNCHANGED claimed
     \/ /\ ~refused /\ plan = f.own
        /\ process' = [process EXCEPT ![p] = done(p, c)]
        /\ claimed' = [claimed EXCEPT ![a] = IF installs(p) THEN c ELSE Gone]
     \/ /\ ~refused /\ plan # f.own
        /\ process' = [process EXCEPT ![p].pc = "write", ![p].command = c,
                                      ![p].plan = [f EXCEPT !.own = plan]]
        /\ UNCHANGED claimed
  /\ exposed' = IF overlaps(p, a) THEN exposed \cup {a} ELSE exposed
  /\ UNCHANGED <<machine, file, receipt, wanted, clobbered, bounds>>

\* The whole file is replaced by what was planned.
Write(p) ==
  LET a == adapterOf(p)
      moves == /\ a = "codex" /\ installs(p) /\ ~process[p].runtime.bridged
               /\ Cardinality(process[p].plan.own) > 1
  IN
  /\ at(p, "write")
  /\ \/ /\ file' = [file EXCEPT ![a] = process[p].plan]
        /\ claimed' = [claimed EXCEPT ![a] = None]
        /\ exposed' = IF moves THEN exposed \cup {a} ELSE exposed
        /\ goes(p, "receipt")
        /\ UNCHANGED faults
     \/ /\ Fault /\ ends(p)
        /\ UNCHANGED <<file, claimed, exposed>>
  /\ UNCHANGED <<machine, receipt, wanted, clobbered, edits>>

\* Install writes the receipt; Uninstall removes it and ignores an error.
Receipt(p) ==
  LET a == adapterOf(p)
      stands == ~overlaps(p, a) /\ file[a] = process[p].plan
  IN
  /\ at(p, "receipt")
  /\ \/ /\ receipt' = [receipt EXCEPT ![a] = IF installs(p) THEN process[p].command ELSE None]
        /\ claimed' = [claimed EXCEPT ![a] = IF stands THEN reported(p, a) ELSE None]
        /\ exposed' = IF stands /\ process[p].plan.own = {} THEN exposed \ {a} ELSE exposed
        /\ process' = [process EXCEPT ![p] = done(p, process[p].command)]
        /\ UNCHANGED faults
     \/ /\ Fault
        /\ exposed' = IF installs(p) THEN exposed \cup {a} ELSE exposed
        /\ process' = [process EXCEPT ![p] = IF installs(p) THEN NoProcess
                                             ELSE advanced(p)]
        /\ UNCHANGED <<receipt, claimed>>
  /\ UNCHANGED <<machine, file, wanted, clobbered, edits>>

\* setup verifies what it has installed, and stops at the first error.
SetupVerify(p) ==
  /\ at(p, "verify")
  /\ process' = [process EXCEPT
       ![p] = IF Verify(adapterOf(p), process[p].command) THEN advanced(p)
              ELSE NoProcess]
  /\ UNCHANGED <<machine, file, receipt, hooksHistory, bounds>>

-----------------------------------------------------------------------------
\* The rest of the machine.

Edit == edits < MaxEdits /\ edits' = edits + 1

\* upgrade: another Core, and from some version on a stable bridge.
Upgrade ==
  /\ Edit
  /\ \E core \in Core, bridged \in BOOLEAN :
       /\ runtime.bridged => bridged
       /\ runtime' = [core |-> core, bridged |-> bridged]
       /\ runtime' # runtime
  /\ UNCHANGED <<agents, modern, file, receipt, process, hooksHistory, faults>>

\* claude-code is updated or replaced by an older version.
UpdateAgent ==
  /\ Edit /\ "claude-code" \in agents
  /\ modern' = ~modern
  /\ UNCHANGED <<agents, runtime, file, receipt, process, hooksHistory, faults>>

\* The user or the agent edits the file: other entries, AgentBell's hooks lost,
\* or a file that does not parse, whose entries nobody reads.  A plugin file is
\* one or the other's.
AgentEdits(a) ==
  LET between == \E p \in Process : at(p, "write") /\ adapterOf(p) = a IN
  /\ Edit
  /\ \E other \in SUBSET Entry, own \in {{}, file[a].own}, parses \in BOOLEAN :
       /\ (a = "opencode" /\ other # {}) => own = {}
       /\ ~parses => own = {} /\ other = {}
       /\ file' = [file EXCEPT ![a] = [own |-> own, other |-> other, parses |-> parses]]
       /\ file' # file
       /\ wanted' = [wanted EXCEPT ![a] = other]
  /\ claimed' = [claimed EXCEPT ![a] = None]
  /\ clobbered' = IF between THEN clobbered \cup {a} ELSE clobbered
  /\ UNCHANGED <<machine, receipt, process, exposed, faults>>

KillCommand(p) ==
  /\ ~at(p, "free") /\ Fault
  /\ exposed' = IF at(p, "receipt") /\ installs(p) THEN exposed \cup {adapterOf(p)} ELSE exposed
  /\ ends(p)
  /\ UNCHANGED <<machine, file, receipt, claimed, wanted, clobbered, edits>>

CommandStep(p) ==
  \/ \E a \in agents : AdapterInstall(p, a) \/ AdapterUninstall(p, a)
  \/ Reconcile(p) \/ AuditBefore(p) \/ AuditAfter(p)
  \/ Setup(p) \/ ProductUninstall(p) \/ Confirm(p) \/ Preflight(p) \/ UninstallService(p)
  \/ Read(p) \/ Write(p) \/ Receipt(p) \/ SetupVerify(p) \/ KillCommand(p)

HooksNext ==
  \/ \E p \in Process : CommandStep(p)
  \/ Upgrade \/ UpdateAgent \/ \E a \in agents : AgentEdits(a)

HooksSpec == HooksInit /\ [][HooksNext]_hooksVars

-----------------------------------------------------------------------------
\* The adapters that know their hooks without a receipt.
selfEvident == {"kimi-code", "opencode", "qoder-work", "trae"}

(***************************************************************************)
(* After an install that reported success the agent runs AgentBell once    *)
(* per event, through the hook that was reported, and Verify agrees,       *)
(* whatever versions, forms and bridges came before.  The adapters that    *)
(* rely on their receipt are excepted once it does not tell the truth.     *)
(***************************************************************************)
HookOnce ==
  \A a \in agents :
    LET c == claimed[a] IN
    c \notin {None, Gone} =>
      /\ (a \in selfEvident \/ a \notin exposed) => file[a].own = {c}
      /\ (a \notin exposed /\ c.form = form(a)) => Verify(a, c)

(***************************************************************************)
(* An uninstall that reported success has removed AgentBell's hooks, of    *)
(* whatever version, and nothing else: no hook is left, with the same      *)
(* exception, and the entries of others are as the agent wrote them last,  *)
(* unless it wrote while a command had read the file and not yet replaced  *)
(* it.                                                                     *)
(***************************************************************************)
HooksGone ==
  \A a \in agents :
    claimed[a] = Gone =>
      /\ (a \in selfEvident \/ a \notin exposed) => file[a].own = {}
      /\ a \notin clobbered => file[a].other = wanted[a]

(***************************************************************************)
(* The plan `hook conflicts` shows is what `hook reconcile` does: adding   *)
(* and removing what the audit lists leaves the hooks that Install leaves. *)
(* The two are written apart, for each adapter.  They differ only for      *)
(* claude-code without a receipt, where Install removes the hook of the    *)
(* other form and the audit takes it for somebody else's.                  *)
(***************************************************************************)
PlanIsInstall ==
  \A a \in hookAuditAdapterIDs :
    LET c == resolveHookInvocation(a, runtime) IN
    (readHookAuditFile(a) /\ stableAuditInvocation(runtime)
       /\ (a = "claude-code" => receipt[a] # None)) =>
      (file[a].own \ AuditHooks(a, c).remove) \cup AuditHooks(a, c).add
        = Install(a, file[a].own, c, TRUE)

=============================================================================
