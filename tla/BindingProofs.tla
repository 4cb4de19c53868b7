---------------------------- MODULE BindingProofs ----------------------------
(***************************************************************************)
(* Theorems about Binding, for any number of codes, chats, command lines,  *)
(* failed calls and kills: a code is used once, a consumed code has its    *)
(* channel, and a saved channel is lost only to a writer without the lock. *)
(*                                                                         *)
(* The argument: the lock of a code makes a decision about its record      *)
(* final; the lock of config.json makes the configuration a transaction    *)
(* writes cover everything that was saved; and a search that finds a code  *)
(* in one chat finds it in the same one every time.                        *)
(***************************************************************************)
EXTENDS Binding, FiniteSetTheorems, TLAPS

-----------------------------------------------------------------------------
\* What is true of the record r of a process.

ProcessFields == {"pc", "code", "change", "before", "then"}

\* Where r is, or goes back to when it has removed a lock.
place(r) == IF r.pc = "stale" THEN r.then ELSE r.pc

\* The places of `bind complete` and `bind cancel` that look at a record, those
\* of a transaction that has a change, and those that hold a configuration.
RecordPlaces ==
  {"claim", "recoverMove", "claimMove", "claimWrite", "discover", "initialize", "exists",
   "commit", "commitRemove", "release", "releaseMove", "cancel", "cancelMove"}
ChangePlaces == {"initialize", "apply", "compare", "save", "exists", "commit"}
ConfigPlaces == {"compare", "save", "setupSave"}

\* The change of a bind adds a channel with the name of its code.
ChangeOK(change, code) ==
  /\ change.op \in {"add", "rename", "remove", "default"} /\ change.channel \in Chat
  /\ code # None => change.op = "add" /\ change.name = code
  /\ code = None /\ change.op = "add" => change.name = "own"

ProcessOK(r) ==
  /\ r = [x \in ProcessFields |-> r[x]]
  /\ r.code \in Code \cup {None}
  /\ r.pc = "stale" => r.then \in Acquires
  /\ place(r) \in RecordPlaces => r.code # None
  /\ place(r) \in ChangePlaces => ChangeOK(r.change, r.code)
  /\ r.pc \in ConfigPlaces => r.before \in Config
  /\ r.pc \in {"compare", "save"} => applicable(r.before, r.change)

\* The lock r holds, from the step that takes it to the one that gives it back.
HoldsAt(pc, code, l) ==
  \/ pc \in {"compare", "save"} /\ l = "config"
  \/ /\ pc \in {"recoverMove", "claimMove", "claimWrite", "commitRemove",
                "releaseMove", "cancelMove"}
     /\ l = code
Holds(r, l) == HoldsAt(r.pc, r.code, l)

\* The chats that code k has a channel for, or is about to have one.
Named(channels, k, c) == c \in DOMAIN channels /\ channels[c] = k
GoesTo(r, k, c) ==
  \/ place(r) \in ChangePlaces /\ r.code = k /\ r.change.channel = c
  \/ r.pc \in ConfigPlaces /\ Named(r.before.channels, k, c)
Destination(k, c) ==
  \/ config # None /\ Named(config.channels, k, c)
  \/ \E p \in Process : GoesTo(process[p], k, c)

\* What a configuration holds: channels that a transaction has saved, and all
\* of them that are not missing for a reason.
SavedOnly(value) == \A c \in DOMAIN value.channels : c # Feishu => c \in saved
Covers(value) == saved \subseteq DOMAIN value.channels \cup deleted \cup dropped

-----------------------------------------------------------------------------
\* The inductive invariant.

ProcessType ==
  /\ process = [p \in Process |-> process[p]]
  /\ \A p \in Process : ProcessOK(process[p])

Names == Code \cup {"config"}

FileType ==
  /\ pending \in [Code -> Record \cup {None}]
  /\ inflight \in [Code -> Record \cup {None}]
  /\ history \in [Code -> Record \cup {None}]
  /\ posted \in [Code -> SUBSET Chat]
  /\ \A k \in Code : IsFiniteSet(posted[k])
  /\ config \in Config \cup {None}
  /\ lock \in [Names -> [owner : Process, old : BOOLEAN] \cup {NoLock}]
  /\ bound \in [Code -> SUBSET Process]
  /\ boundTo \in [Code -> Chat \cup {None}]

\* A lock belongs to the process that works under it, unless it was stolen; it
\* is old only if its owner is dead.
Locked ==
  /\ \A p \in Process, l \in Names :
       Holds(process[p], l) /\ l \notin stolen => lock[l] # NoLock /\ lock[l].owner = p
  /\ \A l \in Names : lock[l] # NoLock /\ lock[l].old => process[lock[l].owner].pc = "dead"

\* Every channel of a chat was saved by a transaction, in config.json and in
\* what a process has read of it.
FromTransactions ==
  /\ config # None => SavedOnly(config)
  /\ \A p \in Process : process[p].pc \in ConfigPlaces => SavedOnly(process[p].before)

\* Nothing that was saved is missing without a reason, from config.json and
\* from what a transaction is about to write.
Covered ==
  "config" \notin stolen =>
    /\ saved \subseteq Channels \cup deleted \cup dropped
    /\ \A p \in Process : process[p].pc = "save" => Covers(process[p].before)

\* A code is committed only for a channel that was saved.
CommitsSaved ==
  /\ \A k \in Code : boundTo[k] # None => boundTo[k] \in saved
  /\ \A p \in Process : place(process[p]) = "commit" => process[p].change.channel \in saved

\* A code was sent to every chat it has a channel for, and that is one at most.
OneDestination ==
  \A k \in Code :
    /\ \A c \in Chat \cup {Feishu} : Destination(k, c) => c \in posted[k]
    /\ \A c, e \in Chat \cup {Feishu} : Destination(k, c) /\ Destination(k, e) => c = e

\* A code is consumed by the process that will report it, or has done so; a
\* cancellation is decided while the code is not consumed.
Consumes(k, p) == p \in bound[k] \/ (process[p].pc = "commitRemove" /\ process[p].code = k)
ConsumedOnce ==
  \A k \in Code \ stolen :
    /\ \A p \in Process :
         Consumes(k, p) => history[k] # None /\ history[k].fate = "consumed"
    /\ \A p, q \in Process : Consumes(k, p) /\ Consumes(k, q) => p = q
    /\ \A p \in Process :
         process[p].pc = "cancelMove" /\ process[p].code = k => history[k] = None

ConfigInv == FromTransactions /\ Covered /\ CommitsSaved /\ OneDestination

BindingInv == ProcessType /\ FileType /\ Locked /\ ConfigInv /\ ConsumedOnce

-----------------------------------------------------------------------------
\* Configurations.

LEMMA ConfigForm ==
  ASSUME NEW v \in Config
  PROVE  /\ v = [channels |-> v.channels, default |-> v.default]
         /\ DOMAIN v.channels \subseteq Chat \cup {Feishu}
         /\ v.channels \in [DOMAIN v.channels -> Code \cup {"own"}]
         /\ v.default \in Chat \cup {Feishu}
<1>1. /\ v = [channels |-> v.channels, default |-> v.default]
      /\ v.default \in Chat \cup {Feishu}
      /\ v.channels \in UNION {[S -> Code \cup {"own"}] : S \in SUBSET (Chat \cup {Feishu})}
  BY Zenon DEF Config
<1>2. PICK S \in SUBSET (Chat \cup {Feishu}) : v.channels \in [S -> Code \cup {"own"}]
  BY <1>1, Zenon
<1> QED
  BY <1>1, <1>2, Zenon

LEMMA ConfigMade ==
  ASSUME NEW S \in SUBSET (Chat \cup {Feishu}), NEW channels \in [S -> Code \cup {"own"}],
         NEW default \in Chat \cup {Feishu}
  PROVE  [channels |-> channels, default |-> default] \in Config
BY Zenon DEF Config

LEMMA ConfigIsNotNone == \A v \in Config : v # None
BY BindingAssumption, Zenon

LEMMA NamedConfig ==
  ASSUME NEW c \in Chat \cup {Feishu}, NEW name \in Code \cup {"own"}
  PROVE  /\ [channels |-> named(c, name), default |-> c] \in Config
         /\ DOMAIN named(c, name) = {c} /\ named(c, name)[c] = name
<1>1. named(c, name) \in [{c} -> Code \cup {"own"}] /\ {c} \in SUBSET (Chat \cup {Feishu})
  BY Zenon DEF named
<1> QED
  BY <1>1, ConfigMade, Zenon DEF named

LEMMA WithChannel ==
  ASSUME NEW v \in Config, NEW c \in Chat \cup {Feishu}, NEW name \in Code \cup {"own"},
         NEW default \in Chat \cup {Feishu}
  PROVE  /\ [channels |-> with(v.channels, c, name), default |-> default] \in Config
         /\ DOMAIN with(v.channels, c, name) = {c} \cup DOMAIN v.channels
         /\ \A k, x : Named(with(v.channels, c, name), k, x) =>
                       Named(v.channels, k, x) \/ (x = c /\ name = k)
<1> DEFINE f == with(v.channels, c, name)
           S == {c} \cup DOMAIN v.channels
<1>1. f = [x \in S |-> IF x = c THEN name ELSE v.channels[x]]
  BY Zenon DEF with
<1>2. S \in SUBSET (Chat \cup {Feishu}) /\ f \in [S -> Code \cup {"own"}]
  BY <1>1, ConfigForm
<1>3. [channels |-> f, default |-> default] \in Config
  BY <1>2, ConfigMade, Zenon
<1>4. \A k, x : Named(f, k, x) => Named(v.channels, k, x) \/ (x = c /\ name = k)
  BY <1>1, Zenon DEF Named
<1> QED
  BY <1>1, <1>3, <1>4, Zenon

\* What a transaction makes of the configuration it has read.
LEMMA AppliedConfig ==
  ASSUME NEW v \in Config, NEW change, NEW code \in Code \cup {None},
         ChangeOK(change, code), applicable(v, change)
  PROVE  LET w == applyChannelChange(v, change)
             c == change.channel IN
         /\ w \in Config
         /\ change.op = "add" => DOMAIN w.channels = {c} \cup DOMAIN v.channels
         /\ change.op = "remove" => DOMAIN w.channels = DOMAIN v.channels \ {c}
         /\ change.op \in {"rename", "default"} =>
              DOMAIN w.channels = DOMAIN v.channels /\ c \in DOMAIN v.channels
         /\ \A k \in Code : \A x : Named(w.channels, k, x) =>
              Named(v.channels, k, x) \/ (x = c /\ code = k)
<1> DEFINE w == applyChannelChange(v, change)
           c == change.channel
<1>1. /\ v = [channels |-> v.channels, default |-> v.default]
      /\ DOMAIN v.channels \subseteq Chat \cup {Feishu}
      /\ v.channels \in [DOMAIN v.channels -> Code \cup {"own"}]
      /\ v.default \in Chat \cup {Feishu}
  BY ConfigForm, Zenon
<1>2. c \in Chat /\ change.op \in {"add", "rename", "remove", "default"}
  BY Zenon DEF ChangeOK
<1>3. CASE change.op = "add"
  <2>1. /\ change.name \in Code \cup {"own"}
        /\ \A k \in Code : change.name = k => code = k
    BY <1>3, BindingAssumption, Zenon DEF ChangeOK
  <2> DEFINE default == IF change.default THEN c ELSE v.default
             f == with(v.channels, c, change.name)
  <2>2. w = [channels |-> f, default |-> default]
    BY <1>3, Zenon DEF applyChannelChange
  <2>3. default \in Chat \cup {Feishu}
    BY <1>1, <1>2, Zenon
  <2> HIDE DEF default
  <2>4. /\ [channels |-> f, default |-> default] \in Config
        /\ DOMAIN f = {c} \cup DOMAIN v.channels
        /\ \A k, x : Named(f, k, x) =>
             Named(v.channels, k, x) \/ (x = c /\ change.name = k)
    BY <1>2, <2>1, <2>3, WithChannel, Zenon
  <2> HIDE DEF f
  <2>5. /\ w \in Config /\ DOMAIN w.channels = {c} \cup DOMAIN v.channels
        /\ \A k, x : Named(w.channels, k, x) =>
             Named(v.channels, k, x) \/ (x = c /\ change.name = k)
    BY <2>2, <2>4
  <2> QED
    BY <1>3, <2>1, <2>5, Zenon
<1>4. CASE change.op = "rename"
  <2>1. w = [v EXCEPT !.channels[c] = "own"] /\ c \in DOMAIN v.channels
    BY <1>4, Zenon DEF applyChannelChange, applicable
  <2>2. w = [channels |-> [v.channels EXCEPT ![c] = "own"], default |-> v.default]
    BY <1>1, <2>1, Zenon
  <2>3. [v.channels EXCEPT ![c] = "own"] \in [DOMAIN v.channels -> Code \cup {"own"}]
    BY <1>1, Zenon
  <2>4. w \in Config
    BY <1>1, <2>2, <2>3, ConfigMade
  <2>5. \A k \in Code : \A x : Named(w.channels, k, x) => Named(v.channels, k, x)
    BY <1>1, <2>2, BindingAssumption DEF Named
  <2> QED
    BY <1>4, <2>1, <2>2, <2>4, <2>5
<1>5. CASE change.op = "remove"
  <2> DEFINE f == Restrict(v.channels, DOMAIN v.channels \ {c})
             default == IF v.default = c THEN change.replacement ELSE v.default
  <2>1. w = [channels |-> f, default |-> default]
    BY <1>5, Zenon DEF applyChannelChange
  <2>2. default \in Chat \cup {Feishu}
    BY <1>1, <1>5, Zenon DEF applicable
  <2>3. f = [x \in DOMAIN v.channels \ {c} |-> v.channels[x]]
    BY Zenon DEF Restrict
  <2>4. f \in [DOMAIN v.channels \ {c} -> Code \cup {"own"}]
    BY <1>1, <2>3, Zenon
  <2>5. w \in Config
    <3> HIDE DEF f, default
    <3> QED
      BY <1>1, <2>1, <2>2, <2>4, ConfigMade
  <2>6. \A k \in Code : \A x : Named(w.channels, k, x) => Named(v.channels, k, x)
    BY <2>1, <2>3 DEF Named
  <2> QED
    BY <1>5, <2>1, <2>3, <2>5, <2>6
<1>6. CASE change.op = "default"
  <2>1. w = [v EXCEPT !.default = c] /\ c \in DOMAIN v.channels
    BY <1>6, Zenon DEF applyChannelChange, applicable
  <2>2. w = [channels |-> v.channels, default |-> c]
    BY <1>1, <2>1, Zenon
  <2>3. w \in Config
    BY <1>1, <1>2, <2>2, ConfigMade
  <2> QED
    BY <1>6, <2>1, <2>2, <2>3, Zenon
<1> QED
  BY <1>2, <1>3, <1>4, <1>5, <1>6, Zenon

-----------------------------------------------------------------------------
\* How a step changes the record of its process.

\* A process goes on as s, with the files as they are: what it knows
\* of config.json is true, and a new destination is the one the code is in.
Advance(s) ==
  /\ ProcessOK(s)
  /\ s.pc \in ConfigPlaces => SavedOnly(s.before)
  /\ s.pc = "save" => "config" \in stolen \/ Covers(s.before)
  /\ place(s) = "commit" => s.change.channel \in saved
  /\ \A k \in Code, c \in Chat \cup {Feishu} : GoesTo(s, k, c) =>
       Destination(k, c) \/ posted[k] = {c}

moved(r, pc) == [r EXCEPT !.pc = pc]
over(pc) == [NoProcess EXCEPT !.pc = pc]

LEMMA Goes ==
  ASSUME NEW p \in Process, NEW pc, goes(p, pc)
  PROVE  /\ pc \in Over => process' = [process EXCEPT ![p] = over(pc)]
         /\ pc \notin Over => process' = [process EXCEPT ![p] = moved(process[p], pc)]
BY Zenon DEF goes, over, moved

LEMMA Changed ==
  ASSUME ProcessType, NEW p \in Process, NEW s, process' = [process EXCEPT ![p] = s]
  PROVE  /\ process' = [q \in Process |-> IF q = p THEN s ELSE process[q]]
         /\ process'[p] = s
         /\ \A q \in Process : q # p => process'[q] = process[q]
<1>1. process' = [q \in Process |-> IF q = p THEN s ELSE process[q]]
  BY Zenon DEF ProcessType
<1> QED
  BY <1>1, Zenon

LEMMA Moved ==
  ASSUME NEW r, ProcessOK(r), NEW pc
  PROVE  /\ moved(r, pc) = [x \in ProcessFields |-> moved(r, pc)[x]]
         /\ moved(r, pc).pc = pc /\ moved(r, pc).code = r.code
         /\ moved(r, pc).change = r.change /\ moved(r, pc).before = r.before
         /\ moved(r, pc).then = r.then
BY Zenon DEF ProcessOK, ProcessFields, moved

LEMMA OverIs ==
  ASSUME NEW pc
  PROVE  /\ over(pc) = [x \in ProcessFields |-> over(pc)[x]]
         /\ over(pc).pc = pc /\ over(pc).code = None
BY Zenon DEF over, NoProcess, ProcessFields

LEMMA OverAdvances ==
  ASSUME NEW pc \in Over
  PROVE  Advance(over(pc)) /\ \A l : ~Holds(over(pc), l)
<1> DEFINE s == over(pc)
<1>1. /\ s = [x \in ProcessFields |-> s[x]] /\ s.code = None /\ s.pc = pc
      /\ place(s) = pc
  BY OverIs, Zenon DEF place, Over
<1> HIDE DEF s
<1>2. ProcessOK(s)
  BY <1>1, Zenon DEF ProcessOK, Over, RecordPlaces, ChangePlaces, ConfigPlaces
<1>3. Advance(s) /\ \A l : ~Holds(s, l)
  BY <1>1, <1>2, Zenon DEF Advance, Over, ChangePlaces, ConfigPlaces, GoesTo, Holds, HoldsAt
<1> QED
  BY <1>3, Zenon DEF s

\* A process that keeps its change and its configuration.
LEMMA MovedAdvances ==
  ASSUME BindingInv, NEW p \in Process, NEW pc, pc # "stale",
         pc \in RecordPlaces => process[p].code # None,
         pc \in ChangePlaces => place(process[p]) \in ChangePlaces,
         pc \in ConfigPlaces => process[p].pc \in ConfigPlaces,
         pc \in {"compare", "save"} => process[p].pc \in {"compare", "save"},
         pc = "save" => "config" \in stolen \/ Covers(process[p].before),
         pc = "commit" => process[p].change.channel \in saved
  PROVE  Advance(moved(process[p], pc))
<1> DEFINE r == process[p]
           s == moved(r, pc)
<1>1. ProcessOK(r) /\ FromTransactions
  BY Zenon DEF BindingInv, ProcessType, ConfigInv
<1>2. /\ s = [x \in ProcessFields |-> s[x]] /\ s.pc = pc /\ s.code = r.code
      /\ s.change = r.change /\ s.before = r.before /\ s.then = r.then
      /\ place(s) = pc
  BY <1>1, Moved DEF place
<1> HIDE DEF s
<1>3. ProcessOK(s)
  BY <1>1, <1>2, Zenon DEF ProcessOK
<1>4. /\ s.pc \in ConfigPlaces => SavedOnly(s.before)
      /\ s.pc = "save" => "config" \in stolen \/ Covers(s.before)
      /\ place(s) = "commit" => s.change.channel \in saved
  BY <1>1, <1>2, Zenon DEF FromTransactions
<1>5. ASSUME NEW k \in Code, NEW c \in Chat \cup {Feishu}, GoesTo(s, k, c)
      PROVE  Destination(k, c)
  <2>1. GoesTo(r, k, c)
    BY <1>2, <1>5, Zenon DEF GoesTo
  <2> QED
    BY <2>1, Zenon DEF Destination
<1>6. Advance(s)
  BY <1>3, <1>4, <1>5, Zenon DEF Advance
<1> QED
  BY <1>6, Zenon DEF s

\* Steps that leave config.json and the chats alone.
LEMMA ProcessOnly ==
  ASSUME BindingInv, NEW p \in Process, NEW s, process' = [process EXCEPT ![p] = s],
         Advance(s), UNCHANGED <<config, saved, deleted, dropped, posted>>,
         stolen \subseteq stolen',
         \A k \in Code : boundTo'[k] # None => boundTo'[k] \in saved
  PROVE  ProcessType' /\ ConfigInv'
<1>1. /\ process' = [q \in Process |-> IF q = p THEN s ELSE process[q]]
      /\ process'[p] = s /\ \A q \in Process : q # p => process'[q] = process[q]
  BY Changed, Zenon DEF BindingInv
<1>2. ProcessType'
  BY <1>1, Zenon DEF BindingInv, ProcessType, Advance
<1>3. FromTransactions'
  BY <1>1, Zenon DEF BindingInv, ConfigInv, FromTransactions, SavedOnly, Advance
<1>4. Covered'
  BY <1>1, Zenon DEF BindingInv, ConfigInv, Covered, Covers, Channels, Advance
<1>5. CommitsSaved'
  BY <1>1, Zenon DEF BindingInv, ConfigInv, CommitsSaved, Advance
<1>6. OneDestination'
  <2> SUFFICES ASSUME NEW k \in Code
               PROVE  /\ \A c \in Chat \cup {Feishu} : Destination(k, c)' => c \in posted[k]
                      /\ \A c, e \in Chat \cup {Feishu} :
                           Destination(k, c)' /\ Destination(k, e)' => c = e
    BY Zenon DEF OneDestination
  <2>1. ASSUME NEW c \in Chat \cup {Feishu}, Destination(k, c)'
        PROVE  Destination(k, c) \/ posted[k] = {c}
    <3>1. CASE config' # None /\ Named(config.channels, k, c)'
      BY <3>1, Zenon DEF Destination, Named
    <3>2. ASSUME NEW q \in Process, GoesTo(process[q], k, c)'
          PROVE  Destination(k, c) \/ posted[k] = {c}
      <4>1. GoesTo(process'[q], k, c)
        BY <3>2, Zenon DEF GoesTo, Named
      <4>2. CASE q = p
        BY <1>1, <4>1, <4>2, Zenon DEF Advance
      <4>3. CASE q # p
        BY <1>1, <4>1, <4>3, Zenon DEF Destination
      <4> QED
        BY <4>2, <4>3, Zenon
    <3> QED
      BY <2>1, <3>1, <3>2, Zenon DEF Destination
  <2>2. /\ \A c \in Chat \cup {Feishu} : Destination(k, c) => c \in posted[k]
        /\ \A c, e \in Chat \cup {Feishu} : Destination(k, c) /\ Destination(k, e) => c = e
    BY Zenon DEF BindingInv, ConfigInv, OneDestination
  <2> QED
    BY <2>1, <2>2, Zenon
<1> QED
  BY <1>2, <1>3, <1>4, <1>5, <1>6, Zenon DEF ConfigInv

-----------------------------------------------------------------------------
\* The locks.

LockType == [owner : Process, old : BOOLEAN] \cup {NoLock}

LEMMA LockKept ==
  ASSUME BindingInv, NEW p \in Process, NEW s, process' = [process EXCEPT ![p] = s],
         process[p].pc # "dead", UNCHANGED <<lock, stolen>>,
         \A l \in Names : Holds(s, l) => Holds(process[p], l)
  PROVE  Locked'
<1>1. process'[p] = s /\ \A q \in Process : q # p => process'[q] = process[q]
  BY Changed, Zenon DEF BindingInv
<1>2. Locked /\ lock \in [Names -> LockType]
  BY Zenon DEF BindingInv, FileType, LockType
<1>3. ASSUME NEW q \in Process, NEW l \in Names, Holds(process'[q], l), l \notin stolen
      PROVE  lock[l] # NoLock /\ lock[l].owner = q
  BY <1>1, <1>2, <1>3 DEF Locked
<1>4. ASSUME NEW l \in Names, lock[l] # NoLock, lock[l].old
      PROVE  process'[lock[l].owner].pc = "dead"
  BY <1>1, <1>2, <1>4 DEF Locked, LockType
<1> QED
  BY <1>3, <1>4 DEF Locked, Holds, HoldsAt

LEMMA LockTaken ==
  ASSUME BindingInv, NEW p \in Process, NEW s, process' = [process EXCEPT ![p] = s],
         process[p].pc # "dead", NEW l \in Names, Locks(p, l), UNCHANGED stolen,
         \A m \in Names : Holds(s, m) => m = l
  PROVE  Locked' /\ lock' \in [Names -> LockType]
<1>1. process'[p] = s /\ \A q \in Process : q # p => process'[q] = process[q]
  BY Changed, Zenon DEF BindingInv
<1>2. Locked /\ lock \in [Names -> LockType]
  BY Zenon DEF BindingInv, FileType, LockType
<1>3. LockFile(p) \in [owner : Process, old : BOOLEAN]
  BY Zenon DEF LockFile
<1>4. /\ lock' = [lock EXCEPT ![l] = LockFile(p)] /\ lock[l] = NoLock
      /\ LockFile(p).owner = p /\ LockFile(p).old = FALSE /\ LockFile(p) # NoLock
  BY <1>3, BindingAssumption, Zenon DEF Locks, created, isHeld, LockFile
<1>5. lock' \in [Names -> LockType]
  BY <1>2, <1>3, <1>4, Zenon DEF LockType
<1>6. ASSUME NEW q \in Process, NEW m \in Names, Holds(process'[q], m), m \notin stolen
      PROVE  lock'[m] # NoLock /\ lock'[m].owner = q
  <2>1. CASE q = p
    BY <1>1, <1>2, <1>4, <1>6, <2>1, Zenon
  <2>2. CASE q # p
    <3>1. lock[m] # NoLock /\ lock[m].owner = q
      BY <1>1, <1>2, <1>6, <2>2, Zenon DEF Locked
    <3> QED
      BY <1>2, <1>4, <3>1, Zenon
  <2> QED
    BY <2>1, <2>2, Zenon
<1>7. ASSUME NEW m \in Names, lock'[m] # NoLock, lock'[m].old
      PROVE  process'[lock'[m].owner].pc = "dead"
  BY <1>1, <1>2, <1>4, <1>7 DEF Locked, LockType
<1> QED
  BY <1>5, <1>6, <1>7 DEF Locked, Holds, HoldsAt

LEMMA LockGivenBack ==
  ASSUME BindingInv, NEW p \in Process, NEW s, process' = [process EXCEPT ![p] = s],
         process[p].pc # "dead", NEW l \in Names, Unlocks(p, l), UNCHANGED stolen,
         \A m \in Names : ~Holds(s, m)
  PROVE  Locked' /\ lock' \in [Names -> LockType]
<1>1. process'[p] = s /\ \A q \in Process : q # p => process'[q] = process[q]
  BY Changed, Zenon DEF BindingInv
<1>2. Locked /\ lock \in [Names -> LockType]
  BY Zenon DEF BindingInv, FileType, LockType
<1>3. \/ lock' = lock
      \/ lock' = [lock EXCEPT ![l] = NoLock] /\ lock[l].owner = p
  BY Zenon DEF Unlocks, released, removed
<1>4. lock' \in [Names -> LockType]
  BY <1>2, <1>3, Zenon DEF LockType
<1>5. ASSUME NEW q \in Process, NEW m \in Names, Holds(process'[q], m), m \notin stolen
      PROVE  lock'[m] # NoLock /\ lock'[m].owner = q
  <2>1. q # p
    BY <1>1, <1>5, Zenon
  <2>2. lock[m] # NoLock /\ lock[m].owner = q
    BY <1>1, <1>2, <1>5, <2>1, Zenon DEF Locked
  <2> QED
    BY <1>2, <1>3, <2>1, <2>2, Zenon
<1>6. ASSUME NEW m \in Names, lock'[m] # NoLock, lock'[m].old
      PROVE  process'[lock'[m].owner].pc = "dead"
  <2>1. lock'[m] = lock[m]
    BY <1>2, <1>3, <1>6, Zenon
  <2> QED
    BY <1>1, <1>2, <1>6, <2>1 DEF Locked, LockType
<1> QED
  BY <1>4, <1>5, <1>6 DEF Locked, Holds, HoldsAt

\* Only one process works under a lock that was not stolen.
LEMMA OneHolder ==
  ASSUME BindingInv, NEW p \in Process, NEW q \in Process, NEW l \in Names,
         Holds(process[p], l), Holds(process[q], l), l \notin stolen
  PROVE  p = q
BY DEF BindingInv, Locked

LEMMA NobodyHolds ==
  ASSUME BindingInv, NEW q \in Process, NEW l \in Names, ~isHeld(lock, l), l \notin stolen
  PROVE  ~Holds(process[q], l)
BY Zenon DEF BindingInv, Locked, isHeld

-----------------------------------------------------------------------------
\* The decisions about a code.

LEMMA NothingConsumed ==
  ASSUME BindingInv, NEW p \in Process, NEW s, process' = [process EXCEPT ![p] = s],
         UNCHANGED <<history, bound>>, stolen \subseteq stolen',
         s.pc \notin {"commitRemove", "cancelMove"}
  PROVE  ConsumedOnce'
<1>1. process'[p] = s /\ \A q \in Process : q # p => process'[q] = process[q]
  BY Changed, Zenon DEF BindingInv
<1>2. ConsumedOnce
  BY Zenon DEF BindingInv
<1>3. \A k \in Code, q \in Process : Consumes(k, q)' => Consumes(k, q)
  BY <1>1, Zenon DEF Consumes
<1> QED
  BY <1>1, <1>2, <1>3 DEF ConsumedOnce

-----------------------------------------------------------------------------
\* Steps that decide nothing: they move a record between pending and inflight,
\* take or give back a lock, or only go on.

RecordsType ==
  pending \in [Code -> Record \cup {None}] /\ inflight \in [Code -> Record \cup {None}]
Quiet ==
  UNCHANGED <<config, saved, deleted, dropped, posted, history, bound, boundTo, stolen>>

\* What a step does with the locks, if it ends at pc with that code.
LocksKept(p, pc, code) ==
  UNCHANGED lock /\ \A l \in Names : HoldsAt(pc, code, l) => Holds(process[p], l)
LocksTaken(p, pc, code) ==
  \E l \in Names : Locks(p, l) /\ \A m \in Names : HoldsAt(pc, code, m) => m = l
LocksFreed(p, pc, code) ==
  \E l \in Names : Unlocks(p, l) /\ \A m \in Names : ~HoldsAt(pc, code, m)
LocksDone(p, pc, code) ==
  LocksKept(p, pc, code) \/ LocksTaken(p, pc, code) \/ LocksFreed(p, pc, code)

LEMMA LocksAreDone ==
  ASSUME BindingInv, NEW p \in Process, NEW s, process' = [process EXCEPT ![p] = s],
         process[p].pc # "dead", LocksDone(p, s.pc, s.code), UNCHANGED stolen
  PROVE  Locked' /\ lock' \in [Names -> LockType]
<1>1. CASE LocksKept(p, s.pc, s.code)
  <2>1. Locked'
    BY <1>1, LockKept, Zenon DEF LocksKept, Holds
  <2> QED
    BY <1>1, <2>1, Zenon DEF LocksKept, BindingInv, FileType, LockType
<1>2. CASE LocksTaken(p, s.pc, s.code)
  BY <1>2, LockTaken, Zenon DEF LocksTaken, Holds
<1>3. CASE LocksFreed(p, s.pc, s.code)
  BY <1>3, LockGivenBack, Zenon DEF LocksFreed, Holds
<1> QED
  BY <1>1, <1>2, <1>3, Zenon DEF LocksDone

LEMMA QuietStep ==
  ASSUME BindingInv, NEW p \in Process, NEW s, process' = [process EXCEPT ![p] = s],
         process[p].pc # "dead", Advance(s), s.pc \notin {"commitRemove", "cancelMove"},
         LocksDone(p, s.pc, s.code), Quiet, RecordsType'
  PROVE  BindingInv'
<1>1. Locked' /\ lock' \in [Names -> LockType]
  BY LocksAreDone, Zenon DEF Quiet
<1>2. ProcessType' /\ ConfigInv'
  <2>1. \A k \in Code : boundTo'[k] # None => boundTo'[k] \in saved
    BY Zenon DEF Quiet, BindingInv, ConfigInv, CommitsSaved
  <2> QED
    BY <2>1, ProcessOnly, Zenon DEF Quiet
<1>3. ConsumedOnce'
  BY NothingConsumed, Zenon DEF Quiet
<1>4. FileType'
  BY <1>1, Zenon DEF Quiet, BindingInv, FileType, RecordsType, LockType
<1> QED
  BY <1>1, <1>2, <1>3, <1>4, Zenon DEF BindingInv

LEMMA StepOver ==
  ASSUME BindingInv, NEW p \in Process, NEW pc \in Over, goes(p, pc),
         process[p].pc # "dead", UNCHANGED lock \/ \E l \in Names : Unlocks(p, l),
         Quiet, RecordsType'
  PROVE  BindingInv'
<1> DEFINE s == over(pc)
<1>1. process' = [process EXCEPT ![p] = s]
  BY Goes, Zenon
<1>2. Advance(s) /\ s.pc = pc /\ \A l : ~Holds(s, l)
  BY OverAdvances, OverIs, Zenon
<1> HIDE DEF s
<1>3. LocksDone(p, s.pc, s.code)
  BY <1>2, Zenon DEF LocksDone, LocksKept, LocksFreed, Holds
<1>4. s.pc \notin {"commitRemove", "cancelMove"}
  BY <1>2, Zenon DEF Over
<1> QED
  BY <1>1, <1>2, <1>3, <1>4, QuietStep, Zenon

LEMMA StepOn ==
  ASSUME BindingInv, NEW p \in Process, NEW pc, goes(p, pc),
         process[p].pc # "dead", pc \notin Over \cup {"stale", "commitRemove", "cancelMove"},
         pc \in RecordPlaces => process[p].code # None,
         pc \in ChangePlaces => place(process[p]) \in ChangePlaces,
         pc \in ConfigPlaces => process[p].pc \in ConfigPlaces,
         pc \in {"compare", "save"} => process[p].pc \in {"compare", "save"},
         pc = "save" => "config" \in stolen \/ Covers(process[p].before),
         pc = "commit" => process[p].change.channel \in saved,
         LocksDone(p, pc, process[p].code), Quiet, RecordsType'
  PROVE  BindingInv'
<1> DEFINE s == moved(process[p], pc)
<1>1. process' = [process EXCEPT ![p] = s]
  BY Goes, Zenon
<1>2. ProcessOK(process[p])
  BY Zenon DEF BindingInv, ProcessType
<1>3. s.pc = pc /\ s.code = process[p].code
  BY <1>2, Moved
<1>4. Advance(s)
  BY MovedAdvances, Zenon
<1> HIDE DEF s
<1> QED
  BY <1>1, <1>3, <1>4, QuietStep, Zenon

-----------------------------------------------------------------------------
\* The steps on a code's record.

\* A process at a step on a record has a code, whose record is one if present.
LEMMA OnRecord ==
  ASSUME BindingInv, NEW p \in Process, process[p].pc \in RecordPlaces
  PROVE  /\ codeOf(p) \in Code /\ codeOf(p) \in Names /\ process[p].code = codeOf(p)
         /\ process[p].code # None
         /\ process[p].pc # "dead" /\ process[p].pc # "stale"
         /\ place(process[p]) = process[p].pc
         /\ pending \in [Code -> Record \cup {None}]
         /\ inflight \in [Code -> Record \cup {None}]
<1>1. ProcessOK(process[p])
  BY Zenon DEF BindingInv, ProcessType
<1>2. process[p].pc # "dead" /\ process[p].pc # "stale"
  BY Zenon DEF RecordPlaces
<1>3. place(process[p]) = process[p].pc
  BY <1>2, Zenon DEF place
<1> QED
  BY <1>1, <1>2, <1>3, Zenon DEF ProcessOK, codeOf, Names, BindingInv, FileType

LEMMA ChangedRecord ==
  /\ None \in Record \cup {None}
  /\ NewRecord \in Record
  /\ \A r \in Record : cleared(r) \in Record
  /\ \A r \in Record : [r EXCEPT !.fate = "consumed"] \in Record
  /\ \A r \in Record : [r EXCEPT !.fate = "cancelled"] \in Record
  /\ \A r \in Record : [r EXCEPT !.lease = "over"] \in Record
  /\ \A r \in Record, p \in Process : [r EXCEPT !.claim = p, !.lease = "runs"] \in Record
BY Zenon DEF Record, NewRecord, cleared

\* One code's record is replaced.
LEMMA Replaced ==
  ASSUME NEW dir \in [Code -> Record \cup {None}], NEW k \in Code, NEW r \in Record \cup {None}
  PROVE  [dir EXCEPT ![k] = r] \in [Code -> Record \cup {None}]
OBVIOUS

LEMMA ClaimStep ==
  ASSUME BindingInv, NEW p \in Process, Claim(p)
  PROVE  BindingInv'
<1> DEFINE k == codeOf(p)
<1>1. process[p].pc = "claim" /\ process[p].pc \in RecordPlaces
  BY Zenon DEF Claim, at, RecordPlaces
<1>2. /\ k \in Code /\ k \in Names /\ process[p].code = k /\ process[p].code # None
      /\ process[p].pc # "dead" /\ RecordsType
  BY <1>1, OnRecord, Zenon DEF RecordsType
<1>3. RecordsType'
  <2>1. \/ inflight' = inflight
        \/ inflight' = [inflight EXCEPT ![k] = None]
        \/ inflight[k] # None /\ inflight' = [inflight EXCEPT ![k] = cleared(inflight[k])]
    BY Zenon DEF Claim
  <2>2. inflight' \in [Code -> Record \cup {None}]
    <3>1. inflight[k] # None => cleared(inflight[k]) \in Record
      BY <1>2, ChangedRecord, Zenon DEF RecordsType
    <3> QED
      BY <1>2, <2>1, <3>1, Zenon DEF RecordsType
  <2> QED
    BY <1>2, <2>2, Zenon DEF Claim, RecordsType
<1>4. Quiet
  BY Zenon DEF Claim, Quiet, ghosts, world
<1>5. PICK pc \in {"recoverMove", "claimMove"} : goes(p, pc)
  BY Zenon DEF Claim
<1>6. LocksDone(p, pc, process[p].code)
  BY <1>2, <1>5, Zenon DEF Claim, LocksDone, LocksTaken, HoldsAt
<1> QED
  BY <1>2, <1>3, <1>4, <1>5, <1>6, StepOn, Zenon DEF Over, ChangePlaces, ConfigPlaces

LEMMA RecoverStep ==
  ASSUME BindingInv, NEW p \in Process, recoverExpiredFile(p)
  PROVE  BindingInv'
<1> DEFINE k == codeOf(p)
<1>1. process[p].pc = "recoverMove" /\ process[p].pc \in RecordPlaces
  BY Zenon DEF recoverExpiredFile, at, RecordPlaces
<1>2. /\ k \in Code /\ k \in Names /\ process[p].code = k /\ process[p].code # None
      /\ process[p].pc # "dead" /\ RecordsType
  BY <1>1, OnRecord, Zenon DEF RecordsType
<1>3. Quiet
  BY Zenon DEF recoverExpiredFile, Quiet, ghosts, world
<1>4. CASE inflight[k] # None
  <2>1. RecordsType'
    BY <1>2, <1>4, Replaced, Zenon DEF recoverExpiredFile, RecordsType
  <2>2. goes(p, "claimMove") /\ UNCHANGED lock
    BY <1>4, Zenon DEF recoverExpiredFile
  <2>3. LocksDone(p, "claimMove", process[p].code)
    BY <1>1, <2>2, Zenon DEF LocksDone, LocksKept, HoldsAt, Holds
  <2> QED
    BY <1>2, <1>3, <2>1, <2>2, <2>3, StepOn, Zenon DEF Over, ChangePlaces, ConfigPlaces
<1>5. CASE inflight[k] = None
  <2>1. goes(p, "error") /\ Unlocks(p, k) /\ RecordsType' /\ "error" \in Over
    BY <1>2, <1>5, Zenon DEF recoverExpiredFile, RecordsType, Over
  <2> QED
    BY <1>2, <1>3, <2>1, StepOver, Zenon
<1> QED
  BY <1>4, <1>5, Zenon

LEMMA ClaimMoveStep ==
  ASSUME BindingInv, NEW p \in Process, ClaimMove(p)
  PROVE  BindingInv'
<1> DEFINE k == codeOf(p)
<1>1. process[p].pc = "claimMove" /\ process[p].pc \in RecordPlaces
  BY Zenon DEF ClaimMove, at, RecordPlaces
<1>2. /\ k \in Code /\ k \in Names /\ process[p].code = k /\ process[p].code # None
      /\ process[p].pc # "dead" /\ RecordsType
  BY <1>1, OnRecord, Zenon DEF RecordsType
<1>3. Quiet
  BY Zenon DEF ClaimMove, Quiet, ghosts, world
<1>4. CASE pending[k] # None
  <2>1. RecordsType'
    BY <1>2, <1>4, Replaced, Zenon DEF ClaimMove, RecordsType
  <2>2. goes(p, "claimWrite") /\ UNCHANGED lock
    BY <1>4, Zenon DEF ClaimMove
  <2>3. LocksDone(p, "claimWrite", process[p].code)
    BY <1>1, <2>2, Zenon DEF LocksDone, LocksKept, HoldsAt, Holds
  <2> QED
    BY <1>2, <1>3, <2>1, <2>2, <2>3, StepOn, Zenon DEF Over, ChangePlaces, ConfigPlaces
<1>5. CASE pending[k] = None
  <2>1. goes(p, "error") /\ Unlocks(p, k) /\ RecordsType' /\ "error" \in Over
    BY <1>2, <1>5, Zenon DEF ClaimMove, RecordsType, Over
  <2> QED
    BY <1>2, <1>3, <2>1, StepOver, Zenon
<1> QED
  BY <1>4, <1>5, Zenon

LEMMA ClaimWriteStep ==
  ASSUME BindingInv, NEW p \in Process, ClaimWrite(p)
  PROVE  BindingInv'
<1> DEFINE k == codeOf(p)
<1>1. process[p].pc = "claimWrite" /\ process[p].pc \in RecordPlaces
  BY Zenon DEF ClaimWrite, at, RecordPlaces
<1>2. /\ k \in Code /\ k \in Names /\ process[p].code = k /\ process[p].code # None
      /\ process[p].pc # "dead" /\ RecordsType
  BY <1>1, OnRecord, Zenon DEF RecordsType
<1>3. Quiet /\ Unlocks(p, k)
  BY Zenon DEF ClaimWrite, Quiet, ghosts, world
<1>4. \/ goes(p, "error") /\ UNCHANGED <<pending, inflight>>
      \/ /\ goes(p, "error") /\ inflight[k] # None
         /\ pending' = [pending EXCEPT ![k] = inflight[k]]
         /\ inflight' = [inflight EXCEPT ![k] = None]
      \/ /\ goes(p, "discover") /\ inflight[k] # None /\ UNCHANGED pending
         /\ inflight' = [inflight EXCEPT ![k].claim = p, ![k].lease = "runs"]
  BY Zenon DEF ClaimWrite
<1>5. inflight[k] # None =>
        [inflight EXCEPT ![k].claim = p, ![k].lease = "runs"]
          = [inflight EXCEPT ![k] = [inflight[k] EXCEPT !.claim = p, !.lease = "runs"]]
  BY <1>2, Zenon DEF RecordsType
<1>6. RecordsType'
  <2>1. inflight[k] # None =>
          [inflight[k] EXCEPT !.claim = p, !.lease = "runs"] \in Record
    BY <1>2, ChangedRecord, Zenon DEF RecordsType
  <2> QED
    BY <1>2, <1>4, <1>5, <2>1 DEF RecordsType
<1>7. CASE goes(p, "error")
  BY <1>2, <1>3, <1>6, <1>7, StepOver, Zenon DEF Over
<1>8. CASE goes(p, "discover")
  <2>1. LocksDone(p, "discover", process[p].code)
    BY <1>2, <1>3, Zenon DEF LocksDone, LocksFreed, HoldsAt
  <2> QED
    BY <1>2, <1>3, <1>6, <1>8, <2>1, StepOn, Zenon DEF Over, ChangePlaces, ConfigPlaces
<1> QED
  BY <1>4, <1>7, <1>8, Zenon

LEMMA ReleaseStep ==
  ASSUME BindingInv, NEW p \in Process, Release(p)
  PROVE  BindingInv'
<1> DEFINE k == codeOf(p)
<1>1. process[p].pc = "release" /\ process[p].pc \in RecordPlaces
  BY Zenon DEF Release, at, RecordPlaces
<1>2. /\ k \in Code /\ k \in Names /\ process[p].code = k /\ process[p].code # None
      /\ process[p].pc # "dead" /\ RecordsType
  BY <1>1, OnRecord, Zenon DEF RecordsType
<1>3. Quiet
  BY Zenon DEF Release, Quiet, ghosts, world
<1>4. CASE inflight[k] # None /\ inflight[k].claim = p
  <2>1. cleared(inflight[k]) \in Record
    BY <1>2, <1>4, ChangedRecord, Zenon DEF RecordsType
  <2>2. /\ goes(p, "releaseMove") /\ Locks(p, k) /\ UNCHANGED pending
        /\ inflight' = [inflight EXCEPT ![k] = cleared(inflight[k])]
    BY <1>4, Zenon DEF Release
  <2>3. RecordsType'
    BY <1>2, <2>1, <2>2, Zenon DEF RecordsType
  <2>4. LocksDone(p, "releaseMove", process[p].code)
    BY <1>2, <2>2, Zenon DEF LocksDone, LocksTaken, HoldsAt
  <2> QED
    BY <1>2, <1>3, <2>2, <2>3, <2>4, StepOn, Zenon DEF Over, ChangePlaces, ConfigPlaces
<1>5. CASE ~(inflight[k] # None /\ inflight[k].claim = p)
  <2>1. goes(p, "error") /\ UNCHANGED lock /\ RecordsType' /\ "error" \in Over
    BY <1>2, <1>5, Zenon DEF Release, RecordsType, Over
  <2> QED
    BY <1>2, <1>3, <2>1, StepOver, Zenon
<1> QED
  BY <1>4, <1>5, Zenon

LEMMA ReleaseMoveStep ==
  ASSUME BindingInv, NEW p \in Process, ReleaseMove(p)
  PROVE  BindingInv'
<1> DEFINE k == codeOf(p)
<1>1. process[p].pc = "releaseMove" /\ process[p].pc \in RecordPlaces
  BY Zenon DEF ReleaseMove, at, RecordPlaces
<1>2. /\ k \in Code /\ k \in Names /\ process[p].pc # "dead" /\ RecordsType
  BY <1>1, OnRecord, Zenon DEF RecordsType
<1>3. Quiet /\ Unlocks(p, k) /\ goes(p, "error") /\ "error" \in Over
  BY Zenon DEF ReleaseMove, Quiet, ghosts, world, Over
<1>4. RecordsType'
  BY <1>2, Replaced, Zenon DEF ReleaseMove, RecordsType
<1> QED
  BY <1>2, <1>3, <1>4, StepOver, Zenon

-----------------------------------------------------------------------------
\* The search, the transaction up to its write, and the look at an existing
\* channel.

LEMMA DiscoverStep ==
  ASSUME BindingInv, NEW p \in Process, DiscoverAndVerify(p)
  PROVE  BindingInv'
<1> DEFINE k == codeOf(p)
           r == process[p]
<1>1. process[p].pc = "discover" /\ process[p].pc \in RecordPlaces
  BY Zenon DEF DiscoverAndVerify, at, RecordPlaces
<1>2. /\ k \in Code /\ k \in Names /\ process[p].code = k /\ process[p].code # None
      /\ process[p].pc # "dead" /\ RecordsType
  BY <1>1, OnRecord, Zenon DEF RecordsType
<1>3. Quiet /\ UNCHANGED lock /\ RecordsType'
  BY <1>2, Zenon DEF DiscoverAndVerify, Quiet, RecordsType, ghosts, world, records
<1>4. CASE goes(p, "release")
  <2>1. LocksDone(p, "release", process[p].code)
    BY <1>3, Zenon DEF LocksDone, LocksKept, HoldsAt
  <2> QED
    BY <1>2, <1>3, <1>4, <2>1, StepOn, Zenon DEF Over, ChangePlaces, ConfigPlaces
<1>5. ASSUME NEW c \in uniqueExactDestination(k), NEW pc \in {"initialize", "apply"},
             process' = [process EXCEPT ![p].pc = pc,
               ![p].change = [op |-> "add", channel |-> c, name |-> k, default |-> FALSE]]
      PROVE  BindingInv'
  <2> DEFINE change == [op |-> "add", channel |-> c, name |-> k, default |-> FALSE]
             s == [r EXCEPT !.pc = pc, !.change = change]
  <2>1. Cardinality(posted[k]) = 1 /\ c \in posted[k]
    BY <1>5, Zenon DEF uniqueExactDestination
  <2>2. posted[k] = {c} /\ c \in Chat
    <3>1. IsFiniteSet(posted[k]) /\ posted[k] \in SUBSET Chat
      BY <1>2, Zenon DEF BindingInv, FileType
    <3> QED
      BY <2>1, <3>1, FS_Singleton
  <2>3. ProcessOK(r) /\ process = [q \in Process |-> process[q]]
    BY Zenon DEF BindingInv, ProcessType
  <2>4. ChangeOK(change, k) /\ change.channel = c
    BY <1>2, <2>2, Zenon DEF ChangeOK
  <2> HIDE DEF change
  <2>5. process' = [process EXCEPT ![p] = s]
    BY <1>5, <2>3, Zenon DEF change
  <2>6. /\ s = [x \in ProcessFields |-> s[x]] /\ s.pc = pc /\ s.code = k
        /\ s.change = change
    BY <1>2, <2>3, Zenon DEF ProcessOK, ProcessFields
  <2> HIDE DEF s
  <2>7. place(s) = pc
    BY <2>6, Zenon DEF place
  <2>8. ProcessOK(s)
    BY <1>2, <2>4, <2>6, <2>7, Zenon DEF ProcessOK, ConfigPlaces
  <2>9. Advance(s)
    BY <2>2, <2>4, <2>6, <2>7, <2>8, Zenon DEF Advance, ConfigPlaces, GoesTo
  <2>10. LocksDone(p, s.pc, s.code) /\ s.pc \notin {"commitRemove", "cancelMove"}
    BY <1>3, <2>6, Zenon DEF LocksDone, LocksKept, HoldsAt
  <2> QED
    BY <1>2, <1>3, <2>5, <2>9, <2>10, QuietStep, Zenon
<1> QED
  BY <1>4, <1>5, Zenon DEF DiscoverAndVerify

\* A process at a step of a transaction has a change to make.
LEMMA OnChange ==
  ASSUME BindingInv, NEW p \in Process, process[p].pc \in ChangePlaces
  PROVE  /\ process[p].code \in Code \cup {None} /\ codeOf(p) = process[p].code
         /\ ChangeOK(process[p].change, process[p].code)
         /\ process[p].change.channel \in Chat
         /\ process[p].pc # "dead" /\ process[p].pc # "stale"
         /\ place(process[p]) = process[p].pc
         /\ RecordsType
         /\ config # None => config \in Config /\ SavedOnly(config)
         /\ process[p].pc \in ConfigPlaces => process[p].before \in Config
         /\ process[p].pc \in {"compare", "save"} =>
              applicable(process[p].before, process[p].change)
<1>1. ProcessOK(process[p])
  BY Zenon DEF BindingInv, ProcessType
<1>2. process[p].pc # "dead" /\ process[p].pc # "stale"
  BY Zenon DEF ChangePlaces
<1>3. place(process[p]) = process[p].pc
  BY <1>2, Zenon DEF place
<1>4. RecordsType /\ (config # None => config \in Config /\ SavedOnly(config))
  BY Zenon DEF BindingInv, FileType, RecordsType, ConfigInv, FromTransactions
<1> QED
  BY <1>1, <1>2, <1>3, <1>4, Zenon DEF ProcessOK, codeOf, ChangeOK

LEMMA ApplyStep ==
  ASSUME BindingInv, NEW p \in Process, Apply(p)
  PROVE  BindingInv'
<1> DEFINE r == process[p]
<1>1. r.pc = "apply" /\ r.pc \in ChangePlaces
  BY Zenon DEF Apply, at, ChangePlaces
<1>2. /\ r.code \in Code \cup {None} /\ codeOf(p) = r.code
      /\ ChangeOK(r.change, r.code) /\ r.pc # "dead" /\ place(r) = r.pc /\ RecordsType
      /\ config # None => config \in Config /\ SavedOnly(config)
  BY <1>1, OnChange, Zenon
<1>3. Quiet /\ RecordsType'
  BY <1>2, Zenon DEF Apply, Quiet, RecordsType, ghosts, world, records
<1>4. CASE /\ config # None /\ applicable(config, r.change) /\ Locks(p, "config")
           /\ process' = [process EXCEPT ![p].pc = "compare", ![p].before = config]
  <2> DEFINE s == [r EXCEPT !.pc = "compare", !.before = config]
  <2>1. ProcessOK(r) /\ process = [q \in Process |-> process[q]]
    BY Zenon DEF BindingInv, ProcessType
  <2>2. process' = [process EXCEPT ![p] = s]
    BY <1>4, <2>1, Zenon
  <2>3. /\ s = [x \in ProcessFields |-> s[x]] /\ s.pc = "compare" /\ s.code = r.code
        /\ s.change = r.change /\ s.before = config
    BY <2>1, Zenon DEF ProcessOK, ProcessFields
  <2> HIDE DEF s
  <2>4. place(s) = "compare"
    BY <2>3, Zenon DEF place
  <2>5. ProcessOK(s)
    BY <1>2, <1>4, <2>3, <2>4, Zenon DEF ProcessOK, RecordPlaces
  <2>6. ASSUME NEW k \in Code, NEW c \in Chat \cup {Feishu}, GoesTo(s, k, c)
        PROVE  Destination(k, c)
    BY <1>1, <1>2, <1>4, <2>3, <2>6, Zenon DEF GoesTo, Destination
  <2>7. Advance(s)
    BY <1>2, <1>4, <2>3, <2>4, <2>5, <2>6, Zenon DEF Advance
  <2>8. LocksDone(p, s.pc, s.code)
    BY <1>4, <2>3, Zenon DEF LocksDone, LocksTaken, HoldsAt, Names
  <2>9. s.pc \notin {"commitRemove", "cancelMove"}
    BY <2>3, Zenon
  <2> QED
    BY <1>2, <1>3, <2>2, <2>7, <2>8, <2>9, QuietStep, Zenon
<1>5. CASE UNCHANGED lock /\ goes(p, "exists") /\ r.code # None
  <2>1. LocksDone(p, "exists", r.code)
    BY <1>5, Zenon DEF LocksDone, LocksKept, HoldsAt
  <2> QED
    BY <1>1, <1>2, <1>3, <1>5, <2>1, StepOn, Zenon DEF Over, ConfigPlaces
<1>6. CASE UNCHANGED lock /\ goes(p, "release") /\ r.code # None
  <2>1. LocksDone(p, "release", r.code)
    BY <1>6, Zenon DEF LocksDone, LocksKept, HoldsAt
  <2> QED
    BY <1>1, <1>2, <1>3, <1>6, <2>1, StepOn, Zenon DEF Over, ConfigPlaces, ChangePlaces
<1>7. CASE UNCHANGED lock /\ goes(p, "error")
  BY <1>2, <1>3, <1>7, StepOver, Zenon DEF Over
<1> QED
  BY <1>2, <1>4, <1>5, <1>6, <1>7, Zenon DEF Apply, isBind, failed

LEMMA CompareStep ==
  ASSUME BindingInv, NEW p \in Process, Compare(p)
  PROVE  BindingInv'
<1> DEFINE r == process[p]
<1>1. r.pc = "compare" /\ r.pc \in ChangePlaces /\ r.pc \in ConfigPlaces
  BY Zenon DEF Compare, at, ChangePlaces, ConfigPlaces
<1>2. /\ r.code \in Code \cup {None} /\ codeOf(p) = r.code
      /\ r.pc # "dead" /\ place(r) = r.pc /\ RecordsType /\ r.before \in Config
  BY <1>1, OnChange, Zenon
<1>3. Quiet /\ RecordsType'
  BY <1>2, Zenon DEF Compare, Quiet, RecordsType, ghosts, world, records
<1>4. CASE config = r.before
  <2>1. goes(p, "save") /\ UNCHANGED lock
    BY <1>4, Zenon DEF Compare
  <2>2. "config" \in stolen \/ Covers(r.before)
    BY <1>2, <1>4, ConfigIsNotNone, Zenon DEF BindingInv, ConfigInv, Covered, Covers, Channels
  <2>3. LocksDone(p, "save", r.code)
    BY <1>1, <2>1, Zenon DEF LocksDone, LocksKept, HoldsAt, Holds
  <2> QED
    BY <1>1, <1>2, <1>3, <2>1, <2>2, <2>3, StepOn, Zenon DEF Over, RecordPlaces
<1>5. CASE config # r.before
  <2>1. Unlocks(p, "config") /\ "config" \in Names /\ goes(p, failed(p))
    BY <1>5, Zenon DEF Compare, Names
  <2>2. CASE r.code # None
    <3>1. goes(p, "release")
      BY <1>2, <2>1, <2>2, Zenon DEF isBind, failed
    <3>2. LocksDone(p, "release", r.code)
      BY <2>1, Zenon DEF LocksDone, LocksFreed, HoldsAt
    <3> QED
      BY <1>2, <1>3, <2>2, <3>1, <3>2, StepOn, Zenon DEF Over, ConfigPlaces, ChangePlaces
  <2>3. CASE r.code = None
    <3>1. goes(p, "error")
      BY <1>2, <2>1, <2>3, Zenon DEF isBind, failed
    <3> QED
      BY <1>2, <1>3, <2>1, <3>1, StepOver, Zenon DEF Over
  <2> QED
    BY <2>2, <2>3, Zenon
<1> QED
  BY <1>4, <1>5, Zenon

LEMMA ExistsStep ==
  ASSUME BindingInv, NEW p \in Process, Exists(p)
  PROVE  BindingInv'
<1> DEFINE r == process[p]
<1>1. r.pc = "exists" /\ r.pc \in ChangePlaces /\ r.pc \in RecordPlaces
  BY Zenon DEF Exists, at, ChangePlaces, RecordPlaces
<1>2. /\ r.change.channel \in Chat /\ r.code # None
      /\ r.pc # "dead" /\ place(r) = r.pc /\ RecordsType
      /\ config # None => SavedOnly(config)
  BY <1>1, OnChange, OnRecord, Zenon
<1>3. Quiet /\ RecordsType' /\ UNCHANGED lock
  BY <1>2, Zenon DEF Exists, Quiet, RecordsType, ghosts, world, records
<1>4. \A pc \in {"commit", "release"} : LocksDone(p, pc, r.code)
  BY <1>3, Zenon DEF LocksDone, LocksKept, HoldsAt
<1>5. CASE goes(p, "commit") /\ r.change.channel \in Channels
  <2>1. r.change.channel \in saved
    BY <1>2, <1>5, BindingAssumption, Zenon DEF Channels, SavedOnly
  <2> QED
    BY <1>1, <1>2, <1>3, <1>4, <1>5, <2>1, StepOn, Zenon DEF Over, ConfigPlaces
<1>6. CASE goes(p, "release")
  BY <1>1, <1>2, <1>3, <1>4, <1>6, StepOn, Zenon DEF Over, ConfigPlaces, ChangePlaces
<1> QED
  BY <1>5, <1>6, Zenon DEF Exists

-----------------------------------------------------------------------------
\* Waiting for a lock, and dying.

LEMMA GivesUpStep ==
  ASSUME BindingInv, NEW p \in Process, GivesUpLock(p)
  PROVE  BindingInv'
<1> DEFINE r == process[p]
<1>1. r.pc \in Acquires /\ r.pc # "dead" /\ r.pc # "stale"
  BY Zenon DEF GivesUpLock, Acquires
<1>2. place(r) = r.pc /\ ProcessOK(r) /\ RecordsType /\ codeOf(p) = r.code
  BY <1>1, Zenon DEF place, BindingInv, ProcessType, FileType, RecordsType, codeOf
<1>3. Quiet /\ RecordsType' /\ UNCHANGED lock
  BY <1>2, Zenon DEF GivesUpLock, Quiet, RecordsType, ghosts, world, records
<1>4. LocksDone(p, "release", r.code)
  BY <1>3, Zenon DEF LocksDone, LocksKept, HoldsAt
<1>5. CASE goes(p, "release") /\ r.code # None
  BY <1>1, <1>2, <1>3, <1>4, <1>5, StepOn, Zenon DEF Over, ConfigPlaces, ChangePlaces
<1>6. CASE goes(p, "error")
  BY <1>1, <1>3, <1>6, StepOver, Zenon DEF Over
<1>7. r.pc = "commit" => r.code # None
  BY <1>2, Zenon DEF ProcessOK, RecordPlaces
<1> QED
  BY <1>2, <1>5, <1>6, <1>7, Zenon DEF GivesUpLock, failed, isBind

LEMMA SeesStaleStep ==
  ASSUME BindingInv, NEW p \in Process, SeesStaleLock(p)
  PROVE  BindingInv'
<1> DEFINE r == process[p]
           s == [r EXCEPT !.pc = "stale", !.then = r.pc]
<1>1. r.pc \in Acquires /\ r.pc # "dead" /\ r.pc # "stale"
  BY Zenon DEF SeesStaleLock, Acquires
<1>2. /\ place(r) = r.pc /\ ProcessOK(r) /\ RecordsType
      /\ process = [q \in Process |-> process[q]]
  BY <1>1, Zenon DEF place, BindingInv, ProcessType, FileType, RecordsType
<1>3. Quiet /\ RecordsType' /\ UNCHANGED lock
  BY <1>2, Zenon DEF SeesStaleLock, Quiet, RecordsType, ghosts, world, records
<1>4. process' = [process EXCEPT ![p] = s]
  BY <1>2, Zenon DEF SeesStaleLock
<1>5. /\ s = [x \in ProcessFields |-> s[x]] /\ s.pc = "stale" /\ s.code = r.code
      /\ s.change = r.change /\ s.then = r.pc
  BY <1>2, Zenon DEF ProcessOK, ProcessFields
<1> HIDE DEF s
<1>6. place(s) = r.pc
  BY <1>5, Zenon DEF place
<1>7. ProcessOK(s)
  BY <1>1, <1>2, <1>5, <1>6, Zenon DEF ProcessOK, ConfigPlaces
<1>8. ASSUME NEW k \in Code, NEW c \in Chat \cup {Feishu}, GoesTo(s, k, c)
      PROVE  Destination(k, c)
  BY <1>2, <1>5, <1>6, <1>8, Zenon DEF GoesTo, Destination, ConfigPlaces
<1>9. r.pc = "commit" => r.change.channel \in saved
  BY <1>2, Zenon DEF BindingInv, ConfigInv, CommitsSaved
<1>10. Advance(s)
  BY <1>5, <1>6, <1>7, <1>8, <1>9, Zenon DEF Advance, ConfigPlaces
<1>11. LocksDone(p, s.pc, s.code) /\ s.pc \notin {"commitRemove", "cancelMove"}
  BY <1>3, <1>5, Zenon DEF LocksDone, LocksKept, HoldsAt
<1> QED
  BY <1>1, <1>3, <1>4, <1>10, <1>11, QuietStep, Zenon

LEMMA RemoveStaleStep ==
  ASSUME BindingInv, NEW p \in Process, RemoveStaleLock(p)
  PROVE  BindingInv'
<1> DEFINE r == process[p]
           l == lockOf(p, r.then)
           s == [r EXCEPT !.pc = r.then, !.then = None]
<1>1. /\ r.pc = "stale" /\ ProcessOK(r) /\ RecordsType
      /\ process = [q \in Process |-> process[q]]
  BY Zenon DEF RemoveStaleLock, at, BindingInv, ProcessType, FileType, RecordsType
<1>2. r.then \in Acquires /\ place(r) = r.then /\ r.then # "stale"
  BY <1>1, Zenon DEF ProcessOK, place, Acquires
<1>3. /\ process' = [process EXCEPT ![p] = s] /\ lock' = removed(lock, l)
      /\ stolen' = IF isHeld(lock, l) /\ ~isStale(lock, l) THEN stolen \cup {l} ELSE stolen
      /\ stolen \subseteq stolen'
      /\ UNCHANGED <<records, posted, config, bound, boundTo, saved, deleted, dropped>>
  BY <1>1, Zenon DEF RemoveStaleLock, world
<1>4. l \in Names
  <2>1. r.then \notin {"apply", "initialize"} => r.then \in RecordPlaces
    BY <1>2, Zenon DEF Acquires, RecordPlaces
  <2> QED
    BY <1>1, <1>2, <2>1, Zenon DEF ProcessOK, lockOf, Names, codeOf
<1> HIDE DEF l
<1>5. /\ s = [x \in ProcessFields |-> s[x]] /\ s.pc = r.then /\ s.code = r.code
      /\ s.change = r.change
  BY <1>1, Zenon DEF ProcessOK, ProcessFields
<1> HIDE DEF s
<1>6. place(s) = r.then
  BY <1>2, <1>5, Zenon DEF place
<1>7. ProcessOK(s)
  BY <1>1, <1>2, <1>5, <1>6, Zenon DEF ProcessOK, ConfigPlaces, Acquires
<1>8. ASSUME NEW k \in Code, NEW c \in Chat \cup {Feishu}, GoesTo(s, k, c)
      PROVE  Destination(k, c)
  BY <1>2, <1>5, <1>6, <1>8, Zenon DEF GoesTo, Destination, ConfigPlaces, Acquires
<1>9. r.then = "commit" => r.change.channel \in saved
  BY <1>2, Zenon DEF BindingInv, ConfigInv, CommitsSaved
<1>10. Advance(s)
  BY <1>2, <1>5, <1>6, <1>7, <1>8, <1>9, Zenon DEF Advance, ConfigPlaces, Acquires
<1>11. ProcessType' /\ ConfigInv'
  <2>1. \A k \in Code : boundTo'[k] # None => boundTo'[k] \in saved
    BY <1>3, Zenon DEF BindingInv, ConfigInv, CommitsSaved
  <2> QED
    BY <1>3, <1>10, <2>1, ProcessOnly, Zenon
<1>12. ConsumedOnce'
  BY <1>2, <1>3, <1>5, NothingConsumed, Zenon DEF records, Acquires
<1>13. process'[p] = s /\ \A q \in Process : q # p => process'[q] = process[q]
  BY <1>3, Changed, Zenon DEF BindingInv
<1>14. Locked /\ lock \in [Names -> LockType] /\ lock' = [lock EXCEPT ![l] = NoLock]
  BY <1>3, Zenon DEF BindingInv, FileType, LockType, removed
<1>15. Locked'
  <2>1. ASSUME NEW q \in Process, NEW m \in Names, Holds(process'[q], m), m \notin stolen'
        PROVE  lock'[m] # NoLock /\ lock'[m].owner = q
    <3>1. q # p
      BY <1>2, <1>5, <1>13, <2>1, Zenon DEF Holds, HoldsAt, Acquires
    <3>2. process'[q] = process[q] /\ m \notin stolen
      BY <1>3, <1>13, <2>1, <3>1, Zenon
    <3>3. lock[m] # NoLock /\ lock[m].owner = q
      BY <1>14, <2>1, <3>2, Zenon DEF Locked
    <3>4. process[q].pc # "dead"
      BY <2>1, <3>2, Zenon DEF Holds, HoldsAt
    <3>5. ~lock[m].old
      BY <1>14, <3>3, <3>4, Zenon DEF Locked
    <3>6. m # l
      BY <1>3, <2>1, <3>3, <3>5, Zenon DEF isHeld, isStale
    <3> QED
      BY <1>14, <3>3, <3>6, Zenon
  <2>2. ASSUME NEW m \in Names, lock'[m] # NoLock, lock'[m].old
        PROVE  process'[lock'[m].owner].pc = "dead"
    <3>1. lock'[m] = lock[m]
      BY <1>14, <2>2, Zenon
    <3>2. process[lock[m].owner].pc = "dead" /\ lock[m].owner \in Process
      BY <1>14, <2>2, <3>1, Zenon DEF Locked, LockType
    <3> QED
      BY <1>1, <1>13, <3>1, <3>2, Zenon
  <2> QED
    BY <2>1, <2>2, Zenon DEF Locked, Holds, HoldsAt
<1>16. FileType'
  BY <1>3, <1>14, Zenon DEF BindingInv, FileType, LockType, records
<1> QED
  BY <1>11, <1>12, <1>15, <1>16, Zenon DEF BindingInv

LEMMA KillStep ==
  ASSUME BindingInv, NEW p \in Process, Kill(p)
  PROVE  BindingInv'
<1>1. Quiet /\ RecordsType' /\ UNCHANGED lock /\ goes(p, "dead") /\ process[p].pc # "dead"
  BY Zenon DEF Kill, Quiet, RecordsType, BindingInv, FileType, ghosts, world, records, Over
<1> QED
  BY <1>1, StepOver, Zenon DEF Over

-----------------------------------------------------------------------------
\* The decisions: a code is consumed or cancelled.

LEMMA CommitStep ==
  ASSUME BindingInv, NEW p \in Process, Commit(p)
  PROVE  BindingInv'
<1> DEFINE k == codeOf(p)
           r == process[p]
           s == moved(r, "commitRemove")
           c == r.change.channel
<1>1. r.pc = "commit" /\ r.pc \in RecordPlaces /\ r.pc \in ChangePlaces
  BY Zenon DEF Commit, at, RecordPlaces, ChangePlaces
<1>2. /\ k \in Code /\ k \in Names /\ r.code = k /\ r.code # None
      /\ r.pc # "dead" /\ RecordsType /\ place(r) = "commit" /\ c \in Chat
  BY <1>1, OnRecord, OnChange, Zenon DEF RecordsType
<1>3. RecordsType' /\ UNCHANGED <<config, saved, deleted, dropped, posted, bound, stolen>>
  BY <1>2, Zenon DEF Commit, RecordsType, world
<1>4. CASE ~(history[k] = None /\ inflight[k] # None /\ inflight[k].claim = p)
  <2>1. goes(p, "release") /\ UNCHANGED lock /\ Quiet
    BY <1>3, <1>4, Zenon DEF Commit, Quiet
  <2>2. LocksDone(p, "release", r.code)
    BY <2>1, Zenon DEF LocksDone, LocksKept, HoldsAt
  <2> QED
    BY <1>2, <1>3, <2>1, <2>2, StepOn, Zenon DEF Over, ConfigPlaces, ChangePlaces
<1>5. CASE history[k] = None /\ inflight[k] # None /\ inflight[k].claim = p
  <2>1. /\ Locks(p, k) /\ goes(p, "commitRemove")
        /\ history' = [history EXCEPT ![k] = [inflight[k] EXCEPT !.fate = "consumed"]]
        /\ boundTo' = [boundTo EXCEPT ![k] = c]
    BY <1>5, Zenon DEF Commit
  <2>2. process' = [process EXCEPT ![p] = s]
    BY <2>1, Goes, Zenon DEF Over
  <2>3. ProcessOK(r) /\ FileType /\ CommitsSaved /\ ConsumedOnce
    BY Zenon DEF BindingInv, ProcessType, ConfigInv
  <2>4. s.pc = "commitRemove" /\ s.code = k
    BY <1>2, <2>3, Moved
  <2>5. Advance(s)
    BY <1>2, MovedAdvances, Zenon DEF ChangePlaces, ConfigPlaces
  <2> HIDE DEF s
  <2>6. LocksDone(p, s.pc, s.code)
    BY <1>2, <2>1, <2>4, Zenon DEF LocksDone, LocksTaken, HoldsAt
  <2>7. Locked' /\ lock' \in [Names -> LockType]
    BY <1>2, <1>3, <2>2, <2>6, LocksAreDone, Zenon
  <2>8. c \in saved
    BY <1>2, <2>3, Zenon DEF CommitsSaved
  <2>9. \A x \in Code : boundTo'[x] # None => boundTo'[x] \in saved
    BY <1>2, <2>1, <2>3, <2>8, Zenon DEF FileType, CommitsSaved
  <2>10. ProcessType' /\ ConfigInv'
    BY <1>3, <2>2, <2>5, <2>9, ProcessOnly, Zenon
  <2>11. /\ [inflight[k] EXCEPT !.fate = "consumed"] \in Record
         /\ [inflight[k] EXCEPT !.fate = "consumed"].fate = "consumed"
    BY <1>2, <1>5 DEF RecordsType, Record
  <2>12. history' \in [Code -> Record \cup {None}] /\ boundTo' \in [Code -> Chat \cup {None}]
    BY <1>2, <2>1, <2>3, <2>11, Zenon DEF FileType
  <2>13. FileType'
    BY <1>3, <2>3, <2>7, <2>12, Zenon DEF FileType, RecordsType, LockType
  <2>14. /\ history'[k] # None /\ history'[k].fate = "consumed"
         /\ \A x \in Code : x # k => history'[x] = history[x]
    BY <1>2, <2>1, <2>3, <2>11, BindingAssumption, Zenon DEF FileType
  <2>15. process'[p] = s /\ \A q \in Process : q # p => process'[q] = process[q]
    BY <2>2, Changed, Zenon DEF BindingInv
  <2>16. k \notin stolen => \A q \in Process :
           /\ ~Consumes(k, q)
           /\ ~(process[q].pc = "cancelMove" /\ process[q].code = k)
    <3>1. k \notin stolen => \A q \in Process : ~Consumes(k, q)
      BY <1>2, <1>5, <2>3, Zenon DEF ConsumedOnce
    <3>2. k \notin stolen => \A q \in Process : ~Holds(process[q], k)
      BY <1>2, <2>1, NobodyHolds, Zenon DEF Locks
    <3> QED
      BY <3>1, <3>2, Zenon DEF Holds, HoldsAt
  <2>17. ConsumedOnce'
    <3>1. ASSUME NEW x \in Code, NEW q \in Process
          PROVE  /\ Consumes(x, q)' => Consumes(x, q) \/ (x = k /\ q = p)
                 /\ (process[q].pc = "cancelMove" /\ process[q].code = x)' =>
                      process[q].pc = "cancelMove" /\ process[q].code = x
      BY <1>3, <2>4, <2>15, Zenon DEF Consumes
    <3> SUFFICES ASSUME NEW x \in Code \ stolen
                 PROVE  /\ \A q \in Process : Consumes(x, q)' =>
                             history'[x] # None /\ history'[x].fate = "consumed"
                        /\ \A q, y \in Process : Consumes(x, q)' /\ Consumes(x, y)' => q = y
                        /\ \A q \in Process :
                             (process[q].pc = "cancelMove" /\ process[q].code = x)' =>
                               history'[x] = None
      BY <1>3, Zenon DEF ConsumedOnce
    <3>2. CASE x = k
      BY <2>14, <2>16, <3>1, <3>2
    <3>3. CASE x # k
      BY <2>3, <2>14, <3>1, <3>3 DEF ConsumedOnce
    <3> QED
      BY <3>2, <3>3, Zenon
  <2> QED
    BY <2>7, <2>10, <2>13, <2>17, Zenon DEF BindingInv
<1> QED
  BY <1>4, <1>5, Zenon

LEMMA CommitRemoveStep ==
  ASSUME BindingInv, NEW p \in Process, CommitRemove(p)
  PROVE  BindingInv'
<1> DEFINE k == codeOf(p)
           r == process[p]
<1>1. r.pc = "commitRemove" /\ r.pc \in RecordPlaces
  BY Zenon DEF CommitRemove, at, RecordPlaces
<1>2. /\ k \in Code /\ k \in Names /\ r.code = k /\ r.code # None
      /\ r.pc # "dead" /\ RecordsType
  BY <1>1, OnRecord, Zenon DEF RecordsType
<1>3. /\ UNCHANGED <<pending, history, config, boundTo, saved, deleted, dropped, posted, stolen>>
      /\ Unlocks(p, k)
  BY Zenon DEF CommitRemove, world
<1>4. CASE goes(p, "release") /\ UNCHANGED <<inflight, bound>>
  <2>1. LocksDone(p, "release", r.code)
    BY <1>2, <1>3, Zenon DEF LocksDone, LocksFreed, HoldsAt
  <2>2. Quiet /\ RecordsType'
    BY <1>2, <1>3, <1>4, Zenon DEF Quiet, RecordsType
  <2> QED
    BY <1>2, <1>4, <2>1, <2>2, StepOn, Zenon DEF Over, ConfigPlaces, ChangePlaces
<1>5. CASE /\ inflight' = [inflight EXCEPT ![k] = None]
           /\ bound' = [bound EXCEPT ![k] = @ \cup {p}]
           /\ goes(p, "ok")
  <2> DEFINE s == over("ok")
  <2>1. process' = [process EXCEPT ![p] = s]
    BY <1>5, Goes, Zenon DEF Over
  <2>2. s.pc = "ok" /\ Advance(s)
    BY OverIs, OverAdvances, Zenon DEF Over
  <2> HIDE DEF s
  <2>3. LocksDone(p, s.pc, s.code)
    BY <1>2, <1>3, <2>2, Zenon DEF LocksDone, LocksFreed, HoldsAt
  <2>4. Locked' /\ lock' \in [Names -> LockType]
    BY <1>2, <1>3, <2>1, <2>3, LocksAreDone, Zenon
  <2>5. FileType /\ ConsumedOnce /\ CommitsSaved
    BY Zenon DEF BindingInv, ConfigInv
  <2>6. ProcessType' /\ ConfigInv'
    <3>1. \A x \in Code : boundTo'[x] # None => boundTo'[x] \in saved
      BY <1>3, <2>5, Zenon DEF CommitsSaved
    <3> QED
      BY <1>3, <2>1, <2>2, <3>1, ProcessOnly, Zenon
  <2>7. FileType'
    BY <1>2, <1>3, <1>5, <2>4, <2>5, Zenon DEF FileType, LockType
  <2>8. process'[p] = s /\ \A q \in Process : q # p => process'[q] = process[q]
    BY <2>1, Changed, Zenon DEF BindingInv
  <2>9. ASSUME NEW x \in Code, NEW q \in Process
        PROVE  /\ Consumes(x, q)' => Consumes(x, q)
               /\ (process[q].pc = "cancelMove" /\ process[q].code = x)' =>
                    process[q].pc = "cancelMove" /\ process[q].code = x
    <3>1. q \in bound'[x] => q \in bound[x] \/ (x = k /\ q = p)
      BY <1>2, <1>5, <2>5, Zenon DEF FileType
    <3> QED
      BY <1>1, <1>2, <2>2, <2>8, <3>1, Zenon DEF Consumes
  <2>10. ConsumedOnce'
    BY <1>3, <2>5, <2>9 DEF ConsumedOnce
  <2> QED
    BY <2>4, <2>6, <2>7, <2>10, Zenon DEF BindingInv
<1> QED
  BY <1>4, <1>5, Zenon DEF CommitRemove

LEMMA CancelStep ==
  ASSUME BindingInv, NEW p \in Process, Cancel(p)
  PROVE  BindingInv'
<1> DEFINE k == codeOf(p)
           r == process[p]
           s == moved(r, "cancelMove")
           free == /\ history[k] = None /\ inflight[k] = None
                   /\ pending[k] # None /\ pending[k].fate = "open"
<1>1. r.pc = "cancel" /\ r.pc \in RecordPlaces
  BY Zenon DEF Cancel, at, RecordPlaces
<1>2. /\ k \in Code /\ k \in Names /\ r.code = k /\ r.code # None
      /\ r.pc # "dead" /\ RecordsType
  BY <1>1, OnRecord, Zenon DEF RecordsType
<1>3. Quiet
  BY Zenon DEF Cancel, Quiet, ghosts, world
<1>4. CASE ~free
  <2>1. goes(p, "error") /\ UNCHANGED lock /\ RecordsType' /\ "error" \in Over
    BY <1>2, <1>4, Zenon DEF Cancel, RecordsType, Over
  <2> QED
    BY <1>2, <1>3, <2>1, StepOver, Zenon
<1>5. CASE free
  <2>1. /\ Locks(p, k) /\ goes(p, "cancelMove") /\ UNCHANGED inflight
        /\ pending' = [pending EXCEPT ![k].fate = "cancelled"]
    BY <1>5, Zenon DEF Cancel
  <2>2. process' = [process EXCEPT ![p] = s]
    BY <2>1, Goes, Zenon DEF Over
  <2>3. ProcessOK(r) /\ FileType /\ CommitsSaved /\ ConsumedOnce
    BY Zenon DEF BindingInv, ProcessType, ConfigInv
  <2>4. s.pc = "cancelMove" /\ s.code = k
    BY <1>2, <2>3, Moved
  <2>5. Advance(s)
    BY <1>2, MovedAdvances, Zenon DEF ChangePlaces, ConfigPlaces
  <2> HIDE DEF s
  <2>6. LocksDone(p, s.pc, s.code)
    BY <1>2, <2>1, <2>4, Zenon DEF LocksDone, LocksTaken, HoldsAt
  <2>7. Locked' /\ lock' \in [Names -> LockType]
    BY <1>2, <1>3, <2>2, <2>6, LocksAreDone, Zenon DEF Quiet
  <2>8. ProcessType' /\ ConfigInv'
    <3>1. \A x \in Code : boundTo'[x] # None => boundTo'[x] \in saved
      BY <1>3, <2>3, Zenon DEF CommitsSaved, Quiet
    <3> QED
      BY <1>3, <2>2, <2>5, <3>1, ProcessOnly, Zenon DEF Quiet
  <2>9. FileType'
    <3>1. [pending[k] EXCEPT !.fate = "cancelled"] \in Record
      BY <1>2, <1>5, ChangedRecord, Zenon DEF RecordsType
    <3>2. pending' = [pending EXCEPT ![k] = [pending[k] EXCEPT !.fate = "cancelled"]]
      <4> HIDE DEF k
      <4> QED
        BY <1>2, <2>1, Zenon DEF RecordsType
    <3>3. pending' \in [Code -> Record \cup {None}]
      BY <1>2, <3>1, <3>2, Zenon DEF RecordsType
    <3> QED
      BY <1>3, <2>1, <2>3, <2>7, <3>3, Zenon DEF FileType, LockType, Quiet
  <2>10. process'[p] = s /\ \A q \in Process : q # p => process'[q] = process[q]
    BY <2>2, Changed, Zenon DEF BindingInv
  <2>11. ASSUME NEW x \in Code, NEW q \in Process
         PROVE  /\ Consumes(x, q)' => Consumes(x, q)
                /\ (process[q].pc = "cancelMove" /\ process[q].code = x)' =>
                     (process[q].pc = "cancelMove" /\ process[q].code = x) \/ x = k
    BY <1>3, <2>4, <2>10, Zenon DEF Consumes, Quiet
  <2>12. ConsumedOnce'
    BY <1>3, <1>5, <2>3, <2>11, Zenon DEF ConsumedOnce, Quiet
  <2> QED
    BY <2>7, <2>8, <2>9, <2>12, Zenon DEF BindingInv
<1> QED
  BY <1>4, <1>5, Zenon

LEMMA CancelMoveStep ==
  ASSUME BindingInv, NEW p \in Process, CancelMove(p)
  PROVE  BindingInv'
<1> DEFINE k == codeOf(p)
           r == process[p]
<1>1. r.pc = "cancelMove" /\ r.pc \in RecordPlaces
  BY Zenon DEF CancelMove, at, RecordPlaces
<1>2. /\ k \in Code /\ k \in Names /\ r.code = k /\ r.code # None
      /\ r.pc # "dead" /\ RecordsType
  BY <1>1, OnRecord, Zenon DEF RecordsType
<1>3. /\ UNCHANGED <<inflight, config, bound, boundTo, saved, deleted, dropped, posted, stolen>>
      /\ Unlocks(p, k)
  BY Zenon DEF CancelMove, world, ghosts
<1>4. CASE goes(p, "error") /\ UNCHANGED <<pending, history>>
  <2>1. Quiet /\ RecordsType' /\ "error" \in Over
    BY <1>2, <1>3, <1>4, Zenon DEF Quiet, RecordsType, Over
  <2> QED
    BY <1>2, <1>3, <1>4, <2>1, StepOver, Zenon
<1>5. CASE /\ pending[k] # None /\ history' = [history EXCEPT ![k] = pending[k]]
           /\ pending' = [pending EXCEPT ![k] = None] /\ goes(p, "ok")
  <2> DEFINE s == over("ok")
  <2>1. process' = [process EXCEPT ![p] = s]
    BY <1>5, Goes, Zenon DEF Over
  <2>2. s.pc = "ok" /\ Advance(s)
    BY OverIs, OverAdvances, Zenon DEF Over
  <2> HIDE DEF s
  <2>3. LocksDone(p, s.pc, s.code)
    BY <1>2, <1>3, <2>2, Zenon DEF LocksDone, LocksFreed, HoldsAt
  <2>4. Locked' /\ lock' \in [Names -> LockType]
    BY <1>2, <1>3, <2>1, <2>3, LocksAreDone, Zenon
  <2>5. FileType /\ ConsumedOnce /\ CommitsSaved
    BY Zenon DEF BindingInv, ConfigInv
  <2>6. ProcessType' /\ ConfigInv'
    <3>1. \A x \in Code : boundTo'[x] # None => boundTo'[x] \in saved
      BY <1>3, <2>5, Zenon DEF CommitsSaved
    <3> QED
      BY <1>3, <2>1, <2>2, <3>1, ProcessOnly, Zenon
  <2>7. FileType'
    BY <1>2, <1>3, <1>5, <2>4, <2>5, Zenon DEF FileType, LockType
  <2>8. process'[p] = s /\ \A q \in Process : q # p => process'[q] = process[q]
    BY <2>1, Changed, Zenon DEF BindingInv
  <2>9. k \notin stolen =>
          /\ \A q \in Process : ~Consumes(k, q)
          /\ \A q \in Process : process[q].pc = "cancelMove" /\ process[q].code = k => q = p
    <3>1. k \notin stolen => \A q \in Process : ~Consumes(k, q)
      BY <1>1, <1>2, <2>5, Zenon DEF ConsumedOnce
    <3>2. \A q \in Process : process[q].pc = "cancelMove" /\ process[q].code = k =>
            Holds(process[q], k)
      BY Zenon DEF Holds, HoldsAt
    <3>3. Holds(process[p], k)
      BY <1>1, <1>2, <3>2, Zenon
    <3>4. k \notin stolen => \A q \in Process : Holds(process[q], k) => q = p
      BY <1>2, <3>3, OneHolder, Zenon
    <3> QED
      BY <3>1, <3>2, <3>4, Zenon
  <2>10. ASSUME NEW x \in Code, NEW q \in Process
         PROVE  /\ Consumes(x, q)' => Consumes(x, q)
                /\ (process[q].pc = "cancelMove" /\ process[q].code = x)' =>
                     process[q].pc = "cancelMove" /\ process[q].code = x /\ q # p
    BY <1>3, <2>2, <2>8, Zenon DEF Consumes
  <2>11. \A x \in Code : x # k => history'[x] = history[x]
    BY <1>5, <2>5, Zenon DEF FileType
  <2>12. ConsumedOnce'
    BY <1>3, <2>5, <2>9, <2>10, <2>11 DEF ConsumedOnce
  <2> QED
    BY <2>4, <2>6, <2>7, <2>12, Zenon DEF BindingInv
<1> QED
  BY <1>4, <1>5, Zenon DEF CancelMove

-----------------------------------------------------------------------------
\* The steps that write config.json.

LEMMA ConfigWritten ==
  ASSUME BindingInv, NEW p \in Process, NEW s, process' = [process EXCEPT ![p] = s],
         config' \in Config, UNCHANGED <<posted, stolen, boundTo>>, saved \subseteq saved',
         \A c \in DOMAIN config'.channels : c # Feishu => c \in saved',
         "config" \notin stolen =>
           /\ saved' \subseteq DOMAIN config'.channels \cup deleted' \cup dropped'
           /\ \A q \in Process : q # p /\ process[q].pc = "save" => Covers(process[q].before)',
         \A k \in Code, c \in Chat \cup {Feishu} :
           Named(config'.channels, k, c) \/ GoesTo(s, k, c) => Destination(k, c),
         ProcessOK(s), s.pc \notin ConfigPlaces,
         place(s) = "commit" => s.change.channel \in saved'
  PROVE  ProcessType' /\ ConfigInv'
<1>1. /\ process' = [q \in Process |-> IF q = p THEN s ELSE process[q]]
      /\ process'[p] = s /\ \A q \in Process : q # p => process'[q] = process[q]
  BY Changed, Zenon DEF BindingInv
<1>2. config' # None /\ Channels' = DOMAIN config'.channels
  BY ConfigIsNotNone, Zenon DEF Channels
<1>3. ProcessType'
  BY <1>1, Zenon DEF BindingInv, ProcessType
<1>4. FromTransactions'
  BY <1>1, Zenon DEF BindingInv, ConfigInv, FromTransactions, SavedOnly
<1>5. Covered'
  <2>1. \A q \in Process : process'[q].pc = "save" => q # p /\ process'[q] = process[q]
    BY <1>1, Zenon DEF ConfigPlaces
  <2> QED
    BY <1>2, <2>1, Zenon DEF Covered, Covers
<1>6. CommitsSaved'
  BY <1>1, Zenon DEF BindingInv, ConfigInv, CommitsSaved
<1>7. OneDestination'
  <2>1. ASSUME NEW k \in Code, NEW c \in Chat \cup {Feishu}, Destination(k, c)'
        PROVE  Destination(k, c)
    <3>1. CASE config' # None /\ Named(config.channels, k, c)'
      BY <3>1, Zenon DEF Named
    <3>2. ASSUME NEW q \in Process, GoesTo(process[q], k, c)'
          PROVE  Destination(k, c)
      <4>1. GoesTo(process'[q], k, c)
        BY <3>2, Zenon DEF GoesTo, Named
      <4>2. CASE q = p
        BY <1>1, <4>1, <4>2, Zenon
      <4>3. CASE q # p
        BY <1>1, <4>1, <4>3, Zenon DEF Destination
      <4> QED
        BY <4>2, <4>3, Zenon
    <3> QED
      BY <2>1, <3>1, <3>2, Zenon DEF Destination
  <2> QED
    BY <2>1, Zenon DEF BindingInv, ConfigInv, OneDestination
<1> QED
  BY <1>3, <1>4, <1>5, <1>6, <1>7, Zenon DEF ConfigInv

LEMMA InitializeStep ==
  ASSUME BindingInv, NEW p \in Process, Initialize(p)
  PROVE  BindingInv'
<1> DEFINE r == process[p]
           c == r.change.channel
           s == moved(r, "commit")
<1>1. r.pc = "initialize" /\ r.pc \in ChangePlaces /\ r.pc \in RecordPlaces
  BY Zenon DEF Initialize, at, ChangePlaces, RecordPlaces
<1>2. /\ c \in Chat /\ r.code # None /\ r.code \in Code /\ codeOf(p) = r.code
      /\ r.pc # "dead" /\ place(r) = r.pc /\ RecordsType
      /\ ChangeOK(r.change, r.code)
  BY <1>1, OnChange, OnRecord, Zenon
<1>3. /\ RecordsType' /\ ~isHeld(lock, "config") /\ "config" \in Names
      /\ UNCHANGED <<records, posted, lock, bound, boundTo, stolen>>
  BY <1>2, Zenon DEF Initialize, RecordsType, world, records, Names
<1>4. CASE config # None
  <2>1. goes(p, "apply") /\ Quiet
    BY <1>3, <1>4, Zenon DEF Initialize, Quiet, records
  <2>2. LocksDone(p, "apply", r.code)
    BY <1>3, Zenon DEF LocksDone, LocksKept, HoldsAt
  <2> QED
    BY <1>1, <1>2, <1>3, <2>1, <2>2, StepOn, Zenon DEF Over, ConfigPlaces
<1>5. CASE config = None
  <2>1. /\ config' = [channels |-> named(c, r.code), default |-> c]
        /\ saved' = saved \cup {c} /\ deleted' = deleted \ {c} /\ dropped' = dropped \ {c}
        /\ goes(p, "commit")
    BY <1>2, <1>5, Zenon DEF Initialize
  <2>2. process' = [process EXCEPT ![p] = s]
    BY <2>1, Goes, Zenon DEF Over
  <2>3. ProcessOK(r) /\ FileType /\ Covered
    BY Zenon DEF BindingInv, ProcessType, ConfigInv
  <2>4. /\ s = [x \in ProcessFields |-> s[x]] /\ s.pc = "commit" /\ s.code = r.code
        /\ s.change = r.change /\ s.then = r.then
    BY <2>3, Moved
  <2> HIDE DEF s
  <2>5. place(s) = "commit"
    BY <2>4, Zenon DEF place
  <2>6. ProcessOK(s) /\ s.pc \notin ConfigPlaces
    BY <1>2, <2>4, <2>5, Zenon DEF ProcessOK, ConfigPlaces
  <2>7. /\ config' \in Config /\ DOMAIN config'.channels = {c}
        /\ config'.channels[c] = r.code
    BY <1>2, <2>1, NamedConfig
  <2>8. "config" \notin stolen => \A q \in Process : process[q].pc # "save"
    BY <1>3, NobodyHolds, Zenon DEF Holds, HoldsAt
  <2>9. "config" \notin stolen =>
          saved' \subseteq DOMAIN config'.channels \cup deleted' \cup dropped'
    BY <1>5, <2>1, <2>3, <2>7, Zenon DEF Covered, Channels
  <2>10. ASSUME NEW k \in Code, NEW x \in Chat \cup {Feishu},
                Named(config'.channels, k, x) \/ GoesTo(s, k, x)
         PROVE  Destination(k, x)
    <3>1. x = c /\ k = r.code
      BY <2>4, <2>6, <2>7, <2>10, Zenon DEF Named, GoesTo
    <3>2. GoesTo(r, k, x)
      BY <1>1, <1>2, <3>1, Zenon DEF GoesTo
    <3> QED
      BY <3>2, Zenon DEF Destination
  <2>11. ProcessType' /\ ConfigInv'
    <3>1. \A x \in DOMAIN config'.channels : x # Feishu => x \in saved'
      BY <2>1, <2>7, Zenon
    <3>2. saved \subseteq saved' /\ s.change.channel \in saved'
      BY <2>1, <2>4, Zenon
    <3> QED
      BY <1>3, <2>2, <2>6, <2>7, <2>8, <2>9, <2>10, <3>1, <3>2, ConfigWritten, Zenon
  <2>12. LocksDone(p, s.pc, s.code)
    BY <1>3, <2>4, Zenon DEF LocksDone, LocksKept, HoldsAt
  <2>13. Locked' /\ lock' \in [Names -> LockType]
    BY <1>2, <1>3, <2>2, <2>12, LocksAreDone, Zenon
  <2>14. ConsumedOnce'
    BY <1>3, <2>2, <2>4, NothingConsumed, Zenon DEF records
  <2>15. FileType'
    BY <1>3, <2>3, <2>7, <2>13, Zenon DEF FileType, LockType, records
  <2> QED
    BY <2>11, <2>13, <2>14, <2>15, Zenon DEF BindingInv
<1> QED
  BY <1>4, <1>5, Zenon

LEMMA SaveStep ==
  ASSUME BindingInv, NEW p \in Process, Save(p)
  PROVE  BindingInv'
<1> DEFINE r == process[p]
           change == r.change
           c == change.channel
           w == applyChannelChange(r.before, change)
<1>1. r.pc = "save" /\ r.pc \in ChangePlaces /\ r.pc \in ConfigPlaces
  BY Zenon DEF Save, at, ChangePlaces, ConfigPlaces
<1>2. /\ c \in Chat /\ r.code \in Code \cup {None} /\ codeOf(p) = r.code
      /\ r.pc # "dead" /\ place(r) = r.pc /\ RecordsType /\ ChangeOK(change, r.code)
      /\ r.before \in Config /\ applicable(r.before, change)
  BY <1>1, OnChange, Zenon
<1>3. /\ RecordsType' /\ Unlocks(p, "config") /\ "config" \in Names
      /\ UNCHANGED <<records, posted, bound, boundTo, stolen>>
  BY <1>2, Zenon DEF Save, RecordsType, world, records, Names
<1>4. CASE goes(p, failed(p)) /\ UNCHANGED <<config, saved, deleted, dropped>>
  <2>1. Quiet
    BY <1>3, <1>4, Zenon DEF Quiet, records
  <2>2. CASE r.code # None
    <3>1. goes(p, "release")
      BY <1>2, <1>4, <2>2, Zenon DEF isBind, failed
    <3>2. LocksDone(p, "release", r.code)
      BY <1>3, Zenon DEF LocksDone, LocksFreed, HoldsAt
    <3> QED
      BY <1>2, <1>3, <2>1, <2>2, <3>1, <3>2, StepOn, Zenon DEF Over, ConfigPlaces, ChangePlaces
  <2>3. CASE r.code = None
    <3>1. goes(p, "error")
      BY <1>2, <1>4, <2>3, Zenon DEF isBind, failed
    <3> QED
      BY <1>2, <1>3, <2>1, <3>1, StepOver, Zenon DEF Over
  <2> QED
    BY <2>2, <2>3, Zenon
<1>5. CASE /\ config' = w
           /\ saved' = IF change.op = "add" THEN saved \cup {c} ELSE saved
           /\ deleted' = IF change.op = "remove" THEN deleted \cup {c} ELSE deleted \ {c}
           /\ dropped' = IF change.op = "add" THEN dropped \ {c} ELSE dropped
           /\ goes(p, ended(p))
  <2>1. ProcessOK(r) /\ FileType /\ Covered /\ FromTransactions
    BY Zenon DEF BindingInv, ProcessType, ConfigInv
  <2>2. /\ w \in Config
        /\ change.op = "add" => DOMAIN w.channels = {c} \cup DOMAIN r.before.channels
        /\ change.op = "remove" => DOMAIN w.channels = DOMAIN r.before.channels \ {c}
        /\ change.op \in {"rename", "default"} =>
             DOMAIN w.channels = DOMAIN r.before.channels /\ c \in DOMAIN r.before.channels
        /\ \A k \in Code : \A x : Named(w.channels, k, x) =>
             Named(r.before.channels, k, x) \/ (x = c /\ r.code = k)
    BY <1>2, AppliedConfig
  <2> HIDE DEF w
  <2>3. PICK s : /\ process' = [process EXCEPT ![p] = s] /\ ProcessOK(s)
                 /\ s.pc \in {"commit", "ok"} /\ place(s) = s.pc
                 /\ s.pc = "commit" => s.code # None /\ s.code = r.code /\ s.change = change
    <3>1. CASE r.code # None
      <4> DEFINE s == moved(r, "commit")
      <4>1. process' = [process EXCEPT ![p] = s]
        BY <1>2, <1>5, <3>1, Goes, Zenon DEF Over, isBind, ended
      <4>2. /\ s = [x \in ProcessFields |-> s[x]] /\ s.pc = "commit" /\ s.code = r.code
            /\ s.change = change
        BY <2>1, Moved
      <4> HIDE DEF s
      <4>3. place(s) = s.pc
        BY <4>2, Zenon DEF place
      <4>4. ProcessOK(s)
        BY <1>2, <3>1, <4>2, <4>3, Zenon DEF ProcessOK, ConfigPlaces
      <4> QED
        BY <3>1, <4>1, <4>2, <4>3, <4>4, Zenon
    <3>2. CASE r.code = None
      <4> DEFINE s == over("ok")
      <4>1. process' = [process EXCEPT ![p] = s]
        BY <1>2, <1>5, <3>2, Goes, Zenon DEF Over, isBind, ended
      <4>2. ProcessOK(s) /\ s.pc = "ok"
        BY OverIs, OverAdvances, Zenon DEF Over, Advance
      <4> HIDE DEF s
      <4>3. place(s) = s.pc
        BY <4>2, Zenon DEF place
      <4> QED
        BY <4>1, <4>2, <4>3, Zenon
    <3> QED
      BY <3>1, <3>2, Zenon
  <2>4. "config" \notin stolen => \A q \in Process : process[q].pc = "save" => q = p
    <3>1. \A q \in Process : process[q].pc = "save" => Holds(process[q], "config")
      BY Zenon DEF Holds, HoldsAt
    <3> QED
      BY <1>1, <1>3, <3>1, OneHolder, Zenon
  <2>5. "config" \notin stolen =>
          saved' \subseteq DOMAIN config'.channels \cup deleted' \cup dropped'
    <3>1. "config" \notin stolen =>
            saved \subseteq DOMAIN r.before.channels \cup deleted \cup dropped
      BY <1>1, <2>1, Zenon DEF Covered, Covers
    <3>2. change.op \in {"add", "rename", "remove", "default"}
      BY <1>2, Zenon DEF ChangeOK
    <3>3. CASE change.op = "add"
      BY <1>5, <2>2, <3>1, <3>3, Zenon
    <3>4. CASE change.op = "remove"
      BY <1>5, <2>2, <3>1, <3>4, Zenon
    <3>5. CASE change.op \in {"rename", "default"}
      BY <1>5, <2>2, <3>1, <3>5, Zenon
    <3> QED
      BY <3>2, <3>3, <3>4, <3>5, Zenon
  <2>6. \A x \in DOMAIN config'.channels : x # Feishu => x \in saved'
    <3>1. \A x \in DOMAIN r.before.channels : x # Feishu => x \in saved
      BY <1>1, <2>1, Zenon DEF FromTransactions, SavedOnly
    <3>2. change.op \in {"add", "rename", "remove", "default"}
      BY <1>2, Zenon DEF ChangeOK
    <3> QED
      BY <1>5, <2>2, <3>1, <3>2, Zenon
  <2>7. ASSUME NEW k \in Code, NEW x \in Chat \cup {Feishu},
               Named(config'.channels, k, x) \/ GoesTo(s, k, x)
        PROVE  Destination(k, x)
    <3>1. Named(r.before.channels, k, x) \/ (x = c /\ r.code = k)
      BY <1>5, <2>2, <2>3, <2>7, Zenon DEF GoesTo, ConfigPlaces, ChangePlaces
    <3>2. GoesTo(r, k, x)
      BY <1>1, <1>2, <3>1, Zenon DEF GoesTo
    <3> QED
      BY <3>2, Zenon DEF Destination
  <2>8. saved \subseteq saved' /\ (place(s) = "commit" => s.change.channel \in saved')
    BY <1>2, <1>5, <2>3, Zenon DEF ChangeOK
  <2>9. s.pc \notin ConfigPlaces /\ s.pc \notin {"commitRemove", "cancelMove"}
    BY <2>3, Zenon DEF ConfigPlaces
  <2>10. ProcessType' /\ ConfigInv'
    <3>1. config' \in Config
      BY <1>5, <2>2, Zenon
    <3> QED
      BY <1>3, <2>3, <2>4, <2>5, <2>6, <2>7, <2>8, <2>9, <3>1, ConfigWritten, Zenon
  <2>11. LocksDone(p, s.pc, s.code)
    BY <1>3, <2>3, Zenon DEF LocksDone, LocksFreed, HoldsAt
  <2>12. Locked' /\ lock' \in [Names -> LockType]
    BY <1>2, <1>3, <2>3, <2>11, LocksAreDone, Zenon
  <2>13. ConsumedOnce'
    BY <1>3, <2>3, <2>9, NothingConsumed, Zenon DEF records
  <2>14. FileType'
    BY <1>3, <1>5, <2>1, <2>2, <2>12, Zenon DEF FileType, LockType, records
  <2> QED
    BY <2>10, <2>12, <2>13, <2>14, Zenon DEF BindingInv
<1> QED
  BY <1>4, <1>5, Zenon DEF Save

LEMMA SetupSaveStep ==
  ASSUME BindingInv, NEW p \in Process, SetupSave(p)
  PROVE  BindingInv'
<1> DEFINE r == process[p]
           s == over("ok")
<1>1. r.pc = "setupSave" /\ r.pc \in ConfigPlaces /\ r.pc # "dead"
  BY Zenon DEF SetupSave, at, ConfigPlaces
<1>2. ProcessOK(r) /\ FileType /\ Covered /\ FromTransactions
  BY Zenon DEF BindingInv, ProcessType, ConfigInv
<1>3. /\ config' = r.before /\ goes(p, "ok")
      /\ dropped' = dropped \cup (Channels \ DOMAIN config'.channels)
      /\ UNCHANGED <<records, posted, lock, bound, boundTo, saved, deleted, stolen>>
  BY Zenon DEF SetupSave, world
<1>4. process' = [process EXCEPT ![p] = s]
  BY <1>3, Goes, Zenon DEF Over
<1>5. ProcessOK(s) /\ s.pc = "ok"
  BY OverIs, OverAdvances, Zenon DEF Over, Advance
<1> HIDE DEF s
<1>6. place(s) = "ok" /\ s.pc \notin ConfigPlaces
  BY <1>5, Zenon DEF place, ConfigPlaces
<1>7. config' \in Config
  BY <1>1, <1>2, <1>3, Zenon DEF ProcessOK
<1>8. \A x \in DOMAIN config'.channels : x # Feishu => x \in saved'
  BY <1>1, <1>2, <1>3, Zenon DEF FromTransactions, SavedOnly
<1>9. "config" \notin stolen =>
        /\ saved' \subseteq DOMAIN config'.channels \cup deleted' \cup dropped'
        /\ \A q \in Process : q # p /\ process[q].pc = "save" => Covers(process[q].before)'
  <2>1. "config" \notin stolen =>
          saved' \subseteq DOMAIN config'.channels \cup deleted' \cup dropped'
    BY <1>2, <1>3, Zenon DEF Covered
  <2>2. ASSUME "config" \notin stolen, NEW q \in Process, q # p, process[q].pc = "save"
        PROVE  Covers(process[q].before)'
    <3>1. saved \subseteq DOMAIN process[q].before.channels \cup deleted \cup dropped
      BY <1>2, <2>2, Zenon DEF Covered, Covers
    <3>2. process'[q] = process[q]
      BY <1>4, <2>2, Changed, Zenon DEF BindingInv
    <3> QED
      BY <1>3, <3>1, <3>2, Zenon DEF Covers
  <2> QED
    BY <2>1, <2>2, Zenon
<1>10. ASSUME NEW k \in Code, NEW x \in Chat \cup {Feishu},
              Named(config'.channels, k, x) \/ GoesTo(s, k, x)
       PROVE  Destination(k, x)
  <2>1. Named(r.before.channels, k, x)
    BY <1>3, <1>5, <1>6, <1>10, Zenon DEF GoesTo, ChangePlaces
  <2>2. GoesTo(r, k, x)
    BY <1>1, <2>1, Zenon DEF GoesTo
  <2> QED
    BY <2>2, Zenon DEF Destination
<1>11. ProcessType' /\ ConfigInv'
  <2>1. saved \subseteq saved' /\ place(s) # "commit"
    BY <1>3, <1>6, Zenon
  <2> QED
    BY <1>3, <1>4, <1>5, <1>6, <1>7, <1>8, <1>9, <1>10, <2>1, ConfigWritten, Zenon
<1>12. LocksDone(p, s.pc, s.code)
  BY <1>3, <1>5, Zenon DEF LocksDone, LocksKept, HoldsAt
<1>13. Locked' /\ lock' \in [Names -> LockType]
  BY <1>1, <1>3, <1>4, <1>12, LocksAreDone, Zenon
<1>14. ConsumedOnce'
  BY <1>3, <1>4, <1>5, NothingConsumed, Zenon DEF records
<1>15. FileType'
  BY <1>2, <1>3, <1>7, <1>13, Zenon DEF FileType, LockType, records
<1> QED
  BY <1>11, <1>13, <1>14, <1>15, Zenon DEF BindingInv

-----------------------------------------------------------------------------
\* The start of a command.

LEMMA BeginsStep ==
  ASSUME BindingInv, NEW p \in Process, NEW s, begins(p, s), ProcessOK(s),
         s.pc \in {"claim", "cancel", "apply", "setupSave"},
         s.pc = "apply" => s.code = None,
         s.pc = "setupSave" =>
           /\ SavedOnly(s.before)
           /\ \A k \in Code : \A c : Named(s.before.channels, k, c) =>
                config # None /\ Named(config.channels, k, c)
  PROVE  BindingInv'
<1>1. /\ process' = [process EXCEPT ![p] = s] /\ process[p].pc = "free" /\ process[p].pc # "dead"
      /\ UNCHANGED lock /\ Quiet /\ RecordsType'
  BY Zenon DEF begins, at, Quiet, RecordsType, BindingInv, FileType, ghosts, world, records
<1>2. place(s) = s.pc
  BY Zenon DEF place
<1>3. ASSUME NEW k \in Code, NEW c \in Chat \cup {Feishu}, GoesTo(s, k, c)
      PROVE  Destination(k, c)
  <2>1. k # None
    BY BindingAssumption, Zenon
  <2> QED
    BY <1>2, <1>3, <2>1, Zenon DEF GoesTo, Destination, ChangePlaces, ConfigPlaces
<1>4. Advance(s)
  BY <1>2, <1>3, Zenon DEF Advance, ConfigPlaces
<1>5. LocksDone(p, s.pc, s.code) /\ s.pc \notin {"commitRemove", "cancelMove"}
  BY <1>1, Zenon DEF LocksDone, LocksKept, HoldsAt
<1> QED
  BY <1>1, <1>4, <1>5, QuietStep, Zenon

LEMMA CommandsBegin ==
  ASSUME BindingInv, NEW p \in Process,
         \/ \E k \in Code : runBindComplete(p, k) \/ runBindCancel(p, k)
         \/ \E change \in Change : runSettingsChannel(p, change)
         \/ Setup(p) \/ ServiceInstall(p)
  PROVE  BindingInv'
<1>1. config # None => config \in Config /\ SavedOnly(config)
  BY Zenon DEF BindingInv, FileType, ConfigInv, FromTransactions
<1>2. ASSUME NEW k \in Code, NEW pc \in {"claim", "cancel"},
             begins(p, [NoProcess EXCEPT !.pc = pc, !.code = k])
      PROVE  BindingInv'
  <2> DEFINE s == [NoProcess EXCEPT !.pc = pc, !.code = k]
  <2>1. s = [x \in ProcessFields |-> s[x]] /\ s.pc = pc /\ s.code = k
    BY Zenon DEF NoProcess, ProcessFields
  <2>2. begins(p, s)
    BY <1>2, Zenon
  <2> HIDE DEF s
  <2>3. place(s) = pc
    BY <2>1, Zenon DEF place
  <2>4. ProcessOK(s)
    BY <2>1, <2>3, BindingAssumption, Zenon DEF ProcessOK, ChangePlaces, ConfigPlaces
  <2> QED
    BY <2>1, <2>2, <2>4, BeginsStep, Zenon
<1>3. ASSUME NEW change \in Change, runSettingsChannel(p, change)
      PROVE  BindingInv'
  <2> DEFINE s == [NoProcess EXCEPT !.pc = "apply", !.change = change]
  <2>1. /\ s = [x \in ProcessFields |-> s[x]] /\ s.pc = "apply" /\ s.code = None
        /\ s.change = change
    BY Zenon DEF NoProcess, ProcessFields
  <2>2. begins(p, s)
    BY <1>3, Zenon DEF runSettingsChannel
  <2> HIDE DEF s
  <2>3. place(s) = "apply"
    BY <2>1, Zenon DEF place
  <2>4. ChangeOK(change, None)
    BY Zenon DEF Change, ChangeOK
  <2>5. ProcessOK(s)
    BY <2>1, <2>3, <2>4, Zenon DEF ProcessOK, ConfigPlaces, RecordPlaces
  <2> QED
    BY <2>1, <2>2, <2>5, BeginsStep, Zenon
<1>4. ASSUME NEW v \in Config, begins(p, [NoProcess EXCEPT !.pc = "setupSave", !.before = v]),
             SavedOnly(v),
             \A k \in Code : \A c : Named(v.channels, k, c) =>
               config # None /\ Named(config.channels, k, c)
      PROVE  BindingInv'
  <2> DEFINE s == [NoProcess EXCEPT !.pc = "setupSave", !.before = v]
  <2>1. /\ s = [x \in ProcessFields |-> s[x]] /\ s.pc = "setupSave" /\ s.code = None
        /\ s.before = v
    BY Zenon DEF NoProcess, ProcessFields
  <2>2. begins(p, s)
    BY <1>4, Zenon
  <2> HIDE DEF s
  <2>3. place(s) = "setupSave"
    BY <2>1, Zenon DEF place
  <2>4. ProcessOK(s)
    BY <1>4, <2>1, <2>3, Zenon DEF ProcessOK, ChangePlaces, RecordPlaces
  <2> QED
    BY <1>4, <2>1, <2>2, <2>4, BeginsStep, Zenon
<1>5. ASSUME Setup(p)
      PROVE  BindingInv'
  <2>1. CASE config = None
    <3> DEFINE v == [channels |-> named(Feishu, "own"), default |-> Feishu]
    <3>1. /\ v \in Config /\ DOMAIN named(Feishu, "own") = {Feishu}
          /\ named(Feishu, "own")[Feishu] = "own"
      BY NamedConfig, Zenon
    <3>2. writeConfig(config) = v /\ v.channels = named(Feishu, "own")
      BY <2>1, Zenon DEF writeConfig
    <3> HIDE DEF v
    <3>3. SavedOnly(v) /\ \A k \in Code : \A c : ~Named(v.channels, k, c)
      BY <3>1, <3>2, BindingAssumption, Zenon DEF SavedOnly, Named
    <3> QED
      BY <1>4, <1>5, <3>1, <3>2, <3>3, Zenon DEF Setup
  <2>2. CASE config # None
    <3> DEFINE f == with(config.channels, Feishu, "own")
               v == [channels |-> f, default |-> config.default]
    <3>1. config = [channels |-> config.channels, default |-> config.default]
          /\ config.default \in Chat \cup {Feishu}
      BY <1>1, <2>2, ConfigForm, Zenon
    <3>2. /\ v \in Config /\ DOMAIN f = {Feishu} \cup DOMAIN config.channels
          /\ \A k, x : Named(f, k, x) =>
               Named(config.channels, k, x) \/ (x = Feishu /\ "own" = k)
      BY <1>1, <2>2, <3>1, WithChannel, Zenon
    <3> HIDE DEF f
    <3>3. writeConfig(config) = v /\ v.channels = f
      BY <2>2, <3>1, Zenon DEF writeConfig, f
    <3> HIDE DEF v
    <3>4. SavedOnly(v)
      BY <1>1, <2>2, <3>2, <3>3, Zenon DEF SavedOnly
    <3>5. \A k \in Code : \A c : Named(v.channels, k, c) => Named(config.channels, k, c)
      BY <3>2, <3>3, BindingAssumption, Zenon
    <3> QED
      BY <1>4, <1>5, <2>2, <3>2, <3>3, <3>4, <3>5, Zenon DEF Setup
  <2> QED
    BY <2>1, <2>2, Zenon
<1>6. ASSUME ServiceInstall(p)
      PROVE  BindingInv'
  BY <1>1, <1>4, <1>6, Zenon DEF ServiceInstall
<1> QED
  BY <1>2, <1>3, <1>5, <1>6, Zenon DEF runBindComplete, runBindCancel

-----------------------------------------------------------------------------
\* The user, time, and the ageing of locks.

Standing ==
  /\ UNCHANGED <<process, config, saved, deleted, dropped, stolen, bound, boundTo, history>>
  /\ \A k \in Code : posted[k] \subseteq posted'[k]

LEMMA StandingStep ==
  ASSUME BindingInv, Standing
  PROVE  ProcessType' /\ ConfigInv' /\ ConsumedOnce'
<1>1. ProcessType'
  BY Zenon DEF BindingInv, Standing, ProcessType
<1>2. FromTransactions' /\ Covered' /\ CommitsSaved'
  BY Zenon DEF BindingInv, Standing, ConfigInv, FromTransactions, Covered, CommitsSaved,
         SavedOnly, Covers, Channels
<1>3. \A k \in Code, c \in Chat \cup {Feishu} : Destination(k, c)' <=> Destination(k, c)
  BY DEF Standing, Destination, GoesTo, Named
<1>4. OneDestination'
  BY <1>3, Zenon DEF BindingInv, Standing, ConfigInv, OneDestination
<1>5. ConsumedOnce'
  BY DEF BindingInv, Standing, ConsumedOnce, Consumes
<1> QED
  BY <1>1, <1>2, <1>4, <1>5, Zenon DEF ConfigInv

LEMMA WorldStep ==
  ASSUME BindingInv, NEW k \in Code,
         Create(k) \/ Expire(k) \/ LeaseEnds(k) \/ \E c \in Chat : Post(k, c)
  PROVE  BindingInv'
<1>1. FileType /\ Locked
  BY Zenon DEF BindingInv
<1>2. UNCHANGED <<lock, process, stolen>>
  BY Zenon DEF Create, Expire, LeaseEnds, Post, ghosts
<1>3. Locked'
  BY <1>1, <1>2, Zenon DEF Locked, Holds, HoldsAt
<1>4. CASE Create(k)
  <2>1. Standing
    BY <1>4, Zenon DEF Create, Standing, ghosts, world
  <2>2. FileType'
    BY <1>1, <1>4, ChangedRecord, Zenon DEF FileType, Create, ghosts, world
  <2> QED
    BY <1>3, <2>1, <2>2, StandingStep, Zenon DEF BindingInv
<1>5. CASE Expire(k)
  <2>1. Standing
    BY <1>5, Zenon DEF Expire, Standing, ghosts, world, records
  <2>2. FileType'
    BY <1>1, <1>5, Zenon DEF FileType, Expire, ghosts, world, records
  <2> QED
    BY <1>3, <2>1, <2>2, StandingStep, Zenon DEF BindingInv
<1>6. CASE LeaseEnds(k)
  <2>1. Standing
    BY <1>6, Zenon DEF LeaseEnds, Standing, ghosts, world
  <2>2. [inflight[k] EXCEPT !.lease = "over"] \in Record
    BY <1>1, <1>6, ChangedRecord, Zenon DEF LeaseEnds, FileType
  <2>3. inflight' = [inflight EXCEPT ![k] = [inflight[k] EXCEPT !.lease = "over"]]
    BY <1>1, <1>6, Zenon DEF LeaseEnds, FileType
  <2>4. inflight' \in [Code -> Record \cup {None}]
    BY <1>1, <2>2, <2>3, Zenon DEF FileType
  <2>5. FileType'
    BY <1>1, <1>6, <2>4, Zenon DEF FileType, LeaseEnds, ghosts, world
  <2> QED
    BY <1>3, <2>1, <2>5, StandingStep, Zenon DEF BindingInv
<1>7. ASSUME NEW c \in Chat, Post(k, c)
      PROVE  BindingInv'
  <2>1. posted' = [posted EXCEPT ![k] = posted[k] \cup {c}]
    BY <1>7, Zenon DEF Post
  <2>2. Standing
    BY <1>1, <1>7, <2>1 DEF Post, Standing, ghosts, records, FileType
  <2>3. IsFiniteSet(posted[k] \cup {c})
    BY <1>1, FS_AddElement, Zenon DEF FileType
  <2>4. posted' \in [Code -> SUBSET Chat] /\ \A x \in Code : IsFiniteSet(posted'[x])
    BY <1>1, <2>1, <2>3, Zenon DEF FileType
  <2>5. FileType'
    BY <1>1, <1>7, <2>4, Zenon DEF FileType, Post, ghosts, records
  <2> QED
    BY <1>3, <2>2, <2>5, StandingStep, Zenon DEF BindingInv
<1> QED
  BY <1>4, <1>5, <1>6, <1>7, Zenon

LEMMA LockAgesStep ==
  ASSUME BindingInv, NEW l \in Names, LockAges(l)
  PROVE  BindingInv'
<1>1. Standing
  BY Zenon DEF LockAges, Standing, ghosts, world, records
<1>2. Locked /\ FileType /\ lock \in [Names -> LockType]
  BY Zenon DEF BindingInv, FileType, LockType
<1>3. /\ lock[l] # NoLock /\ lock[l] \in [owner : Process, old : BOOLEAN]
      /\ process[lock[l].owner].pc = "dead" /\ UNCHANGED <<process, stolen>>
      /\ lock' = [lock EXCEPT ![l].old = TRUE]
  BY <1>2, Zenon DEF LockAges, isHeld, at, aged, LockType, ghosts
<1> DEFINE f == [lock[l] EXCEPT !.old = TRUE]
<1>4. /\ f \in [owner : Process, old : BOOLEAN] /\ f.owner = lock[l].owner
      /\ lock' = [lock EXCEPT ![l] = f]
  BY <1>2, <1>3, Zenon
<1> HIDE DEF f
<1>5. f # NoLock
  BY <1>4, BindingAssumption, Zenon
<1>6. lock' \in [Names -> LockType]
  BY <1>2, <1>4, Zenon DEF LockType
<1>7. Locked'
  BY <1>2, <1>3, <1>4, <1>5 DEF Locked, Holds, HoldsAt
<1>8. FileType'
  BY <1>2, <1>6, Zenon DEF FileType, LockAges, LockType, ghosts, world, records
<1> QED
  BY <1>1, <1>7, <1>8, StandingStep, Zenon DEF BindingInv

-----------------------------------------------------------------------------
\* The invariant is inductive.

LEMMA InitBinding == Init => BindingInv
<1> SUFFICES ASSUME Init
             PROVE  BindingInv
  OBVIOUS
<1>1. ProcessOK(NoProcess) /\ NoProcess.pc = "free" /\ place(NoProcess) = "free"
  BY Zenon DEF NoProcess, ProcessOK, ProcessFields, place, RecordPlaces, ChangePlaces, ConfigPlaces
<1>2. process = [p \in Process |-> NoProcess]
  BY Zenon DEF Init
<1>3. ProcessType
  BY <1>1, <1>2, Zenon DEF ProcessType
<1>4. \A p \in Process : process[p].pc = "free" /\ place(process[p]) = "free"
  BY <1>1, <1>2, Zenon
<1>5. /\ [channels |-> named(Feishu, "own"), default |-> Feishu] \in Config
      /\ DOMAIN named(Feishu, "own") = {Feishu} /\ named(Feishu, "own")[Feishu] = "own"
  BY NamedConfig, Zenon
<1>6. config \in Config \cup {None} /\ (config # None => config.channels = named(Feishu, "own"))
  BY <1>5 DEF Init
<1>7. FileType
  BY <1>6, FS_EmptySet, Zenon DEF Init, FileType, Names
<1>8. Locked
  BY <1>4, Zenon DEF Init, Locked, Holds, HoldsAt, Names
<1>9. FromTransactions /\ Covered /\ CommitsSaved
  BY <1>4, <1>5, <1>6, Zenon DEF Init, FromTransactions, SavedOnly, Covered, CommitsSaved, ConfigPlaces
<1>10. \A k \in Code, c \in Chat \cup {Feishu} : ~Destination(k, c)
  BY <1>4, <1>5, <1>6, BindingAssumption, Zenon DEF Destination, GoesTo, Named, ChangePlaces, ConfigPlaces
<1>11. OneDestination
  BY <1>10, Zenon DEF OneDestination
<1>12. ConsumedOnce
  BY <1>4, Zenon DEF Init, ConsumedOnce, Consumes
<1> QED
  BY <1>3, <1>7, <1>8, <1>9, <1>11, <1>12, Zenon DEF BindingInv, ConfigInv

LEMMA StutterBinding == BindingInv /\ UNCHANGED vars => BindingInv'
<1> SUFFICES ASSUME BindingInv, UNCHANGED vars
             PROVE  BindingInv'
  OBVIOUS
<1>1. Standing /\ UNCHANGED lock
  BY Zenon DEF vars, Standing, ghosts, world, records
<1>2. FileType' /\ Locked'
  BY <1>1 DEF BindingInv, FileType, Locked, Holds, HoldsAt, vars, ghosts, world, records
<1> QED
  BY <1>1, <1>2, StandingStep, Zenon DEF BindingInv

LEMMA NextBinding == BindingInv /\ [Next]_vars => BindingInv'
<1> SUFFICES ASSUME BindingInv, Next
             PROVE  BindingInv'
  BY StutterBinding, Zenon
<1>1. ASSUME NEW p \in Process, Step(p)
      PROVE  BindingInv'
  BY <1>1, CommandsBegin, ClaimStep, RecoverStep, ClaimMoveStep, ClaimWriteStep, DiscoverStep,
     InitializeStep, ApplyStep, CompareStep, SaveStep, ExistsStep, CommitStep, CommitRemoveStep,
     ReleaseStep, ReleaseMoveStep, CancelStep, CancelMoveStep, SetupSaveStep, GivesUpStep,
     SeesStaleStep, RemoveStaleStep, KillStep, Zenon DEF Step
<1> QED
  BY <1>1, WorldStep, LockAgesStep, Zenon DEF Next, Names

LEMMA BindingHolds == BindingSpec => []BindingInv
BY InitBinding, NextBinding, PTL DEF BindingSpec

-----------------------------------------------------------------------------
\* A set with no two elements is empty or a singleton.
LEMMA AtMostOne ==
  ASSUME NEW S, \A x, y \in S : x = y
  PROVE  Cardinality(S) <= 1
<1>1. CASE S = {}
  BY <1>1, FS_EmptySet
<1>2. ASSUME NEW x \in S
      PROVE  Cardinality(S) <= 1
  <2>1. S = {x}
    OBVIOUS
  <2> QED
    BY <2>1, FS_Singleton
<1> QED
  BY <1>1, <1>2, Zenon

LEMMA UsedOnce == BindingInv => OneUse
<1> SUFFICES ASSUME BindingInv, NEW k \in Code
             PROVE  /\ k \notin stolen => Cardinality(bound[k]) <= 1
                    /\ k \notin stolen /\ bound[k] # {} =>
                         history[k] # None /\ history[k].fate = "consumed"
                    /\ Cardinality({c \in Channels : config.channels[c] = k}) <= 1
  BY Zenon DEF OneUse
<1>1. \A p \in bound[k] : p \in Process /\ Consumes(k, p)
  BY Zenon DEF BindingInv, FileType, Consumes
<1>2. k \notin stolen => \A p, q \in bound[k] : p = q
  BY <1>1, Zenon DEF BindingInv, ConsumedOnce
<1>3. k \notin stolen => Cardinality(bound[k]) <= 1
  BY <1>2, AtMostOne, Zenon
<1>4. k \notin stolen /\ bound[k] # {} => history[k] # None /\ history[k].fate = "consumed"
  BY <1>1, Zenon DEF BindingInv, ConsumedOnce
<1> DEFINE S == {c \in Channels : config.channels[c] = k}
<1>5. \A c \in S : c \in Chat \cup {Feishu} /\ Destination(k, c)
  <2> SUFFICES ASSUME NEW c \in S
               PROVE  c \in Chat \cup {Feishu} /\ Destination(k, c)
    OBVIOUS
  <2>1. config # None /\ c \in DOMAIN config.channels /\ config.channels[c] = k
    BY Zenon DEF Channels
  <2>2. config \in Config
    BY <2>1, Zenon DEF BindingInv, FileType
  <2> QED
    BY <2>1, <2>2, ConfigForm, Zenon DEF Destination, Named
<1>6. \A c, e \in S : c = e
  <2> HIDE DEF S
  <2> QED
    BY <1>5, Zenon DEF BindingInv, ConfigInv, OneDestination
<1>7. Cardinality(S) <= 1
  <2> HIDE DEF S
  <2> QED
    BY <1>6, AtMostOne, Zenon
<1> QED
  BY <1>3, <1>4, <1>7, Zenon

(***************************************************************************)
(* OneUse, for every number of codes, chats and processes: however claims  *)
(* lapse, calls fail, processes die and locks are taken over, at most one  *)
(* `bind complete` reports a code bound, none a cancelled one, unless the  *)
(* code's lock was stolen; and the channels a code ever made in            *)
(* config.json are of one chat, whoever wrote the file.                    *)
(***************************************************************************)
THEOREM CodeIsUsedOnce == BindingSpec => []OneUse
BY BindingHolds, UsedOnce, PTL

(***************************************************************************)
(* BoundIsConfigured: app/bind.go commits a code only after its channel    *)
(* was saved, by this process or by one that bound the same code before,   *)
(* and a saved channel leaves config.json only on request or to a writer   *)
(* without the lock.                                                       *)
(***************************************************************************)
THEOREM BoundChannelIsConfigured == BindingSpec => []BoundIsConfigured
<1>1. BindingInv => BoundIsConfigured
  BY Zenon DEF BindingInv, ConfigInv, Covered, CommitsSaved, BoundIsConfigured
<1> QED
  BY <1>1, BindingHolds, PTL

(***************************************************************************)
(* NoLostChannel: the read, compare and write of config/channels.go under  *)
(* the lock, and the hard link that publishes a first config.json, never   *)
(* undo what another transaction has saved.                                *)
(***************************************************************************)
THEOREM SavedChannelIsKept == BindingSpec => []NoLostChannel
<1>1. BindingInv => NoLostChannel
  BY Zenon DEF BindingInv, ConfigInv, Covered, NoLostChannel
<1> QED
  BY <1>1, BindingHolds, PTL

=============================================================================
