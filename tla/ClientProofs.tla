---------------------------- MODULE ClientProofs ----------------------------
(***************************************************************************)
(* Proofs about the clients' side: the state files of the c6 command, the  *)
(* credential helper that c6 remote add configures, and the directory with *)
(* the connectors that publish to it.                                      *)
(*                                                                         *)
(* The files are safe by the lock: what a command is about to write is the *)
(* files as they are now with its own change (Current), for nobody else    *)
(* writes them meanwhile; and what a command without the lock has read     *)
(* stays true, for no command gives an alias another server.               *)
(*                                                                         *)
(* The directory is in order by the numbers: a revision that a connector   *)
(* has used is behind its clock or its last revision, so that the next one *)
(* is larger (NextRevision), and among its requests and what is published  *)
(* a larger revision never carries an older snapshot (RequestsInOrder,     *)
(* CatalogCurrent).                                                        *)
(***************************************************************************)
EXTENDS CatalogPublication, CliState, CliRemote, FiniteSetTheorems, SequenceTheorems, TLAPS

(* The state files of the command.                                         *)

(* A command that holds the lock and has passed its checks.                *)
AtWork(p) == phase[p] \in {"store", "store_rename", "config", "config_rename"}

Permitted(p) ==
    \/ ServerPermits(command[p])
    \/ AuthPermits(command[p])
    \/ HelperPermits(command[p])

(* What it will write is the files as they are, with its own change; and   *)
(* what a command without the lock has read of the servers still stands.   *)
Current(p) ==
    /\ AtWork(p) => Permitted(p) /\ myConfig[p] = ChangedConfig(p)
    /\ phase[p] \in {"store", "store_rename"} =>
          myStore[p] = ChangedStore(p) /\ command[p].op \notin {"add", "use"}
    /\ phase[p] = "read_store" => \A a \in Aliases :
          myConfig[p].servers[a] # NoHost => config.servers[a] = myConfig[p].servers[a]

Phases == {"idle", "select", "read", "read_store", "lock"} \cup Locked
HostMaps == [Aliases -> Hosts \cup {NoHost}]
Configs == [servers : HostMaps, plaintext : BOOLEAN]
Stores == [api : HostMaps, git : HostMaps]

CliRecords ==
    /\ config \in Configs /\ store \in Stores
    /\ phase \in [Processes -> Phases]
    /\ command \in [Processes -> Commands \cup {NoCommand}]
    /\ \A p \in Processes : phase[p] # "idle" => command[p] \in Commands
    /\ myConfig \in [Processes -> Configs] /\ myStore \in [Processes -> Stores]
    /\ confirmed \in HostMaps

OneHolder == \A p, q \in Processes : phase[p] \in Locked /\ phase[q] \in Locked => p = q

CliInv ==
    /\ CliTypeOK
    /\ CliRecords
    /\ OneHolder
    /\ \A p \in Processes : Current(p)
    /\ NothingLost
    /\ TokensKept
-----------------------------------------------------------------------------
(* Only this process moves. *)
Moves(p) ==
    \A q \in Processes \ {p} :
        /\ phase'[q] = phase[q] /\ command'[q] = command[q]
        /\ myConfig'[q] = myConfig[q] /\ myStore'[q] = myStore[q]

(* The servers that have a host keep it.                                   *)
Pinned == \A a \in Aliases : config.servers[a] # NoHost => config'.servers[a] = config.servers[a]

(* The lock is with whoever is at work under it, and with one at most.     *)
LEMMA LockKept ==
    ASSUME CliInv, NEW p \in Processes, Moves(p),
           \/ phase'[p] \notin Locked /\ lock' = lock \ {p}
           \/ phase'[p] \in Locked /\ phase[p] \in Locked /\ lock' = lock
           \/ phase'[p] \in Locked /\ lock = {} /\ lock' = {p}
    PROVE  /\ lock' = {q \in Processes : phase'[q] \in Locked}
           /\ OneHolder' /\ Cardinality(lock') <= 1
<1>1. lock = {q \in Processes : phase[q] \in Locked} /\ OneHolder
  BY DEF CliInv, CliTypeOK
<1>2. lock' = {q \in Processes : phase'[q] \in Locked}
  <2>1. ASSUME NEW q \in Processes PROVE q \in lock' <=> phase'[q] \in Locked
    BY <1>1 DEF Moves
  <2>2. lock' \subseteq Processes
    BY <1>1
  <2> QED BY <2>1, <2>2
<1>3. OneHolder'
  BY <1>1 DEF Moves, OneHolder
<1>4. lock' = {} \/ \E q \in Processes : lock' = {q}
  BY <1>2, <1>3 DEF OneHolder
<1>5. Cardinality(lock') <= 1
  <2>1. CASE lock' = {}
    BY <2>1, FS_EmptySet
  <2>2. CASE \E q \in Processes : lock' = {q}
    <3>1. PICK q \in Processes : lock' = {q}
      BY <2>2
    <3>2. Cardinality({q}) = 1
      BY FS_Singleton
    <3> QED BY <3>1, <3>2
  <2> QED BY <1>4, <2>1, <2>2
<1> QED BY <1>2, <1>3, <1>5

(* A process keeps what it has read, unless another one that holds the     *)
(* lock writes: then it is at work itself on nothing.                      *)
LEMMA OthersCurrent ==
    ASSUME CliInv, NEW p \in Processes, Moves(p), Current(p)',
           UNCHANGED <<config, store>> \/ (phase[p] \in Locked /\ Pinned)
    PROVE  \A q \in Processes : Current(q)'
<1> SUFFICES ASSUME NEW q \in Processes, q # p PROVE Current(q)'
  OBVIOUS
<1>1. /\ phase'[q] = phase[q] /\ command'[q] = command[q]
      /\ myConfig'[q] = myConfig[q] /\ myStore'[q] = myStore[q]
      /\ Current(q)
  BY DEF Moves, CliInv
<1>2. CASE UNCHANGED <<config, store>>
  BY <1>1, <1>2
  DEF Current, AtWork, Permitted, ServerPermits, AuthPermits, HelperPermits,
      ChangedConfig, ChangedStore
<1>3. CASE phase[p] \in Locked /\ Pinned
  <2>1. phase[q] \notin Locked
    BY <1>3 DEF CliInv, OneHolder
  <2> QED BY <1>1, <1>3, <2>1 DEF Current, AtWork, Locked, Pinned
<1> QED BY <1>2, <1>3

(* A process that ends has nothing in hand.                                *)
LEMMA ExitMoves ==
    ASSUME CliInv, NEW p \in Processes, Exits(p)
    PROVE  /\ Moves(p) /\ Current(p)' /\ phase'[p] \notin Locked /\ lock' = lock \ {p}
           /\ phase'[p] = "idle" /\ phase' \in [Processes -> Phases]
           /\ command' \in [Processes -> Commands \cup {NoCommand}]
           /\ myConfig' \in [Processes -> Configs] /\ myStore' \in [Processes -> Stores]
<1>1. /\ phase \in [Processes -> Phases]
      /\ command \in [Processes -> Commands \cup {NoCommand}]
      /\ myConfig \in [Processes -> Configs] /\ myStore \in [Processes -> Stores]
  BY DEF CliInv, CliRecords
<1>2. EmptyConfig \in Configs /\ EmptyStore \in Stores
  BY DEF EmptyConfig, EmptyStore, Configs, Stores, HostMaps, NoServers
<1>3. Moves(p)
  BY <1>1 DEF Moves, Exits
<1>4. phase'[p] = "idle" /\ lock' = lock \ {p}
  BY <1>1 DEF Exits
<1>5. Current(p)' /\ phase'[p] \notin Locked
  BY <1>4 DEF Current, AtWork, Locked
<1>6. phase' \in [Processes -> Phases]
  BY <1>1 DEF Exits, Phases
<1>7. command' \in [Processes -> Commands \cup {NoCommand}]
  BY <1>1 DEF Exits
<1>8. myConfig' \in [Processes -> Configs] /\ myStore' \in [Processes -> Stores]
  BY <1>1, <1>2 DEF Exits
<1> QED BY <1>3, <1>4, <1>5, <1>6, <1>7, <1>8

(* A command may end anywhere without having written anything, and leave   *)
(* or take away the temporary file of its own.                             *)
LEMMA ExitKept ==
    ASSUME CliInv, NEW p \in Processes, Exits(p),
           UNCHANGED <<config, store, confirmed>>, misdirected' => misdirected,
           \E f \in {"store", "config"} : temporaries' \in {temporaries, temporaries \ {<<f, p>>}}
    PROVE  CliInv'
<1>1. /\ Moves(p) /\ Current(p)' /\ phase'[p] \notin Locked /\ lock' = lock \ {p}
      /\ phase'[p] = "idle" /\ phase' \in [Processes -> Phases]
      /\ command' \in [Processes -> Commands \cup {NoCommand}]
      /\ myConfig' \in [Processes -> Configs] /\ myStore' \in [Processes -> Stores]
  BY ExitMoves
<1>2. /\ lock' = {q \in Processes : phase'[q] \in Locked}
      /\ OneHolder' /\ Cardinality(lock') <= 1
  BY <1>1, LockKept
<1>3. \A q \in Processes : Current(q)'
  BY <1>1, OthersCurrent
<1>4. CliRecords'
  BY <1>1 DEF CliInv, CliRecords, Moves
<1>5. \A q \in Processes :
          /\ phase'[q] = "store_rename" => <<"store", q>> \in temporaries'
          /\ phase'[q] = "config_rename" => <<"config", q>> \in temporaries'
  BY <1>1 DEF CliInv, CliTypeOK, Moves
<1>6. temporaries' \subseteq {"store", "config"} \X Processes
  BY DEF CliInv, CliTypeOK
<1>7. CliTypeOK'
  BY <1>2, <1>5, <1>6 DEF CliInv, CliTypeOK
<1>8. NothingLost' /\ TokensKept'
  BY DEF CliInv, NothingLost, TokensKept, TokensStayHome, GitTokensByConsent
<1> QED BY <1>2, <1>3, <1>4, <1>7, <1>8 DEF CliInv

(* A new command; what it asks its server before it locks it keeps.        *)
LEMMA RunKept ==
    ASSUME CliInv, NEW p \in Processes, NEW c \in Commands, Run(p, c)
    PROVE  CliInv'
<1>1. /\ phase \in [Processes -> Phases] /\ phase[p] = "idle"
      /\ command \in [Processes -> Commands \cup {NoCommand}]
      /\ UNCHANGED <<config, store, temporaries, lock, copies, confirmed, misdirected>>
  BY DEF CliInv, CliRecords, Run
<1>2. /\ Moves(p) /\ phase'[p] \in {"select", "read", "lock"} /\ command'[p] = c
      /\ phase' \in [Processes -> Phases]
      /\ command' \in [Processes -> Commands \cup {NoCommand}]
  BY <1>1 DEF Run, FirstPhase, Phases, Moves, copies
<1>3. phase'[p] \notin Locked /\ lock' = lock \ {p}
  BY <1>1, <1>2 DEF Locked, CliInv, CliTypeOK
<1>4. Current(p)'
  BY <1>2 DEF Current, AtWork
<1>5. /\ lock' = {q \in Processes : phase'[q] \in Locked}
      /\ OneHolder' /\ Cardinality(lock') <= 1
  BY <1>2, <1>3, LockKept
<1>6. \A q \in Processes : Current(q)'
  BY <1>1, <1>2, <1>4, OthersCurrent
<1>7. CliRecords'
  BY <1>1, <1>2 DEF CliInv, CliRecords, Moves, copies
<1>8. CliTypeOK'
  BY <1>1, <1>2, <1>5 DEF CliInv, CliTypeOK, Moves
<1>9. NothingLost' /\ TokensKept'
  BY <1>1 DEF CliInv, NothingLost, TokensKept, TokensStayHome, GitTokensByConsent
<1> QED BY <1>5, <1>6, <1>7, <1>8, <1>9 DEF CliInv

(* A command that has read the servers without the lock.                   *)
LEMMA ReadKept ==
    ASSUME CliInv, NEW p \in Processes, Select(p) \/ ReadConfig(p)
    PROVE  CliInv'
<1>1. CASE Exits(p)
  BY <1>1, ExitKept DEF Select, ReadConfig
<1>2. CASE ~Exits(p)
  <2>1. /\ phase \in [Processes -> Phases] /\ phase[p] \in {"select", "read"}
        /\ command[p] \in Commands /\ config \in Configs
        /\ myConfig \in [Processes -> Configs]
    BY DEF CliInv, CliRecords, Select, ReadConfig
  <2>2. /\ phase' = [phase EXCEPT ![p] = IF phase[p] = "select" THEN "lock" ELSE "read_store"]
        /\ myConfig' = [myConfig EXCEPT ![p] = config]
        /\ UNCHANGED <<config, store, temporaries, lock, command, myStore, ran,
                       confirmed, misdirected>>
    BY <1>2 DEF Select, ReadConfig
  <2>3. /\ Moves(p) /\ phase'[p] \in {"lock", "read_store"} /\ myConfig'[p] = config
        /\ phase' \in [Processes -> Phases] /\ myConfig' \in [Processes -> Configs]
    BY <2>1, <2>2 DEF Moves, Phases
  <2>4. phase'[p] \notin Locked /\ lock' = lock \ {p}
    BY <2>1, <2>2, <2>3 DEF Locked, CliInv, CliTypeOK
  <2>5. Current(p)'
    BY <2>2, <2>3 DEF Current, AtWork
  <2>6. /\ lock' = {q \in Processes : phase'[q] \in Locked}
        /\ OneHolder' /\ Cardinality(lock') <= 1
    BY <2>3, <2>4, LockKept
  <2>7. \A q \in Processes : Current(q)'
    BY <2>2, <2>3, <2>5, OthersCurrent
  <2>8. CliRecords'
    BY <2>1, <2>2, <2>3 DEF CliInv, CliRecords, Moves
  <2>9. CliTypeOK'
    BY <2>2, <2>3, <2>6 DEF CliInv, CliTypeOK, Moves
  <2>10. NothingLost' /\ TokensKept'
    BY <2>2 DEF CliInv, NothingLost, TokensKept, TokensStayHome, GitTokensByConsent
  <2> QED BY <2>6, <2>7, <2>8, <2>9, <2>10 DEF CliInv
<1> QED BY <1>1, <1>2

(* A token that is used without the lock goes to the server that it read,  *)
(* which is still the server of the alias; and the helper's to the host    *)
(* that Git named.                                                         *)
LEMMA UseKept ==
    ASSUME CliInv, NEW p \in Processes, ReadStore(p) \/ Get(p)
    PROVE  CliInv'
<1>1. command[p] \in Commands
  BY DEF CliInv, CliRecords, ReadStore, Get
<1>2. command[p].alias \in Aliases
  BY <1>1 DEF Commands
<1>3. ~misdirected /\ \A a \in Aliases : {store.api[a], store.git[a]} \subseteq {NoHost, config.servers[a]}
  BY DEF CliInv, TokensKept, TokensStayHome
<1>4. CASE ReadStore(p)
  <2>1. \A a \in Aliases : myConfig[p].servers[a] # NoHost =>
            config.servers[a] = myConfig[p].servers[a]
    BY <1>4 DEF ReadStore, CliInv, Current
  <2>2. ~misdirected'
    BY <1>2, <1>3, <1>4, <2>1 DEF ReadStore
  <2> QED BY <1>4, <2>2, ExitKept DEF ReadStore
<1>5. CASE Get(p)
  <2>1. ~misdirected'
    BY <1>2, <1>3, <1>5 DEF Get
  <2> QED BY <1>5, <2>1, ExitKept DEF Get
<1> QED BY <1>4, <1>5

(* What a command writes is well-formed, points no alias elsewhere and     *)
(* puts no token with another server than its own.                         *)
LEMMA Changes ==
    ASSUME CliInv, NEW p \in Processes, phase[p] # "idle"
    PROVE  /\ ChangedConfig(p) \in Configs /\ ChangedStore(p) \in Stores
           /\ Permitted(p) => \A a \in Aliases :
                 /\ config.servers[a] # NoHost => ChangedConfig(p).servers[a] = config.servers[a]
                 /\ command[p].op # "add" => ChangedConfig(p).servers[a] = config.servers[a]
                 /\ command[p].op = "add" /\ a = command[p].alias =>
                       ChangedConfig(p).servers[a] = command[p].host
                 /\ command[p].op \notin {"add", "use"} =>
                       {ChangedStore(p).api[a], ChangedStore(p).git[a]}
                          \subseteq {NoHost, config.servers[a]}
           /\ config.plaintext => ChangedConfig(p).plaintext
           /\ Permitted(p) /\ ChangedStore(p).git # NoServers => config.plaintext
<1> DEFINE c == command[p]
<1>1. c \in Commands /\ config \in Configs /\ store \in Stores
  BY DEF CliInv, CliRecords
<1>2. c.alias \in Aliases /\ c.host \in Hosts
  BY <1>1 DEF Commands
<1>3. /\ config.servers \in HostMaps /\ config.plaintext \in BOOLEAN
      /\ store.api \in HostMaps /\ store.git \in HostMaps
  BY <1>1 DEF Configs, Stores
<1>4. /\ \A a \in Aliases : {store.api[a], store.git[a]} \subseteq {NoHost, config.servers[a]}
      /\ store.git # NoServers => config.plaintext
  BY DEF CliInv, TokensKept, TokensStayHome, GitTokensByConsent
<1>5. /\ c.op = "add" => ChangedConfig(p) =
            [servers |-> [config.servers EXCEPT ![c.alias] = c.host], plaintext |-> config.plaintext]
      /\ c.op = "login" => ChangedConfig(p) =
            [servers |-> config.servers, plaintext |-> TRUE]
      /\ c.op \notin {"add", "login"} => ChangedConfig(p) = config
  BY <1>1 DEF ChangedConfig, Configs
<1>6. /\ c.op = "login" => ChangedStore(p) =
            [api |-> [store.api EXCEPT ![c.alias] = c.host], git |-> store.git]
      /\ c.op = "logout" => ChangedStore(p) =
            [api |-> [store.api EXCEPT ![c.alias] = NoHost], git |-> store.git]
      /\ c.op = "store" => ChangedStore(p) =
            [api |-> store.api, git |-> [store.git EXCEPT ![c.alias] = c.host]]
      /\ c.op = "erase" => ChangedStore(p) =
            [api |-> store.api, git |-> [store.git EXCEPT ![c.alias] = NoHost]]
      /\ c.op \notin {"login", "logout", "store", "erase"} => ChangedStore(p) = store
  BY <1>1 DEF ChangedStore, Stores
<1> HIDE DEF c
<1>7. ChangedConfig(p) \in Configs /\ (config.plaintext => ChangedConfig(p).plaintext)
  <2>1. [config.servers EXCEPT ![c.alias] = c.host] \in HostMaps
    BY <1>2, <1>3 DEF HostMaps
  <2>2. CASE c.op = "add"
    BY <1>3, <1>5, <2>1, <2>2 DEF Configs
  <2>3. CASE c.op = "login"
    <3>1. ChangedConfig(p) = [servers |-> config.servers, plaintext |-> TRUE]
      BY <1>5, <2>3
    <3>2. [servers |-> config.servers, plaintext |-> TRUE] \in Configs
      BY <1>3 DEF Configs
    <3>3. ChangedConfig(p).plaintext = TRUE
      BY <3>1
    <3> QED BY <3>1, <3>2, <3>3, Zenon
  <2>4. CASE c.op \notin {"add", "login"}
    BY <1>1, <1>5, <2>4
  <2> QED BY <2>2, <2>3, <2>4
<1>8. ChangedStore(p) \in Stores
  <2>1. /\ [store.api EXCEPT ![c.alias] = c.host] \in HostMaps
        /\ [store.api EXCEPT ![c.alias] = NoHost] \in HostMaps
        /\ [store.git EXCEPT ![c.alias] = c.host] \in HostMaps
        /\ [store.git EXCEPT ![c.alias] = NoHost] \in HostMaps
    BY <1>2, <1>3 DEF HostMaps
  <2> QED BY <1>1, <1>3, <1>6, <2>1 DEF Stores
<1>9. Permitted(p) =>
        /\ c.op = "add" => config.servers[c.alias] \in {NoHost, c.host}
        /\ c.op \in {"login", "store"} => config.servers[c.alias] = c.host
        /\ c.op = "store" => config.plaintext
  BY DEF Permitted, ServerPermits, AuthPermits, HelperPermits, c
<1>10. ASSUME Permitted(p), NEW a \in Aliases
       PROVE  /\ config.servers[a] # NoHost => ChangedConfig(p).servers[a] = config.servers[a]
              /\ c.op # "add" => ChangedConfig(p).servers[a] = config.servers[a]
              /\ c.op = "add" /\ a = c.alias => ChangedConfig(p).servers[a] = c.host
  BY <1>2, <1>3, <1>5, <1>9, <1>10 DEF HostMaps
<1>11. ASSUME Permitted(p), NEW a \in Aliases, c.op \notin {"add", "use"}
       PROVE  {ChangedStore(p).api[a], ChangedStore(p).git[a]} \subseteq {NoHost, config.servers[a]}
  <2>1. {store.api[a], store.git[a]} \subseteq {NoHost, config.servers[a]}
    BY <1>4
  <2> QED BY <1>2, <1>3, <1>6, <1>9, <1>11, <2>1 DEF HostMaps
<1>12. ASSUME Permitted(p), ChangedStore(p).git # NoServers PROVE config.plaintext
  <2>1. CASE c.op = "store"
    BY <1>9, <1>12, <2>1
  <2>2. CASE c.op = "erase"
    <3>1. store.git = NoServers => [store.git EXCEPT ![c.alias] = NoHost] = NoServers
      BY <1>2 DEF NoServers
    <3> QED BY <1>4, <1>6, <1>12, <2>2, <3>1
  <2>3. CASE c.op \notin {"store", "erase"}
    BY <1>4, <1>6, <1>12, <2>3
  <2> QED BY <2>1, <2>2, <2>3
<1> QED BY <1>7, <1>8, <1>10, <1>11, <1>12 DEF c

(* A step under the lock that writes a temporary file or none.             *)
LEMMA LockedKept ==
    ASSUME CliInv, NEW p \in Processes, Moves(p), Current(p)',
           phase' \in [Processes -> Phases], phase'[p] \in Locked,
           phase[p] # "idle", UNCHANGED <<config, store, command, confirmed>>,
           misdirected' => misdirected,
           myConfig' \in [Processes -> Configs], myStore' \in [Processes -> Stores],
           \/ phase[p] \in Locked /\ lock' = lock
           \/ lock = {} /\ lock' = {p},
           temporaries \subseteq temporaries',
           temporaries' \subseteq {"store", "config"} \X Processes,
           phase'[p] = "store_rename" => <<"store", p>> \in temporaries',
           phase'[p] = "config_rename" => <<"config", p>> \in temporaries'
    PROVE  CliInv'
<1>1. /\ lock' = {q \in Processes : phase'[q] \in Locked}
      /\ OneHolder' /\ Cardinality(lock') <= 1
  BY LockKept
<1>2. \A q \in Processes : Current(q)'
  BY OthersCurrent
<1>3. CliRecords'
  BY DEF CliInv, CliRecords, Moves
<1>4. \A q \in Processes :
          /\ phase'[q] = "store_rename" => <<"store", q>> \in temporaries'
          /\ phase'[q] = "config_rename" => <<"config", q>> \in temporaries'
  BY DEF CliInv, CliTypeOK, Moves
<1>5. CliTypeOK'
  BY <1>1, <1>4 DEF CliInv, CliTypeOK
<1>6. NothingLost' /\ TokensKept'
  BY DEF CliInv, NothingLost, TokensKept, TokensStayHome, GitTokensByConsent
<1> QED BY <1>1, <1>2, <1>3, <1>5, <1>6 DEF CliInv

(* flock, and the wait for it.                                             *)
LEMMA AcquireKept ==
    ASSUME CliInv, NEW p \in Processes, Acquire(p)
    PROVE  CliInv'
<1>1. phase \in [Processes -> Phases] /\ phase[p] = "lock"
  BY DEF CliInv, CliRecords, Acquire
<1>2. /\ phase' = [phase EXCEPT ![p] = "load"] /\ lock = {} /\ lock' = {p}
      /\ UNCHANGED <<config, store, temporaries, command, copies, confirmed, misdirected>>
  BY DEF Acquire
<1>3. /\ Moves(p) /\ phase'[p] = "load" /\ phase'[p] \in Locked
      /\ phase' \in [Processes -> Phases]
  BY <1>1, <1>2 DEF Moves, Phases, Locked, copies
<1>4. Current(p)'
  BY <1>3 DEF Current, AtWork
<1>5. /\ myConfig' \in [Processes -> Configs] /\ myStore' \in [Processes -> Stores]
      /\ temporaries' \subseteq {"store", "config"} \X Processes
  BY <1>2 DEF CliInv, CliRecords, CliTypeOK, copies
<1> QED BY <1>1, <1>2, <1>3, <1>4, <1>5, LockedKept

(* Load: the copies are of files that no other command changes from now on.*)
LEMMA LoadKept ==
    ASSUME CliInv, NEW p \in Processes, Load(p)
    PROVE  CliInv'
<1>1. CASE Exits(p)
  BY <1>1, ExitKept DEF Load
<1>2. CASE ~Exits(p)
  <2>1. /\ Permitted(p)
        /\ myConfig' = [myConfig EXCEPT ![p] = ChangedConfig(p)]
        /\ myStore' = [myStore EXCEPT ![p] = ChangedStore(p)]
        /\ phase' = [phase EXCEPT ![p] =
              IF command[p].op \in {"add", "use"} THEN "config" ELSE "store"]
        /\ UNCHANGED <<config, store, temporaries, lock, command, confirmed, misdirected>>
    BY <1>2 DEF Load, Permitted
  <2>2. /\ phase \in [Processes -> Phases] /\ phase[p] = "load"
        /\ myConfig \in [Processes -> Configs] /\ myStore \in [Processes -> Stores]
        /\ temporaries \subseteq {"store", "config"} \X Processes
    BY DEF CliInv, CliRecords, CliTypeOK, Load
  <2>3. phase[p] \in Locked /\ ChangedConfig(p) \in Configs /\ ChangedStore(p) \in Stores
    BY <2>2, Changes DEF Locked
  <2>4. /\ phase'[p] \in {"config", "store"} /\ phase'[p] \in Locked
        /\ phase' \in [Processes -> Phases]
        /\ phase'[p] = "store" => command[p].op \notin {"add", "use"}
    BY <2>1, <2>2 DEF Phases, Locked
  <2>5. /\ Moves(p)
        /\ myConfig'[p] = ChangedConfig(p) /\ myStore'[p] = ChangedStore(p)
    BY <2>1, <2>2 DEF Moves
  <2>6. myConfig' \in [Processes -> Configs] /\ myStore' \in [Processes -> Stores]
    BY <2>1, <2>2, <2>3
  <2>7. Current(p)'
    BY <2>1, <2>4, <2>5
    DEF Current, AtWork, Permitted, ServerPermits, AuthPermits, HelperPermits,
        ChangedConfig, ChangedStore
  <2> QED BY <2>1, <2>2, <2>3, <2>4, <2>5, <2>6, <2>7, LockedKept
<1> QED BY <1>1, <1>2

(* write_atomic up to the rename.                                          *)
LEMMA WriteKept ==
    ASSUME CliInv, NEW p \in Processes, NEW f \in {"store", "config"},
           WriteTemporary(p, f) \/ WriteFails(p, f)
    PROVE  CliInv'
<1>1. CASE Exits(p) /\ temporaries' = temporaries \ {<<f, p>>}
  BY <1>1, ExitKept DEF WriteTemporary, WriteFails
<1>2. CASE ~(Exits(p) /\ temporaries' = temporaries \ {<<f, p>>})
  <2> DEFINE renaming == IF f = "store" THEN "store_rename" ELSE "config_rename"
  <2>1. /\ phase[p] = f /\ temporaries' = temporaries \cup {<<f, p>>}
        /\ phase' = [phase EXCEPT ![p] = renaming]
        /\ UNCHANGED <<config, store, lock, command, copies, confirmed, misdirected>>
    BY <1>2 DEF WriteTemporary, WriteFails
  <2>2. /\ phase \in [Processes -> Phases] /\ temporaries \subseteq {"store", "config"} \X Processes
        /\ myConfig \in [Processes -> Configs] /\ myStore \in [Processes -> Stores]
        /\ Current(p)
    BY DEF CliInv, CliRecords, CliTypeOK
  <2>3. phase[p] \in Locked /\ phase[p] # "idle" /\ AtWork(p)
    BY <2>1 DEF Locked, AtWork
  <2>4. /\ phase'[p] = renaming /\ phase'[p] \in Locked
        /\ phase' \in [Processes -> Phases] /\ Moves(p)
    BY <2>1, <2>2 DEF Phases, Locked, Moves, copies
  <2>5. Current(p)'
    BY <2>1, <2>2, <2>3, <2>4
    DEF Current, AtWork, Permitted, ServerPermits, AuthPermits, HelperPermits,
        ChangedConfig, ChangedStore, copies
  <2>6. /\ temporaries \subseteq temporaries'
        /\ temporaries' \subseteq {"store", "config"} \X Processes
        /\ phase'[p] = "store_rename" => <<"store", p>> \in temporaries'
        /\ phase'[p] = "config_rename" => <<"config", p>> \in temporaries'
    BY <2>1, <2>2, <2>4
  <2>7. myConfig' \in [Processes -> Configs] /\ myStore' \in [Processes -> Stores]
    BY <2>1, <2>2 DEF copies
  <2> QED BY <2>1, <2>3, <2>4, <2>5, <2>6, <2>7, LockedKept
<1> QED BY <1>1, <1>2

(* The part of the invariant that the holder of the lock keeps when it has *)
(* written the tokens, as they should be.                                  *)
LEMMA StoreWritten ==
    ASSUME CliInv, NEW p \in Processes, Moves(p), Current(p)', phase[p] \in Locked,
           \/ phase'[p] \notin Locked /\ lock' = lock \ {p}
           \/ phase'[p] \in Locked /\ lock' = lock,
           phase'[p] \notin {"store_rename", "config_rename"},
           phase' \in [Processes -> Phases],
           command' \in [Processes -> Commands \cup {NoCommand}],
           phase'[p] # "idle" => command'[p] \in Commands,
           myConfig' \in [Processes -> Configs], myStore' \in [Processes -> Stores],
           temporaries' = temporaries \ {<<"store", p>>},
           UNCHANGED <<config, confirmed, misdirected>>,
           store' \in Stores,
           \A a \in Aliases : {store'.api[a], store'.git[a]} \subseteq {NoHost, config.servers[a]},
           store'.git # NoServers => config.plaintext
    PROVE  CliInv'
<1>1. /\ lock' = {q \in Processes : phase'[q] \in Locked}
      /\ OneHolder' /\ Cardinality(lock') <= 1
  BY LockKept
<1>2. \A q \in Processes : Current(q)'
  BY OthersCurrent DEF Pinned
<1>3. CliRecords'
  BY DEF CliInv, CliRecords, Moves
<1>4. \A q \in Processes :
          /\ phase'[q] = "store_rename" => <<"store", q>> \in temporaries'
          /\ phase'[q] = "config_rename" => <<"config", q>> \in temporaries'
  BY DEF CliInv, CliTypeOK, Moves
<1>5. CliTypeOK'
  <2>1. /\ config'.servers \in [Aliases -> Hosts \cup {NoHost}]
        /\ store'.api \in [Aliases -> Hosts \cup {NoHost}]
        /\ store'.git \in [Aliases -> Hosts \cup {NoHost}]
        /\ temporaries' \subseteq {"store", "config"} \X Processes
    BY DEF CliInv, CliTypeOK, Stores, HostMaps
  <2> QED BY <1>1, <1>4, <2>1 DEF CliTypeOK
<1>6. NothingLost' /\ TokensKept'
  BY DEF CliInv, NothingLost, TokensKept, TokensStayHome, GitTokensByConsent
<1> QED BY <1>1, <1>2, <1>3, <1>5, <1>6 DEF CliInv

(* rename(2) puts the copy of the tokens in the place of the file: the     *)
(* file as it was, with the change of a command that was permitted.        *)
LEMMA RenameStoreKept ==
    ASSUME CliInv, NEW p \in Processes, RenameStore(p)
    PROVE  CliInv'
<1>1. /\ phase[p] = "store_rename" /\ phase \in [Processes -> Phases]
      /\ store' = myStore[p] /\ temporaries' = temporaries \ {<<"store", p>>}
      /\ UNCHANGED <<config, ran, confirmed, misdirected>>
  BY DEF RenameStore, CliInv, CliRecords
<1>2. /\ Permitted(p) /\ myConfig[p] = ChangedConfig(p)
      /\ myStore[p] = ChangedStore(p) /\ command[p].op \notin {"add", "use"}
      /\ phase[p] \in Locked
  BY <1>1 DEF CliInv, Current, AtWork, Locked
<1>3. /\ store' \in Stores
      /\ \A a \in Aliases : {store'.api[a], store'.git[a]} \subseteq {NoHost, config.servers[a]}
      /\ store'.git # NoServers => config.plaintext
  BY <1>1, <1>2, Changes
<1>4. CASE Exits(p)
  <2>1. /\ Moves(p) /\ Current(p)' /\ phase'[p] \notin Locked /\ lock' = lock \ {p}
        /\ phase'[p] = "idle" /\ phase' \in [Processes -> Phases]
        /\ command' \in [Processes -> Commands \cup {NoCommand}]
        /\ myConfig' \in [Processes -> Configs] /\ myStore' \in [Processes -> Stores]
    BY <1>4, ExitMoves
  <2> QED BY <1>1, <1>2, <1>3, <2>1, StoreWritten
<1>5. CASE command[p].op = "login" /\ phase' = [phase EXCEPT ![p] = "config"]
           /\ UNCHANGED <<lock, command, copies>>
  <2>1. /\ Moves(p) /\ phase'[p] = "config" /\ phase'[p] \in Locked
        /\ phase' \in [Processes -> Phases]
    BY <1>1, <1>5 DEF Moves, Phases, Locked, copies
  <2>2. Current(p)'
    BY <1>1, <1>2, <1>5, <2>1
    DEF Current, AtWork, Permitted, ServerPermits, AuthPermits, HelperPermits, ChangedConfig,
        copies
  <2>3. /\ command' \in [Processes -> Commands \cup {NoCommand}]
        /\ myConfig' \in [Processes -> Configs] /\ myStore' \in [Processes -> Stores]
        /\ command'[p] \in Commands
    BY <1>1, <1>5 DEF CliInv, CliRecords, copies
  <2> QED BY <1>1, <1>2, <1>3, <1>5, <2>1, <2>2, <2>3, StoreWritten
<1> QED BY <1>4, <1>5 DEF RenameStore

(* rename(2) puts the copy of the configuration in the place of the file,  *)
(* and server add reports that it is done.                                 *)
LEMMA RenameConfigKept ==
    ASSUME CliInv, NEW p \in Processes, RenameConfig(p)
    PROVE  CliInv'
<1>1. /\ phase[p] = "config_rename" /\ config' = myConfig[p] /\ Exits(p)
      /\ temporaries' = temporaries \ {<<"config", p>>}
      /\ confirmed' = IF command[p].op = "add"
                      THEN [confirmed EXCEPT ![command[p].alias] = command[p].host]
                      ELSE confirmed
      /\ UNCHANGED <<store, ran, misdirected>>
  BY DEF RenameConfig
<1>2. /\ Permitted(p) /\ config' = ChangedConfig(p) /\ phase[p] \in Locked
      /\ phase[p] # "idle" /\ command[p] \in Commands
  BY <1>1 DEF CliInv, CliRecords, Current, AtWork, Locked
<1>3. command[p].alias \in Aliases /\ command[p].host \in Hosts
  BY <1>2 DEF Commands
<1>4. /\ config' \in Configs /\ Pinned
      /\ config.plaintext => config'.plaintext
      /\ command[p].op # "add" =>
            \A a \in Aliases : config'.servers[a] = config.servers[a]
      /\ command[p].op = "add" => config'.servers[command[p].alias] = command[p].host
  BY <1>2, <1>3, Changes DEF Pinned
<1>5. /\ Moves(p) /\ Current(p)' /\ phase'[p] \notin Locked /\ lock' = lock \ {p}
      /\ phase'[p] = "idle" /\ phase' \in [Processes -> Phases]
      /\ command' \in [Processes -> Commands \cup {NoCommand}]
      /\ myConfig' \in [Processes -> Configs] /\ myStore' \in [Processes -> Stores]
  BY <1>1, ExitMoves
<1>6. /\ lock' = {q \in Processes : phase'[q] \in Locked}
      /\ OneHolder' /\ Cardinality(lock') <= 1
  BY <1>5, LockKept
<1>7. \A q \in Processes : Current(q)'
  BY <1>2, <1>4, <1>5, OthersCurrent
<1>8. CliRecords'
  <2>1. confirmed' \in HostMaps
    BY <1>1, <1>3 DEF CliInv, CliRecords, HostMaps
  <2> QED BY <1>1, <1>4, <1>5, <2>1 DEF CliInv, CliRecords, Moves
<1>9. CliTypeOK'
  <2>1. \A q \in Processes :
            /\ phase'[q] = "store_rename" => <<"store", q>> \in temporaries'
            /\ phase'[q] = "config_rename" => <<"config", q>> \in temporaries'
    BY <1>1, <1>5 DEF CliInv, CliTypeOK, Moves
  <2>2. /\ config'.servers \in [Aliases -> Hosts \cup {NoHost}]
        /\ store'.api \in [Aliases -> Hosts \cup {NoHost}]
        /\ store'.git \in [Aliases -> Hosts \cup {NoHost}]
        /\ temporaries' \subseteq {"store", "config"} \X Processes
    BY <1>1, <1>4 DEF CliInv, CliTypeOK, Configs, HostMaps
  <2> QED BY <1>6, <2>1, <2>2 DEF CliTypeOK
<1>10. NothingLost'
  <2> SUFFICES ASSUME NEW a \in Aliases, confirmed'[a] # NoHost
               PROVE  config'.servers[a] = confirmed'[a]
    BY DEF NothingLost
  <2>1. confirmed \in HostMaps
    BY DEF CliInv, CliRecords
  <2>2. CASE command[p].op = "add" /\ a = command[p].alias
    BY <1>1, <1>4, <2>1, <2>2 DEF HostMaps
  <2>3. CASE ~(command[p].op = "add" /\ a = command[p].alias)
    <3>1. confirmed'[a] = confirmed[a]
      BY <1>1, <1>3, <2>1, <2>3 DEF HostMaps
    <3> QED BY <1>4, <3>1 DEF CliInv, NothingLost, Pinned
  <2> QED BY <2>2, <2>3
<1>11. TokensKept'
  <2>1. \A a \in Aliases : {store.api[a], store.git[a]} \subseteq {NoHost, config'.servers[a]}
    BY <1>4 DEF CliInv, TokensKept, TokensStayHome, Pinned
  <2>2. TokensStayHome'
    BY <1>1, <2>1 DEF CliInv, TokensKept, TokensStayHome
  <2>3. GitTokensByConsent'
    BY <1>1, <1>4 DEF CliInv, TokensKept, GitTokensByConsent
  <2> QED BY <2>2, <2>3 DEF TokensKept
<1> QED BY <1>6, <1>7, <1>8, <1>9, <1>10, <1>11 DEF CliInv

(* No file, no command.                                                    *)
LEMMA CliStart == CliInit => CliInv
<1> SUFFICES ASSUME CliInit PROVE CliInv
  OBVIOUS
<1>1. NoServers \in HostMaps
  BY DEF NoServers, HostMaps
<1>2. EmptyConfig \in Configs /\ EmptyStore \in Stores
  BY <1>1 DEF EmptyConfig, EmptyStore, Configs, Stores
<1>3. \A p \in Processes : phase[p] = "idle"
  BY DEF CliInit
<1>4. CliRecords
  BY <1>1, <1>2, <1>3 DEF CliInit, CliRecords, Phases
<1>5. CliTypeOK
  <2>1. lock = {p \in Processes : phase[p] \in Locked} /\ Cardinality(lock) <= 1
    BY <1>3, FS_EmptySet DEF CliInit, Locked
  <2> QED BY <1>1, <1>3, <2>1
      DEF CliInit, CliTypeOK, EmptyConfig, EmptyStore, HostMaps
<1>6. OneHolder /\ \A p \in Processes : Current(p)
  BY <1>3 DEF OneHolder, Current, AtWork, Locked
<1>7. NothingLost
  BY DEF CliInit, NothingLost, NoServers
<1>8. TokensKept
  BY DEF CliInit, TokensKept, TokensStayHome, GitTokensByConsent, EmptyStore, NoServers
<1> QED BY <1>4, <1>5, <1>6, <1>7, <1>8 DEF CliInv

(* Every step of every command keeps the invariant.                        *)
LEMMA CliStep == CliInv /\ [CliNext]_cliVars => CliInv'
<1> SUFFICES ASSUME CliInv, [CliNext]_cliVars PROVE CliInv'
  OBVIOUS
<1>1. ASSUME NEW p \in Processes, LockTimeout(p) \/ Killed(p) PROVE CliInv'
  BY <1>1, ExitKept DEF LockTimeout, Killed
<1>2. CASE UNCHANGED cliVars
  BY <1>2
  DEF cliVars, copies, CliInv, CliTypeOK, CliRecords, OneHolder, Current, AtWork, Permitted,
      ServerPermits, AuthPermits, HelperPermits, ChangedConfig, ChangedStore, NothingLost,
      TokensKept, TokensStayHome, GitTokensByConsent
<1> QED BY <1>1, <1>2, RunKept, ReadKept, UseKept, AcquireKept, LoadKept, WriteKept,
           RenameStoreKept, RenameConfigKept
        DEF CliNext

(* CliInv holds in every state of the commands.                            *)
THEOREM CliInvariant == CliSpec => []CliInv
BY CliStart, CliStep, PTL DEF CliSpec

(* CliTypeOK: the lock is with the process that is at work under it, one   *)
(* at most, and every token belongs to a server.                           *)
THEOREM CliTypeCorrect == CliSpec => []CliTypeOK
<1>1. CliInv => CliTypeOK
  BY DEF CliInv
<1> QED BY <1>1, CliInvariant, PTL

(* NothingLost: a server that server add has reported is in the            *)
(* configuration, whatever was being written at the time by commands that  *)
(* had read it earlier.                                                    *)
THEOREM AddedServerKept == CliSpec => []NothingLost
<1>1. CliInv => NothingLost
  BY DEF CliInv
<1> QED BY <1>1, CliInvariant, PTL

(* TokensKept: a token goes to the server that it is of, although the      *)
(* commands that send one read two files without the lock, and Git's is on *)
(* disk only by the consent of the configuration.                          *)
THEOREM TokensKeptHome == CliSpec => []TokensKept
<1>1. CliInv => TokensKept
  BY DEF CliInv
<1> QED BY <1>1, CliInvariant, PTL
-----------------------------------------------------------------------------
(* The credential helper of a remote.                                      *)

HelperNames == {"", "c6", "other"}

(* An empty helper, then nothing but C6.                                   *)
OnlyC6(list) ==
    /\ list \in Seq(HelperNames)
    /\ Len(list) >= 1 /\ list[1] = ""
    /\ \A i \in 2..Len(list) : list[i] = "c6"

(* From the first git config of remote add on, no other helper is back.    *)
RemoteInv ==
    /\ inherited \in BOOLEAN
    /\ helpers \in Seq(HelperNames)
    /\ adding \in [Adders -> {"idle", "reset", "helper", "path", "remote"}]
    /\ \A p \in Adders :
          /\ adding[p] \in {"helper", "path", "remote"} => OnlyC6(helpers)
          /\ adding[p] = "remote" => http_path
    /\ remote => OnlyC6(helpers) /\ http_path

(* Git asks none of the helpers before an empty one.                       *)
LEMMA AskedAfterReset ==
    ASSUME NEW before \in Seq(HelperNames), NEW list, OnlyC6(list)
    PROVE  Asked(before \o list) \subseteq {"c6"}
<1> DEFINE all == before \o list
           n == Len(before)
           m == Len(list)
<1>1. n \in Nat /\ m \in Nat /\ m >= 1
  <2>1. list \in Seq(HelperNames) /\ Len(list) >= 1
    BY DEF OnlyC6
  <2> QED BY <2>1, LenProperties
<1>2. /\ all \in Seq(HelperNames) /\ Len(all) = n + m
      /\ \A i \in 1..(n + m) : all[i] = IF i <= n THEN before[i] ELSE list[i - n]
  <2>1. list \in Seq(HelperNames)
    BY DEF OnlyC6
  <2> QED BY <2>1, ConcatProperties
<1>3. DOMAIN all = 1..(n + m)
  BY <1>2, LenProperties
<1>4. list[1] = "" /\ \A i \in 2..m : list[i] = "c6"
  BY DEF OnlyC6
<1> HIDE DEF all, n, m
<1>5. ASSUME NEW j \in DOMAIN all, \A k \in j..Len(all) : all[k] # ""
      PROVE  all[j] = "c6"
  <2>1. j \in 1..(n + m)
    BY <1>3
  <2>2. all[n + 1] = list[1]
    BY <1>1, <1>2
  <2>3. ~(n + 1 \in j..Len(all))
    BY <1>4, <1>5, <2>2
  <2>4. j > n + 1
    BY <1>1, <1>2, <2>1, <2>3
  <2>5. all[j] = list[j - n] /\ j - n \in 2..m
    BY <1>1, <1>2, <2>1, <2>4
  <2> QED BY <1>4, <2>5
<1> QED BY <1>5 DEF Asked, all

(* git config --replace-all ... "" *)
LEMMA ResetLeavesNone == OnlyC6(<<"">>)
<1>1. <<"">> \in Seq(HelperNames)
  BY DEF HelperNames
<1>2. Len(<<"">>) = 1 /\ <<"">>[1] = ""
  OBVIOUS
<1>3. PICK list : list = <<"">>
  OBVIOUS
<1>4. list \in Seq(HelperNames) /\ Len(list) = 1 /\ list[1] = ""
  BY <1>1, <1>2, <1>3, Zenon
<1>5. Len(list) >= 1 /\ \A i \in 2..Len(list) : list[i] = "c6"
  <2>1. 1 >= 1 /\ \A i \in 2..1 : FALSE
    OBVIOUS
  <2> QED BY <1>4, <2>1, Zenon
<1> QED BY <1>3, <1>4, <1>5, Zenon DEF OnlyC6

(* git config --add ... c6 *)
LEMMA AppendC6 ==
    ASSUME NEW list, OnlyC6(list)
    PROVE  OnlyC6(Append(list, "c6"))
<1>1. list \in Seq(HelperNames) /\ "c6" \in HelperNames
  BY DEF OnlyC6, HelperNames
<1>2. list[1] = "" /\ \A i \in 2..Len(list) : list[i] = "c6"
  BY DEF OnlyC6
<1>3. PICK m \in Nat : m = Len(list)
  BY <1>1, LenProperties
<1>4. m >= 1
  BY <1>3 DEF OnlyC6
<1>5. PICK longer : longer = Append(list, "c6")
  OBVIOUS
<1>6. /\ longer \in Seq(HelperNames) /\ Len(longer) = m + 1
      /\ \A i \in 1..m : longer[i] = list[i]
      /\ longer[m + 1] = "c6"
  BY <1>1, <1>3, <1>5, AppendProperties
<1>7. 1 \in 1..m /\ \A i \in 2..(m + 1) : (i \in 2..m /\ i \in 1..m) \/ i = m + 1
  BY <1>4
<1>8. longer[1] = "" /\ \A i \in 2..(m + 1) : longer[i] = "c6"
  BY <1>2, <1>3, <1>6, <1>7
<1>9. Len(longer) >= 1
  BY <1>6
<1> QED BY <1>5, <1>6, <1>8, <1>9 DEF OnlyC6

(* Both git config commands leave C6 alone in the list.                    *)
LEMMA HelpersKept ==
    ASSUME RemoteInv, NEW p \in Adders, ResetHelpers(p) \/ AddHelper(p)
    PROVE  RemoteInv'
<1>1. OnlyC6(helpers')
  BY ResetLeavesNone, AppendC6 DEF ResetHelpers, AddHelper, RemoteInv
<1>2. /\ adding' \in [Adders -> {"idle", "reset", "helper", "path", "remote"}]
      /\ \A q \in Adders : adding'[q] = "remote" => adding[q] = "remote"
      /\ UNCHANGED <<inherited, http_path, remote>>
  BY DEF ResetHelpers, AddHelper, GoesTo, RemoteInv
<1>3. OnlyC6(helpers)'
  BY <1>1 DEF OnlyC6
<1>4. helpers' \in Seq(HelperNames)
  BY <1>1 DEF OnlyC6
<1> QED BY <1>2, <1>3, <1>4 DEF RemoteInv

(* No step of remote add brings another helper back.                       *)
LEMMA RemoteStep == RemoteInv /\ [RemoteNext]_remoteVars => RemoteInv'
<1> SUFFICES ASSUME RemoteInv, [RemoteNext]_remoteVars PROVE RemoteInv'
  OBVIOUS
<1>1. ASSUME NEW p \in Adders, StartAdd(p) \/ UseHttpPath(p) \/ AddRemote(p) \/ GitFails(p)
      PROVE  RemoteInv'
  <2>1. UNCHANGED <<inherited, helpers>>
    BY <1>1 DEF StartAdd, UseHttpPath, AddRemote, GitFails
  <2>2. OnlyC6(helpers)' <=> OnlyC6(helpers)
    BY <2>1 DEF OnlyC6
  <2>3. CASE StartAdd(p)
    BY <2>1, <2>2, <2>3 DEF StartAdd, GoesTo, RemoteInv
  <2>4. CASE UseHttpPath(p)
    BY <2>1, <2>2, <2>4 DEF UseHttpPath, GoesTo, RemoteInv
  <2>5. CASE AddRemote(p)
    BY <2>1, <2>2, <2>5 DEF AddRemote, GoesTo, RemoteInv
  <2>6. CASE GitFails(p)
    BY <2>1, <2>2, <2>6 DEF GitFails, GoesTo, RemoteInv
  <2> QED BY <1>1, <2>3, <2>4, <2>5, <2>6
<1>2. CASE UNCHANGED remoteVars
  BY <1>2 DEF remoteVars, RemoteInv, OnlyC6
<1> QED BY <1>1, <1>2, HelpersKept DEF RemoteNext

(* OnlyC6IsAsked: once a remote of C6 is there, Git asks no helper but C6  *)
(* for its credential, wherever the calls of several remote add stopped.   *)
THEOREM HelperAlone == RemoteSpec => []OnlyC6IsAsked
<1>1. RemoteInit => RemoteInv
  <2>1. << >> \in Seq(HelperNames) /\ <<"other">> \in Seq(HelperNames)
    BY DEF HelperNames
  <2> QED BY <2>1 DEF RemoteInit, RemoteInv
<1>2. RemoteInv => OnlyC6IsAsked
  <2> SUFFICES ASSUME RemoteInv, remote PROVE OnlyC6IsAsked
    BY DEF OnlyC6IsAsked
  <2> DEFINE before == IF inherited THEN <<"other">> ELSE <<>>
  <2>1. before \in Seq(HelperNames) /\ OnlyC6(helpers) /\ http_path
    <3>1. << >> \in Seq(HelperNames) /\ <<"other">> \in Seq(HelperNames)
      BY DEF HelperNames
    <3> QED BY <3>1 DEF RemoteInv
  <2>2. Asked(before \o helpers) \subseteq {"c6"}
    BY <2>1, AskedAfterReset
  <2> QED BY <2>1, <2>2 DEF OnlyC6IsAsked
<1> QED BY <1>1, <1>2, RemoteStep, PTL DEF RemoteSpec
-----------------------------------------------------------------------------
(* The directory and its connectors.                                       *)

(* The bootstrap token that is in the file or has been read is the one     *)
(* Cloud has the hash of, until it is claimed.                             *)
TokenInv ==
    /\ issued \in Nat /\ hash \in 0..issued
    /\ file \in [exists : BOOLEAN, token : 0..issued]
    /\ claimed => hash = 0
    /\ 0 \notin handed
    /\ ~claimed /\ file.token # 0 => hash = file.token
    /\ BootstrapHonoured

Publication == [revision : Nat, version : Nat, by : Servers \cup {NoServer}]

DirectoryTypes ==
    /\ workspaces \subseteq Namespaces
    /\ installation \in [Servers -> {"none", "active", "revoked"}]
    /\ delivered \subseteq {s \in Servers : installation[s] # "none"}
    /\ bound \in [Namespaces -> Servers \cup {NoServer}]
    /\ \A w \in Namespaces : bound[w] # NoServer => w \in workspaces
    /\ catalog \in [Namespaces -> Publication]
    /\ shown \in [Namespaces -> Publication]

ConnectorTypes ==
    /\ version \in [Servers -> 1..MaxVersion]
    /\ fits \in [Servers -> BOOLEAN]
    /\ clock \in [Servers -> Nat] /\ last \in [Servers -> Nat]
    /\ process \in [Servers -> {"off", "idle", "put", "stopped"}]
    /\ binding \in [Servers -> Namespaces]
    /\ flight \subseteq Requests

(* A number that next_revision will not give again: the last one or one    *)
(* before, or one that the clock has passed.                               *)
Numbered(s, r) == r <= last[s] \/ r < clock[s]

(* The requests on their way are numbered in the order of what they carry. *)
RequestsInOrder ==
    /\ \A m \in flight : Numbered(m.server, m.revision) /\ m.version <= version[m.server]
    /\ \A m, n \in flight : m.server = n.server =>
          /\ m.revision < n.revision => m.version <= n.version
          /\ m.revision = n.revision => m = n

(* What is published was sent by the server that is bound, and a request   *)
(* of that server with a later number carries nothing older.               *)
CatalogCurrent(w) ==
    catalog[w] # Unpublished =>
        /\ bound[w] \in Servers /\ catalog[w].by = bound[w]
        /\ catalog[w].revision >= 1 /\ catalog[w].version >= 1
        /\ Numbered(bound[w], catalog[w].revision)
        /\ catalog[w].version <= version[bound[w]]
        /\ \A m \in flight : m.server = bound[w] /\ m.revision > catalog[w].revision =>
              m.version >= catalog[w].version

(* A page shows what is published, or what was with an earlier number.     *)
ShownBehind(w) ==
    \/ shown[w] = catalog[w]
    \/ shown[w].revision < catalog[w].revision /\ shown[w].version <= catalog[w].version

CatalogInv ==
    /\ TokenInv
    /\ DirectoryTypes
    /\ ConnectorTypes
    /\ RequestsInOrder
    /\ \A w \in Namespaces : CatalogCurrent(w)
    /\ \A w \in Namespaces : ShownBehind(w)
-----------------------------------------------------------------------------
(* The token steps: the start of Cloud, the operator and the claim.        *)
LEMMA TokenKept ==
    ASSUME TokenInv,
           \/ Open \/ CreateTokenFile \/ FillTokenFile \/ OperatorReads \/ ClaimAnswered
           \/ CloudStops \/ \E t \in handed : claim_bootstrap(t)
    PROVE  TokenInv'
<1>1. CASE Open
  <2>1. CASE ~claimed /\ hash = 0
    <3>1. hash' = issued + 1 /\ issued' = issued + 1 /\ UNCHANGED <<file, claimed, handed>>
      BY <1>1, <2>1 DEF Open
    <3>2. file.token = 0 /\ handed = {}
      BY <2>1 DEF TokenInv, BootstrapHonoured
    <3>3. issued' \in Nat /\ hash' \in 0..issued' /\ file' \in [exists : BOOLEAN, token : 0..issued']
      BY <3>1 DEF TokenInv
    <3> QED BY <2>1, <3>1, <3>2, <3>3 DEF TokenInv, BootstrapHonoured
  <2>2. CASE ~(~claimed /\ hash = 0)
    <3>1. UNCHANGED <<hash, issued, file, claimed, handed>>
      BY <1>1, <2>2 DEF Open
    <3> QED BY <3>1 DEF TokenInv, BootstrapHonoured
  <2> QED BY <2>1, <2>2
<1>2. CASE CreateTokenFile
  <2>1. UNCHANGED <<hash, issued, claimed, handed>>
    BY <1>2 DEF CreateTokenFile
  <2>2. file' = file \/ file' = [exists |-> TRUE, token |-> 0]
    BY <1>2 DEF CreateTokenFile, Holding
  <2>3. CASE file' = file
    BY <2>1, <2>3 DEF TokenInv, BootstrapHonoured
  <2>4. CASE file' = [exists |-> TRUE, token |-> 0]
    <3>1. file'.token = 0 /\ file' \in [exists : BOOLEAN, token : 0..issued]
      BY <2>4 DEF TokenInv
    <3> QED BY <2>1, <3>1 DEF TokenInv, BootstrapHonoured
  <2> QED BY <2>2, <2>3, <2>4
<1>3. CASE FillTokenFile
  <2>1. UNCHANGED <<hash, issued, claimed, handed>> /\ file' = [exists |-> TRUE, token |-> hash]
    BY <1>3 DEF FillTokenFile, Holding
  <2> QED BY <2>1 DEF TokenInv, BootstrapHonoured
<1>4. CASE OperatorReads
  <2>1. UNCHANGED <<hash, issued, claimed>> /\ handed' = handed \cup {file.token} /\ ~claimed
        /\ file.token # 0
    BY <1>4 DEF OperatorReads
  <2>2. file' = file \/ file' = [exists |-> FALSE, token |-> 0]
    BY <1>4 DEF OperatorReads, Absent
  <2>3. file' \in [exists : BOOLEAN, token : 0..issued] /\ file'.token \in {0, file.token}
    <3>1. CASE file' = file
      BY <3>1 DEF TokenInv
    <3>2. CASE file' = [exists |-> FALSE, token |-> 0]
      BY <3>2 DEF TokenInv
    <3> QED BY <2>2, <3>1, <3>2
  <2>4. \A t \in handed' : t = hash
    BY <2>1 DEF TokenInv, BootstrapHonoured
  <2> QED BY <2>1, <2>3, <2>4 DEF TokenInv, BootstrapHonoured
<1>5. CASE ClaimAnswered
  BY <1>5 DEF ClaimAnswered, Absent, TokenInv, BootstrapHonoured
<1>6. CASE CloudStops
  BY <1>6 DEF CloudStops, TokenInv, BootstrapHonoured
<1>7. CASE \E t \in handed : claim_bootstrap(t)
  BY <1>7 DEF claim_bootstrap, TokenInv, BootstrapHonoured
<1> QED BY <1>1, <1>2, <1>3, <1>4, <1>5, <1>6, <1>7

(* What the publications depend on, left as it is.                         *)
LEMMA PublicationsKept ==
    ASSUME CatalogInv, TokenInv', ConnectorTypes', flight' \subseteq flight,
           UNCHANGED <<directoryVars, projection, version, clock, last>>
    PROVE  CatalogInv'
<1>1. DirectoryTypes'
  BY DEF CatalogInv, DirectoryTypes, directoryVars, projection
<1>2. RequestsInOrder'
  BY DEF CatalogInv, RequestsInOrder, Numbered
<1>3. \A w \in Namespaces : CatalogCurrent(w)'
  BY DEF CatalogInv, CatalogCurrent, Numbered, directoryVars, projection
<1>4. \A w \in Namespaces : ShownBehind(w)'
  BY DEF CatalogInv, ShownBehind, projection
<1> QED BY <1>1, <1>2, <1>3, <1>4 DEF CatalogInv

(* The second critical section of a handler leaves the token alone.        *)
LEMMA TokenUnchanged ==
    ASSUME TokenInv, UNCHANGED <<hash, issued, file, claimed, handed>>
    PROVE  TokenInv'
BY DEF TokenInv, BootstrapHonoured

(* What the connectors have is left as it is by a step of Cloud.           *)
LEMMA ConnectorUnchanged ==
    ASSUME ConnectorTypes, UNCHANGED connectorVars
    PROVE  ConnectorTypes'
BY DEF ConnectorTypes, connectorVars, Requests

(* A handler of the account that changes neither bindings nor pages.       *)
LEMMA BindingsKept ==
    ASSUME CatalogInv, TokenInv', DirectoryTypes',
           UNCHANGED <<connectorVars, bound, projection>>
    PROVE  CatalogInv'
<1>1. ConnectorTypes'
  BY ConnectorUnchanged DEF CatalogInv
<1>2. RequestsInOrder'
  BY DEF CatalogInv, RequestsInOrder, Numbered, connectorVars
<1>3. \A w \in Namespaces : CatalogCurrent(w)'
  BY DEF CatalogInv, CatalogCurrent, Numbered, projection, connectorVars
<1>4. \A w \in Namespaces : ShownBehind(w)'
  BY DEF CatalogInv, ShownBehind, projection
<1> QED BY <1>1, <1>2, <1>3, <1>4 DEF CatalogInv

(* create_workspace, register_installation and revoke_installation.        *)
LEMMA RecordsKept ==
    ASSUME CatalogInv, UNCHANGED connectorVars,
           \E h \in Tabs :
              \/ \E w \in Namespaces : create_workspace(h, w)
              \/ \E s \in Servers : register_installation(h, s)
              \/ \E s \in Servers : revoke_installation(h, s)
    PROVE  CatalogInv'
<1>1. UNCHANGED <<hash, issued, file, claimed, handed, bound, catalog, shown>>
  BY DEF create_workspace, register_installation, revoke_installation, Does,
         bootstrapVars, projection
<1>2. TokenInv'
  BY <1>1, TokenUnchanged DEF CatalogInv
<1>3. DirectoryTypes'
  <2>1. PICK h \in Tabs :
           \/ \E w \in Namespaces : create_workspace(h, w)
           \/ \E s \in Servers : register_installation(h, s)
           \/ \E s \in Servers : revoke_installation(h, s)
    OBVIOUS
  <2>2. CASE \E w \in Namespaces : create_workspace(h, w)
    <3>1. PICK w \in Namespaces : create_workspace(h, w)
      BY <2>2
    <3>2. workspaces' = workspaces \cup {w} /\ UNCHANGED <<installation, delivered>>
      BY <3>1 DEF create_workspace
    <3> QED BY <1>1, <3>2 DEF CatalogInv, DirectoryTypes
  <2>3. CASE \E s \in Servers : register_installation(h, s)
    <3>1. PICK s \in Servers : register_installation(h, s)
      BY <2>3
    <3>2. /\ installation' = [installation EXCEPT ![s] = "active"]
          /\ delivered' = delivered \/ delivered' = delivered \cup {s}
          /\ workspaces' = workspaces
      BY <3>1 DEF register_installation
    <3>3. installation' \in [Servers -> {"none", "active", "revoked"}]
      BY <3>2 DEF CatalogInv, DirectoryTypes
    <3>4. \A r \in delivered' : r \in Servers /\ installation'[r] # "none"
      BY <3>2 DEF CatalogInv, DirectoryTypes
    <3>5. delivered' \subseteq {r \in Servers : installation'[r] # "none"}
      BY <3>4
    <3> QED BY <1>1, <3>2, <3>3, <3>5 DEF CatalogInv, DirectoryTypes
  <2>4. CASE \E s \in Servers : revoke_installation(h, s)
    <3>1. PICK s \in Servers : revoke_installation(h, s)
      BY <2>4
    <3>2. installation' = [installation EXCEPT ![s] = "revoked"] /\ UNCHANGED <<workspaces, delivered>>
      BY <3>1 DEF revoke_installation
    <3> QED BY <1>1, <3>2 DEF CatalogInv, DirectoryTypes
  <2> QED BY <2>1, <2>2, <2>3, <2>4
<1> QED BY <1>1, <1>2, <1>3, BindingsKept DEF projection

(* bind_installation: nothing is published yet where nobody is bound.      *)
LEMMA BindKept ==
    ASSUME CatalogInv, UNCHANGED connectorVars,
           NEW h \in Tabs, NEW v \in Namespaces, NEW s \in Servers,
           bind_installation(h, v, s)
    PROVE  CatalogInv'
<1>1. UNCHANGED <<hash, issued, file, claimed, handed, catalog, shown, workspaces,
                  installation, delivered>>
  BY DEF bind_installation, Does, bootstrapVars, projection
<1>2. /\ bound' = [bound EXCEPT ![v] = s] /\ bound[v] = NoServer /\ v \in workspaces
      /\ bound \in [Namespaces -> Servers \cup {NoServer}]
  BY DEF bind_installation, CatalogInv, DirectoryTypes
<1>3. TokenInv' /\ ConnectorTypes'
  BY <1>1, TokenUnchanged, ConnectorUnchanged DEF CatalogInv
<1>4. DirectoryTypes'
  BY <1>1, <1>2 DEF CatalogInv, DirectoryTypes
<1>5. RequestsInOrder'
  BY DEF CatalogInv, RequestsInOrder, Numbered, connectorVars
<1>6. \A w \in Namespaces : CatalogCurrent(w)'
  <2> SUFFICES ASSUME NEW w \in Namespaces PROVE CatalogCurrent(w)'
    OBVIOUS
  <2>1. CASE w = v
    <3>1. catalog[w] = Unpublished
      BY <1>2, <2>1, CloudAssumption DEF CatalogInv, CatalogCurrent
    <3>2. catalog'[w] = Unpublished
      BY <1>1, <3>1
    <3> QED BY <3>2 DEF CatalogCurrent, Unpublished
  <2>2. CASE w # v
    <3>1. bound'[w] = bound[w]
      BY <1>2, <2>2
    <3> QED BY <1>1, <3>1 DEF CatalogInv, CatalogCurrent, Numbered, connectorVars
  <2> QED BY <2>1, <2>2
<1>7. \A w \in Namespaces : ShownBehind(w)'
  BY <1>1 DEF CatalogInv, ShownBehind
<1> QED BY <1>3, <1>4, <1>5, <1>6, <1>7 DEF CatalogInv

(* The pages: what one shows is what is published.                         *)
LEMMA PagesKept ==
    ASSUME CatalogInv, UNCHANGED connectorVars,
           \E h \in Tabs : list_workspaces(h) \/ \E w \in Namespaces : directory_project(h, w)
    PROVE  CatalogInv'
<1>1. UNCHANGED <<hash, issued, file, claimed, handed, directoryVars, catalog>>
  BY DEF list_workspaces, directory_project, Does, bootstrapVars
<1>2. \A w \in Namespaces : shown'[w] \in {shown[w], catalog[w]}
  BY DEF list_workspaces, directory_project, CatalogInv, DirectoryTypes
<1>3. shown' \in [Namespaces -> Publication]
  BY DEF list_workspaces, directory_project, CatalogInv, DirectoryTypes
<1>4. TokenInv' /\ ConnectorTypes'
  BY <1>1, TokenUnchanged, ConnectorUnchanged DEF CatalogInv
<1>5. DirectoryTypes'
  BY <1>1, <1>3 DEF CatalogInv, DirectoryTypes, directoryVars, Publication
<1>6. RequestsInOrder'
  BY DEF CatalogInv, RequestsInOrder, Numbered, connectorVars
<1>7. \A w \in Namespaces : CatalogCurrent(w)'
  BY <1>1 DEF CatalogInv, CatalogCurrent, Numbered, directoryVars, connectorVars
<1>8. \A w \in Namespaces : ShownBehind(w)'
  BY <1>1, <1>2 DEF CatalogInv, ShownBehind
<1> QED BY <1>4, <1>5, <1>6, <1>7, <1>8 DEF CatalogInv

(* next_revision gives a number that none before has reached.              *)
LEMMA NextRevision ==
    ASSUME ConnectorTypes, NEW s \in Servers, Latest(s) < MaxClock,
           NEW now \in {clock[s], clock[s] + 1} \ {0}
    PROVE  /\ next_revision(s, now) \in 1..MaxClock
           /\ \A r \in Nat : Numbered(s, r) => r < next_revision(s, now)
           /\ next_revision(s, now) >= last[s] /\ now >= clock[s] /\ now \in Nat
BY CatalogAssumption DEF ConnectorTypes, next_revision, Numbered, Latest

(* A change of the list, a restart of the connector, or a list that is     *)
(* refused: the next snapshot is not older, and what was numbered stays    *)
(* behind the clock.                                                       *)
LEMMA AdvanceKept ==
    ASSUME CatalogInv, NEW s \in Servers,
           LocalChange(s) \/ StartConnector(s) \/ PublishFails(s)
    PROVE  CatalogInv'
<1>1. UNCHANGED <<hash, issued, file, claimed, handed, workspaces, installation, delivered,
                  bound, catalog, shown, binding, flight>>
  BY DEF LocalChange, StartConnector, PublishFails, cloudVars, bootstrapVars, directoryVars, projection
<1>0. ASSUME PublishFails(s)
      PROVE  \E now, r \in Nat :
                /\ clock' = [clock EXCEPT ![s] = now] /\ last' = [last EXCEPT ![s] = r]
                /\ now >= clock[s] /\ r >= last[s]
                /\ \A q \in Nat : Numbered(s, q) => q < r
  <2>1. Latest(s) < MaxClock /\ ConnectorTypes
    BY <1>0 DEF PublishFails, TakesRevision, CatalogInv
  <2>2. PICK now \in {clock[s], clock[s] + 1} \ {0} :
           /\ clock' = [clock EXCEPT ![s] = now]
           /\ last' = [last EXCEPT ![s] = next_revision(s, now)]
    BY <1>0 DEF PublishFails, TakesRevision
  <2>3. /\ next_revision(s, now) \in 1..MaxClock
        /\ \A q \in Nat : Numbered(s, q) => q < next_revision(s, now)
        /\ next_revision(s, now) >= last[s] /\ now >= clock[s] /\ now \in Nat
    BY <2>1, NextRevision
  <2>4. next_revision(s, now) \in Nat
    BY <2>3, CatalogAssumption
  <2> QED BY <2>2, <2>3, <2>4
<1>2. ConnectorTypes'
  <2>1. CASE LocalChange(s)
    BY <2>1, CatalogAssumption DEF LocalChange, CatalogInv, ConnectorTypes, Requests
  <2>2. CASE StartConnector(s)
    <3>1. Latest(s) \in Nat
      BY DEF CatalogInv, ConnectorTypes, Latest
    <3>2. /\ process' = [process EXCEPT ![s] = "idle"] /\ last' = [last EXCEPT ![s] = 0]
          /\ clock' = [clock EXCEPT ![s] = Latest(s) + 1] /\ UNCHANGED <<version, fits>>
      BY <2>2 DEF StartConnector
    <3> QED BY <1>1, <3>1, <3>2 DEF CatalogInv, ConnectorTypes, Requests
  <2>3. CASE PublishFails(s)
    <3>1. clock' \in [Servers -> Nat] /\ last' \in [Servers -> Nat]
      BY <1>0, <2>3 DEF CatalogInv, ConnectorTypes
    <3>2. UNCHANGED <<version, fits>>
          /\ process' \in [Servers -> {"off", "idle", "put", "stopped"}]
      BY <2>3 DEF PublishFails, CatalogInv, ConnectorTypes
    <3> QED BY <1>1, <3>1, <3>2 DEF CatalogInv, ConnectorTypes, Requests
  <2> QED BY <2>1, <2>2, <2>3
<1>3. \A r \in Servers : version'[r] \in Nat /\ version[r] \in Nat /\ version'[r] >= version[r]
  BY CatalogAssumption DEF LocalChange, StartConnector, PublishFails, CatalogInv, ConnectorTypes
<1>4. \A r \in Servers, n \in Nat : Numbered(r, n) => Numbered(r, n)'
  <2>1. CASE LocalChange(s)
    BY <2>1 DEF LocalChange, Numbered
  <2>2. CASE StartConnector(s)
    BY <2>2 DEF StartConnector, Numbered, Latest, CatalogInv, ConnectorTypes
  <2>3. CASE PublishFails(s)
    BY <1>0, <2>3 DEF Numbered, CatalogInv, ConnectorTypes
  <2> QED BY <2>1, <2>2, <2>3
<1>5. TokenInv'
  BY <1>1, TokenUnchanged DEF CatalogInv
<1>6. DirectoryTypes'
  BY <1>1 DEF CatalogInv, DirectoryTypes, Publication
<1>7. RequestsInOrder'
  <2>1. \A m \in flight : m.server \in Servers /\ m.revision \in Nat /\ m.version \in Nat
    BY CatalogAssumption DEF CatalogInv, ConnectorTypes, Requests
  <2>2. \A m \in flight : Numbered(m.server, m.revision)' /\ m.version <= version'[m.server]
    BY <1>3, <1>4, <2>1 DEF CatalogInv, RequestsInOrder
  <2> QED BY <1>1, <2>2 DEF CatalogInv, RequestsInOrder
<1>8. \A w \in Namespaces : CatalogCurrent(w)'
  <2> SUFFICES ASSUME NEW w \in Namespaces, catalog[w] # Unpublished PROVE CatalogCurrent(w)'
    BY <1>1 DEF CatalogCurrent, Unpublished
  <2>1. bound[w] \in Servers /\ catalog[w].revision \in Nat /\ catalog[w].version \in Nat
    BY DEF CatalogInv, CatalogCurrent, DirectoryTypes, Publication
  <2>2. Numbered(bound[w], catalog[w].revision)' /\ catalog[w].version <= version'[bound[w]]
    BY <1>1, <1>3, <1>4, <2>1 DEF CatalogInv, CatalogCurrent, Numbered
  <2> QED BY <1>1, <2>2 DEF CatalogInv, CatalogCurrent
<1>9. \A w \in Namespaces : ShownBehind(w)'
  BY <1>1 DEF CatalogInv, ShownBehind
<1> QED BY <1>2, <1>5, <1>6, <1>7, <1>8, <1>9 DEF CatalogInv

(* publish_snapshot: the newest snapshot under the newest number.          *)
LEMMA PublishKept ==
    ASSUME CatalogInv, NEW s \in Servers, Publish(s)
    PROVE  CatalogInv'
<1>1. UNCHANGED <<hash, issued, file, claimed, handed, workspaces, installation, delivered,
                  bound, catalog, shown, version, binding>>
  BY DEF Publish, cloudVars, bootstrapVars, directoryVars, projection
<1>2. PICK now \in {clock[s], clock[s] + 1} \ {0} :
          /\ clock' = [clock EXCEPT ![s] = now]
          /\ last' = [last EXCEPT ![s] = next_revision(s, now)]
  BY DEF Publish, TakesRevision
<1>3. PICK r \in 1..MaxClock : r = next_revision(s, now)
  BY NextRevision DEF Publish, TakesRevision, CatalogInv
<1>4. r \in Nat /\ now \in Nat /\ r >= last[s] /\ now >= clock[s]
      /\ \A q \in Nat : Numbered(s, q) => q < r
  BY <1>3, NextRevision, CatalogAssumption DEF Publish, TakesRevision, CatalogInv
<1>5. PICK m \in Requests : /\ m = [Request(s) EXCEPT !.revision = r]
                            /\ m.server = s /\ m.revision = r /\ m.version = version[s]
  <2>1. binding[s] \in Namespaces /\ version[s] \in 1..MaxVersion /\ last[s] \in Nat
    BY DEF CatalogInv, ConnectorTypes
  <2>2. Request(s) \in [server : Servers, binding : Namespaces, revision : Nat,
                       version : 1..MaxVersion, authenticated : BOOLEAN]
    BY <2>1 DEF Request
  <2>3. Request(s).server = s /\ Request(s).version = version[s]
    BY <2>1 DEF Request
  <2>4. /\ [Request(s) EXCEPT !.revision = r] \in Requests
        /\ [Request(s) EXCEPT !.revision = r].server = s
        /\ [Request(s) EXCEPT !.revision = r].revision = r
        /\ [Request(s) EXCEPT !.revision = r].version = version[s]
    BY <2>2, <2>3 DEF Requests
  <2> QED BY <2>4
<1>6. flight' = flight \cup {m}
  <2>1. last'[s] = r
    BY <1>2, <1>3 DEF CatalogInv, ConnectorTypes
  <2>2. flight' = flight \cup {[Request(s) EXCEPT !.revision = last'[s]]}
    BY DEF Publish
  <2> QED BY <1>5, <2>1, <2>2
<1>7. ConnectorTypes'
  BY <1>1, <1>2, <1>3, <1>4, <1>6 DEF Publish, CatalogInv, ConnectorTypes, Requests
<1>8. \A t \in Servers, n \in Nat : Numbered(t, n) => Numbered(t, n)'
  BY <1>2, <1>3, <1>4 DEF Numbered, CatalogInv, ConnectorTypes
<1>9. Numbered(s, r)'
  BY <1>2, <1>3, <1>4 DEF Numbered, CatalogInv, ConnectorTypes
<1>10. \A n \in flight : /\ n.server \in Servers /\ n.revision \in Nat /\ n.version \in Nat
                         /\ n.version <= version[n.server] /\ Numbered(n.server, n.revision)
                         /\ n.server = s => n.revision < r /\ n.version <= m.version
  BY <1>4, <1>5, CatalogAssumption DEF CatalogInv, ConnectorTypes, RequestsInOrder, Requests
<1>11. version[s] \in Nat
  BY CatalogAssumption DEF CatalogInv, ConnectorTypes
<1>12. RequestsInOrder'
  <2>1. \A n \in flight' : Numbered(n.server, n.revision)' /\ n.version <= version'[n.server]
    <3> SUFFICES ASSUME NEW n \in flight'
                 PROVE  Numbered(n.server, n.revision)' /\ n.version <= version'[n.server]
      OBVIOUS
    <3>1. CASE n = m
      <4>1. m.server = s /\ m.revision = r /\ m.version <= version'[s]
        BY <1>1, <1>5, <1>11
      <4> QED BY <1>9, <3>1, <4>1
    <3>2. CASE n \in flight
      BY <1>1, <1>8, <1>10, <3>2
    <3> QED BY <1>6, <3>1, <3>2
  <2>2. \A n, o \in flight' : n.server = o.server =>
           /\ n.revision < o.revision => n.version <= o.version
           /\ n.revision = o.revision => n = o
    <3> SUFFICES ASSUME NEW n \in flight', NEW o \in flight', n.server = o.server
                 PROVE  /\ n.revision < o.revision => n.version <= o.version
                        /\ n.revision = o.revision => n = o
      OBVIOUS
    <3>1. CASE n \in flight /\ o \in flight
      BY <3>1 DEF CatalogInv, RequestsInOrder
    <3>2. CASE n \in flight /\ o = m
      BY <1>5, <1>10, <3>2
    <3>3. CASE n = m /\ o \in flight
      BY <1>4, <1>5, <1>10, <3>3
    <3>4. CASE n = m /\ o = m
      BY <1>4, <1>5, <3>4
    <3> QED BY <1>6, <3>1, <3>2, <3>3, <3>4
  <2> QED BY <2>1, <2>2 DEF RequestsInOrder
<1>13. \A w \in Namespaces : CatalogCurrent(w)'
  <2> SUFFICES ASSUME NEW w \in Namespaces, catalog[w] # Unpublished PROVE CatalogCurrent(w)'
    BY <1>1 DEF CatalogCurrent, Unpublished
  <2>1. bound[w] \in Servers /\ catalog[w].revision \in Nat /\ catalog[w].version \in Nat
    BY DEF CatalogInv, CatalogCurrent, DirectoryTypes, Publication
  <2>2. Numbered(bound[w], catalog[w].revision)'
    BY <1>1, <1>8, <2>1 DEF CatalogInv, CatalogCurrent, Numbered
  <2>3. \A n \in flight' : n.server = bound[w] /\ n.revision > catalog[w].revision =>
           n.version >= catalog[w].version
    <3>1. m.server = bound[w] => m.version >= catalog[w].version
      BY <1>5, <1>11, <2>1 DEF CatalogInv, CatalogCurrent
    <3> QED BY <1>6, <3>1 DEF CatalogInv, CatalogCurrent
  <2> QED BY <1>1, <2>2, <2>3 DEF CatalogInv, CatalogCurrent
<1>14. \A w \in Namespaces : ShownBehind(w)'
  BY <1>1 DEF CatalogInv, ShownBehind
<1>15. TokenInv'
  BY <1>1, TokenUnchanged DEF CatalogInv
<1>16. DirectoryTypes'
  BY <1>1 DEF CatalogInv, DirectoryTypes, Publication
<1> QED BY <1>7, <1>12, <1>13, <1>14, <1>15, <1>16 DEF CatalogInv

(* The answer moves the connector's process at most.                       *)
LEMMA AnsweredTyped ==
    ASSUME ConnectorTypes, NEW m \in flight, NEW next \in {"idle", "stopped"},
           Answered(m, next)
    PROVE  process' \in [Servers -> {"off", "idle", "put", "stopped"}]
BY DEF Answered, ConnectorTypes

(* The connector that is authenticated keeps its request in its place.     *)
LEMMA AuthenticateKept ==
    ASSUME CatalogInv, NEW m \in flight, AuthenticatePut(m)
    PROVE  CatalogInv'
<1>1. UNCHANGED <<hash, issued, file, claimed, handed, workspaces, installation, delivered,
                  bound, catalog, shown, version, fits, clock, binding, last, directoryVars,
                  projection>>
  BY DEF AuthenticatePut, cloudVars, bootstrapVars, directoryVars, projection
<1>2. TokenInv'
  BY <1>1, TokenUnchanged DEF CatalogInv
<1>3. CASE connector(m.server)
  <2>1. PICK o \in Requests : /\ flight' = (flight \ {m}) \cup {o}
                              /\ o.server = m.server /\ o.revision = m.revision
                              /\ o.version = m.version
    <3>1. m \in Requests /\ flight' = (flight \ {m}) \cup {[m EXCEPT !.authenticated = TRUE]}
      BY <1>3 DEF AuthenticatePut, CatalogInv, ConnectorTypes
    <3>2. /\ [m EXCEPT !.authenticated = TRUE] \in Requests
          /\ [m EXCEPT !.authenticated = TRUE].server = m.server
          /\ [m EXCEPT !.authenticated = TRUE].revision = m.revision
          /\ [m EXCEPT !.authenticated = TRUE].version = m.version
      BY <3>1 DEF Requests
    <3> QED BY <3>1, <3>2
  <2>2. process' = process
    BY <1>3 DEF AuthenticatePut
  <2>3. ConnectorTypes'
    BY <1>1, <2>1, <2>2 DEF CatalogInv, ConnectorTypes, Requests
  <2>4. DirectoryTypes'
    BY <1>1 DEF CatalogInv, DirectoryTypes, Publication
  <2>5. \A n \in flight : \/ n = m
                          \/ n.server # m.server \/ n.revision # m.revision
    BY DEF CatalogInv, RequestsInOrder
  <2>6. RequestsInOrder'
    <3>1. \A n \in flight' : Numbered(n.server, n.revision)' /\ n.version <= version'[n.server]
      BY <1>1, <2>1 DEF CatalogInv, RequestsInOrder, Numbered
    <3>2. \A p, q \in flight' : p.server = q.server =>
             /\ p.revision < q.revision => p.version <= q.version
             /\ p.revision = q.revision => p = q
      BY <2>1, <2>5 DEF CatalogInv, RequestsInOrder
    <3> QED BY <3>1, <3>2 DEF RequestsInOrder
  <2>7. \A w \in Namespaces : CatalogCurrent(w)'
    BY <1>1, <2>1 DEF CatalogInv, CatalogCurrent, Numbered
  <2>8. \A w \in Namespaces : ShownBehind(w)'
    BY <1>1 DEF CatalogInv, ShownBehind
  <2> QED BY <1>2, <2>3, <2>4, <2>6, <2>7, <2>8 DEF CatalogInv
<1>4. CASE ~connector(m.server)
  <2>1. flight' = flight \ {m} /\ Answered(m, "stopped")
    BY <1>4 DEF AuthenticatePut
  <2>2. process' \in [Servers -> {"off", "idle", "put", "stopped"}]
    BY <2>1, AnsweredTyped DEF CatalogInv
  <2>3. ConnectorTypes'
    BY <1>1, <2>1, <2>2 DEF CatalogInv, ConnectorTypes, Requests
  <2> QED BY <1>1, <1>2, <2>1, <2>3, PublicationsKept
<1> QED BY <1>3, <1>4

(* put_catalog: only a later number takes the place of what is published.  *)
LEMMA ServeKept ==
    ASSUME CatalogInv, NEW m \in flight, ServePut(m)
    PROVE  /\ CatalogInv'
           /\ \A w \in Namespaces : catalog'[w] # catalog[w] =>
                 /\ catalog'[w].by = bound[w] /\ installation[bound[w]] = "active"
                 /\ catalog'[w].revision > catalog[w].revision
                 /\ catalog'[w].version >= catalog[w].version
<1>1. UNCHANGED <<hash, issued, file, claimed, handed, workspaces, installation, delivered,
                  bound, shown, version, fits, clock, binding, last, directoryVars>>
  BY DEF ServePut, put_catalog, bootstrapVars, directoryVars
<1>2. flight' = flight \ {m} /\ Answered(m, "idle")
  BY DEF ServePut
<1>3. TokenInv'
  BY <1>1, TokenUnchanged DEF CatalogInv
<1>4. process' \in [Servers -> {"off", "idle", "put", "stopped"}]
  BY <1>2, AnsweredTyped DEF CatalogInv
<1>5. ConnectorTypes'
  BY <1>1, <1>2, <1>4 DEF CatalogInv, ConnectorTypes, Requests
<1>6. CASE ~Accepts(m.server, m.binding, m.revision)
  <2>1. catalog' = catalog
    BY <1>6 DEF ServePut, put_catalog
  <2> QED BY <1>1, <1>2, <1>3, <1>5, <2>1, PublicationsKept DEF projection
<1>7. CASE Accepts(m.server, m.binding, m.revision)
  <2>1. PICK v \in Namespaces, c \in Publication :
           /\ v = m.binding /\ catalog' = [catalog EXCEPT ![v] = c]
           /\ c.revision = m.revision /\ c.version = m.version /\ c.by = m.server
           /\ bound[v] = m.server /\ installation[bound[v]] = "active"
           /\ m.revision > catalog[v].revision
    <3>1. m \in Requests
      BY DEF CatalogInv, ConnectorTypes
    <3> DEFINE d == [revision |-> m.revision, version |-> m.version, by |-> m.server]
    <3>2. d \in Publication
      BY <3>1, CatalogAssumption DEF Requests, Publication
    <3>3. catalog' = [catalog EXCEPT ![m.binding] = d] /\ m.binding \in Namespaces
      BY <1>7, <3>1 DEF ServePut, put_catalog, Requests
    <3>4. /\ bound[m.binding] = m.server /\ installation[bound[m.binding]] = "active"
          /\ m.revision > catalog[m.binding].revision
      BY <1>7 DEF Accepts
    <3> QED BY <3>2, <3>3, <3>4
  <2>2. catalog'[v] = c /\ \A w \in Namespaces : w # v => catalog'[w] = catalog[w]
    BY <2>1 DEF CatalogInv, DirectoryTypes
  <2>3. /\ m.server \in Servers /\ m.revision \in Nat /\ m.revision >= 1
        /\ m.version \in Nat /\ m.version >= 1
        /\ Numbered(m.server, m.revision) /\ m.version <= version[m.server]
    BY CatalogAssumption DEF CatalogInv, ConnectorTypes, RequestsInOrder, Requests
  <2>4. DirectoryTypes'
    BY <1>1, <2>1 DEF CatalogInv, DirectoryTypes
  <2>5. RequestsInOrder'
    BY <1>1, <1>2 DEF CatalogInv, RequestsInOrder, Numbered
  <2>6. catalog[v].version <= m.version
    <3>1. CASE catalog[v] = Unpublished
      BY <2>3, <3>1 DEF Unpublished
    <3>2. CASE catalog[v] # Unpublished
      BY <2>1, <3>2 DEF CatalogInv, CatalogCurrent
    <3> QED BY <3>1, <3>2
  <2>7. \A w \in Namespaces : CatalogCurrent(w)'
    <3> SUFFICES ASSUME NEW w \in Namespaces PROVE CatalogCurrent(w)'
      OBVIOUS
    <3>1. CASE w = v
      <4>1. Numbered(m.server, m.revision)'
        BY <1>1, <2>3 DEF Numbered
      <4>2. \A n \in flight' : n.server = m.server /\ n.revision > m.revision =>
               n.version >= m.version
        <5>1. \A n \in flight : n.version \in Nat /\ n.revision \in Nat
          BY CatalogAssumption DEF CatalogInv, ConnectorTypes, Requests
        <5> QED BY <1>2, <2>3, <5>1 DEF CatalogInv, RequestsInOrder
      <4>3. bound'[w] = m.server /\ catalog'[w] = c
        BY <1>1, <2>1, <2>2, <3>1
      <4> QED BY <1>1, <2>1, <2>3, <4>1, <4>2, <4>3 DEF CatalogCurrent, Numbered
    <3>2. CASE w # v
      <4>1. catalog'[w] = catalog[w] /\ bound'[w] = bound[w]
        BY <1>1, <2>2, <3>2
      <4> QED BY <1>1, <1>2, <4>1 DEF CatalogInv, CatalogCurrent, Numbered
    <3> QED BY <3>1, <3>2
  <2>8. \A w \in Namespaces : ShownBehind(w)'
    <3> SUFFICES ASSUME NEW w \in Namespaces PROVE ShownBehind(w)'
      OBVIOUS
    <3>1. CASE w = v
      <4>1. ShownBehind(w) /\ shown[w] \in Publication /\ catalog[w] \in Publication
        BY DEF CatalogInv, DirectoryTypes
      <4> QED BY <1>1, <2>1, <2>2, <2>3, <2>6, <3>1, <4>1 DEF ShownBehind, Publication
    <3>2. CASE w # v
      BY <1>1, <2>2, <3>2 DEF CatalogInv, ShownBehind
    <3> QED BY <3>1, <3>2
  <2> QED BY <1>3, <1>5, <2>1, <2>2, <2>4, <2>5, <2>6, <2>7, <2>8 DEF CatalogInv
<1> QED BY <1>6, <1>7

(* The actions that leave the bindings, the publications and their order.  *)
LEMMA QuietKept ==
    ASSUME CatalogInv,
           \/ /\ UNCHANGED connectorVars
              /\ \/ Open \/ CreateTokenFile \/ FillTokenFile \/ OperatorReads \/ ClaimAnswered
                 \/ SessionEnds
                 \/ \E t \in handed : claim_bootstrap(t)
                 \/ \E h \in Tabs, operation \in Operations : user(h, operation)
                 \/ \E h \in Tabs : Fails(h) \/ logout(h)
           \/ CloudCrash
           \/ \E s \in Servers : LocalRejects(s) \/ GiveUp(s) \/ ConnectorCrash(s)
           \/ \E m \in flight : Lose(m)
           \/ UNCHANGED catalogVars
    PROVE  CatalogInv'
<1> DEFINE quiet == /\ flight' \subseteq flight
                    /\ UNCHANGED <<directoryVars, projection, version, fits, clock, last, binding>>
                    /\ process' \in [Servers -> {"off", "idle", "put", "stopped"}]
           kept == UNCHANGED <<hash, issued, file, claimed, handed>>
<1>1. process \in [Servers -> {"off", "idle", "put", "stopped"}] /\ TokenInv /\ ConnectorTypes
  BY DEF CatalogInv, ConnectorTypes
<1>2. ASSUME quiet, TokenInv' PROVE CatalogInv'
  BY <1>1, <1>2, PublicationsKept DEF ConnectorTypes, Requests
<1>3. ASSUME quiet, kept PROVE CatalogInv'
  BY <1>1, <1>2, <1>3, TokenUnchanged
<1>4. CASE /\ UNCHANGED connectorVars
           /\ \/ Open \/ CreateTokenFile \/ FillTokenFile \/ OperatorReads \/ ClaimAnswered
              \/ \E t \in handed : claim_bootstrap(t)
  <2>1. TokenInv'
    BY <1>1, <1>4, TokenKept
  <2>2. quiet
    BY <1>1, <1>4 DEF connectorVars, Open, CreateTokenFile, FillTokenFile, OperatorReads,
       ClaimAnswered, claim_bootstrap
  <2> QED BY <1>2, <2>1, <2>2
<1>5. CASE /\ UNCHANGED connectorVars
           /\ \/ SessionEnds
              \/ \E h \in Tabs, operation \in Operations : user(h, operation)
              \/ \E h \in Tabs : Fails(h) \/ logout(h)
  <2>1. quiet
    BY <1>1, <1>5 DEF connectorVars, SessionEnds, user, Fails, logout
  <2>2. kept
    BY <1>5 DEF SessionEnds, user, Fails, logout, Does, bootstrapVars
  <2> QED BY <1>3, <2>1, <2>2
<1>6. CASE CloudCrash
  <2>1. TokenInv'
    BY <1>1, <1>6, TokenKept DEF CloudCrash
  <2>2. quiet
    BY <1>1, <1>6 DEF CloudCrash, CloudStops
  <2> QED BY <1>2, <2>1, <2>2
<1>7. CASE \E s \in Servers : LocalRejects(s) \/ GiveUp(s) \/ ConnectorCrash(s)
  <2>1. quiet
    BY <1>1, <1>7 DEF LocalRejects, GiveUp, ConnectorCrash, cloudVars
  <2>2. kept
    BY <1>7 DEF LocalRejects, GiveUp, ConnectorCrash, cloudVars, bootstrapVars
  <2> QED BY <1>3, <2>1, <2>2
<1>8. CASE \E m \in flight : Lose(m)
  <2>1. quiet
    BY <1>1, <1>8 DEF Lose, cloudVars
  <2>2. kept
    BY <1>8 DEF Lose, cloudVars, bootstrapVars
  <2> QED BY <1>3, <2>1, <2>2
<1>9. CASE UNCHANGED catalogVars
  <2>1. quiet
    BY <1>1, <1>9 DEF catalogVars, cloudVars, connectorVars
  <2>2. kept
    BY <1>9 DEF catalogVars, cloudVars, bootstrapVars
  <2> QED BY <1>3, <2>1, <2>2
<1> HIDE DEF quiet, kept
<1> QED BY <1>4, <1>5, <1>6, <1>7, <1>8, <1>9

(* Cloud and the connectors start empty. *)
LEMMA CatalogStart == ASSUME CatalogInit PROVE CatalogInv
<1>1. TokenInv
  BY DEF CatalogInit, CloudInit, TokenInv, BootstrapHonoured, Absent
<1>2. Unpublished \in Publication
  BY DEF Unpublished, Publication
<1>3. DirectoryTypes
  BY <1>2 DEF CatalogInit, CloudInit, DirectoryTypes
<1>4. ConnectorTypes
  BY CatalogAssumption DEF CatalogInit, ConnectorInit, ConnectorTypes
<1>5. RequestsInOrder
  BY DEF CatalogInit, ConnectorInit, RequestsInOrder
<1>6. \A w \in Namespaces : CatalogCurrent(w) /\ ShownBehind(w)
  BY DEF CatalogInit, CloudInit, CatalogCurrent, ShownBehind
<1> QED BY <1>1, <1>3, <1>4, <1>5, <1>6 DEF CatalogInv

(* Every step of Cloud, the connectors and the links keeps the invariant. *)
LEMMA CatalogStep == ASSUME CatalogInv, [CatalogNext]_catalogVars PROVE CatalogInv'
<1>1. CASE Handle
  <2>1. UNCHANGED connectorVars /\ CloudHandlers
    BY <1>1 DEF Handle
  <2>2. CASE \/ Open \/ CreateTokenFile \/ FillTokenFile \/ OperatorReads \/ ClaimAnswered
             \/ SessionEnds
             \/ \E t \in handed : claim_bootstrap(t)
             \/ \E h \in Tabs, operation \in Operations : user(h, operation)
             \/ \E h \in Tabs : Fails(h) \/ logout(h)
    BY <2>1, <2>2, QuietKept
  <2>3. CASE \E h \in Tabs : \/ \E w \in Namespaces : create_workspace(h, w)
                             \/ \E s \in Servers : register_installation(h, s)
                             \/ \E s \in Servers : revoke_installation(h, s)
    BY <2>1, <2>3, RecordsKept
  <2>4. CASE \E h \in Tabs, w \in Namespaces, s \in Servers : bind_installation(h, w, s)
    BY <2>1, <2>4, BindKept
  <2>5. CASE \E h \in Tabs : list_workspaces(h) \/ \E w \in Namespaces : directory_project(h, w)
    BY <2>1, <2>5, PagesKept
  <2> QED BY <2>1, <2>2, <2>3, <2>4, <2>5 DEF CloudHandlers
<1>2. CASE CloudCrash \/ UNCHANGED catalogVars
  BY <1>2, QuietKept
<1>3. CASE \E s \in Servers : LocalRejects(s) \/ GiveUp(s) \/ ConnectorCrash(s)
  BY <1>3, QuietKept
<1>4. CASE \E s \in Servers : LocalChange(s) \/ StartConnector(s) \/ PublishFails(s)
  BY <1>4, AdvanceKept
<1>5. CASE \E s \in Servers : Publish(s)
  BY <1>5, PublishKept
<1>6. CASE \E m \in flight : AuthenticatePut(m)
  BY <1>6, AuthenticateKept
<1>7. CASE \E m \in flight : ServePut(m)
  BY <1>7, ServeKept
<1>8. CASE \E m \in flight : Lose(m)
  BY <1>8, QuietKept
<1> QED BY <1>1, <1>2, <1>3, <1>4, <1>5, <1>6, <1>7, <1>8 DEF CatalogNext

(* CatalogInv holds in every state of Cloud and its connectors.            *)
THEOREM CatalogInvariant == CatalogSpec => []CatalogInv
BY CatalogStart, CatalogStep, PTL DEF CatalogSpec

(* CatalogTypeOK: the requests of a connector carry distinct revisions,    *)
(* and what is published is a snapshot that its server has had.            *)
THEOREM CatalogTypeCorrect == CatalogSpec => []CatalogTypeOK
<1>1. ASSUME CatalogInv PROVE CatalogTypeOK
  <2>1. hash \in 0..issued /\ file.token \in 0..issued /\ (claimed => hash = 0)
    BY <1>1 DEF CatalogInv, TokenInv
  <2>2. /\ delivered \subseteq {s \in Servers : installation[s] # "none"}
        /\ fits \in [Servers -> BOOLEAN] /\ flight \subseteq Requests
        /\ \A m, n \in flight : m.server = n.server /\ m.revision = n.revision => m = n
    BY <1>1 DEF CatalogInv, DirectoryTypes, ConnectorTypes, RequestsInOrder
  <2>3. ASSUME NEW w \in Namespaces, catalog[w].by # NoServer
        PROVE  /\ w \in workspaces
               /\ catalog[w].revision \in 1..Latest(catalog[w].by)
               /\ catalog[w].version \in 1..version[catalog[w].by]
    <3>1. catalog[w] # Unpublished
      BY <2>3 DEF Unpublished
    <3>2. PICK s \in Servers : s = bound[w] /\ catalog[w].by = s
      BY <1>1, <3>1 DEF CatalogInv, CatalogCurrent
    <3>3. /\ catalog[w].revision \in Nat /\ catalog[w].version \in Nat
          /\ clock[s] \in Nat /\ last[s] \in Nat /\ version[s] \in Nat
      BY <1>1, CatalogAssumption DEF CatalogInv, DirectoryTypes, ConnectorTypes, Publication
    <3>4. /\ catalog[w].revision >= 1 /\ catalog[w].version >= 1
          /\ Numbered(s, catalog[w].revision) /\ catalog[w].version <= version[s]
      BY <1>1, <3>1, <3>2 DEF CatalogInv, CatalogCurrent
    <3>5. w \in workspaces
      BY <1>1, <2>3, <3>2 DEF CatalogInv, DirectoryTypes
    <3> QED BY <3>2, <3>3, <3>4, <3>5 DEF Numbered, Latest
  <2> QED BY <2>1, <2>2, <2>3 DEF CatalogTypeOK
<1> QED BY <1>1, CatalogInvariant, PTL

(* BootstrapHonoured: a token that the operator has read opens Cloud until *)
(* it is claimed, whatever crash and restart of ensure_bootstrap come in   *)
(* between.                                                                *)
THEOREM BootstrapTokenHonoured == CatalogSpec => []BootstrapHonoured
<1>1. ASSUME CatalogInv PROVE BootstrapHonoured
  BY <1>1 DEF CatalogInv, TokenInv
<1> QED BY <1>1, CatalogInvariant, PTL

(* What a step does to the publications and the pages: only ServePut       *)
(* replaces one, and a page shows what is published.                       *)
LEMMA PublicationStep ==
    ASSUME CatalogInv, [CatalogNext]_catalogVars, NEW w \in Namespaces
    PROVE  /\ catalog'[w] # catalog[w] =>
                /\ catalog'[w].by = bound[w] /\ installation[bound[w]] = "active"
                /\ catalog'[w].revision > catalog[w].revision
                /\ catalog'[w].version >= catalog[w].version
           /\ shown'[w] \in {shown[w], catalog[w]}
<1>1. CASE \E m \in flight : ServePut(m)
  <2>1. PICK m \in flight : ServePut(m)
    BY <1>1
  <2>2. shown' = shown
    BY <2>1 DEF ServePut, put_catalog
  <2> QED BY <2>1, <2>2, ServeKept
<1>2. CASE Handle
  <2>1. catalog' = catalog
    BY <1>2 DEF Handle, CloudHandlers, Open, CreateTokenFile, FillTokenFile, OperatorReads,
       claim_bootstrap, ClaimAnswered, SessionEnds, user, Fails, logout, create_workspace,
       register_installation, bind_installation, revoke_installation, list_workspaces,
       directory_project, projection
  <2>2. CASE \E h \in Tabs : list_workspaces(h) \/ \E v \in Namespaces : directory_project(h, v)
    <3>1. shown'[w] \in {shown[w], catalog[w]}
      BY <2>2 DEF list_workspaces, directory_project, CatalogInv, DirectoryTypes
    <3> QED BY <2>1, <3>1
  <2>3. CASE ~ \E h \in Tabs : list_workspaces(h) \/ \E v \in Namespaces : directory_project(h, v)
    <3>1. shown' = shown
      BY <1>2, <2>3 DEF Handle, CloudHandlers, Open, CreateTokenFile, FillTokenFile,
         OperatorReads, claim_bootstrap, ClaimAnswered, SessionEnds, user, Fails, logout,
         create_workspace, register_installation, bind_installation, revoke_installation,
         projection
    <3> QED BY <2>1, <3>1
  <2> QED BY <2>2, <2>3
<1>3. CASE \/ CloudCrash \/ UNCHANGED catalogVars
           \/ \E s \in Servers :
                 \/ LocalChange(s) \/ StartConnector(s) \/ Publish(s) \/ PublishFails(s)
                 \/ LocalRejects(s) \/ GiveUp(s) \/ ConnectorCrash(s)
           \/ \E m \in flight : AuthenticatePut(m) \/ Lose(m)
  <2>1. catalog' = catalog /\ shown' = shown
    BY <1>3 DEF CloudCrash, CloudStops, LocalChange, StartConnector, Publish, PublishFails,
       LocalRejects, GiveUp, ConnectorCrash, AuthenticatePut, Lose, catalogVars, cloudVars, projection
  <2> QED BY <2>1
<1> QED BY <1>1, <1>2, <1>3 DEF CatalogNext

(* PublishedUnderAuthority: a publication that changes was made by the     *)
(* installation bound to the workspace, which is not revoked then, although*)
(* connector has authenticated the request in an earlier step.             *)
THEOREM AuthorityChecked == CatalogSpec => PublishedUnderAuthority
<1>1. ASSUME CatalogInv, [CatalogNext]_catalogVars
      PROVE  [\A w \in Namespaces : catalog'[w] # catalog[w] =>
                /\ catalog'[w].by = bound[w]
                /\ installation[bound[w]] = "active"]_cloudVars
  BY <1>1, PublicationStep
<1> QED BY <1>1, CatalogInvariant, PTL DEF CatalogSpec, PublishedUnderAuthority

(* PublicationsInOrder: no snapshot takes the place of a later one and no  *)
(* page goes back, although requests overtake each other and connectors    *)
(* restart with another clock.                                             *)
THEOREM PublicationOrderKept == CatalogSpec => PublicationsInOrder
<1>1. ASSUME CatalogInv, [CatalogNext]_catalogVars
      PROVE  \A w \in Namespaces :
                /\ catalog'[w].version >= catalog[w].version
                /\ shown'[w] # shown[w] =>
                      /\ shown'[w].revision > shown[w].revision
                      /\ shown'[w].version >= shown[w].version
  <2> SUFFICES ASSUME NEW w \in Namespaces
               PROVE  /\ catalog'[w].version >= catalog[w].version
                      /\ shown'[w] # shown[w] =>
                            /\ shown'[w].revision > shown[w].revision
                            /\ shown'[w].version >= shown[w].version
    OBVIOUS
  <2>1. /\ catalog[w].version \in Nat /\ catalog[w].revision \in Nat
        /\ shown[w].version \in Nat /\ shown[w].revision \in Nat /\ ShownBehind(w)
    BY <1>1 DEF CatalogInv, DirectoryTypes, Publication
  <2>2. /\ catalog'[w] # catalog[w] => catalog'[w].version >= catalog[w].version
        /\ shown'[w] \in {shown[w], catalog[w]}
    BY <1>1, PublicationStep
  <2> QED BY <2>1, <2>2 DEF ShownBehind
<1> QED BY <1>1, CatalogInvariant, PTL DEF CatalogSpec, PublicationsInOrder
=============================================================================
