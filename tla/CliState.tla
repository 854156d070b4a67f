------------------------------ MODULE CliState ------------------------------
(***************************************************************************)
(* The files of the C6 command line: config.toml, which names servers, and *)
(* credentials.json, which holds their tokens.  Commands and Git's         *)
(* credential helper are processes that share them under an advisory lock, *)
(* each reading both files, changing its copies and writing them back      *)
(* through temporary files.  A command that only reads takes no lock.      *)
(*                                                                         *)
(* A host is a base URL with the server that answers there; a token is     *)
(* named by the host that verified it.  A process identifier is used again *)
(* once its process has ended.  Which alias is the default is left out: a  *)
(* command may be given any.                                               *)
(***************************************************************************)
EXTENDS Naturals, FiniteSets

CONSTANTS Processes, Aliases, Hosts, NoHost,
          MaxCommands       \* bound on the commands that are run

VARIABLES config,           \* config.toml: alias -> host, and the consent
          store,            \* credentials.json: tokens by alias
          lock,             \* processes that hold state.lock
          temporaries,      \* temporary files: which file, of which process
          phase, command,   \* of a process
          myConfig, myStore,    \* its copies of the files
          ran,
          confirmed,        \* history: alias -> the host reported as added
          misdirected       \* history: a token was sent to another host

copies == <<myConfig, myStore>>
cliVars == <<config, store, temporaries, lock, phase, command, copies, ran,
             confirmed, misdirected>>

NoServers == [a \in Aliases |-> NoHost]
EmptyConfig == [servers |-> NoServers, plaintext |-> FALSE]
EmptyStore == [api |-> NoServers, git |-> NoServers]

NoCommand == [op |-> "none", alias |-> NoHost, host |-> NoHost]
Commands == [op : {"add", "use", "login", "logout", "get", "store", "erase", "status"},
             alias : Aliases, host : Hosts]

Locked == {"load", "store", "store_rename", "config", "config_rename"}

(* Whoever holds the lock is at work under it and alone, and nothing is    *)
(* renamed that is not there.                                              *)
CliTypeOK ==
    /\ config.servers \in [Aliases -> Hosts \cup {NoHost}]
    /\ store.api \in [Aliases -> Hosts \cup {NoHost}]
    /\ store.git \in [Aliases -> Hosts \cup {NoHost}]
    /\ lock = {p \in Processes : phase[p] \in Locked}
    /\ Cardinality(lock) <= 1
    /\ temporaries \subseteq {"store", "config"} \X Processes
    /\ \A p \in Processes :
          /\ phase[p] = "store_rename" => <<"store", p>> \in temporaries
          /\ phase[p] = "config_rename" => <<"config", p>> \in temporaries

CliInit ==
    /\ config = EmptyConfig /\ store = EmptyStore
    /\ lock = {} /\ temporaries = {}
    /\ phase = [p \in Processes |-> "idle"]
    /\ command = [p \in Processes |-> NoCommand]
    /\ myConfig = [p \in Processes |-> EmptyConfig]
    /\ myStore = [p \in Processes |-> EmptyStore]
    /\ ran = 0
    /\ confirmed = NoServers
    /\ misdirected = FALSE
-----------------------------------------------------------------------------
(* The process ends; the kernel releases what it has locked. *)
Exits(p) ==
    /\ lock' = lock \ {p}
    /\ phase' = [phase EXCEPT ![p] = "idle"]
    /\ command' = [command EXCEPT ![p] = NoCommand]
    /\ myConfig' = [myConfig EXCEPT ![p] = EmptyConfig]
    /\ myStore' = [myStore EXCEPT ![p] = EmptyStore]

FirstPhase(op) ==
    IF op = "login" THEN "select" ELSE IF op = "status" THEN "read" ELSE "lock"

(* A command line.  What add asks its server before it locks is which      *)
(* server that is: the host.                                               *)
Run(p, c) ==
    /\ phase[p] = "idle"
    /\ ran < MaxCommands
    /\ ran' = ran + 1
    /\ phase' = [phase EXCEPT ![p] = FirstPhase(c.op)]
    /\ command' = [command EXCEPT ![p] = c]
    /\ UNCHANGED <<config, store, temporaries, lock, copies, confirmed, misdirected>>

(* login before the lock: the server is selected and its whoami answers,   *)
(* to the URL of the alias and as the server pinned to it.                 *)
Select(p) ==
    LET c == command[p] IN
    /\ phase[p] = "select"
    /\ IF config.servers[c.alias] = c.host
         THEN /\ phase' = [phase EXCEPT ![p] = "lock"]
              /\ myConfig' = [myConfig EXCEPT ![p] = config]
              /\ UNCHANGED <<lock, command, myStore>>
         ELSE Exits(p)
    /\ UNCHANGED <<config, store, temporaries, ran, confirmed, misdirected>>

(* status, clone, remote add and project list: the configuration is read,  *)
(* then the credentials, and the token goes to the host of the alias.      *)
ReadConfig(p) ==
    /\ phase[p] = "read"
    /\ phase' = [phase EXCEPT ![p] = "read_store"]
    /\ myConfig' = [myConfig EXCEPT ![p] = config]
    /\ UNCHANGED <<config, store, temporaries, lock, command, myStore, ran,
                   confirmed, misdirected>>

ReadStore(p) ==
    LET a == command[p].alias IN
    /\ phase[p] = "read_store"
    /\ misdirected' = (misdirected \/
          /\ myConfig[p].servers[a] # NoHost
          /\ store.api[a] \notin {NoHost, myConfig[p].servers[a]})
    /\ Exits(p)
    /\ UNCHANGED <<config, store, temporaries, ran, confirmed>>
-----------------------------------------------------------------------------
(* Mutant: the lock is taken whoever holds it. *)
AcquireShared(p) ==
    /\ phase[p] = "lock"
    /\ lock' = lock \cup {p}
    /\ phase' = [phase EXCEPT ![p] = "load"]
    /\ UNCHANGED <<config, store, temporaries, command, copies, ran, confirmed,
                   misdirected>>

(* flock: exclusive, and tried again until the deadline. *)
Acquire(p) ==
    /\ phase[p] = "lock"
    /\ lock = {}
    /\ lock' = {p}
    /\ phase' = [phase EXCEPT ![p] = "load"]
    /\ UNCHANGED <<config, store, temporaries, command, copies, ran, confirmed,
                   misdirected>>

LockTimeout(p) ==
    /\ phase[p] = "lock"
    /\ lock # {}
    /\ Exits(p)
    /\ UNCHANGED <<config, store, temporaries, ran, confirmed, misdirected>>

(* Mutant: an alias is given another server. *)
ServerPermitsRepointing(c) ==
    \/ c.op = "add"
    \/ c.op = "use" /\ config.servers[c.alias] # NoHost

(* What a command checks once it holds the lock.  An alias is added once,  *)
(* or again as it is.                                                      *)
ServerPermits(c) ==
    \/ c.op = "add" /\ config.servers[c.alias] \in {NoHost, c.host}
    \/ c.op = "use" /\ config.servers[c.alias] # NoHost

(* The token of a login goes to the server that has verified it. *)
AuthPermits(c) ==
    \/ c.op = "login" /\ config.servers[c.alias] = c.host
    \/ c.op = "logout" /\ config.servers[c.alias] # NoHost

(* The helper finds its alias by the host that Git names.                  *)
HelperPermits(c) ==
    /\ config.servers[c.alias] = c.host
    /\ \/ c.op = "store" /\ config.plaintext
       \/ c.op = "erase"

ChangedConfig(p) ==
    CASE command[p].op = "add" ->
            [config EXCEPT !.servers[command[p].alias] = command[p].host]
      [] command[p].op = "login" -> [config EXCEPT !.plaintext = TRUE]
      [] OTHER -> config

ChangedStore(p) ==
    LET c == command[p] IN
    CASE c.op = "login" -> [store EXCEPT !.api[c.alias] = c.host]
      [] c.op = "logout" -> [store EXCEPT !.api[c.alias] = NoHost]
      [] c.op = "store" -> [store EXCEPT !.git[c.alias] = c.host]
      [] c.op = "erase" -> [store EXCEPT !.git[c.alias] = NoHost]
      [] OTHER -> store

(* The helper answers Git, which asks for the host it talks to. *)
Get(p) ==
    LET c == command[p] IN
    /\ phase[p] = "load"
    /\ c.op = "get"
    /\ misdirected' = (misdirected \/
          /\ config.servers[c.alias] = c.host
          /\ store.git[c.alias] \notin {NoHost, c.host})
    /\ Exits(p)
    /\ UNCHANGED <<config, store, temporaries, ran, confirmed>>

(* Both files are read again, and the copies changed. *)
Load(p) ==
    /\ phase[p] = "load"
    /\ command[p].op # "get"
    /\ IF \/ ServerPermits(command[p])
          \/ AuthPermits(command[p])
          \/ HelperPermits(command[p])
         THEN /\ myConfig' = [myConfig EXCEPT ![p] = ChangedConfig(p)]
              /\ myStore' = [myStore EXCEPT ![p] = ChangedStore(p)]
              /\ phase' = [phase EXCEPT ![p] =
                    IF command[p].op \in {"add", "use"} THEN "config" ELSE "store"]
              /\ UNCHANGED <<lock, command>>
         ELSE Exits(p)
    /\ UNCHANGED <<config, store, temporaries, ran, confirmed, misdirected>>

(* write_atomic: create_new, write and sync.  What a process of the same   *)
(* identifier left behind makes this one fail, and is removed.             *)
WriteTemporary(p, f) ==
    /\ phase[p] = f
    /\ IF <<f, p>> \in temporaries
         THEN temporaries' = temporaries \ {<<f, p>>} /\ Exits(p)
         ELSE /\ temporaries' = temporaries \cup {<<f, p>>}
              /\ phase' = [phase EXCEPT ![p] = IF f = "store" THEN "store_rename"
                                                            ELSE "config_rename"]
              /\ UNCHANGED <<lock, command, copies>>
    /\ UNCHANGED <<config, store, ran, confirmed, misdirected>>

(* A write or sync fails, and takes the temporary file with it. *)
WriteFails(p, f) ==
    /\ phase[p] = f
    /\ temporaries' = temporaries \ {<<f, p>>}
    /\ Exits(p)
    /\ UNCHANGED <<config, store, ran, confirmed, misdirected>>

(* rename, then a sync of the directory that may fail.  login goes on with *)
(* its configuration; the others are done.                                 *)
RenameStore(p) ==
    /\ phase[p] = "store_rename"
    /\ store' = myStore[p]
    /\ temporaries' = temporaries \ {<<"store", p>>}
    /\ \/ /\ command[p].op = "login"
          /\ phase' = [phase EXCEPT ![p] = "config"]
          /\ UNCHANGED <<lock, command, copies>>
       \/ Exits(p)
    /\ UNCHANGED <<config, ran, confirmed, misdirected>>

RenameConfig(p) ==
    /\ phase[p] = "config_rename"
    /\ config' = myConfig[p]
    /\ temporaries' = temporaries \ {<<"config", p>>}
    /\ confirmed' = IF command[p].op = "add"
                    THEN [confirmed EXCEPT ![command[p].alias] = command[p].host]
                    ELSE confirmed
    /\ Exits(p)
    /\ UNCHANGED <<store, ran, misdirected>>

(* A signal kills the process wherever it is. *)
Killed(p) ==
    /\ phase[p] \in Locked
    /\ Exits(p)
    /\ UNCHANGED <<config, store, temporaries, ran, confirmed, misdirected>>

CliNext ==
    \E p \in Processes :
        \/ \E c \in Commands : Run(p, c)
        \/ Select(p) \/ ReadConfig(p) \/ ReadStore(p)
        \/ Acquire(p) \/ LockTimeout(p) \/ Get(p) \/ Load(p)
        \/ \E f \in {"store", "config"} : WriteTemporary(p, f) \/ WriteFails(p, f)
        \/ RenameStore(p) \/ RenameConfig(p) \/ Killed(p)

CliSpec == CliInit /\ [][CliNext]_cliVars
-----------------------------------------------------------------------------
(* server add and StateLock: what a command reported as added is there,    *)
(* whatever other commands were writing, dying or waiting meanwhile.       *)
NothingLost ==
    \A a \in Aliases : confirmed[a] # NoHost => config.servers[a] = confirmed[a]

(* login, server add, authenticated_client and git-credential-c6: an alias *)
(* keeps the tokens of the server it names, and a command that takes no    *)
(* lock sends no token elsewhere, nor does Git.                            *)
TokensStayHome ==
    /\ ~misdirected
    /\ \A a \in Aliases : {store.api[a], store.git[a]} \subseteq {NoHost, config.servers[a]}

(* git-credential-c6 ("plaintext credential storage is not enabled"): a    *)
(* Git token is on disk only while the configuration says that it may be,  *)
(* a consent no other command takes back.                                  *)
GitTokensByConsent == store.git # NoServers => config.plaintext

(* Tokens are with the server they are of, and on disk by consent.         *)
TokensKept == TokensStayHome /\ GitTokensByConsent
=============================================================================
