------------------------- MODULE CatalogPublication -------------------------
(***************************************************************************)
(* Connectors that publish the project list of their local server to the   *)
(* directory, one snapshot after the other.  A snapshot is the number of   *)
(* changes the list has seen.  A request that is given up after its        *)
(* timeout is still on its way and may be served after a later one.        *)
(*                                                                         *)
(* The local server accepts projects that the directory's contract does    *)
(* not (a description of several lines, a slug like a--b) and lists that   *)
(* are too long for it: such a list does not fit, and no publication of it *)
(* arrives.                                                                *)
(*                                                                         *)
(* Clocks count milliseconds and publications are seconds apart: a clock   *)
(* advances between two of them, unless it is set back.  By the time a     *)
(* connector has been restarted it has passed all its revisions.  A        *)
(* connector publishes every interval; here only when the directory does   *)
(* not have its snapshot yet, for what else it sends changes nothing but   *)
(* a revision.                                                             *)
(***************************************************************************)
EXTENDS CloudDirectory

CONSTANTS MaxVersion,       \* bound on the changes of a list
          MaxClock,         \* bound on the revisions of a server
          MaxFaults         \* bound on timeouts, lost messages, refused lists

ASSUME CatalogAssumption == MaxVersion \in Nat \ {0} /\ {MaxClock, MaxFaults} \subseteq Nat

VARIABLES version,          \* server -> changes its project list has seen
          fits,             \* server -> whether the contract allows its list
          clock,            \* server -> its wall clock
          process,          \* server -> phase of its connector
          binding,          \* server -> the binding_id of its configuration
          last,             \* server -> LAST_REVISION of the process
          flight,           \* requests between connectors and Cloud
          faults

connectorVars == <<version, fits, clock, process, binding, last, flight, faults>>
catalogVars == <<cloudVars, connectorVars>>

Request(s) == [server |-> s, binding |-> binding[s], revision |-> last[s],
               version |-> version[s], authenticated |-> FALSE]

Requests == [server : Servers, binding : Namespaces, revision : 1..MaxClock,
             version : 1..MaxVersion, authenticated : BOOLEAN]

(* What the clock or the numbering has reached. *)
Latest(s) == IF clock[s] > last[s] THEN clock[s] ELSE last[s]

(* The requests of a server carry distinct revisions, and what is          *)
(* published is a snapshot that the server has had.                        *)
CatalogTypeOK ==
    /\ hash \in 0..issued /\ file.token \in 0..issued
    /\ claimed => hash = 0
    /\ delivered \subseteq {s \in Servers : installation[s] # "none"}
    /\ fits \in [Servers -> BOOLEAN]
    /\ flight \subseteq Requests
    /\ \A m, n \in flight :
          m.server = n.server /\ m.revision = n.revision => m = n
    /\ \A w \in Namespaces : catalog[w].by # NoServer =>
          /\ w \in workspaces
          /\ catalog[w].revision \in 1..Latest(catalog[w].by)
          /\ catalog[w].version \in 1..version[catalog[w].by]

ConnectorInit ==
    /\ version = [s \in Servers |-> 1]
    /\ fits \in [Servers -> BOOLEAN]
    /\ clock = [s \in Servers |-> 0]
    /\ process = [s \in Servers |-> "off"]
    /\ binding \in [Servers -> Namespaces]
    /\ last = [s \in Servers |-> 0]
    /\ flight = {}
    /\ faults = 0

CatalogInit == CloudInit /\ ConnectorInit
-----------------------------------------------------------------------------
(* A project is created, changed or committed to on the local server. *)
LocalChange(s) ==
    /\ version[s] < MaxVersion
    /\ version' = [version EXCEPT ![s] = @ + 1]
    /\ \E allowed \in BOOLEAN : fits' = [fits EXCEPT ![s] = allowed]
    /\ UNCHANGED <<cloudVars, clock, process, binding, last, flight, faults>>

(* main: the operator has the token, and copied the id of a binding, not   *)
(* necessarily the right one, into the configuration.                      *)
StartConnector(s) ==
    /\ process[s] = "off"
    /\ s \in delivered
    /\ bound[binding[s]] # NoServer
    /\ process' = [process EXCEPT ![s] = "idle"]
    /\ last' = [last EXCEPT ![s] = 0]
    /\ clock' = [clock EXCEPT ![s] = Latest(s) + 1]
    /\ UNCHANGED <<cloudVars, version, fits, binding, flight, faults>>

(* Mutant: the clock alone numbers. *)
next_revision_clock(s, now) == now

(* next_revision: the clock, but in any case more than the last one. *)
next_revision(s, now) == IF now > last[s] THEN now ELSE last[s] + 1

TakesRevision(s) ==
    /\ Latest(s) < MaxClock
    /\ \E now \in {clock[s], clock[s] + 1} \ {0} :
          /\ clock' = [clock EXCEPT ![s] = now]
          /\ last' = [last EXCEPT ![s] = next_revision(s, now)]

(* publish_snapshot: the list is read, then numbered and sent. *)
Publish(s) ==
    /\ process[s] = "idle"
    /\ fits[s]
    /\ catalog[binding[s]].version # version[s]
    /\ TakesRevision(s)
    /\ flight' = flight \cup {[Request(s) EXCEPT !.revision = last'[s]]}
    /\ process' = [process EXCEPT ![s] = "put"]
    /\ UNCHANGED <<cloudVars, version, fits, binding, faults>>

(* snapshot_request: validate refuses the list when it has been numbered,  *)
(* or Cloud refuses it for its size without reading it, while the          *)
(* connector waits.  A project that project_input refuses, or a list that  *)
(* is too long to be read, does not even get a number.                     *)
PublishFails(s) ==
    /\ process[s] = "idle"
    /\ ~fits[s]
    /\ faults < MaxFaults
    /\ faults' = faults + 1
    /\ TakesRevision(s)
    /\ \E phase \in {"idle", "put"} : process' = [process EXCEPT ![s] = phase]
    /\ UNCHANGED <<cloudVars, version, fits, binding, flight>>

(* The local server refuses the connector's credential: run_periodic ends. *)
LocalRejects(s) ==
    /\ process[s] = "idle"
    /\ process' = [process EXCEPT ![s] = "stopped"]
    /\ UNCHANGED <<cloudVars, version, fits, clock, binding, last, flight, faults>>

(* The answer ends the wait of the process that sent this request; an      *)
(* answer that is lost is a fault.                                         *)
Answered(m, phase) ==
    LET s == m.server
        waits == process[s] = "put" /\ last[s] = m.revision
    IN \/ /\ process' = IF waits THEN [process EXCEPT ![s] = phase] ELSE process
          /\ UNCHANGED faults
       \/ /\ waits /\ faults < MaxFaults
          /\ faults' = faults + 1
          /\ UNCHANGED process

AuthenticatePut(m) ==
    /\ cloud = "serving" /\ ~m.authenticated
    /\ IF connector(m.server)
         THEN /\ flight' = (flight \ {m}) \cup {[m EXCEPT !.authenticated = TRUE]}
              /\ UNCHANGED <<process, faults>>
         ELSE flight' = flight \ {m} /\ Answered(m, "stopped")
    /\ UNCHANGED <<cloudVars, version, fits, clock, binding, last>>

(* Accepted or rejected, the next publication follows. *)
ServePut(m) ==
    /\ cloud = "serving" /\ m.authenticated
    /\ put_catalog(m.server, m.binding, m.revision, m.version)
    /\ flight' = flight \ {m}
    /\ Answered(m, "idle")
    /\ UNCHANGED <<cloud, bootstrapVars, session, cookie, pending, directoryVars,
                   crashes, version, fits, clock, binding, last>>

Waits(s) == process[s] = "put"
Unanswered(s) == \E m \in flight : m.server = s /\ m.revision = last[s]

(* The timeout of the request, a connection that broke, or an answer that  *)
(* refuses the list unread.  While the request is on its way this is a     *)
(* fault.                                                                  *)
GiveUp(s) ==
    /\ Waits(s)
    /\ IF Unanswered(s) THEN faults < MaxFaults /\ faults' = faults + 1
                        ELSE UNCHANGED faults
    /\ process' = [process EXCEPT ![s] = "idle"]
    /\ UNCHANGED <<cloudVars, version, fits, clock, binding, last, flight>>

Lose(m) ==
    /\ faults < MaxFaults
    /\ faults' = faults + 1
    /\ flight' = flight \ {m}
    /\ UNCHANGED <<cloudVars, version, fits, clock, process, binding, last>>

(* What Cloud was working on dies with it. *)
CloudCrash ==
    /\ cloud # "down"
    /\ CloudStops
    /\ flight' = {m \in flight : ~m.authenticated}
    /\ UNCHANGED <<version, fits, clock, process, binding, last, faults>>

(* The connector is killed, or an operator stops it; what it sent is on    *)
(* its way all the same.                                                   *)
ConnectorCrash(s) ==
    /\ process[s] \in {"idle", "put", "stopped"}
    /\ crashes < MaxCrashes
    /\ crashes' = crashes + 1
    /\ process' = [process EXCEPT ![s] = "off"]
    /\ UNCHANGED <<cloud, bootstrapVars, session, cookie, pending, directoryVars,
                   projection, version, fits, clock, binding, last, flight, faults>>

Handle == CloudHandlers /\ UNCHANGED connectorVars

CatalogNext ==
    \/ Handle
    \/ CloudCrash
    \/ \E s \in Servers :
          \/ LocalChange(s) \/ StartConnector(s) \/ Publish(s) \/ PublishFails(s)
          \/ LocalRejects(s) \/ GiveUp(s) \/ ConnectorCrash(s)
    \/ \E m \in flight : AuthenticatePut(m) \/ ServePut(m) \/ Lose(m)

CatalogSpec == CatalogInit /\ [][CatalogNext]_catalogVars

(* Cloud is started, requests are served and connectors publish.  Nobody   *)
(* has to claim, register, bind or start anything.                         *)
CloudStarts == (Open \/ CreateTokenFile \/ FillTokenFile) /\ UNCHANGED connectorVars
Serves == \E m \in flight : AuthenticatePut(m) \/ ServePut(m)
-----------------------------------------------------------------------------
(* put_catalog and next_revision ("must monotonically advance the stored   *)
(* revision"), list_workspaces and directory_project: a snapshot never     *)
(* takes the place of a later one, although requests overtake each other   *)
(* and connectors restart; pages that follow each other do not go back     *)
(* either, and those that name one revision show the same projects.        *)
PublicationsInOrder ==
    [][\A w \in Namespaces :
          /\ catalog'[w].version >= catalog[w].version
          /\ shown'[w] # shown[w] =>
                /\ shown'[w].revision > shown[w].revision
                /\ shown'[w].version >= shown[w].version]_catalogVars

(* A connector of the right binding whose installation and local           *)
(* credential stand, and a Cloud that serves.                              *)
Publishing(s) ==
    /\ cloud = "serving"
    /\ process[s] \in {"idle", "put"}
    /\ installation[s] = "active"
    /\ bound[binding[s]] = s

UpToDate(s) == catalog[binding[s]].version = version[s]

(* run_periodic: when its list no longer changes, and is one that the      *)
(* contract allows, a connector that goes on brings the directory up to    *)
(* date, after whatever faults, refused lists and restarts.                *)
EventuallyPublished ==
    <>[](\A s \in Servers : Publishing(s) /\ fits[s] => UpToDate(s))

(* docs/architecture/SYSTEM_CONTEXT.md ("Cloud catalog data is a bounded,  *)
(* eventually consistent projection"): the same of every list that the     *)
(* local server allows.  It is not so.                                     *)
EventuallyConsistent == <>[](\A s \in Servers : Publishing(s) => UpToDate(s))
=============================================================================
