----------------------------- MODULE MCClients -----------------------------
(***************************************************************************)
(* Small instances of the directory with its connectors, of the command    *)
(* line's files and of remote add.  They share no state and no step, so a  *)
(* behaviour exercises one of them, its subject, and the others stay as    *)
(* they start.  The directory is exercised from its first start, with one  *)
(* server and one workspace, and from the moment two servers are bound,    *)
(* with revocations or with pages that are looked at.                      *)
(***************************************************************************)
EXTENDS CatalogPublication, CliState, CliRemote, TLC

CONSTANTS FirstServer, FirstNamespace

VARIABLE subject

allVars == <<subject, catalogVars, cliVars, remoteVars>>

(* Two workspaces, each bound to an installation whose token was received, *)
(* in a Cloud that was claimed long ago and whose tab is closed.           *)
BoundInit ==
    /\ cloud = "serving"
    /\ hash = 0 /\ issued = 1 /\ file = Absent
    /\ claimed = TRUE /\ removing = FALSE /\ handed = {1}
    /\ session = "live" /\ cookie = TRUE
    /\ pending = [h \in Tabs |-> "none"]
    /\ workspaces = Namespaces
    /\ installation = [s \in Servers |-> "active"]
    /\ delivered = Servers
    /\ bound \in [Namespaces -> Servers]
    /\ bound[FirstNamespace] = FirstServer
    /\ \A s \in Servers : \E w \in Namespaces : bound[w] = s
    /\ catalog = [w \in Namespaces |-> Unpublished]
    /\ shown = catalog
    /\ crashes = 0
    /\ ConnectorInit

(* Pages are looked at in a behaviour of their own. *)
Reads == {"list_workspaces", "directory_project"}

AllFit == \A s \in Servers : fits[s]
FitsElsewhere == \A s \in Servers \ {FirstServer} : fits[s]

OneOfEach ==
    /\ \A h \in Tabs : pending'[h] \notin Reads
    /\ \A s \in Servers \ {FirstServer} : installation'[s] = "none"
    /\ workspaces' \subseteq {FirstNamespace}
    /\ FitsElsewhere'

(* Of the requests of the account only revocation is left; connectors      *)
(* publish twice, and nothing crashes.                                     *)
OnlyRevocations ==
    /\ \A h \in Tabs : pending'[h] \in {"none", "revoke_installation"}
    /\ \A s \in Servers : version'[s] = 1 /\ clock'[s] <= 2 /\ last'[s] <= 2
    /\ session' = "live"
    /\ crashes' = 0
    /\ AllFit'

(* Pages, while one connector publishes and may be revoked. *)
OnlyPages ==
    /\ \A h \in Tabs : pending'[h] \in Reads \cup {"none", "revoke_installation"}
    /\ \A s \in Servers \ {FirstServer} :
          process'[s] = "off" /\ version'[s] = 1 /\ installation'[s] = "active"
    /\ clock'[FirstServer] <= 4
    /\ session' = "live"
    /\ crashes' = 0
    /\ AllFit'

SubjectInit ==
    /\ \/ /\ subject = "directory" /\ CatalogInit
          /\ FitsElsewhere
          /\ binding = [s \in Servers |-> FirstNamespace]
       \/ subject \in {"catalogs", "pages"} /\ BoundInit /\ AllFit
       \/ subject \in {"commands", "remote"} /\ CatalogInit /\ AllFit
          /\ binding = [s \in Servers |-> FirstNamespace]
    /\ CliInit
    /\ RemoteInit
    /\ subject # "remote" => inherited /\ helpers = <<>>

SubjectNext ==
    /\ UNCHANGED subject
    /\ \/ /\ subject = "directory" /\ CatalogNext /\ OneOfEach
          /\ UNCHANGED <<cliVars, remoteVars>>
       \/ /\ subject = "catalogs" /\ CatalogNext /\ OnlyRevocations
          /\ UNCHANGED <<cliVars, remoteVars>>
       \/ /\ subject = "pages" /\ CatalogNext /\ OnlyPages
          /\ UNCHANGED <<cliVars, remoteVars>>
       \/ subject = "commands" /\ CliNext /\ UNCHANGED <<catalogVars, remoteVars>>
       \/ subject = "remote" /\ RemoteNext /\ UNCHANGED <<catalogVars, cliVars>>

InCloud == subject \in {"directory", "catalogs", "pages"}

Fairness ==
    /\ WF_catalogVars(InCloud /\ CloudStarts)
    /\ WF_catalogVars(InCloud /\ Serves)
    /\ \A s \in Servers :
          /\ WF_catalogVars(InCloud /\ Publish(s))
          /\ WF_catalogVars(InCloud /\ GiveUp(s))

ClientsSpec == SubjectInit /\ [][SubjectNext]_allVars /\ Fairness
=============================================================================
