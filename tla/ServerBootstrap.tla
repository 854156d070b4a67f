---------------------------- MODULE ServerBootstrap ----------------------------
(***************************************************************************)
(* The bootstrap token of a new c6-server, up to the claim: ensure_server  *)
(* takes it from the environment, or loads or creates a token file, before *)
(* the one transaction that makes the database that of a server.  Nothing  *)
(* but that transaction excludes a second process on the same directory,   *)
(* and any of them may die in between.                                     *)
(***************************************************************************)
EXTENDS Naturals

CONSTANTS Starters,      \* server processes, one after another or at once
          MaxStarts      \* bounds the starts

ASSUME BootstrapAssumption == MaxStarts \in Nat

VARIABLES state,         \* of a process
          holds,         \* the token it holds, 0 if none
          generated,     \* how many tokens have been generated
          settings,      \* whether settings has its server_id
          verifier,      \* setting bootstrap_hash: the token, 0 if none
          tokenFile,     \* content of the token file, NoFile or Torn
          announced,     \* the path of the file has been logged
          obtained,      \* the token the operator has read, 0 if none
          owned,         \* the server is claimed
          starts

bootstrapState == <<state, holds, generated, settings, verifier, tokenFile,
                    announced, obtained, owned, starts>>

NoFile == 0
Torn == 1                    \* a file without a valid token
Supplied == 2                \* C6_BOOTSTRAP_TOKEN
IsGenerated(t) == t > Supplied

BootstrapTypeOK ==
    /\ state \in [Starters -> {"down", "create", "fill", "commit", "serving"}]
    /\ holds \in [Starters -> Nat \ {Torn}]
    /\ generated \in Nat /\ starts \in 0..MaxStarts
    /\ settings \in BOOLEAN /\ announced \in BOOLEAN /\ owned \in BOOLEAN
    /\ verifier \in Nat \ {Torn}
    /\ tokenFile \in Nat \ {Supplied}
    /\ obtained \in Nat \ {Torn, Supplied}
    /\ (verifier # 0) <=> (settings /\ ~owned)
    /\ \A p \in Starters : state[p] = "serving" => settings

BootstrapInit ==
    /\ state = [p \in Starters |-> "down"]
    /\ holds = [p \in Starters |-> 0]
    /\ generated = 0 /\ starts = 0
    /\ settings = FALSE /\ announced = FALSE /\ owned = FALSE
    /\ verifier = 0 /\ tokenFile = NoFile /\ obtained = 0
-----------------------------------------------------------------------------
Becomes(p, s, token) ==
    /\ state' = [state EXCEPT ![p] = s]
    /\ holds' = [holds EXCEPT ![p] = token]

(* No file, a file without a valid token, which is an error, or a token.   *)
load_or_create_bootstrap_token(p) ==
    IF tokenFile = NoFile THEN Becomes(p, "create", 0)
    ELSE IF tokenFile = Torn THEN Becomes(p, "down", 0)
    ELSE Becomes(p, "commit", tokenFile)

(* ensure_server, up to what it finds. *)
ensure_server(p, supplied) ==
    /\ state[p] = "down"
    /\ starts < MaxStarts
    /\ starts' = starts + 1
    /\ IF settings THEN Becomes(p, "serving", 0)
       ELSE IF supplied THEN Becomes(p, "commit", Supplied)
       ELSE load_or_create_bootstrap_token(p)
    /\ UNCHANGED <<generated, settings, verifier, tokenFile, announced, obtained, owned>>

NewToken == Supplied + generated + 1

(* Mutant: the file is opened whether it exists or not. *)
open_any_token_file(p) ==
    /\ state[p] = "create"
    /\ generated' = generated + 1
    /\ tokenFile' = Torn
    /\ Becomes(p, "fill", NewToken)
    /\ UNCHANGED <<settings, verifier, announced, obtained, owned, starts>>

(* random_token and create_new. *)
create_token_file(p) ==
    /\ state[p] = "create"
    /\ generated' = generated + 1
    /\ IF tokenFile = NoFile
         THEN tokenFile' = Torn /\ Becomes(p, "fill", NewToken)
         ELSE UNCHANGED tokenFile /\ Becomes(p, "down", 0)
    /\ UNCHANGED <<settings, verifier, announced, obtained, owned, starts>>

(* The token is written, to a file that a claim may have removed. *)
write_bootstrap_token(p) ==
    /\ state[p] = "fill"
    /\ \/ tokenFile = Torn /\ tokenFile' = holds[p]
       \/ owned /\ UNCHANGED tokenFile
    /\ Becomes(p, "commit", holds[p])
    /\ UNCHANGED <<generated, settings, verifier, announced, obtained, owned, starts>>

(* The transaction: a server_id is there at most once. *)
commit_settings(p) ==
    /\ state[p] = "commit"
    /\ IF settings
         THEN Becomes(p, "down", 0) /\ UNCHANGED <<settings, verifier, announced>>
         ELSE /\ settings' = TRUE
              /\ verifier' = holds[p]
              /\ announced' = (holds[p] # Supplied)
              /\ Becomes(p, "serving", 0)
    /\ UNCHANGED <<generated, tokenFile, obtained, owned, starts>>

(* The operator follows the log, and may put the file away. *)
operator_reads ==
    /\ announced /\ obtained = 0
    /\ IsGenerated(tokenFile)
    /\ obtained' = tokenFile
    /\ tokenFile' \in {tokenFile, NoFile}
    /\ UNCHANGED <<state, holds, generated, settings, verifier, announced, owned, starts>>

(* A start that finds a torn file fails until it is removed by hand. *)
operator_removes ==
    /\ ~settings
    /\ tokenFile = Torn
    /\ \A p \in Starters : state[p] = "down"
    /\ tokenFile' = NoFile
    /\ UNCHANGED <<state, holds, generated, settings, verifier, announced, obtained,
                   owned, starts>>

(* claim: after the transaction the file is removed, if it can be. *)
claim_server(p, token) ==
    /\ state[p] = "serving"
    /\ ~owned
    /\ token = verifier
    /\ owned' = TRUE
    /\ verifier' = 0
    /\ tokenFile' \in {tokenFile, NoFile}
    /\ UNCHANGED <<state, holds, generated, settings, announced, obtained, starts>>

process_dies(p) ==
    /\ state[p] # "down"
    /\ Becomes(p, "down", 0)
    /\ UNCHANGED <<generated, settings, verifier, tokenFile, announced, obtained,
                   owned, starts>>

BootstrapNext ==
    \/ \E p \in Starters :
          \/ \E supplied \in BOOLEAN : ensure_server(p, supplied)
          \/ create_token_file(p)
          \/ write_bootstrap_token(p)
          \/ commit_settings(p)
          \/ \E token \in {obtained, Supplied} \ {0} : claim_server(p, token)
          \/ process_dies(p)
    \/ operator_reads
    \/ operator_removes

BootstrapSpec == BootstrapInit /\ [][BootstrapNext]_bootstrapState
-----------------------------------------------------------------------------
(* ensure_server ("claim this new C6 server using the one-time token       *)
(* file"): the token the operator finds in the file that was announced     *)
(* opens the server until it is claimed, although other processes may      *)
(* start on the same directory, and die, before and after.                 *)
TokenOpens == obtained # 0 => owned \/ verifier = obtained
=============================================================================
