-------------------------------- MODULE Fleet --------------------------------
(***************************************************************************)
(* A node that enrols with the gateway and then reports to it: the         *)
(* `register` command (edgekit/cli/register.py) with the files it leaves   *)
(* behind, beside the gateway of NodeHealth.  The command makes new keys   *)
(* each time it runs, with --force also on a node that has enrolled        *)
(* before; it may be interrupted anywhere, and may give up on an answer    *)
(* that comes later.                                                       *)
(***************************************************************************)
EXTENDS NodeHealth

CONSTANTS NoKey, Torn
ASSUME FileAssumption == NoKey \notin Keys /\ Torn \notin Keys /\ NoKey # Torn

VARIABLES
  unused,        \* keys the command has yet to make (a bound on its runs)
  privateFile,   \* node_key
  publicFile,    \* node_key.pub
  config,        \* config.json, by the row it names
  cli            \* how far the command is: off, keys, posted, answered

node == <<unused, privateFile, publicFile, config, cli>>
vars == <<gatewayVars, node>>

TypeOK ==
  /\ GatewayTypeOK
  /\ unused \subseteq Keys
  /\ privateFile \in Keys \cup {NoKey} /\ publicFile \in Keys \cup {NoKey}
  /\ config \in Keys \cup {NoKey, Torn}
  /\ cli \in {"off", "keys", "posted", "answered"}
  /\ cli # "off" => privateFile # NoKey

-----------------------------------------------------------------------------
(* The command makes a key pair and saves the private key.  A node with a
   configuration and a key is registered again only by --force; reading a
   configuration that is no JSON fails even then. *)
RunRegister(k) ==
  /\ cli = "off" /\ k \in unused
  /\ config # Torn
  /\ unused' = unused \ {k}
  /\ privateFile' = k
  /\ cli' = "keys"
  /\ UNCHANGED <<gatewayVars, publicFile, config>>

(* register_with_gateway posts the public key. *)
Post ==
  /\ cli = "keys"
  /\ publicFile' = privateFile
  /\ requests' = requests \cup {privateFile}
  /\ cli' = "posted"
  /\ UNCHANGED <<rows, memory, task, answers, unused, privateFile, config>>

Answered ==
  /\ cli = "posted" /\ privateFile \in answers
  /\ answers' = answers \ {privateFile}
  /\ cli' = "answered"
  /\ UNCHANGED <<rows, memory, task, requests, unused, privateFile, publicFile, config>>

SaveConfig ==
  /\ cli = "answered"
  /\ config' = privateFile
  /\ cli' = "off"
  /\ UNCHANGED <<gatewayVars, unused, privateFile, publicFile>>

(* No connection, an error, a timeout, the end of the process. *)
GiveUp ==
  /\ cli # "off"
  /\ cli' = "off"
  /\ UNCHANGED <<gatewayVars, unused, privateFile, publicFile, config>>

(* The process ends inside write_text, which has emptied the file. *)
TearConfig ==
  /\ cli = "answered"
  /\ config' = Torn
  /\ cli' = "off"
  /\ UNCHANGED <<gatewayVars, unused, privateFile, publicFile>>

(* A node with a token sends a heartbeat. *)
Heartbeat(s) ==
  /\ config \in Keys
  /\ BeginBeat(s, config)
  /\ UNCHANGED node

Init ==
  /\ GatewayInit
  /\ unused = Keys
  /\ privateFile = NoKey /\ publicFile = NoKey /\ config = NoKey
  /\ cli = "off"

Next ==
  \/ GatewayNext /\ UNCHANGED node
  \/ \E k \in Keys : RunRegister(k)
  \/ Post \/ Answered \/ SaveConfig \/ GiveUp \/ TearConfig
  \/ \E s \in Sessions : Heartbeat(s)

Spec == Init /\ [][Next]_vars
-----------------------------------------------------------------------------
(* Properties. *)

(* A node that believes to be registered is: its configuration names a
   committed row, whatever was interrupted, lost or late before; and the
   private key beside it, unless a newer run has replaced it, has its public
   key next to it. *)
ConfigNamesRow == config \in Keys =>
  status[config] # "absent" /\ (privateFile = config => publicFile = config)

(* A node whose heartbeats keep being taken does not stay UNHEALTHY, whether
   the breaker, the sweep or a late commit of theirs made it so. *)
BeatingNodesRecover == \A k \in Keys :
  ([]<><<\E s \in Sessions : CommitBeat(s, k)>>_vars)
    => (status[k] = "UNHEALTHY" ~> status[k] = "HEALTHY")
=============================================================================
