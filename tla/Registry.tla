------------------------------ MODULE Registry ------------------------------
(***************************************************************************)
(* FactoryRegistry and decode_deploy: the launchpads of factories.toml are *)
(* inserted one after the other into two tables, and three readers turn    *)
(* logs into deploys with them: the subscriber and backfill, who only get  *)
(* the logs of their filter, and decode-tx, who looks at every log of a    *)
(* transaction.                                                            *)
(*                                                                         *)
(* A word of a topic or of the data is a model value, and the address in   *)
(* an indexed topic is its word.                                           *)
(***************************************************************************)
EXTENDS Integers, Sequences

CONSTANTS
  Addresses, Topics,  \* addresses of factories, and their event topics
  Words,              \* words of topics 1 and 2 and of the data
  None,               \* Option::None
  Malformed           \* a factory whose address or topic does not parse

Launchpads == {"clanker", "flaunch", "bankr", "zora"}

\* The order in which from_toml_str goes through the file.
Order == <<"clanker", "flaunch", "bankr", "zora">>

FactorySpecs == [address : Addresses, topic : Topics]

ASSUME RegistryAssumption == None \notin FactorySpecs \cup Words \cup Launchpads
                             /\ Malformed \notin FactorySpecs \cup {None}

Readers == {"subscriber", "backfill", "decode_tx"}

\* A log has zero to three topics, a word of data or none, and a position
\* (block_number, transaction_hash, log_index) unless it is pending.
Logs ==
  [address : Addresses,
   topics  : {<<>>} \cup {<<t>> : t \in Topics}
             \cup (Topics \X Words) \cup (Topics \X Words \X Words),
   data    : {<<>>} \cup {<<w>> : w \in Words},
   mined   : BOOLEAN]

VARIABLES
  factories,    \* the file: each launchpad's entry, if it has one
  inserted,     \* launchpads of Order gone through
  load,         \* "Loading", "Ready" or "Failed"
  byLaunchpad,  \* FactoryRegistry.by_launchpad
  routing,      \* FactoryRegistry.routing
  handled       \* the log a reader has just handled, and the deploy it made

tables       == <<byLaunchpad, routing>>
registryVars == <<factories, inserted, load, tables, handled>>

EmptyMap == [x \in {} |-> None]

\* HashMap::insert
Put(map, key, value) ==
  [x \in DOMAIN map \cup {key} |-> IF x = key THEN value ELSE map[x]]

NothingHandled == [deploy |-> None]

\* A file before it is read.
StartsLoading ==
  /\ inserted = 0 /\ load = "Loading"
  /\ byLaunchpad = EmptyMap /\ routing = EmptyMap
  /\ handled = NothingHandled

RegistryInit ==
  /\ factories \in [Launchpads -> FactorySpecs \cup {None, Malformed}]
  /\ StartsLoading

-----------------------------------------------------------------------------
(* Plausible slips; no specification uses them.                             *)

\* routing.entry(..).or_insert(lp).
RouteTo_FirstWins(pair, lp) ==
  IF pair \in DOMAIN routing THEN routing ELSE Put(routing, pair, lp)

\* The route is looked up by address alone.
MatchLog_ByAddress(address, topic0) ==
  IF \E pair \in DOMAIN routing : pair[1] = address
    THEN routing[CHOOSE pair \in DOMAIN routing : pair[1] = address] ELSE None

-----------------------------------------------------------------------------
(* from_toml_str and insert.                                                *)

Pair(spec) == <<spec.address, spec.topic>>

\* routing.insert((address, event_topic), lp)
RouteTo(pair, lp) == Put(routing, pair, lp)

InsertFactory ==
  /\ load = "Loading" /\ inserted < Len(Order)
  /\ LET lp   == Order[inserted + 1]
         spec == factories[lp]
     IN  /\ spec \in FactorySpecs
         /\ routing' = RouteTo(Pair(spec), lp)
         /\ byLaunchpad' = Put(byLaunchpad, lp, spec)
  /\ inserted' = inserted + 1
  /\ UNCHANGED <<factories, load, handled>>

SkipFactory ==
  /\ load = "Loading" /\ inserted < Len(Order)
  /\ factories[Order[inserted + 1]] = None
  /\ inserted' = inserted + 1
  /\ UNCHANGED <<factories, load, tables, handled>>

\* reg.insert(lp, &raw)? fails: there is no registry.
RejectFactory ==
  /\ load = "Loading" /\ inserted < Len(Order)
  /\ factories[Order[inserted + 1]] = Malformed
  /\ load' = "Failed"
  /\ UNCHANGED <<factories, inserted, tables, handled>>

\* A registry without a launchpad is an error.
FinishLoading ==
  /\ load = "Loading" /\ inserted = Len(Order)
  /\ load' = IF DOMAIN byLaunchpad = {} THEN "Failed" ELSE "Ready"
  /\ UNCHANGED <<factories, inserted, tables, handled>>

-----------------------------------------------------------------------------
(* What the readers do with a log.                                          *)

AllAddresses == {byLaunchpad[lp].address : lp \in DOMAIN byLaunchpad}
AllTopics    == {byLaunchpad[lp].topic : lp \in DOMAIN byLaunchpad}

\* The node's filter: any of the addresses with any of the topics (external).
Admitted(log) ==
  /\ log.address \in AllAddresses
  /\ log.topics # <<>> /\ log.topics[1] \in AllTopics

MatchLog(address, topic0) ==
  IF <<address, topic0>> \in DOMAIN routing
    THEN routing[<<address, topic0>>] ELSE None

\* decode_deploy errs on a log without a position, and every layout on one
\* without topic 1, the token, or topic 2, the deployer.
Decodes(log) == log.mined /\ Len(log.topics) >= 3

\* The layouts: only Clanker (supply) and Flaunch (salt) read the data, and
\* go without what is not there.
DecodeDeploy(lp, log) ==
  [launchpad |-> lp, token |-> log.topics[2], deployer |-> log.topics[3],
   extra |-> IF lp \in {"clanker", "flaunch"} /\ log.data # <<>>
               THEN log.data[1] ELSE None]

\* A log without topic0, of no tracked factory, or that does not decode, is
\* passed over.
DeployIn(log) ==
  LET lp == IF log.topics = <<>> THEN None ELSE MatchLog(log.address, log.topics[1])
  IN  IF lp # None /\ Decodes(log) THEN DecodeDeploy(lp, log) ELSE None

HandleLog(reader) ==
  /\ load = "Ready" /\ handled = NothingHandled
  /\ \E log \in Logs :
       /\ reader # "decode_tx" => Admitted(log)
       /\ handled' = [reader |-> reader, log |-> log, deploy |-> DeployIn(log)]
  /\ UNCHANGED <<factories, inserted, load, tables>>

\* The loop of the reader goes on.
NextLog ==
  /\ handled # NothingHandled
  /\ handled' = NothingHandled
  /\ UNCHANGED <<factories, inserted, load, tables>>

\* Without a registry, the command ends.
RegistryEnded ==
  /\ load = "Failed"
  /\ UNCHANGED registryVars

RegistryNext ==
  \/ InsertFactory \/ SkipFactory \/ RejectFactory \/ FinishLoading
  \/ \E reader \in Readers : HandleLog(reader)
  \/ NextLog \/ RegistryEnded

RegistrySpec == RegistryInit /\ [][RegistryNext]_registryVars

-----------------------------------------------------------------------------
(* Properties.                                                              *)

Deploys == [launchpad : Launchpads, token : Words, deployer : Words,
            extra : Words \cup {None}]

\* Every variable has its type, and a table is of factories only.
RegistryTypeOK ==
  /\ factories \in [Launchpads -> FactorySpecs \cup {None, Malformed}]
  /\ inserted \in 0..Len(Order)
  /\ load \in {"Loading", "Ready", "Failed"}
  /\ DOMAIN byLaunchpad \subseteq Launchpads
  /\ \A lp \in DOMAIN byLaunchpad : byLaunchpad[lp] \in FactorySpecs
  /\ DOMAIN routing \subseteq Addresses \X Topics
  /\ \A pair \in DOMAIN routing : routing[pair] \in Launchpads
  /\ \/ handled = NothingHandled
     \/ handled \in [reader : Readers, log : Logs, deploy : Deploys \cup {None}]

\* The i-th launchpad is configured with this address and topic, and no later
\* one is.
LastWith(i, pair) ==
  /\ factories[Order[i]] \in FactorySpecs /\ Pair(factories[Order[i]]) = pair
  /\ \A j \in (i + 1)..inserted :
       factories[Order[j]] \in FactorySpecs => Pair(factories[Order[j]]) # pair

\* A log goes to the launchpad that is configured with its address and topic,
\* and to the last of them when several are: factories that differ in address
\* or topic never take each other's logs.
LastFactoryRoutes ==
  \A address \in Addresses, topic \in Topics :
    /\ \A i \in 1..inserted :
         LastWith(i, <<address, topic>>) => MatchLog(address, topic) = Order[i]
    /\ MatchLog(address, topic) # None =>
         \E i \in 1..inserted : LastWith(i, <<address, topic>>)

\* The two tables agree: what decode-tx calls a deploy, in a transaction taken
\* without a filter, is a log serve and backfill ask the node for, and comes
\* from the factory that inspect-config shows for its launchpad.
DecodedIsWatched ==
  handled.deploy # None =>
    /\ Admitted(handled.log)
    /\ Pair(byLaunchpad[handled.deploy.launchpad])
         = <<handled.log.address, handled.log.topics[1]>>

=============================================================================
