--------------------------- MODULE RegistryProofs ---------------------------
(***************************************************************************)
(* Proofs about Registry: its types, the launchpad a log is routed to, and *)
(* the agreement of the two tables, for every set of addresses and topics. *)
(***************************************************************************)
EXTENDS Registry, TLAPS

\* The order names every launchpad once.
LEMMA OrderFacts ==
  /\ Len(Order) = 4
  /\ \A i \in 1..4 : Order[i] \in Launchpads
  /\ \A i, j \in 1..4 : Order[i] = Order[j] => i = j
BY DEF Order, Launchpads

\* A log with two words after its topic yields words.
LEMMA DeployType ==
  ASSUME NEW log \in Logs, NEW lp \in Launchpads, Decodes(log)
  PROVE  DecodeDeploy(lp, log) \in Deploys
<1>1. log.topics \in Topics \X Words \X Words
  BY DEF Logs, Decodes
<1>2. log.topics[2] \in Words /\ log.topics[3] \in Words
  BY <1>1
<1>3. log.data # <<>> => log.data[1] \in Words
  BY DEF Logs
<1> QED  BY <1>2, <1>3 DEF DecodeDeploy, Deploys

-----------------------------------------------------------------------------
(* The inductive invariant.                                                 *)

\* What the loop has put into the two tables.
TablesInv ==
  /\ DOMAIN byLaunchpad =
       {lp \in Launchpads : \E i \in 1..inserted : Order[i] = lp /\ factories[lp] \in FactorySpecs}
  /\ \A lp \in DOMAIN byLaunchpad : byLaunchpad[lp] = factories[lp]
  /\ \A pair \in DOMAIN routing :
       \E i \in 1..inserted : LastWith(i, pair) /\ routing[pair] = Order[i]
  /\ \A pair \in Addresses \X Topics : \A i \in 1..inserted :
       LastWith(i, pair) => pair \in DOMAIN routing /\ routing[pair] = Order[i]

\* Only a complete registry is read.
HandledInv ==
  /\ handled # NothingHandled => load = "Ready"
  /\ DecodedIsWatched

IInv == RegistryTypeOK /\ TablesInv /\ HandledInv

-----------------------------------------------------------------------------

\* The types hold before the file is read.
LEMMA InitTypeOK == RegistryInit => RegistryTypeOK
BY OrderFacts DEF RegistryInit, StartsLoading, RegistryTypeOK, EmptyMap

\* Empty tables route nothing.
LEMMA InitTables == RegistryInit => TablesInv
BY OrderFacts DEF RegistryInit, StartsLoading, TablesInv, EmptyMap

\* No log is handled before the tables are loaded.
LEMMA InitHandled == RegistryInit => HandledInv
BY DEF RegistryInit, StartsLoading, HandledInv, DecodedIsWatched, NothingHandled

\* An entry of the file is none, malformed or a factory.
LEMMA EntryCases ==
  ASSUME RegistryTypeOK, inserted < Len(Order)
  PROVE  /\ inserted + 1 \in 1..4
         /\ Order[inserted + 1] \in Launchpads
         /\ factories[Order[inserted + 1]] \in FactorySpecs \cup {None, Malformed}
BY OrderFacts DEF RegistryTypeOK

\* Every step keeps the types.
LEMMA TypeStep == RegistryTypeOK /\ [RegistryNext]_registryVars => RegistryTypeOK'
<1> SUFFICES ASSUME RegistryTypeOK, [RegistryNext]_registryVars
             PROVE  RegistryTypeOK'
  OBVIOUS
<1>1. CASE InsertFactory
  <2> DEFINE lp   == Order[inserted + 1]
             spec == factories[lp]
  <2>1. /\ lp \in Launchpads /\ spec \in FactorySpecs
        /\ inserted' = inserted + 1 /\ inserted + 1 \in 0..Len(Order)
        /\ routing' = Put(routing, Pair(spec), lp)
        /\ byLaunchpad' = Put(byLaunchpad, lp, spec)
        /\ UNCHANGED <<factories, load, handled>>
    BY <1>1, EntryCases, OrderFacts DEF InsertFactory, RouteTo
  <2>2. Pair(spec) \in Addresses \X Topics
    BY <2>1 DEF Pair, FactorySpecs
  <2> HIDE DEF lp, spec
  <2>3. /\ DOMAIN byLaunchpad' \subseteq Launchpads
        /\ \A x \in DOMAIN byLaunchpad' : byLaunchpad'[x] \in FactorySpecs
    <3>1. /\ DOMAIN byLaunchpad' = DOMAIN byLaunchpad \cup {lp}
          /\ byLaunchpad'[lp] = spec
          /\ \A x \in DOMAIN byLaunchpad \ {lp} : byLaunchpad'[x] = byLaunchpad[x]
      BY <2>1 DEF Put
    <3> QED  BY <2>1, <3>1 DEF RegistryTypeOK
  <2>4. /\ DOMAIN routing' \subseteq Addresses \X Topics
        /\ \A pair \in DOMAIN routing' : routing'[pair] \in Launchpads
    <3>1. /\ DOMAIN routing' = DOMAIN routing \cup {Pair(spec)}
          /\ routing'[Pair(spec)] = lp
          /\ \A x \in DOMAIN routing \ {Pair(spec)} : routing'[x] = routing[x]
      BY <2>1 DEF Put
    <3> QED  BY <2>1, <2>2, <3>1 DEF RegistryTypeOK
  <2> QED  BY <2>1, <2>3, <2>4 DEF RegistryTypeOK
<1>2. CASE SkipFactory
  BY <1>2, OrderFacts DEF SkipFactory, tables, RegistryTypeOK
<1>3. CASE RejectFactory
  BY <1>3 DEF RejectFactory, tables, RegistryTypeOK
<1>4. CASE FinishLoading
  BY <1>4 DEF FinishLoading, tables, RegistryTypeOK
<1>5. ASSUME NEW reader \in Readers, HandleLog(reader)
      PROVE  RegistryTypeOK'
  <2>1. PICK log \in Logs : handled' = [reader |-> reader, log |-> log, deploy |-> DeployIn(log)]
    BY <1>5 DEF HandleLog
  <2>2. DeployIn(log) \in Deploys \cup {None}
    <3> DEFINE lp == IF log.topics = <<>> THEN None ELSE MatchLog(log.address, log.topics[1])
    <3>1. lp # None => lp \in Launchpads
      BY DEF MatchLog, RegistryTypeOK
    <3>2. DeployIn(log) = IF lp # None /\ Decodes(log) THEN DecodeDeploy(lp, log) ELSE None
      BY DEF DeployIn
    <3> QED  BY <3>1, <3>2, DeployType
  <2>3. handled' \in [reader : Readers, log : Logs, deploy : Deploys \cup {None}]
    BY <1>5, <2>1, <2>2
  <2> QED  BY <1>5, <2>3 DEF HandleLog, tables, RegistryTypeOK
<1>6. CASE NextLog
  BY <1>6 DEF NextLog, tables, RegistryTypeOK
<1>7. CASE UNCHANGED registryVars
  BY <1>7 DEF registryVars, tables, RegistryTypeOK
<1> QED
  BY <1>1, <1>2, <1>3, <1>4, <1>5, <1>6, <1>7 DEF RegistryNext, RegistryEnded

-----------------------------------------------------------------------------

\* The launchpad gone through takes a pair over from those before it, and
\* takes no other.
LEMMA LastWithStep ==
  ASSUME RegistryTypeOK, NEW n \in Nat, n = inserted + 1,
         factories' = factories, inserted' = n, NEW pair
  PROVE  LET new == factories[Order[n]] \in FactorySpecs /\ Pair(factories[Order[n]]) = pair
         IN  /\ \A i \in 1..inserted : LastWith(i, pair)' <=> LastWith(i, pair) /\ ~new
             /\ LastWith(n, pair)' <=> new
<1> DEFINE new == factories[Order[n]] \in FactorySpecs /\ Pair(factories[Order[n]]) = pair
<1>1. inserted \in Nat
  BY OrderFacts DEF RegistryTypeOK
<1>2. ASSUME NEW i \in 1..inserted
      PROVE  LastWith(i, pair)' <=> LastWith(i, pair) /\ ~new
  <2>1. (i + 1)..inserted' = (i + 1)..inserted \cup {n}
    BY <1>1
  <2>2. LastWith(i, pair)' <=>
          /\ factories[Order[i]] \in FactorySpecs /\ Pair(factories[Order[i]]) = pair
          /\ \A j \in (i + 1)..inserted' :
               factories[Order[j]] \in FactorySpecs => Pair(factories[Order[j]]) # pair
    BY DEF LastWith, Pair, FactorySpecs
  <2> QED  BY <2>1, <2>2 DEF LastWith
<1>3. LastWith(n, pair)' <=> new
  <2>1. (n + 1)..inserted' = {}
    BY <1>1
  <2> QED  BY <2>1 DEF LastWith, Pair, FactorySpecs
<1> QED  BY <1>2, <1>3

\* Loading the next launchpad keeps the two tables in agreement.
LEMMA TablesStep ==
  RegistryTypeOK /\ TablesInv /\ [RegistryNext]_registryVars => TablesInv'
<1> SUFFICES ASSUME RegistryTypeOK, TablesInv, [RegistryNext]_registryVars
             PROVE  TablesInv'
  OBVIOUS
<1>0. inserted \in 0..4
  BY OrderFacts DEF RegistryTypeOK
<1> PICK n \in Nat : n = inserted + 1
  BY <1>0
<1> DEFINE lp   == Order[n]
           spec == factories[lp]
<1>1. CASE InsertFactory
  <2>1. /\ lp \in Launchpads /\ spec \in FactorySpecs
        /\ inserted' = n /\ n \in 1..4 /\ inserted < Len(Order)
        /\ routing' = Put(routing, Pair(spec), lp)
        /\ byLaunchpad' = Put(byLaunchpad, lp, spec)
        /\ UNCHANGED <<factories, load, handled>>
    BY <1>1, EntryCases, OrderFacts DEF InsertFactory, RouteTo
  <2>2. Pair(spec) \in Addresses \X Topics
    BY <2>1 DEF Pair, FactorySpecs
  <2>3. 1..inserted' = 1..inserted \cup {n}
    BY <2>1, <1>0
  <2>4. \A pair : /\ \A i \in 1..inserted :
                       LastWith(i, pair)' <=> LastWith(i, pair) /\ Pair(spec) # pair
                  /\ LastWith(n, pair)' <=> Pair(spec) = pair
    BY <2>1, LastWithStep
  <2> HIDE DEF lp, spec
  <2>5. /\ DOMAIN byLaunchpad' = DOMAIN byLaunchpad \cup {lp}
        /\ byLaunchpad'[lp] = spec
        /\ \A x \in DOMAIN byLaunchpad \ {lp} : byLaunchpad'[x] = byLaunchpad[x]
    BY <2>1 DEF Put
  <2>6. /\ DOMAIN routing' = DOMAIN routing \cup {Pair(spec)}
        /\ routing'[Pair(spec)] = lp
        /\ \A x \in DOMAIN routing \ {Pair(spec)} : routing'[x] = routing[x]
    BY <2>1 DEF Put
  <2>7. lp = Order[n] /\ spec = factories[lp]
    BY DEF lp, spec
  <2>8. DOMAIN byLaunchpad' =
          {x \in Launchpads : \E i \in 1..inserted' : Order[i] = x /\ factories'[x] \in FactorySpecs}
    BY <2>1, <2>3, <2>5, <2>7 DEF TablesInv
  <2>9. \A x \in DOMAIN byLaunchpad' : byLaunchpad'[x] = factories'[x]
    BY <2>1, <2>5, <2>7 DEF TablesInv
  <2>10. ASSUME NEW pair \in DOMAIN routing'
         PROVE  \E i \in 1..inserted' : LastWith(i, pair)' /\ routing'[pair] = Order[i]
    <3>1. CASE pair = Pair(spec)
      BY <3>1, <2>3, <2>4, <2>6, <2>7
    <3>2. CASE pair # Pair(spec)
      <4>1. PICK i \in 1..inserted : LastWith(i, pair) /\ routing[pair] = Order[i]
        BY <3>2, <2>6 DEF TablesInv
      <4> QED  BY <4>1, <3>2, <2>3, <2>4, <2>6
    <3> QED  BY <3>1, <3>2
  <2>11. ASSUME NEW pair \in Addresses \X Topics, NEW i \in 1..inserted', LastWith(i, pair)'
         PROVE  pair \in DOMAIN routing' /\ routing'[pair] = Order[i]
    <3>1. CASE i = n
      BY <3>1, <2>4, <2>6, <2>7, <2>11
    <3>2. CASE i \in 1..inserted
      <4>1. LastWith(i, pair) /\ pair # Pair(spec)
        BY <3>2, <2>4, <2>11
      <4> QED  BY <4>1, <3>2, <2>6 DEF TablesInv
    <3> QED  BY <3>1, <3>2, <2>3
  <2> QED  BY <2>8, <2>9, <2>10, <2>11 DEF TablesInv
<1>2. CASE SkipFactory
  <2>1. /\ lp \in Launchpads /\ spec \notin FactorySpecs
        /\ inserted' = n /\ n \in 1..4 /\ inserted < Len(Order)
        /\ UNCHANGED <<factories, load, byLaunchpad, routing, handled>>
    BY <1>2, EntryCases, OrderFacts, RegistryAssumption DEF SkipFactory, tables
  <2>2. 1..inserted' = 1..inserted \cup {n}
    BY <2>1, <1>0
  <2>3. \A pair : /\ \A i \in 1..inserted : LastWith(i, pair)' <=> LastWith(i, pair)
                  /\ ~LastWith(n, pair)'
    BY <2>1, LastWithStep
  <2>4. lp = Order[n] /\ spec = factories[lp]
    OBVIOUS
  <2> HIDE DEF lp, spec
  <2>5. DOMAIN byLaunchpad' =
          {x \in Launchpads : \E i \in 1..inserted' : Order[i] = x /\ factories'[x] \in FactorySpecs}
    BY <2>1, <2>2, <2>4 DEF TablesInv
  <2>6. \A pair \in DOMAIN routing' :
          \E i \in 1..inserted' : LastWith(i, pair)' /\ routing'[pair] = Order[i]
    BY <2>1, <2>2, <2>3 DEF TablesInv
  <2>7. \A pair \in Addresses \X Topics : \A i \in 1..inserted' :
          LastWith(i, pair)' => pair \in DOMAIN routing' /\ routing'[pair] = Order[i]
    BY <2>1, <2>2, <2>3 DEF TablesInv
  <2> QED  BY <2>1, <2>5, <2>6, <2>7 DEF TablesInv
<1>3. CASE UNCHANGED <<factories, inserted, byLaunchpad, routing>>
  BY <1>3 DEF TablesInv, LastWith
<1> QED
  BY <1>1, <1>2, <1>3
  DEF RegistryNext, RejectFactory, FinishLoading, HandleLog, NextLog, RegistryEnded,
      registryVars, tables

-----------------------------------------------------------------------------

\* A log that yields a deploy is of the factory its launchpad is configured
\* with.
LEMMA DeployIsWatched ==
  ASSUME RegistryTypeOK, TablesInv, NEW log \in Logs, DeployIn(log) # None
  PROVE  /\ Admitted(log)
         /\ Pair(byLaunchpad[DeployIn(log).launchpad]) = <<log.address, log.topics[1]>>
<1> DEFINE pair == <<log.address, log.topics[1]>>
<1>1. /\ log.topics # <<>>
      /\ MatchLog(log.address, log.topics[1]) # None
      /\ DeployIn(log).launchpad = MatchLog(log.address, log.topics[1])
  BY DEF DeployIn, DecodeDeploy
<1>2. pair \in DOMAIN routing /\ DeployIn(log).launchpad = routing[pair]
  BY <1>1 DEF MatchLog
<1>3. PICK i \in 1..inserted : LastWith(i, pair) /\ routing[pair] = Order[i]
  BY <1>2 DEF TablesInv
<1>4. Order[i] \in Launchpads
  BY <1>3, OrderFacts DEF RegistryTypeOK
<1>5. /\ Order[i] \in DOMAIN byLaunchpad
      /\ byLaunchpad[Order[i]] = factories[Order[i]]
  BY <1>3, <1>4 DEF TablesInv, LastWith
<1>6. /\ byLaunchpad[Order[i]].address = log.address
      /\ byLaunchpad[Order[i]].topic = log.topics[1]
  BY <1>3, <1>5 DEF LastWith, Pair
<1>7. Admitted(log)
  BY <1>1, <1>5, <1>6 DEF Admitted, AllAddresses, AllTopics
<1> QED  BY <1>2, <1>3, <1>6, <1>7 DEF Pair

\* What a reader makes of a log agrees with both tables.
LEMMA HandledStep ==
  IInv /\ [RegistryNext]_registryVars => HandledInv'
<1> SUFFICES ASSUME RegistryTypeOK, TablesInv, HandledInv, [RegistryNext]_registryVars
             PROVE  HandledInv'
  BY DEF IInv
<1>1. ASSUME NEW reader \in Readers, HandleLog(reader)
      PROVE  HandledInv'
  <2>1. PICK log \in Logs : handled' = [reader |-> reader, log |-> log, deploy |-> DeployIn(log)]
    BY <1>1 DEF HandleLog
  <2>2. handled'.deploy # None =>
          /\ Admitted(handled'.log)
          /\ Pair(byLaunchpad[handled'.deploy.launchpad])
               = <<handled'.log.address, handled'.log.topics[1]>>
    BY <2>1, DeployIsWatched
  <2>3. load' = "Ready" /\ byLaunchpad' = byLaunchpad
    BY <1>1 DEF HandleLog, tables
  <2> QED
    BY <2>2, <2>3 DEF HandledInv, DecodedIsWatched, Admitted, AllAddresses, AllTopics, Pair
<1>2. CASE handled' = NothingHandled
  BY <1>2 DEF HandledInv, DecodedIsWatched, NothingHandled
<1>3. CASE handled' = handled /\ byLaunchpad' = byLaunchpad /\ load' = load
  BY <1>3 DEF HandledInv, DecodedIsWatched, Admitted, AllAddresses, AllTopics, Pair
<1>4. CASE InsertFactory \/ SkipFactory \/ RejectFactory \/ FinishLoading
  <2>1. load = "Loading" /\ handled' = handled
    BY <1>4 DEF InsertFactory, SkipFactory, RejectFactory, FinishLoading
  <2>2. handled' = NothingHandled
    BY <2>1 DEF HandledInv
  <2> QED  BY <1>2, <2>2
<1> QED
  BY <1>1, <1>2, <1>3, <1>4 DEF RegistryNext, NextLog, RegistryEnded, registryVars, tables

-----------------------------------------------------------------------------

\* The parts together are an invariant.
LEMMA Invariant == RegistrySpec => []IInv
<1>1. RegistryInit => IInv
  BY InitTypeOK, InitTables, InitHandled DEF IInv
<1>2. IInv /\ [RegistryNext]_registryVars => IInv'
  BY TypeStep, TablesStep, HandledStep DEF IInv
<1> QED  BY <1>1, <1>2, PTL DEF RegistrySpec

\* Every variable of the registry keeps its type.
THEOREM RegistryTypeCorrect == RegistrySpec => []RegistryTypeOK
<1>1. IInv => RegistryTypeOK
  BY DEF IInv
<1> QED  BY <1>1, Invariant, PTL

\* A log goes to the last launchpad configured with its address and topic.
THEOREM LastFactoryRoutesCorrect == RegistrySpec => []LastFactoryRoutes
<1>1. IInv => LastFactoryRoutes
  <2> SUFFICES ASSUME IInv, NEW address \in Addresses, NEW topic \in Topics
               PROVE  /\ \A i \in 1..inserted :
                           LastWith(i, <<address, topic>>) => MatchLog(address, topic) = Order[i]
                      /\ MatchLog(address, topic) # None =>
                           \E i \in 1..inserted : LastWith(i, <<address, topic>>)
    BY DEF LastFactoryRoutes
  <2> QED  BY DEF IInv, TablesInv, MatchLog
<1> QED  BY <1>1, Invariant, PTL

\* What decode-tx takes for a deploy is a log of a watched factory.
THEOREM DecodedIsWatchedCorrect == RegistrySpec => []DecodedIsWatched
<1>1. IInv => DecodedIsWatched
  BY DEF IInv, HandledInv
<1> QED  BY <1>1, Invariant, PTL

=============================================================================
