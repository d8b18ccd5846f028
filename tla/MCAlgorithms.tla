---------------------------- MODULE MCAlgorithms ----------------------------
(***************************************************************************)
(* The registry, the bytecode scan, the Bloom filter and the holder fold on *)
(* small instances.  They share no variable, so a behaviour moves one of   *)
(* them, from any of its initial states, and leaves the others where they  *)
(* start: the reachable states of each are those of its specification.     *)
(***************************************************************************)
EXTENDS Registry, Bytecode, Bloom, Holders, TLC

VARIABLE moving  \* the component this behaviour is about

vars == <<registryVars, bytecodeVars, bloomVars, holdersVars, moving>>

\* An alphabet of two letters is enough for selectors that overlap, that
\* start alike, and that occur at either end of a code.
MCTransferSelector    == <<1, 0>>
MCBalanceOfSelector   == <<0, 1>>
MCTotalSupplySelector == <<1, 1>>
MCSelectors == {MCTransferSelector, <<>>, <<1>>, <<0, 0>>}
MCCodes     == UNION {[1..n -> {0, 1}] : n \in 0..3}

\* Digests that wrap, that are even or odd, and that meet modulo m.
MCDigests == {<<0, 0>>, <<1, 3>>, <<5, 2>>, <<15, 7>>, <<12, 14>>, <<7, 15>>}

MCPowersOfTwo == {2 ^ e : e \in 0..4}

\* Nothing tells one account from another.
MCSymmetry == Permutations(Accounts)

RegistryRests ==
  /\ factories = [lp \in Launchpads |-> None]
  /\ StartsLoading

BytecodeRests == file = <<>> /\ StartsReading

BloomRests ==
  /\ request = CHOOSE r \in Requests : TRUE
  /\ digest = [x \in Items |-> CHOOSE d \in Digests : TRUE]
  /\ Unmade

HoldersRests == build = CHOOSE b \in Builds : TRUE

MCInit ==
  \/ moving = "registry" /\ RegistryInit /\ BytecodeRests /\ BloomRests /\ HoldersInit /\ HoldersRests
  \/ moving = "bytecode" /\ RegistryRests /\ BytecodeInit /\ BloomRests /\ HoldersInit /\ HoldersRests
  \/ moving = "bloom" /\ RegistryRests /\ BytecodeRests /\ BloomInit /\ HoldersInit /\ HoldersRests
  \/ moving = "holders" /\ RegistryRests /\ BytecodeRests /\ BloomRests /\ HoldersInit

MCNext ==
  /\ UNCHANGED moving
  /\ \/ /\ moving = "registry" /\ RegistryNext
        /\ UNCHANGED <<bytecodeVars, bloomVars, holdersVars>>
     \/ /\ moving = "bytecode" /\ BytecodeNext
        /\ UNCHANGED <<registryVars, bloomVars, holdersVars>>
     \/ /\ moving = "bloom" /\ BloomNext
        /\ UNCHANGED <<registryVars, bytecodeVars, holdersVars>>
     \/ /\ moving = "holders" /\ HoldersNext
        /\ UNCHANGED <<registryVars, bytecodeVars, bloomVars>>

MCSpec == MCInit /\ [][MCNext]_vars

\* Every variable of the four components has its type, and the Bloom filter
\* has no false negatives.
AlgorithmsTypeOK ==
  /\ RegistryTypeOK /\ BytecodeTypeOK /\ BloomTypeOK /\ HoldersTypeOK
  /\ NoFalseNegatives

=============================================================================
