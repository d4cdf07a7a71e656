-------------------------- MODULE NodeStartProofs --------------------------
(***************************************************************************)
(* Proofs about NodeStart, for any node names, any number of processes and *)
(* any bounds on what is generated and installed.                          *)
(***************************************************************************)
EXTENDS NodeStart, TLAPS

(***************************************************************************)
(* The inductive invariant.                                                *)
(***************************************************************************)

\* The processes that have loaded their configuration: up, from LoadConfig on.
Configured(p) ==
    pc[p] \in {"load", "reload", "serving"} \/ (Generating(p) /\ cmd[p] = "up")

\* A Config is a record of a name and of an id that LoadConfig makes.
ConfigShape ==
    cfg \in [Procs -> [name : Names \cup {Unset},
                       id : {Unset, OwnID} \cup {DerivedID(n) : n \in Names}]]

\* An up process has a node name, and the client ID that goes with it.
ConfigLoaded ==
    \A p \in Procs :
        Configured(p) => cfg[p].name \in Names /\ cfg[p].id = ClientID(cfg[p].name)

\* GenerateKeys holds a whole pair from the draw to its last write.
HoldsPair == \A p \in Procs : Generating(p) => key[p] \in Keys

\* A generation that has overlapped no other is the only one, and once it has
\* written private.key nobody else writes there.
SoloAlone ==
    \A p \in Procs : solo[p] =>
        /\ Generating(p)
        /\ \A q \in Procs \ {p} : ~Generating(q)
        /\ pc[p] \in {"truncPub", "writePub"} => disk["private"] = key[p]

NInv ==
    /\ TypeOK /\ ConfigShape /\ ConfigLoaded
    /\ HoldsPair /\ SoloAlone /\ PairMatches

-----------------------------------------------------------------------------
(* What LoadConfig returns.                                                *)

\* NodeName chooses the flag, the environment or the file: always a name.
LEMMA NodeNameType ==
  ASSUME TypeOK, NEW flag \in Names \cup {Unset}, NEW env \in Names \cup {Unset}
  PROVE  NodeName(flag, env) \in Names \cup {Unset}
<1>1. file.name \in {Unset, Dagda}
  BY DEF TypeOK
<1>. QED  BY <1>1, NodeStartAssumption DEF NodeName

\* The client ID of a node is the site's own or the one derived from the name.
LEMMA ClientIDType ==
  ASSUME TypeOK, NEW n \in Names
  PROVE  ClientID(n) \in {Unset, OwnID} \cup {DerivedID(m) : m \in Names}
<1>1. file.id \in {Unset, ShippedID, OwnID}
  BY DEF TypeOK
<1>. QED  BY <1>1 DEF ClientID

\* Different names give different derived IDs.
LEMMA DerivedDistinct ==
  ASSUME NEW m, NEW n, m # n
  PROVE  DerivedID(m) # DerivedID(n)
BY DEF DerivedID

-----------------------------------------------------------------------------
(* The initial states, and the steps of one process or of the operator.    *)

LEMMA InitNInv == Init => NInv
<1>. SUFFICES ASSUME Init PROVE NInv
  OBVIOUS
<1>. USE NodeStartAssumption
<1>1. TypeOK
  <2>1. /\ file \in [name : {Unset, Dagda}, id : {Unset, ShippedID, OwnID}]
        /\ disk \in [Files -> Keys \cup {NoFile, Partial}]
        /\ pc = [p \in Procs |-> "idle"]
        /\ cmd = [p \in Procs |-> "up"]
    BY DEF Init
  <2>2. key \in [Procs -> 0..MaxKeys] /\ nkeys \in 0..MaxKeys /\ installs \in 0..MaxInstalls
    BY DEF Init
  <2>3. \A p \in Procs : cfg[p].name \in Names \cup {Unset}
    BY DEF Init, NoConfig
  <2>4. solo \in [Procs -> BOOLEAN] /\ spoiled \in BOOLEAN
    BY DEF Init
  <2>. QED  BY <2>1, <2>2, <2>3, <2>4 DEF TypeOK
<1>2. ConfigShape
  BY DEF Init, ConfigShape, NoConfig
<1>3. ConfigLoaded
  BY DEF Init, ConfigLoaded, Configured, Generating
<1>4. HoldsPair
  BY DEF Init, HoldsPair, Generating
<1>5. SoloAlone
  BY DEF Init, SoloAlone
<1>6. PairMatches
  BY DEF Init, PairMatches, Files
<1>. QED  BY <1>1, <1>2, <1>3, <1>4, <1>5, <1>6 DEF NInv

\* LoadConfig gives up a name and the client ID for it.
LEMMA UpStep ==
  ASSUME NInv, NEW p \in Procs, NEW flag \in Names \cup {Unset},
         NEW env \in Names \cup {Unset}, Up(p, flag, env)
  PROVE  NInv'
<1>. USE NodeStartAssumption DEF NInv
<1>1. TypeOK'
  BY NodeNameType DEF Up, LoadConfig, TypeOK, ConfigShape, Files, Keys, procVars, histVars
<1>2. ConfigShape'
  BY NodeNameType, ClientIDType DEF Up, LoadConfig, TypeOK, ConfigShape, procVars, histVars
<1>3. ConfigLoaded'
  BY NodeNameType DEF Up, LoadConfig, TypeOK, ConfigShape, ConfigLoaded, Configured,
         Generating, ClientID, procVars, histVars
<1>4. HoldsPair'
  BY DEF Up, LoadConfig, TypeOK, HoldsPair, Generating, Keys, procVars, histVars
<1>5. SoloAlone'
  BY DEF Up, LoadConfig, TypeOK, SoloAlone, Generating, Files, procVars, histVars
<1>6. PairMatches'
  BY DEF Up, LoadConfig, TypeOK, SoloAlone, PairMatches, Generating, Files, procVars, histVars
<1>. QED  BY <1>1, <1>2, <1>3, <1>4, <1>5, <1>6 DEF NInv

\* GenerateKeys begins, for gen-keys or for an up without a key file.
LEMMA DrawStep ==
  ASSUME NInv, NEW p \in Procs, GenKeys(p) \/ NoKey(p)
  PROVE  NInv'
<1>. USE NodeStartAssumption DEF NInv
<1>. /\ nkeys \in Nat /\ nkeys < MaxKeys /\ nkeys + 1 \in 1..MaxKeys
     /\ nkeys' = nkeys + 1
  <2>1. nkeys < MaxKeys /\ nkeys' = nkeys + 1
    BY DEF GenKeys, NoKey, Draw
  <2>2. nkeys \in 0..MaxKeys
    BY DEF TypeOK
  <2>. QED  BY <2>1, <2>2
<1>1. TypeOK'
  <2>1. /\ file' \in [name : {Unset, Dagda}, id : {Unset, ShippedID, OwnID}]
        /\ disk' \in [Files -> Keys \cup {NoFile, Partial}]
        /\ \A q \in Procs : cfg'[q].name \in Names \cup {Unset}
        /\ installs' \in 0..MaxInstalls
    BY DEF GenKeys, NoKey, Draw, TypeOK
  <2>2. /\ pc' \in [Procs -> {"idle", "load", "truncPriv", "writePriv", "truncPub",
                              "writePub", "reload", "serving"}]
        /\ cmd' \in [Procs -> {"up", "gen-keys"}]
    BY DEF GenKeys, NoKey, Draw, TypeOK
  <2>3. key' \in [Procs -> 0..MaxKeys] /\ nkeys' \in 0..MaxKeys
    <3>1. key' = [key EXCEPT ![p] = nkeys + 1]
      BY DEF GenKeys, NoKey, Draw
    <3>2. key \in [Procs -> 0..MaxKeys]
      BY DEF TypeOK
    <3>. QED  BY <3>1, <3>2
  <2>4. solo' \in [Procs -> BOOLEAN] /\ spoiled' \in BOOLEAN
    <3>1. solo' = [q \in Procs |-> IF q = p THEN \A r \in Procs : ~Generating(r)
                                   ELSE solo[q] /\ ~Generating(q)]
      BY DEF GenKeys, NoKey, Draw
    <3>2. spoiled' = spoiled
      BY DEF GenKeys, NoKey, Draw
    <3>. QED  BY <3>1, <3>2, Zenon DEF TypeOK
  <2>. QED  BY <2>1, <2>2, <2>3, <2>4 DEF TypeOK
<1>2. ConfigShape'
  BY DEF GenKeys, NoKey, Draw, TypeOK, ConfigShape, procVars, histVars
<1>3. ConfigLoaded'
  <2>1. pc' = [pc EXCEPT ![p] = "truncPriv"] /\ cfg' = cfg /\ file' = file
    BY DEF GenKeys, NoKey, Draw
  <2>2. CASE GenKeys(p)
    <3>. cmd' = [cmd EXCEPT ![p] = "gen-keys"]
      BY <2>2 DEF GenKeys, Draw
    <3>. QED  BY <2>1 DEF TypeOK, ConfigLoaded, Configured, Generating, ClientID
  <2>3. CASE NoKey(p)
    <3>. pc[p] = "load" /\ cmd' = [cmd EXCEPT ![p] = "up"]
      BY <2>3 DEF NoKey, Draw
    <3>. QED  BY <2>1 DEF TypeOK, ConfigLoaded, Configured, Generating, ClientID
  <2>. QED  BY <2>2, <2>3
<1>4. HoldsPair'
  <2>. pc' = [pc EXCEPT ![p] = "truncPriv"] /\ key' = [key EXCEPT ![p] = nkeys + 1]
    BY DEF GenKeys, NoKey, Draw
  <2>. QED  BY DEF TypeOK, HoldsPair, Generating, Keys
<1>5. SoloAlone'
  <2>1. \A q \in Procs : solo'[q] => IF q = p THEN \A r \in Procs : ~Generating(r) ELSE FALSE
    BY DEF GenKeys, NoKey, Draw, SoloAlone
  <2>2. pc' = [pc EXCEPT ![p] = "truncPriv"]
    BY DEF GenKeys, NoKey, Draw
  <2>. QED  BY <2>1, <2>2 DEF TypeOK, SoloAlone, Generating
<1>6. PairMatches'
  BY DEF GenKeys, NoKey, Draw, TypeOK, SoloAlone, PairMatches, Generating, Files, procVars, histVars
<1>. QED  BY <1>1, <1>2, <1>3, <1>4, <1>5, <1>6 DEF NInv

\* A key file is loaded, at the start or after a generation.
LEMMA LoadStep ==
  ASSUME NInv, NEW p \in Procs, LoadKey(p) \/ Reload(p)
  PROVE  NInv'
<1>. USE NodeStartAssumption DEF NInv
<1>1. TypeOK'
  <2>1. /\ file' \in [name : {Unset, Dagda}, id : {Unset, ShippedID, OwnID}]
        /\ disk' \in [Files -> Keys \cup {NoFile, Partial}]
        /\ installs' \in 0..MaxInstalls
    BY DEF LoadKey, Reload, Exit, Serve, KeyFile, NoConfig, TypeOK, Files, histVars
  <2>2. /\ pc' \in [Procs -> {"idle", "load", "truncPriv", "writePriv", "truncPub",
                              "writePub", "reload", "serving"}]
        /\ cmd' \in [Procs -> {"up", "gen-keys"}]
        /\ \A q \in Procs : cfg'[q].name \in Names \cup {Unset}
    <3>1. /\ \/ pc' = [pc EXCEPT ![p] = "idle"] /\ cfg' = [cfg EXCEPT ![p] = NoConfig]
             \/ pc' = [pc EXCEPT ![p] = "serving"] /\ cfg' = cfg
          /\ cmd' = cmd
      BY DEF LoadKey, Reload, Exit, Serve
    <3>2. pc' \in [Procs -> {"idle", "load", "truncPriv", "writePriv", "truncPub",
                             "writePub", "reload", "serving"}]
      BY <3>1 DEF TypeOK
    <3>3. cmd' \in [Procs -> {"up", "gen-keys"}]
      BY <3>1 DEF TypeOK
    <3>4. \A q \in Procs : cfg'[q].name \in Names \cup {Unset}
      <4>1. NoConfig.name \in Names \cup {Unset}
        BY DEF NoConfig
      <4>2. \A q \in Procs : cfg'[q] = cfg[q] \/ cfg'[q] = NoConfig
        BY <3>1 DEF ConfigShape
      <4>. QED  BY <4>1, <4>2 DEF TypeOK
    <3>. QED  BY <3>2, <3>3, <3>4
  <2>3. key' \in [Procs -> 0..MaxKeys] /\ nkeys' \in 0..MaxKeys
    <3>1. cfg[p].name \in Names
      BY DEF LoadKey, Reload, ConfigLoaded, Configured
    <3>2. KeyFile(p) \in Keys \cup {NoFile, Partial}
      BY <3>1 DEF TypeOK, KeyFile, Files
    <3>3. key' = [key EXCEPT ![p] = 0] \/ (KeyFile(p) \in Keys /\ key' = [key EXCEPT ![p] = KeyFile(p)])
      BY <3>2 DEF LoadKey, Reload, Exit, Serve
    <3>4. nkeys' = nkeys
      BY DEF LoadKey, Reload
    <3>. QED  BY <3>3, <3>4 DEF TypeOK, Keys
  <2>4. solo' = solo /\ spoiled' = spoiled
    BY DEF LoadKey, Reload, histVars
  <2>. QED  BY <2>1, <2>2, <2>3, <2>4 DEF TypeOK
<1>2. ConfigShape'
  BY DEF LoadKey, Reload, Exit, Serve, KeyFile, NoConfig, TypeOK, ConfigShape, procVars, histVars
<1>3. ConfigLoaded'
  BY DEF LoadKey, Reload, Exit, Serve, KeyFile, NoConfig, TypeOK, ConfigShape, ConfigLoaded,
         Configured, Generating, ClientID, procVars, histVars
<1>4. HoldsPair'
  BY DEF LoadKey, Reload, Exit, Serve, KeyFile, NoConfig, TypeOK, HoldsPair, Generating,
         Keys, procVars, histVars
<1>5. SoloAlone'
  BY DEF LoadKey, Reload, Exit, Serve, KeyFile, NoConfig, TypeOK, SoloAlone, Generating,
         Files, procVars, histVars
<1>6. PairMatches'
  BY DEF LoadKey, Reload, Exit, Serve, KeyFile, NoConfig, TypeOK, SoloAlone, PairMatches,
         Generating, Files, procVars, histVars
<1>. QED  BY <1>1, <1>2, <1>3, <1>4, <1>5, <1>6 DEF NInv

\* A truncation touches only the two files of GenerateKeys.
LEMMA TruncateStep ==
  ASSUME NInv, NEW p \in Procs, Truncate(p)
  PROVE  NInv'
<1>. USE NodeStartAssumption DEF NInv
<1>1. TypeOK'
  BY DEF Truncate, TypeOK, ConfigShape, Files, Keys, procVars, histVars
<1>2. ConfigShape'
  BY DEF Truncate, TypeOK, ConfigShape, procVars, histVars
<1>3. ConfigLoaded'
  BY DEF Truncate, TypeOK, ConfigShape, ConfigLoaded, Configured, Generating, ClientID,
         procVars, histVars
<1>4. HoldsPair'
  BY DEF Truncate, TypeOK, HoldsPair, Generating, Keys, procVars, histVars
<1>5. SoloAlone'
  BY DEF Truncate, TypeOK, SoloAlone, Generating, Files, procVars, histVars
<1>6. PairMatches'
  BY DEF Truncate, TypeOK, SoloAlone, PairMatches, Generating, Files, procVars, histVars
<1>. QED  BY <1>1, <1>2, <1>3, <1>4, <1>5, <1>6 DEF NInv

\* From here on a generation that runs alone finds its pair in private.key.
LEMMA WritePrivateStep ==
  ASSUME NInv, NEW p \in Procs, WritePrivate(p)
  PROVE  NInv'
<1>. USE NodeStartAssumption DEF NInv
<1>1. TypeOK'
  BY DEF WritePrivate, TypeOK, ConfigShape, Files, Keys, HoldsPair, Generating, procVars, histVars
<1>2. ConfigShape'
  BY DEF WritePrivate, TypeOK, ConfigShape, procVars, histVars
<1>3. ConfigLoaded'
  BY DEF WritePrivate, TypeOK, ConfigShape, ConfigLoaded, Configured, Generating, ClientID,
         procVars, histVars
<1>4. HoldsPair'
  BY DEF WritePrivate, TypeOK, HoldsPair, Generating, Keys, procVars, histVars
<1>5. SoloAlone'
  BY DEF WritePrivate, TypeOK, SoloAlone, Generating, Files, procVars, histVars
<1>6. PairMatches'
  BY DEF WritePrivate, TypeOK, SoloAlone, PairMatches, Generating, Files, procVars, histVars
<1>. QED  BY <1>1, <1>2, <1>3, <1>4, <1>5, <1>6 DEF NInv

\* The last write completes the pair, if the generation ran alone.
LEMMA WritePublicStep ==
  ASSUME NInv, NEW p \in Procs, WritePublic(p)
  PROVE  NInv'
<1>. USE NodeStartAssumption DEF NInv
<1>1. TypeOK'
  <2>1. /\ file' \in [name : {Unset, Dagda}, id : {Unset, ShippedID, OwnID}]
        /\ disk' \in [Files -> Keys \cup {NoFile, Partial}]
        /\ installs' \in 0..MaxInstalls
    BY DEF WritePublic, Generated, Exit, NoConfig, TypeOK, HoldsPair, Generating, Files, histVars
  <2>2. /\ pc' \in [Procs -> {"idle", "load", "truncPriv", "writePriv", "truncPub",
                              "writePub", "reload", "serving"}]
        /\ cmd' \in [Procs -> {"up", "gen-keys"}]
        /\ \A q \in Procs : cfg'[q].name \in Names \cup {Unset}
    <3>1. CASE cmd[p] = "up"
      <4>. pc' = [pc EXCEPT ![p] = "reload"] /\ cmd' = cmd /\ cfg' = cfg
        BY <3>1 DEF WritePublic, Generated, procVars
      <4>. QED  BY DEF TypeOK
    <3>2. CASE cmd[p] # "up"
      <4>. /\ pc' = [pc EXCEPT ![p] = "idle"] /\ cmd' = cmd
           /\ cfg' = [cfg EXCEPT ![p] = NoConfig]
        BY <3>2 DEF WritePublic, Generated, Exit
      <4>. QED  BY DEF TypeOK, ConfigShape, NoConfig
    <3>. QED  BY <3>1, <3>2
  <2>3. key' \in [Procs -> 0..MaxKeys] /\ nkeys' \in 0..MaxKeys
    BY DEF WritePublic, Generated, Exit, NoConfig, TypeOK, procVars
  <2>4. solo' \in [Procs -> BOOLEAN] /\ spoiled' \in BOOLEAN
    <3>1. solo' = [solo EXCEPT ![p] = FALSE] /\ spoiled' = ~solo[p]
      BY DEF WritePublic, Generated
    <3>. QED  BY <3>1, Zenon DEF TypeOK
  <2>. QED  BY <2>1, <2>2, <2>3, <2>4 DEF TypeOK
<1>2. ConfigShape'
  BY DEF WritePublic, Generated, Exit, NoConfig, TypeOK, ConfigShape, procVars, histVars
<1>3. ConfigLoaded'
  BY DEF WritePublic, Generated, Exit, NoConfig, TypeOK, ConfigShape, ConfigLoaded,
         Configured, Generating, ClientID, procVars, histVars
<1>4. HoldsPair'
  BY DEF WritePublic, Generated, Exit, NoConfig, TypeOK, HoldsPair, Generating, Keys,
         procVars, histVars
<1>5. SoloAlone'
  BY DEF WritePublic, Generated, Exit, NoConfig, TypeOK, SoloAlone, Generating, Files,
         procVars, histVars
<1>6. PairMatches'
  BY DEF WritePublic, Generated, Exit, NoConfig, TypeOK, SoloAlone, PairMatches, Generating,
         Files, procVars, histVars
<1>. QED  BY <1>1, <1>2, <1>3, <1>4, <1>5, <1>6 DEF NInv

\* A process that dies leaves the files as they are.
LEMMA DieStep ==
  ASSUME NInv, NEW p \in Procs, Die(p)
  PROVE  NInv'
<1>. USE NodeStartAssumption DEF NInv
<1>1. TypeOK'
  BY DEF Die, Exit, NoConfig, TypeOK, ConfigShape, Files, Keys, procVars, histVars
<1>2. ConfigShape'
  BY DEF Die, Exit, NoConfig, TypeOK, ConfigShape, procVars, histVars
<1>3. ConfigLoaded'
  BY DEF Die, Exit, NoConfig, TypeOK, ConfigShape, ConfigLoaded, Configured, Generating,
         ClientID, procVars, histVars
<1>4. HoldsPair'
  BY DEF Die, Exit, NoConfig, TypeOK, HoldsPair, Generating, Keys, procVars, histVars
<1>5. SoloAlone'
  BY DEF Die, Exit, NoConfig, TypeOK, SoloAlone, Generating, Files, procVars, histVars
<1>6. PairMatches'
  BY DEF Die, Exit, NoConfig, TypeOK, SoloAlone, PairMatches, Generating, Files, procVars, histVars
<1>. QED  BY <1>1, <1>2, <1>3, <1>4, <1>5, <1>6 DEF NInv

\* A copy of private.key reaches one node's file only.
LEMMA InstallStep ==
  ASSUME NInv, NEW n \in Names, Install(n)
  PROVE  NInv'
<1>. USE NodeStartAssumption DEF NInv
<1>1. TypeOK'
  BY DEF Install, TypeOK, ConfigShape, Files, Keys, procVars, histVars
<1>2. ConfigShape'
  BY DEF Install, TypeOK, ConfigShape, procVars, histVars
<1>3. ConfigLoaded'
  BY DEF Install, TypeOK, ConfigShape, ConfigLoaded, Configured, Generating, ClientID,
         procVars, histVars
<1>4. HoldsPair'
  BY DEF Install, TypeOK, HoldsPair, Generating, Keys, procVars, histVars
<1>5. SoloAlone'
  BY DEF Install, TypeOK, SoloAlone, Generating, Files, procVars, histVars
<1>6. PairMatches'
  BY DEF Install, TypeOK, SoloAlone, PairMatches, Generating, Files, procVars, histVars
<1>. QED  BY <1>1, <1>2, <1>3, <1>4, <1>5, <1>6 DEF NInv

LEMMA NextNInv == NInv /\ [Next]_vars => NInv'
<1>. SUFFICES ASSUME NInv, [Next]_vars PROVE NInv'
  OBVIOUS
<1>1. CASE UNCHANGED vars
  BY <1>1 DEF NInv, TypeOK, ConfigShape, ConfigLoaded, Configured, ClientID,
              HoldsPair, SoloAlone, PairMatches, Generating, vars,
              procVars, histVars
<1>2. ASSUME NEW p \in Procs, NEW flag \in Names \cup {Unset}, NEW env \in Names \cup {Unset},
             Up(p, flag, env)
      PROVE  NInv'
  BY <1>2, UpStep
<1>3. ASSUME NEW p \in Procs,
             \/ GenKeys(p) \/ LoadKey(p) \/ NoKey(p) \/ Truncate(p) \/ WritePrivate(p)
             \/ WritePublic(p) \/ Reload(p) \/ Die(p)
      PROVE  NInv'
  BY <1>3, DrawStep, LoadStep, TruncateStep, WritePrivateStep, WritePublicStep, DieStep
<1>4. ASSUME NEW n \in Names, Install(n) PROVE NInv'
  BY <1>4, InstallStep
<1>. QED  BY <1>1, <1>2, <1>3, <1>4 DEF Next

-----------------------------------------------------------------------------
(* The theorems.                                                           *)

LEMMA Invariance == Spec => []NInv
BY InitNInv, NextNInv, PTL DEF Spec

\* Every reachable state is well typed; in particular a key file read whole is
\* a key that some process has drawn.
THEOREM TypeCorrect == Spec => []TypeOK
<1>1. NInv => TypeOK
  BY DEF NInv
<1>. QED  BY <1>1, Invariance, PTL

\* A GenerateKeys that overlapped no other and ran to its end leaves a pair that
\* belongs together, also over what an interrupted one had left.
THEOREM SoloPairsMatch == Spec => []PairMatches
<1>1. NInv => PairMatches
  BY DEF NInv
<1>. QED  BY <1>1, Invariance, PTL

\* LoadConfig gives nodes of different names different MQTT client IDs unless
\* the site has set one of its own.
THEOREM DistinctClients == Spec => []ClientIDsDistinct
<1>1. NInv => ClientIDsDistinct
  <2>. SUFFICES ASSUME NInv, NEW p \in Procs, NEW q \in Procs,
                       pc[p] = "serving", pc[q] = "serving", cfg[p].name # cfg[q].name,
                       file.id # OwnID
                PROVE  cfg[p].id # cfg[q].id
    BY DEF ClientIDsDistinct
  <2>1. file.id \in {Unset, ShippedID}
    BY DEF NInv, TypeOK
  <2>2. cfg[p].id = DerivedID(cfg[p].name) /\ cfg[q].id = DerivedID(cfg[q].name)
    BY <2>1 DEF NInv, ConfigLoaded, Configured, ClientID
  <2>. QED  BY <2>2, DerivedDistinct
<1>. QED  BY <1>1, Invariance, PTL
=============================================================================
