----------------------------- MODULE NodeStart -----------------------------
(***************************************************************************)
(* How a node gets its identity: LoadConfig of config.go, the key files of *)
(* wireguard.go (loadOrGenerateKeys, GenerateKeys) and the commands up and *)
(* gen-keys of main.go, run by processes that share a key directory and    *)
(* may be killed at any moment.                                            *)
(*                                                                         *)
(* A key pair is a number; a private key file and a public key file that   *)
(* hold the same number belong together.  A file <stem>.key is named by    *)
(* its stem.  os.WriteFile truncates and then writes, in two steps.        *)
(***************************************************************************)
EXTENDS Naturals, FiniteSets

CONSTANTS
    Names,       \* node names
    Unset,       \* an empty string
    Dagda,       \* the node the shipped configuration is written for
    OwnID,       \* a client_id a site may have put in its file
    Procs,       \* processes
    NoFile,      \* the file does not exist
    Partial,     \* the file is there and holds no whole key
    MaxKeys,     \* bound on the key pairs generated
    MaxInstalls  \* bound on the key files put in place by hand

\* "nexus-vpn-" followed by a node name.
DerivedID(n) == <<"nexus-vpn", n>>

\* The client_id of the shipped file.
ShippedID == DerivedID(Dagda)

\* private.key and public.key, which GenerateKeys writes, beside the key file of
\* each node; a node may be called private or public too.
Files == Names \cup {"private", "public"}

ASSUME NodeStartAssumption ==
    /\ Dagda \in Names /\ Unset \notin Names
    /\ MaxKeys \in Nat /\ MaxInstalls \in Nat
    /\ NoFile \notin Nat /\ Partial \notin Nat /\ NoFile # Partial

VARIABLES
    file,       \* node_name and client_id of the configuration file
    disk,       \* the key directory
    pc,         \* where each process is
    cmd,        \* the command it runs: "up" or "gen-keys"
    cfg,        \* its Config: node name and MQTT client ID
    key,        \* the pair it has generated or loaded
    nkeys,      \* pairs generated so far
    installs,   \* key files put in place so far
    solo,       \* history: this generation has overlapped no other
    spoiled     \* history: a generation was cut short or overlapped another

procVars == <<cmd, cfg, key>>
histVars == <<solo, spoiled>>
vars == <<file, disk, pc, procVars, nkeys, installs, histVars>>

Keys == 1..MaxKeys

NoConfig == [name |-> Unset, id |-> Unset]

Generating(p) == pc[p] \in {"truncPriv", "writePriv", "truncPub", "writePub"}

Init ==
    /\ file \in [name : {Unset, Dagda}, id : {Unset, ShippedID, OwnID}]
    /\ disk = [f \in Files |-> NoFile]
    /\ pc = [p \in Procs |-> "idle"]
    /\ cmd = [p \in Procs |-> "up"]
    /\ cfg = [p \in Procs |-> NoConfig]
    /\ key = [p \in Procs |-> 0]
    /\ nkeys = 0 /\ installs = 0
    /\ solo = [p \in Procs |-> FALSE] /\ spoiled = FALSE

-----------------------------------------------------------------------------
(* LoadConfig.                                                             *)

\* The --node flag, else NEXUS_NODE, else node_name of the file.
NodeName(flag, env) == IF flag # Unset THEN flag ELSE IF env # Unset THEN env ELSE file.name

\* Mutant: only an empty client_id is replaced.
ClientIDKept(n) == IF file.id = Unset THEN DerivedID(n) ELSE file.id

\* An empty client_id, and the shipped one, is replaced by one for the node.
ClientID(n) == IF file.id \in {Unset, ShippedID} THEN DerivedID(n) ELSE file.id

LoadConfig(flag, env) ==
    LET n == NodeName(flag, env) IN [name |-> n, id |-> ClientID(n)]

-----------------------------------------------------------------------------
(* The commands.                                                           *)

\* The process ends, on an error or after its work.
Exit(p) ==
    /\ pc' = [pc EXCEPT ![p] = "idle"]
    /\ cfg' = [cfg EXCEPT ![p] = NoConfig]
    /\ key' = [key EXCEPT ![p] = 0]
    /\ UNCHANGED cmd

\* up: without a node name LoadConfig fails and the process ends at once.
Up(p, flag, env) ==
    /\ pc[p] = "idle" /\ NodeName(flag, env) # Unset
    /\ pc' = [pc EXCEPT ![p] = "load"]
    /\ cmd' = [cmd EXCEPT ![p] = "up"]
    /\ cfg' = [cfg EXCEPT ![p] = LoadConfig(flag, env)]
    /\ UNCHANGED <<file, disk, key, nkeys, installs, histVars>>

\* GenerateKeys draws a pair; from here to its last write it is Generating.
Draw(p, command) ==
    /\ nkeys < MaxKeys /\ nkeys' = nkeys + 1
    /\ pc' = [pc EXCEPT ![p] = "truncPriv"]
    /\ cmd' = [cmd EXCEPT ![p] = command]
    /\ key' = [key EXCEPT ![p] = nkeys + 1]
    /\ solo' = [q \in Procs |-> IF q = p THEN \A r \in Procs : ~Generating(r)
                                ELSE solo[q] /\ ~Generating(q)]
    /\ UNCHANGED <<file, disk, cfg, installs, spoiled>>

GenKeys(p) == pc[p] = "idle" /\ Draw(p, "gen-keys")

KeyFile(p) == disk[cfg[p].name]

Serve(p) ==
    /\ pc' = [pc EXCEPT ![p] = "serving"]
    /\ key' = [key EXCEPT ![p] = KeyFile(p)]
    /\ UNCHANGED <<cmd, cfg>>

\* loadOrGenerateKeys finds <node>.key and loads it, or ends on a bad one.
LoadKey(p) ==
    /\ pc[p] = "load" /\ KeyFile(p) # NoFile
    /\ IF KeyFile(p) = Partial THEN Exit(p) ELSE Serve(p)
    /\ UNCHANGED <<file, disk, nkeys, installs, histVars>>

\* It cannot read it, because it is not there or for any other reason, and calls
\* GenerateKeys on the key directory.
NoKey(p) == pc[p] = "load" /\ Draw(p, "up")

\* os.WriteFile opens the file with O_TRUNC ...
Truncate(p) ==
    /\ \/ /\ pc[p] = "truncPriv" /\ pc' = [pc EXCEPT ![p] = "writePriv"]
          /\ disk' = [disk EXCEPT !["private"] = Partial]
       \/ /\ pc[p] = "truncPub" /\ pc' = [pc EXCEPT ![p] = "writePub"]
          /\ disk' = [disk EXCEPT !["public"] = Partial]
    /\ UNCHANGED <<file, procVars, nkeys, installs, histVars>>

\* ... and then writes it.
WritePrivate(p) ==
    /\ pc[p] = "writePriv"
    /\ pc' = [pc EXCEPT ![p] = "truncPub"]
    /\ disk' = [disk EXCEPT !["private"] = key[p]]
    /\ UNCHANGED <<file, procVars, nkeys, installs, histVars>>

\* GenerateKeys returns: gen-keys is done, up reads <node>.key again.
Generated(p) ==
    /\ IF cmd[p] = "up"
       THEN pc' = [pc EXCEPT ![p] = "reload"] /\ UNCHANGED procVars
       ELSE Exit(p)
    /\ solo' = [solo EXCEPT ![p] = FALSE]
    /\ spoiled' = ~solo[p]
    /\ UNCHANGED <<file, nkeys, installs>>

\* Mutant: an error of the second write is ignored.
WritePublicUnchecked(p) ==
    /\ pc[p] = "writePub"
    /\ \/ disk' = [disk EXCEPT !["public"] = key[p]]
       \/ UNCHANGED disk
    /\ Generated(p)

WritePublic(p) ==
    /\ pc[p] = "writePub"
    /\ disk' = [disk EXCEPT !["public"] = key[p]]
    /\ Generated(p)

\* The generated key is read back from <node>.key, which GenerateKeys did not
\* write unless the node is called private or public.
Reload(p) ==
    /\ pc[p] = "reload"
    /\ IF KeyFile(p) \in {NoFile, Partial} THEN Exit(p) ELSE Serve(p)
    /\ UNCHANGED <<file, disk, nkeys, installs, histVars>>

\* A write fails, or the process is killed or interrupted, at any point.
Die(p) ==
    /\ pc[p] # "idle"
    /\ Exit(p)
    /\ spoiled' = (spoiled \/ Generating(p))
    /\ solo' = [solo EXCEPT ![p] = FALSE]
    /\ UNCHANGED <<file, disk, nkeys, installs>>

\* The operator copies private.key, as it is, to the key file of a node that has
\* one of its own.
Install(n) ==
    /\ n \notin {"private", "public"} /\ disk["private"] # NoFile
    /\ installs < MaxInstalls /\ installs' = installs + 1
    /\ disk' = [disk EXCEPT ![n] = disk["private"]]
    /\ UNCHANGED <<file, pc, procVars, nkeys, histVars>>

Next ==
    \/ \E p \in Procs :
          \/ \E flag, env \in Names \cup {Unset} : Up(p, flag, env)
          \/ GenKeys(p) \/ LoadKey(p) \/ NoKey(p)
          \/ Truncate(p) \/ WritePrivate(p) \/ WritePublic(p)
          \/ Reload(p) \/ Die(p)
    \/ \E n \in Names : Install(n)

Spec == Init /\ [][Next]_vars

-----------------------------------------------------------------------------
(* Properties.                                                             *)

\* Types; a process never holds a key that was not drawn or read whole.
TypeOK ==
    /\ file \in [name : {Unset, Dagda}, id : {Unset, ShippedID, OwnID}]
    /\ disk \in [Files -> Keys \cup {NoFile, Partial}]
    /\ pc \in [Procs -> {"idle", "load", "truncPriv", "writePriv", "truncPub",
                         "writePub", "reload", "serving"}]
    /\ cmd \in [Procs -> {"up", "gen-keys"}]
    /\ \A p \in Procs : cfg[p].name \in Names \cup {Unset}
    /\ key \in [Procs -> 0..MaxKeys]
    /\ nkeys \in 0..MaxKeys /\ installs \in 0..MaxInstalls
    /\ solo \in [Procs -> BOOLEAN] /\ spoiled \in BOOLEAN

\* private.key and public.key belong together when nobody is writing them, unless
\* the last generation was cut short or overlapped another; a later one that ran
\* alone to its end repairs the pair.
PairMatches ==
    /\ ~spoiled /\ \A p \in Procs : ~Generating(p)
    => disk["private"] = disk["public"]

\* Nodes of one configuration file that are told apart by flag or environment only
\* are told apart by the MQTT broker too, which drops the older of two sessions of
\* one client ID, unless the site has set a client_id of its own.
ClientIDsDistinct ==
    \A p, q \in Procs :
        /\ pc[p] = "serving" /\ pc[q] = "serving" /\ cfg[p].name # cfg[q].name
        /\ file.id # OwnID
        => cfg[p].id # cfg[q].id

\* config.yaml: "Private key auto-generated on first run, stored in key file".
\* When GenerateKeys has returned to an up that found no key to load, the key
\* file of the node exists.
GeneratedKeyStored ==
    \A p \in Procs : pc[p] = "reload" => KeyFile(p) # NoFile
=============================================================================
