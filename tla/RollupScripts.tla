--------------------------- MODULE RollupScripts ---------------------------
(***************************************************************************)
(* packages/arb-bridge-eth: the hardhat-deploy scripts in deploy/ that put *)
(* the rollup's templates on Ethereum, and the task create-chain of        *)
(* hardhat.config.ts that creates a rollup from them.                      *)
(*                                                                         *)
(* hardhat-deploy keeps a record per contract name.  deploy(name, args)    *)
(* keeps a recorded contract that has the same code and arguments and      *)
(* replaces any other.  A deployment may die between two transactions and  *)
(* is run again from the start; between runs developers edit contracts,    *)
(* and create-chain may be called at any time.                             *)
(*                                                                         *)
(* A contract is known by what it was deployed from: name, code, arguments.*)
(***************************************************************************)
EXTENDS Naturals, Sequences, FiniteSets

CONSTANTS Edited,              \* contracts whose code developers change
          MaxEdits             \* bound: changes in all

VARIABLES
    code, artifact,            \* the version of a contract's code; as compiled by this run
    record,                    \* deployments/<network>/<name>.json
    at,                        \* the step of Plan a deployment is at; 0 when none runs
    osp, proxies,              \* locals of ChallengeFactory.ts
    templates,                 \* what the RollupCreator of a version creates rollups from
    chains                     \* what the rollups created so far are made of

rollupVars == <<code, artifact, record, at, osp, proxies, templates, chains>>

Proofs == <<"OneStepProof", "OneStepProof2", "OneStepProofHash">>

\* The scripts by name of file, what they depend on first.
Plan == <<"BridgeCreator", "OneStepProof", "OneStepProof2", "OneStepProofHash", "ProxyAdmin",
          "proxy", "proxy", "proxy", "ChallengeFactory", "NodeFactory", "Rollup",
          "RollupUserFacet", "RollupAdminFacet", "RollupCreator", "setTemplates">>
Done == Len(Plan) + 1
Simple == {"BridgeCreator", "OneStepProof", "OneStepProof2", "OneStepProofHash", "NodeFactory",
           "Rollup", "RollupUserFacet", "RollupAdminFacet", "RollupCreator"}
Names == Simple \cup {"ProxyAdmin", "TransparentUpgradeableProxy", "ChallengeFactory"}
Templates == {"BridgeCreator", "Rollup", "ChallengeFactory", "NodeFactory",
              "RollupAdminFacet", "RollupUserFacet"}
Nowhere == <<>>                \* no record

ASSUME RollupAssumption == Edited \subseteq Names /\ MaxEdits \in Nat

RollupInit ==
    /\ code = [n \in Names |-> 0] /\ artifact = code
    /\ record = [n \in Names |-> Nowhere]
    /\ at = 0
    /\ osp = <<>> /\ proxies = <<>>
    /\ templates = [v \in 0 .. MaxEdits |-> Nowhere]
    /\ chains = {}

\* deploy(name, {args}): what is recorded and the same stays.
Contract(name, args) == [name |-> name, code |-> artifact[name], args |-> args]
\* Mutated: whatever is recorded of that code stays, its arguments are not compared.
DeployedOfCode(name, args) ==
    IF record[name] # Nowhere /\ record[name].code = artifact[name] THEN record
    ELSE [record EXCEPT ![name] = Contract(name, args)]
Deployed(name, args) ==
    IF record[name] = Contract(name, args) THEN record
    ELSE [record EXCEPT ![name] = Contract(name, args)]

Edit(n) ==
    /\ code[n] = 0 /\ Cardinality({m \in Names : code[m] > 0}) < MaxEdits
    /\ code' = [code EXCEPT ![n] = 1]
    /\ UNCHANGED <<artifact, record, at, osp, proxies, templates, chains>>

\* hardhat compiles and runs the scripts.
StartDeploy ==
    /\ at \in {0, Done}
    /\ artifact' = code /\ at' = 1
    /\ osp' = <<>> /\ proxies' = <<>>
    /\ UNCHANGED <<code, record, templates, chains>>

DeployDies ==
    /\ at \in 1 .. Len(Plan) /\ at' = 0
    /\ UNCHANGED <<code, artifact, record, osp, proxies, templates, chains>>

Running(step) == at \in 1 .. Len(Plan) /\ Plan[at] = step /\ at' = at + 1

\* Rollup.ts, NodeFactory.ts, OneStepProof.ts and the like: no arguments that change.
DeploySimple(n) ==
    /\ Running(n)
    /\ record' = Deployed(n, <<>>)
    /\ UNCHANGED <<code, artifact, osp, proxies, templates, chains>>

\* ChallengeFactory.ts: the three proofs, behind proxies recorded under one name.
DeployProxyAdmin ==
    /\ Running("ProxyAdmin")
    /\ osp' = [i \in 1 .. 3 |-> record[Proofs[i]]]
    /\ record' = Deployed("ProxyAdmin", <<>>)
    /\ UNCHANGED <<code, artifact, proxies, templates, chains>>

DeployProxy ==
    /\ Running("proxy")
    /\ record' = Deployed("TransparentUpgradeableProxy",
                          <<osp[Len(proxies) + 1], record["ProxyAdmin"]>>)
    /\ proxies' = Append(proxies, record'["TransparentUpgradeableProxy"])
    /\ UNCHANGED <<code, artifact, osp, templates, chains>>

DeployChallengeFactory ==
    /\ Running("ChallengeFactory")
    /\ record' = Deployed("ChallengeFactory", proxies)
    /\ UNCHANGED <<code, artifact, osp, proxies, templates, chains>>

\* RollupCreator.ts: the creator's templates, set by every run.
SetTemplates ==
    /\ Running("setTemplates")
    /\ templates' = [templates EXCEPT ![record["RollupCreator"].code] =
                                          [n \in Templates |-> record[n]]]
    /\ UNCHANGED <<code, artifact, record, osp, proxies, chains>>

\* create-chain: createRollup of the recorded creator; without templates it reverts.
CreateChain ==
    /\ record["RollupCreator"] # Nowhere
    /\ templates[record["RollupCreator"].code] # Nowhere
    /\ chains' = chains \cup {templates[record["RollupCreator"].code]}
    /\ UNCHANGED <<code, artifact, record, at, osp, proxies, templates>>

RollupNext ==
    \/ StartDeploy \/ DeployDies \/ CreateChain
    \/ \E n \in Simple : DeploySimple(n)
    \/ \E n \in Edited : Edit(n)
    \/ DeployProxyAdmin \/ DeployProxy \/ DeployChallengeFactory \/ SetTemplates

RollupSpec == RollupInit /\ [][RollupNext]_rollupVars

-----------------------------------------------------------------------------
\* After a deployment that came to its end the creator makes rollups from what is
\* recorded, at the version that was compiled, and the recorded challenge factory
\* judges by the recorded proofs, however many runs died before and whatever they
\* left in the records.
FinishedDeployIsCurrent ==
    at = Done =>
        /\ templates[record["RollupCreator"].code] = [n \in Templates |-> record[n]]
        /\ \A n \in Names : record[n].code = artifact[n]
        /\ \A i \in 1 .. 3 : record["ChallengeFactory"].args[i].args[1] = record[Proofs[i]]
=============================================================================
