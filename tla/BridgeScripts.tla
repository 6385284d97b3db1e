--------------------------- MODULE BridgeScripts ---------------------------
(***************************************************************************)
(* packages/arb-bridge-peripherals/scripts: the scripts with which         *)
(* operators deploy, wire, upgrade and hand over the token bridge.         *)
(*                                                                         *)
(* A run is one execution of a script, a process that sends transactions   *)
(* to two chains and awaits each; between two awaits anything may happen,  *)
(* other runs included, and the process may die.  Runs share the chains,   *)
(* the deployment-<chain>.json they import and the address table of        *)
(* arb-ts (networks).  A run that dies is not resumed: the script is run   *)
(* again, with fresh addresses.                                            *)
(*                                                                         *)
(* A run deploys at most one pair of gateways, one pair of routers and one *)
(* pair of ProxyAdmins, so each of those contracts bears the name of its   *)
(* run.  Nobody else knows an address before the run hands it out, which   *)
(* is why the deployments of one chain, sent one by one, are one step.     *)
(* Nobody but the run initializes what it deployed.                        *)
(***************************************************************************)
EXTENDS Naturals, FiniteSets

CONSTANTS
    Runs, Accounts,            \* executions of scripts; private keys
    NEW_OWNER,                 \* the account transfer_bridge_owner hands over to
    Keys,                      \* pairs of an L1 and an L2 key that operators hold
    L2Tokens,                  \* what a token may be registered as on L2
    NoRun, NoOne, NoToken,     \* address(0) for each kind of address
    MaxOn, MaxDead, MaxBridges \* bounds: runs in flight at once; runs that die;
                               \* runs of deploy_token_bridge_l1

ASSUME ScriptsAssumption ==
    /\ NoRun \notin Runs /\ NoOne \notin Accounts /\ NoToken \notin L2Tokens
    /\ NEW_OWNER \in Accounts /\ Keys \subseteq Accounts \X Accounts

VARIABLES
    run,                       \* the processes
    file, table,               \* deployment-<chain>.json; networks in arb-ts
    l1Gateway, l2Gateway,      \* gateway proxies, by the run that deployed them
    l1Router, l2Router,        \* gateway router proxies
    l1Admin, l2Admin,          \* the owners of the ProxyAdmins
    beacons,                   \* runs whose BeaconProxyFactory is initialized
    tickets                    \* retryable tickets sent to L2 and neither redeemed nor expired

gateways == <<l1Gateway, l2Gateway>>
routers == <<l1Router, l2Router>>
admins == <<l1Admin, l2Admin>>
records == <<file, table>>
vars == <<run, records, gateways, routers, admins, beacons, tickets>>

Scripts == {"bridge", "weth", "custom", "register", "upgrade", "upgradeL1", "transfer"}
Steps == {"deployL1", "deployL2", "initBeacon", "initL1Gateway", "initL2Gateway",
          "initL1Router", "initL2Router", "write", "check", "checkL2", "deploy",
          "setGateways", "register", "l1Std", "l1Custom", "l2Std", "l2Custom",
          "transferL1", "transferL2", "end"}
FirstStep(s) == IF s = "bridge" THEN "deployL1" ELSE "check"

MaybeRun == Runs \cup {NoRun}

Process == [state : {"idle", "on", "done", "failed", "dead"},
            script : Scripts, at : Steps,
            l1Key : Accounts \cup {NoOne}, l2Key : Accounts \cup {NoOne},
            bridge : MaybeRun,          \* whose routers and gateways it was told of
            admin : MaybeRun,           \* whose ProxyAdmins
            custom : MaybeRun,          \* whose custom gateways
            token : L2Tokens \cup {NoToken},
            beside : SUBSET Runs]       \* history: the upgrades under way when it started
Idle == [state |-> "idle", script |-> "bridge", at |-> "deployL1", l1Key |-> NoOne,
         l2Key |-> NoOne, bridge |-> NoRun, admin |-> NoRun, custom |-> NoRun, token |-> NoToken,
         beside |-> {}]

Gateway == [counterpart : MaybeRun, router : MaybeRun, owner : Accounts \cup {NoOne},
            token : L2Tokens \cup {NoToken}, logic : MaybeRun, admin : MaybeRun]
NoGateway == [counterpart |-> NoRun, router |-> NoRun, owner |-> NoOne,
              token |-> NoToken, logic |-> NoRun, admin |-> NoRun]

Router == [counterpart : MaybeRun, owner : Accounts \cup {NoOne}, route : MaybeRun]
NoRouter == [counterpart |-> NoRun, owner |-> NoOne, route |-> NoRun]

Ticket == [about : {"route", "token"}, from : Runs, to : Runs,
           route : MaybeRun, token : L2Tokens \cup {NoToken}]

Init ==
    /\ run = [r \in Runs |-> Idle]
    /\ file = NoRun
    /\ table = [bridge |-> NoRun, custom |-> NoRun]
    /\ l1Gateway = [r \in Runs |-> NoGateway] /\ l2Gateway = [r \in Runs |-> NoGateway]
    /\ l1Router = [r \in Runs |-> NoRouter] /\ l2Router = [r \in Runs |-> NoRouter]
    /\ l1Admin = [r \in Runs |-> NoOne] /\ l2Admin = [r \in Runs |-> NoOne]
    /\ beacons = {}
    /\ tickets = {}

-----------------------------------------------------------------------------
(* Processes.                                                              *)

\* Where r stands; a step of r sends its transaction and goes on, or throws.
At(r, s, p) == run[r].state = "on" /\ run[r].script = s /\ run[r].at = p
Goes(r, p) == run' = [run EXCEPT ![r].at = p]
Ends(r) == run' = [run EXCEPT ![r].at = "end", ![r].state = "done"]
Throws(r) == run' = [run EXCEPT ![r].state = "failed"] /\ UNCHANGED <<records, gateways, routers, admins, beacons, tickets>>

\* Runs of the two scripts that upgrade gateways.
Upgrades == {"upgrade", "upgradeL1"}
UnderWay == {q \in Runs : run[q].state = "on" /\ run[q].script \in Upgrades}

\* A process starts and reads its keys and the addresses it is told of.
Start(r, s, k1, k2, t) ==
    /\ run[r].state = "idle" /\ Cardinality({q \in Runs : run[q].state = "on"}) < MaxOn
    /\ s = "bridge" =>
           Cardinality({q \in Runs : run[q].state # "idle" /\ run[q].script = s}) < MaxBridges
    /\ s \in {"weth", "register", "upgradeL1", "transfer"} => k1 = k2    \* one key
    /\ s \in {"weth", "custom"} => table.bridge # NoRun         \* nothing to import otherwise
    /\ s \in {"upgrade", "upgradeL1"} => table.bridge # NoRun /\ file # NoRun
    /\ s = "transfer" => file # NoRun
    /\ s = "register" => file # NoRun /\ table.custom # NoRun
    /\ (t # NoToken) <=> (s = "register")
    /\ run' = [run EXCEPT ![r] = [state |-> "on", script |-> s, at |-> FirstStep(s),
                                  l1Key |-> k1, l2Key |-> k2,
                                  bridge |-> IF s = "register" THEN file ELSE table.bridge,
                                  admin |-> IF s \in {"weth", "custom"} THEN table.bridge ELSE file,
                                  custom |-> table.custom, token |-> t,
                                  beside |-> IF s \in Upgrades THEN UnderWay ELSE {}]]
    /\ UNCHANGED <<records, gateways, routers, admins, beacons, tickets>>

\* The process dies, or a call to a node fails: what was sent stays.
Dies(r) ==
    /\ run[r].state = "on" /\ Cardinality({q \in Runs : run[q].state = "dead"}) < MaxDead
    /\ run' = [run EXCEPT ![r].state = "dead"]
    /\ UNCHANGED <<records, gateways, routers, admins, beacons, tickets>>

\* An operator copies addresses into arb-ts or into a script: a bridge from the
\* deployment file, custom gateways from the log of deploy_custom_gateway, which
\* prints them before it initializes either and whether or not it comes to its end.
PublishBridge ==
    /\ file # NoRun
    /\ table' = [table EXCEPT !.bridge = file]
    /\ UNCHANGED <<run, file, gateways, routers, admins, beacons, tickets>>

PublishCustom(r) ==
    /\ run[r].script = "custom" /\ run[r].at \in {"initL1Gateway", "initL2Gateway", "end"}
    /\ table' = [table EXCEPT !.custom = r]
    /\ UNCHANGED <<run, file, gateways, routers, admins, beacons, tickets>>

-----------------------------------------------------------------------------
(* The contracts the scripts call.                                         *)

\* A new proxy in front of new logic, run by the ProxyAdmin of a bridge.
NewGateway(r, b) == [NoGateway EXCEPT !.logic = r, !.admin = b]

\* TokenGateway._initialize: once, with a counterpart.
MayInit(c, counterpart) == c.counterpart = NoRun /\ counterpart # NoRun

\* initialize of the L1 and L2 gateways; owner is of L1CustomGateway only.
GatewayInit(g, r, counterpart, router, owner) ==
    [g EXCEPT ![r].counterpart = counterpart, ![r].router = router, ![r].owner = owner]
RouterInit(R, r, counterpart, owner) ==
    [R EXCEPT ![r].counterpart = counterpart, ![r].owner = owner]

\* L1GatewayRouter.setGateways for WETH: the owner sets the route on L1 and
\* sends the gateway's counterpart to the L2 router.
MaySetGateways(b, g, k) == l1Router[b].owner = k /\ l1Gateway[g].counterpart # NoRun
RouteTicket(b, g) == [about |-> "route", from |-> b, to |-> l1Router[b].counterpart,
                      route |-> l1Gateway[g].counterpart, token |-> NoToken]

\* L1CustomGateway.forceRegisterTokenToL2: the owner maps the token on L1 and
\* sends the mapping to the counterpart.
MayRegister(c, k) == c # NoRun /\ l1Gateway[c].owner = k
TokenTicket(c, t) == [about |-> "token", from |-> c, to |-> l1Gateway[c].counterpart,
                      route |-> NoRun, token |-> t]

\* ProxyAdmin.upgrade and upgradeAndCall: by the owner of the admin that runs
\* the proxy; postUpgradeInit has no logic and what is stored stays.
MayUpgrade(proxies, g, owners, a, k) ==
    g # NoRun /\ proxies[g].admin = a /\ owners[a] = k
Upgraded(proxies, g, r) == [proxies EXCEPT ![g].logic = r]

\* L2GatewayRouter.setGateway and L2CustomGateway.registerTokenFromL1, called by
\* a retryable ticket; a ticket that does not come from the counterpart reverts
\* and waits.
\* Mutated: tokens are registered for any L1 gateway.
RedeemAny(t) ==
    /\ t \in tickets
    /\ \/ /\ t.about = "route" /\ l2Router[t.to].counterpart = t.from
          /\ l2Router' = [l2Router EXCEPT ![t.to].route = t.route]
          /\ UNCHANGED l2Gateway
       \/ /\ t.about = "token"
          /\ l2Gateway' = [l2Gateway EXCEPT ![t.to].token = t.token]
          /\ UNCHANGED l2Router
    /\ tickets' = tickets \ {t}
    /\ UNCHANGED <<run, records, l1Gateway, l1Router, admins, beacons>>
Redeem(t) ==
    /\ t \in tickets
    /\ \/ /\ t.about = "route" /\ l2Router[t.to].counterpart = t.from
          /\ l2Router' = [l2Router EXCEPT ![t.to].route = t.route]
          /\ UNCHANGED l2Gateway
       \/ /\ t.about = "token" /\ l2Gateway[t.to].counterpart = t.from
          /\ l2Gateway' = [l2Gateway EXCEPT ![t.to].token = t.token]
          /\ UNCHANGED l2Router
    /\ tickets' = tickets \ {t}
    /\ UNCHANGED <<run, records, l1Gateway, l1Router, admins, beacons>>

\* A ticket that nobody redeems for a week is gone.
Expire(t) ==
    /\ t \in tickets
    /\ tickets' = tickets \ {t}
    /\ UNCHANGED <<run, records, gateways, routers, admins, beacons>>

-----------------------------------------------------------------------------
(* deploy_token_bridge_l1.ts                                               *)

DeployL1(r) ==
    /\ At(r, "bridge", "deployL1")
    /\ l1Admin' = [l1Admin EXCEPT ![r] = run[r].l1Key]
    /\ l1Gateway' = [l1Gateway EXCEPT ![r] = NewGateway(r, r)]
    /\ Goes(r, "deployL2")
    /\ UNCHANGED <<records, l2Gateway, routers, l2Admin, beacons, tickets>>

DeployL2(r) ==
    /\ At(r, "bridge", "deployL2")
    /\ l2Admin' = [l2Admin EXCEPT ![r] = run[r].l2Key]
    /\ l2Gateway' = [l2Gateway EXCEPT ![r] = NewGateway(r, r)]
    /\ Goes(r, "initBeacon")
    /\ UNCHANGED <<records, l1Gateway, routers, l1Admin, beacons, tickets>>

InitBeacon(r) ==
    /\ At(r, "bridge", "initBeacon")
    /\ beacons' = beacons \cup {r}
    /\ Goes(r, "initL1Gateway")
    /\ UNCHANGED <<records, gateways, routers, admins, tickets>>

InitGateways(r) ==
    \/ /\ At(r, "bridge", "initL1Gateway") /\ MayInit(l1Gateway[r], r)
       /\ l1Gateway' = GatewayInit(l1Gateway, r, r, r, NoOne)
       /\ Goes(r, "initL2Gateway")
       /\ UNCHANGED <<records, l2Gateway, routers, admins, beacons, tickets>>
    \/ /\ At(r, "bridge", "initL2Gateway") /\ MayInit(l2Gateway[r], r)
       /\ l2Gateway' = GatewayInit(l2Gateway, r, r, r, NoOne)
       /\ Goes(r, "initL1Router")
       /\ UNCHANGED <<records, l1Gateway, routers, admins, beacons, tickets>>

\* Mutated: the L2 router is forgotten.
InitL1RouterOnly(r) ==
    /\ At(r, "bridge", "initL1Router") /\ MayInit(l1Router[r], r)
    /\ l1Router' = RouterInit(l1Router, r, r, run[r].l1Key)
    /\ Goes(r, "write")
    /\ UNCHANGED <<records, gateways, l2Router, admins, beacons, tickets>>
InitRouters(r) ==
    \/ /\ At(r, "bridge", "initL1Router") /\ MayInit(l1Router[r], r)
       /\ l1Router' = RouterInit(l1Router, r, r, run[r].l1Key)
       /\ Goes(r, "initL2Router")
       /\ UNCHANGED <<records, gateways, l2Router, admins, beacons, tickets>>
    \/ /\ At(r, "bridge", "initL2Router") /\ MayInit(l2Router[r], r)
       /\ l2Router' = RouterInit(l2Router, r, r, NoOne)
       /\ Goes(r, "write")
       /\ UNCHANGED <<records, gateways, l1Router, admins, beacons, tickets>>

\* The addresses of the run replace those of any earlier run.
WriteDeployment(r) ==
    /\ At(r, "bridge", "write")
    /\ file' = r
    /\ Ends(r)
    /\ UNCHANGED <<table, gateways, routers, admins, beacons, tickets>>

-----------------------------------------------------------------------------
(* deploy_weth_bridge.ts, deploy_custom_gateway.ts, register_custom_token.ts *)

\* All three throw unless the L1 key owns the L1 router they were told of.
CheckRouterOwner(r, s, p) ==
    /\ At(r, s, "check")
    /\ \/ /\ l1Router[run[r].bridge].owner = run[r].l1Key
          /\ Goes(r, p)
          /\ UNCHANGED <<records, gateways, routers, admins, beacons, tickets>>
       \/ l1Router[run[r].bridge].owner # run[r].l1Key /\ Throws(r)

\* New gateways on both chains, run by the ProxyAdmins of the bridge.
DeployGateways(r, s) ==
    /\ At(r, s, "deploy")
    /\ l1Gateway' = [l1Gateway EXCEPT ![r] = NewGateway(r, run[r].admin)]
    /\ l2Gateway' = [l2Gateway EXCEPT ![r] = NewGateway(r, run[r].admin)]
    /\ Goes(r, "initL1Gateway")
    /\ UNCHANGED <<records, routers, admins, beacons, tickets>>

\* Mutated: the WETH route is set before the L2 gateway is initialized.
InitNewL1ThenRoute(r, s, owner) ==
    /\ At(r, s, "initL1Gateway") /\ MayInit(l1Gateway[r], r)
    /\ l1Gateway' = GatewayInit(l1Gateway, r, r, run[r].bridge, owner)
    /\ Goes(r, IF s = "weth" THEN "setGateways" ELSE "initL2Gateway")
    /\ UNCHANGED <<records, l2Gateway, routers, admins, beacons, tickets>>
InitNewL1(r, s, owner) ==
    /\ At(r, s, "initL1Gateway") /\ MayInit(l1Gateway[r], r)
    /\ l1Gateway' = GatewayInit(l1Gateway, r, r, run[r].bridge, owner)
    /\ Goes(r, "initL2Gateway")
    /\ UNCHANGED <<records, l2Gateway, routers, admins, beacons, tickets>>

InitNewL2(r, s) ==
    /\ At(r, s, "initL2Gateway") /\ MayInit(l2Gateway[r], r)
    /\ l2Gateway' = GatewayInit(l2Gateway, r, r, run[r].bridge, NoOne)
    /\ IF s = "weth" THEN Goes(r, "setGateways") ELSE Ends(r)
    /\ UNCHANGED <<records, l1Gateway, routers, admins, beacons, tickets>>

\* The route comes last.
SetWethGateway(r) ==
    LET b == run[r].bridge IN
    /\ At(r, "weth", "setGateways")
    /\ \/ /\ MaySetGateways(b, r, run[r].l1Key)
          /\ l1Router' = [l1Router EXCEPT ![b].route = r]
          /\ tickets' = tickets \cup {RouteTicket(b, r)}
          /\ Ends(r)
          /\ UNCHANGED <<records, gateways, l2Router, admins, beacons>>
       \/ ~MaySetGateways(b, r, run[r].l1Key) /\ Throws(r)

Weth(r) == \/ CheckRouterOwner(r, "weth", "deploy") \/ DeployGateways(r, "weth")
           \/ InitNewL1(r, "weth", NoOne) \/ InitNewL2(r, "weth") \/ SetWethGateway(r)

Custom(r) == \/ CheckRouterOwner(r, "custom", "deploy") \/ DeployGateways(r, "custom")
             \/ InitNewL1(r, "custom", run[r].l1Key) \/ InitNewL2(r, "custom")

\* The router's owner has been checked, the gateway's is what the call needs.
RegisterToken(r) ==
    LET c == run[r].custom IN
    /\ At(r, "register", "register")
    /\ \/ /\ MayRegister(c, run[r].l1Key)
          /\ l1Gateway' = [l1Gateway EXCEPT ![c].token = run[r].token]
          /\ tickets' = tickets \cup {TokenTicket(c, run[r].token)}
          /\ Ends(r)
          /\ UNCHANGED <<records, l2Gateway, routers, admins, beacons>>
       \/ ~MayRegister(c, run[r].l1Key) /\ Throws(r)

Register(r) == CheckRouterOwner(r, "register", "register") \/ RegisterToken(r)

-----------------------------------------------------------------------------
(* token_bridge_upgrade.ts, upgrade.ts, transfer_bridge_owner.ts           *)

CheckAdmin(r, s, p, owners, key, next) ==
    /\ At(r, s, p)
    /\ \/ /\ owners[run[r].admin] = key
          /\ Goes(r, next)
          /\ UNCHANGED <<records, gateways, routers, admins, beacons, tickets>>
       \/ owners[run[r].admin] # key /\ Throws(r)

\* One upgrade of a proxy of gateway g on L1 or on L2, to logic this run deployed
\* between its checks and its first upgrade.
UpgradeL1Proxy(r, s, p, g, next) ==
    /\ At(r, s, p)
    /\ \/ /\ MayUpgrade(l1Gateway, g, l1Admin, run[r].admin, run[r].l1Key)
          /\ l1Gateway' = Upgraded(l1Gateway, g, r)
          /\ IF next = "end" THEN Ends(r) ELSE Goes(r, next)
          /\ UNCHANGED <<records, l2Gateway, routers, admins, beacons, tickets>>
       \/ ~MayUpgrade(l1Gateway, g, l1Admin, run[r].admin, run[r].l1Key) /\ Throws(r)

UpgradeL2Proxy(r, s, p, g, next) ==
    /\ At(r, s, p)
    /\ \/ /\ MayUpgrade(l2Gateway, g, l2Admin, run[r].admin, run[r].l2Key)
          /\ l2Gateway' = Upgraded(l2Gateway, g, r)
          /\ IF next = "end" THEN Ends(r) ELSE Goes(r, next)
          /\ UNCHANGED <<records, l1Gateway, routers, admins, beacons, tickets>>
       \/ ~MayUpgrade(l2Gateway, g, l2Admin, run[r].admin, run[r].l2Key) /\ Throws(r)

\* Mutated: the standard gateway of L2 is left out.
UpgradeAllButL2Std(r) ==
    \/ CheckAdmin(r, "upgrade", "check", l1Admin, run[r].l1Key, "checkL2")
    \/ CheckAdmin(r, "upgrade", "checkL2", l2Admin, run[r].l2Key, "l1Std")
    \/ UpgradeL1Proxy(r, "upgrade", "l1Std", run[r].bridge, "l1Custom")
    \/ UpgradeL1Proxy(r, "upgrade", "l1Custom", run[r].custom, "l2Custom")
    \/ UpgradeL2Proxy(r, "upgrade", "l2Custom", run[r].custom, "end")
Upgrade(r) ==
    \/ CheckAdmin(r, "upgrade", "check", l1Admin, run[r].l1Key, "checkL2")
    \/ CheckAdmin(r, "upgrade", "checkL2", l2Admin, run[r].l2Key, "l1Std")
    \/ UpgradeL1Proxy(r, "upgrade", "l1Std", run[r].bridge, "l1Custom")
    \/ UpgradeL1Proxy(r, "upgrade", "l1Custom", run[r].custom, "l2Std")
    \/ UpgradeL2Proxy(r, "upgrade", "l2Std", run[r].bridge, "l2Custom")
    \/ UpgradeL2Proxy(r, "upgrade", "l2Custom", run[r].custom, "end")

UpgradeL1(r) ==
    \/ CheckAdmin(r, "upgradeL1", "check", l1Admin, run[r].l1Key, "l1Std")
    \/ UpgradeL1Proxy(r, "upgradeL1", "l1Std", run[r].bridge, "end")

\* Ownable.transferOwnership on each chain, L1 first.
HandOverL1(r) ==
    LET a == run[r].admin IN
    /\ At(r, "transfer", "transferL1")
    /\ \/ /\ l1Admin[a] = run[r].l1Key
          /\ l1Admin' = [l1Admin EXCEPT ![a] = NEW_OWNER]
          /\ Goes(r, "transferL2")
          /\ UNCHANGED <<records, gateways, routers, l2Admin, beacons, tickets>>
       \/ l1Admin[a] # run[r].l1Key /\ Throws(r)

HandOverL2(r) ==
    LET a == run[r].admin IN
    /\ At(r, "transfer", "transferL2")
    /\ \/ /\ l2Admin[a] = run[r].l2Key
          /\ l2Admin' = [l2Admin EXCEPT ![a] = NEW_OWNER]
          /\ Ends(r)
          /\ UNCHANGED <<records, gateways, routers, l1Admin, beacons, tickets>>
       \/ l2Admin[a] # run[r].l2Key /\ Throws(r)

Transfer(r) ==
    \/ CheckAdmin(r, "transfer", "check", l1Admin, run[r].l1Key, "checkL2")
    \/ CheckAdmin(r, "transfer", "checkL2", l2Admin, run[r].l2Key, "transferL1")
    \/ HandOverL1(r) \/ HandOverL2(r)

-----------------------------------------------------------------------------
Bridge(r) == DeployL1(r) \/ DeployL2(r) \/ InitBeacon(r) \/ InitGateways(r)
             \/ InitRouters(r) \/ WriteDeployment(r)
Step(r) == Bridge(r) \/ Weth(r) \/ Custom(r) \/ Register(r)
           \/ Upgrade(r) \/ UpgradeL1(r) \/ Transfer(r)

Next ==
    \/ \E r \in Runs : \/ Step(r) \/ Dies(r) \/ PublishCustom(r)
                       \/ \E s \in Scripts, k \in Keys, t \in L2Tokens \cup {NoToken} :
                              Start(r, s, k[1], k[2], t)
    \/ PublishBridge
    \/ \E t \in tickets : Redeem(t) \/ Expire(t)

Spec == Init /\ [][Next]_vars

-----------------------------------------------------------------------------
(* What each variable holds.  A theorem; the runs check what follows from it. *)
TypeOK ==
    /\ run \in [Runs -> Process]
    /\ file \in MaybeRun /\ table \in [bridge : MaybeRun, custom : MaybeRun]
    /\ l1Gateway \in [Runs -> Gateway] /\ l2Gateway \in [Runs -> Gateway]
    /\ l1Router \in [Runs -> Router] /\ l2Router \in [Runs -> Router]
    /\ l1Admin \in [Runs -> Accounts \cup {NoOne}] /\ l2Admin \in [Runs -> Accounts \cup {NoOne}]
    /\ beacons \subseteq Runs
    /\ tickets \subseteq Ticket

\* A pair of gateways that know each other and the routers of bridge b.
Paired(g, b) ==
    /\ l1Gateway[g].counterpart = g /\ l2Gateway[g].counterpart = g
    /\ l1Gateway[g].router = b /\ l2Gateway[g].router = b

Whole(b) ==
    /\ Paired(b, b) /\ b \in beacons
    /\ l1Router[b].counterpart = b /\ l2Router[b].counterpart = b

\* The bridge that the deployment file or the address table names is initialized
\* and wired on both chains, whatever runs died and whoever else deploys.
NamedBridgeIsWhole ==
    /\ file # NoRun => Whole(file)
    /\ table.bridge # NoRun => Whole(table.bridge)

\* Wherever users are sent, on L1 or by a ticket on L2, there is a gateway pair
\* that is initialized on both chains and belongs to that router.
RoutesLeadToPairs ==
    /\ \A b \in Runs : l1Router[b].route # NoRun => Paired(l1Router[b].route, b)
    /\ \A b \in Runs : l2Router[b].route # NoRun => Paired(l2Router[b].route, b)
    /\ \A t \in tickets : t.about = "route" => Paired(t.route, t.to)

\* The owner of an L1 custom gateway may register a token before the pair is
\* wired, for the addresses are handed out early; but never with a gateway that
\* is not initialized itself or belongs to half a bridge.  On L2 a token is known
\* only when both gateways know each other; until then its ticket waits, as long
\* as the run that deployed them has not come to its end.
TokensAwaitTheirPair ==
    /\ \A c \in Runs : l1Gateway[c].token # NoToken =>
           /\ l1Gateway[c].counterpart = c /\ Whole(l1Gateway[c].router)
           /\ Paired(c, l1Gateway[c].router) \/ run[c].at = "initL2Gateway"
    /\ \A c \in Runs : l2Gateway[c].token # NoToken =>
           Paired(c, l1Gateway[c].router) /\ l1Gateway[c].token # NoToken
    /\ \A t \in tickets : t.about = "token" => l1Gateway[t.to].token # NoToken

\* The two ProxyAdmins of a bridge deployed with one key have different owners
\* only when a handover has done L1 and is on its way to L2, or died on it; a
\* handover that has done L1 never throws.
OwnersPartMidHandover ==
    /\ \A b \in Runs :
           (run[b].script = "bridge" /\ run[b].l1Key = run[b].l2Key /\ l2Admin[b] # NoOne
               /\ l1Admin[b] # l2Admin[b])
           => \E r \in Runs : /\ run[r].script = "transfer" /\ run[r].admin = b
                              /\ run[r].at = "transferL2"
    /\ \A r \in Runs : run[r].script = "transfer" /\ run[r].at = "transferL2"
           => run[r].state \in {"on", "dead"}

\* What can make an upgrade throw once it has passed its checks: a ProxyAdmin is
\* handed over meanwhile, or its custom gateways are not run by the one it uses.
Stopped(r) ==
    \/ run[r].custom = NoRun
    \/ run[r].custom # NoRun /\ l1Gateway[run[r].custom].admin # run[r].admin
    \/ l1Admin[run[r].admin] = NEW_OWNER /\ run[r].l1Key # NEW_OWNER
    \/ l2Admin[run[r].admin] = NEW_OWNER /\ run[r].l2Key # NEW_OWNER

\* Run r has upgraded gateway g on L1 and is, or was, before its upgrade on L2.
Owes(r, g) ==
    /\ run[r].script = "upgrade"
    /\ run[r].at \in IF g = run[r].custom THEN {"l2Std", "l2Custom"} ELSE {"l1Custom", "l2Std"}
    /\ run[r].state = "failed" => Stopped(r)

Overlapped(r, q) == r \in run[q].beside \/ q \in run[r].beside

\* A gateway's two layers are on different logic only if the logic on L1 is that
\* of upgrade.ts, which leaves L2 alone; or of an upgrade that still owes L2 its
\* part, being under way, dead or stopped; or of an upgrade that ran at the same
\* time as the one whose logic is on L2.
LogicPartsWithCause ==
    \A g \in Runs :
        LET up == l1Gateway[g].logic
            down == l2Gateway[g].logic IN
        down \notin {NoRun, up} =>
            run[up].script = "upgradeL1" \/ Owes(up, g) \/ Overlapped(up, down)

\* The layers of a bridge have different owners or different logic only with one of
\* these causes.
LayersPartWithCause == OwnersPartMidHandover /\ LogicPartsWithCause
=============================================================================
