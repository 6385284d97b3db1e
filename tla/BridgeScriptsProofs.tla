------------------------ MODULE BridgeScriptsProofs ------------------------
(***************************************************************************)
(* Theorems about BridgeScripts, for any number of runs, keys, accounts    *)
(* and tokens, any number of them in flight or dead: its types, that       *)
(* whatever file, table, router or registration names is wired, and that   *)
(* the layers part with a cause only; and about RollupScripts, for any     *)
(* contracts that developers edit and any number of edits, deployments,    *)
(* deaths and chains: a deployment that comes to its end has made          *)
(* everything current.                                                     *)
(***************************************************************************)
EXTENDS BridgeScripts, RollupScripts, FiniteSetTheorems, SequenceTheorems, TLAPS

(* What a run that has come to its end stands for, and what one of           *)
(* deploy_custom_gateway does once its addresses are logged, its L1 gateway  *)
(* initialized, both of them.                                               *)
Finished(b) == b \in Runs /\ run[b].script = "bridge" /\ run[b].at = "end"
CustomLogged(c) ==
    /\ c \in Runs /\ run[c].script = "custom"
    /\ run[c].at \in {"initL1Gateway", "initL2Gateway", "end"}
CustomHalf(c) ==
    c \in Runs /\ run[c].script = "custom" /\ run[c].at \in {"initL2Gateway", "end"}
CustomDone(c) == c \in Runs /\ run[c].script = "custom" /\ run[c].at = "end"
WethDone(w, b) ==
    w \in Runs /\ run[w].script = "weth" /\ run[w].at = "end" /\ run[w].bridge = b

(* How far each pair of contracts is wired, by the step its run is at.      *)
Home(r) == IF run[r].script = "bridge" THEN r ELSE run[r].bridge
AfterL2Gateway == {"initL1Router", "initL2Router", "write", "setGateways", "end"}
AfterL1Gateway == {"initL2Gateway"} \cup AfterL2Gateway

GatewaysFollow(r) ==
    run[r].script \in {"bridge", "weth", "custom"} =>
        /\ run[r].at \in AfterL1Gateway =>
               l1Gateway[r].counterpart = r /\ l1Gateway[r].router = Home(r)
        /\ run[r].at \in AfterL2Gateway =>
               l2Gateway[r].counterpart = r /\ l2Gateway[r].router = Home(r)

(* A custom gateway has no owner, and on L2 no counterpart, before its time. *)
CustomFollows(r) ==
    run[r].script = "custom" =>
        /\ run[r].at = "initL1Gateway" => l1Gateway[r].owner = NoOne
        /\ run[r].at \in {"initL1Gateway", "initL2Gateway"} => l2Gateway[r].counterpart = NoRun

RoutersFollow(r) ==
    run[r].script = "bridge" =>
        /\ run[r].at \in {"initL1Gateway"} \cup AfterL1Gateway => r \in beacons
        /\ run[r].at \in {"initL2Router", "write", "end"} => l1Router[r].counterpart = r
        /\ run[r].at \in {"write", "end"} => l2Router[r].counterpart = r

(* A run is told of bridges that were finished, of custom gateways that were *)
(* logged, and has a key.                                                   *)
Told(r) ==
    /\ run[r].state = "idle" => run[r] = Idle
    /\ run[r].state = "done" => run[r].at = "end"
    /\ run[r].script \in {"weth", "custom", "register"} => Finished(run[r].bridge)
    /\ run[r].script = "register" => CustomLogged(run[r].custom) /\ run[r].token # NoToken
    /\ run[r].state # "idle" => run[r].l1Key \in Accounts

RunOK(r) == GatewaysFollow(r) /\ CustomFollows(r) /\ RoutersFollow(r) /\ Told(r)

NamesDone ==
    /\ file # NoRun => Finished(file)
    /\ table.bridge # NoRun => Finished(table.bridge)
    /\ table.custom # NoRun => CustomLogged(table.custom)

RoutesDone ==
    /\ \A b \in Runs : l1Router[b].route # NoRun => WethDone(l1Router[b].route, b)
    /\ \A b \in Runs : l2Router[b].route # NoRun => WethDone(l2Router[b].route, b)
    /\ \A t \in tickets : t.about = "route" => WethDone(t.route, t.to)

TokensDone ==
    /\ \A c \in Runs : l1Gateway[c].token # NoToken => CustomHalf(c)
    /\ \A c \in Runs : l2Gateway[c].token # NoToken =>
           CustomDone(c) /\ l1Gateway[c].token # NoToken
    /\ \A t \in tickets : t.about = "token" =>
           CustomHalf(t.to) /\ l1Gateway[t.to].token # NoToken

Wiring == TypeOK /\ (\A r \in Runs : RunOK(r)) /\ NamesDone /\ RoutesDone /\ TokensDone

-----------------------------------------------------------------------------
(* Types.                                                                   *)
LEMMA InitTypeOK == Init => TypeOK
  <1>. SUFFICES ASSUME Init PROVE TypeOK
    OBVIOUS
  <1>1. Idle \in Process
    BY DEF Idle, Process, MaybeRun, Scripts, Steps
  <1>2. NoGateway \in Gateway /\ NoRouter \in Router
    BY DEF NoGateway, NoRouter, Gateway, Router, MaybeRun
  <1>. QED  BY <1>1, <1>2 DEF Init, TypeOK, MaybeRun

(* What a step does to the process that takes it.                           *)
LEMMA Moves ==
    ASSUME TypeOK, NEW r \in Runs, NEW p \in Steps,
           NEW st \in {"idle", "on", "done", "failed", "dead"},
           \/ run' = [run EXCEPT ![r].at = p]
           \/ run' = [run EXCEPT ![r].at = p, ![r].state = st]
           \/ run' = [run EXCEPT ![r].state = st]
    PROVE  run' \in [Runs -> Process]
  <1>1. run \in [Runs -> Process] /\ run[r] \in Process
    BY DEF TypeOK
  <1>2. /\ [run[r] EXCEPT !.at = p] \in Process
        /\ [run[r] EXCEPT !.at = p, !.state = st] \in Process
        /\ [run[r] EXCEPT !.state = st] \in Process
    BY <1>1 DEF Process
  <1>. QED  BY <1>1, <1>2

LEMMA StepsAreSteps ==
    ASSUME TypeOK, NEW r \in Runs, NEW p \in Steps,
           Goes(r, p) \/ Ends(r) \/ Throws(r) \/ Dies(r)
    PROVE  run' \in [Runs -> Process]
  <1>1. "end" \in Steps
    BY DEF Steps
  <1>. QED  BY <1>1, Moves DEF Goes, Ends, Throws, Dies

LEMMA GatewayTypes ==
    ASSUME NEW g \in [Runs -> Gateway], NEW r \in Runs, NEW c \in MaybeRun, NEW b \in MaybeRun,
           NEW o \in Accounts \cup {NoOne}, NEW t \in L2Tokens \cup {NoToken}
    PROVE  /\ NewGateway(c, b) \in Gateway
           /\ [g EXCEPT ![r] = NewGateway(c, b)] \in [Runs -> Gateway]
           /\ GatewayInit(g, r, c, b, o) \in [Runs -> Gateway]
           /\ [g EXCEPT ![r].token = t] \in [Runs -> Gateway]
           /\ Upgraded(g, r, c) \in [Runs -> Gateway]
  <1>1. g[r] \in Gateway
    OBVIOUS
  <1>2. NewGateway(c, b) \in Gateway
    BY DEF NewGateway, NoGateway, Gateway, MaybeRun
  <1>3. GatewayInit(g, r, c, b, o) \in [Runs -> Gateway]
    <2>1. [g[r] EXCEPT !.counterpart = c, !.router = b, !.owner = o] \in Gateway
      BY <1>1 DEF Gateway
    <2>2. GatewayInit(g, r, c, b, o) =
            [g EXCEPT ![r] = [g[r] EXCEPT !.counterpart = c, !.router = b, !.owner = o]]
      BY <1>1 DEF GatewayInit, Gateway
    <2>. QED  BY <2>1, <2>2
  <1>4. [g EXCEPT ![r].token = t] \in [Runs -> Gateway]
    BY <1>1 DEF Gateway
  <1>5. Upgraded(g, r, c) \in [Runs -> Gateway]
    BY <1>1 DEF Gateway, Upgraded
  <1>. QED  BY <1>2, <1>3, <1>4, <1>5

LEMMA GatewayInitKeepsRest ==
    ASSUME NEW g \in [Runs -> Gateway], NEW r \in Runs, NEW q \in Runs, NEW c, NEW b, NEW o
    PROVE  /\ GatewayInit(g, r, c, b, o)[q].token = g[q].token
           /\ q # r => GatewayInit(g, r, c, b, o)[q] = g[q]
  <1>1. g[r] \in Gateway
    OBVIOUS
  <1>2. GatewayInit(g, r, c, b, o) =
          [g EXCEPT ![r] = [g[r] EXCEPT !.counterpart = c, !.router = b, !.owner = o]]
    BY <1>1 DEF GatewayInit, Gateway
  <1>. QED  BY <1>1, <1>2 DEF Gateway

LEMMA RouterInitKeepsRest ==
    ASSUME NEW R \in [Runs -> Router], NEW r \in Runs, NEW q \in Runs, NEW c, NEW o
    PROVE  /\ RouterInit(R, r, c, o)[q].route = R[q].route
           /\ q # r => RouterInit(R, r, c, o)[q] = R[q]
  <1>1. R[r] \in Router
    OBVIOUS
  <1>2. RouterInit(R, r, c, o) = [R EXCEPT ![r] = [R[r] EXCEPT !.counterpart = c, !.owner = o]]
    BY <1>1 DEF RouterInit, Router
  <1>. QED  BY <1>1, <1>2 DEF Router

LEMMA RouterTypes ==
    ASSUME NEW R \in [Runs -> Router], NEW r \in Runs, NEW c \in MaybeRun,
           NEW o \in Accounts \cup {NoOne}
    PROVE  /\ RouterInit(R, r, c, o) \in [Runs -> Router]
           /\ [R EXCEPT ![r].route = c] \in [Runs -> Router]
  <1>1. R[r] \in Router
    OBVIOUS
  <1>2. RouterInit(R, r, c, o) \in [Runs -> Router]
    <2>1. [R[r] EXCEPT !.counterpart = c, !.owner = o] \in Router
      BY <1>1 DEF Router
    <2>2. RouterInit(R, r, c, o) = [R EXCEPT ![r] = [R[r] EXCEPT !.counterpart = c, !.owner = o]]
      BY <1>1 DEF RouterInit, Router
    <2>. QED  BY <2>1, <2>2
  <1>3. [R EXCEPT ![r].route = c] \in [Runs -> Router]
    BY <1>1 DEF Router
  <1>. QED  BY <1>2, <1>3

LEMMA StartTypeOK ==
    ASSUME TypeOK, NEW r \in Runs, NEW s \in Scripts, NEW k \in Keys,
           NEW t \in L2Tokens \cup {NoToken}, Start(r, s, k[1], k[2], t)
    PROVE  TypeOK'
  <1>1. k[1] \in Accounts /\ k[2] \in Accounts
    BY ScriptsAssumption
  <1>2. FirstStep(s) \in Steps
    BY DEF FirstStep, Steps
  <1>3. /\ file \in MaybeRun /\ table.bridge \in MaybeRun /\ table.custom \in MaybeRun
        /\ run \in [Runs -> Process]
    BY DEF TypeOK
  <1>4. run' \in [Runs -> Process]
    <2>. DEFINE x == [state |-> "on", script |-> s, at |-> FirstStep(s),
                      l1Key |-> k[1], l2Key |-> k[2],
                      bridge |-> IF s = "register" THEN file ELSE table.bridge,
                      admin |-> IF s \in {"weth", "custom"} THEN table.bridge ELSE file,
                      custom |-> table.custom, token |-> t,
                      beside |-> IF s \in Upgrades THEN UnderWay ELSE {}]
    <2>1. x \in Process
      BY <1>1, <1>2, <1>3 DEF Process, UnderWay
    <2>2. run' = [run EXCEPT ![r] = x]
      BY DEF Start
    <2>. QED  BY <1>3, <2>1, <2>2
  <1>. QED  BY <1>4 DEF Start, TypeOK, records, gateways, routers, admins

LEMMA RecordsTypeOK ==
    ASSUME TypeOK, PublishBridge \/ \E r \in Runs : PublishCustom(r) \/ WriteDeployment(r)
    PROVE  TypeOK'
  <1>1. CASE PublishBridge
    <2>1. table' \in [bridge : MaybeRun, custom : MaybeRun]
      BY <1>1 DEF PublishBridge, TypeOK
    <2>. QED  BY <1>1, <2>1 DEF PublishBridge, TypeOK, gateways, routers, admins
  <1>2. ASSUME NEW r \in Runs, PublishCustom(r) PROVE TypeOK'
    <2>1. table' \in [bridge : MaybeRun, custom : MaybeRun]
      BY <1>2 DEF PublishCustom, TypeOK, MaybeRun
    <2>. QED  BY <1>2, <2>1 DEF PublishCustom, TypeOK, gateways, routers, admins
  <1>3. ASSUME NEW r \in Runs, WriteDeployment(r) PROVE TypeOK'
    <2>1. run' \in [Runs -> Process]
      BY <1>3, StepsAreSteps DEF WriteDeployment, Steps
    <2>. QED  BY <1>3, <2>1 DEF WriteDeployment, TypeOK, gateways, routers, admins, MaybeRun
  <1>. QED  BY <1>1, <1>2, <1>3

LEMMA TicketsTypeOK ==
    ASSUME TypeOK, NEW t \in tickets, Redeem(t) \/ Expire(t)
    PROVE  TypeOK'
  <1>1. t \in Ticket
    BY DEF TypeOK
  <1>2. l2Router' \in [Runs -> Router]
    <2>1. CASE l2Router' = [l2Router EXCEPT ![t.to].route = t.route]
      <3>1. t.to \in Runs /\ t.route \in MaybeRun /\ NoOne \in Accounts \cup {NoOne}
        BY <1>1 DEF Ticket
      <3>2. [l2Router EXCEPT ![t.to].route = t.route] \in [Runs -> Router]
        BY <3>1, RouterTypes DEF TypeOK
      <3>. QED  BY <2>1, <3>2
    <2>2. CASE l2Router' = l2Router
      BY <2>2 DEF TypeOK
    <2>. QED  BY <2>1, <2>2 DEF Redeem, Expire, routers
  <1>3. l2Gateway' \in [Runs -> Gateway]
    <2>1. CASE l2Gateway' = [l2Gateway EXCEPT ![t.to].token = t.token]
      <3>1. t.to \in Runs /\ t.token \in L2Tokens \cup {NoToken} /\ NoRun \in MaybeRun
        BY <1>1 DEF Ticket, MaybeRun
      <3>. QED  BY <2>1, <3>1, GatewayTypes DEF TypeOK
    <2>. QED  BY <2>1 DEF Redeem, Expire, TypeOK, gateways
  <1>. QED  BY <1>2, <1>3 DEF Redeem, Expire, TypeOK, records, gateways, routers, admins

LEMMA BridgeTypeOK ==
    ASSUME TypeOK, NEW r \in Runs, Bridge(r)
    PROVE  TypeOK'
  <1>. USE DEF records, gateways, routers, admins
  <1>1. r \in MaybeRun /\ run[r] \in Process /\ NoOne \in Accounts \cup {NoOne}
    BY DEF MaybeRun, TypeOK
  <1>2. run' \in [Runs -> Process]
    BY StepsAreSteps
       DEF Bridge, DeployL1, DeployL2, InitBeacon, InitGateways, InitRouters, WriteDeployment, Steps
  <1>3. CASE DeployL1(r)
    <2>1. l1Gateway' \in [Runs -> Gateway]
      BY <1>1, <1>3, GatewayTypes DEF DeployL1, TypeOK
    <2>. QED  BY <1>1, <1>2, <1>3, <2>1 DEF DeployL1, TypeOK, Process
  <1>4. CASE DeployL2(r)
    <2>1. l2Gateway' \in [Runs -> Gateway]
      BY <1>1, <1>4, GatewayTypes DEF DeployL2, TypeOK
    <2>. QED  BY <1>1, <1>2, <1>4, <2>1 DEF DeployL2, TypeOK, Process
  <1>5. CASE InitBeacon(r)
    BY <1>2, <1>5 DEF InitBeacon, TypeOK
  <1>6. CASE InitGateways(r)
    <2>. l1Gateway \in [Runs -> Gateway] /\ l2Gateway \in [Runs -> Gateway]
      BY DEF TypeOK
    <2>a. /\ l1Gateway' \in {l1Gateway, GatewayInit(l1Gateway, r, r, r, NoOne)}
          /\ l2Gateway' \in {l2Gateway, GatewayInit(l2Gateway, r, r, r, NoOne)}
      BY <1>6 DEF InitGateways
    <2>1. l1Gateway' \in [Runs -> Gateway] /\ l2Gateway' \in [Runs -> Gateway]
      <3>1. GatewayInit(l1Gateway, r, r, r, NoOne) \in [Runs -> Gateway]
        BY <1>1, GatewayTypes
      <3>2. GatewayInit(l2Gateway, r, r, r, NoOne) \in [Runs -> Gateway]
        BY <1>1, GatewayTypes
      <3>. QED  BY <2>a, <3>1, <3>2
    <2>. QED  BY <1>2, <1>6, <2>1 DEF InitGateways, TypeOK
  <1>7. CASE InitRouters(r)
    <2>. l1Router \in [Runs -> Router] /\ l2Router \in [Runs -> Router]
      BY DEF TypeOK
    <2>a. /\ l1Router' \in {l1Router, RouterInit(l1Router, r, r, run[r].l1Key)}
          /\ l2Router' \in {l2Router, RouterInit(l2Router, r, r, NoOne)}
      BY <1>7 DEF InitRouters
    <2>b. run[r].l1Key \in Accounts \cup {NoOne}
      BY <1>1 DEF Process
    <2>1. l1Router' \in [Runs -> Router] /\ l2Router' \in [Runs -> Router]
      <3>1. RouterInit(l1Router, r, r, run[r].l1Key) \in [Runs -> Router]
        BY <1>1, <2>b, RouterTypes
      <3>2. RouterInit(l2Router, r, r, NoOne) \in [Runs -> Router]
        BY <1>1, RouterTypes
      <3>. QED  BY <2>a, <3>1, <3>2
    <2>. QED  BY <1>2, <1>7, <2>1 DEF InitRouters, TypeOK
  <1>8. CASE WriteDeployment(r)
    BY <1>8, RecordsTypeOK
  <1>. QED  BY <1>3, <1>4, <1>5, <1>6, <1>7, <1>8 DEF Bridge

-----------------------------------------------------------------------------
(* What Wiring says of runs that have come to their end.                    *)
LEMMA FinishedIsWhole ==
    ASSUME Wiring, NEW b, Finished(b)
    PROVE  b \in Runs /\ Whole(b)
  <1>1. b \in Runs /\ GatewaysFollow(b) /\ RoutersFollow(b)
    BY DEF Wiring, RunOK, Finished
  <1>. QED  BY <1>1 DEF Finished, GatewaysFollow, RoutersFollow, Whole, Paired, Home,
                        AfterL1Gateway, AfterL2Gateway

LEMMA DoneIsPaired ==
    ASSUME Wiring, NEW c, CustomDone(c) \/ WethDone(c, run[c].bridge)
    PROVE  c \in Runs /\ Paired(c, run[c].bridge) /\ Finished(run[c].bridge)
  <1>1. c \in Runs /\ GatewaysFollow(c) /\ Told(c)
    BY DEF Wiring, RunOK, CustomDone, WethDone
  <1>. QED  BY <1>1 DEF CustomDone, WethDone, GatewaysFollow, Told, Paired, Home,
                        AfterL1Gateway, AfterL2Gateway

LEMMA HalfIsHome ==
    ASSUME Wiring, NEW c, CustomHalf(c)
    PROVE  /\ c \in Runs /\ l1Gateway[c].counterpart = c
           /\ l1Gateway[c].router = run[c].bridge /\ Finished(run[c].bridge)
           /\ CustomDone(c) \/ run[c].at = "initL2Gateway"
  <1>1. c \in Runs /\ GatewaysFollow(c) /\ Told(c)
    BY DEF Wiring, RunOK, CustomHalf
  <1>. QED  BY <1>1 DEF CustomHalf, CustomDone, GatewaysFollow, Told, Home, AfterL1Gateway,
                        AfterL2Gateway

(* Whoever may register a token owns a gateway that is initialized.         *)
LEMMA OwnedIsHalf ==
    ASSUME Wiring, NEW r \in Runs, At(r, "register", "register"),
           MayRegister(run[r].custom, run[r].l1Key)
    PROVE  CustomHalf(run[r].custom) /\ run[r].token # NoToken
  <1>1. /\ CustomLogged(run[r].custom) /\ run[r].token # NoToken /\ run[r].l1Key \in Accounts
        /\ l1Gateway[run[r].custom].owner = run[r].l1Key
    BY DEF Wiring, RunOK, Told, At, MayRegister
  <1>2. CustomFollows(run[r].custom)
    BY <1>1 DEF Wiring, RunOK, CustomLogged
  <1>. QED  BY <1>1, <1>2, ScriptsAssumption DEF CustomLogged, CustomHalf, CustomFollows

LEMMA GatewayScriptsTypeOK ==
    ASSUME Wiring, NEW r \in Runs, Weth(r) \/ Custom(r) \/ Register(r)
    PROVE  TypeOK'
  <1>. USE DEF records, gateways, routers, admins
  <1>1. /\ TypeOK /\ r \in MaybeRun /\ run[r] \in Process
        /\ l1Gateway \in [Runs -> Gateway] /\ l2Gateway \in [Runs -> Gateway]
        /\ l1Router \in [Runs -> Router]
        /\ NoOne \in Accounts \cup {NoOne} /\ NoToken \in L2Tokens \cup {NoToken}
    BY DEF Wiring, MaybeRun, TypeOK
  <1>2. /\ run[r].l1Key \in Accounts \cup {NoOne} /\ run[r].token \in L2Tokens \cup {NoToken}
        /\ run[r].bridge \in MaybeRun /\ run[r].admin \in MaybeRun
    BY <1>1 DEF Process
  <1>3. run' \in [Runs -> Process]
    BY <1>1, StepsAreSteps
       DEF Weth, Custom, Register, CheckRouterOwner, DeployGateways, InitNewL1, InitNewL2,
           SetWethGateway, RegisterToken, Steps
  <1>4. ASSUME NEW s, NEW p, CheckRouterOwner(r, s, p) PROVE TypeOK'
    BY <1>1, <1>3, <1>4 DEF CheckRouterOwner, Throws, TypeOK
  <1>5. ASSUME NEW s, DeployGateways(r, s) PROVE TypeOK'
    <2>1. [l1Gateway EXCEPT ![r] = NewGateway(r, run[r].admin)] \in [Runs -> Gateway]
      BY <1>1, <1>2, GatewayTypes
    <2>2. [l2Gateway EXCEPT ![r] = NewGateway(r, run[r].admin)] \in [Runs -> Gateway]
      BY <1>1, <1>2, GatewayTypes
    <2>. QED  BY <1>1, <1>3, <1>5, <2>1, <2>2 DEF DeployGateways, TypeOK
  <1>6. ASSUME NEW s, NEW o \in {NoOne, run[r].l1Key}, InitNewL1(r, s, o) PROVE TypeOK'
    <2>1. GatewayInit(l1Gateway, r, r, run[r].bridge, o) \in [Runs -> Gateway]
      BY <1>1, <1>2, GatewayTypes
    <2>. QED  BY <1>1, <1>3, <1>6, <2>1 DEF InitNewL1, TypeOK
  <1>7. ASSUME NEW s, InitNewL2(r, s) PROVE TypeOK'
    <2>1. GatewayInit(l2Gateway, r, r, run[r].bridge, NoOne) \in [Runs -> Gateway]
      BY <1>1, <1>2, GatewayTypes
    <2>. QED  BY <1>1, <1>3, <1>7, <2>1 DEF InitNewL2, TypeOK
  <1>8. CASE SetWethGateway(r)
    <2>1. PICK b \in Runs : b = run[r].bridge /\ Whole(b)
      <3>1. Finished(run[r].bridge)
        BY <1>8 DEF Wiring, RunOK, Told, SetWethGateway, At
      <3>. QED  BY <3>1, FinishedIsWhole
    <2>2. [l1Router EXCEPT ![b].route = r] \in [Runs -> Router]
      BY <1>1, <2>1, RouterTypes
    <2>3. RouteTicket(b, r) \in Ticket
      <3>1. l1Gateway[r].counterpart \in MaybeRun
        BY <1>1 DEF Gateway
      <3>. QED  BY <2>1, <3>1 DEF RouteTicket, Ticket, Whole
    <2>. QED  BY <1>1, <1>3, <1>8, <2>1, <2>2, <2>3 DEF SetWethGateway, Throws, TypeOK
  <1>9. CASE RegisterToken(r)
    <2>0. CASE Throws(r)
      BY <1>1, <1>3, <2>0 DEF Throws, TypeOK
    <2>. SUFFICES ASSUME ~Throws(r) PROVE TypeOK'
      BY <2>0
    <2>1. PICK c \in Runs : c = run[r].custom /\ l1Gateway[c].counterpart = c
      <3>1. CustomHalf(run[r].custom)
        BY <1>9, OwnedIsHalf DEF RegisterToken
      <3>. QED  BY <3>1, HalfIsHome
    <2>2. [l1Gateway EXCEPT ![c].token = run[r].token] \in [Runs -> Gateway]
      BY <1>1, <1>2, <2>1, GatewayTypes
    <2>3. TokenTicket(c, run[r].token) \in Ticket
      BY <1>2, <2>1 DEF TokenTicket, Ticket, MaybeRun
    <2>. QED  BY <1>1, <1>3, <1>9, <2>1, <2>2, <2>3 DEF RegisterToken, Throws, TypeOK
  <1>. QED  BY <1>4, <1>5, <1>6, <1>7, <1>8, <1>9 DEF Weth, Custom, Register

LEMMA OwnerScriptsTypeOK ==
    ASSUME TypeOK, NEW r \in Runs, Upgrade(r) \/ UpgradeL1(r) \/ Transfer(r)
    PROVE  TypeOK'
  <1>. USE DEF records, gateways, routers, admins
  <1>1. /\ r \in MaybeRun /\ run[r] \in Process
        /\ l1Gateway \in [Runs -> Gateway] /\ l2Gateway \in [Runs -> Gateway]
    BY DEF MaybeRun, TypeOK
  <1>2. /\ run[r].bridge \in MaybeRun /\ run[r].custom \in MaybeRun
    BY <1>1 DEF Process
  <1>3. run' \in [Runs -> Process]
    BY StepsAreSteps
       DEF Upgrade, UpgradeL1, Transfer, CheckAdmin, UpgradeL1Proxy, UpgradeL2Proxy,
           HandOverL1, HandOverL2, Steps
  <1>4. ASSUME NEW s, NEW p, NEW o, NEW key, NEW n, CheckAdmin(r, s, p, o, key, n) PROVE TypeOK'
    BY <1>3, <1>4 DEF CheckAdmin, Throws, TypeOK
  <1>5. ASSUME NEW s, NEW p, NEW g \in MaybeRun, NEW n, UpgradeL1Proxy(r, s, p, g, n)
        PROVE  TypeOK'
    <2>1. g \in Runs => Upgraded(l1Gateway, g, r) \in [Runs -> Gateway]
      BY <1>1, GatewayTypes
    <2>. QED  BY <1>3, <1>5, <2>1 DEF UpgradeL1Proxy, MayUpgrade, Throws, TypeOK, MaybeRun
  <1>6. ASSUME NEW s, NEW p, NEW g \in MaybeRun, NEW n, UpgradeL2Proxy(r, s, p, g, n)
        PROVE  TypeOK'
    <2>1. g \in Runs => Upgraded(l2Gateway, g, r) \in [Runs -> Gateway]
      BY <1>1, GatewayTypes
    <2>. QED  BY <1>3, <1>6, <2>1 DEF UpgradeL2Proxy, MayUpgrade, Throws, TypeOK, MaybeRun
  <1>7. CASE HandOverL1(r) \/ HandOverL2(r)
    BY <1>3, <1>7, ScriptsAssumption DEF HandOverL1, HandOverL2, Throws, TypeOK
  <1>. QED  BY <1>2, <1>4, <1>5, <1>6, <1>7 DEF Upgrade, UpgradeL1, Transfer

-----------------------------------------------------------------------------
(* A step of r touches the wiring of no other run's contracts, and what has *)
(* come to its end stays there.                                             *)
OnlyRun(r) ==
    /\ \A q \in Runs : q # r => run'[q] = run[q]
    /\ run[r].at = "end" => /\ run'[r].at = "end" /\ run'[r].script = run[r].script
                            /\ run'[r].bridge = run[r].bridge
    /\ CustomLogged(r) => CustomLogged(r)'
    /\ CustomHalf(r) => CustomHalf(r)'

SameWiring(q) ==
    /\ l1Gateway'[q].counterpart = l1Gateway[q].counterpart
    /\ l1Gateway'[q].router = l1Gateway[q].router
    /\ l1Gateway'[q].owner = l1Gateway[q].owner
    /\ l2Gateway'[q].counterpart = l2Gateway[q].counterpart
    /\ l2Gateway'[q].router = l2Gateway[q].router
    /\ l1Router'[q].counterpart = l1Router[q].counterpart
    /\ l2Router'[q].counterpart = l2Router[q].counterpart
    /\ q \in beacons => q \in beacons'

SameRoutes ==
    /\ \A q \in Runs : /\ l1Gateway'[q].token = l1Gateway[q].token
                       /\ l2Gateway'[q].token = l2Gateway[q].token
    /\ \A q \in Runs : /\ l1Router'[q].route = l1Router[q].route
                       /\ l2Router'[q].route = l2Router[q].route
    /\ tickets' \subseteq tickets

LEMMA DoneStays ==
    ASSUME NEW r \in Runs, OnlyRun(r)
    PROVE  /\ \A b : Finished(b) => Finished(b)'
           /\ \A c : CustomDone(c) => CustomDone(c)'
           /\ \A c : CustomLogged(c) => CustomLogged(c)'
           /\ \A c : CustomHalf(c) => CustomHalf(c)'
           /\ \A w, b : WethDone(w, b) => WethDone(w, b)'
  BY DEF OnlyRun, Finished, CustomDone, CustomLogged, CustomHalf, WethDone

LEMMA OthersStay ==
    ASSUME Wiring, NEW r \in Runs, OnlyRun(r), NEW q \in Runs, q # r, SameWiring(q)
    PROVE  RunOK(q)'
  <1>1. RunOK(q) /\ run'[q] = run[q]
    BY DEF Wiring, OnlyRun
  <1>2. GatewaysFollow(q)'
    BY <1>1 DEF RunOK, GatewaysFollow, Home, SameWiring
  <1>3. RoutersFollow(q)'
    BY <1>1 DEF RunOK, RoutersFollow, SameWiring
  <1>4. CustomFollows(q)'
    BY <1>1 DEF RunOK, CustomFollows, SameWiring
  <1>5. Told(q)'
    <2>1. Told(q) /\ (\A b : Finished(b) => Finished(b)') /\ \A c : CustomLogged(c) => CustomLogged(c)'
      BY <1>1, DoneStays DEF RunOK
    <2>. QED  BY <1>1, <2>1 DEF Told
  <1>. QED  BY <1>2, <1>3, <1>4, <1>5 DEF RunOK

LEMMA NamesStay ==
    ASSUME NamesDone, NEW r \in Runs, OnlyRun(r), UNCHANGED records
    PROVE  NamesDone'
  BY DoneStays DEF NamesDone, records

LEMMA RoutesStay ==
    ASSUME RoutesDone, TokensDone, NEW r \in Runs, OnlyRun(r), SameRoutes
    PROVE  RoutesDone' /\ TokensDone'
  <1>1. RoutesDone'
    BY DEF RoutesDone, SameRoutes, OnlyRun, WethDone
  <1>2. TokensDone'
    <2>1. \A c : (CustomDone(c) => CustomDone(c)') /\ (CustomHalf(c) => CustomHalf(c)')
      BY DoneStays
    <2>2. \A t \in tickets : t.about = "token" => t.to \in Runs
      BY DEF TokensDone, CustomHalf
    <2>. QED  BY <2>1, <2>2 DEF TokensDone, SameRoutes
  <1>. QED  BY <1>1, <1>2

LEMMA QuietStep ==
    ASSUME Wiring, TypeOK', NEW r \in Runs, OnlyRun(r), \A q \in Runs : q # r => SameWiring(q),
           RunOK(r)', SameRoutes, UNCHANGED records
    PROVE  Wiring'
  <1>1. \A q \in Runs : RunOK(q)'
    BY OthersStay
  <1>2. NamesDone' /\ RoutesDone' /\ TokensDone'
    BY NamesStay, RoutesStay DEF Wiring
  <1>. QED  BY <1>1, <1>2 DEF Wiring

(* A step that sends nothing, or upgrades or hands over, and goes to a step  *)
(* before the contracts of its run are wired, or ends any but a deployment.  *)
LEMMA NoWiring ==
    ASSUME Wiring, TypeOK', NEW r \in Runs, NEW p \in Steps,
           \/ Goes(r, p) /\ run[r].script \notin {"bridge", "weth", "custom"}
           \/ /\ Goes(r, p) /\ p \in {"deploy", "register"} /\ run[r].script # "bridge"
              /\ run[r].at = "check"
           \/ Ends(r) /\ run[r].script \notin {"bridge", "weth", "custom"}
           \/ run' = [run EXCEPT ![r].state = "failed"]
           \/ run' = [run EXCEPT ![r].state = "dead"],
           run[r].state = "on",
           run[r].at # "end" \/ run' = [run EXCEPT ![r].state = "dead"],
           \A q \in Runs : SameWiring(q), SameRoutes, UNCHANGED records
    PROVE  Wiring'
  <1>1. run \in [Runs -> Process] /\ run[r] \in Process /\ RunOK(r)
    BY DEF Wiring, TypeOK
  <1>2. OnlyRun(r)
    BY <1>1 DEF OnlyRun, Goes, Ends, Process, CustomLogged, CustomHalf
  <1>3. RunOK(r)'
    <2>1. /\ run'[r].script = run[r].script /\ run'[r].bridge = run[r].bridge
          /\ run'[r].custom = run[r].custom /\ run'[r].state # "idle"
          /\ run'[r].token = run[r].token /\ run'[r].l1Key = run[r].l1Key
          /\ run'[r].state = "done" => run'[r].at = "end"
          /\ \/ run'[r].at = run[r].at
             \/ run[r].script \notin {"bridge", "weth", "custom"}
             \/ run'[r].at \in {"deploy", "register"} /\ run[r].script # "bridge"
      BY <1>1 DEF Goes, Ends, Process
    <2>2. SameWiring(r)
      OBVIOUS
    <2>3. GatewaysFollow(r)'
      BY <1>1, <2>1, <2>2 DEF RunOK, GatewaysFollow, Home, SameWiring, AfterL1Gateway, AfterL2Gateway
    <2>4. RoutersFollow(r)'
      BY <1>1, <2>1, <2>2 DEF RunOK, RoutersFollow, SameWiring
    <2>5. Told(r)'
      <3>1. /\ run[r].script \in {"weth", "custom", "register"} => Finished(run[r].bridge)'
            /\ run[r].script = "register" => CustomLogged(run[r].custom)'
        <4>1. /\ \A b : Finished(b) => Finished(b)'
              /\ \A c : CustomLogged(c) => CustomLogged(c)'
          BY <1>2, DoneStays
        <4>2. /\ run[r].script \in {"weth", "custom", "register"} => Finished(run[r].bridge)
              /\ run[r].script = "register" => CustomLogged(run[r].custom)
          BY <1>1 DEF RunOK, Told
        <4>3. run'[r].bridge = run[r].bridge /\ run'[r].custom = run[r].custom
          BY <2>1
        <4>. QED  BY <4>1, <4>2, <4>3 DEF Finished, CustomLogged
      <3>. QED  BY <1>1, <2>1, <3>1 DEF RunOK, Told, Finished, CustomLogged
    <2>6. CustomFollows(r)'
      BY <1>1, <2>1, <2>2 DEF RunOK, CustomFollows, SameWiring
    <2>. QED  BY <2>3, <2>4, <2>5, <2>6 DEF RunOK
  <1>. QED  BY <1>2, <1>3, QuietStep

-----------------------------------------------------------------------------
(* The actions, one by one.                                                 *)
LEMMA StartKeeps ==
    ASSUME Wiring, NEW r \in Runs, NEW s \in Scripts, NEW k \in Keys,
           NEW t \in L2Tokens \cup {NoToken}, Start(r, s, k[1], k[2], t)
    PROVE  Wiring'
  <1>1. TypeOK'
    BY StartTypeOK DEF Wiring
  <1>2. run[r].at = "deployL1"
    BY DEF Wiring, RunOK, Told, Start, Idle
  <1>3. OnlyRun(r)
    BY <1>2 DEF OnlyRun, Start, Wiring, TypeOK, CustomLogged, CustomHalf
  <1>4. (\A q \in Runs : SameWiring(q)) /\ SameRoutes /\ UNCHANGED records
    BY DEF Start, SameWiring, SameRoutes, gateways, routers
  <1>5. /\ run'[r].script = s /\ run'[r].at = FirstStep(s) /\ run'[r].state = "on"
        /\ run'[r].bridge = IF s = "register" THEN file ELSE table.bridge
        /\ run'[r].custom = table.custom /\ run'[r].l1Key = k[1] /\ run'[r].token = t
    BY DEF Start, Wiring, TypeOK
  <1>6. GatewaysFollow(r)' /\ RoutersFollow(r)' /\ CustomFollows(r)'
    BY <1>5 DEF GatewaysFollow, RoutersFollow, CustomFollows, FirstStep, AfterL1Gateway,
                AfterL2Gateway
  <1>7. Told(r)'
    <2>1. /\ s \in {"weth", "custom"} => Finished(table.bridge)
          /\ s = "register" => Finished(file) /\ CustomLogged(table.custom) /\ t # NoToken
          /\ k[1] \in Accounts
      BY ScriptsAssumption DEF Start, Wiring, NamesDone
    <2>2. /\ s \in {"weth", "custom"} => Finished(table.bridge)'
          /\ s = "register" => Finished(file)' /\ CustomLogged(table.custom)'
      BY <1>3, <1>4, <2>1, DoneStays DEF records
    <2>3. table' = table /\ file' = file
      BY <1>4 DEF records
    <2>. QED  BY <1>5, <2>1, <2>2, <2>3 DEF Told, Finished, CustomLogged
  <1>8. RunOK(r)'
    BY <1>6, <1>7 DEF RunOK
  <1>. QED  BY <1>1, <1>3, <1>4, <1>8, QuietStep

LEMMA DiesKeeps ==
    ASSUME Wiring, NEW r \in Runs, Dies(r)
    PROVE  Wiring'
  <1>1. TypeOK'
    <2>1. TypeOK /\ run' \in [Runs -> Process]
      BY StepsAreSteps DEF Wiring, Steps
    <2>. QED  BY <2>1 DEF Dies, TypeOK, records, gateways, routers, admins
  <1>2. (\A q \in Runs : SameWiring(q)) /\ SameRoutes /\ UNCHANGED records
    BY DEF Dies, SameWiring, SameRoutes, gateways, routers
  <1>3. run[r].state = "on" /\ run' = [run EXCEPT ![r].state = "dead"] /\ "end" \in Steps
    BY DEF Dies, Steps
  <1>. QED  BY <1>1, <1>2, <1>3, NoWiring

(* Where no process moves.                                                  *)
LEMMA NoRunMoves ==
    ASSUME Wiring, UNCHANGED run, \A q \in Runs : SameWiring(q)
    PROVE  /\ \A q \in Runs : RunOK(q)'
           /\ \A b : Finished(b)' = Finished(b)
           /\ \A c : /\ CustomDone(c)' = CustomDone(c)
                     /\ CustomLogged(c)' = CustomLogged(c)
                     /\ CustomHalf(c)' = CustomHalf(c)
           /\ \A w, b : WethDone(w, b)' = WethDone(w, b)
  <1>1. ASSUME NEW q \in Runs PROVE RunOK(q)'
    <2>1. RunOK(q) /\ SameWiring(q)
      BY DEF Wiring
    <2>2. GatewaysFollow(q)'
      BY <2>1 DEF RunOK, GatewaysFollow, Home, SameWiring
    <2>3. RoutersFollow(q)'
      BY <2>1 DEF RunOK, RoutersFollow, SameWiring
    <2>4. Told(q)'
      BY <2>1 DEF RunOK, Told, Finished, CustomLogged
    <2>5. CustomFollows(q)'
      BY <2>1 DEF RunOK, CustomFollows, SameWiring
    <2>. QED  BY <2>2, <2>3, <2>4, <2>5 DEF RunOK
  <1>2. /\ \A b : Finished(b)' = Finished(b)
        /\ \A c : /\ CustomDone(c)' = CustomDone(c)
                  /\ CustomLogged(c)' = CustomLogged(c)
                  /\ CustomHalf(c)' = CustomHalf(c)
        /\ \A w, b : WethDone(w, b)' = WethDone(w, b)
    BY DEF Finished, CustomDone, CustomLogged, CustomHalf, WethDone
  <1>. QED  BY <1>1, <1>2

LEMMA PublishKeeps ==
    ASSUME Wiring, PublishBridge \/ \E r \in Runs : PublishCustom(r)
    PROVE  Wiring'
  <1>1. TypeOK'
    BY RecordsTypeOK DEF Wiring
  <1>2. UNCHANGED <<run, file, gateways, routers, admins, beacons, tickets>>
    BY DEF PublishBridge, PublishCustom
  <1>3. \A q \in Runs : SameWiring(q)
    BY <1>2 DEF SameWiring, gateways, routers
  <1>4. \A q \in Runs : RunOK(q)'
    BY <1>2, <1>3, NoRunMoves
  <1>5. RoutesDone' /\ TokensDone'
    BY <1>2 DEF Wiring, RoutesDone, TokensDone, WethDone, CustomDone, CustomHalf, gateways, routers
  <1>6. NamesDone'
    <2>1. table \in [bridge : MaybeRun, custom : MaybeRun]
      BY DEF Wiring, TypeOK
    <2>2. CASE PublishBridge
      BY <2>1, <2>2 DEF Wiring, NamesDone, PublishBridge, Finished, CustomLogged
    <2>3. ASSUME NEW r \in Runs, PublishCustom(r) PROVE NamesDone'
      BY <2>1, <2>3 DEF Wiring, NamesDone, PublishCustom, Finished, CustomLogged
    <2>. QED  BY <2>2, <2>3
  <1>. QED  BY <1>1, <1>4, <1>5, <1>6 DEF Wiring

LEMMA TicketsKeep ==
    ASSUME Wiring, NEW t \in tickets, Redeem(t) \/ Expire(t)
    PROVE  Wiring'
  <1>1. TypeOK'
    BY TicketsTypeOK DEF Wiring
  <1>2. UNCHANGED <<run, records, l1Gateway, l1Router, beacons>> /\ tickets' \subseteq tickets
    BY DEF Redeem, Expire, gateways, routers
  <1>3. \A q \in Runs : /\ l2Gateway'[q].counterpart = l2Gateway[q].counterpart
                        /\ l2Gateway'[q].router = l2Gateway[q].router
                        /\ l2Router'[q].counterpart = l2Router[q].counterpart
    <2>1. l2Gateway \in [Runs -> Gateway] /\ l2Router \in [Runs -> Router]
      BY DEF Wiring, TypeOK
    <2>2. \/ l2Gateway' = l2Gateway
          \/ l2Gateway' = [l2Gateway EXCEPT ![t.to].token = t.token]
      BY DEF Redeem, Expire, gateways
    <2>3. \/ l2Router' = l2Router
          \/ l2Router' = [l2Router EXCEPT ![t.to].route = t.route]
      BY DEF Redeem, Expire, routers
    <2>4. \A q \in Runs : /\ l2Gateway'[q].counterpart = l2Gateway[q].counterpart
                          /\ l2Gateway'[q].router = l2Gateway[q].router
      BY <2>1, <2>2 DEF Gateway
    <2>5. \A q \in Runs : l2Router'[q].counterpart = l2Router[q].counterpart
      BY <2>1, <2>3 DEF Router
    <2>. QED  BY <2>4, <2>5
  <1>4. \A q \in Runs : RunOK(q)'
    <2>1. \A q \in Runs : SameWiring(q)
      BY <1>2, <1>3 DEF SameWiring
    <2>. QED  BY <1>2, <2>1, NoRunMoves
  <1>5. NamesDone' /\ TokensDone'
    <2>1. NamesDone'
      BY <1>2 DEF Wiring, NamesDone, records, Finished, CustomLogged
    <2>2. /\ \A c : CustomHalf(c)' = CustomHalf(c) /\ CustomDone(c)' = CustomDone(c)
          /\ \A c \in Runs : l1Gateway'[c] = l1Gateway[c]
      BY <1>2 DEF CustomHalf, CustomDone
    <2>3. ASSUME NEW c \in Runs, l2Gateway'[c].token # NoToken
          PROVE  CustomDone(c) /\ l1Gateway[c].token # NoToken
      <3>1. CASE l2Gateway'[c].token = l2Gateway[c].token
        BY <2>3, <3>1 DEF Wiring, TokensDone
      <3>2. CASE l2Gateway'[c].token # l2Gateway[c].token
        <4>1. l2Gateway \in [Runs -> Gateway] /\ t \in Ticket
          BY DEF Wiring, TypeOK
        <4>2. t.about = "token" /\ t.to = c /\ l2Gateway[c].counterpart = t.from
          BY <3>2, <4>1 DEF Redeem, Expire, gateways, Gateway
        <4>3. CustomHalf(c) /\ l1Gateway[c].token # NoToken /\ CustomFollows(c)
          BY <4>2 DEF Wiring, TokensDone, RunOK
        <4>4. t.from # NoRun
          BY <4>1, ScriptsAssumption DEF Ticket
        <4>. QED  BY <4>2, <4>3, <4>4 DEF CustomHalf, CustomDone, CustomFollows
      <3>. QED  BY <3>1, <3>2
    <2>4. TokensDone'
      BY <1>2, <2>2, <2>3 DEF Wiring, TokensDone
    <2>. QED  BY <2>1, <2>4
  <1>6. RoutesDone'
    <2>1. ASSUME NEW b \in Runs, l2Router'[b].route # NoRun
          PROVE  WethDone(l2Router'[b].route, b)
      <3>1. CASE l2Router'[b].route = l2Router[b].route
        BY <2>1, <3>1 DEF Wiring, RoutesDone
      <3>2. CASE l2Router'[b].route # l2Router[b].route
        <4>1. l2Router \in [Runs -> Router]
          BY DEF Wiring, TypeOK
        <4>2. t.about = "route" /\ t.to = b /\ l2Router'[b].route = t.route
          BY <3>2, <4>1 DEF Redeem, Expire, routers, Router
        <4>. QED  BY <4>2 DEF Wiring, RoutesDone
      <3>. QED  BY <3>1, <3>2
    <2>2. /\ \A b \in Runs : l1Router'[b].route # NoRun => WethDone(l1Router'[b].route, b)
          /\ \A x \in tickets' : x.about = "route" => WethDone(x.route, x.to)
      BY <1>2 DEF Wiring, RoutesDone
    <2>. QED  BY <1>2, <2>1, <2>2 DEF RoutesDone, WethDone
  <1>. QED  BY <1>1, <1>4, <1>5, <1>6 DEF Wiring

LEMMA BridgeKeeps ==
    ASSUME Wiring, NEW r \in Runs, Bridge(r)
    PROVE  Wiring'
  <1>. USE DEF gateways, routers, admins
  <1>1. /\ run \in [Runs -> Process] /\ l1Gateway \in [Runs -> Gateway]
        /\ l2Gateway \in [Runs -> Gateway] /\ l1Router \in [Runs -> Router]
        /\ l2Router \in [Runs -> Router]
    BY DEF Wiring, TypeOK
  <1>2. TypeOK'
    BY BridgeTypeOK DEF Wiring
  <1>3. /\ run[r].state = "on" /\ run[r].script = "bridge" /\ run[r].at # "end" /\ RunOK(r)
        /\ run'[r].script = "bridge" /\ run'[r].state \in {"on", "done"}
        /\ run'[r].state = "done" => run'[r].at = "end"
    BY <1>1 DEF Wiring, Bridge, DeployL1, DeployL2, InitBeacon, InitGateways, InitRouters,
                WriteDeployment, At, Goes, Ends, Process
  <1>4. OnlyRun(r)
    BY <1>1, <1>3 DEF OnlyRun, Bridge, DeployL1, DeployL2, InitBeacon, InitGateways, InitRouters,
                      WriteDeployment, Goes, Ends, CustomLogged, CustomHalf
  <1>5. Told(r)' /\ CustomFollows(r)'
    <2>1. run'[r].l1Key = run[r].l1Key /\ run[r].l1Key \in Accounts
      BY <1>1, <1>3 DEF RunOK, Told, Bridge, DeployL1, DeployL2, InitBeacon, InitGateways,
                        InitRouters, WriteDeployment, Goes, Ends, Process
    <2>. QED  BY <1>3, <2>1 DEF Told, CustomFollows
  <1>6. \A q \in Runs : q # r => SameWiring(q)
    BY <1>1 DEF SameWiring, Bridge, DeployL1, DeployL2, InitBeacon, InitGateways, InitRouters,
                WriteDeployment, GatewayInit, RouterInit
  <1>7. SameRoutes
    <2>1. /\ \/ l1Gateway' = l1Gateway
             \/ l1Gateway' = [l1Gateway EXCEPT ![r] = NewGateway(r, r)]
             \/ l1Gateway' = GatewayInit(l1Gateway, r, r, r, NoOne)
          /\ l1Router' = l1Router \/ l1Router' = RouterInit(l1Router, r, r, run[r].l1Key)
          /\ \/ l2Gateway' = l2Gateway
             \/ l2Gateway' = [l2Gateway EXCEPT ![r] = NewGateway(r, r)]
             \/ l2Gateway' = GatewayInit(l2Gateway, r, r, r, NoOne)
          /\ l2Router' = l2Router \/ l2Router' = RouterInit(l2Router, r, r, NoOne)
          /\ tickets' = tickets
      BY DEF Bridge, DeployL1, DeployL2, InitBeacon, InitGateways, InitRouters, WriteDeployment
    <2>2. \A q \in Runs : /\ l1Gateway'[q].token = l1Gateway[q].token
                          /\ l2Gateway'[q].token = l2Gateway[q].token
      <3>1. \A q \in Runs : /\ GatewayInit(l1Gateway, r, r, r, NoOne)[q].token = l1Gateway[q].token
                            /\ GatewayInit(l2Gateway, r, r, r, NoOne)[q].token = l2Gateway[q].token
                            /\ NewGateway(r, r).token = NoToken
        BY <1>1, GatewayInitKeepsRest DEF NewGateway, NoGateway
      <3>2. l1Gateway[r].token = NoToken /\ l2Gateway[r].token = NoToken
        BY <1>3 DEF Wiring, TokensDone, CustomHalf, CustomDone
      <3>3. \A q \in Runs : l1Gateway'[q].token = l1Gateway[q].token
        BY <1>1, <2>1, <3>1, <3>2
      <3>4. \A q \in Runs : l2Gateway'[q].token = l2Gateway[q].token
        BY <1>1, <2>1, <3>1, <3>2
      <3>. QED  BY <3>3, <3>4
    <2>3. \A q \in Runs : /\ l1Router'[q].route = l1Router[q].route
                          /\ l2Router'[q].route = l2Router[q].route
      <3>1. \A q \in Runs :
               /\ RouterInit(l1Router, r, r, run[r].l1Key)[q].route = l1Router[q].route
               /\ RouterInit(l2Router, r, r, NoOne)[q].route = l2Router[q].route
        BY <1>1, RouterInitKeepsRest
      <3>. QED  BY <2>1, <3>1
    <2>. QED  BY <2>1, <2>2, <2>3 DEF SameRoutes
  <1>8. GatewaysFollow(r)'
    BY <1>1, <1>3
       DEF RunOK, GatewaysFollow, Home, AfterL1Gateway, AfterL2Gateway, Bridge, DeployL1, DeployL2,
           InitBeacon, InitGateways, InitRouters, WriteDeployment, At, Goes, Ends, GatewayInit,
           Process, Gateway
  <1>9. RoutersFollow(r)'
    BY <1>1, <1>3
       DEF RunOK, RoutersFollow, AfterL1Gateway, AfterL2Gateway, Bridge, DeployL1, DeployL2,
           InitBeacon, InitGateways, InitRouters, WriteDeployment, At, Goes, Ends, RouterInit,
           Process, Router
  <1>10. RunOK(r)'
    BY <1>5, <1>8, <1>9 DEF RunOK
  <1>11. CASE UNCHANGED records
    BY <1>2, <1>4, <1>6, <1>7, <1>10, <1>11, QuietStep
  <1>12. CASE WriteDeployment(r)
    <2>1. Finished(r)' /\ file' = r /\ table' = table
      BY <1>1, <1>3, <1>12 DEF Finished, WriteDeployment, Ends
    <2>2. NamesDone'
      <3>1. NamesDone /\ (\A b : Finished(b) => Finished(b)')
            /\ \A c : CustomLogged(c) => CustomLogged(c)'
        BY <1>4, DoneStays DEF Wiring
      <3>. QED  BY <2>1, <3>1 DEF NamesDone
    <2>3. RoutesDone' /\ TokensDone'
      BY <1>4, <1>7, RoutesStay DEF Wiring
    <2>4. \A q \in Runs : RunOK(q)'
      BY <1>4, <1>6, <1>10, OthersStay
    <2>. QED  BY <1>2, <2>2, <2>3, <2>4 DEF Wiring
  <1>13. UNCHANGED records \/ WriteDeployment(r)
    BY DEF Bridge, DeployL1, DeployL2, InitBeacon, InitGateways, InitRouters
  <1>. QED  BY <1>11, <1>12, <1>13

LEMMA CheckKeeps ==
    ASSUME Wiring, TypeOK', NEW r \in Runs, NEW s, NEW p \in {"deploy", "register"},
           s # "bridge", CheckRouterOwner(r, s, p)
    PROVE  Wiring'
  <1>1. (\A q \in Runs : SameWiring(q)) /\ SameRoutes /\ UNCHANGED records
    BY DEF CheckRouterOwner, Throws, SameWiring, SameRoutes, gateways, routers
  <1>2. /\ run[r].state = "on" /\ run[r].at # "end" /\ run[r].script # "bridge"
        /\ p \in Steps /\ run[r].at = "check"
        /\ Goes(r, p) \/ run' = [run EXCEPT ![r].state = "failed"]
    BY DEF CheckRouterOwner, At, Throws, Steps
  <1>. QED  BY <1>1, <1>2, NoWiring

LEMMA GatewayStepKeeps ==
    ASSUME Wiring, TypeOK', NEW r \in Runs, NEW s \in {"weth", "custom"}, NEW o,
           DeployGateways(r, s) \/ InitNewL1(r, s, o) \/ InitNewL2(r, s)
    PROVE  Wiring'
  <1>. USE DEF gateways, routers
  <1>1. /\ run \in [Runs -> Process] /\ l1Gateway \in [Runs -> Gateway]
        /\ l2Gateway \in [Runs -> Gateway]
    BY DEF Wiring, TypeOK
  <1>2. /\ run[r].state = "on" /\ run[r].script = s /\ run[r].at # "end" /\ RunOK(r)
        /\ run'[r].script = s /\ run'[r].bridge = run[r].bridge
        /\ run'[r].state \in {"on", "done"}
        /\ run'[r].state = "done" => run'[r].at = "end"
        /\ run'[r].l1Key = run[r].l1Key
    BY <1>1 DEF Wiring, DeployGateways, InitNewL1, InitNewL2, At, Goes, Ends, Process
  <1>3. OnlyRun(r)
    <2>1. CustomHalf(r) \/ CustomLogged(r) => run[r].at \in {"initL1Gateway", "initL2Gateway"} /\ s = "custom"
      BY <1>2 DEF CustomHalf, CustomLogged
    <2>2. /\ run[r].at = "initL1Gateway" => run'[r].at = "initL2Gateway"
          /\ run[r].at = "initL2Gateway" /\ s = "custom" => run'[r].at = "end"
      BY <1>1 DEF DeployGateways, InitNewL1, InitNewL2, At, Goes, Ends, Process
    <2>3. (CustomHalf(r) => CustomHalf(r)') /\ (CustomLogged(r) => CustomLogged(r)')
      BY <1>2, <2>1, <2>2 DEF CustomHalf, CustomLogged
    <2>. QED  BY <1>1, <1>2, <2>3 DEF OnlyRun, DeployGateways, InitNewL1, InitNewL2, Goes, Ends
  <1>4. Told(r)'
    <2>1. run[r].bridge # r /\ Finished(run[r].bridge)
      BY <1>2 DEF RunOK, Told, Finished
    <2>2. run[r].l1Key \in Accounts
      BY <1>2 DEF RunOK, Told
    <2>. QED  BY <1>2, <1>3, <2>1, <2>2 DEF Told, OnlyRun, Finished
  <1>5. \A q \in Runs : q # r => SameWiring(q)
    BY <1>1 DEF SameWiring, DeployGateways, InitNewL1, InitNewL2, GatewayInit
  <1>6. SameRoutes
    <2>1. /\ \/ l1Gateway' = l1Gateway
             \/ l1Gateway' = [l1Gateway EXCEPT ![r] = NewGateway(r, run[r].admin)]
             \/ l1Gateway' = GatewayInit(l1Gateway, r, r, run[r].bridge, o)
          /\ \/ l2Gateway' = l2Gateway
             \/ l2Gateway' = [l2Gateway EXCEPT ![r] = NewGateway(r, run[r].admin)]
             \/ l2Gateway' = GatewayInit(l2Gateway, r, r, run[r].bridge, NoOne)
          /\ UNCHANGED <<l1Router, l2Router, tickets>>
      BY DEF DeployGateways, InitNewL1, InitNewL2
    <2>2. \A q \in Runs :
             /\ GatewayInit(l1Gateway, r, r, run[r].bridge, o)[q].token = l1Gateway[q].token
             /\ GatewayInit(l2Gateway, r, r, run[r].bridge, NoOne)[q].token = l2Gateway[q].token
      BY <1>1, GatewayInitKeepsRest
    <2>3. NewGateway(r, run[r].admin).token = NoToken
      BY DEF NewGateway, NoGateway
    <2>4. DeployGateways(r, s) => l1Gateway[r].token = NoToken /\ l2Gateway[r].token = NoToken
      BY DEF DeployGateways, At, Wiring, TokensDone, CustomHalf, CustomDone
    <2>5. ~DeployGateways(r, s) =>
             /\ l1Gateway' \in {l1Gateway, GatewayInit(l1Gateway, r, r, run[r].bridge, o)}
             /\ l2Gateway' \in {l2Gateway, GatewayInit(l2Gateway, r, r, run[r].bridge, NoOne)}
      BY DEF InitNewL1, InitNewL2
    <2>6. \A q \in Runs : l1Gateway'[q].token = l1Gateway[q].token
      BY <1>1, <2>1, <2>2, <2>3, <2>4, <2>5
    <2>7. \A q \in Runs : l2Gateway'[q].token = l2Gateway[q].token
      BY <1>1, <2>1, <2>2, <2>3, <2>4, <2>5
    <2>. QED  BY <2>1, <2>6, <2>7 DEF SameRoutes
  <1>7. GatewaysFollow(r)'
    BY <1>1, <1>2
       DEF RunOK, GatewaysFollow, Home, AfterL1Gateway, AfterL2Gateway, DeployGateways, InitNewL1,
           InitNewL2, At, Goes, Ends, GatewayInit, Process, Gateway
  <1>8. RoutersFollow(r)'
    BY <1>2 DEF RoutersFollow
  <1>9. CustomFollows(r)'
    <2>1. CASE DeployGateways(r, s)
      BY <1>1, <1>2, <2>1 DEF CustomFollows, DeployGateways, NewGateway, NoGateway, Goes, Process
    <2>2. CASE InitNewL1(r, s, o)
      <3>1. run[r].at = "initL1Gateway" /\ run'[r].at = "initL2Gateway" /\ l2Gateway' = l2Gateway
        BY <1>1, <2>2 DEF InitNewL1, At, Goes, Process
      <3>. QED  BY <1>2, <3>1 DEF RunOK, CustomFollows
    <2>3. CASE InitNewL2(r, s)
      <3>1. run'[r].at \in {"setGateways", "end"}
        BY <1>1, <2>3 DEF InitNewL2, Goes, Ends, Process
      <3>. QED  BY <3>1 DEF CustomFollows
    <2>. QED  BY <2>1, <2>2, <2>3
  <1>10. UNCHANGED records /\ RunOK(r)'
    BY <1>4, <1>7, <1>8, <1>9 DEF RunOK, DeployGateways, InitNewL1, InitNewL2
  <1>. QED  BY <1>3, <1>5, <1>6, <1>10, QuietStep

LEMMA RouteKeeps ==
    ASSUME Wiring, TypeOK', NEW r \in Runs, SetWethGateway(r)
    PROVE  Wiring'
  <1>. USE DEF gateways, routers
  <1>1. /\ run \in [Runs -> Process] /\ l1Router \in [Runs -> Router] /\ RunOK(r)
        /\ run[r].state = "on" /\ run[r].script = "weth" /\ run[r].at = "setGateways"
    BY DEF Wiring, TypeOK, SetWethGateway, At
  <1>2. CASE Throws(r)
    <2>1. (\A q \in Runs : SameWiring(q)) /\ SameRoutes /\ UNCHANGED records
      BY <1>2 DEF Throws, SameWiring, SameRoutes
    <2>2. "end" \in Steps /\ run' = [run EXCEPT ![r].state = "failed"]
      BY <1>2 DEF Throws, Steps
    <2>. QED  BY <1>1, <2>1, <2>2, NoWiring
  <1>3. CASE ~Throws(r)
    <2>1. PICK b \in Runs : b = run[r].bridge /\ Finished(b) /\ l1Router[b].counterpart = b
      <3>1. Finished(run[r].bridge)
        BY <1>1 DEF RunOK, Told
      <3>. QED  BY <3>1, FinishedIsWhole DEF Whole
    <2>2. /\ Ends(r) /\ UNCHANGED <<records, l1Gateway, l2Gateway, l2Router, beacons>>
          /\ l1Router' = [l1Router EXCEPT ![b].route = r]
          /\ tickets' = tickets \cup {RouteTicket(b, r)}
      BY <1>3, <2>1 DEF SetWethGateway
    <2>3. RouteTicket(b, r).about = "route" /\ RouteTicket(b, r).route = r
          /\ RouteTicket(b, r).to = b
      BY <1>1, <2>1 DEF RouteTicket, RunOK, GatewaysFollow, AfterL1Gateway, AfterL2Gateway
    <2>4. /\ run'[r].script = "weth" /\ run'[r].bridge = b /\ run'[r].at = "end"
          /\ run'[r].state = "done" /\ \A q \in Runs : q # r => run'[q] = run[q]
          /\ run'[r].l1Key = run[r].l1Key
      BY <1>1, <2>1, <2>2 DEF Ends, Process
    <2>5. OnlyRun(r)
      BY <1>1, <2>4 DEF OnlyRun, CustomLogged, CustomHalf
    <2>6. \A q \in Runs : SameWiring(q)
      BY <1>1, <2>2 DEF SameWiring, Router
    <2>7. RunOK(r)'
      <3>1. GatewaysFollow(r)'
        BY <1>1, <2>1, <2>2, <2>4
           DEF RunOK, GatewaysFollow, Home, AfterL1Gateway, AfterL2Gateway
      <3>2. RoutersFollow(r)' /\ CustomFollows(r)' /\ Told(r)'
        BY <1>1, <2>1, <2>4 DEF RunOK, RoutersFollow, CustomFollows, Told, Finished
      <3>. QED  BY <3>1, <3>2 DEF RunOK
    <2>8. \A q \in Runs : RunOK(q)'
      BY <2>5, <2>6, <2>7, OthersStay
    <2>9. NamesDone'
      BY <2>2, <2>5, NamesStay DEF Wiring
    <2>10. TokensDone'
      <3>1. \A c : (CustomDone(c) => CustomDone(c)') /\ (CustomHalf(c) => CustomHalf(c)')
        BY <2>5, DoneStays
      <3>. QED  BY <2>2, <2>3, <3>1 DEF Wiring, TokensDone
    <2>11. RoutesDone'
      <3>1. WethDone(r, b)'
        BY <2>4 DEF WethDone
      <3>2. \A x \in Runs : l1Router'[x].route = IF x = b THEN r ELSE l1Router[x].route
        BY <1>1, <2>2 DEF Router
      <3>3. \A w, x : WethDone(w, x) => WethDone(w, x)'
        BY <2>5, DoneStays
      <3>4. \A x \in Runs : l1Router'[x].route # NoRun => WethDone(l1Router[x].route, x) \/ x = b
        BY <3>2 DEF Wiring, RoutesDone
      <3>. QED  BY <2>2, <2>3, <2>5, <3>1, <3>2, <3>4
             DEF Wiring, RoutesDone, WethDone, OnlyRun
    <2>. QED  BY <2>8, <2>9, <2>10, <2>11 DEF Wiring
  <1>. QED  BY <1>2, <1>3

LEMMA RegistrationKeeps ==
    ASSUME Wiring, TypeOK', NEW r \in Runs, RegisterToken(r)
    PROVE  Wiring'
  <1>. USE DEF gateways, routers
  <1>1. /\ run \in [Runs -> Process] /\ l1Gateway \in [Runs -> Gateway] /\ RunOK(r)
        /\ run[r].state = "on" /\ run[r].script = "register" /\ run[r].at = "register"
    BY DEF Wiring, TypeOK, RegisterToken, At
  <1>2. CASE Throws(r)
    <2>1. (\A q \in Runs : SameWiring(q)) /\ SameRoutes /\ UNCHANGED records
      BY <1>2 DEF Throws, SameWiring, SameRoutes
    <2>2. "end" \in Steps /\ run' = [run EXCEPT ![r].state = "failed"]
      BY <1>2 DEF Throws, Steps
    <2>. QED  BY <1>1, <2>1, <2>2, NoWiring
  <1>3. CASE ~Throws(r)
    <2>1. PICK c \in Runs : c = run[r].custom /\ CustomHalf(c) /\ l1Gateway[c].counterpart = c
      <3>1. CustomHalf(run[r].custom)
        BY <1>3, OwnedIsHalf DEF RegisterToken
      <3>. QED  BY <3>1, HalfIsHome
    <2>2. /\ Ends(r) /\ UNCHANGED <<records, l2Gateway, l1Router, l2Router, beacons>>
          /\ l1Gateway' = [l1Gateway EXCEPT ![c].token = run[r].token]
          /\ tickets' = tickets \cup {TokenTicket(c, run[r].token)}
      BY <1>3, <2>1 DEF RegisterToken
    <2>3. TokenTicket(c, run[r].token).about = "token" /\ TokenTicket(c, run[r].token).to = c
      BY <2>1 DEF TokenTicket
    <2>4. /\ run'[r].script = "register" /\ run'[r].bridge = run[r].bridge
          /\ run'[r].custom = c /\ run'[r].at = "end"
          /\ run'[r].state = "done" /\ \A q \in Runs : q # r => run'[q] = run[q]
          /\ run'[r].l1Key = run[r].l1Key /\ run'[r].token = run[r].token
      BY <1>1, <2>1, <2>2 DEF Ends, Process
    <2>5. OnlyRun(r)
      BY <1>1, <2>4 DEF OnlyRun, CustomLogged, CustomHalf
    <2>6. \A q \in Runs : SameWiring(q)
      BY <1>1, <2>2 DEF SameWiring, Gateway
    <2>7. RunOK(r)'
      <3>1. Finished(run[r].bridge)' /\ CustomLogged(c)'
        <4>1. /\ \A b : Finished(b) => Finished(b)'
              /\ \A x : CustomLogged(x) => CustomLogged(x)'
          BY <2>5, DoneStays
        <4>2. Finished(run[r].bridge) /\ CustomLogged(c)
          BY <1>1, <2>1 DEF RunOK, Told
        <4>. QED  BY <2>4, <4>1, <4>2 DEF Finished
      <3>2. Told(r)'
        BY <1>1, <2>4, <3>1 DEF RunOK, Told, Finished, CustomLogged
      <3>. QED  BY <2>4, <3>2 DEF RunOK, GatewaysFollow, CustomFollows, RoutersFollow
    <2>8. \A q \in Runs : RunOK(q)'
      BY <2>5, <2>6, <2>7, OthersStay
    <2>9. NamesDone'
      BY <2>2, <2>5, NamesStay DEF Wiring
    <2>10. RoutesDone'
      BY <2>2, <2>3, <2>5 DEF Wiring, RoutesDone, WethDone, OnlyRun
    <2>11. TokensDone'
      <3>1. /\ CustomHalf(c)'
            /\ \A x : (CustomDone(x) => CustomDone(x)') /\ (CustomHalf(x) => CustomHalf(x)')
        BY <2>1, <2>5, DoneStays
      <3>2. /\ \A x \in Runs : x # c => l1Gateway'[x] = l1Gateway[x]
            /\ l1Gateway'[c].token = run[r].token
        BY <1>1, <2>2 DEF Gateway
      <3>3. run[r].token # NoToken
        BY <1>1 DEF RunOK, Told
      <3>. QED  BY <2>2, <2>3, <3>1, <3>2, <3>3 DEF Wiring, TokensDone
    <2>. QED  BY <2>8, <2>9, <2>10, <2>11 DEF Wiring
  <1>. QED  BY <1>2, <1>3

LEMMA OwnerScriptsKeep ==
    ASSUME Wiring, NEW r \in Runs, Upgrade(r) \/ UpgradeL1(r) \/ Transfer(r)
    PROVE  Wiring'
  <1>. USE DEF records, gateways, routers
  <1>1. TypeOK'
    BY OwnerScriptsTypeOK DEF Wiring
  <1>2. /\ run[r].state = "on" /\ run[r].at # "end"
        /\ run[r].script \notin {"bridge", "weth", "custom"}
    BY DEF Upgrade, UpgradeL1, Transfer, CheckAdmin, UpgradeL1Proxy, UpgradeL2Proxy,
           HandOverL1, HandOverL2, At
  <1>3. PICK p \in Steps :
           Goes(r, p) \/ Ends(r) \/ run' = [run EXCEPT ![r].state = "failed"]
    BY DEF Upgrade, UpgradeL1, Transfer, CheckAdmin, UpgradeL1Proxy, UpgradeL2Proxy,
           HandOverL1, HandOverL2, Throws, Steps
  <1>4. /\ l1Gateway' = l1Gateway \/ \E g \in Runs : l1Gateway' = Upgraded(l1Gateway, g, r)
        /\ l2Gateway' = l2Gateway \/ \E g \in Runs : l2Gateway' = Upgraded(l2Gateway, g, r)
        /\ UNCHANGED <<records, l1Router, l2Router, beacons, tickets>>
    <2>1. run[r].bridge \in MaybeRun /\ run[r].custom \in MaybeRun
      BY DEF Wiring, TypeOK, Process
    <2>. QED  BY <2>1
           DEF Upgrade, UpgradeL1, Transfer, CheckAdmin, UpgradeL1Proxy, UpgradeL2Proxy,
               HandOverL1, HandOverL2, Throws, MayUpgrade, MaybeRun
  <1>5. \A q \in Runs : /\ l1Gateway'[q].counterpart = l1Gateway[q].counterpart
                        /\ l1Gateway'[q].router = l1Gateway[q].router
                        /\ l1Gateway'[q].token = l1Gateway[q].token
                        /\ l1Gateway'[q].owner = l1Gateway[q].owner
                        /\ l2Gateway'[q].counterpart = l2Gateway[q].counterpart
                        /\ l2Gateway'[q].router = l2Gateway[q].router
                        /\ l2Gateway'[q].token = l2Gateway[q].token
    <2>1. l1Gateway \in [Runs -> Gateway] /\ l2Gateway \in [Runs -> Gateway]
      BY DEF Wiring, TypeOK
    <2>2. ASSUME NEW G \in [Runs -> Gateway], NEW g \in Runs, NEW q \in Runs
          PROVE  /\ Upgraded(G, g, r)[q].counterpart = G[q].counterpart
                 /\ Upgraded(G, g, r)[q].router = G[q].router
                 /\ Upgraded(G, g, r)[q].token = G[q].token
                 /\ Upgraded(G, g, r)[q].owner = G[q].owner
      BY DEF Upgraded, Gateway
    <2>. QED  BY <1>4, <2>1, <2>2
  <1>6. (\A q \in Runs : SameWiring(q)) /\ SameRoutes
    BY <1>4, <1>5 DEF SameWiring, SameRoutes
  <1>. QED  BY <1>1, <1>2, <1>3, <1>4, <1>6, NoWiring

LEMMA InitWiring == Init => Wiring
  <1>. SUFFICES ASSUME Init PROVE Wiring
    OBVIOUS
  <1>1. \A r \in Runs : RunOK(r)
    BY DEF Init, Idle, RunOK, GatewaysFollow, CustomFollows, RoutersFollow, Told, AfterL1Gateway,
           AfterL2Gateway
  <1>2. NamesDone /\ RoutesDone /\ TokensDone
    BY DEF Init, NamesDone, RoutesDone, TokensDone, NoGateway, NoRouter
  <1>. QED  BY <1>1, <1>2, InitTypeOK DEF Wiring

LEMMA NextWiring == Wiring /\ [Next]_vars => Wiring'
  <1>. SUFFICES ASSUME Wiring, [Next]_vars PROVE Wiring'
    OBVIOUS
  <1>1. ASSUME NEW r \in Runs, Weth(r) \/ Custom(r) \/ Register(r) PROVE Wiring'
    <2>1. TypeOK'
      BY <1>1, GatewayScriptsTypeOK
    <2>2. ASSUME NEW s, NEW p \in {"deploy", "register"}, s # "bridge", CheckRouterOwner(r, s, p)
          PROVE  Wiring'
      BY <2>1, <2>2, CheckKeeps
    <2>3. ASSUME NEW s \in {"weth", "custom"}, NEW o,
                 DeployGateways(r, s) \/ InitNewL1(r, s, o) \/ InitNewL2(r, s)
          PROVE  Wiring'
      BY <2>1, <2>3, GatewayStepKeeps
    <2>. QED  BY <1>1, <2>1, <2>2, <2>3, RouteKeeps, RegistrationKeeps DEF Weth, Custom, Register
  <1>2. ASSUME NEW r \in Runs, Step(r) PROVE Wiring'
    BY <1>1, <1>2, BridgeKeeps, OwnerScriptsKeep DEF Step
  <1>3. ASSUME NEW r \in Runs, NEW s \in Scripts, NEW k \in Keys, NEW t \in L2Tokens \cup {NoToken},
               Start(r, s, k[1], k[2], t)
        PROVE  Wiring'
    BY <1>3, StartKeeps
  <1>4. ASSUME NEW r \in Runs, Dies(r) \/ PublishCustom(r) PROVE Wiring'
    BY <1>4, DiesKeeps, PublishKeeps
  <1>5. CASE PublishBridge
    BY <1>5, PublishKeeps
  <1>6. ASSUME NEW t \in tickets, Redeem(t) \/ Expire(t) PROVE Wiring'
    BY <1>6, TicketsKeep
  <1>7. CASE UNCHANGED vars
    BY <1>7 DEF vars, records, gateways, routers, admins, Wiring, TypeOK, RunOK, GatewaysFollow,
                CustomFollows, RoutersFollow, Told, Home, NamesDone, RoutesDone, TokensDone,
                Finished, CustomDone, CustomLogged, CustomHalf, WethDone
  <1>. QED  BY <1>2, <1>3, <1>4, <1>5, <1>6, <1>7 DEF Next

LEMMA WiringHolds == Spec => []Wiring
  BY InitWiring, NextWiring, PTL DEF Spec

(* Every process, contract, record and ticket is what it is meant to be.    *)
THEOREM TypeCorrect == Spec => []TypeOK
  <1>1. Wiring => TypeOK
    BY DEF Wiring
  <1>. QED  BY <1>1, WiringHolds, PTL

(* Whatever runs die and whoever else deploys, file and table name bridges   *)
(* that are initialized and wired on both chains.                            *)
THEOREM NamedBridgeWhole == Spec => []NamedBridgeIsWhole
  <1>1. Wiring => NamedBridgeIsWhole
    BY FinishedIsWhole DEF Wiring, NamesDone, NamedBridgeIsWhole
  <1>. QED  BY <1>1, WiringHolds, PTL

(* No router, and no ticket on its way to one, leads users to a gateway that *)
(* is not wired on both chains.                                              *)
THEOREM RoutesArePaired == Spec => []RoutesLeadToPairs
  <1>1. Wiring => RoutesLeadToPairs
    <2>1. ASSUME Wiring, NEW w, NEW b, WethDone(w, b) PROVE Paired(w, b)
      BY <2>1, DoneIsPaired DEF WethDone
    <2>. QED  BY <2>1 DEF Wiring, RoutesDone, RoutesLeadToPairs
  <1>. QED  BY <1>1, WiringHolds, PTL

(* A token may be registered before its pair of custom gateways is wired,    *)
(* but with an initialized L1 gateway of a whole bridge only, and it reaches *)
(* L2 only when both gateways know each other.                              *)
THEOREM TokensWait == Spec => []TokensAwaitTheirPair
  <1>1. Wiring => TokensAwaitTheirPair
    <2>1. ASSUME Wiring, NEW c, CustomHalf(c)
          PROVE  /\ l1Gateway[c].counterpart = c /\ Whole(l1Gateway[c].router)
                 /\ CustomDone(c) \/ run[c].at = "initL2Gateway"
      BY <2>1, HalfIsHome, FinishedIsWhole
    <2>2. ASSUME Wiring, NEW c, CustomDone(c)
          PROVE  Paired(c, l1Gateway[c].router)
      BY <2>2, DoneIsPaired DEF Paired
    <2>. QED  BY <2>1, <2>2 DEF Wiring, TokensDone, TokensAwaitTheirPair
  <1>. QED  BY <1>1, WiringHolds, PTL

-----------------------------------------------------------------------------
(* Who owns a bridge's ProxyAdmins, and what scripts that need them know.   *)
OwnerScripts == {"upgrade", "upgradeL1", "transfer"}

(* The owners of b, from its deployment to its handover, L1 first.          *)
OwnedBy(b) ==
    run[b].script = "bridge" =>
        /\ run[b].at \in {"deployL1", "deployL2"} => l2Admin[b] = NoOne
        /\ run[b].at \notin {"deployL1", "end"} => l1Admin[b] = run[b].l1Key
        /\ run[b].at \notin {"deployL1", "deployL2", "end"} => l2Admin[b] = run[b].l2Key
        /\ run[b].at = "end" =>
               /\ l1Admin[b] \in {run[b].l1Key, NEW_OWNER}
               /\ l2Admin[b] \in {run[b].l2Key, NEW_OWNER}
               /\ l2Admin[b] # run[b].l2Key => l1Admin[b] = NEW_OWNER

(* The gateways of g are run by the ProxyAdmins of one bridge.              *)
OneAdmin(g) ==
    IF run[g].script = "bridge" /\ run[g].at = "deployL2"
       THEN l1Gateway[g].admin = g ELSE l1Gateway[g].admin = l2Gateway[g].admin

(* What r has seen so far, or a handover has undone.                        *)
Admitted(r) ==
    /\ run[r].script \in OwnerScripts => Finished(run[r].admin)
    /\ run[r].script \in Upgrades => Finished(run[r].bridge)
    /\ run[r].script = "upgrade" =>
           /\ run[r].custom # NoRun => CustomLogged(run[r].custom)
           /\ run[r].at # "check" => l1Admin[run[r].admin] \in {run[r].l1Key, NEW_OWNER}
           /\ run[r].at \notin {"check", "checkL2"} =>
                  l2Admin[run[r].admin] \in {run[r].l2Key, NEW_OWNER}
           /\ run[r].at \in {"l1Custom", "l2Std", "l2Custom"} =>
                  l1Gateway[run[r].bridge].admin = run[r].admin
           /\ run[r].at \in {"l2Std", "l2Custom"} =>
                  run[r].custom # NoRun /\ l1Gateway[run[r].custom].admin = run[r].admin
    /\ (run[r].script = "transfer" /\ run[r].at = "transferL2") =>
           l1Admin[run[r].admin] = NEW_OWNER

Caused(r) ==
    (run[r].script = "upgrade" /\ run[r].state = "failed"
        /\ run[r].at \in {"l1Custom", "l2Std", "l2Custom"})
    => Stopped(r)

HandingOver(r, b) ==
    run[r].script = "transfer" /\ run[r].admin = b /\ run[r].at = "transferL2"
Parting(b) ==
    (run[b].script = "bridge" /\ run[b].l1Key = run[b].l2Key /\ l2Admin[b] # NoOne
        /\ l1Admin[b] # l2Admin[b])
    => \E r \in Runs : HandingOver(r, b)

Owned(r) == OwnedBy(r) /\ OneAdmin(r) /\ Admitted(r) /\ Caused(r) /\ Parting(r)
Ownership == \A r \in Runs : Owned(r)

(* A step of r that concerns no other run's owners and ProxyAdmins.         *)
SameOwners(q) ==
    /\ l1Admin'[q] = l1Admin[q] /\ l2Admin'[q] = l2Admin[q]
    /\ l1Gateway'[q].admin = l1Gateway[q].admin
    /\ l2Gateway'[q].admin = l2Gateway[q].admin
Aside(r) ==
    /\ OnlyRun(r)
    /\ \A q \in Runs : q # r \/ run[r].at = "end" \/ CustomLogged(r) => SameOwners(q)
    /\ \A b : HandingOver(r, b) => HandingOver(r, b)'

LEMMA OthersOwned ==
    ASSUME Ownership, NEW r \in Runs, Aside(r), NEW q \in Runs, q # r
    PROVE  Owned(q)'
  <1>1. Owned(q) /\ run'[q] = run[q] /\ SameOwners(q)
    BY DEF Ownership, Aside, OnlyRun
  <1>2. \A b : Finished(b) => b \in Runs /\ SameOwners(b) /\ Finished(b)'
    BY DEF Aside, OnlyRun, Finished
  <1>3. \A c : CustomLogged(c) => c \in Runs /\ SameOwners(c) /\ CustomLogged(c)'
    <2>1. \A c : CustomLogged(c) => CustomLogged(c)'
      BY DoneStays DEF Aside
    <2>. QED  BY <2>1 DEF Aside, CustomLogged
  <1>4. OwnedBy(q)' /\ OneAdmin(q)'
    BY <1>1 DEF Owned, OwnedBy, OneAdmin, SameOwners
  <1>5. Admitted(q)'
    <2>1. /\ run[q].script \in OwnerScripts => Finished(run[q].admin)'
          /\ run[q].script \in Upgrades => Finished(run[q].bridge)'
      BY <1>1, <1>2 DEF Owned, Admitted
    <2>2. CASE run[q].script = "upgrade"
      <3>1. /\ SameOwners(run[q].admin) /\ SameOwners(run[q].bridge)
            /\ run[q].custom # NoRun => CustomLogged(run[q].custom)' /\ SameOwners(run[q].custom)
        BY <1>1, <1>2, <1>3, <2>2 DEF Owned, Admitted, OwnerScripts, Upgrades
      <3>. QED  BY <1>1, <2>1, <2>2, <3>1 DEF Owned, Admitted, SameOwners
    <2>3. CASE run[q].script = "transfer"
      <3>1. SameOwners(run[q].admin)
        BY <1>1, <1>2, <2>3 DEF Owned, Admitted, OwnerScripts
      <3>. QED  BY <1>1, <2>1, <2>3, <3>1 DEF Owned, Admitted, SameOwners
    <2>. QED  BY <1>1, <2>1, <2>2, <2>3 DEF Admitted
  <1>6. Caused(q)'
    <2>. SUFFICES ASSUME run[q].script = "upgrade", run[q].state = "failed",
                         run[q].at \in {"l1Custom", "l2Std", "l2Custom"}
                  PROVE  Stopped(q)'
      BY <1>1 DEF Caused
    <2>1. SameOwners(run[q].admin) /\ (run[q].custom # NoRun => SameOwners(run[q].custom))
      BY <1>1, <1>2, <1>3 DEF Owned, Admitted, OwnerScripts
    <2>. QED  BY <1>1, <2>1 DEF Owned, Caused, Stopped, SameOwners
  <1>7. Parting(q)'
    <2>1. \A x \in Runs : HandingOver(x, q) => HandingOver(x, q)'
      BY DEF Aside, OnlyRun, HandingOver
    <2>. QED  BY <1>1, <2>1 DEF Owned, Parting, SameOwners
  <1>. QED  BY <1>4, <1>5, <1>6, <1>7 DEF Owned

LEMMA AsideStep ==
    ASSUME Ownership, NEW r \in Runs, Aside(r), Owned(r)'
    PROVE  Ownership'
  BY OthersOwned DEF Ownership

SameCall(r) ==
    /\ run'[r].script = run[r].script /\ run'[r].bridge = run[r].bridge
    /\ run'[r].admin = run[r].admin /\ run'[r].custom = run[r].custom
    /\ run'[r].l1Key = run[r].l1Key /\ run'[r].l2Key = run[r].l2Key
    /\ run'[r].beside = run[r].beside

LEMMA MovesOn ==
    ASSUME TypeOK, NEW r \in Runs, NEW p
    PROVE  /\ Goes(r, p) => /\ SameCall(r) /\ run'[r].at = p /\ run'[r].state = run[r].state
                            /\ \A q \in Runs : q # r => run'[q] = run[q]
           /\ Ends(r) => /\ SameCall(r) /\ run'[r].at = "end" /\ run'[r].state = "done"
                         /\ \A q \in Runs : q # r => run'[q] = run[q]
           /\ \A x : run' = [run EXCEPT ![r].state = x] =>
                     /\ SameCall(r) /\ run'[r].at = run[r].at /\ run'[r].state = x
                     /\ \A q \in Runs : q # r => run'[q] = run[q]
  <1>1. run \in [Runs -> Process] /\ run[r] \in Process
    BY DEF TypeOK
  <1>. QED  BY <1>1 DEF Goes, Ends, SameCall, Process

(* A step that touches no owner and no gateway's ProxyAdmin.                *)
LEMMA Untouched ==
    ASSUME Ownership, NEW r \in Runs, \A q \in Runs : q # r => run'[q] = run[q],
           SameCall(r), \A q \in Runs : SameOwners(q),
           \/ run'[r].at = run[r].at
           \/ /\ {run[r].at, run'[r].at} \cap {"deployL1", "deployL2"} = {}
              /\ run[r].at # "end" /\ run[r].script # "transfer"
           \/ run[r].script \in OwnerScripts /\ run[r].at \notin {"transferL2", "end"},
           CustomLogged(r) => CustomLogged(r)', CustomHalf(r) => CustomHalf(r)',
           Admitted(r)', Caused(r)'
    PROVE  Ownership'
  <1>1. /\ OwnedBy(r) /\ OneAdmin(r) /\ Parting(r) /\ SameOwners(r)
    BY DEF Ownership, Owned
  <1>2. OnlyRun(r)
    BY DEF OnlyRun, SameCall, OwnerScripts
  <1>3. \A b : HandingOver(r, b) => HandingOver(r, b)'
    BY DEF HandingOver, SameCall, OwnerScripts
  <1>4. Aside(r)
    BY <1>2, <1>3 DEF Aside
  <1>5. OwnedBy(r)' /\ OneAdmin(r)'
    <2>1. CASE run[r].script = "bridge"
      BY <1>1, <2>1 DEF OwnedBy, OneAdmin, SameCall, SameOwners, OwnerScripts
    <2>2. CASE run[r].script # "bridge"
      BY <1>1, <2>2 DEF OwnedBy, OneAdmin, SameCall, SameOwners
    <2>. QED  BY <2>1, <2>2
  <1>6. Parting(r)'
    <2>1. \A x \in Runs : HandingOver(x, r) => HandingOver(x, r)'
      BY <1>3 DEF HandingOver
    <2>. QED  BY <1>1, <2>1 DEF Parting, SameCall, SameOwners
  <1>. QED  BY <1>4, <1>5, <1>6, AsideStep DEF Owned

(* Deaths, and scripts that deploy and wire once the ProxyAdmins are there. *)
LEMMA WiresOwn ==
    ASSUME Wiring, Ownership, NEW r \in Runs, \A q \in Runs : SameOwners(q),
           CustomLogged(r) => CustomLogged(r)', CustomHalf(r) => CustomHalf(r)',
           \/ Dies(r)
           \/ /\ run[r].at # "end" /\ run[r].script \notin OwnerScripts
              /\ run' = [run EXCEPT ![r].state = "failed"]
           \/ /\ run[r].at \notin {"deployL1", "deployL2", "end"}
              /\ run[r].script \notin OwnerScripts
              /\ Ends(r) \/ \E p \in Steps \ {"deployL1", "deployL2"} : Goes(r, p)
    PROVE  Ownership'
  <1>1. TypeOK /\ Owned(r) /\ SameOwners(r)
    BY DEF Wiring, Ownership
  <1>2. (\A q \in Runs : q # r => run'[q] = run[q]) /\ SameCall(r)
    BY <1>1, MovesOn DEF Dies
  <1>3. CASE Dies(r)
    <2>1. run'[r].at = run[r].at /\ run'[r].state = "dead"
      BY <1>1, <1>3, MovesOn DEF Dies
    <2>2. Admitted(r)'
      <3>1. \A b : (Finished(b) => Finished(b)') /\ (CustomLogged(b) => CustomLogged(b)')
        BY <1>2, <2>1 DEF Finished, CustomLogged, SameCall
      <3>2. \A b : Finished(b) \/ CustomLogged(b) => SameOwners(b)
        BY DEF Finished, CustomLogged
      <3>3. /\ run[r].script \in OwnerScripts => Finished(run[r].admin)
            /\ run[r].script \in Upgrades => Finished(run[r].bridge)
            /\ run[r].script = "upgrade" /\ run[r].custom # NoRun => CustomLogged(run[r].custom)
        BY <1>1 DEF Owned, Admitted
      <3>. QED  BY <1>1, <1>2, <2>1, <3>1, <3>2, <3>3
             DEF Owned, Admitted, SameCall, SameOwners, OwnerScripts, Upgrades
    <2>3. Caused(r)'
      BY <2>1 DEF Caused
    <2>. QED  BY <1>2, <2>1, <2>2, <2>3, Untouched
  <1>4. CASE ~Dies(r)
    <2>1. run'[r].script \notin OwnerScripts /\ run[r].script # "transfer"
      BY <1>2, <1>4 DEF SameCall, OwnerScripts
    <2>2. Admitted(r)' /\ Caused(r)'
      BY <2>1 DEF Admitted, Caused, OwnerScripts, Upgrades
    <2>3. \/ run'[r].at = run[r].at
          \/ /\ {run[r].at, run'[r].at} \cap {"deployL1", "deployL2"} = {}
             /\ run[r].at # "end"
      <3>1. CASE run' = [run EXCEPT ![r].state = "failed"]
        BY <1>1, <3>1, MovesOn
      <3>2. CASE Ends(r) /\ run[r].at \notin {"deployL1", "deployL2", "end"}
        BY <1>1, <3>2, MovesOn
      <3>3. ASSUME NEW p \in Steps \ {"deployL1", "deployL2"}, Goes(r, p),
                   run[r].at \notin {"deployL1", "deployL2", "end"}
            PROVE  /\ {run[r].at, run'[r].at} \cap {"deployL1", "deployL2"} = {}
                   /\ run[r].at # "end"
        BY <1>1, <3>3, MovesOn
      <3>. QED  BY <1>4, <3>1, <3>2, <3>3
    <2>. QED  BY <1>2, <2>1, <2>2, <2>3, Untouched
  <1>. QED  BY <1>3, <1>4

LEMMA DeploysOwn ==
    ASSUME Wiring, Ownership, NEW r \in Runs,
           DeployL1(r) \/ DeployL2(r) \/ \E s \in {"weth", "custom"} : DeployGateways(r, s)
    PROVE  Ownership'
  <1>1. /\ TypeOK /\ Owned(r) /\ OwnedBy(r) /\ OneAdmin(r)
        /\ l1Gateway \in [Runs -> Gateway] /\ l2Gateway \in [Runs -> Gateway]
        /\ l1Admin \in [Runs -> Accounts \cup {NoOne}]
        /\ l2Admin \in [Runs -> Accounts \cup {NoOne}]
    BY DEF Wiring, Ownership, Owned, TypeOK
  <1>2. ASSUME NEW b PROVE NewGateway(r, b).admin = b
    BY DEF NewGateway, NoGateway
  <1>3. PICK p \in {"deployL2", "initBeacon", "initL1Gateway"} : Goes(r, p)
    BY DEF DeployL1, DeployL2, DeployGateways
  <1>4. /\ SameCall(r) /\ run'[r].at = p
        /\ \A q \in Runs : q # r => run'[q] = run[q]
    BY <1>1, <1>3, MovesOn
  <1>5. /\ run[r].script \in {"bridge", "weth", "custom"} /\ run[r].at # "end"
        /\ run[r].script # "transfer"
    BY DEF DeployL1, DeployL2, DeployGateways, At
  <1>6. Aside(r)
    <2>1. \A q \in Runs : q # r => SameOwners(q)
      BY <1>1 DEF DeployL1, DeployL2, DeployGateways, SameOwners, admins
    <2>2. ~CustomLogged(r) /\ ~CustomHalf(r)
      BY DEF DeployL1, DeployL2, DeployGateways, At, CustomLogged, CustomHalf
    <2>. QED  BY <1>4, <1>5, <2>1, <2>2 DEF Aside, OnlyRun, HandingOver
  <1>7. Admitted(r)' /\ Caused(r)'
    BY <1>4, <1>5 DEF Admitted, Caused, SameCall, OwnerScripts, Upgrades
  <1>8. CASE DeployL1(r)
    <2>1. /\ run[r].script = "bridge" /\ run[r].at = "deployL1" /\ run'[r].at = "deployL2"
          /\ l1Admin'[r] = run[r].l1Key /\ l2Admin'[r] = l2Admin[r]
          /\ l1Gateway'[r] = NewGateway(r, r)
      BY <1>1, <1>8, MovesOn DEF DeployL1, At
    <2>2. OwnedBy(r)' /\ OneAdmin(r)' /\ Parting(r)'
      BY <1>1, <1>2, <1>4, <2>1 DEF OwnedBy, OneAdmin, Parting, SameCall
    <2>. QED  BY <1>6, <1>7, <2>2, AsideStep DEF Owned
  <1>9. CASE DeployL2(r)
    <2>1. /\ run[r].script = "bridge" /\ run[r].at = "deployL2" /\ run'[r].at = "initBeacon"
          /\ l2Admin'[r] = run[r].l2Key /\ l1Admin'[r] = l1Admin[r]
          /\ l2Gateway'[r] = NewGateway(r, r) /\ l1Gateway'[r] = l1Gateway[r]
      BY <1>1, <1>9, MovesOn DEF DeployL2, At
    <2>2. l1Admin[r] = run[r].l1Key /\ l1Gateway[r].admin = r
      BY <1>1, <2>1 DEF OwnedBy, OneAdmin
    <2>3. OwnedBy(r)' /\ OneAdmin(r)' /\ Parting(r)'
      BY <1>2, <1>4, <2>1, <2>2 DEF OwnedBy, OneAdmin, Parting, SameCall
    <2>. QED  BY <1>6, <1>7, <2>3, AsideStep DEF Owned
  <1>10. CASE \E s \in {"weth", "custom"} : DeployGateways(r, s)
    <2>1. /\ run[r].script # "bridge"
          /\ l1Gateway'[r] = NewGateway(r, run[r].admin)
          /\ l2Gateway'[r] = NewGateway(r, run[r].admin)
      BY <1>1, <1>10 DEF DeployGateways, At
    <2>2. OwnedBy(r)' /\ OneAdmin(r)' /\ Parting(r)'
      BY <1>2, <1>4, <2>1 DEF OwnedBy, OneAdmin, Parting, SameCall
    <2>. QED  BY <1>6, <1>7, <2>2, AsideStep DEF Owned
  <1>. QED  BY <1>8, <1>9, <1>10

LEMMA GatewayInitKeepsAdmin ==
    ASSUME NEW g \in [Runs -> Gateway], NEW r \in Runs, NEW q \in Runs, NEW c, NEW b, NEW o
    PROVE  /\ GatewayInit(g, r, c, b, o)[q].admin = g[q].admin
           /\ GatewayInit(g, r, c, b, o)[q].logic = g[q].logic
  <1>1. g[r] \in Gateway
    OBVIOUS
  <1>2. GatewayInit(g, r, c, b, o) =
          [g EXCEPT ![r] = [g[r] EXCEPT !.counterpart = c, !.router = b, !.owner = o]]
    BY <1>1 DEF GatewayInit, Gateway
  <1>. QED  BY <1>1, <1>2 DEF Gateway

LEMMA UpgradeKeepsAdmin ==
    ASSUME NEW g \in [Runs -> Gateway], NEW r \in Runs, NEW q \in Runs, NEW c
    PROVE  Upgraded(g, r, c)[q].admin = g[q].admin
  BY DEF Gateway, Upgraded

LEMMA TokenKeepsAdmin ==
    ASSUME NEW g \in [Runs -> Gateway], NEW r, NEW q \in Runs, NEW t
    PROVE  /\ [g EXCEPT ![r].token = t][q].admin = g[q].admin
           /\ [g EXCEPT ![r].token = t][q].logic = g[q].logic
  <1>1. CASE r \in Runs
    BY <1>1 DEF Gateway
  <1>2. CASE r \notin Runs
    BY <1>2
  <1>. QED  BY <1>1, <1>2

LEMMA BridgeOwns ==
    ASSUME Wiring, Ownership, NEW r \in Runs, Bridge(r)
    PROVE  Ownership'
  <1>1. CASE DeployL1(r) \/ DeployL2(r)
    BY <1>1, DeploysOwn
  <1>2. CASE InitBeacon(r) \/ InitGateways(r) \/ InitRouters(r) \/ WriteDeployment(r)
    <2>1. l1Gateway \in [Runs -> Gateway] /\ l2Gateway \in [Runs -> Gateway]
      BY DEF Wiring, TypeOK
    <2>2. /\ UNCHANGED admins
          /\ l1Gateway' \in {l1Gateway, GatewayInit(l1Gateway, r, r, r, NoOne)}
          /\ l2Gateway' \in {l2Gateway, GatewayInit(l2Gateway, r, r, r, NoOne)}
      BY <1>2 DEF InitBeacon, InitGateways, InitRouters, WriteDeployment, gateways
    <2>3. \A q \in Runs : SameOwners(q)
      BY <2>1, <2>2, GatewayInitKeepsAdmin DEF SameOwners, admins
    <2>4. /\ run[r].at \notin {"deployL1", "deployL2", "end"} /\ run[r].script \notin OwnerScripts
          /\ Ends(r) \/ \E p \in Steps \ {"deployL1", "deployL2"} : Goes(r, p)
      BY <1>2 DEF InitBeacon, InitGateways, InitRouters, WriteDeployment, At, OwnerScripts, Steps
    <2>5. ~CustomLogged(r) /\ ~CustomHalf(r)
      BY <1>2 DEF InitBeacon, InitGateways, InitRouters, WriteDeployment, At, CustomLogged,
                  CustomHalf
    <2>. QED  BY <2>3, <2>4, <2>5, WiresOwn
  <1>. QED  BY <1>1, <1>2 DEF Bridge

LEMMA GatewayScriptsOwn ==
    ASSUME Wiring, Ownership, NEW r \in Runs, Weth(r) \/ Custom(r) \/ Register(r)
    PROVE  Ownership'
  <1>1. CASE \E s \in {"weth", "custom"} : DeployGateways(r, s)
    BY <1>1, DeploysOwn
  <1>2. CASE ~\E s \in {"weth", "custom"} : DeployGateways(r, s)
    <2>1. l1Gateway \in [Runs -> Gateway] /\ l2Gateway \in [Runs -> Gateway]
      BY DEF Wiring, TypeOK
    <2>2. /\ UNCHANGED admins
          /\ \/ l1Gateway' = l1Gateway
             \/ \E b, o : l1Gateway' = GatewayInit(l1Gateway, r, r, b, o)
             \/ \E c, t : l1Gateway' = [l1Gateway EXCEPT ![c].token = t]
          /\ l2Gateway' = l2Gateway \/ \E b : l2Gateway' = GatewayInit(l2Gateway, r, r, b, NoOne)
      BY <1>2 DEF Weth, Custom, Register, CheckRouterOwner, InitNewL1, InitNewL2, SetWethGateway,
                  RegisterToken, Throws, gateways
    <2>3. \A q \in Runs : SameOwners(q)
      <3>1. \A q \in Runs : l1Gateway'[q].admin = l1Gateway[q].admin
        <4>1. ASSUME NEW c, NEW t, l1Gateway' = [l1Gateway EXCEPT ![c].token = t], NEW q \in Runs
              PROVE  l1Gateway'[q].admin = l1Gateway[q].admin
          <5>1. [l1Gateway EXCEPT ![c].token = t][q].admin = l1Gateway[q].admin
            BY <2>1, TokenKeepsAdmin
          <5>. QED  BY <4>1, <5>1
        <4>2. ASSUME NEW b, NEW o, l1Gateway' = GatewayInit(l1Gateway, r, r, b, o), NEW q \in Runs
              PROVE  l1Gateway'[q].admin = l1Gateway[q].admin
          BY <2>1, <4>2, GatewayInitKeepsAdmin
        <4>. QED  BY <2>2, <4>1, <4>2, Zenon
      <3>2. \A q \in Runs : l2Gateway'[q].admin = l2Gateway[q].admin
        BY <2>1, <2>2, GatewayInitKeepsAdmin
      <3>. QED  BY <2>2, <3>1, <3>2 DEF SameOwners, admins
    <2>4. /\ run[r].at \notin {"deployL1", "deployL2", "end"} /\ run[r].script \notin OwnerScripts
          /\ \/ Ends(r) \/ \E p \in Steps \ {"deployL1", "deployL2"} : Goes(r, p)
             \/ run' = [run EXCEPT ![r].state = "failed"]
      BY <1>2 DEF Weth, Custom, Register, CheckRouterOwner, InitNewL1, InitNewL2, SetWethGateway,
                  RegisterToken, Throws, At, OwnerScripts, Steps
    <2>5. (CustomLogged(r) => CustomLogged(r)') /\ (CustomHalf(r) => CustomHalf(r)')
      <3>1. run \in [Runs -> Process] /\ run[r] \in Process
        BY DEF Wiring, TypeOK
      <3>2. CASE run[r].script = "custom"
        <4>1. /\ run'[r].script = "custom"
              /\ run[r].at = "initL1Gateway" => run'[r].at = "initL2Gateway"
              /\ run[r].at = "initL2Gateway" => run'[r].at = "end"
              /\ run[r].at # "end"
          BY <3>1, <3>2
             DEF Weth, Custom, Register, CheckRouterOwner, DeployGateways, InitNewL1, InitNewL2,
                 SetWethGateway, RegisterToken, Throws, At, Goes, Ends, Process
        <4>. QED  BY <3>2, <4>1 DEF CustomLogged, CustomHalf
      <3>. QED  BY <3>2 DEF CustomLogged, CustomHalf
    <2>. QED  BY <2>3, <2>4, <2>5, WiresOwn
  <1>. QED  BY <1>1, <1>2

(* Scripts that need the owners of the ProxyAdmins: what they have seen is   *)
(* undone by a handover only.                                               *)
LEMMA UpgradesOwn ==
    ASSUME Wiring, Ownership, NEW r \in Runs,
           \/ Upgrade(r) \/ UpgradeL1(r)
           \/ Transfer(r) /\ ~HandOverL1(r) /\ ~HandOverL2(r)
    PROVE  Ownership'
  <1>1. /\ TypeOK /\ Owned(r) /\ Admitted(r) /\ run[r] \in Process
        /\ l1Gateway \in [Runs -> Gateway] /\ l2Gateway \in [Runs -> Gateway]
    BY DEF Wiring, TypeOK, Ownership, Owned
  <1>2. /\ run[r].script \in OwnerScripts /\ run[r].at \notin {"transferL2", "end"}
        /\ run[r].script = "transfer" => run[r].at \in {"check", "checkL2"}
    BY DEF Upgrade, UpgradeL1, Transfer, CheckAdmin, UpgradeL1Proxy, UpgradeL2Proxy, At,
           OwnerScripts
  <1>3. (\A q \in Runs : q # r => run'[q] = run[q]) /\ SameCall(r)
    BY <1>1, MovesOn
       DEF Upgrade, UpgradeL1, Transfer, CheckAdmin, UpgradeL1Proxy, UpgradeL2Proxy, Throws
  <1>4. \A q \in Runs : SameOwners(q)
    <2>1. /\ UNCHANGED admins
          /\ l1Gateway' = l1Gateway \/ \E g \in Runs : l1Gateway' = Upgraded(l1Gateway, g, r)
          /\ l2Gateway' = l2Gateway \/ \E g \in Runs : l2Gateway' = Upgraded(l2Gateway, g, r)
      <3>1. run[r].bridge \in MaybeRun /\ run[r].custom \in MaybeRun
        BY <1>1 DEF Process
      <3>. QED  BY <3>1
             DEF Upgrade, UpgradeL1, Transfer, CheckAdmin, UpgradeL1Proxy, UpgradeL2Proxy,
                 Throws, MayUpgrade, MaybeRun, gateways
    <2>. QED  BY <1>1, <2>1, UpgradeKeepsAdmin DEF SameOwners, admins
  <1>11. ~CustomLogged(r) /\ ~CustomHalf(r)
    BY <1>2 DEF CustomLogged, CustomHalf, OwnerScripts
  <1>5. /\ Finished(run[r].admin) /\ Finished(run[r].admin)'
        /\ run[r].script \in Upgrades => Finished(run[r].bridge) /\ Finished(run[r].bridge)'
        /\ run[r].script = "upgrade" =>
               /\ Finished(run[r].bridge)
               /\ run[r].custom # NoRun =>
                      CustomLogged(run[r].custom) /\ CustomLogged(run[r].custom)'
    <2>1. OnlyRun(r)
      BY <1>11, <1>2, <1>3 DEF OnlyRun
    <2>2. /\ \A b : Finished(b) => Finished(b)'
          /\ \A c : CustomLogged(c) => CustomLogged(c)'
      BY <2>1, DoneStays
    <2>. QED  BY <1>1, <1>2, <1>3, <2>2 DEF Admitted, SameCall, Upgrades
  <1>6. /\ SameOwners(run[r].admin)
        /\ run[r].script = "upgrade" =>
               /\ SameOwners(run[r].bridge)
               /\ run[r].custom # NoRun => SameOwners(run[r].custom)
    BY <1>4, <1>5 DEF Finished, CustomLogged
  <1>7. ASSUME run[r].script = "upgrade"
        PROVE  \/ run'[r].at = "checkL2" /\ l1Admin[run[r].admin] = run[r].l1Key
               \/ /\ run[r].at = "checkL2" /\ run'[r].at = "l1Std"
                  /\ l2Admin[run[r].admin] = run[r].l2Key
               \/ /\ run[r].at = "l1Std" /\ run'[r].at = "l1Custom"
                  /\ l1Gateway[run[r].bridge].admin = run[r].admin
               \/ /\ run[r].at = "l1Custom" /\ run'[r].at = "l2Std" /\ run[r].custom # NoRun
                  /\ l1Gateway[run[r].custom].admin = run[r].admin
               \/ run[r].at = "l2Std" /\ run'[r].at = "l2Custom"
               \/ run[r].at = "l2Custom" /\ run'[r].at = "end"
               \/ run'[r].at = run[r].at
    BY <1>1, <1>7, MovesOn
       DEF Upgrade, UpgradeL1, Transfer, CheckAdmin, UpgradeL1Proxy, UpgradeL2Proxy, Throws, At,
           MayUpgrade
  <1>8. run[r].script = "transfer" => run'[r].at # "transferL2"
    BY <1>1, <1>2, MovesOn
       DEF Upgrade, UpgradeL1, Transfer, CheckAdmin, UpgradeL1Proxy, UpgradeL2Proxy, Throws, At
  <1>9. Admitted(r)'
    <2>1. CASE run[r].script = "upgrade"
      BY <1>1, <1>3, <1>5, <1>6, <1>7, <2>1 DEF Admitted, SameCall, SameOwners
    <2>2. CASE run[r].script # "upgrade"
      BY <1>3, <1>5, <1>8, <2>2 DEF Admitted, SameCall
    <2>. QED  BY <2>1, <2>2
  <1>10. Caused(r)'
    <2>. SUFFICES ASSUME run'[r].script = "upgrade", run'[r].state = "failed",
                         run'[r].at \in {"l1Custom", "l2Std", "l2Custom"}
                  PROVE  Stopped(r)
      <3>1. run[r].script = "upgrade" => (Stopped(r)' <=> Stopped(r))
        BY <1>3, <1>6 DEF Stopped, SameCall, SameOwners
      <3>. QED  BY <1>3, <3>1 DEF Caused, SameCall
    <2>1. run[r].script = "upgrade" /\ run'[r].at = run[r].at /\ Throws(r)
      BY <1>1, <1>3, MovesOn
         DEF SameCall, Upgrade, UpgradeL1, Transfer, CheckAdmin, UpgradeL1Proxy, UpgradeL2Proxy,
             Throws, At
    <2>2. /\ run[r].bridge \in Runs /\ run[r].bridge # NoRun
          /\ l2Gateway[run[r].bridge].admin = l1Gateway[run[r].bridge].admin
      <3>1. run[r].bridge \in Runs /\ run[run[r].bridge].at = "end"
        BY <1>5, <2>1 DEF Finished
      <3>. QED  BY <3>1, ScriptsAssumption DEF Ownership, Owned, OneAdmin
    <2>3. run[r].custom # NoRun =>
             l2Gateway[run[r].custom].admin = l1Gateway[run[r].custom].admin
      <3>1. run[r].custom # NoRun => run[r].custom \in Runs /\ run[run[r].custom].script = "custom"
        BY <1>5, <2>1 DEF CustomLogged
      <3>. QED  BY <3>1 DEF Ownership, Owned, OneAdmin
    <2>4. \/ /\ run[r].at = "l1Custom"
             /\ ~MayUpgrade(l1Gateway, run[r].custom, l1Admin, run[r].admin, run[r].l1Key)
          \/ /\ run[r].at = "l2Std"
             /\ ~MayUpgrade(l2Gateway, run[r].bridge, l2Admin, run[r].admin, run[r].l2Key)
          \/ /\ run[r].at = "l2Custom"
             /\ ~MayUpgrade(l2Gateway, run[r].custom, l2Admin, run[r].admin, run[r].l2Key)
      <3>1. run[r].state = "on" /\ run'[r].state = "failed"
        BY DEF Upgrade, UpgradeL1, Transfer, CheckAdmin, UpgradeL1Proxy, UpgradeL2Proxy, At
      <3>2. \A p : ~Goes(r, p) /\ ~Ends(r)
        BY <1>1, <3>1, MovesOn
      <3>. QED  BY <2>1, <3>2
             DEF Upgrade, UpgradeL1, Transfer, CheckAdmin, UpgradeL1Proxy, UpgradeL2Proxy, At
    <2>. QED  BY <1>1, <2>1, <2>2, <2>3, <2>4 DEF Admitted, MayUpgrade, Stopped
  <1>. QED  BY <1>2, <1>3, <1>4, <1>9, <1>10, <1>11, Untouched

(* A handover: L1 first, then L2; it ends with one owner of both.           *)
LEMMA HandsOverOwn ==
    ASSUME Wiring, Ownership, NEW r \in Runs, HandOverL1(r) \/ HandOverL2(r)
    PROVE  Ownership'
  <1>. DEFINE a == run[r].admin
  <1>1. /\ TypeOK /\ Owned(r) /\ Admitted(r)
        /\ l1Admin \in [Runs -> Accounts \cup {NoOne}]
        /\ l2Admin \in [Runs -> Accounts \cup {NoOne}]
    BY DEF Wiring, TypeOK, Ownership, Owned
  <1>2. /\ run[r].script = "transfer" /\ run[r].at \in {"transferL1", "transferL2"}
        /\ Finished(a) /\ a \in Runs /\ a # r /\ OwnedBy(a)
    BY <1>1 DEF HandOverL1, HandOverL2, At, Admitted, Finished, Ownership, Owned, OwnerScripts
  <1>3. (\A q \in Runs : q # r => run'[q] = run[q]) /\ SameCall(r) /\ OnlyRun(r)
    BY <1>1, <1>2, MovesOn DEF HandOverL1, HandOverL2, Throws, OnlyRun, CustomLogged, CustomHalf
  <1>4. /\ \A b : Finished(b) => b \in Runs /\ Finished(b)'
        /\ \A c : CustomLogged(c) => c \in Runs /\ CustomLogged(c)'
    BY <1>3, DoneStays DEF Finished, CustomLogged
  <1>5. CASE Throws(r)
    <2>1. run'[r].at = run[r].at /\ \A q \in Runs : SameOwners(q)
      BY <1>1, <1>5, MovesOn DEF Throws, SameOwners, gateways, admins
    <2>2. Admitted(r)' /\ Caused(r)'
      BY <1>1, <1>2, <1>3, <1>4, <2>1 DEF Admitted, Caused, SameCall, SameOwners, OwnerScripts,
                                            Upgrades
    <2>3. ~CustomLogged(r) /\ ~CustomHalf(r)
      BY <1>2 DEF CustomLogged, CustomHalf
    <2>. QED  BY <1>3, <2>1, <2>2, <2>3, Untouched
  <1>6. CASE ~Throws(r)
    <2>1. \/ /\ run[r].at = "transferL1" /\ run'[r].at = "transferL2"
             /\ l1Admin' = [l1Admin EXCEPT ![a] = NEW_OWNER] /\ l2Admin' = l2Admin
          \/ /\ run[r].at = "transferL2" /\ run'[r].at = "end"
             /\ l2Admin' = [l2Admin EXCEPT ![a] = NEW_OWNER] /\ l1Admin' = l1Admin
             /\ l1Admin[a] = NEW_OWNER
      BY <1>1, <1>2, <1>6, MovesOn DEF HandOverL1, HandOverL2, At, Admitted
    <2>2. UNCHANGED gateways
      BY <1>6 DEF HandOverL1, HandOverL2
    <2>3. \A q \in Runs : /\ l1Admin'[q] \in {l1Admin[q], NEW_OWNER}
                          /\ l2Admin'[q] \in {l2Admin[q], NEW_OWNER}
                          /\ q # a => l1Admin'[q] = l1Admin[q] /\ l2Admin'[q] = l2Admin[q]
      BY <1>1, <2>1
    <2>4. l1Admin'[a] = NEW_OWNER /\ (l2Admin'[a] = l2Admin[a] \/ l2Admin'[a] = NEW_OWNER)
      BY <1>1, <1>2, <2>1
    <2>5. ASSUME NEW q \in Runs PROVE OwnedBy(q)'
      <3>1. CASE q = a
        BY <1>2, <1>3, <2>4, <3>1 DEF OwnedBy, Finished
      <3>2. CASE q # a
        BY <1>2, <1>3, <2>3, <3>2 DEF OwnedBy, Ownership, Owned, SameCall
      <3>. QED  BY <3>1, <3>2
    <2>6. ASSUME NEW q \in Runs PROVE OneAdmin(q)'
      <3>1. OneAdmin(q)
        BY DEF Ownership, Owned
      <3>. QED  BY <1>2, <1>3, <2>2, <3>1 DEF OneAdmin, SameCall, gateways
    <2>7. ASSUME NEW q \in Runs PROVE Admitted(q)'
      <3>1. Admitted(q)
        BY DEF Ownership, Owned
      <3>2. CASE q = r
        BY <1>2, <1>3, <1>4, <2>4, <3>2 DEF Admitted, SameCall, OwnerScripts, Upgrades
      <3>3. CASE q # r /\ run[q].script = "upgrade"
        <4>1. /\ Finished(run[q].admin) /\ run'[q] = run[q]
              /\ run[q].admin \in Runs
          BY <1>3, <1>4, <3>1, <3>3 DEF Admitted, OwnerScripts, Upgrades
        <4>2. /\ l1Admin'[run[q].admin] \in {l1Admin[run[q].admin], NEW_OWNER}
              /\ l2Admin'[run[q].admin] \in {l2Admin[run[q].admin], NEW_OWNER}
          BY <2>3, <4>1
        <4>. QED  BY <1>4, <2>2, <3>1, <3>3, <4>1, <4>2 DEF Admitted, gateways
      <3>4. CASE q # r /\ run[q].script # "upgrade"
        <4>1. run'[q] = run[q] /\ (run[q].script = "transfer" => run[q].admin \in Runs)
          BY <1>3, <1>4, <3>1, <3>4 DEF Admitted, OwnerScripts
        <4>2. run[q].script = "transfer" =>
                 l1Admin'[run[q].admin] \in {l1Admin[run[q].admin], NEW_OWNER}
          BY <2>3, <4>1
        <4>. QED  BY <1>4, <3>1, <3>4, <4>1, <4>2 DEF Admitted
      <3>. QED  BY <3>2, <3>3, <3>4
    <2>8. ASSUME NEW q \in Runs PROVE Caused(q)'
      <3>1. CASE q = r
        BY <1>2, <1>3, <3>1 DEF Caused, SameCall
      <3>2. CASE q # r
        <4>1. run'[q] = run[q] /\ Caused(q) /\ Admitted(q)
          BY <1>3, <3>2 DEF Ownership, Owned
        <4>2. run[q].script = "upgrade" => run[q].admin \in Runs
          BY <1>4, <4>1 DEF Admitted, OwnerScripts
        <4>3. run[q].script = "upgrade" /\ Stopped(q) => Stopped(q)'
          BY <2>2, <2>3, <4>1, <4>2 DEF Stopped, gateways
        <4>. QED  BY <2>2, <4>1, <4>3 DEF Caused, gateways
      <3>. QED  BY <3>1, <3>2
    <2>9. ASSUME NEW q \in Runs PROVE Parting(q)'
      <3>1. CASE q = a
        <4>1. CASE run[r].at = "transferL1"
          <5>1. HandingOver(r, q)'
            BY <1>2, <1>3, <2>1, <3>1, <4>1 DEF HandingOver, SameCall
          <5>. QED  BY <3>1, <5>1 DEF Parting
        <4>2. CASE run[r].at = "transferL2"
          <5>1. l1Admin'[a] = l2Admin'[a]
            BY <1>1, <1>2, <2>1, <4>2
          <5>. QED  BY <3>1, <5>1 DEF Parting
        <4>. QED  BY <1>2, <4>1, <4>2
      <3>2. CASE q # a
        <4>1. \A x \in Runs : HandingOver(x, q) => HandingOver(x, q)'
          BY <1>3, <3>2 DEF HandingOver
        <4>2. Parting(q) /\ run'[q].script = run[q].script /\ run'[q].l1Key = run[q].l1Key
              /\ run'[q].l2Key = run[q].l2Key
          BY <1>3 DEF Ownership, Owned, SameCall
        <4>. QED  BY <2>3, <3>2, <4>1, <4>2 DEF Parting
      <3>. QED  BY <3>1, <3>2
    <2>. QED  BY <2>5, <2>6, <2>7, <2>8, <2>9 DEF Ownership, Owned
  <1>. QED  BY <1>5, <1>6

LEMMA StartOwns ==
    ASSUME Wiring, Ownership, NEW r \in Runs, NEW s \in Scripts, NEW k \in Keys,
           NEW t \in L2Tokens \cup {NoToken}, Start(r, s, k[1], k[2], t)
    PROVE  Ownership'
  <1>1. run[r].script = "bridge" /\ run[r].at = "deployL1"
    BY DEF Wiring, RunOK, Told, Start, Idle
  <1>2. (\A q \in Runs : q # r => run'[q] = run[q]) /\ \A q \in Runs : SameOwners(q)
    BY DEF Start, Wiring, TypeOK, SameOwners, gateways, admins
  <1>3. OnlyRun(r) /\ Aside(r)
    BY <1>1, <1>2 DEF OnlyRun, Aside, HandingOver, CustomLogged, CustomHalf
  <1>4. /\ run'[r].script = s /\ run'[r].at = FirstStep(s) /\ run'[r].state = "on"
        /\ s \in OwnerScripts => run'[r].admin = file /\ run'[r].bridge = table.bridge
        /\ run'[r].custom = table.custom
    BY DEF Start, Wiring, TypeOK, OwnerScripts
  <1>5. /\ s \in OwnerScripts => Finished(file)
        /\ s \in Upgrades => Finished(table.bridge)
        /\ table.custom # NoRun => CustomLogged(table.custom)
    BY DEF Start, Wiring, NamesDone, OwnerScripts, Upgrades
  <1>6. /\ \A b : Finished(b) => Finished(b)'
        /\ \A c : CustomLogged(c) => CustomLogged(c)'
    BY <1>3, DoneStays
  <1>7. Admitted(r)' /\ Caused(r)'
    BY <1>4, <1>5, <1>6 DEF Admitted, Caused, FirstStep, OwnerScripts, Upgrades
  <1>8. OwnedBy(r)' /\ OneAdmin(r)' /\ Parting(r)'
    <2>1. l2Admin'[r] = NoOne /\ l1Gateway'[r].admin = l2Gateway'[r].admin
      BY <1>1, <1>2 DEF Ownership, Owned, OwnedBy, OneAdmin, SameOwners
    <2>. QED  BY <1>4, <2>1 DEF OwnedBy, OneAdmin, Parting, FirstStep
  <1>. QED  BY <1>3, <1>7, <1>8, AsideStep DEF Owned

(* Where no process moves and no ProxyAdmin changes hands.                  *)
LEMMA NoOwnerMoves ==
    ASSUME Ownership, UNCHANGED run, \A q \in Runs : SameOwners(q)
    PROVE  Ownership'
  <1>1. /\ \A b : Finished(b) => b \in Runs /\ Finished(b)'
        /\ \A c : CustomLogged(c) => c \in Runs /\ CustomLogged(c)'
    BY DEF Finished, CustomLogged
  <1>2. ASSUME NEW q \in Runs PROVE Owned(q)'
    <2>1. Owned(q) /\ SameOwners(q)
      BY DEF Ownership
    <2>2. OwnedBy(q)' /\ OneAdmin(q)' /\ Parting(q)'
      BY <2>1 DEF Owned, OwnedBy, OneAdmin, Parting, HandingOver, SameOwners
    <2>3. run[q].script \in OwnerScripts =>
             Finished(run[q].admin) /\ SameOwners(run[q].admin)
      BY <1>1, <2>1 DEF Owned, Admitted
    <2>4. /\ run[q].script \in Upgrades => Finished(run[q].bridge) /\ SameOwners(run[q].bridge)
          /\ run[q].script = "upgrade" /\ run[q].custom # NoRun =>
                 CustomLogged(run[q].custom) /\ SameOwners(run[q].custom)
      BY <1>1, <2>1 DEF Owned, Admitted
    <2>5. Admitted(q)'
      BY <1>1, <2>1, <2>3, <2>4 DEF Owned, Admitted, SameOwners, OwnerScripts, Upgrades
    <2>6. Caused(q)'
      BY <2>1, <2>3, <2>4 DEF Owned, Caused, Stopped, SameOwners, OwnerScripts, Upgrades
    <2>. QED  BY <2>2, <2>5, <2>6 DEF Owned
  <1>. QED  BY <1>2 DEF Ownership

LEMMA RecordsAndTicketsOwn ==
    ASSUME Wiring, Ownership,
           \/ PublishBridge \/ \E r \in Runs : PublishCustom(r)
           \/ \E t \in tickets : Redeem(t) \/ Expire(t)
           \/ UNCHANGED vars
    PROVE  Ownership'
  <1>1. /\ UNCHANGED <<run, l1Gateway, admins>>
        /\ \/ l2Gateway' = l2Gateway
           \/ \E t \in tickets : l2Gateway' = [l2Gateway EXCEPT ![t.to].token = t.token]
    BY DEF PublishBridge, PublishCustom, Redeem, Expire, vars, gateways, admins
  <1>2. \A q \in Runs : l2Gateway'[q].admin = l2Gateway[q].admin
    <2>1. l2Gateway \in [Runs -> Gateway]
      BY DEF Wiring, TypeOK
    <2>2. ASSUME NEW t \in tickets, l2Gateway' = [l2Gateway EXCEPT ![t.to].token = t.token],
                 NEW q \in Runs
          PROVE  l2Gateway'[q].admin = l2Gateway[q].admin
      <3>1. [l2Gateway EXCEPT ![t.to].token = t.token][q].admin = l2Gateway[q].admin
        BY <2>1, TokenKeepsAdmin
      <3>. QED  BY <2>2, <3>1
    <2>. QED  BY <1>1, <2>2
  <1>3. \A q \in Runs : SameOwners(q)
    BY <1>1, <1>2 DEF SameOwners, admins
  <1>. QED  BY <1>1, <1>3, NoOwnerMoves

LEMMA InitOwnership == Init => Ownership
  <1>. SUFFICES ASSUME Init, NEW r \in Runs PROVE Owned(r)
    BY DEF Ownership
  <1>. QED  BY DEF Init, Idle, NoGateway, Owned, OwnedBy, OneAdmin, Admitted, Caused, Parting,
                   OwnerScripts, Upgrades

LEMMA NextOwnership == Wiring /\ Ownership /\ [Next]_vars => Ownership'
  <1>. SUFFICES ASSUME Wiring, Ownership, [Next]_vars PROVE Ownership'
    OBVIOUS
  <1>1. ASSUME NEW r \in Runs, Step(r) PROVE Ownership'
    BY <1>1, BridgeOwns, GatewayScriptsOwn, UpgradesOwn, HandsOverOwn DEF Step, Transfer
  <1>2. ASSUME NEW r \in Runs, Dies(r) PROVE Ownership'
    <2>1. \A q \in Runs : SameOwners(q)
      BY <1>2 DEF Dies, SameOwners, gateways, admins
    <2>2. (CustomLogged(r) => CustomLogged(r)') /\ (CustomHalf(r) => CustomHalf(r)')
      <3>1. SameCall(r) /\ run'[r].at = run[r].at
        BY <1>2, MovesOn DEF Wiring, Dies
      <3>. QED  BY <3>1 DEF SameCall, CustomLogged, CustomHalf
    <2>. QED  BY <1>2, <2>1, <2>2, WiresOwn
  <1>3. ASSUME NEW r \in Runs, NEW s \in Scripts, NEW k \in Keys, NEW t \in L2Tokens \cup {NoToken},
               Start(r, s, k[1], k[2], t)
        PROVE  Ownership'
    BY <1>3, StartOwns
  <1>4. CASE \/ PublishBridge \/ \E r \in Runs : PublishCustom(r)
             \/ \E t \in tickets : Redeem(t) \/ Expire(t)
             \/ UNCHANGED vars
    BY <1>4, RecordsAndTicketsOwn
  <1>. QED  BY <1>1, <1>2, <1>3, <1>4 DEF Next

-----------------------------------------------------------------------------
(* Handovers: one that has changed the owner on L1 still is the owner on L2,  *)
(* for of two that have, one had nothing to change.                          *)
Handing(r) ==
    run[r].script = "transfer" =>
        /\ run[r].l1Key = run[r].l2Key
        /\ run[r].at = "transferL1" /\ run[r].state = "on" =>
               \/ l2Admin[run[r].admin] = run[r].l2Key
               \/ run[r].l2Key # NEW_OWNER /\ l1Admin[run[r].admin] = NEW_OWNER
        /\ run[r].at = "transferL2" => run[r].state \in {"on", "dead"}
        /\ run[r].at = "transferL2" /\ run[r].state = "on" =>
               l2Admin[run[r].admin] = run[r].l2Key

MidHandover(r) == run[r].script = "transfer" /\ run[r].at = "transferL2"
OneHandsOver(r, q) ==
    (r # q /\ MidHandover(r) /\ MidHandover(q) /\ run[r].admin = run[q].admin) =>
        run[r].l1Key = NEW_OWNER \/ run[q].l1Key = NEW_OWNER

Handovers == \A r \in Runs : Handing(r) /\ \A q \in Runs : OneHandsOver(r, q)

(* A step of r that hands nothing over.                                      *)
LEMMA HandoversStay ==
    ASSUME Ownership, Handovers, NEW r \in Runs, \A q \in Runs : q # r => run'[q] = run[q],
           \A b : Finished(b) => l1Admin'[b] = l1Admin[b] /\ l2Admin'[b] = l2Admin[b],
           Handing(r)',
           MidHandover(r)' => /\ MidHandover(r) /\ run'[r].admin = run[r].admin
                              /\ run'[r].l1Key = run[r].l1Key
    PROVE  Handovers'
  <1>1. ASSUME NEW q \in Runs PROVE Handing(q)'
    <2>1. CASE q # r
      <3>1. run'[q] = run[q] /\ Handing(q)
        BY <2>1 DEF Handovers
      <3>2. run[q].script = "transfer" => /\ l1Admin'[run[q].admin] = l1Admin[run[q].admin]
                                          /\ l2Admin'[run[q].admin] = l2Admin[run[q].admin]
        BY DEF Ownership, Owned, Admitted, OwnerScripts
      <3>. QED  BY <3>1, <3>2 DEF Handing
    <2>. QED  BY <2>1
  <1>2. ASSUME NEW p \in Runs, NEW q \in Runs PROVE OneHandsOver(p, q)'
    <2>1. OneHandsOver(p, q)
      BY DEF Handovers
    <2>2. \A x \in {p, q} : MidHandover(x)' =>
             MidHandover(x) /\ run'[x].admin = run[x].admin /\ run'[x].l1Key = run[x].l1Key
      BY DEF MidHandover
    <2>. QED  BY <2>1, <2>2 DEF OneHandsOver
  <1>. QED  BY <1>1, <1>2 DEF Handovers

LEMMA OtherScriptsHandNothingOver ==
    ASSUME Wiring, Ownership, Handovers, NEW r \in Runs,
           Bridge(r) \/ Weth(r) \/ Custom(r) \/ Register(r) \/ Upgrade(r) \/ UpgradeL1(r)
    PROVE  Handovers'
  <1>1. /\ TypeOK /\ l1Admin \in [Runs -> Accounts \cup {NoOne}]
        /\ l2Admin \in [Runs -> Accounts \cup {NoOne}]
    BY DEF Wiring, TypeOK
  <1>2. SameCall(r) /\ (\A q \in Runs : q # r => run'[q] = run[q])
    BY <1>1, MovesOn
       DEF Bridge, DeployL1, DeployL2, InitBeacon, InitGateways, InitRouters, WriteDeployment,
           Weth, Custom, Register, CheckRouterOwner, DeployGateways, InitNewL1, InitNewL2,
           SetWethGateway, RegisterToken, Upgrade, UpgradeL1, CheckAdmin, UpgradeL1Proxy,
           UpgradeL2Proxy, Throws
  <1>3. run[r].script # "transfer"
    BY DEF Bridge, DeployL1, DeployL2, InitBeacon, InitGateways, InitRouters, WriteDeployment,
           Weth, Custom, Register, CheckRouterOwner, DeployGateways, InitNewL1, InitNewL2,
           SetWethGateway, RegisterToken, Upgrade, UpgradeL1, CheckAdmin, UpgradeL1Proxy,
           UpgradeL2Proxy, At
  <1>4. \/ UNCHANGED admins
        \/ run[r].at \in {"deployL1", "deployL2"}
           /\ \A q \in Runs : q # r => l1Admin'[q] = l1Admin[q] /\ l2Admin'[q] = l2Admin[q]
    BY <1>1
       DEF Bridge, DeployL1, DeployL2, InitBeacon, InitGateways, InitRouters, WriteDeployment,
           Weth, Custom, Register, CheckRouterOwner, DeployGateways, InitNewL1, InitNewL2,
           SetWethGateway, RegisterToken, Upgrade, UpgradeL1, CheckAdmin, UpgradeL1Proxy,
           UpgradeL2Proxy, Throws, At, admins
  <1>5. \A b : Finished(b) => l1Admin'[b] = l1Admin[b] /\ l2Admin'[b] = l2Admin[b]
    BY <1>4 DEF Finished, admins
  <1>6. Handing(r)' /\ ~MidHandover(r)'
    BY <1>2, <1>3 DEF Handing, MidHandover, SameCall
  <1>. QED  BY <1>2, <1>5, <1>6, HandoversStay

LEMMA StartHandsNothingOver ==
    ASSUME Wiring, Ownership, Handovers, NEW r \in Runs, NEW s \in Scripts, NEW k \in Keys,
           NEW t \in L2Tokens \cup {NoToken}, Start(r, s, k[1], k[2], t)
    PROVE  Handovers'
  <1>1. \A q \in Runs : q # r => run'[q] = run[q]
    BY DEF Start, Wiring, TypeOK
  <1>2. /\ run'[r].script = s /\ run'[r].at = FirstStep(s)
        /\ run'[r].l1Key = k[1] /\ run'[r].l2Key = k[2] /\ (s = "transfer" => k[1] = k[2])
    BY DEF Start, Wiring, TypeOK
  <1>3. Handing(r)' /\ ~MidHandover(r)'
    BY <1>2 DEF Handing, MidHandover, FirstStep
  <1>4. \A b : Finished(b) => l1Admin'[b] = l1Admin[b] /\ l2Admin'[b] = l2Admin[b]
    BY DEF Start, admins
  <1>. QED  BY <1>1, <1>3, <1>4, HandoversStay

LEMMA TransferHandsOver ==
    ASSUME Wiring, Ownership, Handovers, NEW r \in Runs, Transfer(r)
    PROVE  Handovers'
  <1>. DEFINE a == run[r].admin
  <1>1. /\ TypeOK /\ l1Admin \in [Runs -> Accounts \cup {NoOne}]
        /\ l2Admin \in [Runs -> Accounts \cup {NoOne}]
        /\ Handing(r) /\ Admitted(r)
    BY DEF Wiring, TypeOK, Handovers, Ownership, Owned
  <1>2. SameCall(r) /\ (\A q \in Runs : q # r => run'[q] = run[q])
    BY <1>1, MovesOn DEF Transfer, CheckAdmin, HandOverL1, HandOverL2, Throws
  <1>3. /\ run[r].script = "transfer" /\ run[r].state = "on" /\ Finished(a) /\ a \in Runs
        /\ run[r].l1Key = run[r].l2Key
    BY <1>1 DEF Transfer, CheckAdmin, HandOverL1, HandOverL2, At, Admitted, Finished, Handing,
                OwnerScripts
  <1>4. CASE UNCHANGED admins /\ (Throws(r) \/ ~(HandOverL1(r) \/ HandOverL2(r)))
    <2>1. \A b : Finished(b) => l1Admin'[b] = l1Admin[b] /\ l2Admin'[b] = l2Admin[b]
      BY <1>4 DEF admins
    <2>2. /\ ~MidHandover(r)'
          /\ \/ run'[r].at \in {"check", "checkL2"} \/ run'[r].state = "failed"
             \/ run[r].l2Key = l2Admin[a] /\ run'[r].at = "transferL1"
      <3>1. CASE CheckAdmin(r, "transfer", "check", l1Admin, run[r].l1Key, "checkL2")
        BY <1>1, <3>1, MovesOn DEF CheckAdmin, At, Throws, MidHandover
      <3>2. CASE CheckAdmin(r, "transfer", "checkL2", l2Admin, run[r].l2Key, "transferL1")
        BY <1>1, <3>2, MovesOn DEF CheckAdmin, At, Throws, MidHandover
      <3>3. CASE HandOverL1(r)
        <4>1. Throws(r)
          BY <1>4, <3>3
        <4>2. run' = [run EXCEPT ![r].state = "failed"]
          BY <4>1 DEF Throws
        <4>3. run'[r].state = "failed" /\ run'[r].at = run[r].at
          BY <1>1, <4>2, MovesOn
        <4>4. run[r].at = "transferL1"
          BY <3>3 DEF HandOverL1, At
        <4>. QED  BY <4>3, <4>4 DEF MidHandover
      <3>4. CASE HandOverL2(r)
        <4>1. l2Admin[a] = run[r].l2Key
          BY <1>1, <1>3, <3>4 DEF HandOverL2, At, Handing
        <4>2. run'[r].state = "failed" /\ run[r].state = "on"
          BY <1>1, <1>3, <1>4, <3>4, MovesOn DEF Throws
        <4>3. ~Ends(r)
          BY <1>1, <4>2, MovesOn
        <4>. QED  BY <3>4, <4>1, <4>3 DEF HandOverL2
      <3>. QED  BY <3>1, <3>2, <3>3, <3>4 DEF Transfer
    <2>3. Handing(r)'
      BY <1>2, <1>3, <1>4, <2>2 DEF Handing, MidHandover, SameCall, admins
    <2>. QED  BY <1>2, <2>1, <2>2, <2>3, HandoversStay
  <1>5. CASE HandOverL1(r) /\ ~Throws(r)
    <2>1. /\ run[r].at = "transferL1" /\ run'[r].at = "transferL2" /\ run'[r].state = "on"
          /\ l1Admin[a] = run[r].l1Key /\ l2Admin' = l2Admin
          /\ l1Admin' = [l1Admin EXCEPT ![a] = NEW_OWNER]
      BY <1>1, <1>5, MovesOn DEF HandOverL1, At
    <2>2. \A q \in Runs : l1Admin'[q] \in {l1Admin[q], NEW_OWNER}
      BY <1>1, <2>1
    <2>3. ASSUME NEW q \in Runs PROVE Handing(q)'
      <3>1. CASE q = r
        <4>1. l2Admin[a] = run[r].l2Key
          BY <1>1, <1>3, <2>1 DEF Handing
        <4>. QED  BY <1>2, <1>3, <2>1, <3>1, <4>1 DEF Handing, SameCall
      <3>2. CASE q # r
        <4>1. run'[q] = run[q] /\ Handing(q)
          BY <1>2, <3>2 DEF Handovers
        <4>2. run[q].script = "transfer" =>
                 l1Admin'[run[q].admin] \in {l1Admin[run[q].admin], NEW_OWNER}
          BY <2>2 DEF Ownership, Owned, Admitted, OwnerScripts, Finished
        <4>. QED  BY <2>1, <4>1, <4>2 DEF Handing
      <3>. QED  BY <3>1, <3>2
    <2>4. ASSUME NEW p \in Runs, NEW q \in Runs PROVE OneHandsOver(p, q)'
      <3>1. \A x \in Runs : x # r /\ MidHandover(x) /\ run[x].admin = a =>
               run[r].l1Key = NEW_OWNER
        BY <2>1 DEF MidHandover, Ownership, Owned, Admitted
      <3>2. OneHandsOver(p, q)
        BY DEF Handovers
      <3>3. CASE p # r /\ q # r
        BY <1>2, <3>2, <3>3 DEF OneHandsOver, MidHandover
      <3>4. CASE p = r
        BY <1>2, <3>1, <3>4 DEF OneHandsOver, MidHandover, SameCall
      <3>5. CASE q = r
        BY <1>2, <3>1, <3>5 DEF OneHandsOver, MidHandover, SameCall
      <3>. QED  BY <3>3, <3>4, <3>5
    <2>. QED  BY <2>3, <2>4 DEF Handovers
  <1>6. CASE HandOverL2(r) /\ ~Throws(r)
    <2>1. /\ run[r].at = "transferL2" /\ run'[r].at = "end"
          /\ l2Admin[a] = run[r].l2Key /\ l1Admin' = l1Admin /\ l1Admin[a] = NEW_OWNER
          /\ l2Admin' = [l2Admin EXCEPT ![a] = NEW_OWNER]
      BY <1>1, <1>3, <1>6, MovesOn DEF HandOverL2, At, Admitted
    <2>2. \A q \in Runs : /\ q # a => l2Admin'[q] = l2Admin[q]
                          /\ q = a => l2Admin'[q] = NEW_OWNER
      BY <1>1, <2>1
    <2>3. ASSUME NEW q \in Runs PROVE Handing(q)'
      <3>1. CASE q = r
        BY <1>2, <1>3, <2>1, <3>1 DEF Handing, SameCall
      <3>2. CASE q # r /\ run[q].script = "transfer"
        <4>1. run'[q] = run[q] /\ Handing(q) /\ OneHandsOver(r, q) /\ run[q].admin \in Runs
          BY <1>2, <3>2 DEF Handovers, Ownership, Owned, Admitted, OwnerScripts, Finished
        <4>2. CASE run[q].admin # a
          BY <2>1, <2>2, <4>1, <4>2 DEF Handing
        <4>3. CASE run[q].admin = a
          <5>1. run[q].at = "transferL2" /\ run[q].state = "on" => run[q].l2Key = NEW_OWNER
            BY <1>3, <2>1, <3>2, <4>1, <4>3 DEF OneHandsOver, MidHandover, Handing
          <5>2. l2Admin'[run[q].admin] = NEW_OWNER /\ l1Admin'[run[q].admin] = NEW_OWNER
            BY <2>1, <2>2, <4>1, <4>3
          <5>. QED  BY <4>1, <5>1, <5>2 DEF Handing
        <4>. QED  BY <4>2, <4>3
      <3>3. CASE q # r /\ run[q].script # "transfer"
        BY <1>2, <3>3 DEF Handing
      <3>. QED  BY <3>1, <3>2, <3>3
    <2>4. ASSUME NEW p \in Runs, NEW q \in Runs PROVE OneHandsOver(p, q)'
      <3>1. ~MidHandover(r)' /\ OneHandsOver(p, q)
        BY <2>1 DEF MidHandover, Handovers
      <3>. QED  BY <1>2, <3>1 DEF OneHandsOver, MidHandover
    <2>. QED  BY <2>3, <2>4 DEF Handovers
  <1>7. \/ UNCHANGED admins /\ (Throws(r) \/ ~(HandOverL1(r) \/ HandOverL2(r)))
        \/ HandOverL1(r) /\ ~Throws(r)
        \/ HandOverL2(r) /\ ~Throws(r)
    <2>1. Throws(r) => UNCHANGED admins
      BY DEF Throws
    <2>2. ASSUME NEW p, NEW o, NEW k, NEW n, CheckAdmin(r, "transfer", p, o, k, n)
          PROVE  UNCHANGED admins /\ run[r].at = p
      BY <2>1, <2>2 DEF CheckAdmin, At
    <2>3. HandOverL1(r) => run[r].at = "transferL1"
      BY DEF HandOverL1, At
    <2>4. HandOverL2(r) => run[r].at = "transferL2"
      BY DEF HandOverL2, At
    <2>5. UNCHANGED admins \/ HandOverL1(r) \/ HandOverL2(r)
      BY <2>2 DEF Transfer
    <2>6. CASE Throws(r)
      BY <2>1, <2>6
    <2>7. CASE ~Throws(r)
      BY <2>5, <2>7
    <2>. QED  BY <2>6, <2>7
  <1>. QED  BY <1>4, <1>5, <1>6, <1>7

LEMMA NextHandovers == Wiring /\ Ownership /\ Handovers /\ [Next]_vars => Handovers'
  <1>. SUFFICES ASSUME Wiring, Ownership, Handovers, [Next]_vars PROVE Handovers'
    OBVIOUS
  <1>1. ASSUME NEW r \in Runs, Step(r) PROVE Handovers'
    BY <1>1, OtherScriptsHandNothingOver, TransferHandsOver DEF Step
  <1>2. ASSUME NEW r \in Runs, Dies(r) PROVE Handovers'
    <2>1. /\ SameCall(r) /\ run'[r].at = run[r].at /\ run'[r].state = "dead"
          /\ \A q \in Runs : q # r => run'[q] = run[q]
      BY <1>2, MovesOn DEF Dies, Wiring
    <2>2. UNCHANGED admins /\ Handing(r)
      BY <1>2 DEF Dies, Handovers
    <2>3. Handing(r)' /\ (MidHandover(r)' => MidHandover(r))
      BY <2>1, <2>2 DEF Handing, MidHandover, SameCall, admins
    <2>. QED  BY <2>1, <2>2, <2>3, HandoversStay DEF SameCall, admins
  <1>3. ASSUME NEW r \in Runs, NEW s \in Scripts, NEW k \in Keys, NEW t \in L2Tokens \cup {NoToken},
               Start(r, s, k[1], k[2], t)
        PROVE  Handovers'
    BY <1>3, StartHandsNothingOver
  <1>4. CASE \/ PublishBridge \/ \E r \in Runs : PublishCustom(r)
             \/ \E t \in tickets : Redeem(t) \/ Expire(t)
             \/ UNCHANGED vars
    <2>1. UNCHANGED <<run, admins>>
      BY <1>4 DEF PublishBridge, PublishCustom, Redeem, Expire, vars
    <2>. QED  BY <2>1 DEF Handovers, Handing, OneHandsOver, MidHandover, admins
  <1>. QED  BY <1>1, <1>2, <1>3, <1>4 DEF Next

-----------------------------------------------------------------------------
(* Logic: which upgrades have done gateway g on L1 and on L2.               *)
UpgradedL1(r, g) ==
    /\ run[r].script = "upgrade"
    /\ \/ g = run[r].bridge /\ run[r].at \in {"l1Custom", "l2Std", "l2Custom", "end"}
       \/ g = run[r].custom /\ run[r].at \in {"l2Std", "l2Custom", "end"}
UpgradedL2(r, g) ==
    /\ run[r].script = "upgrade"
    /\ \/ g = run[r].bridge /\ run[r].at \in {"l2Custom", "end"}
       \/ g = run[r].custom /\ run[r].at = "end"

(* The logic of g is the one it was deployed with or that of an upgrade; who *)
(* is between its layers while L1 has another's logic ran beside that other. *)
LayersOf(g) ==
    LET up == l1Gateway[g].logic
        down == l2Gateway[g].logic IN
    /\ up \notin {NoRun, g} => run[up].script = "upgradeL1" \/ UpgradedL1(up, g)
    /\ down \notin {NoRun, g} => UpgradedL2(down, g)
    /\ up = g => down \in {NoRun, g}
    /\ down # NoRun => up # NoRun
    /\ run[g].script = "bridge" /\ run[g].at = "deployL2" => up = g
    /\ \A r \in Runs : UpgradedL1(r, g) => up \notin {NoRun, g}
    /\ \A r \in UnderWay : UpgradedL1(r, g) /\ ~UpgradedL2(r, g) /\ up # r => Overlapped(up, r)
    /\ up # NoRun /\ UpgradedL2(up, g) => down # NoRun /\ (down = up \/ Overlapped(up, down))

AllOverlap == \A p \in UnderWay : \A q \in UnderWay : p # q => Overlapped(p, q)
Layered == AllOverlap /\ \A g \in Runs : LayersOf(g)

(* An upgrade's gateways are two, deployed before.                          *)
LEMMA TargetsStand ==
    ASSUME Ownership, NEW r \in Runs, run[r].script \in Upgrades
    PROVE  /\ Finished(run[r].bridge) /\ run[r].bridge \in Runs /\ run[r].bridge # r
           /\ run[r].script = "upgrade" /\ run[r].custom # NoRun =>
                  /\ CustomLogged(run[r].custom) /\ run[r].custom \in Runs
                  /\ run[r].custom # r /\ run[r].custom # run[r].bridge
  BY DEF Ownership, Owned, Admitted, Finished, CustomLogged, Upgrades

(* What a step of r must leave for gateway g to stay as it is.              *)
Passes(r) ==
    /\ \A q \in Runs : q # r => run'[q] = run[q]
    /\ \A q \in Runs : q \in run[r].beside => q \in run'[r].beside
    /\ run[r].script = "upgradeL1" => run'[r].script = "upgradeL1"
    /\ (r \in UnderWay)' => r \in UnderWay \/ \A g \in Runs : ~UpgradedL1(r, g)'
SameMarks(r, g) ==
    /\ UpgradedL1(r, g)' <=> UpgradedL1(r, g)
    /\ UpgradedL2(r, g)' <=> UpgradedL2(r, g)
SameLogic(g) ==
    l1Gateway'[g].logic = l1Gateway[g].logic /\ l2Gateway'[g].logic = l2Gateway[g].logic

LEMMA PassesBy ==
    ASSUME NEW r \in Runs, Passes(r)
    PROVE  /\ \A p, q \in Runs : Overlapped(p, q) => Overlapped(p, q)'
           /\ \A q \in Runs : (q \in UnderWay)' =>
                  q \in UnderWay \/ (q = r /\ \A g \in Runs : ~UpgradedL1(q, g)')
           /\ \A q \in Runs : run[q].script = "upgradeL1" => run'[q].script = "upgradeL1"
           /\ \A q \in Runs : \A g : q # r => SameMarks(q, g)
  <1>1. \A p, q \in Runs : Overlapped(p, q) => Overlapped(p, q)'
    BY DEF Passes, Overlapped
  <1>2. \A q \in Runs : q # r => ((q \in UnderWay)' <=> q \in UnderWay)
    BY DEF Passes, UnderWay
  <1>3. \A q \in Runs : \A g : q # r => SameMarks(q, g)
    BY DEF Passes, SameMarks, UpgradedL1, UpgradedL2
  <1>. QED  BY <1>1, <1>2, <1>3 DEF Passes

LEMMA GatewayStays ==
    ASSUME Wiring, NEW r \in Runs, Passes(r), NEW g \in Runs, LayersOf(g), SameMarks(r, g),
           SameLogic(g),
           run'[g].script = "bridge" /\ run'[g].at = "deployL2" =>
               run[g].script = "bridge" /\ run[g].at = "deployL2"
    PROVE  LayersOf(g)'
  <1>1. PICK up \in MaybeRun, down \in MaybeRun :
            l1Gateway[g].logic = up /\ l2Gateway[g].logic = down
    BY DEF Wiring, TypeOK, Gateway
  <1>2. /\ \A p, q \in Runs : Overlapped(p, q) => Overlapped(p, q)'
        /\ \A q \in Runs : (q \in UnderWay)' => q \in UnderWay \/ ~UpgradedL1(q, g)'
        /\ \A q \in Runs : run[q].script = "upgradeL1" => run'[q].script = "upgradeL1"
        /\ \A q \in Runs : SameMarks(q, g)
    BY PassesBy
  <1>3. l1Gateway'[g].logic = up /\ l2Gateway'[g].logic = down
    BY <1>1 DEF SameLogic
  <1>4. up \notin {NoRun, g} => run'[up].script = "upgradeL1" \/ UpgradedL1(up, g)'
    <2>1. up \notin {NoRun, g} => run[up].script = "upgradeL1" \/ UpgradedL1(up, g)
      BY <1>1 DEF LayersOf
    <2>. QED  BY <1>2, <2>1 DEF SameMarks, MaybeRun
  <1>5. down \notin {NoRun, g} => UpgradedL2(down, g)'
    <2>1. down \notin {NoRun, g} => UpgradedL2(down, g)
      BY <1>1 DEF LayersOf
    <2>. QED  BY <1>2, <2>1 DEF SameMarks, MaybeRun
  <1>6. \A q \in Runs : UpgradedL1(q, g)' => up \notin {NoRun, g}
    BY <1>1, <1>2 DEF LayersOf, SameMarks
  <1>7. ASSUME NEW q \in Runs, (q \in UnderWay)', UpgradedL1(q, g)', ~UpgradedL2(q, g)', up # q
        PROVE  Overlapped(up, q)'
    <2>1. q \in UnderWay /\ UpgradedL1(q, g) /\ ~UpgradedL2(q, g)
      BY <1>2, <1>7 DEF SameMarks
    <2>2. up \in Runs /\ Overlapped(up, q)
      BY <1>1, <1>7, <2>1 DEF LayersOf, MaybeRun, UnderWay
    <2>. QED  BY <1>2, <2>2
  <1>8. ASSUME up # NoRun, UpgradedL2(up, g)'
        PROVE  down # NoRun /\ (down = up \/ Overlapped(up, down)')
    <2>1. up \in Runs /\ UpgradedL2(up, g)
      BY <1>2, <1>8 DEF SameMarks, MaybeRun
    <2>2. down # NoRun /\ (down = up \/ Overlapped(up, down))
      BY <1>1, <1>8, <2>1 DEF LayersOf
    <2>. QED  BY <1>2, <2>1, <2>2 DEF MaybeRun
  <1>9. /\ up = g => down \in {NoRun, g}
        /\ down # NoRun => up # NoRun
        /\ run'[g].script = "bridge" /\ run'[g].at = "deployL2" => up = g
    BY <1>1 DEF LayersOf
  <1>. QED  BY <1>3, <1>4, <1>5, <1>6, <1>7, <1>8, <1>9 DEF LayersOf, UnderWay

(* Steps that leave all logic as it is.                                     *)
LEMMA LogicStays ==
    ASSUME Wiring, Layered, NEW r \in Runs, Passes(r), AllOverlap',
           \A g \in Runs : SameMarks(r, g), \A g \in Runs : SameLogic(g),
           run'[r].script = "bridge" /\ run'[r].at = "deployL2" =>
               run[r].script = "bridge" /\ run[r].at = "deployL2"
    PROVE  Layered'
  <1>1. ASSUME NEW g \in Runs PROVE LayersOf(g)'
    <2>1. LayersOf(g) /\ SameMarks(r, g) /\ SameLogic(g)
      BY DEF Layered
    <2>2. run'[g].script = "bridge" /\ run'[g].at = "deployL2" =>
             run[g].script = "bridge" /\ run[g].at = "deployL2"
      BY DEF Passes
    <2>. QED  BY <2>1, <2>2, GatewayStays
  <1>. QED  BY <1>1 DEF Layered

LEMMA OverlapStays ==
    ASSUME AllOverlap, NEW r \in Runs, Passes(r), (r \in UnderWay)' => r \in UnderWay
    PROVE  AllOverlap'
  <1>1. \A p, q \in Runs : Overlapped(p, q) => Overlapped(p, q)'
    BY PassesBy
  <1>2. \A q \in Runs : (q \in UnderWay)' => q \in UnderWay
    BY DEF Passes, UnderWay
  <1>3. \A q : (q \in UnderWay)' => q \in Runs
    BY DEF UnderWay
  <1>. QED  BY <1>1, <1>2, <1>3 DEF AllOverlap, UnderWay

(* A step of r after which it calls for what it called for.                 *)
LEMMA CallPasses ==
    ASSUME NEW r \in Runs, SameCall(r), \A q \in Runs : q # r => run'[q] = run[q],
           run'[r].state = "on" => run[r].state = "on"
    PROVE  Passes(r) /\ ((r \in UnderWay)' => r \in UnderWay)
  BY DEF SameCall, Passes, UnderWay

(* Scripts that upgrade nothing, once they have deployed; deaths.           *)
LEMMA OtherLogicStays ==
    ASSUME Wiring, Layered, NEW r \in Runs, SameCall(r),
           \A q \in Runs : q # r => run'[q] = run[q],
           run'[r].state = "on" => run[r].state = "on",
           run[r].script # "upgrade" \/ run'[r].at = run[r].at,
           run'[r].at = "deployL2" => run[r].at = "deployL2",
           \A g \in Runs : SameLogic(g)
    PROVE  Layered'
  <1>1. Passes(r) /\ ((r \in UnderWay)' => r \in UnderWay)
    BY CallPasses
  <1>2. AllOverlap'
    BY <1>1, OverlapStays DEF Layered
  <1>3. \A g \in Runs : SameMarks(r, g)
    BY DEF SameCall, SameMarks, UpgradedL1, UpgradedL2
  <1>4. run'[r].script = "bridge" /\ run'[r].at = "deployL2" =>
           run[r].script = "bridge" /\ run[r].at = "deployL2"
    BY DEF SameCall
  <1>. QED  BY <1>1, <1>2, <1>3, <1>4, LogicStays

(* New gateways: nobody has been told of them.                              *)
LEMMA NobodysTarget ==
    ASSUME Ownership, NEW g \in Runs, ~Finished(g), ~CustomLogged(g), NEW r \in Runs
    PROVE  ~UpgradedL1(r, g) /\ ~UpgradedL2(r, g)
  <1>1. run[r].script = "upgrade" => run[r].bridge # g /\ run[r].custom # g
    BY TargetsStand, ScriptsAssumption DEF Upgrades
  <1>. QED  BY <1>1 DEF UpgradedL1, UpgradedL2

LEMMA DeploysLayers ==
    ASSUME Wiring, Ownership, Layered, NEW r \in Runs,
           DeployL1(r) \/ DeployL2(r) \/ \E s \in {"weth", "custom"} : DeployGateways(r, s)
    PROVE  Layered'
  <1>1. /\ TypeOK /\ l1Gateway \in [Runs -> Gateway] /\ l2Gateway \in [Runs -> Gateway]
    BY DEF Wiring, TypeOK
  <1>2. /\ SameCall(r) /\ (\A q \in Runs : q # r => run'[q] = run[q])
        /\ run'[r].state = run[r].state
    BY <1>1, MovesOn DEF DeployL1, DeployL2, DeployGateways
  <1>3. /\ run[r].script \notin Upgrades /\ run[r].at # "end" /\ ~CustomLogged(r) /\ ~Finished(r)
    BY DEF DeployL1, DeployL2, DeployGateways, At, Upgrades, CustomLogged, Finished
  <1>4. Passes(r) /\ AllOverlap'
    BY <1>2, CallPasses, OverlapStays DEF Layered
  <1>5. \A g : SameMarks(r, g)
    BY <1>2, <1>3 DEF SameCall, SameMarks, UpgradedL1, UpgradedL2, Upgrades
  <1>6. ASSUME NEW g \in Runs, g # r PROVE LayersOf(g)'
    <2>1. SameLogic(g)
      BY <1>1, <1>6 DEF DeployL1, DeployL2, DeployGateways, SameLogic
    <2>2. LayersOf(g) /\ run'[g] = run[g]
      BY <1>2, <1>6 DEF Layered
    <2>. QED  BY <1>4, <1>5, <2>1, <2>2, GatewayStays
  <1>7. LayersOf(r)'
    <2>1. \A q \in Runs : ~UpgradedL1(q, r)' /\ ~UpgradedL2(q, r)'
      <3>1. \A q \in Runs : ~UpgradedL1(q, r) /\ ~UpgradedL2(q, r)
        BY <1>3, NobodysTarget
      <3>2. \A q \in Runs : SameMarks(q, r)
        BY <1>4, <1>5, PassesBy
      <3>. QED  BY <3>1, <3>2 DEF SameMarks
    <2>2. l1Gateway[r].logic \in MaybeRun /\ l2Gateway[r].logic \in MaybeRun
      BY <1>1 DEF Gateway
    <2>3. /\ l1Gateway'[r].logic = r /\ l2Gateway'[r].logic \in {NoRun, r}
      <3>1. l2Gateway[r].logic \in {NoRun, r}
        BY <1>3, <2>2, NobodysTarget DEF Layered, LayersOf, MaybeRun
      <3>2. run[r].script = "bridge" /\ run[r].at = "deployL2" => l1Gateway[r].logic = r
        BY DEF Layered, LayersOf
      <3>3. NewGateway(r, r).logic = r /\ NewGateway(r, run[r].admin).logic = r
        BY DEF NewGateway, NoGateway
      <3>. QED  BY <1>1, <3>1, <3>2, <3>3 DEF DeployL1, DeployL2, DeployGateways, At
    <2>4. r # NoRun
      BY ScriptsAssumption
    <2>. QED  BY <2>1, <2>3, <2>4 DEF LayersOf, UnderWay
  <1>. QED  BY <1>4, <1>6, <1>7 DEF Layered

(* An upgrade of gateway t on L1 by r.                                      *)
LEMMA L1WriteLayers ==
    ASSUME Wiring, Ownership, Layered, NEW r \in UnderWay, NEW t \in Runs, t # r,
           Finished(t) \/ CustomLogged(t), SameCall(r),
           \A q \in Runs : q # r => run'[q] = run[q],
           l1Gateway' = Upgraded(l1Gateway, t, r), l2Gateway' = l2Gateway,
           \A g \in Runs : g # t => SameMarks(r, g),
           run[r].script = "upgradeL1" \/ UpgradedL1(r, t)',
           ~UpgradedL2(r, t), ~UpgradedL2(r, t)'
    PROVE  Layered'
  <1>1. /\ r \in Runs /\ r # NoRun
        /\ l1Gateway \in [Runs -> Gateway] /\ l2Gateway \in [Runs -> Gateway]
    BY ScriptsAssumption DEF UnderWay, Wiring, TypeOK
  <1>2. Passes(r) /\ AllOverlap'
    <2>1. run[r].state = "on"
      BY DEF UnderWay
    <2>. QED  BY <1>1, <2>1, CallPasses, OverlapStays DEF Layered
  <1>3. /\ \A g \in Runs : g # t => l1Gateway'[g] = l1Gateway[g]
        /\ l1Gateway'[t].logic = r
    BY <1>1 DEF Upgraded, Gateway
  <1>4. ASSUME NEW g \in Runs, g # t PROVE LayersOf(g)'
    <2>1. LayersOf(g) /\ SameMarks(r, g) /\ SameLogic(g)
      BY <1>3, <1>4 DEF Layered, SameLogic
    <2>2. g = r => run'[g].script # "bridge"
      BY <1>1 DEF SameCall, UnderWay, Upgrades
    <2>3. g # r => run'[g] = run[g]
      OBVIOUS
    <2>. QED  BY <1>1, <1>2, <2>1, <2>2, <2>3, GatewayStays
  <1>5. LayersOf(t)'
    <2>1. PICK down \in MaybeRun : l2Gateway[t].logic = down
      BY <1>1 DEF Gateway
    <2>2. l1Gateway'[t].logic = r /\ l2Gateway'[t].logic = down
      BY <1>3, <2>1
    <2>3. run'[r].script = "upgradeL1" \/ UpgradedL1(r, t)'
      BY DEF SameCall
    <2>4. down \notin {NoRun, t} => UpgradedL2(down, t)'
      <3>1. down \notin {NoRun, t} => UpgradedL2(down, t)
        BY <2>1 DEF Layered, LayersOf
      <3>2. \A q \in Runs : q # r => SameMarks(q, t)
        BY <1>1, <1>2, PassesBy
      <3>. QED  BY <3>1, <3>2 DEF SameMarks, MaybeRun
    <2>5. ~(run'[t].script = "bridge" /\ run'[t].at = "deployL2")
      BY DEF Finished, CustomLogged
    <2>6. \A q \in Runs : (q \in UnderWay)' /\ r # q => Overlapped(r, q)'
      <3>1. ASSUME NEW q \in Runs, (q \in UnderWay)', r # q PROVE Overlapped(r, q)'
        <4>1. q \in UnderWay
          BY <3>1 DEF UnderWay
        <4>2. Overlapped(r, q)
          BY <3>1, <4>1 DEF Layered, AllOverlap
        <4>. QED  BY <1>1, <1>2, <4>2, PassesBy
      <3>. QED  BY <3>1
    <2>. QED  BY <1>1, <2>2, <2>3, <2>4, <2>5, <2>6 DEF LayersOf, UnderWay
  <1>. QED  BY <1>2, <1>4, <1>5 DEF Layered

(* An upgrade of gateway t on L2 by r, which has upgraded it on L1.         *)
LEMMA L2WriteLayers ==
    ASSUME Wiring, Ownership, Layered, NEW r \in UnderWay, NEW t \in Runs, t # r,
           Finished(t) \/ CustomLogged(t), SameCall(r),
           \A q \in Runs : q # r => run'[q] = run[q],
           l1Gateway' = l1Gateway, l2Gateway' = Upgraded(l2Gateway, t, r),
           \A g \in Runs : g # t => SameMarks(r, g),
           UpgradedL1(r, t), UpgradedL1(r, t)', ~UpgradedL2(r, t), UpgradedL2(r, t)'
    PROVE  Layered'
  <1>1. /\ r \in Runs /\ r # NoRun
        /\ l1Gateway \in [Runs -> Gateway] /\ l2Gateway \in [Runs -> Gateway]
    BY ScriptsAssumption DEF UnderWay, Wiring, TypeOK
  <1>2. Passes(r) /\ AllOverlap'
    <2>1. run[r].state = "on"
      BY DEF UnderWay
    <2>. QED  BY <1>1, <2>1, CallPasses, OverlapStays DEF Layered
  <1>3. /\ \A g \in Runs : g # t => l2Gateway'[g] = l2Gateway[g]
        /\ l2Gateway'[t].logic = r
    BY <1>1 DEF Upgraded, Gateway
  <1>4. ASSUME NEW g \in Runs, g # t PROVE LayersOf(g)'
    <2>1. LayersOf(g) /\ SameMarks(r, g) /\ SameLogic(g)
      BY <1>3, <1>4 DEF Layered, SameLogic
    <2>2. g = r => run'[g].script # "bridge"
      BY <1>1 DEF SameCall, UnderWay, Upgrades
    <2>3. g # r => run'[g] = run[g]
      OBVIOUS
    <2>. QED  BY <1>1, <1>2, <2>1, <2>2, <2>3, GatewayStays
  <1>5. LayersOf(t)'
    <2>1. PICK up \in MaybeRun : l1Gateway[t].logic = up
      BY <1>1 DEF Gateway
    <2>2. l1Gateway'[t].logic = up /\ l2Gateway'[t].logic = r
      BY <1>3, <2>1
    <2>3. LayersOf(t) /\ up \notin {NoRun, t} /\ up \in Runs
      BY <1>1, <2>1 DEF Layered, LayersOf, MaybeRun
    <2>4. /\ \A q \in Runs : UpgradedL1(q, t)' => UpgradedL1(q, t)
          /\ \A q \in Runs : UpgradedL1(q, t) => UpgradedL1(q, t)'
          /\ \A q \in Runs : q # r => (UpgradedL2(q, t)' <=> UpgradedL2(q, t))
      <3>1. \A q \in Runs : q # r => SameMarks(q, t)
        BY <1>1, <1>2, PassesBy
      <3>. QED  BY <3>1 DEF SameMarks
    <2>5. run'[up].script = "upgradeL1" \/ UpgradedL1(up, t)'
      <3>1. run[up].script = "upgradeL1" \/ UpgradedL1(up, t)
        BY <2>1, <2>3 DEF LayersOf
      <3>2. run'[up].script = run[up].script
        BY <1>1, <2>3 DEF SameCall
      <3>. QED  BY <2>3, <2>4, <3>1, <3>2
    <2>6. ~(run'[t].script = "bridge" /\ run'[t].at = "deployL2")
      BY DEF Finished, CustomLogged
    <2>7. ASSUME NEW q \in Runs, (q \in UnderWay)', UpgradedL1(q, t)', ~UpgradedL2(q, t)', up # q
          PROVE  Overlapped(up, q)'
      <3>1. q # r /\ q \in UnderWay /\ UpgradedL1(q, t) /\ ~UpgradedL2(q, t)
        BY <2>4, <2>7 DEF UnderWay
      <3>2. Overlapped(up, q)
        BY <2>1, <2>3, <2>7, <3>1 DEF LayersOf
      <3>. QED  BY <1>1, <1>2, <2>3, <3>2, PassesBy
    <2>8. up # r => Overlapped(up, r)'
      <3>1. up # r => Overlapped(up, r)
        BY <2>1, <2>3 DEF LayersOf
      <3>. QED  BY <1>1, <1>2, <2>3, <3>1, PassesBy
    <2>. QED  BY <1>1, <2>2, <2>3, <2>4, <2>5, <2>6, <2>7, <2>8 DEF LayersOf, UnderWay
  <1>. QED  BY <1>2, <1>4, <1>5 DEF Layered

(* The two scripts that upgrade.                                            *)
LEMMA UpgradeLayers ==
    ASSUME Wiring, Ownership, Layered, NEW r \in Runs, Upgrade(r) \/ UpgradeL1(r)
    PROVE  Layered'
  <1>1. /\ TypeOK /\ l1Gateway \in [Runs -> Gateway] /\ l2Gateway \in [Runs -> Gateway]
        /\ run[r] \in Process
    BY DEF Wiring, TypeOK
  <1>2. /\ SameCall(r) /\ \A q \in Runs : q # r => run'[q] = run[q]
    BY <1>1, MovesOn
       DEF Upgrade, UpgradeL1, CheckAdmin, UpgradeL1Proxy, UpgradeL2Proxy, Throws
  <1>3. run[r].state = "on" /\ run[r].script \in Upgrades /\ r \in UnderWay
    BY DEF Upgrade, UpgradeL1, CheckAdmin, UpgradeL1Proxy, UpgradeL2Proxy, At, Upgrades, UnderWay
  <1>4. /\ Finished(run[r].bridge) /\ run[r].bridge \in Runs /\ run[r].bridge # r
        /\ run[r].script = "upgrade" /\ run[r].custom # NoRun =>
               /\ CustomLogged(run[r].custom) /\ run[r].custom \in Runs /\ run[r].custom # r
               /\ run[r].custom # run[r].bridge
    BY <1>3, TargetsStand
  <1>5. CASE UNCHANGED gateways /\ (\/ run'[r].at = run[r].at
                                    \/ run'[r].at \in {"checkL2", "l1Std"} /\ run[r].at \in {"check", "checkL2"})
    <2>1. Passes(r) /\ AllOverlap'
      BY <1>2, <1>3, CallPasses, OverlapStays DEF Layered
    <2>2. \A g \in Runs : SameMarks(r, g) /\ SameLogic(g)
      BY <1>2, <1>5 DEF SameCall, SameMarks, UpgradedL1, UpgradedL2, SameLogic, gateways
    <2>3. run'[r].script # "bridge"
      BY <1>2, <1>3 DEF SameCall, Upgrades
    <2>. QED  BY <2>1, <2>2, <2>3, LogicStays
  <1>6. ASSUME NEW s, NEW p, NEW n, NEW t \in {run[r].bridge, run[r].custom},
               UpgradeL1Proxy(r, s, p, t, n), ~Throws(r),
               \/ s = "upgradeL1" /\ t = run[r].bridge
               \/ s = "upgrade" /\ p = "l1Std" /\ t = run[r].bridge /\ n = "l1Custom"
               \/ s = "upgrade" /\ p = "l1Custom" /\ t = run[r].custom /\ n = "l2Std"
        PROVE  Layered'
    <2>1. /\ l1Gateway' = Upgraded(l1Gateway, t, r) /\ l2Gateway' = l2Gateway
          /\ run[r].script = s /\ run[r].at = p /\ t # NoRun /\ run'[r].at = n
      BY <1>1, <1>6, MovesOn DEF UpgradeL1Proxy, At, MayUpgrade
    <2>2. t \in Runs /\ t # r /\ (Finished(t) \/ CustomLogged(t))
      BY <1>4, <1>6, <2>1
    <2>3. /\ \A g \in Runs : g # t => SameMarks(r, g)
          /\ run[r].script = "upgradeL1" \/ UpgradedL1(r, t)'
          /\ ~UpgradedL2(r, t) /\ ~UpgradedL2(r, t)'
      BY <1>2, <1>4, <1>6, <2>1 DEF SameCall, SameMarks, UpgradedL1, UpgradedL2
    <2>. QED  BY <1>2, <1>3, <2>1, <2>2, <2>3, L1WriteLayers
  <1>7. ASSUME NEW p, NEW n, NEW t \in {run[r].bridge, run[r].custom},
               UpgradeL2Proxy(r, "upgrade", p, t, n), ~Throws(r),
               \/ p = "l2Std" /\ t = run[r].bridge /\ n = "l2Custom"
               \/ p = "l2Custom" /\ t = run[r].custom /\ n = "end"
        PROVE  Layered'
    <2>1. /\ l2Gateway' = Upgraded(l2Gateway, t, r) /\ l1Gateway' = l1Gateway
          /\ run[r].script = "upgrade" /\ run[r].at = p /\ t # NoRun /\ run'[r].at = n
      BY <1>1, <1>7, MovesOn DEF UpgradeL2Proxy, At, MayUpgrade
    <2>2. t \in Runs /\ t # r /\ (Finished(t) \/ CustomLogged(t))
      BY <1>4, <1>7, <2>1
    <2>3. /\ \A g \in Runs : g # t => SameMarks(r, g)
          /\ UpgradedL1(r, t) /\ UpgradedL1(r, t)'
          /\ ~UpgradedL2(r, t) /\ UpgradedL2(r, t)'
      BY <1>2, <1>4, <1>7, <2>1 DEF SameCall, SameMarks, UpgradedL1, UpgradedL2
    <2>. QED  BY <1>2, <1>3, <2>1, <2>2, <2>3, L2WriteLayers
  <1>8. CASE Throws(r)
    <2>1. UNCHANGED gateways /\ run'[r].at = run[r].at
      BY <1>1, <1>8, MovesOn DEF Throws
    <2>. QED  BY <1>5, <2>1
  <1>9. CASE ~Throws(r)
    <2>1. ASSUME NEW s, NEW p \in {"check", "checkL2"}, NEW o, NEW k,
                 NEW n \in {"checkL2", "l1Std"}, CheckAdmin(r, s, p, o, k, n)
          PROVE  Layered'
      <3>1. run'[r].at = n /\ run[r].at = p /\ UNCHANGED gateways
        BY <1>1, <1>9, <2>1, MovesOn DEF CheckAdmin, At
      <3>. QED  BY <1>5, <3>1
    <2>2. CASE Upgrade(r)
      BY <1>6, <1>7, <1>9, <2>1, <2>2 DEF Upgrade
    <2>3. CASE UpgradeL1(r)
      BY <1>6, <1>9, <2>1, <2>3 DEF UpgradeL1
    <2>. QED  BY <2>2, <2>3
  <1>. QED  BY <1>8, <1>9

LEMMA StartLayers ==
    ASSUME Wiring, Layered, NEW r \in Runs, NEW s \in Scripts, NEW k \in Keys,
           NEW t \in L2Tokens \cup {NoToken}, Start(r, s, k[1], k[2], t)
    PROVE  Layered'
  <1>1. /\ run[r].script = "bridge" /\ run[r].beside = {} /\ run[r].state = "idle"
    BY DEF Wiring, RunOK, Told, Start, Idle
  <1>2. /\ \A q \in Runs : q # r => run'[q] = run[q]
        /\ run'[r].script = s /\ run'[r].at = FirstStep(s) /\ run'[r].state = "on"
        /\ s \in Upgrades => run'[r].beside = UnderWay
    BY DEF Start, Wiring, TypeOK
  <1>3. /\ \A g : ~UpgradedL1(r, g)' /\ ~UpgradedL2(r, g)'
        /\ \A g : ~UpgradedL1(r, g) /\ ~UpgradedL2(r, g)
        /\ run'[r].at # "deployL2"
    BY <1>1, <1>2 DEF UpgradedL1, UpgradedL2, FirstStep
  <1>4. Passes(r)
    BY <1>1, <1>2, <1>3 DEF Passes
  <1>5. \A g \in Runs : SameMarks(r, g) /\ SameLogic(g)
    BY <1>3 DEF SameMarks, SameLogic, Start, gateways
  <1>6. AllOverlap'
    <2>1. ASSUME NEW p \in Runs, NEW q \in Runs, (p \in UnderWay)', (q \in UnderWay)', p # q
          PROVE  Overlapped(p, q)'
      <3>1. CASE p # r /\ q # r
        <4>1. p \in UnderWay /\ q \in UnderWay
          BY <1>2, <2>1, <3>1 DEF UnderWay
        <4>2. Overlapped(p, q)
          BY <2>1, <4>1 DEF Layered, AllOverlap
        <4>. QED  BY <1>4, <4>2, PassesBy
      <3>2. CASE p = r \/ q = r
        <4>1. s \in Upgrades /\ \A x \in {p, q} : x # r => x \in UnderWay
          BY <1>2, <2>1, <3>2 DEF UnderWay
        <4>. QED  BY <1>2, <2>1, <3>2, <4>1 DEF Overlapped
      <3>. QED  BY <3>1, <3>2
    <2>. QED  BY <2>1 DEF AllOverlap, UnderWay
  <1>. QED  BY <1>3, <1>4, <1>5, <1>6, LogicStays

LEMMA InitLayered == Init => Layered
  <1>. SUFFICES ASSUME Init PROVE Layered
    OBVIOUS
  <1>1. \A q \in Runs : run[q] = Idle
    BY DEF Init
  <1>2. UnderWay = {} /\ AllOverlap
    BY <1>1 DEF UnderWay, Idle, AllOverlap
  <1>3. ASSUME NEW g \in Runs PROVE LayersOf(g)
    <2>1. l1Gateway[g].logic = NoRun /\ l2Gateway[g].logic = NoRun
      BY DEF Init, NoGateway
    <2>2. \A q \in Runs : ~UpgradedL1(q, g)
      BY <1>1 DEF Idle, UpgradedL1
    <2>3. run[g].at # "deployL2"
      BY <1>1 DEF Idle
    <2>. QED  BY <1>2, <2>1, <2>2, <2>3, ScriptsAssumption DEF LayersOf
  <1>. QED  BY <1>2, <1>3 DEF Layered

LEMMA InitHandovers == Init => Handovers
  BY DEF Init, Idle, Handovers, Handing, OneHandsOver, MidHandover

LEMMA NextLayered == Wiring /\ Ownership /\ Layered /\ [Next]_vars => Layered'
  <1>. SUFFICES ASSUME Wiring, Ownership, Layered, [Next]_vars PROVE Layered'
    OBVIOUS
  <1>1. /\ TypeOK /\ l1Gateway \in [Runs -> Gateway] /\ l2Gateway \in [Runs -> Gateway]
    BY DEF Wiring, TypeOK
  <1>2. ASSUME NEW r \in Runs, Bridge(r) PROVE Layered'
    <2>1. CASE DeployL1(r) \/ DeployL2(r)
      BY <2>1, DeploysLayers
    <2>2. CASE InitBeacon(r) \/ InitGateways(r) \/ InitRouters(r) \/ WriteDeployment(r)
      <3>1. /\ l1Gateway' \in {l1Gateway, GatewayInit(l1Gateway, r, r, r, NoOne)}
            /\ l2Gateway' \in {l2Gateway, GatewayInit(l2Gateway, r, r, r, NoOne)}
        BY <2>2 DEF InitBeacon, InitGateways, InitRouters, WriteDeployment, gateways
      <3>2. \A g \in Runs : SameLogic(g)
        BY <1>1, <3>1, GatewayInitKeepsAdmin DEF SameLogic
      <3>3. /\ SameCall(r) /\ (\A q \in Runs : q # r => run'[q] = run[q])
            /\ run[r].script = "bridge" /\ run[r].state = "on" /\ run'[r].at # "deployL2"
        BY <1>1, <2>2, MovesOn DEF InitBeacon, InitGateways, InitRouters, WriteDeployment, At
      <3>. QED  BY <3>2, <3>3, OtherLogicStays
    <2>. QED  BY <1>2, <2>1, <2>2 DEF Bridge
  <1>3. ASSUME NEW r \in Runs, Weth(r) \/ Custom(r) \/ Register(r) PROVE Layered'
    <2>1. CASE \E s \in {"weth", "custom"} : DeployGateways(r, s)
      BY <2>1, DeploysLayers
    <2>2. CASE ~\E s \in {"weth", "custom"} : DeployGateways(r, s)
      <3>1. /\ \/ l1Gateway' = l1Gateway
               \/ \E b, o : l1Gateway' = GatewayInit(l1Gateway, r, r, b, o)
               \/ \E c, t : l1Gateway' = [l1Gateway EXCEPT ![c].token = t]
            /\ l2Gateway' = l2Gateway \/ \E b : l2Gateway' = GatewayInit(l2Gateway, r, r, b, NoOne)
        BY <1>3, <2>2 DEF Weth, Custom, Register, CheckRouterOwner, InitNewL1, InitNewL2,
                          SetWethGateway, RegisterToken, Throws, gateways
      <3>2. \A q \in Runs : l1Gateway'[q].logic = l1Gateway[q].logic
        <4>1. ASSUME NEW c, NEW t, l1Gateway' = [l1Gateway EXCEPT ![c].token = t], NEW q \in Runs
              PROVE  l1Gateway'[q].logic = l1Gateway[q].logic
          <5>1. [l1Gateway EXCEPT ![c].token = t][q].logic = l1Gateway[q].logic
            BY <1>1, TokenKeepsAdmin
          <5>. QED  BY <4>1, <5>1
        <4>2. ASSUME NEW b, NEW o, l1Gateway' = GatewayInit(l1Gateway, r, r, b, o), NEW q \in Runs
              PROVE  l1Gateway'[q].logic = l1Gateway[q].logic
          BY <1>1, <4>2, GatewayInitKeepsAdmin
        <4>. QED  BY <3>1, <4>1, <4>2, Zenon
      <3>3. \A q \in Runs : l2Gateway'[q].logic = l2Gateway[q].logic
        BY <1>1, <3>1, GatewayInitKeepsAdmin
      <3>4. /\ SameCall(r) /\ (\A q \in Runs : q # r => run'[q] = run[q])
            /\ run[r].script # "upgrade" /\ run[r].state = "on"
            /\ run'[r].at = "deployL2" => run[r].at = "deployL2"
        BY <1>1, <1>3, MovesOn
           DEF Weth, Custom, Register, CheckRouterOwner, DeployGateways, InitNewL1, InitNewL2,
               SetWethGateway, RegisterToken, Throws, At
      <3>. QED  BY <3>2, <3>3, <3>4, OtherLogicStays DEF SameLogic
    <2>. QED  BY <2>1, <2>2
  <1>4. ASSUME NEW r \in Runs, Transfer(r) PROVE Layered'
    <2>1. \A g \in Runs : SameLogic(g)
      BY <1>4 DEF Transfer, CheckAdmin, HandOverL1, HandOverL2, Throws, SameLogic, gateways
    <2>2. /\ SameCall(r) /\ (\A q \in Runs : q # r => run'[q] = run[q])
          /\ run[r].script = "transfer" /\ run[r].state = "on" /\ run'[r].at # "deployL2"
      BY <1>1, <1>4, MovesOn DEF Transfer, CheckAdmin, HandOverL1, HandOverL2, Throws, At
    <2>. QED  BY <2>1, <2>2, OtherLogicStays
  <1>5. ASSUME NEW r \in Runs, Dies(r) PROVE Layered'
    <2>1. \A g \in Runs : SameLogic(g)
      BY <1>5 DEF Dies, SameLogic, gateways
    <2>2. /\ SameCall(r) /\ (\A q \in Runs : q # r => run'[q] = run[q])
          /\ run'[r].at = run[r].at /\ run'[r].state = "dead"
      BY <1>1, <1>5, MovesOn DEF Dies
    <2>. QED  BY <2>1, <2>2, OtherLogicStays
  <1>6. ASSUME NEW r \in Runs, NEW s \in Scripts, NEW k \in Keys, NEW t \in L2Tokens \cup {NoToken},
               Start(r, s, k[1], k[2], t)
        PROVE  Layered'
    BY <1>6, StartLayers
  <1>7. CASE \/ PublishBridge \/ \E r \in Runs : PublishCustom(r)
             \/ \E t \in tickets : Redeem(t) \/ Expire(t)
             \/ UNCHANGED vars
    <2>1. /\ UNCHANGED <<run, l1Gateway>>
          /\ \/ l2Gateway' = l2Gateway
             \/ \E t \in tickets : l2Gateway' = [l2Gateway EXCEPT ![t.to].token = t.token]
      BY <1>7 DEF PublishBridge, PublishCustom, Redeem, Expire, vars, gateways
    <2>2. \A g \in Runs : SameLogic(g)
      <3>1. ASSUME NEW t \in tickets, l2Gateway' = [l2Gateway EXCEPT ![t.to].token = t.token],
                   NEW q \in Runs
            PROVE  l2Gateway'[q].logic = l2Gateway[q].logic
        <4>1. [l2Gateway EXCEPT ![t.to].token = t.token][q].logic = l2Gateway[q].logic
          BY <1>1, TokenKeepsAdmin
        <4>. QED  BY <3>1, <4>1
      <3>. QED  BY <2>1, <3>1 DEF SameLogic
    <2>3. AllOverlap'
      BY <2>1 DEF Layered, AllOverlap, UnderWay, Overlapped
    <2>4. ASSUME NEW g \in Runs PROVE LayersOf(g)'
      <3>1. Passes(g) /\ SameMarks(g, g)
        BY <2>1 DEF Passes, SameMarks, UpgradedL1, UpgradedL2, UnderWay
      <3>2. LayersOf(g) /\ SameLogic(g) /\ run' = run
        BY <2>1, <2>2 DEF Layered
      <3>. QED  BY <3>1, <3>2, GatewayStays
    <2>. QED  BY <2>3, <2>4 DEF Layered
  <1>8. CASE \E r \in Runs : Step(r)
    BY <1>2, <1>3, <1>4, <1>8, UpgradeLayers DEF Step
  <1>. QED  BY <1>5, <1>6, <1>7, <1>8 DEF Next

(* The two ProxyAdmins of a bridge deployed with one key belong to different *)
(* keys only while a handover is between its chains or died there, and its   *)
(* gateways' layers are on different logic only for an upgrade of L1 alone,   *)
(* an upgrade on its way, dead or stopped by a handover or foreign gateways,  *)
(* or two upgrades at once.                                                  *)
THEOREM LayersPart == Spec => []LayersPartWithCause
  <1>1. Ownership /\ Handovers => OwnersPartMidHandover
    BY DEF Ownership, Owned, Parting, HandingOver, Handovers, Handing, OwnersPartMidHandover
  <1>2. Wiring /\ Ownership /\ Layered => LogicPartsWithCause
    <2>. SUFFICES ASSUME Wiring, Ownership, Layered, NEW g \in Runs, NEW up, NEW down,
                         up = l1Gateway[g].logic, down = l2Gateway[g].logic,
                         down \notin {NoRun, up}
                  PROVE  run[up].script = "upgradeL1" \/ Owes(up, g) \/ Overlapped(up, down)
      BY DEF LogicPartsWithCause
    <2>1. up \in Runs /\ up # g /\ (run[up].script = "upgradeL1" \/ UpgradedL1(up, g))
      <3>1. up \in MaybeRun
        BY DEF Wiring, TypeOK, Gateway
      <3>. QED  BY <3>1 DEF Layered, LayersOf, MaybeRun
    <2>2. CASE UpgradedL2(up, g)
      BY <2>1, <2>2, ScriptsAssumption DEF Layered, LayersOf
    <2>3. CASE UpgradedL1(up, g) /\ ~UpgradedL2(up, g)
      <3>1. Caused(up)
        BY <2>1 DEF Ownership, Owned
      <3>2. run[up].script = "upgrade" /\ run[up].bridge # run[up].custom
        BY <2>1, <2>3, TargetsStand, ScriptsAssumption DEF UpgradedL1, Upgrades
      <3>. QED  BY <2>3, <3>1, <3>2 DEF UpgradedL1, UpgradedL2, Owes, Caused
    <2>. QED  BY <2>1, <2>2, <2>3
  <1>3. Spec => [](Wiring /\ Ownership /\ Handovers /\ Layered)
    BY InitWiring, NextWiring, InitOwnership, NextOwnership, InitHandovers, NextHandovers,
       InitLayered, NextLayered, PTL DEF Spec
  <1>. QED  BY <1>1, <1>2, <1>3, PTL DEF LayersPartWithCause

-----------------------------------------------------------------------------
(* Rollup deployment.                                                       *)

LEMMA AppendToTuple ==
    ASSUME NEW a, NEW b, NEW c
    PROVE  /\ Append(<<>>, a) = <<a>> /\ Len(<<>>) = 0
           /\ Append(<<a>>, b) = <<a, b>> /\ Len(<<a>>) = 1
           /\ Append(<<a, b>>, c) = <<a, b, c>> /\ Len(<<a, b>>) = 2
  <1>. DEFINE S == {a, b, c}
  <1>1. <<>> \in Seq(S) /\ <<a>> \in Seq(S) /\ <<a, b>> \in Seq(S) /\ <<a, b, c>> \in Seq(S)
    OBVIOUS
  <1>2. /\ Len(<<>>) = 0 /\ Len(<<a>>) = 1 /\ Len(<<a, b>>) = 2 /\ Len(<<a, b, c>>) = 3
    OBVIOUS
  <1>. HIDE DEF S
  <1>3. Append(<<>>, a) = <<a>>
    OBVIOUS
  <1>4. a \in S /\ b \in S /\ c \in S
    BY DEF S
  <1>5. Append(<<a>>, b) = <<a, b>>
    <2>1. /\ Append(<<a>>, b) \in Seq(S) /\ Len(Append(<<a>>, b)) = 2
          /\ Append(<<a>>, b)[1] = a /\ Append(<<a>>, b)[2] = b
      BY <1>1, <1>2, <1>4
    <2>2. \A i \in 1 .. 2 : Append(<<a>>, b)[i] = <<a, b>>[i]
      BY <2>1
    <2>. QED  BY <1>1, <1>2, <2>1, <2>2, SeqEqual
  <1>6. Append(<<a, b>>, c) = <<a, b, c>>
    <2>1. /\ Append(<<a, b>>, c) \in Seq(S) /\ Len(Append(<<a, b>>, c)) = 3
          /\ Append(<<a, b>>, c)[1] = a /\ Append(<<a, b>>, c)[2] = b
          /\ Append(<<a, b>>, c)[3] = c
      BY <1>1, <1>2, <1>4
    <2>2. \A i \in 1 .. 3 : Append(<<a, b>>, c)[i] = <<a, b, c>>[i]
      BY <2>1
    <2>. QED  BY <1>1, <1>2, <2>1, <2>2, SeqEqual
  <1>. QED  BY <1>2, <1>3, <1>5, <1>6

LEMMA PlanSteps ==
    /\ Len(Plan) = 15 /\ Done = 16
    /\ \A i \in 1 .. 15 :
          /\ Plan[i] = "ProxyAdmin" <=> i = 5
          /\ Plan[i] = "proxy" <=> i \in {6, 7, 8}
          /\ Plan[i] = "ChallengeFactory" <=> i = 9
          /\ Plan[i] = "setTemplates" <=> i = 15
          /\ Plan[i] \in Simple <=> i \notin {5, 6, 7, 8, 9, 15}
    /\ \A i, j \in 1 .. 15 : Plan[i] \in Simple /\ Plan[i] = Plan[j] => i = j
    /\ Plan[2] = Proofs[1] /\ Plan[3] = Proofs[2] /\ Plan[4] = Proofs[3]
    /\ Plan[14] = "RollupCreator"
    /\ \A n \in Simple : \E i \in 1 .. 14 : Plan[i] = n
  BY DEF Plan, Done, Simple, Proofs

LEMMA AllNames == Names = Simple \cup {"ProxyAdmin", "TransparentUpgradeableProxy", "ChallengeFactory"}
                  /\ {"ProxyAdmin", "TransparentUpgradeableProxy", "ChallengeFactory"} \cap Simple = {}
  BY DEF Names, Simple

(* What a deployment at step k has made current.                            *)
Proxy(i) == Contract("TransparentUpgradeableProxy", <<osp[i], record["ProxyAdmin"]>>)

SimpleDone ==
    \A i \in 1 .. 15 : i < at /\ Plan[i] \in Simple => record[Plan[i]] = Contract(Plan[i], <<>>)

ProofsRead ==
    at > 5 => /\ record["ProxyAdmin"] = Contract("ProxyAdmin", <<>>)
              /\ osp = [i \in 1 .. 3 |-> record[Proofs[i]]]

ProxiesDone ==
    /\ at \in 1 .. 6 => proxies = <<>>
    /\ at = 7 => proxies = <<Proxy(1)>>
    /\ at = 8 => proxies = <<Proxy(1), Proxy(2)>>
    /\ at > 8 => /\ proxies = <<Proxy(1), Proxy(2), Proxy(3)>>
                 /\ record["TransparentUpgradeableProxy"] = Proxy(3)

FactoryDone == at > 9 => record["ChallengeFactory"] = Contract("ChallengeFactory", proxies)

TemplatesSet ==
    at = Done => templates[record["RollupCreator"].code] = [n \in Templates |-> record[n]]

RollupTypes ==
    /\ at \in 0 .. Done
    /\ code \in [Names -> 0 .. MaxEdits] /\ artifact \in [Names -> 0 .. MaxEdits]
    /\ DOMAIN record = Names
    /\ DOMAIN templates = 0 .. MaxEdits

Progress ==
    /\ RollupTypes /\ SimpleDone /\ ProofsRead /\ ProxiesDone /\ FactoryDone /\ TemplatesSet

-----------------------------------------------------------------------------
(* The steps of a deployment.                                               *)

(* deploy leaves the contract asked for on record and the others alone.     *)
LEMMA DeployRecords ==
    ASSUME DOMAIN record = Names, NEW name \in Names, NEW args
    PROVE  /\ DOMAIN Deployed(name, args) = Names
           /\ Deployed(name, args)[name] = Contract(name, args)
           /\ \A n \in Names \ {name} : Deployed(name, args)[n] = record[n]
  <1>1. CASE record[name] = Contract(name, args)
    BY <1>1 DEF Deployed
  <1>2. CASE record[name] # Contract(name, args)
    BY <1>2 DEF Deployed
  <1>. QED  BY <1>1, <1>2

LEMMA RunningAt ==
    ASSUME RollupTypes, NEW step, Running(step)
    PROVE  at \in 1 .. 15 /\ Plan[at] = step /\ at' = at + 1 /\ at' \in 0 .. Done
  BY PlanSteps DEF Running, RollupTypes

(* A step that puts name on record keeps what was done for the others.      *)
LEMMA SimpleKept ==
    ASSUME Progress, NEW name \in Names, NEW args,
           record' = Deployed(name, args), UNCHANGED artifact,
           at \in 1 .. 15, at' = at + 1,
           Plan[at] \in Simple => name = Plan[at] /\ args = <<>>,
           Plan[at] \notin Simple => name \notin Simple
    PROVE  SimpleDone'
  <1>1. /\ record'[name] = Contract(name, args)
        /\ \A n \in Names \ {name} : record'[n] = record[n]
    BY DeployRecords DEF Progress, RollupTypes
  <1>2. SUFFICES ASSUME NEW i \in 1 .. 15, i < at', Plan[i] \in Simple
                 PROVE  record'[Plan[i]] = Contract(Plan[i], <<>>)
    BY DEF SimpleDone, Contract
  <1>3. CASE i = at
    BY <1>1, <1>2, <1>3
  <1>4. CASE i < at
    <2>1. Plan[i] # name
      <3>1. CASE Plan[at] \in Simple
        BY <1>2, <1>4, <3>1, PlanSteps
      <3>2. CASE Plan[at] \notin Simple
        BY <1>2, <3>2
      <3>. QED  BY <3>1, <3>2
    <2>2. Plan[i] \in Names
      BY <1>2, AllNames
    <2>. QED  BY <1>1, <1>2, <1>4, <2>1, <2>2 DEF Progress, SimpleDone
  <1>. QED  BY <1>2, <1>3, <1>4

(* Developers' edits: without any edit to spare there is none.              *)
LEMMA EditTypes ==
    ASSUME RollupTypes, NEW n \in Edited, Edit(n)
    PROVE  code' \in [Names -> 0 .. MaxEdits]
  <1>1. MaxEdits \in Nat /\ n \in Names
    BY RollupAssumption
  <1>2. CASE MaxEdits = 0
    <2>1. {m \in Names : code[m] > 0} = {}
      BY <1>2 DEF RollupTypes
    <2>2. Cardinality({m \in Names : code[m] > 0}) = 0
      BY <2>1, FS_EmptySet
    <2>. QED  BY <1>2, <2>2 DEF Edit
  <1>3. CASE MaxEdits > 0
    BY <1>1, <1>3 DEF Edit, RollupTypes
  <1>. QED  BY <1>1, <1>2, <1>3

LEMMA ProgressInit == RollupInit => Progress
  <1>. SUFFICES ASSUME RollupInit  PROVE Progress
    OBVIOUS
  <1>1. RollupTypes
    <2>1. 0 \in 0 .. MaxEdits /\ 0 \in 0 .. Done
      BY RollupAssumption, PlanSteps
    <2>2. at = 0 /\ code \in [Names -> 0 .. MaxEdits] /\ artifact \in [Names -> 0 .. MaxEdits]
      BY <2>1 DEF RollupInit
    <2>. QED  BY <2>1, <2>2 DEF RollupInit, RollupTypes
  <1>2. at = 0 /\ Done = 16
    BY PlanSteps DEF RollupInit
  <1>. QED  BY <1>1, <1>2 DEF Progress, SimpleDone, ProofsRead, ProxiesDone, FactoryDone, TemplatesSet

LEMMA ProgressStep == Progress /\ [RollupNext]_rollupVars => Progress'
  <1>. SUFFICES ASSUME Progress, [RollupNext]_rollupVars  PROVE Progress'
    OBVIOUS
  <1>0. RollupTypes /\ DOMAIN record = Names /\ Done = 16
    BY PlanSteps DEF Progress, RollupTypes
  <1>1. CASE StartDeploy
    <2>1. at' = 1 /\ artifact' = code /\ proxies' = <<>>
          /\ UNCHANGED <<code, record, templates, chains>>
      BY <1>1 DEF StartDeploy
    <2>2. RollupTypes'
      BY <1>0, <2>1 DEF RollupTypes, Done
    <2>. QED  BY <1>0, <2>1, <2>2 DEF Progress, SimpleDone, ProofsRead, ProxiesDone, FactoryDone,
              TemplatesSet, Done
  <1>2. CASE DeployDies
    <2>1. at' = 0 /\ UNCHANGED <<code, artifact, record, osp, proxies, templates, chains>>
      BY <1>2 DEF DeployDies
    <2>2. RollupTypes'
      BY <1>0, <2>1 DEF RollupTypes, Done
    <2>. QED  BY <1>0, <2>1, <2>2 DEF Progress, SimpleDone, ProofsRead, ProxiesDone, FactoryDone,
              TemplatesSet, Done
  <1>3. CASE CreateChain
    BY <1>3 DEF CreateChain, Progress, RollupTypes, SimpleDone, ProofsRead, ProxiesDone,
       FactoryDone, TemplatesSet, Proxy, Contract
  <1>4. ASSUME NEW n \in Edited, Edit(n)  PROVE Progress'
    <2>1. RollupTypes'
      BY <1>0, <1>4, EditTypes DEF Edit, RollupTypes, Done
    <2>. QED  BY <1>4, <2>1 DEF Edit, Progress, SimpleDone, ProofsRead, ProxiesDone,
              FactoryDone, TemplatesSet, Proxy, Contract, Done
  <1>5. ASSUME NEW n \in Simple, DeploySimple(n)  PROVE Progress'
    <2>1. /\ at \in 1 .. 15 /\ Plan[at] = n /\ at' = at + 1 /\ at' \in 0 .. Done
          /\ record' = Deployed(n, <<>>)
          /\ UNCHANGED <<code, artifact, osp, proxies, templates, chains>>
      BY <1>0, <1>5, RunningAt DEF DeploySimple
    <2>2. n \in Names /\ n \notin {"ProxyAdmin", "TransparentUpgradeableProxy", "ChallengeFactory"}
      BY AllNames
    <2>3. /\ DOMAIN record' = Names
          /\ \A m \in Names \ {n} : record'[m] = record[m]
      BY <1>0, <2>1, <2>2, DeployRecords
    <2>4. RollupTypes'
      BY <1>0, <2>1, <2>3 DEF RollupTypes, Done
    <2>5. SimpleDone'
      BY <2>1, <2>2, SimpleKept
    <2>6. /\ record'["ProxyAdmin"] = record["ProxyAdmin"]
          /\ record'["TransparentUpgradeableProxy"] = record["TransparentUpgradeableProxy"]
          /\ record'["ChallengeFactory"] = record["ChallengeFactory"]
      BY <2>2, <2>3, AllNames
    <2>7. at \notin {5, 6, 7, 8, 9, 15}
      BY <2>1, PlanSteps
    <2>8. ProofsRead'
      <3>1. SUFFICES ASSUME at > 5  PROVE ProofsRead'
        BY <2>1, <2>7 DEF ProofsRead
      <3>2. \A i \in 1 .. 3 : record'[Proofs[i]] = record[Proofs[i]]
        BY <2>1, <2>3, <3>1, PlanSteps, AllNames DEF Proofs, Simple
      <3>. QED  BY <2>1, <2>6, <3>1, <3>2 DEF Progress, ProofsRead, Contract
    <2>9. ProxiesDone'
      BY <2>1, <2>6, <2>7 DEF Progress, ProxiesDone, Proxy, Contract
    <2>10. FactoryDone' /\ TemplatesSet'
      BY <1>0, <2>1, <2>6, <2>7 DEF Progress, FactoryDone, TemplatesSet, Contract, Done
    <2>. QED  BY <2>4, <2>5, <2>8, <2>9, <2>10 DEF Progress
  <1>6. CASE DeployProxyAdmin
    <2>1. /\ at = 5 /\ at' = 6 /\ Plan[at] = "ProxyAdmin"
          /\ osp' = [i \in 1 .. 3 |-> record[Proofs[i]]]
          /\ record' = Deployed("ProxyAdmin", <<>>)
          /\ UNCHANGED <<code, artifact, proxies, templates, chains>>
      BY <1>0, <1>6, RunningAt, PlanSteps DEF DeployProxyAdmin
    <2>2. "ProxyAdmin" \in Names /\ "ProxyAdmin" \notin Simple
      BY AllNames
    <2>3. /\ DOMAIN record' = Names /\ record'["ProxyAdmin"] = Contract("ProxyAdmin", <<>>)
          /\ \A m \in Names \ {"ProxyAdmin"} : record'[m] = record[m]
      BY <1>0, <2>1, <2>2, DeployRecords
    <2>4. RollupTypes'
      BY <1>0, <2>1, <2>3 DEF RollupTypes, Done
    <2>5. SimpleDone'
      BY <2>1, <2>2, SimpleKept
    <2>6. \A i \in 1 .. 3 : record'[Proofs[i]] = record[Proofs[i]]
      BY <2>2, <2>3, AllNames DEF Proofs, Simple
    <2>7. ProofsRead'
      BY <2>1, <2>3, <2>6 DEF ProofsRead, Contract
    <2>8. ProxiesDone' /\ FactoryDone' /\ TemplatesSet'
      BY <1>0, <2>1 DEF Progress, ProxiesDone, FactoryDone, TemplatesSet, Done
    <2>. QED  BY <2>4, <2>5, <2>7, <2>8 DEF Progress
  <1>7. CASE DeployProxy
    <2>. DEFINE name == "TransparentUpgradeableProxy"
                k == Len(proxies) + 1
    <2>1. /\ at \in {6, 7, 8} /\ at' = at + 1 /\ Plan[at] = "proxy"
          /\ record' = Deployed(name, <<osp[k], record["ProxyAdmin"]>>)
          /\ proxies' = Append(proxies, record'[name])
          /\ UNCHANGED <<code, artifact, osp, templates, chains>>
      BY <1>0, <1>7, RunningAt, PlanSteps DEF DeployProxy
    <2>2. name \in Names /\ name \notin Simple /\ Plan[at] \notin Simple
      BY <2>1, AllNames, PlanSteps
    <2>3. /\ DOMAIN record' = Names /\ record'[name] = Proxy(k)
          /\ \A m \in Names \ {name} : record'[m] = record[m]
      BY <1>0, <2>1, <2>2, DeployRecords DEF Proxy
    <2>4. RollupTypes'
      BY <1>0, <2>1, <2>3 DEF RollupTypes, Done
    <2>5. SimpleDone'
      BY <2>1, <2>2, SimpleKept
    <2>6. /\ \A i \in 1 .. 3 : record'[Proofs[i]] = record[Proofs[i]]
          /\ record'["ProxyAdmin"] = record["ProxyAdmin"]
      BY <2>2, <2>3, AllNames DEF Proofs, Simple
    <2>7. ProofsRead'
      BY <2>1, <2>6 DEF Progress, ProofsRead, Contract
    <2>8. \A i : Proxy(i)' = Proxy(i)
      BY <2>1, <2>6 DEF Proxy, Contract
    <2>9. ProxiesDone'
      <3>. HIDE DEF name, k
      <3>1. proxies' = Append(proxies, Proxy(k)) /\ record'[name] = Proxy(k)
        BY <2>1, <2>3
      <3>2. k = Len(proxies) + 1
        BY DEF k
      <3>3. CASE at = 6
        <4>1. proxies = <<>> /\ at' = 7
          BY <2>1, <3>3 DEF Progress, ProxiesDone
        <4>2. k = 1
          BY <3>2, <4>1, AppendToTuple
        <4>3. proxies' = <<Proxy(1)>>
          BY <3>1, <4>1, <4>2, AppendToTuple
        <4>4. proxies' = <<Proxy(1)'>>
          BY <2>8, <4>3
        <4>. QED  BY <4>1, <4>4 DEF ProxiesDone
      <3>4. CASE at = 7
        <4>1. proxies = <<Proxy(1)>> /\ at' = 8
          BY <2>1, <3>4 DEF Progress, ProxiesDone
        <4>2. k = 2
          BY <3>2, <4>1, AppendToTuple
        <4>3. proxies' = <<Proxy(1), Proxy(2)>>
          BY <3>1, <4>1, <4>2, AppendToTuple
        <4>4. proxies' = <<Proxy(1)', Proxy(2)'>>
          BY <2>8, <4>3
        <4>. QED  BY <4>1, <4>4 DEF ProxiesDone
      <3>5. CASE at = 8
        <4>1. proxies = <<Proxy(1), Proxy(2)>> /\ at' = 9
          BY <2>1, <3>5 DEF Progress, ProxiesDone
        <4>2. k = 3
          BY <3>2, <4>1, AppendToTuple
        <4>3. proxies' = <<Proxy(1), Proxy(2), Proxy(3)>>
          BY <3>1, <4>1, <4>2, AppendToTuple
        <4>4. proxies' = <<Proxy(1)', Proxy(2)', Proxy(3)'>>
          BY <2>8, <4>3
        <4>5. record'["TransparentUpgradeableProxy"] = Proxy(3)'
          BY <2>8, <3>1, <4>2 DEF name
        <4>. QED  BY <4>1, <4>4, <4>5 DEF ProxiesDone
      <3>. QED  BY <2>1, <3>3, <3>4, <3>5
    <2>10. FactoryDone' /\ TemplatesSet'
      BY <1>0, <2>1 DEF FactoryDone, TemplatesSet, Done
    <2>. QED  BY <2>4, <2>5, <2>7, <2>9, <2>10 DEF Progress
  <1>8. CASE DeployChallengeFactory
    <2>. DEFINE name == "ChallengeFactory"
    <2>1. /\ at = 9 /\ at' = 10 /\ Plan[at] = "ChallengeFactory"
          /\ record' = Deployed(name, proxies)
          /\ UNCHANGED <<code, artifact, osp, proxies, templates, chains>>
      BY <1>0, <1>8, RunningAt, PlanSteps DEF DeployChallengeFactory
    <2>2. name \in Names /\ name \notin Simple
      BY AllNames
    <2>3. /\ DOMAIN record' = Names /\ record'[name] = Contract(name, proxies)
          /\ \A m \in Names \ {name} : record'[m] = record[m]
      BY <1>0, <2>1, <2>2, DeployRecords
    <2>4. RollupTypes'
      BY <1>0, <2>1, <2>3 DEF RollupTypes, Done
    <2>5. SimpleDone'
      BY <2>1, <2>2, SimpleKept
    <2>6. /\ \A i \in 1 .. 3 : record'[Proofs[i]] = record[Proofs[i]]
          /\ record'["ProxyAdmin"] = record["ProxyAdmin"]
          /\ record'["TransparentUpgradeableProxy"] = record["TransparentUpgradeableProxy"]
      BY <2>2, <2>3, AllNames DEF Proofs, Simple
    <2>7. ProofsRead'
      BY <2>1, <2>6 DEF Progress, ProofsRead, Contract
    <2>8. ProxiesDone'
      BY <2>1, <2>6 DEF Progress, ProxiesDone, Proxy, Contract
    <2>9. FactoryDone' /\ TemplatesSet'
      BY <1>0, <2>1, <2>3 DEF FactoryDone, TemplatesSet, Contract, Done
    <2>. QED  BY <2>4, <2>5, <2>7, <2>8, <2>9 DEF Progress
  <1>9. CASE SetTemplates
    <2>. DEFINE v == record["RollupCreator"].code
    <2>1. /\ at = 15 /\ at' = 16
          /\ templates' = [templates EXCEPT ![v] = [n \in Templates |-> record[n]]]
          /\ UNCHANGED <<code, artifact, record, osp, proxies, chains>>
      BY <1>0, <1>9, RunningAt, PlanSteps DEF SetTemplates
    <2>2. v \in 0 .. MaxEdits
      <3>1. record["RollupCreator"] = Contract("RollupCreator", <<>>)
        BY <2>1, PlanSteps DEF Progress, SimpleDone, Simple
      <3>2. v = artifact["RollupCreator"] /\ "RollupCreator" \in Names
        BY <3>1 DEF Contract, Names, Simple
      <3>. QED  BY <1>0, <3>2 DEF RollupTypes
    <2>3. RollupTypes'
      BY <1>0, <2>1 DEF RollupTypes, Done
    <2>4. SimpleDone'
      BY <2>1, PlanSteps DEF Progress, SimpleDone, Contract
    <2>5. ProofsRead' /\ ProxiesDone' /\ FactoryDone'
      BY <2>1 DEF Progress, ProofsRead, ProxiesDone, FactoryDone, Proxy, Contract
    <2>6. TemplatesSet'
      BY <1>0, <2>1, <2>2 DEF RollupTypes, TemplatesSet
    <2>. QED  BY <2>3, <2>4, <2>5, <2>6 DEF Progress
  <1>10. CASE UNCHANGED rollupVars
    BY <1>10 DEF rollupVars, Progress, RollupTypes, SimpleDone, ProofsRead, ProxiesDone,
       FactoryDone, TemplatesSet, Proxy, Contract, Done
  <1>. QED  BY <1>1, <1>2, <1>3, <1>4, <1>5, <1>6, <1>7, <1>8, <1>9, <1>10 DEF RollupNext

-----------------------------------------------------------------------------
(* A deployment of deploy/ that ends leaves a RollupCreator with current    *)
(* templates and a ChallengeFactory with current proofs, whatever died or   *)
(* was edited before.                                                       *)
THEOREM FinishedIsCurrent == RollupSpec => []FinishedDeployIsCurrent
  <1>1. Progress => FinishedDeployIsCurrent
    <2>. SUFFICES ASSUME Progress, at = Done  PROVE
             /\ templates[record["RollupCreator"].code] = [n \in Templates |-> record[n]]
             /\ \A n \in Names : record[n].code = artifact[n]
             /\ \A i \in 1 .. 3 : record["ChallengeFactory"].args[i].args[1] = record[Proofs[i]]
      BY DEF FinishedDeployIsCurrent
    <2>1. at = 16
      BY PlanSteps
    <2>2. \A n \in Simple : record[n] = Contract(n, <<>>)
      <3>. SUFFICES ASSUME NEW n \in Simple  PROVE record[n] = Contract(n, <<>>)
        OBVIOUS
      <3>1. PICK i \in 1 .. 14 : Plan[i] = n
        BY PlanSteps
      <3>. QED  BY <2>1, <3>1 DEF Progress, SimpleDone
    <2>3. /\ record["ProxyAdmin"] = Contract("ProxyAdmin", <<>>)
          /\ record["TransparentUpgradeableProxy"] = Proxy(3)
          /\ record["ChallengeFactory"] = Contract("ChallengeFactory", <<Proxy(1), Proxy(2), Proxy(3)>>)
          /\ osp = [i \in 1 .. 3 |-> record[Proofs[i]]]
      BY <2>1 DEF Progress, ProofsRead, ProxiesDone, FactoryDone
    <2>4. \A n \in Names : record[n].code = artifact[n]
      <3>1. \A n \in Simple : record[n].code = artifact[n]
        <4>. SUFFICES ASSUME NEW n \in Simple  PROVE record[n].code = artifact[n]
          OBVIOUS
        <4>1. record[n] = Contract(n, <<>>)
          BY <2>2
        <4>2. Contract(n, <<>>).code = artifact[n]
          BY DEF Contract
        <4>. QED  BY <4>1, <4>2
      <3>2. record["ProxyAdmin"].code = artifact["ProxyAdmin"]
        BY <2>3 DEF Contract
      <3>3. record["TransparentUpgradeableProxy"].code = artifact["TransparentUpgradeableProxy"]
        BY <2>3 DEF Contract, Proxy
      <3>4. record["ChallengeFactory"].code = artifact["ChallengeFactory"]
        BY <2>3 DEF Contract
      <3>. QED  BY <3>1, <3>2, <3>3, <3>4, AllNames
    <2>5. \A i \in 1 .. 3 : record["ChallengeFactory"].args[i] = Proxy(i)
      BY <2>3 DEF Contract
    <2>6. \A i \in 1 .. 3 : Proxy(i).args[1] = record[Proofs[i]]
      BY <2>3 DEF Proxy, Contract
    <2>. QED  BY <2>4, <2>5, <2>6 DEF Progress, TemplatesSet
  <1>. QED  BY <1>1, ProgressInit, ProgressStep, PTL DEF RollupSpec
=============================================================================
