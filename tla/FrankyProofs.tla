---------------------------- MODULE FrankyProofs ----------------------------
(***************************************************************************)
(* Proofs about the registry contract, for every set of accounts, devices, *)
(* agents, fees and amounts and every bound.  Each invariant is proved     *)
(* from the ones before it: TypeOK, then OwnerKnown, then the rest.        *)
(***************************************************************************)
EXTENDS Franky, FiniteSetTheorems, TLAPS

(* An agent record names an owner exactly when the agent was created: with *)
(* accountOwner = owner this makes a fresh salt mean "no such agent yet".  *)
OwnerKnown ==
  \A a \in Agents : IF agents[a].status = 0 THEN agents[a].owner = NullAddr
                                             ELSE agents[a].owner \in Accounts

(* A key hash is some block's hash of the account that holds it.           *)
KeysNameHolders ==
  \A a \in Agents, u \in Accounts :
    agentsKeyHash[a][u] = NoKey \/ \E b \in Nat : agentsKeyHash[a][u] = <<b, u>>

AllVars == <<devices, ownerDevices, agents, deviceAgents, agentsKeyHash,
             serverWallets, accountOwner, devicesCount, agentsCount,
             totalSupply, claimmables, balance, block>>

(* Stuttering on vars leaves each variable as it is.                       *)
LEMMA VarsFlat == UNCHANGED vars <=> UNCHANGED AllVars
BY DEF vars, registryVars, agentVars, fundVars, AllVars

-----------------------------------------------------------------------------
(* The contract's storage keeps its types: in particular agentsCount,      *)
(* tokenId and the balance never go below zero.                            *)
THEOREM TypeCorrect == Spec => []TypeOK
<1>1. Init => TypeOK
  BY FrankyAssumption DEF Init, TypeOK, NoDevice, NoAgent, Device, Agent
<1>2. TypeOK /\ [Next]_vars => TypeOK'
  <2> SUFFICES ASSUME TypeOK, [Next]_vars PROVE TypeOK'
    OBVIOUS
  <2> USE FrankyAssumption DEF TypeOK, registryVars, agentVars, fundVars
  <2>1. ASSUME NEW u \in Accounts, NEW w \in Wallets \cup {NullAddr},
               ConfigureServerWallet(u, w)
        PROVE  TypeOK'
    BY <2>1 DEF ConfigureServerWallet
  <2>2. ASSUME NEW u \in Accounts, NEW d \in Devices, NEW f \in Fees,
               NEW r \in Devices \cup {NullAddr}, RegisterDevice(u, d, f, r)
        PROVE  TypeOK'
    BY <2>2 DEF RegisterDevice, Device
  <2>3. ASSUME NEW u \in Accounts, NEW a \in Agents, NEW d \in Devices,
               NEW f \in Fees, NEW p \in BOOLEAN, NEW v \in Amounts,
               CreateAgent(u, a, d, f, p, v)
        PROVE  TypeOK'
    <3>1. devices' \in [Devices -> Device]
      <4>1. [devices[d] EXCEPT !.agentCount = @ + 1] \in Device
        BY SMTT(30) DEF Device
      <4>2. devices' = [devices EXCEPT ![d] = [devices[d] EXCEPT !.agentCount = @ + 1]]
        BY <2>3 DEF CreateAgent
      <4> QED BY <4>1, <4>2
    <3>2. agents' \in [Agents -> Agent]
      BY <2>3 DEF CreateAgent, MintedTokenId, Agent
    <3>3. /\ agentsKeyHash' \in [Agents -> [Accounts -> Keys \cup {NoKey}]]
          /\ accountOwner' \in [Agents -> Accounts \cup {NullAddr}]
      BY <2>3 DEF CreateAgent, DeployAgentAccount, RandomBytes32, Keys
    <3>4. balance' \in Nat /\ agentsCount' \in Nat /\ totalSupply' \in Nat
      BY <2>3 DEF CreateAgent
    <3>5. deviceAgents' \subseteq Devices \X Agents
      BY <2>3 DEF CreateAgent
    <3> QED BY <2>3, <3>1, <3>2, <3>3, <3>4, <3>5 DEF CreateAgent
  <2>4. ASSUME NEW u \in Accounts, NEW a \in Agents, RegenerateApiKey(u, a)
        PROVE  TypeOK'
    BY <2>4 DEF RegenerateApiKey, RandomBytes32, Keys
  <2>5. ASSUME NEW v \in Amounts, Receive(v) PROVE TypeOK'
    BY <2>5 DEF Receive
  <2>6. ASSUME NEW u \in Accounts, ClaimHBAR(u) PROVE TypeOK'
    BY <2>6 DEF ClaimHBAR
  <2>7. CASE NewBlock
    BY <2>7 DEF NewBlock
  <2>8. CASE UNCHANGED vars
    BY <2>8, VarsFlat DEF AllVars
  <2> QED BY <2>1, <2>2, <2>3, <2>4, <2>5, <2>6, <2>7, <2>8 DEF Next
<1> QED BY <1>1, <1>2, PTL DEF Spec

(* The owner of an agent record is known from the creation on.             *)
THEOREM OwnersKnown == Spec => []OwnerKnown
<1>1. Init => OwnerKnown
  BY DEF Init, OwnerKnown, NoAgent
<1>2. TypeOK /\ OwnerKnown /\ [Next]_vars => OwnerKnown'
  <2> SUFFICES ASSUME TypeOK, OwnerKnown, [Next]_vars PROVE OwnerKnown'
    OBVIOUS
  <2>1. CASE UNCHANGED agents
    BY <2>1 DEF OwnerKnown
  <2>2. ASSUME NEW u \in Accounts, NEW a \in Agents, NEW d \in Devices,
               NEW f \in Fees, NEW p \in BOOLEAN, NEW v \in Amounts,
               CreateAgent(u, a, d, f, p, v)
        PROVE  OwnerKnown'
    <3>1. agents'[a].owner = u /\ agents'[a].status # 0
      BY <2>2 DEF CreateAgent, TypeOK
    <3>2. \A b \in Agents \ {a} : agents'[b] = agents[b]
      BY <2>2 DEF CreateAgent, TypeOK
    <3> QED BY <3>1, <3>2 DEF OwnerKnown
  <2> QED BY <2>1, <2>2, VarsFlat
          DEF Next, ConfigureServerWallet, RegisterDevice, RegenerateApiKey,
              Receive, ClaimHBAR, NewBlock, agentVars, AllVars
<1> QED BY <1>1, <1>2, TypeCorrect, PTL DEF Spec

(* What createAgent does to the agents, in one place: the address was fresh *)
(* and only its record is new.                                              *)
LEMMA CreateAgentStep ==
  ASSUME TypeOK, OwnerKnown, \A b \in Agents : accountOwner[b] = agents[b].owner,
         NEW u \in Accounts, NEW a \in Agents, NEW d \in Devices,
         NEW f \in Fees, NEW p \in BOOLEAN, NEW v \in Amounts,
         CreateAgent(u, a, d, f, p, v)
  PROVE  /\ agents[a].status = 0
         /\ agents'[a].status # 0 /\ agents'[a].status \in 1..2
         /\ agents'[a].owner = u /\ agents'[a].deviceAddress = d
         /\ agents'[a].tokenId = totalSupply
         /\ \A b \in Agents \ {a} : agents'[b] = agents[b]
         /\ a \notin Created /\ Created' = Created \cup {a}
<1>1. agents[a].status = 0
  BY FrankyAssumption
     DEF CreateAgent, DeployAgentAccount, FreshSalt, OwnerKnown, TypeOK
<1>2. agents' = [agents EXCEPT ![a] =
                   [tokenId |-> totalSupply, deviceAddress |-> d, owner |-> u,
                    perApiCallFee |-> f, status |-> IF p THEN 2 ELSE 1]]
  <2>1. totalSupply' - 1 = totalSupply
    BY DEF CreateAgent, TypeOK
  <2> QED BY <2>1 DEF CreateAgent, MintedTokenId
<1>3. agents \in [Agents -> Agent]
  BY DEF TypeOK
<1>4. /\ agents'[a].status \in 1..2 /\ agents'[a].owner = u
      /\ agents'[a].deviceAddress = d /\ agents'[a].tokenId = totalSupply
  BY <1>2, <1>3
<1>5. \A b \in Agents \ {a} : agents'[b] = agents[b]
  BY <1>2, <1>3
<1>6. Created' = Created \cup {a} /\ a \notin Created
  BY <1>1, <1>4, <1>5 DEF Created
<1> QED BY <1>1, <1>4, <1>5, <1>6

-----------------------------------------------------------------------------
(* The hosting mappings agree with the agent records in every reachable     *)
(* state, also after a device was registered again.                         *)
THEOREM HostingCorrect == Spec => []HostingConsistent
<1>1. Init => HostingConsistent
  BY DEF Init, HostingConsistent, Created, NoAgent
<1>2. TypeOK /\ OwnerKnown /\ HostingConsistent /\ [Next]_vars => HostingConsistent'
  <2> SUFFICES ASSUME TypeOK, OwnerKnown, HostingConsistent, [Next]_vars
               PROVE  HostingConsistent'
    OBVIOUS
  <2>1. ASSUME UNCHANGED <<agents, deviceAgents, accountOwner>>,
               Registered \subseteq Registered'
        PROVE  HostingConsistent'
    BY <2>1 DEF HostingConsistent, Created
  <2>2. ASSUME NEW u \in Accounts, NEW d \in Devices, NEW f \in Fees,
               NEW r \in Devices \cup {NullAddr}, RegisterDevice(u, d, f, r)
        PROVE  HostingConsistent'
    <3>1. Registered \subseteq Registered'
      BY <2>2 DEF RegisterDevice, Registered, TypeOK
    <3> QED BY <2>1, <2>2, <3>1 DEF RegisterDevice, agentVars
  <2>3. ASSUME NEW u \in Accounts, NEW a \in Agents, NEW d \in Devices,
               NEW f \in Fees, NEW p \in BOOLEAN, NEW v \in Amounts,
               CreateAgent(u, a, d, f, p, v)
        PROVE  HostingConsistent'
    <3>1. /\ Created' = Created \cup {a} /\ a \notin Created
          /\ agents'[a].deviceAddress = d /\ agents'[a].owner = u
          /\ \A b \in Agents \ {a} : agents'[b] = agents[b]
      BY <2>3, CreateAgentStep DEF HostingConsistent
    <3>2. d \in Registered /\ Registered' = Registered
      BY <2>3 DEF CreateAgent, Registered, TypeOK, Device
    <3>3. deviceAgents' = deviceAgents \cup {<<d, a>>}
      BY <2>3 DEF CreateAgent
    <3>4. deviceAgents' = {<<agents'[b].deviceAddress, b>> : b \in Created'}
      <4>1. \A b \in Created : b \in Agents \ {a}
        BY <3>1 DEF Created
      <4>2. {<<agents'[b].deviceAddress, b>> : b \in Created \cup {a}}
              = {<<agents[b].deviceAddress, b>> : b \in Created} \cup {<<d, a>>}
        BY <3>1, <4>1
      <4> QED BY <3>1, <3>3, <4>2 DEF HostingConsistent
    <3>5. \A b \in Created' : agents'[b].deviceAddress \in Registered'
      BY <3>1, <3>2 DEF HostingConsistent, Created
    <3>6. \A b \in Agents : accountOwner'[b] = agents'[b].owner
      BY <2>3, <3>1 DEF CreateAgent, DeployAgentAccount, HostingConsistent, TypeOK
    <3> QED BY <3>4, <3>5, <3>6 DEF HostingConsistent
  <2>4. CASE UNCHANGED <<devices, agents, deviceAgents, accountOwner>>
    BY <2>1, <2>4 DEF Registered
  <2> QED BY <2>2, <2>3, <2>4, VarsFlat
          DEF Next, ConfigureServerWallet, RegenerateApiKey, Receive, ClaimHBAR,
              NewBlock, registryVars, agentVars, AllVars
<1> QED BY <1>1, <1>2, TypeCorrect, OwnersKnown, PTL DEF Spec

(* Token ids are dense and unique: the id of the next agent is the number   *)
(* of agents so far.                                                        *)
THEOREM TokenIdsCorrect == Spec => []TokenIdsDense
<1>1. Init => TokenIdsDense
  <2> SUFFICES ASSUME Init PROVE TokenIdsDense
    OBVIOUS
  <2>1. Created = {} /\ agentsCount = 0 /\ totalSupply = 0
    BY DEF Init, Created, NoAgent
  <2> QED BY <2>1, FS_EmptySet DEF TokenIdsDense
<1>2. TypeOK /\ OwnerKnown /\ HostingConsistent /\ TokenIdsDense /\ [Next]_vars
        => TokenIdsDense'
  <2> SUFFICES ASSUME TypeOK, OwnerKnown, HostingConsistent, TokenIdsDense,
                      [Next]_vars
               PROVE  TokenIdsDense'
    OBVIOUS
  <2>1. CASE UNCHANGED <<agents, agentsCount, totalSupply>>
    BY <2>1 DEF TokenIdsDense, Created
  <2>2. ASSUME NEW u \in Accounts, NEW a \in Agents, NEW d \in Devices,
               NEW f \in Fees, NEW p \in BOOLEAN, NEW v \in Amounts,
               CreateAgent(u, a, d, f, p, v)
        PROVE  TokenIdsDense'
    <3>1. /\ Created' = Created \cup {a} /\ a \notin Created
          /\ agents'[a].tokenId = totalSupply
          /\ \A b \in Agents \ {a} : agents'[b] = agents[b]
      BY <2>2, CreateAgentStep DEF HostingConsistent
    <3>2. /\ agentsCount' = agentsCount + 1 /\ totalSupply' = totalSupply + 1
          /\ totalSupply = agentsCount /\ agentsCount \in Nat
      BY <2>2 DEF CreateAgent, TokenIdsDense, TypeOK
    <3>3. Cardinality(Created') = Cardinality(Created) + 1
      <4>1. IsFiniteSet(Created)
        BY FS_Subset, FrankyAssumption DEF Created
      <4> QED BY <3>1, <4>1, FS_AddElement
    <3>4. {agents'[b].tokenId : b \in Created'} = 0 .. (agentsCount' - 1)
      <4>1. \A b \in Created : b \in Agents \ {a}
        BY <3>1 DEF Created
      <4>2. {agents'[b].tokenId : b \in Created \cup {a}}
              = {agents[b].tokenId : b \in Created} \cup {totalSupply}
        BY <3>1, <4>1
      <4>3. (0 .. (agentsCount - 1)) \cup {agentsCount} = 0 .. agentsCount
        BY <3>2
      <4>4. agentsCount' - 1 = agentsCount
        BY <3>2
      <4>5. {agents[b].tokenId : b \in Created} = 0 .. (agentsCount - 1)
        BY DEF TokenIdsDense
      <4> QED BY <3>1, <3>2, <4>2, <4>3, <4>4, <4>5
    <3> QED BY <3>2, <3>3, <3>4 DEF TokenIdsDense
  <2> QED BY <2>1, <2>2, VarsFlat
          DEF Next, ConfigureServerWallet, RegisterDevice, RegenerateApiKey,
              Receive, ClaimHBAR, NewBlock, agentVars, AllVars
<1> QED BY <1>1, <1>2, TypeCorrect, OwnersKnown, HostingCorrect, PTL DEF Spec

-----------------------------------------------------------------------------
(* API keys stay with created agents, and with the owner when private.      *)
THEOREM KeysCorrect == Spec => []KeysConfined
<1>1. Init => KeysConfined
  BY DEF Init, KeysConfined, Created, NoAgent
<1>2. TypeOK /\ OwnerKnown /\ HostingConsistent /\ KeysConfined /\ [Next]_vars
        => KeysConfined'
  <2> SUFFICES ASSUME TypeOK, OwnerKnown, HostingConsistent, KeysConfined,
                      [Next]_vars
               PROVE  KeysConfined'
    OBVIOUS
  <2>1. CASE UNCHANGED <<agents, agentsKeyHash>>
    BY <2>1 DEF KeysConfined, Created
  <2>2. ASSUME NEW u \in Accounts, NEW a \in Agents, NEW d \in Devices,
               NEW f \in Fees, NEW p \in BOOLEAN, NEW v \in Amounts,
               CreateAgent(u, a, d, f, p, v)
        PROVE  KeysConfined'
    <3>1. /\ Created' = Created \cup {a} /\ a \notin Created
          /\ agents'[a].owner = u
          /\ \A b \in Agents \ {a} : agents'[b] = agents[b]
      BY <2>2, CreateAgentStep DEF HostingConsistent
    <3>2. /\ agentsKeyHash'[a][u] = <<block, u>>
          /\ \A b \in Agents, w \in Accounts :
               <<b, w>> # <<a, u>> => agentsKeyHash'[b][w] = agentsKeyHash[b][w]
      BY <2>2 DEF CreateAgent, RandomBytes32, TypeOK
    <3>3. \A w \in Accounts : agentsKeyHash[a][w] = NoKey
      BY <3>1 DEF KeysConfined
    <3>4. <<block, u>> # NoKey
      BY FrankyAssumption DEF TypeOK
    <3>5. ASSUME NEW b \in Agents, NEW w \in Accounts, agentsKeyHash'[b][w] # NoKey
          PROVE  b \in Created' /\ (agents'[b].status = 1 => w = agents'[b].owner)
      <4>1. CASE b = a
        BY <3>1, <3>2, <3>3, <3>5, <4>1
      <4>2. CASE b # a
        BY <3>1, <3>2, <3>5, <4>2 DEF KeysConfined
      <4> QED BY <4>1, <4>2
    <3>6. ASSUME NEW b \in Created' PROVE agentsKeyHash'[b][agents'[b].owner] # NoKey
      <4>1. CASE b = a
        BY <3>1, <3>2, <3>4, <4>1
      <4>2. CASE b # a
        <5>1. b \in Created /\ b \in Agents /\ agents'[b] = agents[b]
          BY <3>1, <4>2 DEF Created
        <5>2. agents[b].owner \in Accounts
          BY <5>1 DEF OwnerKnown, Created
        <5> QED BY <3>2, <4>2, <5>1, <5>2 DEF KeysConfined
      <4> QED BY <4>1, <4>2
    <3> QED BY <3>5, <3>6 DEF KeysConfined
  <2>3. ASSUME NEW u \in Accounts, NEW a \in Agents, RegenerateApiKey(u, a)
        PROVE  KeysConfined'
    <3>1. UNCHANGED agents /\ Created' = Created
      BY <2>3 DEF RegenerateApiKey, Created
    <3>2. a \in Created /\ (agents[a].status = 1 => u = agents[a].owner)
      BY <2>3 DEF RegenerateApiKey, MayHoldKey, Created
    <3>3. /\ agentsKeyHash'[a][u] = <<block, u>>
          /\ \A b \in Agents, w \in Accounts :
               <<b, w>> # <<a, u>> => agentsKeyHash'[b][w] = agentsKeyHash[b][w]
      BY <2>3 DEF RegenerateApiKey, RandomBytes32, TypeOK
    <3>4. <<block, u>> # NoKey
      BY FrankyAssumption DEF TypeOK
    <3>5. \A b \in Agents, w \in Accounts : agentsKeyHash'[b][w] # NoKey =>
            b \in Created /\ (agents[b].status = 1 => w = agents[b].owner)
      BY <3>2, <3>3 DEF KeysConfined
    <3>6. \A b \in Created : agentsKeyHash'[b][agents[b].owner] # NoKey
      <4> SUFFICES ASSUME NEW b \in Created
                   PROVE  agentsKeyHash'[b][agents[b].owner] # NoKey
        OBVIOUS
      <4>1. b \in Agents /\ agents[b].owner \in Accounts
        BY DEF Created, OwnerKnown
      <4> QED BY <3>3, <3>4, <4>1 DEF KeysConfined
    <3> QED BY <3>1, <3>5, <3>6 DEF KeysConfined
  <2> QED BY <2>1, <2>2, <2>3, VarsFlat
          DEF Next, ConfigureServerWallet, RegisterDevice, Receive, ClaimHBAR,
              NewBlock, agentVars, AllVars
<1> QED BY <1>1, <1>2, TypeCorrect, OwnersKnown, HostingCorrect, PTL DEF Spec

(* Two accounts never share a key hash.                                     *)
THEOREM KeysUnshared == Spec => []KeysTellHolders
<1>1. Init => KeysNameHolders
  BY DEF Init, KeysNameHolders
<1>2. TypeOK /\ KeysNameHolders /\ [Next]_vars => KeysNameHolders'
  <2> SUFFICES ASSUME TypeOK, KeysNameHolders, [Next]_vars PROVE KeysNameHolders'
    OBVIOUS
  <2>1. CASE UNCHANGED agentsKeyHash
    BY <2>1 DEF KeysNameHolders
  <2>2. ASSUME NEW u \in Accounts, NEW a \in Agents,
               agentsKeyHash' = [agentsKeyHash EXCEPT ![a][u] = RandomBytes32(u)]
        PROVE  KeysNameHolders'
    <3>1. /\ agentsKeyHash'[a][u] = <<block, u>> /\ block \in Nat
          /\ \A b \in Agents, w \in Accounts :
               <<b, w>> # <<a, u>> => agentsKeyHash'[b][w] = agentsKeyHash[b][w]
      BY <2>2 DEF RandomBytes32, TypeOK
    <3> QED BY <3>1 DEF KeysNameHolders
  <2> QED BY <2>1, <2>2, VarsFlat
          DEF Next, ConfigureServerWallet, RegisterDevice, CreateAgent,
              RegenerateApiKey, Receive, ClaimHBAR, NewBlock, agentVars, AllVars
<1>3. KeysNameHolders => KeysTellHolders
  BY DEF KeysNameHolders, KeysTellHolders
<1> QED BY <1>1, <1>2, <1>3, TypeCorrect, PTL DEF Spec

-----------------------------------------------------------------------------
(* The counter of a device is at most the number of agents it hosts, and is *)
(* that number until some device is registered a second time.               *)
THEOREM AgentCountsCorrect == Spec => []AgentCountsHonest
<1>1. Init => AgentCountsHonest
  <2> SUFFICES ASSUME Init PROVE AgentCountsHonest
    OBVIOUS
  <2>1. Registered = {} /\ \A d \in Devices : HostedBy(d) = {}
    BY DEF Init, Registered, HostedBy, NoDevice
  <2>2. devicesCount = 0 /\ \A d \in Devices : devices[d].agentCount = 0
    BY DEF Init, NoDevice
  <2>3. Cardinality({}) = 0
    BY FS_EmptySet
  <2>4. Cardinality(Registered) = 0 /\ \A d \in Devices : Cardinality(HostedBy(d)) = 0
    BY <2>1, <2>3
  <2> QED BY <2>2, <2>4 DEF AgentCountsHonest
<1>2. TypeOK /\ OwnerKnown /\ HostingConsistent /\ AgentCountsHonest /\ [Next]_vars
        => AgentCountsHonest'
  <2> SUFFICES ASSUME TypeOK, OwnerKnown, HostingConsistent, AgentCountsHonest,
                      [Next]_vars
               PROVE  AgentCountsHonest'
    OBVIOUS
  <2>1. IsFiniteSet(Registered) /\ \A d \in Devices : IsFiniteSet(HostedBy(d))
    BY FS_Subset, FrankyAssumption DEF Registered, HostedBy
  <2>2. /\ Cardinality(Registered) \in Nat
        /\ \A d \in Devices : Cardinality(HostedBy(d)) \in Nat
    BY <2>1, FS_CardinalityType
  <2>3. CASE UNCHANGED <<devices, deviceAgents, devicesCount>>
    BY <2>3 DEF AgentCountsHonest, Registered, HostedBy
  <2>4. ASSUME NEW u \in Accounts, NEW d \in Devices, NEW f \in Fees,
               NEW r \in Devices \cup {NullAddr}, RegisterDevice(u, d, f, r)
        PROVE  AgentCountsHonest'
    <3>1. /\ Registered' = Registered \cup {d}
          /\ devices'[d].agentCount = 0
          /\ \A e \in Devices \ {d} : devices'[e] = devices[e]
          /\ devicesCount' = devicesCount + 1 /\ devicesCount \in Nat
      BY <2>4 DEF RegisterDevice, Registered, TypeOK
    <3>2. \A e \in Devices : HostedBy(e)' = HostedBy(e)
      BY <2>4 DEF RegisterDevice, agentVars, HostedBy
    <3>3. Cardinality(Registered')
            = IF d \in Registered THEN Cardinality(Registered)
                                  ELSE Cardinality(Registered) + 1
      BY <2>1, <3>1, FS_AddElement
    <3>4. d \notin Registered => HostedBy(d) = {}
      BY DEF HostingConsistent, HostedBy
    <3>5. devicesCount' >= Cardinality(Registered')
      BY <2>2, <3>1, <3>3 DEF AgentCountsHonest
    <3>6. \A e \in Devices : devices'[e].agentCount <= Cardinality(HostedBy(e)')
      BY <2>2, <3>1, <3>2 DEF AgentCountsHonest
    <3>7. ASSUME devicesCount' = Cardinality(Registered'), NEW e \in Devices
          PROVE  devices'[e].agentCount = Cardinality(HostedBy(e)')
      <4>1. d \notin Registered /\ devicesCount = Cardinality(Registered)
        BY <2>2, <3>1, <3>3, <3>7 DEF AgentCountsHonest
      <4>2. CASE e = d
        BY <3>1, <3>2, <3>4, <4>1, <4>2, FS_EmptySet
      <4>3. CASE e # d
        BY <3>1, <3>2, <4>1, <4>3 DEF AgentCountsHonest
      <4> QED BY <4>2, <4>3
    <3> QED BY <3>5, <3>6, <3>7 DEF AgentCountsHonest
  <2>5. ASSUME NEW u \in Accounts, NEW a \in Agents, NEW d \in Devices,
               NEW f \in Fees, NEW p \in BOOLEAN, NEW v \in Amounts,
               CreateAgent(u, a, d, f, p, v)
        PROVE  AgentCountsHonest'
    <3>1. a \notin Created
      BY <2>5, CreateAgentStep DEF HostingConsistent
    <3>2. a \notin HostedBy(d)
      BY <3>1 DEF HostedBy, HostingConsistent
    <3>3. /\ HostedBy(d)' = HostedBy(d) \cup {a}
          /\ \A e \in Devices \ {d} : HostedBy(e)' = HostedBy(e)
      BY <2>5 DEF CreateAgent, HostedBy
    <3>4. /\ devices'[d].agentCount = devices[d].agentCount + 1
          /\ devices[d].agentCount \in Nat
          /\ \A e \in Devices \ {d} : devices'[e] = devices[e]
      BY <2>5 DEF CreateAgent, TypeOK, Device
    <3>5. Registered' = Registered /\ devicesCount' = devicesCount
      BY <2>5 DEF CreateAgent, Registered, TypeOK, Device
    <3>6. Cardinality(HostedBy(d)') = Cardinality(HostedBy(d)) + 1
      BY <2>1, <3>2, <3>3, FS_AddElement
    <3>7. ASSUME NEW e \in Devices
          PROVE  devices'[e].agentCount <= Cardinality(HostedBy(e)')
      <4>1. CASE e = d
        <5>1. /\ devices[d].agentCount <= Cardinality(HostedBy(d))
              /\ Cardinality(HostedBy(d)) \in Nat
          BY <2>2 DEF AgentCountsHonest
        <5> QED BY <3>4, <3>6, <4>1, <5>1
      <4>2. CASE e # d
        BY <3>3, <3>4, <4>2 DEF AgentCountsHonest
      <4> QED BY <4>1, <4>2
    <3>8. ASSUME devicesCount' = Cardinality(Registered'), NEW e \in Devices
          PROVE  devices'[e].agentCount = Cardinality(HostedBy(e)')
      BY <3>3, <3>4, <3>5, <3>6, <3>8 DEF AgentCountsHonest
    <3> QED BY <3>5, <3>7, <3>8 DEF AgentCountsHonest
  <2> QED BY <2>3, <2>4, <2>5, VarsFlat
          DEF Next, ConfigureServerWallet, RegenerateApiKey, Receive, ClaimHBAR,
              NewBlock, registryVars, agentVars, AllVars
<1> QED BY <1>1, <1>2, TypeCorrect, OwnersKnown, HostingCorrect, PTL DEF Spec

(* What the owner may claim is always there to be paid.                     *)
THEOREM ClaimsCorrect == Spec => []ClaimsCovered
<1>1. Init => ClaimsCovered
  BY FrankyAssumption DEF Init, ClaimsCovered
<1>2. TypeOK /\ ClaimsCovered /\ [Next]_vars => ClaimsCovered'
  <2> SUFFICES ASSUME TypeOK, ClaimsCovered, [Next]_vars PROVE ClaimsCovered'
    OBVIOUS
  <2> USE FrankyAssumption DEF TypeOK, ClaimsCovered
  <2>1. CASE UNCHANGED fundVars
    BY <2>1 DEF fundVars
  <2>2. ASSUME NEW u \in Accounts, NEW a \in Agents, NEW d \in Devices,
               NEW f \in Fees, NEW p \in BOOLEAN, NEW v \in Amounts,
               CreateAgent(u, a, d, f, p, v)
        PROVE  ClaimsCovered'
    BY <2>2 DEF CreateAgent
  <2>3. ASSUME NEW v \in Amounts, Receive(v) PROVE ClaimsCovered'
    BY <2>3 DEF Receive
  <2>4. ASSUME NEW u \in Accounts, ClaimHBAR(u) PROVE ClaimsCovered'
    <3>1. u = Deployer
      BY <2>4 DEF ClaimHBAR
    <3> QED BY <2>4, <3>1 DEF ClaimHBAR
  <2> QED BY <2>1, <2>2, <2>3, <2>4, VarsFlat
          DEF Next, ConfigureServerWallet, RegisterDevice, RegenerateApiKey,
              NewBlock, fundVars, AllVars
<1> QED BY <1>1, <1>2, TypeCorrect, PTL DEF Spec

-----------------------------------------------------------------------------
(* No step changes a created agent or withdraws a key.                      *)
THEOREM AgentsNeverChange == Spec => AgentsPermanent
<1> DEFINE Keep == \A a \in Agents :
             /\ agents[a].status # 0 => agents'[a] = agents[a]
             /\ \A u \in Accounts :
                  agentsKeyHash[a][u] # NoKey => agentsKeyHash'[a][u] # NoKey
<1>1. TypeOK /\ OwnerKnown /\ HostingConsistent /\ [Next]_vars => [Keep]_vars
  <2> SUFFICES ASSUME TypeOK, OwnerKnown, HostingConsistent, [Next]_vars
               PROVE  Keep \/ UNCHANGED vars
    OBVIOUS
  <2>1. CASE UNCHANGED <<agents, agentsKeyHash>>
    BY <2>1
  <2>2. ASSUME NEW u \in Accounts, NEW a \in Agents,
               agentsKeyHash' = [agentsKeyHash EXCEPT ![a][u] = RandomBytes32(u)],
               \A b \in Agents : agents[b].status # 0 => agents'[b] = agents[b]
        PROVE  Keep
    <3>1. RandomBytes32(u) # NoKey
      BY FrankyAssumption DEF RandomBytes32, TypeOK
    <3>2. \A b \in Agents, w \in Accounts :
            agentsKeyHash'[b][w] = IF b = a /\ w = u THEN RandomBytes32(u)
                                                     ELSE agentsKeyHash[b][w]
      BY <2>2 DEF TypeOK
    <3> QED BY <2>2, <3>1, <3>2
  <2>3. ASSUME NEW u \in Accounts, NEW a \in Agents, NEW d \in Devices,
               NEW f \in Fees, NEW p \in BOOLEAN, NEW v \in Amounts,
               CreateAgent(u, a, d, f, p, v)
        PROVE  Keep
    <3>1. \A b \in Agents : agents[b].status # 0 => agents'[b] = agents[b]
      BY <2>3, CreateAgentStep DEF HostingConsistent
    <3>2. agentsKeyHash' = [agentsKeyHash EXCEPT ![a][u] = RandomBytes32(u)]
      BY <2>3 DEF CreateAgent
    <3> QED BY <2>2, <3>1, <3>2
  <2>4. ASSUME NEW u \in Accounts, NEW a \in Agents, RegenerateApiKey(u, a)
        PROVE  Keep
    BY <2>2, <2>4 DEF RegenerateApiKey
  <2> HIDE DEF Keep
  <2> QED BY <2>1, <2>3, <2>4, VarsFlat
          DEF Next, ConfigureServerWallet, RegisterDevice, Receive, ClaimHBAR,
              NewBlock, agentVars, AllVars
<1> QED BY <1>1, TypeCorrect, OwnersKnown, HostingCorrect, PTL
        DEF Spec, AgentsPermanent
=============================================================================
