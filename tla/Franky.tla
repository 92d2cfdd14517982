------------------------------- MODULE Franky -------------------------------
(***************************************************************************)
(* The Franky registry contract (blockend/contracts/Franky.sol) together   *)
(* with the agent accounts it clones.  One action is one transaction that  *)
(* does not revert; a reverted transaction changes nothing and is a        *)
(* stuttering step.                                                        *)
(*                                                                         *)
(* The address of an agent is that of a deterministic clone, a function of *)
(* the hash of the metadata alone, so an element of Agents stands both for *)
(* that salt and for the address.  Strings (metadata, subdomain, character *)
(* configuration, encrypted keys) are left out: no guard reads them.       *)
(***************************************************************************)
EXTENDS Integers, FiniteSets

CONSTANTS
  Accounts,    \* externally owned accounts that send transactions
  Deployer,    \* the account that ran the constructor
  Devices,     \* device addresses, perhaps the null address among them
  Agents,      \* agent addresses, one per metadata salt
  Wallets,     \* server wallet addresses
  Fees,        \* hosting fees and per-call fees
  Amounts,     \* values, in tinybars, sent along with a transaction
  NullAddr,    \* address(0)
  NoKey,       \* bytes32(0): no API key hash recorded
  MaxBlock,    \* bound: blocks produced
  MaxDevices,  \* bound: registrations
  MaxBalance   \* bound: tinybars held by the contract

ASSUME FrankyAssumption ==
  /\ Deployer \in Accounts
  /\ NullAddr \notin Accounts \cup Wallets
  /\ NoKey \notin Nat \X Accounts
  /\ Fees \subseteq Nat /\ 0 \in Fees
  /\ Amounts \subseteq Nat
  /\ MaxBlock \in Nat /\ MaxDevices \in Nat /\ MaxBalance \in Nat
  /\ IsFiniteSet(Devices) /\ IsFiniteSet(Agents)

VARIABLES
  devices,        \* address -> Device
  ownerDevices,   \* the pairs <<owner, device>> mapped to true
  agents,         \* address -> Agent
  deviceAgents,   \* the pairs <<device, agent>> mapped to true
  agentsKeyHash,  \* agent -> account -> hash of its API key
  serverWallets,  \* account -> server wallet address
  accountOwner,   \* agent -> owner stored in the cloned agent account
  devicesCount,
  agentsCount,
  totalSupply,    \* serials minted on the agents NFT
  claimmables,    \* account -> tinybars it may claim
  balance,        \* tinybars held by the contract
  block           \* number of the current block

registryVars == <<devices, ownerDevices, devicesCount>>
agentVars    == <<agents, deviceAgents, agentsKeyHash, accountOwner,
                  agentsCount, totalSupply>>
fundVars     == <<claimmables, balance>>
vars == <<registryVars, agentVars, fundVars, serverWallets, block>>

(* A status of 0 is Solidity's default: no agent.  1 is private, 2 public. *)
Device == [owner : Accounts \cup {NullAddr}, hostingFee : Fees,
           agentCount : Nat, isRegistered : BOOLEAN]
Agent  == [tokenId : Nat, deviceAddress : Devices \cup {NullAddr},
           owner : Accounts \cup {NullAddr}, perApiCallFee : Fees,
           status : 0..2]
Keys   == Nat \X Accounts

NoDevice == [owner |-> NullAddr, hostingFee |-> 0, agentCount |-> 0,
             isRegistered |-> FALSE]
NoAgent  == [tokenId |-> 0, deviceAddress |-> NullAddr, owner |-> NullAddr,
             perApiCallFee |-> 0, status |-> 0]

(* Variant: a key hash that leaves msg.sender out.                         *)
BlockHash(sender) == <<block, Deployer>>

(* getRandomBytes32 hashes the timestamp, the randomness and the parent    *)
(* hash of the block with msg.sender: within one block it depends on the   *)
(* sender alone.                                                           *)
RandomBytes32(sender) == <<block, sender>>

(* The constructor is payable, and what it received cannot be claimed.     *)
Init ==
  /\ devices = [d \in Devices |-> NoDevice]
  /\ ownerDevices = {}
  /\ agents = [a \in Agents |-> NoAgent]
  /\ deviceAgents = {}
  /\ agentsKeyHash = [a \in Agents |-> [u \in Accounts |-> NoKey]]
  /\ serverWallets = [u \in Accounts |-> NullAddr]
  /\ accountOwner = [a \in Agents |-> NullAddr]
  /\ devicesCount = 0 /\ agentsCount = 0 /\ totalSupply = 0
  /\ claimmables = [u \in Accounts |-> 0]
  /\ balance \in Amounts
  /\ block = 0
-----------------------------------------------------------------------------
(* The require admits a second call as long as the stored address is zero, *)
(* which it still is after a call that configured address(0).              *)
ConfigureServerWallet(sender, wallet) ==
  /\ serverWallets[sender] = NullAddr
  /\ serverWallets' = [serverWallets EXCEPT ![sender] = wallet]
  /\ UNCHANGED <<registryVars, agentVars, fundVars, block>>

(* The signature must recover to the device; one that recovers to nobody   *)
(* yields the null address, which passes for a device.  Nothing looks at   *)
(* what the mapping held before: a second registration replaces the record *)
(* and resets its agent count, and the former owner stays in ownerDevices. *)
RegisterDevice(sender, d, hostingFee, recovered) ==
  /\ recovered = d
  /\ devicesCount < MaxDevices
  /\ devices' = [devices EXCEPT ![d] =
                   [owner |-> sender, hostingFee |-> hostingFee,
                    agentCount |-> 0, isRegistered |-> TRUE]]
  /\ ownerDevices' = ownerDevices \cup {<<sender, d>>}
  /\ devicesCount' = devicesCount + 1
  /\ UNCHANGED <<agentVars, fundVars, serverWallets, block>>

(* Variant: accounts cloned at an address that salts do not determine.     *)
AnySalt(a) == TRUE

(* cloneDeterministic reverts when code already sits at the address, so a  *)
(* salt serves once.                                                       *)
FreshSalt(a) == accountOwner[a] = NullAddr

(* Deploying the clone and initialising it.                                *)
DeployAgentAccount(a, sender) ==
  /\ FreshSalt(a)
  /\ accountOwner' = [accountOwner EXCEPT ![a] = sender]

(* Variants: the id taken from the supply before the mint, and the serial. *)
IdBeforeMint == totalSupply - 1
SerialAsId == totalSupply'

(* mintToken answers with the supply after the mint.                       *)
MintedTokenId == totalSupply' - 1

CreateAgent(sender, a, d, perApiCallFee, isPublic, value) ==
  /\ devices[d].isRegistered
  /\ balance + value <= MaxBalance
  /\ DeployAgentAccount(a, sender)
  /\ totalSupply' = totalSupply + 1
  /\ agents' = [agents EXCEPT ![a] =
                  [tokenId |-> MintedTokenId, deviceAddress |-> d,
                   owner |-> sender, perApiCallFee |-> perApiCallFee,
                   status |-> IF isPublic THEN 2 ELSE 1]]
  /\ agentsKeyHash' = [agentsKeyHash EXCEPT ![a][sender] = RandomBytes32(sender)]
  /\ deviceAgents' = deviceAgents \cup {<<d, a>>}
  /\ devices' = [devices EXCEPT ![d].agentCount = @ + 1]
  /\ agentsCount' = agentsCount + 1
  /\ balance' = balance + value
  /\ UNCHANGED <<ownerDevices, devicesCount, claimmables, serverWallets, block>>

(* Variant: a check of the agent only, not of who asks.                    *)
AgentActive(sender, a) == agents[a].status # 0

(* A private agent's key belongs to its owner alone; of a public agent     *)
(* every account may have one.                                             *)
MayHoldKey(sender, a) ==
  \/ agents[a].status = 1 /\ sender = agents[a].owner
  \/ agents[a].status = 2

RegenerateApiKey(sender, a) ==
  /\ MayHoldKey(sender, a)
  /\ agentsKeyHash' = [agentsKeyHash EXCEPT ![a][sender] = RandomBytes32(sender)]
  /\ UNCHANGED <<registryVars, agents, deviceAgents, accountOwner, agentsCount,
                 totalSupply, fundVars, serverWallets, block>>

(* receive and fallback do the same: the deposit replaces, and does not    *)
(* add to, what the owner could claim.                                     *)
Receive(value) ==
  /\ balance + value <= MaxBalance
  /\ claimmables' = [claimmables EXCEPT ![Deployer] = value]
  /\ balance' = balance + value
  /\ UNCHANGED <<registryVars, agentVars, serverWallets, block>>

(* Variant: a claim that is paid and not cleared.                          *)
ClaimKept(sender) ==
  /\ claimmables[sender] > 0 /\ balance >= claimmables[sender]
  /\ balance' = balance - claimmables[sender]
  /\ UNCHANGED <<claimmables, registryVars, agentVars, serverWallets, block>>

(* transfer reverts the call when the contract holds less than the amount. *)
ClaimHBAR(sender) ==
  /\ claimmables[sender] > 0
  /\ balance >= claimmables[sender]
  /\ claimmables' = [claimmables EXCEPT ![sender] = 0]
  /\ balance' = balance - claimmables[sender]
  /\ UNCHANGED <<registryVars, agentVars, serverWallets, block>>

NewBlock ==
  /\ block < MaxBlock
  /\ block' = block + 1
  /\ UNCHANGED <<registryVars, agentVars, fundVars, serverWallets>>

Next ==
  \/ \E u \in Accounts, w \in Wallets \cup {NullAddr} : ConfigureServerWallet(u, w)
  \/ \E u \in Accounts, d \in Devices, f \in Fees, r \in Devices \cup {NullAddr} :
       RegisterDevice(u, d, f, r)
  \/ \E u \in Accounts, a \in Agents, d \in Devices, f \in Fees,
        isPublic \in BOOLEAN, v \in Amounts : CreateAgent(u, a, d, f, isPublic, v)
  \/ \E u \in Accounts, a \in Agents : RegenerateApiKey(u, a)
  \/ \E v \in Amounts : Receive(v)
  \/ \E u \in Accounts : ClaimHBAR(u)
  \/ NewBlock

Spec == Init /\ [][Next]_vars
-----------------------------------------------------------------------------
(* Every variable keeps its type: what the storage layout of the contract   *)
(* promises.                                                                *)
TypeOK ==
  /\ devices \in [Devices -> Device]
  /\ ownerDevices \subseteq Accounts \X Devices
  /\ agents \in [Agents -> Agent]
  /\ deviceAgents \subseteq Devices \X Agents
  /\ agentsKeyHash \in [Agents -> [Accounts -> Keys \cup {NoKey}]]
  /\ serverWallets \in [Accounts -> Wallets \cup {NullAddr}]
  /\ accountOwner \in [Agents -> Accounts \cup {NullAddr}]
  /\ devicesCount \in Nat /\ agentsCount \in Nat /\ totalSupply \in Nat
  /\ claimmables \in [Accounts -> Nat]
  /\ balance \in Nat
  /\ block \in Nat

Created      == {a \in Agents : agents[a].status # 0}
Registered   == {d \in Devices : devices[d].isRegistered}
HostedBy(d)  == {a \in Agents : <<d, a>> \in deviceAgents}

(* The mappings that createAgent fills agree: an agent is hosted by exactly  *)
(* the device it names, that device is registered whatever was registered    *)
(* again since, and the cloned account obeys the owner the registry names.   *)
HostingConsistent ==
  /\ deviceAgents = {<<agents[a].deviceAddress, a>> : a \in Created}
  /\ \A a \in Created : agents[a].deviceAddress \in Registered
  /\ \A a \in Agents : accountOwner[a] = agents[a].owner

(* The token ids recorded for the agents are 0 .. agentsCount - 1, each      *)
(* once: the id is computed from the token's supply after the mint, and no   *)
(* interleaving of creations makes two agents share one or skips one.        *)
TokenIdsDense ==
  /\ agentsCount = Cardinality(Created) /\ totalSupply = agentsCount
  /\ {agents[a].tokenId : a \in Created} = 0 .. (agentsCount - 1)

(* A key hash exists only for an agent that was created, and for a private   *)
(* agent only under its owner, who always has one; a device that changes     *)
(* hands takes no key with it.                                               *)
KeysConfined ==
  /\ \A a \in Agents, u \in Accounts : agentsKeyHash[a][u] # NoKey =>
       a \in Created /\ (agents[a].status = 1 => u = agents[a].owner)
  /\ \A a \in Created : agentsKeyHash[a][agents[a].owner] # NoKey

(* A key hash tells its holder apart: two accounts never hold the same one,  *)
(* though keys drawn in one block by one account are equal.                  *)
KeysTellHolders ==
  \A a, b \in Agents, u, v \in Accounts :
    agentsKeyHash[a][u] # NoKey /\ agentsKeyHash[a][u] = agentsKeyHash[b][v]
      => u = v

(* A device's agentCount never exceeds the agents it hosts, and as long as   *)
(* no device was registered twice (devicesCount counts registrations) the    *)
(* two are equal.                                                            *)
AgentCountsHonest ==
  /\ devicesCount >= Cardinality(Registered)
  /\ \A d \in Devices : devices[d].agentCount <= Cardinality(HostedBy(d))
  /\ devicesCount = Cardinality(Registered)
       => \A d \in Devices : devices[d].agentCount = Cardinality(HostedBy(d))

(* The contract can always pay what can be claimed from it, whatever order   *)
(* deposits, agent creations and claims come in; only its owner has a claim. *)
ClaimsCovered ==
  /\ claimmables[Deployer] <= balance
  /\ \A u \in Accounts \ {Deployer} : claimmables[u] = 0

(* What a created agent is (id, device, owner, fee, visibility) never        *)
(* changes, and no key hash is ever withdrawn: creating again under the same *)
(* metadata must not replace an agent somebody uses.                         *)
AgentsPermanent ==
  [][\A a \in Agents :
       /\ agents[a].status # 0 => agents'[a] = agents[a]
       /\ \A u \in Accounts :
            agentsKeyHash[a][u] # NoKey => agentsKeyHash'[a][u] # NoKey]_vars
=============================================================================
