----------------------------- MODULE Deployment -----------------------------
(***************************************************************************)
(* Bringing the escrow and the application up: the operator's .env, the    *)
(* deploy script (scripts/deploy.mjs, Deploy.s.sol), the check             *)
(* (scripts/verify-chain.mjs), the server and the browser build that each  *)
(* keep the environment they were started or built with, GET /api/health,  *)
(* and rotations of the contract's signer: whether the decisions that the  *)
(* server signs settle the jobs that the browser funds.                    *)
(*                                                                         *)
(* Every file may be edited, and every step taken, in any order.  An       *)
(* address is the deployer's nonce, so that escrows on two chains may have *)
(* the same one.                                                           *)
(*                                                                         *)
(* Abstracted: a key is identified with its address, an RPC URL with the   *)
(* chain it serves, a variable of the network that is unset with mainnet;  *)
(* values are well formed; the deployer has gas and a key of its own; RPCs *)
(* are reachable; NEXT_PUBLIC_BOT_RPC_URL is handled like the chain id.    *)
(*                                                                         *)
(* The D of DInit, DNext and so on keeps these names apart from those of   *)
(* JobPages: Application_proofs extends both.                              *)
(***************************************************************************)
EXTENDS Integers, Sequences

CONSTANTS
    Chains,     \* BOT_CHAIN_ID: mainnet and testnet
    Keys,       \* verifier keys
    Unset,      \* unset
    Mainnet,
    MaxDeploys  \* bound: deployments on two chains together

Address == 1..MaxDeploys

ASSUME DeploymentAssumption ==
    /\ Mainnet \in Chains /\ MaxDeploys \in Nat
    /\ Unset \notin Keys \cup Address /\ Unset \notin BOOLEAN

VARIABLES
    env,        \* .env, read by the scripts
    deployed,   \* deployed[c]: the verifierSigner of each escrow on chain c
    server,     \* the environment of the running server
    browser     \* the public values in the browser bundle

dvars == <<env, deployed, server, browser>>

\* VERIFIER_SIGNER is read by the deploy script alone.
Env == [rpc : Chains, chain : Chains, publicChain : Chains,
        escrow : Address \cup {Unset}, publicEscrow : Address \cup {Unset},
        key : Keys \cup {Unset}, signer : Keys \cup {Unset}]

Template == [rpc |-> Mainnet, chain |-> Mainnet, publicChain |-> Mainnet,
             escrow |-> Unset, publicEscrow |-> Unset, key |-> Unset, signer |-> Unset]

\* What the server makes of an environment, and next build.
Loaded(e) == [rpc |-> e.rpc, chain |-> e.chain, key |-> e.key,
              escrow |-> IF e.escrow # Unset THEN e.escrow ELSE e.publicEscrow]
Built(e) == [chain |-> e.publicChain, escrow |-> e.publicEscrow]

DInit ==
    /\ env = Template
    /\ deployed = [c \in Chains |-> <<>>]
    /\ server = Loaded(Template)
    /\ browser = Built(Template)

-----------------------------------------------------------------------------
(* Faulty variants, used by the mutants of PROJECT.json only.              *)

\* The mirrors not compared.
MirrorsIgnored == TRUE

\* Health comparing nothing but the presence of a key.
KeyIsEnough(s) == s.key # Unset

\* The signer taken from VERIFIER_SIGNER alone.
SignerUnderived == env.signer

-----------------------------------------------------------------------------
(* Contracts.                                                              *)

Exists(c, a) == a # Unset /\ a <= Len(deployed[c])

\* Every decision carries the chain id and the escrow it is signed for.
AcceptsFrom(c, a, s) ==
    Exists(c, a) /\ s.chain = c /\ s.escrow = a /\ s.key = deployed[c][a]

\* A job that the browser funds is read, judged and signed for by the server,
\* and its decision is accepted where the browser sends it.
Settles ==
    /\ server.rpc = browser.chain /\ server.escrow = browser.escrow
    /\ AcceptsFrom(browser.chain, browser.escrow, server)

-----------------------------------------------------------------------------
(* verify-chain.mjs.                                                       *)

ChainMatches == env.rpc = env.chain

\* Unset values are reported and not held against the operator.
EscrowMatches ==
    env.escrow # Unset =>
        /\ Exists(env.rpc, env.escrow)
        /\ env.key # Unset => env.key = deployed[env.rpc][env.escrow]

MirrorsMatch == env.chain = env.publicChain /\ env.escrow = env.publicEscrow

VerifyPasses == ChainMatches /\ EscrowMatches /\ MirrorsMatch

-----------------------------------------------------------------------------
(* GET /api/health: verifierMatchesContract.                               *)

Matches(s) == s.key = deployed[s.rpc][s.escrow]

Health == IF server.key # Unset /\ Exists(server.rpc, server.escrow)
          THEN Matches(server) ELSE Unset

-----------------------------------------------------------------------------
Edit ==
    /\ \E f \in DOMAIN env, x \in Chains \cup Address \cup Keys \cup {Unset} :
          /\ [env EXCEPT ![f] = x] \in Env
          /\ env' = [env EXCEPT ![f] = x]
    /\ UNCHANGED <<deployed, server, browser>>

\* deploy.mjs derives the signer unless it is set.
VerifierSigner == IF env.signer # Unset THEN env.signer ELSE env.key

\* require(block.chainid == expected) in Deploy.s.sol
RightChain == env.rpc = env.chain

\* npm run contracts:deploy -- --yes
Deploy ==
    /\ env.key # Unset \/ env.signer # Unset
    /\ VerifyPasses
    /\ RightChain
    /\ Len(deployed[env.rpc]) < MaxDeploys
    /\ \A c \in Chains \ {env.rpc} :
          Len(deployed[c]) + Len(deployed[env.rpc]) < MaxDeploys
    /\ deployed' = [deployed EXCEPT ![env.rpc] = Append(@, VerifierSigner)]
    /\ UNCHANGED <<env, server, browser>>

\* The owner calls setVerifierSigner.
Rotate(c, a, k) ==
    /\ Exists(c, a)
    /\ deployed' = [deployed EXCEPT ![c][a] = k]
    /\ UNCHANGED <<env, server, browser>>

\* npm run start, with this .env
StartServer ==
    /\ server' = Loaded(env)
    /\ UNCHANGED <<env, deployed, browser>>

\* npm run build, with this .env
Build ==
    /\ browser' = Built(env)
    /\ UNCHANGED <<env, deployed, server>>

DNext ==
    \/ Edit \/ Deploy \/ StartServer \/ Build
    \/ \E c \in Chains, a \in Address, k \in Keys : Rotate(c, a, k)

DSpec == DInit /\ [][DNext]_dvars

-----------------------------------------------------------------------------
(* Properties.                                                             *)

\* Types; every escrow trusts a key.
DTypeOK ==
    /\ env \in Env
    /\ deployed \in [Chains -> Seq(Keys)]
    /\ \A c \in Chains : Len(deployed[c]) <= MaxDeploys
    /\ server \in [rpc : Chains, chain : Chains, key : Keys \cup {Unset},
                   escrow : Address \cup {Unset}]
    /\ browser \in [chain : Chains, escrow : Address \cup {Unset}]

\* docs/deployment.md:131: when chain:verify passes on the environment that the
\* server and the browser run with, key and escrow included, decisions settle.
CertifiedSettles ==
    /\ VerifyPasses
    /\ env.key # Unset /\ env.escrow # Unset
    /\ server = Loaded(env) /\ browser = Built(env)
    => Settles

\* docs/deployment.md:152: a health answer other than true means that nothing can
\* settle; and if it is true, nothing but a chain id or a mirror that is off
\* can be in the way.
HealthTells ==
    /\ Settles => Health = TRUE
    /\ /\ Health = TRUE
       /\ server.chain = server.rpc
       /\ browser = [chain |-> server.chain, escrow |-> server.escrow]
       => Settles

=============================================================================
