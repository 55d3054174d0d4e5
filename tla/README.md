# A verification development for LP-0005, private token balance attestation

The program lets the holder of a shielded account on the Logos Execution Zone
(LEZ) prove "this account holds at least N" without telling which account it is
or what it holds. A proof becomes useful in two places: on chain, where the
*deep gate* turns it into a marker account whose address says who met which
floor in which context, and off chain, where a *credential* (receipt, challenge
nonce, signature) travels over Logos Messaging and is verified by its recipient.

This directory holds the TLA+ modules that model that system, the TLC
configurations that check them on small instances, and proofs of the central
theorems, for every value of the constants, checked by TLAPS.

## 1. Inventory

| Part | State it keeps | Operations | What makes it correct |
|---|---|---|---|
| `crates/attestation-core` | none | `derive_account_id`, `compute_commitment`, `fold_merkle_path`, `compute_nullifier`, `compute_gate_tag`, `attest` | folding to a root means being that leaf of that tree; distinct inputs give distinct hashes |
| circuit guests (`attestation`, `attestation_lez`) | none | `main`: run the statement, abort or commit the journal | no proof of a false statement |
| deep verifier (`guest-deep`) | on chain: the marker accounts it owns | `gated_check` | a marker stands for what its account held; nobody else's key; no stale state |
| LEZ (external) | accounts, commitment set, nullifiers, root history | transfers, settlement of privacy transactions | one live commitment per account |
| `crates/verifier-offchain` | none | `verify_receipt`, `verify_credential` | accepts only what the presenter signed for this context and floor |
| `crates/sdk` | presenter key | `prove`, `sign`, synthetic paths, `ProveError::classify` | a receipt only for a true statement; a failure is put down to its cause |
| `integrations/chat-gate` | `GroupRoster.members`, `used_nullifiers` | `admit`; the example's `check_root_freshness` | one join per attestation, nothing burned by a refusal |
| `crates/sequencer-client` | none; a call in progress | JSON-RPC `call` and the typed methods, `commitment_set_root`, `is_root_current`, the fold | an answer was true during the call, an error decides nothing, a current root is the chain's; every call returns |
| `delivery-transport::inmem` | a map of topics to channels, two kinds of locks | `send`, `recv` | FIFO, exactly once, no deadlock |
| `delivery-transport::waku_rest` | the node's subscriptions and buffers (external) | `subscribe`, `send`, `recv`, `health` | nothing is silently lost; payloads and topics survive their encoding |
| Basecamp bridge (`app/src`) | status, ready flag, a child process, two files | `prove`, `send` | "ready" names the file that is on disk, until a later child opens it; the user's key is never replaced; the slot returns |
| `attest` CLI | `presenter.json`, `credential.bin` | `keygen`, `prove`, `sign-challenge`, `sign-digest`, `gated-check-args`, `verify` | what is on file can be signed for and verifies |
| first and shallow verifiers | none | `gated_check` | accept what the SDK signs |
| `verifier-program`, `governance-gate` | `ProposalState`: two counters, nullifiers | `check_gate`, `cast_vote` | a vote per nullifier and proposal |
| `premium-features` | `active_sessions` | `activate`, `tier_for` | one session per nullifier |
| `nostr-auth-gate` | none | `verify_nip42_with_lp0005` | context of this relay only |
| scripts, benchmarks, user interface | none of their own | | |

How they meet: a wallet or the SDK runs a guest over a witness it got from the
sequencer (`getProofForCommitment`) or made up itself; the deep gate chains to
the LEZ guest inside one privacy transaction; the sequencer settles that
transaction later, against the state of then. Off chain, the candidate's
credential passes a transport, the roster calls the off-chain verifier, and the
operator asks a sequencer about the root afterwards. The plugin runs the CLI as
a child process and shares two files with it.

What is hard: proving takes seconds to minutes, so *every* input is stale when it
is used; the witness, the signer, the nullifier, the floor, the context and the
root are all supplied by the caller, so what is not bound to each other is free;
deliveries are late, repeated, altered or lost; two locks and blocking calls on
async worker threads; child processes that outlive their time limit or their
parent, commands that read and write two files one after the other, and files
that outlive the process that was writing them; a sequencer that moves on while
it is asked. `PROJECT.json` lists the hazards
at their lines with the properties that watch them.

## 2. Modules

    AttestationCore          hashes, statement, digest, signatures (no state)
      +- LezChain            the chain the gate relies on (external)
      |    +- DeepGate       wallets, gated_check, settlement, markers
      |    |     -> GateRegistry   what the gate promises (abstract)
      |    +- ChatAdmission  candidates, deliveries, roster, freshness check
      +- OffchainVerifier    receipts and verify_credential (no state), used by
           |                 ChatAdmission
           +- VerifierGuests the pool of receipts and signatures, the first and the
                |            shallow guest, the portable kernel
                +- AppGates  votes, tiers and the Nostr relay over the same pool
                      -> UseOnce   one use per nullifier and scope (abstract)
    MerkleFold               the fold loop against a tree
      +- SequencerClient     calls, replies, the answers made of them; the fold inside
    AccountIds               base58 of account ids (no state), used by SequencerClient
    TextCodecs               base64, topic encoding (no state)
      +- WakuGate            the demonstration's driver, two Waku nodes, the relay
    AttestCli                the attest commands as processes on two files
      +- BasecampBridge      plugin slot and the children it waits for or left behind
    InMemTransport           the in-process bus: locks, channels, workers

    LezChain_proofs, DeepGate_proofs, ChatAdmission_proofs, AppGates_proofs,
    WakuGate_proofs, BasecampBridge_proofs, InMemTransport_proofs,
    SequencerClient_proofs                              theorems
    MCDeepGate, MCChatAdmission, MCAppGates, MCInMem         instances for TLC

### Abstractions

* A hash is the record of what it commits to: equal exactly if its components are
  equal. The code hashes fixed-width, prefixed inputs.
* A Merkle root is the set of its leaves and a path the rest of that set.
  `MerkleFold` justifies it: it runs the loop of `fold_merkle_path` and
  `fold_membership_proof` over every index and sibling list, and shows that
  reaching a tree's root means being the leaf at the indexed position with the
  tree's own path (`FoldSound`), and that the tree's own path reaches it
  (`FoldComplete`).
* ECDSA is ideal: a signature names its key and its digest.
* A receipt's seal is the journal it was made for, so a receipt whose journal was
  changed on the way is one whose two fields differ.
* `data_hash` is dropped from commitments: no check reads it.

### State and actions against the code

**DeepGate** (`attestation_verifier_deep.rs`, `attestation_lez.rs`, core).
`GatedCheck` is the instruction's body with one conjunct per early return, in its
order, each with its error code. `ProveGatedCheck` is what a wallet does: run
`gated_check`, run the chained attestation, require the marker account it
supplies to be unclaimed, and emit a transaction. `SettleGatedCheck` is the
sequencer: nullifier unused, root historical, marker still unclaimed; it then
moves the account to its next state and creates the marker. `SignChallenge` is
the presenter's signature as `build-privacy-gated-check.py` makes it. Proved
transactions form a set that only grows, so they are submitted late, twice and in
any order. The chain moves by transfers between any two token accounts.

**GateRegistry** is the promise without the machinery: a registry of grants (key,
account, context, floor), each recorded once and only while the account, under
the token program, holds the floor and the key's holder has approved at least it.
`DeepGate!ImplementsRegistry` maps markers to grants, signatures to approvals and
LEZ accounts to holdings.

**ChatAdmission** (`chat-gate/src/lib.rs`, its example, `verifier-offchain`, SDK,
`is_root_current`). `Admit` verifies, inserts the nullifier, inserts the member,
in one call that writes nothing on error. Its arguments range over every receipt
ever proved or altered and every signature ever made, which is what a network
that delays, repeats, drops and mixes messages can deliver. Candidates prove over
any state an account ever had, over invented states, under the chain's tree or
under a tree of their own.

**VerifierGuests** (`attestation_verifier.rs`, `attestation_verifier_shallow.rs`,
`verifier-program`, the `attest` commands that prepare calls). Receipts and
signatures are a pool that only grows. `Prove` yields a receipt of a true
statement under a tree of the prover's, as `attest prove` does; `Sign` signs any
journal in circulation with any key, since `gated-check-args` reads the journal
from one file and the key from another and does not verify the receipt;
`SignDigest` signs what the first guest would hash. `HostChecks` is the common
sequence of checks of both guests as the error code it answers, `KernelChecks`
the kernel's as its error. The first guest's confirmation needs a proof of the
very journal (its chained call), the shallow guest's does not.

**AppGates** (`governance-gate`, `premium-features`, `nostr-auth-gate`) extends it:
`CastVote`, `Activate` and `VerifyNip42` are offered everything in the pool, one
action per call, with no write on an error. `cast_vote` is given journals that
were proved, because the kernel's contract leaves that to the program around it;
the other two verify receipts themselves and are given altered ones too. Votes of
every proposal and activations of the service are, under `VotesUseOnce` and
`SessionsUseOnce`, behaviours of the abstract **UseOnce**: a use is counted
exactly when a token is spent, once in its scope, for good.

**WakuGate** (`waku_rest.rs`, `CredentialEnvelope`, `waku_token_gate.rs`). The
driver's phases are the statements of the example's `main`; each REST call may
fail before or after the node has done its part. A poll hands over the whole
buffer of the node; `recv` decodes the first payload and drops the rest, and a
payload that does not decode ends the run. The relay is external: it delays,
reorders and loses messages, carries other members' credentials and junk, and
the candidate's node gains and loses its peers.

**InMemTransport** (`inmem.rs`). One action for each lock taken or freed and each
channel operation. `send` and `recv` contain no await, so a started call keeps
its worker; `recv` blocks the worker.

**SequencerClient** (`sequencer-client/src/lib.rs`). A call is `Start`, the
sequencer's `Serve`, then `Receive`, which is `call` and the typed method after it:
`ReadEnvelope` (HTTP status, error before result, an absent result is null),
`Decode` and `DecodeProofTuple` by the JSON values each method tells apart.
`is_root_current` goes on with the fold, one `FoldTurn` per sibling, and
`Compare`. `TimeOut` may come at any moment, with a request still on its way. In
the meantime transactions are included. `seen` records what was true during the
call, and `faithful`, chosen once, whether the peer answers from its state or with
anything, proofs of any index and siblings among it.

**AttestCli** (`attest.rs`, `ProveError`). Each command is a process with its own
step counter. `keygen` opens (truncates) the key file and writes it, whether or not
there was one; `prove` loads the key, proves, opens `credential.bin` and writes it;
a signing command loads the key and then reads the journal. A process may fail
before it has written or after it has truncated, and may be interrupted or killed
at any moment, between its last write and its exit too. The
key a process has read is its own copy: the file may change under it. An error of
the prover is the set of phrases its message contains, which `Classify` looks for
in the order of the code.

**BasecampBridge** (`attestation_bridge.cpp`) extends it with the slot. The slot is
synchronous; its phases are the two waits. A child exits, well or badly (the disk is
full, somebody kills it), or outlasts its limit, in which case the code sees exit
code 0 and kills it as its `QProcess` goes out of scope, between any two of its
steps. After a bad exit the slot returns with the ready flag as it was, whatever
the child did to the file. Basecamp may stop at any moment: the slot's
state is gone, the files stay, and a child goes on as a process nobody waits for,
next to the children of the following Basecamp and to commands from a terminal.

**TextCodecs** (`waku_rest.rs`) and **AccountIds** (`cu-bench/src/main.rs`, whose
`bs58_encode` writes the ids of `getAccount`). The loops as folds over characters,
bytes and digits. A character is its index in the alphabet. What they compute is
stated on the bits of a text (`BitsOf`) and on the number of a sequence of digits
(`NumberOf`). `WakuGate` and `SequencerClient` extend them: what the relay carries
and what a poll asks for are texts of the first, the id in a call is a text of the
second.

## 3. Runs

| Run | Expect | What it asks |
|---|---|---|
| `deep_gate` | pass | markers are backed, consented, claimed on the current state, at most one per state of an account; the gate implements `GateRegistry` |
| `deep_gate_nullifier` | violation | README: a nullifier cannot be replayed |
| `chat_admission` | pass | a refusal burns nothing; one join per key and account; members signed; fresh means the chain had the state |
| `chat_freshness` | violation | example: a fresh root means the prover *holds* the balance |
| `sequencer_client` | pass | an answer was true during the call; a root is current only with a proof under it, whatever the peer replies; every call returns; an account id is written as itself; the fold is sound, complete, and on the tree half-way |
| `bridge` | pass | with children that end within their limits, well, badly or killed, a ready credential is the one reported proved unless a later child has opened the file; only a keygen the bridge does not wait for replaces a key; as long as none did, what is on file verifies and is signed with its own key; a failure is called by its cause; the slot always returns |
| `bridge_timeout` | violation | status text: "proved, credential ready" |
| `inmem` | pass | FIFO, exactly once; all calls return with enough workers; with too few only starved receivers stall |
| `app_gates` | pass | what is confirmed, voted, activated or let in was proved and signed for it; one vote and one session per nullifier; the shallow guest answers as the kernel |
| `guests_host_checks` | violation | decision 002: both guests share the host-side checks |
| `waku_relay` | pass | the run ends; an isolated node published nothing, a timeout is the network's, the admitted published; the operator listens before anything is published; polling drops nothing while it goes on; the codecs are what they should be |
| `waku_next` | violation | trait: `recv` returns the next pending credential |

**Bounds.** `deep_gate`: three accounts (two of the token program, one of another),
balances 0..2, up to three moves per account (`MaxNonce`), two signatures and two
pending transactions: enough for a transfer between proving and settling, two
transactions over one state, a duplicate, and a second floor. Its calls are three
honest ones and one for each error code that breaks that check alone, as
`cu-bench/tests/deep_gate_rejects.rs` does; one pre-state is invented.
`chat_admission`: two accounts, two keys, two contexts, requests above, at and
below the floor, an invented state and an altered receipt; two receipts and two
signatures are enough for a replay, a second proof and a mixed-up delivery.
`sequencer_client`: a tree of depth 2, up to four commitments, with three index
bits has inner nodes, short paths and out-of-range indices; one call at a time, as
calls share nothing, over every height; a peer that answers anything is asked
about the root there is, on a chain that stands still, which leaves out only
questions a faithful one is asked too. Account ids have three bytes, each zero,
58 (a carry and a zero digit) or 255. `inmem`: two receivers compete on one topic while another
topic is independent; the run chooses between four workers, one more than the
receivers, and two, which are fewer. `app_gates`: two keys, two accounts, one of
which holds the middle tier's balance only, six requests over all contexts with
one below the stake, an altered receipt, and made-up journals with a raised
threshold, a key of the wrong length and a key that is no point; two receipts and
two signatures let two voters meet in one proposal or one voter come back, and one
confirmed call is enough as confirmations do not interact. Proposals are
symmetric. `waku_relay`: the candidate's credential, an admissible and an
inadmissible one of others, one junk payload, and three polls instead of twenty.
Its codecs are tried on all sequences of up to four of the bytes or characters at
the edges of their ranges (all remainders modulo three, padding, blanks, foreign
characters, the bytes an escape consists of), and the decoder's accumulator has 16
bits (`AccBits`) instead of 32, which TLC's integers could not shift: a text of
three characters overflows it.
`bridge`: the machine is healthy or not (`healthy`, chosen once: every child starts
and ends within its limit, and nothing else is promised, so a write may still fail
after truncating and a child may still be killed); thresholds below,
at and above the balance; two keys, so that one can replace another; two
processes, so that a child runs beside an orphan or a terminal's command, and two
orphans beside nothing. A context and a threshold are both only compared for
equality by the bridge, so one context and three thresholds give requests enough.
The bounds on signatures, receipts, transactions and nonces are guards of the
actions that would exceed them; nothing else depends on them.

`CHECK_DEADLOCK FALSE` is set where the bounded system or a finished loop may
stop; the bridge, which always accepts a call, is checked for deadlock.

**Fairness.** `SequencerClient`: the timer of the HTTP client fires, the loop of the
fold runs; the sequencer owes nothing, not even a reply. `BasecampBridge`: only
that each `waitForFinished` ends, by its limit at the latest; children may hang,
except on a healthy machine, where they go on and exit. `WakuGate`: weak fairness of
the driver, whose REST calls all end at the agent's 30 seconds; the network owes
nothing.
`InMemTransport`: weak fairness per call, as threads that can run do and tokio's
queue does not pass over a task for ever. `DeepGate`, `ChatAdmission` and
`AppGates` need none: their properties are safety, and no step of theirs is owed (a
wallet need not submit, and what is included, and when, is LEZ's).

### Disagreements between code and text

1. *A nullifier is gated once* (README 78-79). The marker address also holds the
   floor, so one nullifier backs a marker per floor. The guest header and
   `docs/limitations.md` say it correctly.
2. *A current root means the prover holds the balance* (`waku_token_gate.rs`
   250-251). The set is append-only: a state the account has left still folds to
   the current root. What does hold is `FreshIsBacked`: the chain had the state.
3. *"proved, credential ready"* after a wait that timed out
   (`attestation_bridge.cpp` 75-89): `exitCode()` of an unfinished process is 0.
   This is TLC's shortest trace. `ReadyMeansProved` also fails with `healthy`: a
   prove succeeds, a second one truncates `credential.bin` (`attest.rs` 210) and
   exits non-zero, and lines 76-82 return with `m_credentialReady` still true over a
   torn file, which `send` would publish. What remains is `ReadyAsReported`, the part
   of `BridgeInv` that the history variable `reopened` delimits: the flag stands over
   the reported credential as long as no later child of the bridge has opened the
   file. A prove that fails before it opens it does no harm.
4. *"Both share the same host-side validation logic"* (decision 002, line 35). The
   first guest hashes the journal on its own, without the SDK's prefix: it refuses
   the signature that `gated-check-args` prints and the shallow guest accepts.
5. *"Receive the next pending credential"* (`delivery-transport` line 81): with two
   credentials in one poll the second is dropped and returned by no `recv`.

Six more were met without a run of their own. Only the
existence of `presenter.json` is tested before "keygen if no presenter key exists"
(`attestation_bridge.cpp` 45-46), so a truncated file wedges `prove` until it is
removed. `recv` of the Waku transport answers `None` on an open topic (trait,
lines 81-82). `verify_nip42_with_lp0005` takes the nonce from the reply, so "the
nonce the relay drew" (line 71) is not tied to a connection. The shallow guest
confirms journals nobody proved, as the top-level README says it does.
`ClientError::EmptyResponse` ("neither result nor error", `sequencer-client` lines
84-85) is constructed nowhere: `call` takes an absent result for null (line 145).
`AccountSnapshot::Raw` is documented to keep "anything else" (lines 267-268), but
the defaults of `Public` let it take nearly every object.

## 4. Proofs

All assumptions are the named ASSUMEs on the constants (`ChainAssumption`,
`GateAssumption`, `AdmissionAssumption`, `CliAssumption`, ...): bounds are
naturals, the genesis state of an account names that account, inputs have their
types, markers for "none" are not among the values they stand beside, the calls of
an in-memory bus are finitely many. TLC evaluates them in the passing runs. Sets
of accounts, keys or requests need not be finite.

Every `*_proofs` module has its inductive invariant `IInv`, one lemma per action,
and one theorem per property: the property follows from `IInv`, which the initial
states have and every step keeps.

* `LezChain_proofs`: a settlement that replaces live commitments of distinct
  accounts by their successors keeps `ChainInv`. `LiveIsCurrent` (a commitment is
  unspent exactly if it is its account's current state) is what everything else
  uses; it is not inductive alone, because a successor must not be a commitment
  inserted before. `NonceFrontier` supplies that.
* `DeepGate_proofs`: `IInv` adds to the chain's invariant what a *pending*
  transaction guarantees: its pre-state met the floor of its marker, its
  successor is that state with the next nonce (`ProvedMeetsFloor`), and somebody
  signed (`ProvedWithConsent`). Nothing is said of the chain at proving time, as
  it may have moved. At settlement, unspent and historical make the pre-state
  current (`LiveIsCurrent`), hence `ClaimedOnCurrentState`, `Backed` and
  `Consented`. `OneClaimPerState` counts: a settlement adds one marker and one
  nonce to the same account. `Refinement` maps the initial state and each step to
  the registry's.
* `ChatAdmission_proofs`: `IInv` adds that receipts proved are genuine and
  admitted journals are proved ones for this group; `Unburned`, `Once`,
  `Consented` and `Backed` follow.
* `AppGates_proofs`: `AppInv` alone is nearly inductive, as the pool only grows:
  what was earned stays earned (`EarnedStays`). `IInv` adds that a proved receipt
  has a backing leaf and that the sets that are counted are finite, which
  `Turnout` needs to compare a counter with a cardinality. `VotesAreUses` and
  `SessionsAreUses` are step by step: a vote is the abstract `Use` of its
  nullifier in its proposal, and everything else a stutter of it. `KernelIsShallow`
  compares the two sequences of checks case by case.
* `WakuGate_proofs`: `IInv` adds `RunSoFar`, what each phase of the driver already
  guarantees: subscribed before it proves, its envelope relayed before it polls,
  nothing received or dropped until then. Without it a message received could have
  come from nowhere.
* `BasecampBridge_proofs`: four invariants relate a slot, its child, orphans and
  the two files. `OneKey`: as long as no keygen wrote over a key, every key in any
  process or file is the same one. `OnlyTrue`: whatever is in, or on its way to,
  the credential file is of a true statement. `OwnKeygen`: a keygen that could
  replace a key is not the bridge's child. `LastProved`: on a healthy machine,
  unless another process writes the file, a child that has exited well left its own
  credential there; one that has the file open has set `reopened`; and until then a
  ready file is the one reported. That a child may fail or be killed with the file
  torn is part of it. `FilesAgree`, `KeyIsKept` and `ReportsMeanProved` follow from one
  each; none is inductive without the type invariant of processes, which says
  which steps a command has.
* `InMemTransport_proofs`: `LocksHeld` (a call is at a step between `lock` and its
  release exactly while it holds that lock) and `WithinWorkers`. FIFO needs the
  lemma on queues that what is appended goes behind what is left. ENABLED is out of
  reach, so `OnlyStarvationStalls` states `StallIsStarvation` with the guards of the
  steps (`CanMove`) in its place; the run checks the form with ENABLED.
* `SequencerClient_proofs`: the fold for trees of *every* height. What a recursive
  function computes is proved with the least-number principle (`LeastNumber`, from
  the well-foundedness of `<`): numbers up to a bound that are not all in a set have
  a least one outside it. So `UpTo` gives the powers of two, the levels of a tree
  (`LevelsDef`) and that different leaves make different roots (`RootsDiffer`,
  downwards from the root). The invariant of the loop is `Reached`: wherever the
  loop's node is found in *any* tree of this height, it is at the level of the
  number of siblings read, the leaf is the one below it at the bits of the index
  read so far (`Low`), and the siblings are that tree's on the way up. It is for
  every tree because `Compare` looks at the root of another tree than the one the
  proof is of. At a root this is `FoldIsSound`. `OnTheWay` is inductive with the
  bits that are left (`FoldTypes`), and at the last sibling it is the safety half of
  `FoldComplete`. For the client, a reply that waits says something that was true
  during the call (`ReplyTrue`), and a proof that is being folded is the one the
  sequencer gave when it had as many commitments (`FoldTrue`); with `RootsDiffer`
  the comparison of roots then is one of numbers of commitments.

The codecs are proved too, for bytes and texts of every length, in
`SequencerClient_proofs` (base58) and `WakuGate_proofs` (base64, topics). Both start
with the same lemmas on folds, because a fold of the community modules is a
`CHOOSE` of a function on *sets of positions*: `Recursion` builds such a function
position by position, so that the choice is one of something, and `RunOf` reads it
as a run, one value per position (`IsRun`). Then the values are what matters:

* `AccountsAreMeant`: a run of `ShiftIn` keeps the number that its digits denote
  (`Carries`, `DigitsDenote`, with the worth of a digit as a power of 58), the
  highest digit is not zero (`HighDigit`), and the zeros in front are counted
  (`ZerosAhead`). `IdsStayApart`: as many bytes that denote the same number are the
  same bytes, from the last to the first (`NumbersApart`).
* `PayloadsArrive`: `DecoderInv` relates the decoder to the characters kept so far,
  with padding and blanks left out on both sides (`Decodes`, `Keeps`): the bits that
  are over depend on how many characters there were (`Over`), the six lowest bits of
  the accumulator are the last character, and the bytes are those that neighbouring
  characters make (`BytesOf`). `LowBitsStay` is why an overflow does no harm: what
  the shift drops is a multiple of 4096, above the byte that is taken. `BitsAgree`
  turns bytes into bits, `EncodedIs` and `PaddedAtTheEnd` say what the encoder
  writes, and `BytesComeBack` that its characters make the bytes again.
* `TopicsStayApart`: two topics with one encoding agree byte by byte
  (`CommonTopic`), since two different bytes are written differently before the
  shorter of the two ends (`EscapedApart`).

Where a definition could not be reasoned about, the model was changed and the runs
repeated: powers of two are recursive functions (`TwoTo`, in the fold and in the
codecs) since the provers know nothing of `^`; `Without` is a fold where `SelectSeq`
was, and the decoder skips a character in the step of its fold (`Take`); leading
zeros are a cardinality; FIFO is stated per topic (`Fifo`); the results of a faulty
peer and the steps of `UseOnce` have names of their own.

Only model-checked:

* liveness (`SlotReturns`, `SendsComplete`, `RecvsComplete`,
  `CallsReturn`, `Terminates`, the eventuality in `FoldComplete`) and ENABLED
  (`StallIsStarvation`, whose substance is `OnlyStarvationStalls`): out of the
  prover's reach.

## 5. Not modelled, and the plan

Not modelled for good: the user interface and plugin registration, benchmarks but
for their base58, demo scripts, the Qt bridge stub (each operation returns an
error), the wording of errors, receipt kinds, the fake receipts of
`RISC0_DEV_MODE` (the bridge switches them off for its child, and `verify_receipt`
refuses them outside that mode), the fields of account snapshots, and everything
inside Risc0, LEZ, Waku, Qt and tokio beyond how this code uses them. The subcommands `journal` and
`challenge` read or print and change nothing.

Order of work, the most important behaviour first:

1. *Done:* the deep gate on the chain with its abstract registry and proofs; the
   off-chain verifier and chat admission with proofs; the first and shallow
   guests, the kernel, votes, tiers and the Nostr relay over one pool, with the
   abstract UseOnce; the sequencer client with the fold; the attest commands and
   the bridge over shared files; the in-memory bus; the Waku demonstration and the
   codecs.
2. *Left to model:* a composition of deep gate and chat admission over one chain,
   to state what an integrator who accepts either evidence may conclude.
3. *Proved:* the three refinements and every safety property the passing runs
   check, but for the form of `StallIsStarvation` with ENABLED.
