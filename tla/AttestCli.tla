----------------------------- MODULE AttestCli -----------------------------
(***************************************************************************)
(* The attest command line: every subcommand is a process of its own, and  *)
(* all they share is two files.  keygen overwrites the key file whether or *)
(* not there is one; prove reads the key when it starts and writes the     *)
(* credential after a proof was made; sign-challenge and gated-check-args  *)
(* read one file and then the other.  std::fs::write truncates and then    *)
(* writes, so a process that ends in between leaves a torn file.           *)
(* The nonce a signature answers is OffchainVerifier's; a fake receipt of  *)
(* RISC0_DEV_MODE is left out: the bridge sets it to 0 for its child.      *)
(***************************************************************************)
EXTENDS Naturals

CONSTANTS
    Contexts,     \* what may be given as --context
    Thresholds,   \* ... and as --threshold
    Balance,      \* the balance passed to prove
    Keys,         \* presenter keys, enough that keygen finds a new one
    Procs,        \* processes that can exist at a time
    None,         \* no file, no process, no request
    Torn          \* a file truncated and not written

Requests == [context: Contexts, threshold: Thresholds]

\* A credential, by its journal.  The account is synthesised: the root follows
\* from nothing else, the nullifier from the key and the context.
Credentials == [key: Keys, about: Requests]

ASSUME CliAssumption ==
    /\ Balance \in Nat
    /\ Thresholds \subseteq Nat
    /\ None \notin Keys \cup Procs \cup Credentials \cup Requests \cup {Torn}
    /\ Torn \notin Keys \cup Credentials

VARIABLES
    presenter,    \* presenter.json
    credential,   \* credential.bin
    procs,        \* the command each process runs and how far it is
    child,        \* the process whose exit the bridge waits for, or None
    rekeyed,      \* history: a keygen opened a file that held a key, or was
                  \* about to hold another's
    missigned,    \* history: a signature was made over the journal of a
                  \* credential by another key than the journal's
    foreign       \* history: the credential's last writer is not the bridge's
                  \* child, or another prove is about to write it

files == <<presenter, credential>>
history == <<rekeyed, missigned, foreign>>
cliVars == <<files, procs, child, history>>

Idle == [cmd |-> "none"]
Exited(ok) == [cmd |-> "exited", ok |-> ok]

Processes ==
    {Idle} \cup
    [cmd: {"exited"}, ok: BOOLEAN] \cup
    [cmd: {"keygen"}, at: {"start", "torn"}, key: Keys] \cup
    [cmd: {"prove"}, at: {"start"}, about: Requests] \cup
    [cmd: {"prove"}, at: {"proving", "torn"}, about: Requests, key: Keys] \cup
    [cmd: {"sign"}, key: Keys]

CliTypeOK ==
    /\ presenter \in Keys \cup {None, Torn}
    /\ credential \in Credentials \cup {None, Torn}
    /\ procs \in [Procs -> Processes]
    /\ child \in Procs \cup {None}
    /\ history \in BOOLEAN \X BOOLEAN \X BOOLEAN

CliInit ==
    /\ presenter = None
    /\ credential = None
    /\ procs = [p \in Procs |-> Idle]
    /\ child = None
    /\ rekeyed = FALSE
    /\ missigned = FALSE
    /\ foreign = FALSE

Become(p, step) == procs' = [procs EXCEPT ![p] = step]

\* A process ends: its exit code is kept as long as the bridge waits for it.
End(p, ok) == Become(p, IF p = child THEN Exited(ok) ELSE Idle)

Does(p, cmd, stage) == procs[p].cmd = cmd /\ procs[p].at = stage

-----------------------------------------------------------------------------
\* keygen draws 32 random bytes: a key nobody has.
KeysInUse ==
    ({presenter} \cap Keys) \cup
    {c.key : c \in {credential} \cap Credentials} \cup
    {procs[p].key : p \in {q \in Procs : "key" \in DOMAIN procs[q]}}

Keygen(k) == [cmd |-> "keygen", at |-> "start", key |-> k]

KeygenOpens(p) ==
    /\ Does(p, "keygen", "start")
    /\ presenter' = Torn
    /\ rekeyed' = (rekeyed \/ presenter \in Keys
                           \/ \E q \in Procs \ {p} : Does(q, "keygen", "torn"))
    /\ Become(p, [procs[p] EXCEPT !.at = "torn"])
    /\ UNCHANGED <<credential, child, missigned, foreign>>

\* Once a file is written a process exits well, unless it is killed before it does.
KeygenWrites(p) ==
    /\ Does(p, "keygen", "torn")
    /\ presenter' = procs[p].key
    /\ \E ok \in BOOLEAN : End(p, ok)
    /\ UNCHANGED <<credential, child, history>>

-----------------------------------------------------------------------------
Prove(q) == [cmd |-> "prove", at |-> "start", about |-> q]

\* Faulty variant: a key is made up when the file holds none.
MadeUpKey(p) ==
    /\ Does(p, "prove", "start")
    /\ \E k \in IF presenter \in Keys THEN {presenter} ELSE Keys \ KeysInUse :
          Become(p, [cmd |-> "prove", at |-> "proving",
                     about |-> procs[p].about, key |-> k])
    /\ UNCHANGED <<files, child, history>>

\* load_presenter: the secret of a whole key file; anything else is an error.
LoadPresenter(p) ==
    /\ Does(p, "prove", "start")
    /\ IF presenter \in Keys
       THEN Become(p, [cmd |-> "prove", at |-> "proving",
                       about |-> procs[p].about, key |-> presenter])
       ELSE End(p, FALSE)
    /\ UNCHANGED <<files, child, history>>

\* A proof was made, which a false statement has none of: the file is opened.
CredentialOpens(p) ==
    /\ Does(p, "prove", "proving")
    /\ procs[p].about.threshold <= Balance
    /\ credential' = Torn
    /\ Become(p, [procs[p] EXCEPT !.at = "torn"])
    /\ foreign' = (foreign \/ p # child)
    /\ UNCHANGED <<presenter, child, rekeyed, missigned>>

\* Bytes left behind by a longer receipt do not matter: decode_from_slice stops
\* at the end of the first one.  So the last to write wins.
CredentialWrites(p) ==
    /\ Does(p, "prove", "torn")
    /\ credential' = [key |-> procs[p].key, about |-> procs[p].about]
    /\ \E ok \in BOOLEAN : End(p, ok)
    /\ foreign' = (p # child \/ \E q \in Procs \ {p} : Does(q, "prove", "torn"))
    /\ UNCHANGED <<presenter, child, rekeyed, missigned>>

\* Before anything was written: the directory cannot be written, the statement is
\* false, there is no prover.
CommandFails(p) ==
    /\ Does(p, "keygen", "start") \/ Does(p, "prove", "proving")
    /\ End(p, FALSE)
    /\ UNCHANGED <<files, child, history>>

\* The disk is full: the file has been truncated all the same.
WriteFails(p) ==
    /\ Does(p, "keygen", "torn") \/ Does(p, "prove", "torn")
    /\ End(p, FALSE)
    /\ UNCHANGED <<files, child, history>>

-----------------------------------------------------------------------------
\* What prove prints when proving fails: an error of risc0 is a string, here the
\* phrases it contains, and the SDK looks for them in this order.
Assertion == "the guest's assertion"

\* Faulty variant: the generic phrases are looked for first.
ToolsFirst(message) ==
    CASE message \cap {"groth16", "stark2snark", "docker"} # {} -> "Groth16Unavailable"
      [] message \cap {"r0vm", "no such file", "not found"} # {} -> "ProverUnavailable"
      [] message \cap {Assertion, "guest panicked"} # {} -> "StatementFalse"
      [] message \cap {"session limit", "cycle limit"} # {} -> "SessionLimit"
      [] OTHER -> "Other"

Classify(message) ==
    IF message \cap {Assertion, "guest panicked"} # {} THEN "StatementFalse"
    ELSE IF message \cap {"session limit", "cycle limit"} # {} THEN "SessionLimit"
    ELSE IF message \cap {"groth16", "stark2snark", "docker"} # {}
         THEN "Groth16Unavailable"
    ELSE IF message \cap {"r0vm", "no such file", "not found"} # {}
         THEN "ProverUnavailable"
    ELSE "Other"

\* The prover: r0vm executes the guest, then proves, then the Docker sidecar wraps
\* the proof.  An error names the stage it came through.
ProverErrors(about, missing, groth16) ==
    IF "r0vm" \in missing THEN {{"r0vm", "no such file"}, {"r0vm", "not found"}}
    ELSE IF about.threshold > Balance
    THEN {{"guest panicked", Assertion}, {"r0vm", "guest panicked", Assertion}}
    ELSE IF groth16 /\ "docker" \in missing
    THEN {{"docker"}, {"docker", "no such file"}, {"groth16", "docker", "not found"}}
    ELSE {}

-----------------------------------------------------------------------------
\* sign-challenge and gated-check-args: the key first, ...
SignLoads(p) ==
    /\ procs[p] = Idle
    /\ presenter \in Keys
    /\ Become(p, [cmd |-> "sign", key |-> presenter])
    /\ UNCHANGED <<files, child, history>>

\* ... then the journal, decoded without verifying the receipt.
SignReads(p) ==
    /\ procs[p].cmd = "sign"
    /\ missigned' = (missigned \/ (credential \in Credentials /\
                                   procs[p].key # credential.key))
    /\ End(p, credential \in Credentials)
    /\ UNCHANGED <<files, child, rekeyed, foreign>>

\* verify --presenter, with the two files as they are: a nonce is drawn and signed
\* in place and verify_credential accepts.
Verifies(want) ==
    /\ credential \in Credentials
    /\ presenter = credential.key
    /\ credential.about.context = want.context
    /\ credential.about.threshold >= want.threshold

-----------------------------------------------------------------------------
\* A user at a terminal starts a command on the two files ...
Start(p) ==
    /\ procs[p] = Idle
    /\ \/ \E k \in Keys \ KeysInUse : Become(p, Keygen(k))
       \/ \E q \in Requests : Become(p, Prove(q))
    /\ UNCHANGED <<files, child, history>>

\* ... and may interrupt it.  Whatever runs may be killed, the bridge's child too: a
\* signal that ends a process makes its exit code other than 0.
Interrupted(p) ==
    /\ procs[p].cmd \notin {"none", "exited"}
    /\ End(p, FALSE)
    /\ UNCHANGED <<files, child, history>>

\* One step of a process that runs.
ProcessStep(p) ==
    \/ KeygenOpens(p) \/ KeygenWrites(p)
    \/ LoadPresenter(p) \/ CredentialOpens(p) \/ CredentialWrites(p)
    \/ CommandFails(p)
    \/ SignReads(p)

-----------------------------------------------------------------------------
(* Properties.                                                             *)

\* As long as no keygen wrote over a key, the credential on file is of a true
\* statement and verifies with the key on file, and every signature that was made
\* fits its journal, whichever commands ran side by side and were cut short.
CredentialSignable ==
    ~rekeyed =>
        /\ credential \in Credentials =>
              /\ Verifies(credential.about)
              /\ credential.about.threshold <= Balance
        /\ ~missigned

\* A user is sent after the cause: a statement that is false is called false even
\* where the message also names tools or the sidecar is missing too, and a prover
\* or a sidecar that is missing is named as the one it is.
CauseNamed ==
    \A p \in Procs : Does(p, "prove", "proving") =>
        \A missing \in SUBSET {"r0vm", "docker"}, groth16 \in BOOLEAN :
            \A message \in ProverErrors(procs[p].about, missing, groth16) :
                Classify(message) =
                    CASE "r0vm" \in missing -> "ProverUnavailable"
                      [] "r0vm" \notin missing /\ procs[p].about.threshold > Balance
                             -> "StatementFalse"
                      [] OTHER -> "Groth16Unavailable"
=============================================================================
