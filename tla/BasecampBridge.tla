--------------------------- MODULE BasecampBridge ---------------------------
(***************************************************************************)
(* The Basecamp plugin's AttestationBridge: a slot of the user interface   *)
(* runs attest as a child process, waits for it with a time limit and      *)
(* reports.  A child whose wait times out is killed when its QProcess goes *)
(* out of scope, possibly between truncating and writing its output; its   *)
(* exitCode() is still the initial 0.  Basecamp may stop at any moment:    *)
(* the files stay, and so does a child, which goes on without a parent.    *)
(* The same user may run attest on the same files from a terminal.         *)
(***************************************************************************)
EXTENDS AttestCli

VARIABLES
    ready,           \* m_credentialReady
    status,          \* m_status, by whether it tells of a failure
    asked,           \* the request of the last prove that reported success
    phase,           \* where the slot is: "idle", "keygen", "prove"
    request,         \* the arguments of the slot that runs
    healthy,         \* whether here every child starts and ends within its limit
    outsider,        \* history: a keygen ran that the bridge does not wait for
    reopened         \* history: a child has opened credential.bin, while one was
                     \* ready, since the last prove that reported success

slot == <<ready, status, asked, phase, request>>
vars == <<cliVars, slot, healthy, outsider, reopened>>

TypeOK ==
    /\ CliTypeOK
    /\ ready \in BOOLEAN
    /\ status \in {"failed", "fine"}
    /\ asked \in Requests \cup {None}
    /\ phase \in {"idle", "keygen", "prove"}
    /\ request \in Requests \cup {None}
    /\ healthy \in BOOLEAN
    /\ outsider \in BOOLEAN
    /\ reopened \in BOOLEAN

Init ==
    /\ CliInit
    /\ ready = FALSE
    /\ status = "fine"
    /\ asked = None
    /\ phase = "idle"
    /\ request = None
    /\ healthy \in BOOLEAN
    /\ outsider = FALSE
    /\ reopened = FALSE

Report(text) ==
    /\ status' = text
    /\ phase' = "idle"
    /\ request' = None

\* prove returns at once for an empty context or without the attest binary.
ProveRefused ==
    /\ phase = "idle"
    /\ Report("failed")
    /\ UNCHANGED <<cliVars, ready, asked, healthy, outsider, reopened>>

\* Faulty variant: a key is made for every prove.
KeygenAlways(q) ==
    /\ phase = "idle"
    /\ request' = q
    /\ \E p \in {r \in Procs : procs[r] = Idle} :
          /\ child' = p
          /\ phase' = "keygen"
          /\ UNCHANGED status
          /\ \E k \in Keys \ KeysInUse : Become(p, Keygen(k))
    /\ UNCHANGED <<files, history, ready, asked, healthy, outsider, reopened>>

ProveCalled(q) ==
    /\ phase = "idle"
    /\ request' = q
    /\ \E p \in {r \in Procs : procs[r] = Idle} :
          /\ child' = p
          /\ IF presenter = None
             THEN /\ phase' = "keygen"
                  /\ UNCHANGED status
                  /\ \E k \in Keys \ KeysInUse : Become(p, Keygen(k))
             ELSE /\ phase' = "prove"
                  /\ status' = "fine"
                  /\ Become(p, Prove(q))
    /\ UNCHANGED <<files, history, ready, asked, healthy, outsider, reopened>>

GoOnToProve ==
    /\ phase' = "prove"
    /\ status' = "fine"
    /\ Become(child, Prove(request))
    /\ UNCHANGED <<request, child>>

\* The slot returns; its QProcess goes out of scope and takes the child along.
Return(text) ==
    /\ Report(text)
    /\ child' = None
    /\ Become(child, Idle)

HasExited(ok) == procs[child] = Exited(ok)

KeygenExits ==
    /\ phase = "keygen"
    /\ \/ HasExited(TRUE) /\ GoOnToProve
       \/ HasExited(FALSE) /\ Return("failed")
    /\ UNCHANGED <<files, history, ready, asked, healthy, outsider, reopened>>

\* It was still running, or never started, when the wait ended: exit code 0.
KeygenOutlasts ==
    /\ phase = "keygen"
    /\ ~healthy
    /\ procs[child].cmd = "keygen"
    /\ GoOnToProve
    /\ UNCHANGED <<files, history, ready, asked, healthy, outsider, reopened>>

Proved ==
    /\ ready' = TRUE
    /\ asked' = request
    /\ reopened' = FALSE
    /\ Return("fine")

\* Faulty variants: the exit code is not looked at; the wait has no limit.
ExitCodeIgnored ==
    /\ phase = "prove"
    /\ HasExited(FALSE)
    /\ Proved
    /\ UNCHANGED <<files, history, healthy, outsider>>

NoTimeLimit == phase = "idle" /\ UNCHANGED vars

\* A failure leaves ready as it is, whatever the child did to an older credential.
ProveFails ==
    /\ phase = "prove"
    /\ HasExited(FALSE)
    /\ Return("failed")
    /\ UNCHANGED <<files, history, ready, asked, healthy, outsider, reopened>>

ProveSucceeds ==
    /\ phase = "prove"
    /\ HasExited(TRUE)
    /\ Proved
    /\ UNCHANGED <<files, history, healthy, outsider>>

\* The wait ends first: the report is the one of success, whatever the child did.
ProveOutlasts ==
    /\ phase = "prove"
    /\ ~healthy
    /\ procs[child].cmd = "prove"
    /\ Proved
    /\ UNCHANGED <<files, history, healthy, outsider>>

\* send reads ready and the path only.
Send ==
    /\ phase = "idle"
    /\ Report(IF ready THEN "fine" ELSE "failed")
    /\ UNCHANGED <<cliVars, ready, asked, healthy, outsider, reopened>>

\* Basecamp stops and starts again.  A child that runs loses its parent only.
Restart ==
    /\ ready' = FALSE
    /\ asked' = None
    /\ reopened' = FALSE
    /\ Report("fine")
    /\ child' = None
    /\ IF child # None /\ procs[child].cmd = "exited"
       THEN Become(child, Idle)
       ELSE UNCHANGED procs
    /\ outsider' = (outsider \/ (child # None /\ procs[child].cmd = "keygen"))
    /\ UNCHANGED <<files, history, healthy>>

Reopens ==
    reopened' = (reopened \/ (ready /\ child # None /\ Does(child, "prove", "torn")'))

\* The commands of the terminal, of a child and of what an earlier Basecamp left.
Attest ==
    /\ \E p \in Procs :
          \/ ProcessStep(p)
          \/ WriteFails(p) \/ Interrupted(p)
          \/ Start(p) \/ SignLoads(p)
    /\ outsider' = (outsider \/
                    \E p \in Procs \ {child} : procs'[p].cmd = "keygen")
    /\ Reopens
    /\ UNCHANGED <<slot, healthy>>

Next ==
    \/ ProveRefused
    \/ \E q \in Requests : ProveCalled(q)
    \/ KeygenExits
    \/ KeygenOutlasts
    \/ ProveFails
    \/ ProveSucceeds
    \/ ProveOutlasts
    \/ Send
    \/ Restart
    \/ Attest

ChildStep ==
    /\ healthy
    /\ child # None
    /\ ProcessStep(child)
    /\ Reopens
    /\ UNCHANGED <<slot, healthy, outsider>>

\* A child may hang, and then all that is certain is that each wait ends; on a
\* healthy machine it ends because the child does.
Fairness ==
    /\ WF_vars(KeygenOutlasts) /\ WF_vars(ProveOutlasts)
    /\ WF_vars(KeygenExits)
    /\ WF_vars(ProveFails) /\ WF_vars(ProveSucceeds)
    /\ WF_vars(ChildStep)

Spec == Init /\ [][Next]_vars /\ Fairness

-----------------------------------------------------------------------------
(* Properties.                                                             *)

\* What attestation_bridge.cpp:85-89 says when it sets m_credentialReady and reports
\* "proved - credential ready": the file on disk is the credential of the request
\* that was reported proved.
ReadyMeansProved ==
    (ready /\ phase = "idle" /\ ~foreign) =>
        credential \in Credentials /\ credential.about = asked

\* A request is held exactly while the slot runs, and so is a child.
SlotConsistent ==
    /\ request # None <=> phase # "idle"
    /\ child # None <=> phase # "idle"
    /\ ready <=> asked # None
    /\ phase # "idle" => procs[child].cmd \in {phase, "exited"}

\* What is left of it.  A prove that opens the file and then fails has torn it, or even
\* written it, and leaves the flag set: a ready credential is there and is the one that
\* was reported, unless a later child of the bridge has opened the file.
ReadyAsReported ==
    (ready /\ ~foreign) =>
        /\ credential # None
        /\ ~reopened => credential \in Credentials /\ credential.about = asked

\* It needs a machine where every child ends within its limit, by itself or by what
\* befalls it, and holds as long as no other process writes the credential: after a
\* Basecamp that stopped under a child, the next prove that outlives what was left
\* behind makes it true again.
BridgeInv ==
    /\ TypeOK
    /\ SlotConsistent
    /\ healthy => ReadyAsReported

\* The bridge by itself never replaces the user's key, which every credential
\* made so far needs: only a keygen it does not wait for does.
KeyKept == rekeyed => outsider

\* The user interface always gets its thread back.
SlotReturns == (phase # "idle") ~> (phase = "idle")
=============================================================================
