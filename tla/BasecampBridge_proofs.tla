------------------------ MODULE BasecampBridge_proofs ------------------------
(***************************************************************************)
(* Proofs about the Basecamp bridge and the attest command line, for every *)
(* set of processes, keys, contexts and thresholds, whichever of them run  *)
(* side by side, outlast their limit, fail or are cut short.               *)
(***************************************************************************)
EXTENDS BasecampBridge, TLAPS

\* The processes that carry a key they read from the file.
Carries(p) ==
    \/ procs[p].cmd = "sign"
    \/ Does(p, "prove", "proving") \/ Does(p, "prove", "torn")

\* As long as no keygen wrote over a key there is one key: what a process carries
\* and what the credential names is the key on file.  While a keygen writes there
\* is none yet.
OneKey ==
    ~rekeyed =>
        /\ ~missigned
        /\ \A p \in Procs : Carries(p) =>
              presenter \in Keys /\ procs[p].key = presenter
        /\ credential \in Credentials =>
              presenter \in Keys /\ credential.key = presenter
        /\ \A p \in Procs : Does(p, "keygen", "torn") =>
              /\ presenter = Torn
              /\ \A q \in Procs : Does(q, "keygen", "torn") => q = p

\* Only true statements come to be written.
OnlyTrue ==
    /\ credential \in Credentials => credential.about.threshold <= Balance
    /\ \A p \in Procs : Does(p, "prove", "torn") =>
          procs[p].about.threshold <= Balance

\* A keygen of the bridge runs when there is no key file, and no other runs.
OwnKeygen ==
    ~outsider =>
        /\ ~rekeyed
        /\ \A p \in Procs : procs[p].cmd = "keygen" => p = child
        /\ child # None /\ Does(child, "keygen", "start") => presenter \notin Keys

\* On a healthy machine, as long as no other process writes the file, a child that
\* has proved has left its credential there, and until one opens the file it is the
\* credential that was reported.
LastProved ==
    /\ phase = "prove" /\ procs[child].cmd = "prove" =>
          procs[child].about = request
    /\ phase = "prove" /\ Does(child, "prove", "torn") => (ready => reopened)
    /\ healthy /\ ~foreign =>
          /\ phase = "prove" /\ HasExited(TRUE) =>
                credential \in Credentials /\ credential.about = request
          /\ ready => credential # None
          /\ ready /\ ~reopened =>
                credential \in Credentials /\ credential.about = asked

IInv ==
    /\ TypeOK
    /\ SlotConsistent
    /\ OneKey
    /\ OnlyTrue
    /\ OwnKeygen
    /\ LastProved

-----------------------------------------------------------------------------
(* Processes.                                                              *)

\* What a process may be, by its command.
LEMMA Shapes ==
    ASSUME NEW r \in Processes
    PROVE  /\ r.cmd \in {"none", "exited", "keygen", "prove", "sign"}
           /\ r.cmd = "none" => r = Idle
           /\ r.cmd = "exited" => r.ok \in BOOLEAN /\ r = Exited(r.ok)
           /\ r.cmd = "keygen" =>
                 /\ r.at \in {"start", "torn"} /\ r.key \in Keys
                 /\ r = [cmd |-> "keygen", at |-> r.at, key |-> r.key]
           /\ r.cmd = "sign" => r.key \in Keys
           /\ r.cmd = "prove" =>
                 r.at \in {"start", "proving", "torn"} /\ r.about \in Requests
           /\ r.cmd = "prove" /\ r.at \in {"proving", "torn"} =>
                 /\ r.key \in Keys
                 /\ r = [cmd |-> "prove", at |-> r.at, about |-> r.about,
                         key |-> r.key]
<1>1. CASE r = Idle
  BY <1>1 DEF Idle
<1>2. CASE r \in [cmd: {"exited"}, ok: BOOLEAN]
  BY <1>2 DEF Exited
<1>3. CASE r \in [cmd: {"keygen"}, at: {"start", "torn"}, key: Keys]
  BY <1>3
<1>4. CASE r \in [cmd: {"prove"}, at: {"start"}, about: Requests]
  BY <1>4
<1>5. CASE r \in [cmd: {"prove"}, at: {"proving", "torn"}, about: Requests,
                  key: Keys]
  BY <1>5
<1>6. CASE r \in [cmd: {"sign"}, key: Keys]
  BY <1>6
<1>7. QED BY <1>1, <1>2, <1>3, <1>4, <1>5, <1>6 DEF Processes

\* What a process becomes is a process.
LEMMA Steps ==
    /\ Idle \in Processes
    /\ \A ok \in BOOLEAN : Exited(ok) \in Processes
    /\ \A k \in Keys : Keygen(k) \in Processes
    /\ \A q \in Requests : Prove(q) \in Processes
    /\ \A k \in Keys : [cmd |-> "sign", key |-> k] \in Processes
    /\ \A k \in Keys : [cmd |-> "keygen", at |-> "torn", key |-> k] \in Processes
    /\ \A q \in Requests, k \in Keys, stage \in {"proving", "torn"} :
          [cmd |-> "prove", at |-> stage, about |-> q, key |-> k] \in Processes
  BY DEF Processes, Exited, Keygen, Prove

\* One process changes, the others stay what they are.
LEMMA Becoming ==
    ASSUME TypeOK, NEW p \in Procs, NEW step \in Processes, Become(p, step)
    PROVE  /\ procs' \in [Procs -> Processes]
           /\ procs'[p] = step
           /\ \A q \in Procs : q # p => procs'[q] = procs[q]
  BY DEF TypeOK, CliTypeOK, Become

\* A step after which a process carries no key and holds no file open.
Empty(step) ==
    \/ step.cmd \in {"none", "exited"}
    \/ step.cmd \in {"keygen", "prove"} /\ step.at = "start"

LEMMA EmptySteps ==
    /\ Empty(Idle)
    /\ \A ok \in BOOLEAN : Empty(Exited(ok))
    /\ \A k \in Keys : Empty(Keygen(k))
    /\ \A q \in Requests : Empty(Prove(q))
  BY DEF Empty, Idle, Exited, Keygen, Prove

\* Such a step disturbs neither the key nor the statements, as long as it leaves
\* the files alone.
LEMMA EmptyKeepsFiles ==
    ASSUME TypeOK, OneKey, OnlyTrue,
           NEW p \in Procs, NEW step \in Processes, Become(p, step), Empty(step),
           UNCHANGED <<presenter, credential, rekeyed, missigned>>
    PROVE  OneKey' /\ OnlyTrue'
<1>1. \A q \in Procs : procs'[q] = IF q = p THEN step ELSE procs[q]
  BY Becoming
<1>2. /\ ~Carries(p)'
      /\ ~Does(p, "keygen", "torn")' /\ ~Does(p, "prove", "torn")'
  BY <1>1 DEF Carries, Does, Empty
<1>3. \A q \in Procs : q # p =>
         /\ Carries(q)' <=> Carries(q)
         /\ Does(q, "keygen", "torn")' <=> Does(q, "keygen", "torn")
         /\ Does(q, "prove", "torn")' <=> Does(q, "prove", "torn")
         /\ procs'[q] = procs[q]
  BY <1>1 DEF Carries, Does
<1>4. OneKey'
  BY <1>2, <1>3 DEF OneKey
<1>5. OnlyTrue'
  BY <1>2, <1>3 DEF OnlyTrue
<1>6. QED BY <1>4, <1>5

\* A step of the slot, as far as the command line sees it: nothing, or one process
\* starts or ends.
LEMMA SlotTypes ==
    ASSUME TypeOK, UNCHANGED <<files, history>>,
           procs' \in [Procs -> Processes], child' \in Procs \cup {None}
    PROVE  CliTypeOK'
<1>1. presenter' \in Keys \cup {None, Torn}
  BY DEF TypeOK, CliTypeOK, files
<1>2. credential' \in Credentials \cup {None, Torn}
  BY DEF TypeOK, CliTypeOK, files
<1>3. history' \in BOOLEAN \X BOOLEAN \X BOOLEAN
  BY DEF TypeOK, CliTypeOK
<1>4. QED BY <1>1, <1>2, <1>3 DEF CliTypeOK

-----------------------------------------------------------------------------
(* The slot's steps.                                                       *)

\* What the invariant says of a state whose slot is idle, runs keygen or prove.
LEMMA SlotStates ==
    ASSUME TypeOK, SlotConsistent
    PROVE  /\ phase = "idle" => child = None /\ request = None
           /\ phase # "idle" => child \in Procs /\ request \in Requests
           /\ phase \in {"idle", "keygen", "prove"}
           /\ ready \in BOOLEAN /\ healthy \in BOOLEAN /\ outsider \in BOOLEAN
           /\ reopened \in BOOLEAN
           /\ asked \in Requests \cup {None} /\ status \in {"failed", "fine"}
           /\ presenter \in Keys \cup {None, Torn}
           /\ None \notin Procs /\ None \notin Requests /\ None \notin Keys
           /\ Torn \notin Keys /\ Torn \notin Credentials
           /\ None \notin Credentials
  BY CliAssumption DEF TypeOK, CliTypeOK, SlotConsistent

LEMMA InitInv == Init => IInv
<1> SUFFICES ASSUME Init PROVE IInv
  OBVIOUS
<1>1. /\ presenter = None /\ credential = None /\ child = None
      /\ rekeyed = FALSE /\ missigned = FALSE /\ foreign = FALSE
      /\ ready = FALSE /\ asked = None /\ phase = "idle" /\ request = None
      /\ status = "fine" /\ outsider = FALSE /\ reopened = FALSE
      /\ healthy \in BOOLEAN
      /\ \A p \in Procs : procs[p] = Idle
      /\ procs \in [Procs -> Processes]
  BY Steps DEF Init, CliInit
<1>2. /\ None \notin Keys /\ None \notin Credentials /\ None # Torn
  BY CliAssumption
<1>3. \A p \in Procs : /\ ~Carries(p) /\ procs[p].cmd = "none"
                       /\ ~Does(p, "keygen", "torn") /\ ~Does(p, "prove", "torn")
  BY <1>1 DEF Carries, Does, Idle
<1>4. TypeOK
  <2>1. history \in BOOLEAN \X BOOLEAN \X BOOLEAN
    BY <1>1 DEF history
  <2>2. CliTypeOK
    BY <1>1, <2>1 DEF CliTypeOK
  <2>3. QED BY <1>1, <2>2 DEF TypeOK
<1>5. SlotConsistent
  BY <1>1 DEF SlotConsistent
<1>6. OneKey /\ OnlyTrue
  BY <1>1, <1>2, <1>3 DEF OneKey, OnlyTrue
<1>7. OwnKeygen /\ LastProved
  BY <1>1, <1>3 DEF OwnKeygen, LastProved
<1>8. QED BY <1>4, <1>5, <1>6, <1>7 DEF IInv

\* prove that is refused, and send.
LEMMA ReportInv ==
    ASSUME IInv, phase = "idle", NEW text \in {"failed", "fine"}, Report(text),
           UNCHANGED <<cliVars, ready, asked, healthy, outsider, reopened>>
    PROVE  IInv'
<1>1. /\ UNCHANGED <<presenter, credential, procs, child, rekeyed, missigned,
                     foreign, ready, asked, healthy, outsider, reopened>>
      /\ phase' = "idle" /\ request' = None /\ status' = text
      /\ child = None /\ request = None
  BY SlotStates DEF Report, cliVars, files, history, IInv
<1>2. TypeOK'
  BY <1>1 DEF IInv, TypeOK, CliTypeOK, history
<1>3. SlotConsistent'
  BY <1>1 DEF IInv, SlotConsistent
<1>4. OneKey' /\ OnlyTrue'
  BY <1>1 DEF IInv, OneKey, OnlyTrue, Carries, Does
<1>5. OwnKeygen' /\ LastProved'
  BY <1>1 DEF IInv, OwnKeygen, LastProved, Does, HasExited
<1>6. QED BY <1>2, <1>3, <1>4, <1>5 DEF IInv

\* A child is started for a request: keygen where there is no key file, or prove.
LEMMA ProveCalledInv ==
    ASSUME IInv, NEW q \in Requests, ProveCalled(q)
    PROVE  IInv'
<1>1. PICK p \in Procs :
         /\ procs[p] = Idle
         /\ child' = p
         /\ \/ /\ presenter = None /\ phase' = "keygen" /\ UNCHANGED status
               /\ \E k \in Keys : Become(p, Keygen(k))
            \/ /\ phase' = "prove" /\ status' = "fine" /\ Become(p, Prove(q))
  BY DEF ProveCalled
<1>2. /\ UNCHANGED <<presenter, credential, rekeyed, missigned, foreign, ready,
                     asked, healthy, outsider, reopened>>
      /\ UNCHANGED <<files, history>>
      /\ phase = "idle" /\ request' = q /\ child = None
  BY SlotStates DEF ProveCalled, files, history, IInv
<1>3. PICK step \in Processes :
         /\ Become(p, step) /\ Empty(step)
         /\ \/ presenter = None /\ phase' = "keygen" /\ \E k \in Keys : step = Keygen(k)
            \/ phase' = "prove" /\ step = Prove(q)
  BY <1>1, Steps, EmptySteps
<1>4. /\ procs' \in [Procs -> Processes] /\ procs'[p] = step
      /\ \A r \in Procs : r # p => procs'[r] = procs[r]
  BY <1>3, Becoming DEF IInv
<1>5. step.cmd = phase'
  BY <1>3 DEF Keygen, Prove
<1>6. TypeOK'
  <2>1. CliTypeOK'
    BY <1>1, <1>2, <1>4, SlotTypes DEF IInv
  <2>2. QED BY <1>1, <1>2, <2>1 DEF IInv, TypeOK
<1>7. SlotConsistent'
  BY <1>1, <1>2, <1>3, <1>4, <1>5, SlotStates DEF IInv, SlotConsistent
<1>8. OneKey' /\ OnlyTrue'
  BY <1>2, <1>3, EmptyKeepsFiles DEF IInv
<1>9. OwnKeygen'
  <2> SUFFICES ASSUME ~outsider
               PROVE  /\ ~rekeyed'
                      /\ \A r \in Procs : procs'[r].cmd = "keygen" => r = p
                      /\ Does(p, "keygen", "start")' => presenter \notin Keys
    BY <1>1, <1>2 DEF OwnKeygen
  <2>1. ~rekeyed'
    BY <1>2 DEF IInv, OwnKeygen
  <2>2. \A r \in Procs : procs[r].cmd # "keygen"
    BY <1>2, SlotStates DEF IInv, OwnKeygen
  <2>3. Does(p, "keygen", "start")' => presenter \notin Keys
    BY <1>3, <1>4, <1>5, CliAssumption DEF Does
  <2>4. QED BY <1>4, <2>1, <2>2, <2>3
<1>10. LastProved'
  <2>1. ~HasExited(TRUE)' /\ ~Does(child, "prove", "torn")'
    BY <1>1, <1>3, <1>4 DEF HasExited, Exited, Keygen, Prove, Does
  <2>2. phase' = "prove" => procs'[p].about = q
    BY <1>3, <1>4 DEF Prove
  <2>3. QED BY <1>1, <1>2, <2>1, <2>2 DEF IInv, LastProved
<1>11. QED BY <1>6, <1>7, <1>8, <1>9, <1>10 DEF IInv

\* keygen has ended well, or outlasted its limit: prove takes its place.
LEMMA GoOnInv ==
    ASSUME IInv, phase = "keygen", GoOnToProve,
           UNCHANGED <<files, history, ready, asked, healthy, outsider, reopened>>
    PROVE  IInv'
<1>1. /\ UNCHANGED <<presenter, credential, rekeyed, missigned, foreign, ready,
                     asked, healthy, outsider, reopened, request,
                     child>>
      /\ phase' = "prove" /\ status' = "fine"
      /\ Become(child, Prove(request))
  BY DEF GoOnToProve, files, history
<1>2. /\ child \in Procs /\ request \in Requests /\ child # None
      /\ Prove(request) \in Processes /\ Empty(Prove(request))
  BY SlotStates, Steps, EmptySteps DEF IInv
<1>3. /\ procs' \in [Procs -> Processes] /\ procs'[child] = Prove(request)
      /\ \A r \in Procs : r # child => procs'[r] = procs[r]
  BY <1>1, <1>2, Becoming DEF IInv
<1>4. /\ procs'[child].cmd = "prove" /\ procs'[child].at = "start"
      /\ procs'[child].about = request
  BY <1>3 DEF Prove
<1>5. TypeOK'
  <2>1. CliTypeOK'
    BY <1>1, <1>2, <1>3, SlotTypes DEF IInv
  <2>2. QED BY <1>1, <2>1 DEF IInv, TypeOK
<1>6. SlotConsistent'
  BY <1>1, <1>2, <1>4, SlotStates DEF IInv, SlotConsistent
<1>7. OneKey' /\ OnlyTrue'
  BY <1>1, <1>2, EmptyKeepsFiles DEF IInv
<1>8. OwnKeygen'
  BY <1>1, <1>2, <1>3, <1>4 DEF IInv, OwnKeygen, Does
<1>9. LastProved'
  <2>1. ~HasExited(TRUE)' /\ ~Does(child, "prove", "torn")'
    BY <1>1, <1>4 DEF HasExited, Exited, Does
  <2>2. procs'[child'].about = request'
    BY <1>1, <1>4
  <2>3. healthy' /\ ~foreign' /\ ready' =>
           /\ credential' # None
           /\ ~reopened' =>
                 credential' \in Credentials /\ credential'.about = asked'
    BY <1>1 DEF IInv, LastProved
  <2>4. QED BY <2>1, <2>2, <2>3 DEF LastProved
<1>10. QED BY <1>5, <1>6, <1>7, <1>8, <1>9 DEF IInv

\* The slot returns, with a report that is true where it has to be.
LEMMA ReturnInv ==
    ASSUME IInv, phase # "idle", NEW text \in {"failed", "fine"}, Return(text),
           UNCHANGED <<files, history, healthy, outsider>>,
           ready' \in BOOLEAN, asked' \in Requests \cup {None},
           ready' <=> asked' # None,
           reopened' \in BOOLEAN,
           healthy /\ ~foreign /\ ready' =>
              /\ credential # None
              /\ ~reopened' =>
                    credential \in Credentials /\ credential.about = asked'
    PROVE  IInv'
<1>1. /\ UNCHANGED <<presenter, credential, rekeyed, missigned, foreign, healthy,
                     outsider>>
      /\ phase' = "idle" /\ status' = text /\ request' = None /\ child' = None
      /\ Become(child, Idle)
  BY DEF Return, Report, files, history
<1>2. child \in Procs /\ child # None /\ Idle \in Processes /\ Empty(Idle)
  BY SlotStates, Steps, EmptySteps DEF IInv
<1>3. /\ procs' \in [Procs -> Processes] /\ procs'[child] = Idle
      /\ \A r \in Procs : r # child => procs'[r] = procs[r]
  BY <1>1, <1>2, Becoming DEF IInv
<1>4. TypeOK'
  <2>1. CliTypeOK'
    BY <1>1, <1>3, SlotTypes DEF IInv
  <2>2. QED BY <1>1, <2>1 DEF IInv, TypeOK
<1>5. SlotConsistent'
  BY <1>1 DEF SlotConsistent
<1>6. OneKey' /\ OnlyTrue'
  BY <1>1, <1>2, EmptyKeepsFiles DEF IInv
<1>7. OwnKeygen'
  BY <1>1, <1>2, <1>3 DEF IInv, OwnKeygen, Idle
<1>8. LastProved'
  <2>1. phase' # "prove" /\ credential' = credential
        /\ healthy' = healthy /\ foreign' = foreign
    BY <1>1
  <2>2. healthy' /\ ~foreign' /\ ready' =>
           /\ credential' # None
           /\ ~reopened' =>
                 credential' \in Credentials /\ credential'.about = asked'
    BY <2>1
  <2>3. QED BY <2>1, <2>2 DEF LastProved
<1>9. QED BY <1>4, <1>5, <1>6, <1>7, <1>8 DEF IInv

LEMMA SlotReturnsInv ==
    ASSUME IInv, KeygenExits \/ KeygenOutlasts \/ ProveFails \/ ProveSucceeds
                   \/ ProveOutlasts
    PROVE  IInv'
<1>1. phase # "idle" => request \in Requests /\ None \notin Requests
  BY SlotStates DEF IInv
<1>2. CASE KeygenExits
  <2>1. CASE GoOnToProve
    BY <1>2, <2>1, GoOnInv DEF KeygenExits
  <2>2. CASE Return("failed")
    <3>1. /\ phase = "keygen" /\ UNCHANGED <<ready, asked, reopened>>
          /\ UNCHANGED <<files, history, healthy, outsider>>
      BY <1>2 DEF KeygenExits
    <3>2. /\ ready' \in BOOLEAN /\ asked' \in Requests \cup {None}
          /\ (ready' <=> asked' # None) /\ reopened' \in BOOLEAN
      BY <3>1 DEF IInv, TypeOK, SlotConsistent
    <3>3. healthy /\ ~foreign /\ ready' =>
             /\ credential # None
             /\ ~reopened' =>
                   credential \in Credentials /\ credential.about = asked'
      BY <3>1 DEF IInv, LastProved
    <3>4. QED BY <2>2, <3>1, <3>2, <3>3, ReturnInv
  <2>3. QED BY <1>2, <2>1, <2>2 DEF KeygenExits
<1>3. CASE KeygenOutlasts
  BY <1>3, GoOnInv DEF KeygenOutlasts
<1>4. CASE ProveFails
  <2>1. /\ phase = "prove" /\ HasExited(FALSE) /\ Return("failed")
        /\ UNCHANGED <<ready, asked, reopened>>
        /\ UNCHANGED <<files, history, healthy, outsider>>
    BY <1>4 DEF ProveFails
  <2>2. /\ ready' \in BOOLEAN /\ asked' \in Requests \cup {None}
        /\ (ready' <=> asked' # None) /\ reopened' \in BOOLEAN
    BY <2>1 DEF IInv, TypeOK, SlotConsistent
  <2>3. healthy /\ ~foreign /\ ready' =>
           /\ credential # None
           /\ ~reopened' =>
                 credential \in Credentials /\ credential.about = asked'
    BY <2>1 DEF IInv, LastProved
  <2>4. QED BY <2>1, <2>2, <2>3, ReturnInv
<1>5. CASE ProveSucceeds
  <2>1. /\ phase = "prove" /\ HasExited(TRUE) /\ Return("fine")
        /\ ready' = TRUE /\ asked' = request /\ reopened' = FALSE
        /\ UNCHANGED <<files, history, healthy, outsider>>
    BY <1>5 DEF ProveSucceeds, Proved
  <2>2. healthy /\ ~foreign =>
           /\ credential \in Credentials /\ credential.about = request
           /\ credential # None
    BY <2>1, SlotStates DEF IInv, LastProved
  <2>3. QED BY <1>1, <2>1, <2>2, ReturnInv
<1>6. CASE ProveOutlasts
  BY <1>1, <1>6, ReturnInv DEF ProveOutlasts, Proved
<1>7. QED BY <1>2, <1>3, <1>4, <1>5, <1>6

\* Basecamp stops: a child that had exited is forgotten, one that runs is nobody's.
LEMMA RestartInv == ASSUME IInv, Restart PROVE IInv'
<1>1. /\ UNCHANGED <<presenter, credential, rekeyed, missigned, foreign, healthy>>
      /\ UNCHANGED <<files, history>>
      /\ ready' = FALSE /\ asked' = None /\ phase' = "idle" /\ status' = "fine"
      /\ request' = None /\ child' = None /\ reopened' = FALSE
      /\ outsider' = (outsider \/ (child # None /\ procs[child].cmd = "keygen"))
  BY DEF Restart, Report, files, history
<1>2. \/ child \in Procs /\ procs[child].cmd = "exited" /\ Become(child, Idle)
      \/ UNCHANGED procs
  BY DEF Restart, IInv, TypeOK, CliTypeOK
<1>3. procs' \in [Procs -> Processes]
  BY <1>2, Steps, Becoming DEF IInv, TypeOK, CliTypeOK
<1>4. TypeOK'
  <2>1. CliTypeOK'
    BY <1>1, <1>3, SlotTypes DEF IInv
  <2>2. outsider' \in BOOLEAN /\ reopened' \in BOOLEAN
    BY <1>1 DEF IInv, TypeOK
  <2>3. QED BY <1>1, <2>1, <2>2 DEF IInv, TypeOK
<1>5. SlotConsistent'
  BY <1>1 DEF SlotConsistent
<1>6. OneKey' /\ OnlyTrue'
  <2>1. CASE child \in Procs /\ Become(child, Idle)
    BY <1>1, <2>1, Steps, EmptySteps, EmptyKeepsFiles DEF IInv
  <2>2. CASE UNCHANGED procs
    BY <1>1, <2>2 DEF IInv, OneKey, OnlyTrue, Carries, Does
  <2>3. QED BY <1>2, <2>1, <2>2
<1>7. OwnKeygen'
  <2> SUFFICES ASSUME ~outsider'
               PROVE  ~rekeyed' /\ \A p \in Procs : procs'[p].cmd # "keygen"
    BY <1>1 DEF OwnKeygen
  <2>1. ~rekeyed /\ \A p \in Procs : procs[p].cmd # "keygen"
    BY <1>1, CliAssumption DEF IInv, OwnKeygen
  <2>2. \A p \in Procs : procs'[p] = procs[p] \/ procs'[p] = Idle
    BY <1>2, Steps, Becoming DEF IInv
  <2>3. QED BY <1>1, <2>1, <2>2 DEF Idle
<1>8. LastProved'
  BY <1>1 DEF LastProved
<1>9. QED BY <1>4, <1>5, <1>6, <1>7, <1>8 DEF IInv

-----------------------------------------------------------------------------
(* The steps of the command line.                                          *)

\* What a command's step is for the bridge.
Around ==
    /\ UNCHANGED <<slot, healthy>>
    /\ outsider' = (outsider \/
                    \E q \in Procs \ {child} : procs'[q].cmd = "keygen")
    /\ Reopens

\* The child is what the slot started, or has exited; nothing else is known of it.
LEMMA ProcessKeepsSlot ==
    ASSUME IInv, Around, UNCHANGED child,
           NEW p \in Procs, NEW step \in Processes, Become(p, step),
           p = child => step.cmd \in {procs[p].cmd, "exited"}
    PROVE  SlotConsistent'
<1>1. UNCHANGED <<ready, asked, phase, request, child>>
  BY DEF Around, slot
<1>2. phase # "idle" => procs'[child].cmd \in {phase, "exited"}
  BY SlotStates, Becoming DEF IInv, SlotConsistent
<1>3. QED BY <1>1, <1>2 DEF IInv, SlotConsistent

LEMMA ProcessTypes ==
    ASSUME IInv, Around, UNCHANGED child,
           NEW p \in Procs, NEW step \in Processes, Become(p, step),
           presenter' \in Keys \cup {None, Torn},
           credential' \in Credentials \cup {None, Torn},
           rekeyed' \in BOOLEAN, missigned' \in BOOLEAN, foreign' \in BOOLEAN
    PROVE  TypeOK'
<1>1. procs' \in [Procs -> Processes]
  BY Becoming DEF IInv
<1>2. history' \in BOOLEAN \X BOOLEAN \X BOOLEAN
  BY DEF history
<1>3. CliTypeOK'
  BY <1>1, <1>2 DEF CliTypeOK, IInv, TypeOK
<1>4. outsider' \in BOOLEAN /\ reopened' \in BOOLEAN
  BY DEF Around, Reopens, IInv, TypeOK
<1>5. QED BY <1>3, <1>4 DEF Around, slot, IInv, TypeOK

\* A process that writes no key leaves the bridge's keygen alone.
LEMMA KeyFileKept ==
    ASSUME IInv, Around, UNCHANGED <<child, presenter, rekeyed>>,
           NEW p \in Procs, NEW step \in Processes, Become(p, step),
           p = child => ~(step.cmd = "keygen" /\ step.at = "start")
    PROVE  OwnKeygen'
<1> SUFFICES ASSUME ~outsider'
             PROVE  /\ ~rekeyed'
                    /\ \A q \in Procs : procs'[q].cmd = "keygen" => q = child'
                    /\ child' # None /\ Does(child, "keygen", "start")' =>
                          presenter' \notin Keys
  BY DEF OwnKeygen
<1>1. /\ ~outsider
      /\ \A q \in Procs : q # child => procs'[q].cmd # "keygen"
  BY DEF Around
<1>2. ~rekeyed'
  BY <1>1 DEF IInv, OwnKeygen
<1>3. ASSUME child' # None, Does(child, "keygen", "start")'
      PROVE  presenter' \notin Keys
  <2>1. child \in Procs
    BY <1>3 DEF IInv, TypeOK, CliTypeOK
  <2>2. child # p
    BY <1>3, Becoming DEF Does, IInv
  <2>3. Does(child, "keygen", "start")
    BY <1>3, <2>1, <2>2, Becoming DEF Does, IInv
  <2>4. QED BY <1>1, <1>3, <2>3 DEF IInv, OwnKeygen
<1>4. QED BY <1>1, <1>2, <1>3

\* What the bridge remembers of the file only grows while commands run.
LEMMA ReopenedStays ==
    ASSUME IInv, Around, UNCHANGED child
    PROVE  /\ UNCHANGED <<ready, asked, phase, request, healthy>>
           /\ reopened => reopened'
           /\ ready /\ child # None /\ Does(child, "prove", "torn")' => reopened'
           /\ phase' = "prove" /\ Does(child, "prove", "torn")' =>
                 (ready' => reopened')
  BY SlotStates DEF Around, slot, Reopens, IInv

\* A process that is not the child either leaves the credential or is foreign.
LEMMA OthersProve ==
    ASSUME IInv, Around, UNCHANGED child,
           NEW p \in Procs, NEW step \in Processes, Become(p, step), p # child,
           foreign' \/ UNCHANGED <<credential, foreign>>
    PROVE  LastProved'
<1>1. /\ UNCHANGED <<ready, asked, phase, request, child, healthy>>
      /\ reopened => reopened'
      /\ phase' = "prove" /\ Does(child, "prove", "torn")' =>
            (ready' => reopened')
  BY ReopenedStays
<1>2. phase = "prove" => procs'[child] = procs[child]
  BY SlotStates, Becoming DEF IInv
<1>3. phase = "prove" => (HasExited(TRUE)' <=> HasExited(TRUE))
  BY <1>1, <1>2 DEF HasExited
<1>4. phase' = "prove" /\ procs'[child'].cmd = "prove" =>
         procs'[child'].about = request'
  BY <1>1, <1>2 DEF IInv, LastProved
<1>5. CASE foreign'
  BY <1>1, <1>4, <1>5 DEF LastProved
<1>6. CASE UNCHANGED <<credential, foreign>>
  BY <1>1, <1>3, <1>4, <1>6 DEF IInv, LastProved
<1>7. QED BY <1>5, <1>6

\* The child leaves the file alone, and has not just proved.
LEMMA ChildProves ==
    ASSUME IInv, Around, UNCHANGED <<child, credential, foreign>>,
           child \in Procs, NEW step \in Processes, Become(child, step),
           phase = "prove" =>
              /\ step # Exited(TRUE)
              /\ step.cmd = "prove" =>
                    /\ procs[child].cmd = "prove"
                    /\ step.about = procs[child].about
    PROVE  LastProved'
<1>1. /\ UNCHANGED <<ready, asked, phase, request, child, healthy>>
      /\ reopened => reopened'
      /\ phase' = "prove" /\ Does(child, "prove", "torn")' =>
            (ready' => reopened')
  BY ReopenedStays
<1>2. procs'[child] = step
  BY Becoming DEF IInv
<1>3. phase' = "prove" => ~HasExited(TRUE)'
  BY <1>1, <1>2 DEF HasExited
<1>4. phase' = "prove" /\ procs'[child'].cmd = "prove" =>
         procs'[child'].about = request'
  BY <1>1, <1>2 DEF IInv, LastProved
<1>5. QED BY <1>1, <1>3, <1>4 DEF IInv, LastProved

\* How a process ends.
LEMMA Ending ==
    ASSUME NEW p \in Procs, NEW ok \in BOOLEAN, End(p, ok)
    PROVE  \E step \in Processes :
              /\ Become(p, step) /\ Empty(step)
              /\ step.cmd \in {"none", "exited"}
              /\ p = child => step = Exited(ok)
<1> DEFINE step == IF p = child THEN Exited(ok) ELSE Idle
<1>1. step \in Processes /\ Empty(step)
  BY Steps, EmptySteps
<1>2. step.cmd \in {"none", "exited"}
  BY DEF Exited, Idle
<1>3. QED BY <1>1, <1>2 DEF End

\* A keygen that truncates the file leaves no key, and is the only one to do so.
LEMMA KeygenOpensInv ==
    ASSUME IInv, Around, NEW p \in Procs, KeygenOpens(p)
    PROVE  IInv'
<1> DEFINE step == [cmd |-> "keygen", at |-> "torn", key |-> procs[p].key]
<1>1. /\ presenter' = Torn
      /\ rekeyed' = (rekeyed \/ presenter \in Keys
                        \/ \E q \in Procs \ {p} : Does(q, "keygen", "torn"))
      /\ UNCHANGED <<credential, child, missigned, foreign>>
      /\ procs[p].cmd = "keygen" /\ procs[p].at = "start"
      /\ Become(p, [procs[p] EXCEPT !.at = "torn"])
  BY DEF KeygenOpens, Does
<1>2. procs[p] \in Processes
  BY DEF IInv, TypeOK, CliTypeOK
<1>3. /\ procs[p].key \in Keys
      /\ procs[p] = [cmd |-> "keygen", at |-> "start", key |-> procs[p].key]
  BY <1>1, <1>2, Shapes
<1>4. [procs[p] EXCEPT !.at = "torn"] = step
  BY <1>3
<1>5. Become(p, step) /\ step \in Processes
  BY <1>1, <1>3, <1>4, Steps
<1>6. \A q \in Procs : procs'[q] = IF q = p THEN step ELSE procs[q]
  BY <1>5, Becoming DEF IInv
<1>7. TypeOK'
  <2>1. /\ credential' \in Credentials \cup {None, Torn}
        /\ rekeyed' \in BOOLEAN /\ missigned' \in BOOLEAN /\ foreign' \in BOOLEAN
    BY <1>1 DEF IInv, TypeOK, CliTypeOK, history
  <2>2. QED BY <1>1, <1>5, <2>1, ProcessTypes
<1>8. SlotConsistent'
  BY <1>1, <1>5, ProcessKeepsSlot
<1>9. OneKey'
  <2> SUFFICES ASSUME ~rekeyed' PROVE OneKey'
    BY DEF OneKey
  <2>1. /\ ~rekeyed /\ presenter \notin Keys
        /\ \A q \in Procs \ {p} : ~Does(q, "keygen", "torn")
    BY <1>1
  <2>2. /\ ~missigned /\ credential \notin Credentials
        /\ \A q \in Procs : ~Carries(q)
    BY <2>1 DEF IInv, OneKey
  <2>3. \A q \in Procs : ~Carries(q)'
    BY <1>6, <2>2 DEF Carries, Does
  <2>4. \A q \in Procs : Does(q, "keygen", "torn")' => q = p
    BY <1>6, <2>1 DEF Does
  <2>5. QED BY <1>1, <2>2, <2>3, <2>4 DEF OneKey
<1>10. OnlyTrue'
  BY <1>1, <1>6 DEF IInv, OnlyTrue, Does
<1>11. OwnKeygen'
  <2> SUFFICES ASSUME ~outsider'
               PROVE  /\ ~rekeyed'
                      /\ \A q \in Procs : procs'[q].cmd = "keygen" => q = child'
                      /\ child' # None /\ Does(child, "keygen", "start")' =>
                            presenter' \notin Keys
    BY DEF OwnKeygen
  <2>1. /\ ~outsider
        /\ \A q \in Procs : procs'[q].cmd = "keygen" => q = child
    BY DEF Around
  <2>2. p = child
    BY <1>6, <2>1
  <2>3. /\ ~rekeyed /\ presenter \notin Keys
        /\ \A q \in Procs \ {p} : procs[q].cmd # "keygen"
    BY <1>1, <2>1, <2>2, SlotStates DEF IInv, OwnKeygen, Does
  <2>4. ~rekeyed'
    BY <1>1, <2>3 DEF Does
  <2>5. Torn \notin Keys
    BY CliAssumption
  <2>6. QED BY <1>1, <2>1, <2>4, <2>5
<1>12. LastProved'
  <2>1. CASE p = child
    <3>1. phase = "keygen"
      BY <1>1, <2>1, SlotStates DEF IInv, SlotConsistent
    <3>2. QED BY <1>1, <1>5, <2>1, <3>1, ChildProves
  <2>2. CASE p # child
    BY <1>1, <1>5, <2>2, OthersProve
  <2>3. QED BY <2>1, <2>2
<1>13. QED BY <1>7, <1>8, <1>9, <1>10, <1>11, <1>12 DEF IInv

\* ... and what it writes is the only key there is, unless a key was written over.
LEMMA KeygenWritesInv ==
    ASSUME IInv, Around, NEW p \in Procs, KeygenWrites(p)
    PROVE  IInv'
<1>1. /\ presenter' = procs[p].key
      /\ UNCHANGED <<credential, child, rekeyed, missigned, foreign>>
      /\ Does(p, "keygen", "torn") /\ procs[p].cmd = "keygen"
      /\ \E ok \in BOOLEAN : End(p, ok)
  BY DEF KeygenWrites, Does, history
<1>2. PICK step \in Processes :
         /\ Become(p, step) /\ Empty(step)
         /\ step.cmd \in {"none", "exited"}
         /\ p = child => step.cmd = "exited"
  BY <1>1, Ending DEF Exited
<1>3. \A q \in Procs : procs'[q] = IF q = p THEN step ELSE procs[q]
  BY <1>2, Becoming DEF IInv
<1>4. procs[p].key \in Keys
  BY <1>1, Shapes DEF IInv, TypeOK, CliTypeOK
<1>5. p = child => step.cmd = "exited"
  BY <1>2
<1>6. TypeOK'
  <2>1. /\ credential' \in Credentials \cup {None, Torn}
        /\ rekeyed' \in BOOLEAN /\ missigned' \in BOOLEAN /\ foreign' \in BOOLEAN
    BY <1>1 DEF IInv, TypeOK, CliTypeOK, history
  <2>2. QED BY <1>1, <1>2, <1>4, <2>1, ProcessTypes
<1>7. SlotConsistent'
  BY <1>1, <1>2, <1>5, ProcessKeepsSlot
<1>8. OneKey'
  <2> SUFFICES ASSUME ~rekeyed' PROVE OneKey'
    BY DEF OneKey
  <2>1. /\ presenter = Torn /\ ~missigned
        /\ \A q \in Procs : Does(q, "keygen", "torn") => q = p
    BY <1>1 DEF IInv, OneKey
  <2>2. /\ credential \notin Credentials /\ \A q \in Procs : ~Carries(q)
    BY <1>1, <2>1, CliAssumption DEF IInv, OneKey
  <2>3. \A q \in Procs : ~Carries(q)' /\ ~Does(q, "keygen", "torn")'
    BY <1>2, <1>3, <2>1, <2>2 DEF Carries, Does
  <2>4. QED BY <1>1, <2>1, <2>2, <2>3 DEF OneKey
<1>9. OnlyTrue'
  BY <1>1, <1>2, <1>3 DEF IInv, OnlyTrue, Does
<1>10. OwnKeygen'
  <2> SUFFICES ASSUME ~outsider'
               PROVE  /\ ~rekeyed'
                      /\ \A q \in Procs : procs'[q].cmd # "keygen"
    BY <1>1 DEF OwnKeygen, Does, IInv, TypeOK, CliTypeOK
  <2>1. ~outsider /\ \A q \in Procs : q # child => procs'[q].cmd # "keygen"
    BY DEF Around
  <2>2. p = child /\ ~rekeyed
    BY <1>1, <2>1 DEF IInv, OwnKeygen
  <2>3. QED BY <1>1, <1>2, <1>3, <2>1, <2>2
<1>11. LastProved'
  <2>1. CASE p = child
    <3>1. phase = "keygen"
      BY <1>1, <2>1, SlotStates DEF IInv, SlotConsistent
    <3>2. QED BY <1>1, <1>2, <2>1, <3>1, ChildProves
  <2>2. CASE p # child
    BY <1>1, <1>2, <2>2, OthersProve
  <2>3. QED BY <2>1, <2>2
<1>12. QED BY <1>6, <1>7, <1>8, <1>9, <1>10, <1>11 DEF IInv

\* A command that starts, fails or is interrupted leaves the files as they are, torn
\* or not.
LEMMA EmptyStepInv ==
    ASSUME IInv, Around, UNCHANGED <<files, child, history>>,
           NEW p \in Procs, NEW step \in Processes, Become(p, step), Empty(step),
           p = child => step = Exited(FALSE)
    PROVE  IInv'
<1>1. UNCHANGED <<presenter, credential, child, rekeyed, missigned, foreign>>
  BY DEF files, history
<1>2. p = child => step.cmd = "exited" /\ step # Exited(TRUE)
  BY DEF Exited
<1>3. TypeOK'
  <2>1. /\ presenter' \in Keys \cup {None, Torn}
        /\ credential' \in Credentials \cup {None, Torn}
        /\ rekeyed' \in BOOLEAN /\ missigned' \in BOOLEAN /\ foreign' \in BOOLEAN
    BY <1>1 DEF IInv, TypeOK, CliTypeOK, history
  <2>2. QED BY <1>1, <2>1, ProcessTypes
<1>4. SlotConsistent'
  BY <1>1, <1>2, ProcessKeepsSlot
<1>5. OneKey' /\ OnlyTrue'
  BY <1>1, EmptyKeepsFiles DEF IInv
<1>6. OwnKeygen'
  BY <1>1, <1>2, KeyFileKept
<1>7. LastProved'
  <2>1. CASE p = child
    BY <1>1, <1>2, <2>1, ChildProves
  <2>2. CASE p # child
    BY <1>1, <2>2, OthersProve
  <2>3. QED BY <2>1, <2>2
<1>8. QED BY <1>3, <1>4, <1>5, <1>6, <1>7 DEF IInv

LEMMA StartInv ==
    ASSUME IInv, Around, NEW p \in Procs, Start(p)
    PROVE  IInv'
<1>1. procs[p] = Idle /\ UNCHANGED <<files, child, history>>
  BY DEF Start
<1>2. p # child
  BY <1>1, SlotStates DEF IInv, SlotConsistent, Idle
<1>3. PICK step \in Processes : Become(p, step) /\ Empty(step)
  BY Steps, EmptySteps DEF Start
<1>4. QED BY <1>1, <1>2, <1>3, EmptyStepInv

LEMMA InterruptedInv ==
    ASSUME IInv, Around, NEW p \in Procs, Interrupted(p)
    PROVE  IInv'
<1>1. UNCHANGED <<files, child, history>>
  BY DEF Interrupted
<1>2. PICK step \in Processes :
         /\ Become(p, step) /\ Empty(step)
         /\ p = child => step = Exited(FALSE)
  BY Ending DEF Interrupted
<1>3. QED BY <1>1, <1>2, EmptyStepInv

LEMMA CommandFailsInv ==
    ASSUME IInv, Around, NEW p \in Procs, CommandFails(p)
    PROVE  IInv'
<1>1. /\ Does(p, "keygen", "start") \/ Does(p, "prove", "proving")
      /\ UNCHANGED <<files, child, history>>
  BY DEF CommandFails
<1>2. PICK step \in Processes :
         /\ Become(p, step) /\ Empty(step)
         /\ p = child => step = Exited(FALSE)
  BY Ending DEF CommandFails
<1>3. QED BY <1>1, <1>2, EmptyStepInv

\* load_presenter: a process that proves carries the key on file.
LEMMA LoadPresenterInv ==
    ASSUME IInv, Around, NEW p \in Procs, LoadPresenter(p)
    PROVE  IInv'
<1>1. /\ procs[p].cmd = "prove" /\ procs[p].at = "start"
      /\ UNCHANGED <<files, child, history>>
      /\ UNCHANGED <<presenter, credential, rekeyed, missigned, foreign>>
  BY DEF LoadPresenter, Does, files, history
<1>3. CASE presenter \notin Keys
  <2>1. PICK step \in Processes :
           /\ Become(p, step) /\ Empty(step)
           /\ p = child => step = Exited(FALSE)
    BY <1>3, Ending DEF LoadPresenter
  <2>2. QED BY <1>1, <2>1, EmptyStepInv
<1>4. CASE presenter \in Keys
  <2> DEFINE step == [cmd |-> "prove", at |-> "proving",
                      about |-> procs[p].about, key |-> presenter]
  <2>1. procs[p].about \in Requests
    BY <1>1, Shapes DEF IInv, TypeOK, CliTypeOK
  <2>2. Become(p, step) /\ step \in Processes
    BY <1>4, <2>1, Steps DEF LoadPresenter
  <2>3. \A q \in Procs : procs'[q] = IF q = p THEN step ELSE procs[q]
    BY <2>2, Becoming DEF IInv
  <2>4. step.cmd = "prove" /\ step.at = "proving" /\ step # Exited(TRUE)
    BY DEF Exited
  <2>5. TypeOK'
    <3>1. /\ presenter' \in Keys \cup {None, Torn}
          /\ credential' \in Credentials \cup {None, Torn}
          /\ rekeyed' \in BOOLEAN /\ missigned' \in BOOLEAN /\ foreign' \in BOOLEAN
      BY <1>1 DEF IInv, TypeOK, CliTypeOK, history
    <3>2. QED BY <1>1, <2>2, <3>1, ProcessTypes
  <2>6. SlotConsistent'
    BY <1>1, <2>2, <2>4, ProcessKeepsSlot
  <2>7. OneKey'
    <3>1. \A q \in Procs : q # p =>
             /\ Carries(q)' <=> Carries(q)
             /\ Does(q, "keygen", "torn")' <=> Does(q, "keygen", "torn")
             /\ procs'[q] = procs[q]
      BY <2>3 DEF Carries, Does
    <3>2. procs'[p].key = presenter /\ ~Does(p, "keygen", "torn")'
      BY <2>3, <2>4 DEF Does
    <3>3. QED BY <1>1, <1>4, <3>1, <3>2 DEF IInv, OneKey
  <2>8. OnlyTrue'
    BY <1>1, <2>3, <2>4 DEF IInv, OnlyTrue, Does
  <2>9. OwnKeygen'
    BY <1>1, <2>2, <2>4, KeyFileKept
  <2>10. LastProved'
    <3>1. CASE p = child
      BY <1>1, <2>2, <2>4, <3>1, ChildProves
    <3>2. CASE p # child
      BY <1>1, <2>2, <3>2, OthersProve
    <3>3. QED BY <3>1, <3>2
  <2>11. QED BY <2>5, <2>6, <2>7, <2>8, <2>9, <2>10 DEF IInv
<1>5. QED BY <1>3, <1>4

\* A write that fails leaves a torn file, and so does one that is cut short.
LEMMA WriteFailsInv ==
    ASSUME IInv, Around, NEW p \in Procs, WriteFails(p)
    PROVE  IInv'
<1>1. UNCHANGED <<files, child, history>>
  BY DEF WriteFails
<1>2. PICK step \in Processes :
         /\ Become(p, step) /\ Empty(step)
         /\ p = child => step = Exited(FALSE)
  BY Ending DEF WriteFails
<1>3. QED BY <1>1, <1>2, EmptyStepInv

\* A proof was made: the statement is true, and the file is another's to write.
LEMMA CredentialOpensInv ==
    ASSUME IInv, Around, NEW p \in Procs, CredentialOpens(p)
    PROVE  IInv'
<1> DEFINE step == [cmd |-> "prove", at |-> "torn",
                    about |-> procs[p].about, key |-> procs[p].key]
<1>1. /\ procs[p].cmd = "prove" /\ procs[p].at = "proving"
      /\ procs[p].about.threshold <= Balance
      /\ credential' = Torn
      /\ foreign' = (foreign \/ p # child)
      /\ UNCHANGED <<presenter, child, rekeyed, missigned>>
      /\ Become(p, [procs[p] EXCEPT !.at = "torn"])
  BY DEF CredentialOpens, Does
<1>2. /\ procs[p].key \in Keys /\ procs[p].about \in Requests
      /\ procs[p] = [cmd |-> "prove", at |-> "proving",
                     about |-> procs[p].about, key |-> procs[p].key]
  BY <1>1, Shapes DEF IInv, TypeOK, CliTypeOK
<1>3. [procs[p] EXCEPT !.at = "torn"] = step
  BY <1>2
<1>4. Become(p, step) /\ step \in Processes
  BY <1>1, <1>2, <1>3, Steps
<1>5. \A q \in Procs : procs'[q] = IF q = p THEN step ELSE procs[q]
  BY <1>4, Becoming DEF IInv
<1>6. Torn \notin Credentials
  BY CliAssumption
<1>7. TypeOK'
  <2>1. /\ presenter' \in Keys \cup {None, Torn}
        /\ rekeyed' \in BOOLEAN /\ missigned' \in BOOLEAN /\ foreign' \in BOOLEAN
    BY <1>1 DEF IInv, TypeOK, CliTypeOK, history
  <2>2. QED BY <1>1, <1>4, <2>1, ProcessTypes
<1>8. SlotConsistent'
  BY <1>1, <1>4, ProcessKeepsSlot
<1>9. OneKey'
  <2>1. \A q \in Procs : q # p =>
           /\ Carries(q)' <=> Carries(q)
           /\ Does(q, "keygen", "torn")' <=> Does(q, "keygen", "torn")
           /\ procs'[q] = procs[q]
    BY <1>5 DEF Carries, Does
  <2>2. /\ Carries(p) /\ procs'[p].key = procs[p].key
        /\ ~Does(p, "keygen", "torn")'
    BY <1>1, <1>5 DEF Carries, Does
  <2>3. QED BY <1>1, <1>6, <2>1, <2>2 DEF IInv, OneKey
<1>10. OnlyTrue'
  BY <1>1, <1>5, <1>6 DEF IInv, OnlyTrue, Does
<1>11. OwnKeygen'
  BY <1>1, <1>4, KeyFileKept
<1>12. LastProved'
  <2>1. CASE p # child
    BY <1>1, <1>4, <2>1, OthersProve
  <2>2. CASE p = child
    <3>1. UNCHANGED <<ready, asked, phase, request, child, healthy>>
      BY <1>1, ReopenedStays
    <3>2. /\ phase = "prove" /\ procs[child].about = request /\ child # None
      BY <1>1, <2>2, SlotStates DEF IInv, SlotConsistent, LastProved
    <3>3. procs'[child] = step
      BY <1>5, <2>2
    <3>4. ~HasExited(TRUE)' /\ procs'[child'].about = request'
      BY <2>2, <3>1, <3>2, <3>3 DEF HasExited, Exited
    <3>5. ready' => reopened'
      BY <3>1, <3>2, <3>3, ReopenedStays DEF Does
    <3>6. credential' # None
      BY <1>1, CliAssumption
    <3>7. QED BY <3>4, <3>5, <3>6 DEF LastProved
  <2>3. QED BY <2>1, <2>2
<1>13. QED BY <1>7, <1>8, <1>9, <1>10, <1>11, <1>12 DEF IInv

\* The file becomes the credential of the process that writes it, and the bridge's
\* child is the one that was asked.
LEMMA CredentialWritesInv ==
    ASSUME IInv, Around, NEW p \in Procs, CredentialWrites(p)
    PROVE  IInv'
<1>1. /\ procs[p].cmd = "prove" /\ procs[p].at = "torn"
      /\ Does(p, "prove", "torn")
      /\ credential' = [key |-> procs[p].key, about |-> procs[p].about]
      /\ foreign' = (p # child \/ \E q \in Procs \ {p} : Does(q, "prove", "torn"))
      /\ UNCHANGED <<presenter, child, rekeyed, missigned>>
      /\ \E ok \in BOOLEAN : End(p, ok)
  BY DEF CredentialWrites, Does
<1>2. procs[p].key \in Keys /\ procs[p].about \in Requests
  BY <1>1, Shapes DEF IInv, TypeOK, CliTypeOK
<1>3. /\ credential' \in Credentials
      /\ credential'.key = procs[p].key /\ credential'.about = procs[p].about
  BY <1>1, <1>2 DEF Credentials
<1>4. PICK step \in Processes :
         /\ Become(p, step) /\ Empty(step)
         /\ step.cmd \in {"none", "exited"}
         /\ p = child => step.cmd = "exited"
  BY <1>1, Ending DEF Exited
<1>5. \A q \in Procs : procs'[q] = IF q = p THEN step ELSE procs[q]
  BY <1>4, Becoming DEF IInv
<1>6. p = child => step.cmd = "exited"
  BY <1>4
<1>7. TypeOK'
  <2>1. /\ presenter' \in Keys \cup {None, Torn}
        /\ rekeyed' \in BOOLEAN /\ missigned' \in BOOLEAN
    BY <1>1 DEF IInv, TypeOK, CliTypeOK, history
  <2>2. foreign' \in BOOLEAN
    BY <1>1
  <2>3. QED BY <1>1, <1>3, <1>4, <2>1, <2>2, ProcessTypes
<1>8. SlotConsistent'
  BY <1>1, <1>4, <1>6, ProcessKeepsSlot
<1>9. OneKey'
  <2>1. \A q \in Procs : q # p =>
           /\ Carries(q)' <=> Carries(q)
           /\ Does(q, "keygen", "torn")' <=> Does(q, "keygen", "torn")
           /\ procs'[q] = procs[q]
    BY <1>5 DEF Carries, Does
  <2>2. ~Carries(p)' /\ ~Does(p, "keygen", "torn")' /\ Carries(p)
    BY <1>1, <1>4, <1>5 DEF Carries, Does
  <2>3. QED BY <1>1, <1>3, <2>1, <2>2 DEF IInv, OneKey
<1>10. OnlyTrue'
  <2>1. procs[p].about.threshold <= Balance
    BY <1>1 DEF IInv, OnlyTrue
  <2>2. QED BY <1>3, <1>4, <1>5, <2>1 DEF IInv, OnlyTrue, Does
<1>11. OwnKeygen'
  BY <1>1, <1>4, KeyFileKept
<1>12. LastProved'
  <2>1. CASE p # child
    BY <1>1, <1>4, <2>1, OthersProve
  <2>2. CASE p = child
    <3>1. /\ UNCHANGED <<ready, asked, phase, request, child, healthy>>
          /\ reopened => reopened'
      BY <1>1, ReopenedStays
    <3>2. phase = "prove" /\ procs[child].about = request
      BY <1>1, <2>2, SlotStates DEF IInv, SlotConsistent, LastProved
    <3>3. procs'[child'].cmd = "exited"
      BY <1>4, <1>5, <2>2, <3>1
    <3>4. /\ credential' \in Credentials /\ credential'.about = request'
          /\ credential' # None
      BY <1>3, <2>2, <3>1, <3>2, CliAssumption
    <3>5. ready => reopened'
      <4>1. Does(child, "prove", "torn")
        BY <1>1, <2>2
      <4>2. ready => reopened
        BY <3>2, <4>1 DEF IInv, LastProved
      <4>3. QED BY <3>1, <4>2
    <3>6. QED BY <3>1, <3>3, <3>4, <3>5 DEF LastProved
  <2>3. QED BY <2>1, <2>2
<1>13. QED BY <1>7, <1>8, <1>9, <1>10, <1>11, <1>12 DEF IInv

\* sign-challenge, with the key that is on file.
LEMMA SignLoadsInv ==
    ASSUME IInv, Around, NEW p \in Procs, SignLoads(p)
    PROVE  IInv'
<1> DEFINE step == [cmd |-> "sign", key |-> presenter]
<1>1. /\ procs[p] = Idle /\ presenter \in Keys
      /\ Become(p, step) /\ step \in Processes
      /\ UNCHANGED <<presenter, credential, child, rekeyed, missigned, foreign>>
  BY Steps DEF SignLoads, files, history
<1>2. p # child
  BY <1>1, SlotStates DEF IInv, SlotConsistent, Idle
<1>3. \A q \in Procs : procs'[q] = IF q = p THEN step ELSE procs[q]
  BY <1>1, Becoming DEF IInv
<1>4. TypeOK'
  <2>1. /\ presenter' \in Keys \cup {None, Torn}
        /\ credential' \in Credentials \cup {None, Torn}
        /\ rekeyed' \in BOOLEAN /\ missigned' \in BOOLEAN /\ foreign' \in BOOLEAN
    BY <1>1 DEF IInv, TypeOK, CliTypeOK, history
  <2>2. QED BY <1>1, <2>1, ProcessTypes
<1>5. SlotConsistent'
  BY <1>1, <1>2, ProcessKeepsSlot
<1>6. OneKey'
  <2>1. \A q \in Procs : q # p =>
           /\ Carries(q)' <=> Carries(q)
           /\ Does(q, "keygen", "torn")' <=> Does(q, "keygen", "torn")
           /\ procs'[q] = procs[q]
    BY <1>3 DEF Carries, Does
  <2>2. procs'[p].key = presenter /\ ~Does(p, "keygen", "torn")'
    BY <1>3 DEF Does
  <2>3. QED BY <1>1, <2>1, <2>2 DEF IInv, OneKey
<1>7. OnlyTrue'
  BY <1>1, <1>3 DEF IInv, OnlyTrue, Does
<1>8. OwnKeygen'
  BY <1>1, <1>2, KeyFileKept
<1>9. LastProved'
  BY <1>1, <1>2, OthersProve
<1>10. QED BY <1>4, <1>5, <1>6, <1>7, <1>8, <1>9 DEF IInv

\* ... which is the journal's, unless a keygen came in between.
LEMMA SignReadsInv ==
    ASSUME IInv, Around, NEW p \in Procs, SignReads(p)
    PROVE  IInv'
<1>1. /\ procs[p].cmd = "sign"
      /\ missigned' = (missigned \/ (credential \in Credentials /\
                                     procs[p].key # credential.key))
      /\ End(p, credential \in Credentials)
      /\ UNCHANGED <<presenter, credential, child, rekeyed, foreign>>
  BY DEF SignReads, files
<1>2. PICK step \in Processes :
         /\ Become(p, step) /\ Empty(step)
         /\ step.cmd \in {"none", "exited"}
  <2>1. PICK ok \in BOOLEAN : End(p, ok)
    BY <1>1, (credential \in Credentials) \in BOOLEAN
  <2>2. QED BY <2>1, Ending
<1>3. p # child
  BY <1>1, SlotStates DEF IInv, SlotConsistent
<1>4. \A q \in Procs : procs'[q] = IF q = p THEN step ELSE procs[q]
  BY <1>2, Becoming DEF IInv
<1>5. TypeOK'
  <2>1. /\ presenter' \in Keys \cup {None, Torn}
        /\ credential' \in Credentials \cup {None, Torn}
        /\ rekeyed' \in BOOLEAN /\ foreign' \in BOOLEAN
    BY <1>1 DEF IInv, TypeOK, CliTypeOK, history
  <2>2. missigned' \in BOOLEAN
    BY <1>1 DEF IInv, TypeOK, CliTypeOK, history
  <2>3. QED BY <1>1, <1>2, <2>1, <2>2, ProcessTypes
<1>6. SlotConsistent'
  BY <1>1, <1>2, <1>3, ProcessKeepsSlot
<1>7. OneKey'
  <2>1. \A q \in Procs : q # p =>
           /\ Carries(q)' <=> Carries(q)
           /\ Does(q, "keygen", "torn")' <=> Does(q, "keygen", "torn")
           /\ procs'[q] = procs[q]
    BY <1>4 DEF Carries, Does
  <2>2. ~Carries(p)' /\ ~Does(p, "keygen", "torn")' /\ Carries(p)
    BY <1>1, <1>2, <1>4 DEF Carries, Does
  <2>3. ~rekeyed => ~missigned'
    BY <1>1, <2>2 DEF IInv, OneKey
  <2>4. QED BY <1>1, <2>1, <2>2, <2>3 DEF IInv, OneKey
<1>8. OnlyTrue'
  BY <1>1, <1>2, <1>4 DEF IInv, OnlyTrue, Does
<1>9. OwnKeygen'
  BY <1>1, <1>2, <1>3, KeyFileKept
<1>10. LastProved'
  BY <1>1, <1>2, <1>3, OthersProve
<1>11. QED BY <1>5, <1>6, <1>7, <1>8, <1>9, <1>10 DEF IInv

LEMMA AttestInv == ASSUME IInv, Attest PROVE IInv'
<1>1. Around
  BY DEF Attest, Around
<1>2. PICK p \in Procs :
         \/ ProcessStep(p)
         \/ WriteFails(p) \/ Interrupted(p)
         \/ Start(p) \/ SignLoads(p)
  BY DEF Attest
<1>3. CASE ProcessStep(p)
  BY <1>1, <1>3, KeygenOpensInv, KeygenWritesInv, LoadPresenterInv,
     CredentialOpensInv, CredentialWritesInv, CommandFailsInv, SignReadsInv
     DEF ProcessStep
<1>4. CASE WriteFails(p) \/ Interrupted(p)
  BY <1>1, <1>4, WriteFailsInv, InterruptedInv
<1>5. CASE Start(p) \/ SignLoads(p)
  BY <1>1, <1>5, StartInv, SignLoadsInv
<1>6. QED BY <1>2, <1>3, <1>4, <1>5

LEMMA StutterInv == ASSUME IInv, UNCHANGED vars PROVE IInv'
<1>1. /\ UNCHANGED <<presenter, credential, procs, child, rekeyed, missigned,
                     foreign, ready, status, asked, phase, request, healthy,
                     outsider, reopened>>
  BY DEF vars, cliVars, files, history, slot
<1>2. TypeOK' /\ SlotConsistent'
  BY <1>1 DEF IInv, TypeOK, CliTypeOK, history, SlotConsistent
<1>3. OneKey' /\ OnlyTrue'
  BY <1>1 DEF IInv, OneKey, OnlyTrue, Carries, Does
<1>4. OwnKeygen' /\ LastProved'
  BY <1>1 DEF IInv, OwnKeygen, LastProved, Does, HasExited
<1>5. QED BY <1>2, <1>3, <1>4 DEF IInv

LEMMA NextInv == IInv /\ [Next]_vars => IInv'
<1> SUFFICES ASSUME IInv, [Next]_vars PROVE IInv'
  OBVIOUS
<1>1. CASE ProveRefused
  BY <1>1, ReportInv DEF ProveRefused
<1>2. CASE \E q \in Requests : ProveCalled(q)
  BY <1>2, ProveCalledInv
<1>3. CASE \/ KeygenExits \/ KeygenOutlasts
           \/ ProveFails \/ ProveSucceeds \/ ProveOutlasts
  BY <1>3, SlotReturnsInv
<1>4. CASE Send
  BY <1>4, ReportInv DEF Send
<1>5. CASE Restart
  BY <1>5, RestartInv
<1>6. CASE Attest
  BY <1>6, AttestInv
<1>7. CASE UNCHANGED vars
  BY <1>7, StutterInv
<1>8. QED BY <1>1, <1>2, <1>3, <1>4, <1>5, <1>6, <1>7 DEF Next

-----------------------------------------------------------------------------
(* Theorems.                                                               *)

\* The strengthened invariant holds in every state.
THEOREM Invariance == Spec => []IInv
<1>1. Init => IInv
  BY InitInv
<1>2. IInv /\ [Next]_vars => IInv'
  BY NextInv
<1>3. QED BY <1>1, <1>2, PTL DEF Spec

\* Where every child starts and ends within its limit, well, badly or killed, and as
\* long as no other process writes the credential: the file of a ready credential is
\* there, and it is the credential of the request reported proved, unless a later
\* child has opened it (attestation_bridge.cpp, prove: a failure returns with
\* m_credentialReady as it is).
THEOREM ReportsMeanProved == Spec => []BridgeInv
<1>1. IInv => BridgeInv
  BY DEF IInv, LastProved, BridgeInv, ReadyAsReported
<1>2. QED BY <1>1, Invariance, PTL

\* The bridge by itself never has keygen (attest.rs) write over a key:
\* it asks for one only where there is no key file, and waits for it.
THEOREM KeyIsKept == Spec => []KeyKept
<1>1. IInv => KeyKept
  BY DEF IInv, OwnKeygen, KeyKept
<1>2. QED BY <1>1, Invariance, PTL

\* As long as no keygen wrote over a key, the credential on file is of a true
\* statement and answers to the key on file, and whatever sign-challenge signed
\* fits the journal (attest.rs, prove and sign-challenge).
THEOREM FilesAgree == Spec => []CredentialSignable
<1>1. IInv => CredentialSignable
  <2> SUFFICES ASSUME IInv, ~rekeyed, credential \in Credentials
               PROVE  /\ Verifies(credential.about)
                      /\ credential.about.threshold <= Balance
    BY DEF IInv, OneKey, CredentialSignable
  <2>1. presenter = credential.key /\ credential.about.threshold <= Balance
    BY DEF IInv, OneKey, OnlyTrue
  <2>2. credential.about.threshold \in Nat
    BY CliAssumption DEF Credentials, Requests
  <2>3. QED BY <2>1, <2>2 DEF Verifies
<1>2. QED BY <1>1, Invariance, PTL

\* What the SDK calls an error, by the phrases in it.
LEMMA Classified ==
    ASSUME NEW message
    PROVE  Classify(message) =
              IF Assertion \in message \/ "guest panicked" \in message
              THEN "StatementFalse"
              ELSE IF "session limit" \in message \/ "cycle limit" \in message
              THEN "SessionLimit"
              ELSE IF \/ "groth16" \in message \/ "stark2snark" \in message
                      \/ "docker" \in message
              THEN "Groth16Unavailable"
              ELSE IF \/ "r0vm" \in message \/ "no such file" \in message
                      \/ "not found" \in message
              THEN "ProverUnavailable"
              ELSE "Other"
<1>1. message \cap {Assertion, "guest panicked"} # {} <=>
         Assertion \in message \/ "guest panicked" \in message
  OBVIOUS
<1>2. message \cap {"session limit", "cycle limit"} # {} <=>
         "session limit" \in message \/ "cycle limit" \in message
  OBVIOUS
<1>3. message \cap {"groth16", "stark2snark", "docker"} # {} <=>
         \/ "groth16" \in message \/ "stark2snark" \in message
         \/ "docker" \in message
  OBVIOUS
<1>4. message \cap {"r0vm", "no such file", "not found"} # {} <=>
         \/ "r0vm" \in message \/ "no such file" \in message
         \/ "not found" \in message
  OBVIOUS
<1>5. QED BY Zenon, <1>1, <1>2, <1>3, <1>4 DEF Classify

\* A failed prove names its cause, whichever of the prover and the sidecar are
\* missing (attestation-sdk, ProveError::classify).
THEOREM CauseIsNamed == Spec => []CauseNamed
<1>1. ASSUME NEW about \in Requests, NEW missing \in SUBSET {"r0vm", "docker"},
             NEW groth16 \in BOOLEAN,
             NEW message \in ProverErrors(about, missing, groth16)
      PROVE  Classify(message) =
                CASE "r0vm" \in missing -> "ProverUnavailable"
                  [] "r0vm" \notin missing /\ about.threshold > Balance
                         -> "StatementFalse"
                  [] OTHER -> "Groth16Unavailable"
  <2>1. CASE "r0vm" \in missing
    <3>1. message \in {{"r0vm", "no such file"}, {"r0vm", "not found"}}
      BY <2>1 DEF ProverErrors
    <3>2. Classify(message) = "ProverUnavailable"
      BY <3>1, Classified DEF Assertion
    <3>3. QED BY <2>1, <3>2
  <2>2. CASE "r0vm" \notin missing /\ about.threshold > Balance
    <3>1. Assertion \in message
      BY <2>2 DEF ProverErrors
    <3>2. Classify(message) = "StatementFalse"
      BY <3>1, Classified
    <3>3. QED BY <2>2, <3>2
  <2>3. CASE "r0vm" \notin missing /\ ~(about.threshold > Balance)
    <3>1. message \in {{"docker"}, {"docker", "no such file"},
                       {"groth16", "docker", "not found"}}
      BY <2>3 DEF ProverErrors
    <3>2. Classify(message) = "Groth16Unavailable"
      BY <3>1, Classified DEF Assertion
    <3>3. QED BY <2>3, <3>2
  <2>4. QED BY <2>1, <2>2, <2>3
<1>2. IInv => CauseNamed
  <2> SUFFICES ASSUME IInv, NEW p \in Procs, Does(p, "prove", "proving")
               PROVE  procs[p].about \in Requests
    BY <1>1 DEF CauseNamed
  <2>1. QED BY Shapes DEF IInv, TypeOK, CliTypeOK, Does
<1>3. QED BY <1>2, Invariance, PTL
=============================================================================
