-------------------------- MODULE LiveBackendProofs --------------------------
(***************************************************************************)
(* Proofs about the live backend for any number of sessions on one port    *)
(* and sequences of any length.                                            *)
(***************************************************************************)
EXTENDS LiveBackend, TLAPS

\* The actions of a session that concern its launch alone, its process, and its teardown.
LaunchAction(s) ==
    \/ Reject(s) \/ AnswerBegins(s) \/ HealthAnswer(s) \/ HealthRefused(s)
    \/ DeadlinePasses(s) \/ Wake(s)
    \/ Submit(s) \/ FetchTrace(s) \/ CallFails(s)
ProcessAction(s) == Boot(s) \/ Die(s) \/ DieOfKill(s) \/ SpawnError(s) \/ ExitEvent(s)
TeardownAction(s) == Teardown(s) \/ StopNode(s) \/ KillTimer(s) \/ CloseEvent(s)

LEMMA NextCases ==
    ASSUME Next
    PROVE  \E s \in Sessions : LaunchAction(s) \/ Launch(s) \/ ProcessAction(s) \/ TeardownAction(s)
BY DEF Next, RequestStep, LaunchAction, ProcessAction, TeardownAction

-----------------------------------------------------------------------------
Launches == {"idle", "waiting", "running", "loaded", "failed"}

LEMMA LaunchFailsTypes ==
    ASSUME launch \in [Sessions -> Launches], NEW s \in Sessions, LaunchFails(s) \/ UNCHANGED launch
    PROVE  launch' \in [Sessions -> Launches]
BY DEF LaunchFails, Launches

LEMMA LaunchTypes ==
    ASSUME TypeOK, NEW s \in Sessions, LaunchAction(s) \/ Launch(s)
    PROVE  TypeOK'
<1>1. CASE Reject(s)
  BY <1>1 DEF TypeOK, Reject
<1>2. CASE Launch(s)
  <2>1. held' \in [Sessions -> BOOLEAN]
    BY <1>2 DEF TypeOK, Launch
  <2>2. node' \in [Sessions -> NodeStates]
    BY <1>2 DEF TypeOK, Launch, NodeStates
  <2> QED BY <1>2, <2>1, <2>2 DEF TypeOK, Launch
<1>3. CASE HealthAnswer(s)
  BY <1>3 DEF TypeOK, HealthAnswer, Ended
<1>4. CASE AnswerBegins(s)
  <2>1. PICK n \in Sessions : reading' = [reading EXCEPT ![s] = {n}]
    BY <1>4 DEF AnswerBegins, Servers
  <2>2. reading' \in [Sessions -> SUBSET Sessions]
    BY <2>1 DEF TypeOK
  <2> QED BY <1>4, <2>2 DEF TypeOK, AnswerBegins
<1>8. CASE HealthRefused(s)
  BY <1>8 DEF TypeOK, HealthRefused, Ended
<1>9. CASE DeadlinePasses(s)
  BY <1>9 DEF TypeOK, DeadlinePasses
<1>5. CASE Wake(s)
  <2>1. launch' \in [Sessions -> Launches]
    BY <1>5, LaunchFailsTypes DEF TypeOK, Wake, Launches
  <2>2. poll' \in [Sessions -> {"off", "asking", "sleeping"}] /\ expired' \in [Sessions -> BOOLEAN]
    <3>1. poll \in [Sessions -> {"off", "asking", "sleeping"}] /\ expired \in [Sessions -> BOOLEAN]
      BY DEF TypeOK
    <3> QED BY ONLY <1>5, <3>1 DEF Wake
  <2> QED BY <1>5, <2>1, <2>2 DEF TypeOK, Wake, Launches
<1>6. CASE Submit(s)
  BY <1>6, BackendAssumption DEF TypeOK, Submit, Ended
<1>7. CASE FetchTrace(s) \/ CallFails(s)
  BY <1>7 DEF TypeOK, FetchTrace, CallFails, Ended
<1> QED BY <1>1, <1>2, <1>3, <1>4, <1>5, <1>6, <1>7, <1>8, <1>9 DEF LaunchAction

LEMMA ProcessTypes ==
    ASSUME TypeOK, NEW s \in Sessions, ProcessAction(s)
    PROVE  TypeOK'
<1>1. CASE Boot(s)
  BY <1>1 DEF TypeOK, Boot, NodeStates
<1>2. CASE Die(s) \/ DieOfKill(s)
  <2>1. \E state \in NodeStates : node' = [node EXCEPT ![s] = state]
    BY <1>2 DEF Die, DieOfKill, NodeStates
  <2>2. node' \in [Sessions -> NodeStates]
    BY <2>1 DEF TypeOK
  <2> QED BY <1>2, <2>2 DEF TypeOK, Die, DieOfKill
<1>3. CASE SpawnError(s) \/ ExitEvent(s)
  <2>1. launch' \in [Sessions -> Launches]
    BY <1>3, LaunchFailsTypes DEF TypeOK, SpawnError, ExitEvent, Fail, Launches
  <2>2. failure' \in [Sessions -> BOOLEAN]
    <3>1. failure \in [Sessions -> BOOLEAN]
      BY DEF TypeOK
    <3>2. failure' = failure \/ failure' = [failure EXCEPT ![s] = TRUE]
      BY <1>3 DEF SpawnError, ExitEvent, Fail
    <3> QED BY ONLY <3>1, <3>2
  <2>3. events' \in [Sessions -> {"none", "exit", "close"}]
    BY <1>3 DEF TypeOK, SpawnError, ExitEvent
  <2> QED BY <1>3, <2>1, <2>2, <2>3 DEF TypeOK, SpawnError, ExitEvent, Launches
<1> QED BY <1>1, <1>2, <1>3 DEF ProcessAction

LEMMA TeardownTypes ==
    ASSUME TypeOK, NEW s \in Sessions, TeardownAction(s)
    PROVE  TypeOK'
<1>1. CASE Teardown(s)
  BY <1>1 DEF TypeOK, Teardown, Disposed
<1>2. CASE StopNode(s)
  BY <1>2 DEF TypeOK, StopNode
<1>3. CASE KillTimer(s)
  BY <1>3 DEF TypeOK, KillTimer, Disposed
<1>4. CASE CloseEvent(s)
  BY <1>4 DEF TypeOK, CloseEvent, Disposed
<1> QED BY <1>1, <1>2, <1>3, <1>4 DEF TeardownAction

LEMMA TypesPreserved ==
    ASSUME TypeOK, [Next]_vars
    PROVE  TypeOK'
<1>1. CASE Next
  BY <1>1, NextCases, LaunchTypes, ProcessTypes, TeardownTypes
<1>2. CASE UNCHANGED vars
  BY <1>2 DEF TypeOK, vars
<1> QED BY <1>1, <1>2

LEMMA InitTypes ==
    ASSUME Init
    PROVE  TypeOK
BY BackendAssumption DEF Init, TypeOK, NodeStates

\* Type correctness of every session, its process and its poll.
THEOREM TypeCorrect == Spec => []TypeOK
BY InitTypes, TypesPreserved, PTL DEF Spec

-----------------------------------------------------------------------------
\* Why nothing leaks: a session that is not closed holds the process it spawned;
\* no event comes of a process that lives; and closing a session whose process
\* lives is left to the timer, which kills it.
Safe(s) ==
    /\ launch[s] = "idle" => node[s] = "none"
    /\ conn[s] # "closed" /\ node[s] # "none" => held[s]
    /\ events[s] # "none" => ~Alive(s)
    /\ node[s] = "none" => events[s] = "none"
    /\ conn[s] = "closed" /\ Alive(s) => killed[s]

SafeInv == TypeOK /\ \A s \in Sessions : Safe(s)

\* What a session's actions leave to the others, and to itself.
Kept(t) ==
    /\ conn'[t] = conn[t] /\ node'[t] = node[t] /\ held'[t] = held[t]
    /\ events'[t] = events[t] /\ killed'[t] = killed[t]
    /\ launch'[t] = "idle" => launch[t] = "idle"

LEMMA KeptSafe ==
    ASSUME NEW t \in Sessions, Safe(t), Kept(t)
    PROVE  Safe(t)'
BY DEF Safe, Kept, Alive

LEMMA OthersKept ==
    ASSUME TypeOK, NEW s \in Sessions, LaunchAction(s) \/ Launch(s) \/ ProcessAction(s) \/ TeardownAction(s),
           NEW t \in Sessions, t # s
    PROVE  Kept(t)
<1> USE DEF TypeOK, Kept
<1>1. CASE Reject(s) \/ AnswerBegins(s) \/ HealthAnswer(s) \/ HealthRefused(s) \/ DeadlinePasses(s)
  BY <1>1 DEF Reject, AnswerBegins, HealthAnswer, HealthRefused, DeadlinePasses
<1>2. CASE Wake(s) \/ Submit(s) \/ FetchTrace(s) \/ CallFails(s)
  BY <1>2 DEF Wake, LaunchFails, Submit, FetchTrace, CallFails
<1>3. CASE Launch(s) \/ Boot(s) \/ Die(s) \/ DieOfKill(s)
  BY <1>3 DEF Launch, Boot, Die, DieOfKill
<1>4. CASE SpawnError(s) \/ ExitEvent(s)
  BY <1>4 DEF SpawnError, ExitEvent, Fail, LaunchFails
<1>5. CASE Teardown(s) \/ StopNode(s) \/ KillTimer(s) \/ CloseEvent(s)
  BY <1>5 DEF Teardown, StopNode, KillTimer, CloseEvent, Disposed
<1> QED BY <1>1, <1>2, <1>3, <1>4, <1>5 DEF LaunchAction, ProcessAction, TeardownAction

LEMMA LaunchSafe ==
    ASSUME TypeOK, NEW s \in Sessions, Safe(s), LaunchAction(s) \/ Launch(s)
    PROVE  Safe(s)'
<1>1. CASE Launch(s)
  BY <1>1 DEF TypeOK, Safe, Launch, CanLaunch, Alive
<1>2. CASE LaunchAction(s)
  <2>1. Kept(s)
    BY <1>2 DEF TypeOK, Kept, LaunchAction, Reject, AnswerBegins, HealthAnswer, HealthRefused,
         DeadlinePasses, Wake, LaunchFails, Submit, FetchTrace, CallFails
  <2> QED BY <2>1, KeptSafe
<1> QED BY <1>1, <1>2

LEMMA ProcessSafe ==
    ASSUME TypeOK, NEW s \in Sessions, Safe(s), ProcessAction(s)
    PROVE  Safe(s)'
<1>1. CASE Boot(s) \/ Die(s) \/ DieOfKill(s)
  BY <1>1 DEF TypeOK, Safe, Boot, Die, DieOfKill, Alive
<1>2. CASE SpawnError(s) \/ ExitEvent(s)
  BY <1>2 DEF TypeOK, Safe, SpawnError, ExitEvent, Fail, LaunchFails, Alive, Dead
<1> QED BY <1>1, <1>2 DEF ProcessAction

LEMMA TeardownSafe ==
    ASSUME TypeOK, NEW s \in Sessions, Safe(s), TeardownAction(s)
    PROVE  Safe(s)'
<1>1. CASE Teardown(s)
  BY <1>1 DEF TypeOK, Safe, Teardown, Disposed, Alive
<1>2. CASE StopNode(s) \/ KillTimer(s)
  BY <1>2 DEF TypeOK, Safe, StopNode, KillTimer, Disposed, Alive
<1>3. CASE CloseEvent(s)
  BY <1>3 DEF TypeOK, Safe, CloseEvent, Disposed, Alive
<1> QED BY <1>1, <1>2, <1>3 DEF TeardownAction

LEMMA SafePreserved ==
    ASSUME SafeInv, [Next]_vars
    PROVE  SafeInv'
<1>1. TypeOK'
  BY TypesPreserved DEF SafeInv
<1>2. CASE Next
  <2>1. PICK s \in Sessions : LaunchAction(s) \/ Launch(s) \/ ProcessAction(s) \/ TeardownAction(s)
    BY <1>2, NextCases
  <2>2. Safe(s)'
    BY <2>1, LaunchSafe, ProcessSafe, TeardownSafe DEF SafeInv
  <2>3. ASSUME NEW t \in Sessions, t # s PROVE Safe(t)'
    BY <2>1, <2>3, OthersKept, KeptSafe DEF SafeInv
  <2> QED BY <1>1, <2>2, <2>3 DEF SafeInv
<1>3. CASE UNCHANGED vars
  BY <1>1, <1>3 DEF SafeInv, Safe, Alive, vars
<1> QED BY <1>2, <1>3

\* No teardown, however it races the child's events, leaves a node alive that was
\* not sent SIGKILL.
THEOREM NoNodeEverLeaked == Spec => []NoNodeLeaked
<1>1. Init => SafeInv
  BY InitTypes DEF Init, SafeInv, Safe, Alive
<1>2. SafeInv /\ [Next]_vars => SafeInv'
  BY SafePreserved
<1>3. SafeInv => NoNodeLeaked
  BY DEF SafeInv, Safe, NoNodeLeaked
<1> QED BY <1>1, <1>2, <1>3, PTL DEF Spec

-----------------------------------------------------------------------------
LEMMA OutcomeKept ==
    ASSUME TypeOK, [Next]_vars, NEW t \in Sessions, Settled(t)
    PROVE  launch'[t] = launch[t]
<1>1. CASE Next
  <2>1. PICK s \in Sessions : LaunchAction(s) \/ Launch(s) \/ ProcessAction(s) \/ TeardownAction(s)
    BY <1>1, NextCases
  <2>2. CASE LaunchAction(s) \/ Launch(s)
    BY <2>2 DEF TypeOK, Settled, LaunchAction, Reject, Launch, CanLaunch, AnswerBegins, HealthAnswer,
         HealthRefused, DeadlinePasses, Wake, LaunchFails, Submit, FetchTrace, CallFails
  <2>3. CASE ProcessAction(s)
    BY <2>3 DEF TypeOK, Settled, ProcessAction, Boot, Die, DieOfKill, SpawnError, ExitEvent, Fail, LaunchFails
  <2>4. CASE TeardownAction(s)
    BY <2>4 DEF TeardownAction, Teardown, StopNode, KillTimer, CloseEvent
  <2> QED BY <2>1, <2>2, <2>3, <2>4
<1>2. CASE UNCHANGED vars
  BY <1>2 DEF vars
<1> QED BY <1>1, <1>2

\* The outcome of a launch is final, in every race of the poll, the child's events,
\* the sequence and the teardown.
THEOREM OutcomeAlwaysFinal == Spec => OutcomeFinal
<1>1. Init => TypeOK
  BY InitTypes
<1>2. TypeOK /\ [Next]_vars => TypeOK'
  BY TypesPreserved
<1>3. TypeOK /\ [Next]_vars => [\A s \in Sessions : Settled(s) => launch'[s] = launch[s]]_vars
  BY OutcomeKept
<1> QED BY <1>1, <1>2, <1>3, PTL DEF Spec, OutcomeFinal

=============================================================================
