---------------------------- MODULE LiveBackend ----------------------------
(***************************************************************************)
(* Debug sessions on the live backend: LiveBackend.ts, the komet-node      *)
(* process it spawns (KometProcess.ts), the health poll (KometClient.ts),  *)
(* the transaction sequence (SequenceRunner.ts) and the teardown of        *)
(* SorobanDebugSession.ts.  All sessions are configured for one port, as   *)
(* the default configuration is; the port belongs to one node at a time.   *)
(*                                                                         *)
(* The adapter is one JavaScript thread: an action runs from one awaited   *)
(* event to the next.  komet-node and the client are the environment.      *)
(***************************************************************************)
EXTENDS Integers, FiniteSets

CONSTANTS
    Sessions,       \* debug sessions of one adapter
    Steps,          \* bound: transactions of a sequence
    Overlap         \* whether a client launches while another session is alive

ASSUME BackendAssumption == Steps \in Nat \ {0} /\ Overlap \in BOOLEAN

VARIABLES
    conn,           \* the session: "open", "stopping" (dispose awaits), "closed"
    launch,         \* "idle", "waiting", "running", "loaded" or "failed"
    poll,           \* waitForHealthy: "off", "asking" (request sent) or "sleeping"
    reading,        \* the node whose answer to the pending request has begun, if any
    expired,        \* whether its deadline has passed (a local of the poll)
    held,           \* LiveBackend.process is set
    failure,        \* KometProcess.failure is set
    done,           \* transactions the sequence has submitted
    node,           \* the OS process, see NodeStates
    killed,         \* the 3000 ms timer of stop() has sent it SIGKILL
    events          \* child events delivered: "none", "exit" or "close"

vars == <<conn, launch, poll, reading, expired, held, failure, done, node, killed, events>>

\* "failing": spawn failed, no pid; "exited" by itself; "killed" by a signal.
NodeStates == {"none", "failing", "booting", "serving", "exited", "killed"}
Alive(s) == node[s] \in {"booting", "serving"}
Dead(s) == node[s] \in {"exited", "killed"}
Servers == {n \in Sessions : node[n] = "serving"}

\* KometProcess.stopping is set from the first call of stop() on.
Stopping(s) == conn[s] # "open"
Settled(s) == launch[s] \in {"loaded", "failed"}

Init ==
    /\ conn = [s \in Sessions |-> "open"]
    /\ launch = [s \in Sessions |-> "idle"]
    /\ poll = [s \in Sessions |-> "off"]
    /\ reading = [s \in Sessions |-> {}]
    /\ expired = [s \in Sessions |-> FALSE]
    /\ held = [s \in Sessions |-> FALSE]
    /\ failure = [s \in Sessions |-> FALSE]
    /\ done = [s \in Sessions |-> 0]
    /\ node = [s \in Sessions |-> "none"]
    /\ killed = [s \in Sessions |-> FALSE]
    /\ events = [s \in Sessions |-> "none"]

-----------------------------------------------------------------------------
(***************************************************************************)
(* The launch: LiveBackend.resolve.                                        *)
(***************************************************************************)

CanLaunch(s) ==
    /\ conn[s] = "open" /\ launch[s] = "idle"
    /\ Overlap \/ \A t \in Sessions \ {s} : launch[t] = "idle" \/ conn[t] = "closed"

\* normalizeConfig rejects the configuration before anything is spawned.
Reject(s) ==
    /\ CanLaunch(s)
    /\ launch' = [launch EXCEPT ![s] = "failed"]
    /\ UNCHANGED <<conn, poll, reading, expired, held, failure, done, node, killed, events>>

\* Spawn the node, unless attached to one, and send the first health request.
Launch(s) ==
    /\ CanLaunch(s)
    /\ launch' = [launch EXCEPT ![s] = "waiting"]
    /\ poll' = [poll EXCEPT ![s] = "asking"]
    /\ \/ /\ held' = [held EXCEPT ![s] = TRUE]
          /\ \E state \in {"failing", "booting"} : node' = [node EXCEPT ![s] = state]
       \/ UNCHANGED <<held, node>>      \* attach
    /\ UNCHANGED <<conn, reading, expired, failure, done, killed, events>>

\* Variant: a failure overrides an outcome.
LaunchFailsAnyway(s) == launch' = [launch EXCEPT ![s] = "failed"]

\* A waiting launch ends with the failure; a promise settles only once.
LaunchFails(s) ==
    launch' = [launch EXCEPT ![s] = IF @ = "waiting" THEN "failed" ELSE @]

(***************************************************************************)
(* KometClient.call.  The timer that aborts a request runs until the       *)
(* headers of the answer are there (`finally`); the body is read without   *)
(* one.  A session has at most one request pending: a health request of    *)
(* its poll or, once that is over, a call of its sequence.                 *)
(***************************************************************************)
Asking(s) == poll[s] = "asking" \/ launch[s] = "running"
Ended(s) == reading' = [reading EXCEPT ![s] = {}]

\* The node on the port begins its answer; it has executed what was submitted.
AnswerBegins(s) ==
    /\ Asking(s) /\ reading[s] = {}
    /\ \E n \in Servers : reading' = [reading EXCEPT ![s] = {n}]
    /\ UNCHANGED <<conn, launch, poll, expired, held, failure, done, node, killed, events>>

\* The answer is `healthy`: the poll loop returns and, if the race was still open,
\* the sequence starts.
HealthAnswer(s) ==
    /\ poll[s] = "asking" /\ reading[s] # {}
    /\ Ended(s)
    /\ poll' = [poll EXCEPT ![s] = "off"] /\ expired' = [expired EXCEPT ![s] = FALSE]
    /\ launch' = [launch EXCEPT ![s] = IF @ = "waiting" THEN "running" ELSE @]
    /\ UNCHANGED <<conn, held, failure, done, node, killed, events>>

\* Refused, aborted by the timer, cut off, or not healthy yet.
HealthRefused(s) ==
    /\ poll[s] = "asking"
    /\ Ended(s)
    /\ poll' = [poll EXCEPT ![s] = "sleeping"]
    /\ UNCHANGED <<conn, launch, expired, held, failure, done, node, killed, events>>

DeadlinePasses(s) ==
    /\ poll[s] # "off" /\ ~expired[s]
    /\ expired' = [expired EXCEPT ![s] = TRUE]
    /\ UNCHANGED <<conn, launch, poll, reading, held, failure, done, node, killed, events>>

\* `giveUp`: this.process?.currentFailure() !== undefined.
GiveUp(s) == held[s] /\ failure[s]

\* Variant: the poll loop has no deadline of its own.
WakeForEver(s) ==
    /\ poll[s] = "sleeping"
    /\ \/ GiveUp(s) /\ poll' = [poll EXCEPT ![s] = "off"] /\ LaunchFails(s)
       \/ ~GiveUp(s) /\ poll' = [poll EXCEPT ![s] = "asking"] /\ UNCHANGED launch
    /\ UNCHANGED <<conn, reading, expired, held, failure, done, node, killed, events>>

\* The poll loop wakes up: it ends at the deadline or when told to give up, and
\* asks again otherwise.
Wake(s) ==
    /\ poll[s] = "sleeping"
    /\ \/ /\ expired[s] \/ GiveUp(s)
          /\ poll' = [poll EXCEPT ![s] = "off"] /\ expired' = [expired EXCEPT ![s] = FALSE]
          /\ LaunchFails(s)
       \/ /\ ~expired[s] /\ ~GiveUp(s)
          /\ poll' = [poll EXCEPT ![s] = "asking"]
          /\ UNCHANGED <<launch, expired>>
    /\ UNCHANGED <<conn, reading, held, failure, done, node, killed, events>>

(***************************************************************************)
(* The sequence: SequenceRunner.run.  Every call goes to the port, not to  *)
(* a node: a submit that no node takes fails the launch.                   *)
(***************************************************************************)
\* Variant: one transaction too many.
SubmitOneMore(s) ==
    /\ launch[s] = "running" /\ reading[s] # {} /\ done[s] <= Steps
    /\ Ended(s)
    /\ done' = [done EXCEPT ![s] = @ + 1]
    /\ UNCHANGED <<conn, launch, poll, expired, held, failure, node, killed, events>>

Submit(s) ==
    /\ launch[s] = "running" /\ reading[s] # {} /\ done[s] < Steps
    /\ Ended(s)
    /\ done' = [done EXCEPT ![s] = @ + 1]
    /\ UNCHANGED <<conn, launch, poll, expired, held, failure, node, killed, events>>

FetchTrace(s) ==
    /\ launch[s] = "running" /\ reading[s] # {} /\ done[s] = Steps
    /\ Ended(s)
    /\ launch' = [launch EXCEPT ![s] = "loaded"]
    /\ UNCHANGED <<conn, poll, expired, held, failure, done, node, killed, events>>

\* Nobody listens, an RPC error, the call's own timeout, or an answer cut off.
CallFails(s) ==
    /\ launch[s] = "running"
    /\ Ended(s)
    /\ launch' = [launch EXCEPT ![s] = "failed"]
    /\ UNCHANGED <<conn, poll, expired, held, failure, done, node, killed, events>>

-----------------------------------------------------------------------------
(***************************************************************************)
(* The child process and its events.                                       *)
(***************************************************************************)

\* The node binds the port, or exits because it is taken.
Boot(s) ==
    /\ node[s] = "booting"
    /\ node' = [node EXCEPT ![s] = IF Servers = {} THEN "serving" ELSE "exited"]
    /\ UNCHANGED <<conn, launch, poll, reading, expired, held, failure, done, killed, events>>

\* The node ends: by itself at any time, or by a signal, ours or another's.
Die(s) ==
    /\ Alive(s)
    /\ \E state \in {"exited", "killed"} : node' = [node EXCEPT ![s] = state]
    /\ UNCHANGED <<conn, launch, poll, reading, expired, held, failure, done, killed, events>>

\* SIGKILL cannot be ignored.
DieOfKill(s) ==
    /\ Alive(s) /\ killed[s]
    /\ node' = [node EXCEPT ![s] = "killed"]
    /\ UNCHANGED <<conn, launch, poll, reading, expired, held, failure, done, killed, events>>

\* fail(): the first failure releases whoever waits for it, unless the shutdown
\* was ours.  The race settles in the same turn of the event loop.
Fail(s) ==
    IF Stopping(s) \/ failure[s] THEN UNCHANGED <<failure, launch>>
    ELSE failure' = [failure EXCEPT ![s] = TRUE] /\ LaunchFails(s)

SpawnError(s) ==
    /\ node[s] = "failing" /\ events[s] = "none"
    /\ events' = [events EXCEPT ![s] = "close"]
    /\ Fail(s)
    /\ UNCHANGED <<conn, poll, reading, expired, held, done, node, killed>>

ExitEvent(s) ==
    /\ Dead(s) /\ events[s] = "none"
    /\ events' = [events EXCEPT ![s] = "exit"]
    /\ Fail(s)
    /\ UNCHANGED <<conn, poll, reading, expired, held, done, node, killed>>

-----------------------------------------------------------------------------
(***************************************************************************)
(* The teardown: disconnect request or dropped connection.                 *)
(***************************************************************************)

\* dispose() returned: LiveBackend.process = undefined.
Disposed(s) ==
    /\ conn' = [conn EXCEPT ![s] = "closed"]
    /\ held' = [held EXCEPT ![s] = FALSE]

\* stop() finds nothing to signal: no child, no pid, or an exit code.
Teardown(s) ==
    /\ conn[s] = "open"
    /\ ~held[s] \/ node[s] = "failing" \/ (node[s] = "exited" /\ events[s] # "none")
    /\ Disposed(s)
    /\ UNCHANGED <<launch, poll, reading, expired, failure, done, node, killed, events>>

\* Variants: stop() does not wait for the child it signalled; its timer gives up
\* without a SIGKILL.
StopWithoutWaiting(s) ==
    /\ conn[s] = "open" /\ held[s]
    /\ Alive(s) \/ node[s] = "killed" \/ (node[s] = "exited" /\ events[s] = "none")
    /\ Disposed(s)
    /\ UNCHANGED <<launch, poll, reading, expired, failure, done, node, killed, events>>

GiveUpKilling(s) ==
    /\ conn[s] = "stopping"
    /\ Disposed(s)
    /\ UNCHANGED <<launch, poll, reading, expired, failure, done, node, killed, events>>

\* stop() signals the process group and awaits `close` or its timer.
StopNode(s) ==
    /\ conn[s] = "open" /\ held[s]
    /\ Alive(s) \/ node[s] = "killed" \/ (node[s] = "exited" /\ events[s] = "none")
    /\ conn' = [conn EXCEPT ![s] = "stopping"]
    /\ UNCHANGED <<launch, poll, reading, expired, held, failure, done, node, killed, events>>

CloseEvent(s) ==
    /\ events[s] = "exit"
    /\ events' = [events EXCEPT ![s] = "close"]
    /\ IF conn[s] = "stopping" THEN Disposed(s) ELSE UNCHANGED <<conn, held>>
    /\ UNCHANGED <<launch, poll, reading, expired, failure, done, node, killed>>

\* 3000 ms later: SIGKILL, and stop() resolves without waiting for its effect.
KillTimer(s) ==
    /\ conn[s] = "stopping"
    /\ killed' = [killed EXCEPT ![s] = TRUE]
    /\ Disposed(s)
    /\ UNCHANGED <<launch, poll, reading, expired, failure, done, node, events>>

-----------------------------------------------------------------------------
RequestStep(s) ==
    \/ AnswerBegins(s) \/ HealthAnswer(s) \/ HealthRefused(s)
    \/ Submit(s) \/ FetchTrace(s) \/ CallFails(s)

Next ==
    \E s \in Sessions :
        \/ Reject(s) \/ Launch(s)
        \/ RequestStep(s) \/ DeadlinePasses(s) \/ Wake(s)
        \/ Boot(s) \/ Die(s) \/ DieOfKill(s)
        \/ SpawnError(s) \/ ExitEvent(s) \/ CloseEvent(s)
        \/ Teardown(s) \/ StopNode(s) \/ KillTimer(s)

\* A node that lives on has begun an answer and may never complete it.
Stalled(s) == \E n \in reading[s] : Alive(n)

\* Timers fire: a request gets the headers of its answer, an error, or is aborted.
\* An answer that has begun ends when the node that gives it is dead, child events
\* are delivered and SIGKILL kills.  Nothing makes a node boot, serve, complete an
\* answer or obey SIGTERM, and nothing makes a client launch or disconnect.
Fairness ==
    \A s \in Sessions :
        /\ WF_vars(~Stalled(s) /\ RequestStep(s))
        /\ WF_vars(DeadlinePasses(s)) /\ WF_vars(Wake(s))
        /\ WF_vars(SpawnError(s)) /\ WF_vars(ExitEvent(s)) /\ WF_vars(CloseEvent(s))
        /\ WF_vars(KillTimer(s)) /\ WF_vars(DieOfKill(s))

Spec == Init /\ [][Next]_vars /\ Fairness

-----------------------------------------------------------------------------
(***************************************************************************)
(* Properties.                                                             *)
(***************************************************************************)
TypeOK ==
    /\ conn \in [Sessions -> {"open", "stopping", "closed"}]
    /\ launch \in [Sessions -> {"idle", "waiting", "running", "loaded", "failed"}]
    /\ poll \in [Sessions -> {"off", "asking", "sleeping"}]
    /\ reading \in [Sessions -> SUBSET Sessions]
    /\ expired \in [Sessions -> BOOLEAN] /\ held \in [Sessions -> BOOLEAN]
    /\ failure \in [Sessions -> BOOLEAN]
    /\ done \in [Sessions -> 0..Steps]
    /\ node \in [Sessions -> NodeStates]
    /\ killed \in [Sessions -> BOOLEAN]
    /\ events \in [Sessions -> {"none", "exit", "close"}]

\* A teardown never leaks a komet-node: once dispose has returned, the node is
\* dead or has been sent SIGKILL (dapServer.ts, teardown).
NoNodeLeaked == \A s \in Sessions : conn[s] = "closed" /\ Alive(s) => killed[s]

\* Once a teardown has begun its node is dead in the end, with no help from the
\* client and no obedience to SIGTERM: the port can be bound again.
PortFreed == \A s \in Sessions : conn[s] # "open" ~> ~Alive(s)

\* Every launch ends in a replayable trace or an error, whatever the nodes do, but
\* for one thing: a node that stays alive can hold it for ever by not completing an
\* answer it has begun, because no timer guards the reading of a body.
LaunchSettles ==
    \A s \in Sessions : <>[]Stalled(s) \/ (launch[s] = "waiting" ~> Settled(s))

\* An outcome is final: a late health answer, exit event or rejected poll cannot
\* revive a failed launch or fail a loaded one.
OutcomeFinal == [][\A s \in Sessions : Settled(s) => launch'[s] = launch[s]]_vars

\* Node n begins its answer to a submit of session s: it has executed the transaction.
Executes(n, s) ==
    /\ launch[s] = "running" /\ done[s] < Steps
    /\ reading[s] = {} /\ reading'[s] = {n}

\* A sequence runs "against one fresh local ledger" (docs/debug-config.md): the
\* node a session spawned executes no other session's transactions.
FreshLedger == [][\A n, s \in Sessions : Executes(n, s) /\ held[n] => n = s]_vars

=============================================================================
