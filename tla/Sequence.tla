------------------------------ MODULE Sequence ------------------------------
(***************************************************************************)
(* A launch configuration and the transactions it runs on the node:        *)
(* pipeline/config.ts, SequenceRunner.ts and SorobanTxBuilder.ts.  The     *)
(* node is external; it executes an envelope it has not seen and answers   *)
(* one it has seen with the old receipt.  A hash is its envelope.          *)
(***************************************************************************)
EXTENDS Integers, SequencesExt

CONSTANTS
    Configs,    \* launch configurations as authored
    Absent      \* what a configuration leaves out

ASSUME ConfigsAssumption ==
    \A raw \in Configs :
        /\ raw.transactions \in Seq(ToSet(raw.transactions))
        /\ raw.trace.by \in {"none", "index", "string"} /\ raw.trace.n \in Int

VARIABLES
    config,     \* the configuration of the session
    run,        \* the RunContext: [step, uploaded, sequence, deployed, submitted]
    node        \* [executed, receipts] of the node

sequenceVars == <<config, run, node>>

\* parseStep accepts a deploy with an id and somewhere to get its wasm from, and
\* an invoke with the handle of a contract and a function.
StepParses(tx) ==
    \/ tx.kind = "deploy" /\ tx.id # Absent /\ tx.wasm # Absent
    \/ tx.kind = "invoke" /\ tx.contract # Absent /\ tx.function # Absent

\* validateHandles: deploy ids are unique, an invoke names an earlier one.
HandlesValid(steps) ==
    \A i \in DOMAIN steps :
        LET before == {j \in 1..(i - 1) : steps[j].kind = "deploy"}
        IN  IF steps[i].kind = "deploy" THEN \A j \in before : steps[j].id # steps[i].id
            ELSE \E j \in before : steps[j].id = steps[i].contract

\* resolveTrace, 0 for an error.  A selector is [by, n] or [by, id].
ResolveTrace(selector, steps) ==
    LET named == {i \in DOMAIN steps : steps[i].id = selector.id}
        inRange == selector.n >= 0 /\ selector.n < Len(steps)
    IN  CASE selector.by = "none" -> Len(steps)
          [] selector.by = "index" -> IF inRange THEN selector.n + 1 ELSE 0
          [] selector.by = "string" /\ selector.id = "last" -> Len(steps)
          [] OTHER -> IF named = {} THEN 0 ELSE Min(named)

\* normalizeConfig.
Normal(raw) ==
    /\ raw.transactions # <<>>
    /\ \A i \in DOMAIN raw.transactions : StepParses(raw.transactions[i])
    /\ HandlesValid(raw.transactions)
    /\ ResolveTrace(raw.trace, raw.transactions) # 0

NoConfig == [transactions |-> <<>>, trace |-> [by |-> "none", n |-> 0, id |-> Absent]]
Started == [step |-> 0, uploaded |-> FALSE, sequence |-> 0, deployed |-> {}, submitted |-> <<>>]

SequenceInit ==
    /\ config = NoConfig
    /\ run = Started
    /\ node = [executed |-> <<>>, receipts |-> {}]

Current == config.transactions[run.step]
SequenceDone == run.step > Len(config.transactions)

\* Variant: every envelope is built from the account as it is on the ledger.
EnvelopeUnnumbered(body) == [sequence |-> 0, body |-> body]

\* newBuilder: an envelope carries the next account sequence.
Envelope(body) == [sequence |-> run.sequence, body |-> body]

\* The node: an envelope that is not new is not executed.
Receive(envelope) ==
    node' = IF envelope \in node.receipts THEN node
            ELSE [executed |-> Append(node.executed, envelope), receipts |-> node.receipts \union {envelope}]

\* submit: what the transaction settles on is reported and otherwise ignored.
Submit(body, after) == Receive(Envelope(body)) /\ run' = [after EXCEPT !.sequence = @ + 1] /\ UNCHANGED config

\* The transaction that stands for a step is the last it submits.
Finish(body, deployed) ==
    [run EXCEPT !.step = @ + 1, !.uploaded = FALSE, !.deployed = deployed, !.submitted = Append(@, Envelope(body))]

Seed == run.step = 0 /\ Submit([op |-> "create_account"], [run EXCEPT !.step = 1])

Deploying == run.step > 0 /\ ~SequenceDone /\ Current.kind = "deploy"

\* deploy: upload the wasm, then create the contract under a salt made from the
\* handle, which is registered before the node has answered.
Upload ==
    /\ Deploying /\ ~run.uploaded
    /\ Submit([op |-> "upload", wasm |-> Current.wasm], [run EXCEPT !.uploaded = TRUE])

Create ==
    LET body == [op |-> "create", wasm |-> Current.wasm, salt |-> Current.id]
        handle == [id |-> Current.id, contract |-> <<"C", Current.id>>, wasm |-> Current.wasm]
    IN  /\ Deploying /\ run.uploaded
        /\ Submit(body, Finish(body, run.deployed \union {handle}))

\* substitute: the addresses of the contracts the arguments name; an unknown
\* handle throws.
Handles == {d.id : d \in run.deployed}
Addresses(ids) == {d.contract : d \in {d \in run.deployed : d.id \in ids}}

Invoking == run.step > 0 /\ ~SequenceDone /\ Current.kind = "invoke"
UnknownHandle == Invoking /\ ~(Current.args \subseteq Handles)

Invoke ==
    /\ Invoking /\ ~UnknownHandle
    /\ LET target == CHOOSE d \in run.deployed : d.id = Current.contract
           body == [op |-> "invoke", contract |-> target.contract, function |-> Current.function,
                    args |-> Addresses(Current.args)]
       IN  Submit(body, Finish(body, run.deployed))

SequenceStep == Seed \/ Upload \/ Create \/ Invoke

\* The hash fetchTrace asks for.
Traced == run.submitted[ResolveTrace(config.trace, config.transactions)]

-----------------------------------------------------------------------------
\* The transactions a configuration describes, as docs/debug-config.md does, with
\* the step each of them stands for.
Bodies(step, i) ==
    IF step.kind = "deploy"
    THEN <<[step |-> 0, body |-> [op |-> "upload", wasm |-> step.wasm]],
           [step |-> i, body |-> [op |-> "create", wasm |-> step.wasm, salt |-> step.id]]>>
    ELSE <<[step |-> i, body |-> [op |-> "invoke", contract |-> <<"C", step.contract>>,
                                  function |-> step.function, args |-> {<<"C", id>> : id \in step.args}]]>>

Described ==
    <<[step |-> 0, body |-> [op |-> "create_account"]]>>
        \o FlattenSeq([i \in DOMAIN config.transactions |-> Bodies(config.transactions[i], i)])

\* The steps a selector may mean.
Meant ==
    LET steps == config.transactions
    IN  CASE config.trace.by = "index" -> {config.trace.n + 1}
          [] config.trace.by = "string" /\ config.trace.id # "last" -> {i \in DOMAIN steps : steps[i].id = config.trace.id}
          [] OTHER -> {Len(steps)}

\* Every transaction of the configuration is executed once and in order, repeated
\* identical calls included, and the trace that is fetched is the execution of
\* the step the selector names (docs/debug-config.md, "Every transaction gets a
\* distinct hash").
SequenceExact ==
    /\ [i \in DOMAIN node.executed |-> node.executed[i].body] = [i \in DOMAIN Described |-> Described[i].body]
    /\ \E i \in DOMAIN Described : Described[i].step \in Meant /\ node.executed[i] = Traced

=============================================================================
