------------------------------ MODULE Session ------------------------------
(***************************************************************************)
(* A debug session on the TCP server: SorobanDebugSession.ts over the      *)
(* backend of its launch (backendFor.ts, RawTraceBackend.ts and Sequence), *)
(* the stop model, the cursor and the call stack.  An action is a handler  *)
(* from one await to the next; requests arrive in any order a client that  *)
(* knows the protocol may send them in.                                    *)
(***************************************************************************)
EXTENDS Sequence, StopModel, ReplayCursor, CallStackView

CONSTANTS
    Recordings, \* what a file and the live node can hold: sequences of records
    Source,     \* per line: its role, whether it is workspace code, and its file
    Info,       \* the debug information of the contract
    Normalize,  \* the file each path a client may send stands for
    Requests,   \* the lines, and the addresses, clients set breakpoints on
    MaxHandles  \* bound: containers handed out between two stops

\* A trace that a backend resolves: it is not empty, and a record without a
\* validated position has no line.
IsRecording(records) ==
    /\ records # <<>> /\ records \in Seq(ToSet(records))
    /\ \A r \in ToSet(records) :
        /\ r.depth \in Nat /\ r.line \in Nat
        /\ r.pos = NoPos => r.line = NoLine

ASSUME SessionAssumption ==
    /\ MaxHandles \in Nat
    /\ "addresses" \notin {Normalize[p] : p \in DOMAIN Normalize}
    /\ DOMAIN Recordings = {"file", "live"}
    /\ \A kind \in DOMAIN Recordings : \A records \in Recordings[kind] : IsRecording(records)

VARIABLES
    backend,    \* "selector" until the launch, then "file" or "live"
    launch,     \* where launchRequest is, see Launches
    configured, \* the promise configurationDone: "pending" or "resolved"
    trace,      \* the records of the resolved trace
    sourceBreakpoints,
    addresses,  \* instructionBreakpointAddrs
    told,       \* the client's view: per file, and for addresses, when it asked and what was verified
    frames,     \* None, or <<the call stack of this stop>>
    handles,    \* childHandles
    known,      \* the client's view: the references it was given since the last stop
    stopped,    \* a stop has been reported
    socket,     \* "open", "leaving" (dispose awaits) or "closed"
    disposed,   \* SorobanDebugSession.disposed
    disposals   \* history: how often the backend was disposed

breakpointVars == <<sourceBreakpoints, addresses, told>>
viewVars == <<frames, handles, known, stopped>>
connectionVars == <<socket, disposed, disposals>>
sessionVars == <<sequenceVars, cursorVars, backend, launch, configured, trace, breakpointVars,
                 viewVars, connectionVars>>

Launches == {"none", "resolving", "configuring", "running", "failed"}
Files == {Normalize[p] : p \in DOMAIN Normalize}
None == <<>>
Open == socket = "open"

Init ==
    /\ SequenceInit
    /\ CursorInit
    /\ backend = "selector" /\ launch = "none" /\ configured = "pending" /\ trace = <<>>
    /\ sourceBreakpoints = [f \in Files |-> {}] /\ addresses = {}
    /\ told = [f \in Files \union {"addresses"} |-> [asked |-> "never", verified |-> {}]]
    /\ frames = None /\ handles = <<>> /\ known = <<>> /\ stopped = FALSE
    /\ socket = "open" /\ disposed = FALSE /\ disposals = 0

-----------------------------------------------------------------------------
(***************************************************************************)
(* Launch.                                                                 *)
(***************************************************************************)

\* launchRequest up to its first await: the selector gives way to the backend, and
\* a configuration that is not valid ends the launch.
LaunchRequest ==
    /\ Open /\ launch = "none"
    /\ \/ backend' = "file" /\ launch' = "resolving" /\ UNCHANGED config
       \/ \E raw \in Configs :
            /\ backend' = "live"
            /\ config' = raw
            /\ launch' = IF Normal(raw) THEN "resolving" ELSE "failed"
    /\ UNCHANGED <<run, node, cursorVars, configured, trace, breakpointVars, viewVars, connectionVars>>

Transact ==
    /\ launch = "resolving" /\ backend = "live" /\ SequenceStep
    /\ UNCHANGED <<cursorVars, backend, launch, configured, trace, breakpointVars, viewVars, connectionVars>>

\* computeRunStarts over the whole trace.
RunStarts(records) ==
    LET Runs[i \in 0..Len(records)] ==
            IF i = 0 THEN [runs |-> <<>>, starts |-> <<>>] ELSE RunStep(Runs[i - 1], i, records[i])
    IN  Runs[Len(records)].starts

\* The records have arrived; the model and the cursor are built, the client is
\* told to configure the session, and the launch awaits that it has.  No
\* records are an error.
Resolved ==
    /\ launch = "resolving" /\ (backend = "live" => SequenceDone)
    /\ \/ \E records \in Recordings[backend], justMyCode \in BOOLEAN :
            /\ trace' = records
            /\ stops' = BuildStopModel(records, RunStarts(records), Source, justMyCode)
            /\ launch' = "configuring"
       \/ launch' = "failed" /\ UNCHANGED <<trace, stops>>
    /\ UNCHANGED <<sequenceVars, cursor, last, backend, configured, breakpointVars, viewVars, connectionVars>>

\* A request to the node, a file, a build or the fetch of the trace fails: the
\* launch is answered with the error.
ResolveFails ==
    /\ launch = "resolving" /\ launch' = "failed"
    /\ UNCHANGED <<sequenceVars, cursorVars, backend, configured, trace, breakpointVars, viewVars, connectionVars>>

\* So it is when the arguments of a call name a contract that was not deployed.
ArgumentsFail ==
    /\ launch = "resolving" /\ backend = "live" /\ UnknownHandle
    /\ launch' = "failed"
    /\ UNCHANGED <<sequenceVars, cursorVars, backend, configured, trace, breakpointVars, viewVars, connectionVars>>

\* Variant: the promise is made when the launch waits for it.
ConfigurationDoneLate ==
    /\ Open /\ configured = "pending"
    /\ configured' = IF launch = "configuring" THEN "resolved" ELSE "missed"
    /\ UNCHANGED <<sequenceVars, cursorVars, backend, launch, trace, breakpointVars, viewVars, connectionVars>>

\* configurationDoneRequest, which may come before the trace has.
ConfigurationDone ==
    /\ Open /\ configured = "pending"
    /\ configured' = "resolved"
    /\ UNCHANGED <<sequenceVars, cursorVars, backend, launch, trace, breakpointVars, viewVars, connectionVars>>

\* Variant: the call stack outlives the move.
KeepFrames == handles' = <<>> /\ known' = <<>> /\ stopped' = TRUE /\ UNCHANGED frames

\* reportStop: what was derived from the old position goes.  On the event the client
\* forgets the references it was given.
ReportStop == frames' = None /\ handles' = <<>> /\ known' = <<>> /\ stopped' = TRUE

\* The rest of launchRequest: the launch is answered and the session is at its entry.
Enter ==
    /\ launch = "configuring" /\ configured = "resolved"
    /\ launch' = "running"
    /\ cursor' = FirstStopPoint(stops)
    /\ last' = [NoMove EXCEPT !.kind = "entry", !.from = cursor']
    /\ ReportStop
    /\ UNCHANGED <<sequenceVars, stops, backend, configured, trace, breakpointVars, connectionVars>>

-----------------------------------------------------------------------------
(***************************************************************************)
(* Breakpoints.                                                            *)
(***************************************************************************)

\* resolveBreakpoint of the mapper: the first executed line of the file at or
\* after the wanted one.
ResolveBreakpoint(file, want) ==
    LET lines == {trace[i].line : i \in DOMAIN trace} \ {NoLine}
        after == {l \in lines : Source[l].file = file /\ l >= want}
    IN  IF after = {} THEN {} ELSE {Min(after)}
Verified(file, wanted) == UNION {ResolveBreakpoint(file, want) : want \in wanted}
VerifiedAddresses(wanted) == {a \in wanted : \E i \in stops.visible : trace[i].pos = a}

\* resolveBreakpoints.
BreakpointIndices ==
    LET lines == UNION {Verified(f, sourceBreakpoints[f]) : f \in Files}
    IN  {i \in stops.raw : trace[i].line \in lines} \union {i \in stops.visible : trace[i].pos \in addresses}

\* Variant: a request adds to the breakpoints of its file.
Added(file, wanted) == [sourceBreakpoints EXCEPT ![file] = @ \union wanted]

\* A request carries all breakpoints of its file.
Replaced(file, wanted) == [sourceBreakpoints EXCEPT ![file] = wanted]

Answer(what, verified) ==
    told' = [told EXCEPT ![what] = IF Loaded THEN [asked |-> "loaded", verified |-> verified]
                                             ELSE [asked |-> "early", verified |-> {}]]

SetBreakPoints ==
    \E p \in DOMAIN Normalize, wanted \in Requests.lines :
        /\ Open
        /\ sourceBreakpoints' = Replaced(Normalize[p], wanted)
        /\ Answer(Normalize[p], IF Loaded THEN Verified(Normalize[p], wanted) ELSE {})
        /\ UNCHANGED <<sequenceVars, cursorVars, backend, launch, configured, trace, addresses, viewVars, connectionVars>>

SetInstructionBreakpoints ==
    \E wanted \in Requests.addresses :
        /\ Open
        /\ addresses' = wanted
        /\ Answer("addresses", IF Loaded THEN VerifiedAddresses(wanted) ELSE {})
        /\ UNCHANGED <<sequenceVars, cursorVars, backend, launch, configured, trace, sourceBreakpoints, viewVars, connectionVars>>

-----------------------------------------------------------------------------
(***************************************************************************)
(* Frames and variables.                                                   *)
(***************************************************************************)

\* callFrames: built once per stop; before there is a trace there are none.
CallFrames ==
    IF frames # None THEN frames[1]
    ELSE IF Loaded THEN BuildCallStack(Info, trace, cursor) ELSE <<>>

StackTrace ==
    /\ Open
    /\ frames' = <<CallFrames>>
    /\ UNCHANGED <<sequenceVars, cursorVars, backend, launch, configured, trace, breakpointVars,
                   handles, known, stopped, connectionVars>>

\* Variant: every frame has the registers of the cursor's record.
VariablesAtCursor ==
    \E level \in DOMAIN CallFrames :
        /\ Open /\ stopped /\ Len(handles) < MaxHandles
        /\ frames' = <<CallFrames>>
        /\ CallFrames[level].kind # "contract"
        /\ handles' = Append(handles, [record |-> cursor, memory |-> cursor])
        /\ known' = Append(known, [reference |-> Len(handles'), level |-> level])
        /\ UNCHANGED <<sequenceVars, cursorVars, backend, launch, configured, trace, breakpointVars, stopped, connectionVars>>

\* scopesRequest and variablesRequest of a frame: contract frames offer nothing,
\* others a container behind a fresh handle.  What it expands to was captured then:
\* the frame's record, and memory as it is now.
Variables ==
    \E level \in DOMAIN CallFrames :
        /\ Open /\ stopped /\ Len(handles) < MaxHandles
        /\ frames' = <<CallFrames>>
        /\ CallFrames[level].kind # "contract"
        /\ handles' = Append(handles, [record |-> CallFrames[level].at, memory |-> cursor])
        /\ known' = Append(known, [reference |-> Len(handles'), level |-> level])
        /\ UNCHANGED <<sequenceVars, cursorVars, backend, launch, configured, trace, breakpointVars, stopped, connectionVars>>

-----------------------------------------------------------------------------
(***************************************************************************)
(* Moves.  A client may send them once the session has been initialized,   *)
(* before the launch is answered as well.                                  *)
(***************************************************************************)

\* A step past the last statement ends the session without a stop (S20).
Move ==
    /\ Open /\ launch \in {"configuring", "running"}
    /\ \/ \E kind \in ForwardSteps, gran \in Granularities : StepForward(kind, gran)
       \/ \E gran \in Granularities : StepBackward(gran)
       \/ RunForward(BreakpointIndices)
       \/ RunBackward(BreakpointIndices)
    /\ IF last'.out = "terminated" THEN UNCHANGED viewVars ELSE ReportStop
    /\ UNCHANGED <<sequenceVars, backend, launch, configured, trace, breakpointVars, connectionVars>>

-----------------------------------------------------------------------------
(***************************************************************************)
(* Teardown.                                                               *)
(***************************************************************************)

\* Variant: without the guard.
TeardownAgain ==
    /\ disposed' = TRUE
    /\ disposals' = IF backend = "selector" THEN disposals ELSE disposals + 1

\* teardown: a backend that was never chosen has nothing to dispose of.
Teardown ==
    /\ disposed' = TRUE
    /\ disposals' = IF disposed \/ backend = "selector" THEN disposals ELSE disposals + 1

\* disconnectRequest; nothing is sent after it.
Disconnect ==
    /\ Open /\ socket' = "leaving" /\ Teardown
    /\ UNCHANGED <<sequenceVars, cursorVars, backend, launch, configured, trace, breakpointVars, viewVars>>

\* The socket closes, after a disconnect or without one (dapServer.ts).
SocketCloses ==
    /\ socket # "closed" /\ socket' = "closed" /\ Teardown
    /\ UNCHANGED <<sequenceVars, cursorVars, backend, launch, configured, trace, breakpointVars, viewVars>>

Next ==
    \/ LaunchRequest \/ Transact \/ Resolved \/ ResolveFails \/ ArgumentsFail \/ ConfigurationDone \/ Enter
    \/ SetBreakPoints \/ SetInstructionBreakpoints \/ StackTrace \/ Variables
    \/ Move
    \/ Disconnect \/ SocketCloses

\* The node answers or an answer fails (answers that stall are in LiveBackend), the
\* client finishes configuring and the adapter's own continuations run.
Spec ==
    /\ Init /\ [][Next]_sessionVars
    /\ WF_sessionVars(Transact) /\ WF_sessionVars(Resolved) /\ WF_sessionVars(ArgumentsFail)
    /\ WF_sessionVars(ConfigurationDone) /\ WF_sessionVars(Enter)

-----------------------------------------------------------------------------
(***************************************************************************)
(* Properties.  A record carries what the program was doing when it was    *)
(* written: `true`, its activations, outermost first, and for each of them *)
(* the source frames [name, line], outermost first, it was in.             *)
(***************************************************************************)

\* See SequenceExact; a launch that was loaded live ran the whole sequence.
TracedStepExecuted == backend = "live" /\ Loaded => SequenceExact

\* The source stack of a record, innermost first: <<name, line>>, and where it has
\* no line the function alone.
TrueStack(i) ==
    LET acts == trace[i].true
        of(a) == Reverse(acts[a].frames)
    IN  FlattenSeq([k \in DOMAIN acts |-> of(Len(acts) - k + 1)])

\* The stack shown is the one the program had at the record the session rests on,
\* calls the compiler inlined included, with the host's calls below it; and the state
\* of a frame is that of its own activation.  It is answered from a cache that no move
\* outlives.
StackExact ==
    stopped /\ frames # None =>
        LET shown == frames[1]
            code == {k \in DOMAIN shown : shown[k].kind # "contract"}
        IN  /\ [k \in code |-> <<shown[k].name.of, shown[k].source>>] = TrueStack(cursor)
            /\ \A k \in code : Last(trace[shown[k].at].true).id
                    \in {trace[cursor].true[a].id : a \in DOMAIN trace[cursor].true}

\* The activation of the frame at a level.
Activation(level) ==
    LET acts == trace[cursor].true
        owner == FlattenSeq([k \in DOMAIN acts |->
                    LET a == Len(acts) - k + 1 IN [j \in DOMAIN acts[a].frames |-> acts[a].id]])
    IN  owner[level]

\* A reference the client was given since the last stop still expands to the state of the frame it
\* was given for: the last record its activation wrote, and memory at the cursor.
ReferencesExact ==
    \A k \in DOMAIN known :
        LET container == handles[known[k].reference]
            wrote == {i \in 1..cursor : Last(trace[i].true).id = Activation(known[k].level)}
        IN  container = [record |-> Max(wrote), memory |-> cursor]

\* Why they are exact: what is read of a record is what the program was doing.  Where
\* the compiler described a record's position, it named the function, the calls it
\* inlined there and their lines.
DescribedFrames(r) ==
    LET inlines == Info.inlines[r.pos]
        fn == IF r.stack = <<>> THEN <<>> ELSE Last(r.stack).fn
        names(k) == IF k > 1 THEN inlines[k - 1].name
                    ELSE IF Info.names[r.pos] # <<>> THEN Info.names[r.pos] ELSE fn
    IN  [k \in 1..(Len(inlines) + 1) |->
            <<names(k), IF k <= Len(inlines) THEN inlines[k].callSite ELSE r.line>>]

\* The activations read of a record are those it was written in.  All but the innermost
\* wait at the record of a call, as they stood in it, and write nothing meanwhile.
\* Records without a position are not rested on, so nothing is asked of them.
Faithful(records) ==
    /\ \E i \in DOMAIN records : records[i].pos # NoPos
    /\ \A i \in DOMAIN records : LET r == records[i] IN r.pos # NoPos =>
        /\ r.true \in Seq(ToSet(r.true)) /\ r.stack \in Seq(ToSet(r.stack)) /\ r.calls \in Seq(ToSet(r.calls))
        /\ Len(r.true) = IF r.stack = <<>> THEN 1 ELSE Len(r.stack)
        /\ Len(Info.inlines[r.pos]) \in Nat
        /\ Last(r.true).frames = DescribedFrames(r)
        /\ \A k \in 1..(Len(r.stack) - 1) :
            LET site == r.stack[k + 1].site
            IN  /\ site \in 1..(i - 1) /\ records[site].pos # NoPos
                /\ records[site].stack = SubSeq(r.stack, 1, k)
                /\ records[site].true = SubSeq(r.true, 1, k)
                /\ \A j \in (site + 1)..i : Last(records[j].true).id # r.true[k].id

RecordingsFaithful == \A kind \in DOMAIN Recordings : \A records \in Recordings[kind] : Faithful(records)

\* The records a run has to stop at by what the client was told: every execution of
\* the lines and every record of the addresses that were verified.
VerifiedLines == UNION {told[f].verified : f \in Files}
Promised ==
    {i \in stops.raw : trace[i].line \in VerifiedLines}
        \union {i \in stops.visible : trace[i].pos \in told["addresses"].verified}

\* A run stops wherever the client was told that it does, and nowhere else.  A request that
\* came before the trace did is answered as unverified and heeded all the same.
BreakpointsAgree ==
    Loaded =>
        /\ Promised \subseteq BreakpointIndices
        /\ (\A what \in DOMAIN told : told[what].asked # "early") => Promised = BreakpointIndices

\* A breakpoint is where the client was told it is: runs stop there, and each line
\* and address that was verified is reached.
VerifiedAreHit ==
    /\ BreakpointsAgree
    /\ Loaded =>
        /\ \A l \in VerifiedLines : \E i \in Promised : trace[i].line = l
        /\ \A a \in told["addresses"].verified : \E i \in Promised : trace[i].pos = a

\* However a connection ends, and whenever, the backend of its launch is disposed of
\* once; a connection that never launched disposes of nothing.
ReleasedOnce ==
    disposals = IF socket # "open" /\ backend # "selector" THEN 1 ELSE 0

\* A launch is answered, whether the client configures the session before the trace
\* has arrived or after, unless the connection goes away; its requests to the node end.
LaunchAnswered == launch = "resolving" ~> launch \in {"running", "failed"} \/ socket # "open"

=============================================================================
