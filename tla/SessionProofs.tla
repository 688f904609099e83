---------------------------- MODULE SessionProofs ----------------------------
(***************************************************************************)
(* Proofs about the session for every recording, configuration, client and *)
(* schedule: the backend is released once, what a client was told of its   *)
(* breakpoints agrees with where runs stop, and nothing cached for a stop  *)
(* outlives it.                                                            *)
(***************************************************************************)
EXTENDS Session, ProofLemmas

\* What the handlers of a launch, a request, a move and a teardown leave alone.
Connection == <<backend, socket, disposed, disposals>>

-----------------------------------------------------------------------------
\* The connection: a teardown has happened exactly if the socket is no longer open,
\* and the backend, which can only be chosen while it is, was disposed of then.
ConnectionOK ==
    /\ disposed \in BOOLEAN
    /\ disposed <=> socket # "open"
    /\ ReleasedOnce

LEMMA ConnectionStep ==
    ASSUME ConnectionOK, Next \/ UNCHANGED sessionVars
    PROVE  ConnectionOK'
<1> USE DEF ConnectionOK, ReleasedOnce
<1>1. CASE LaunchRequest
  BY <1>1 DEF LaunchRequest, Open, connectionVars
<1>2. CASE Disconnect
  BY <1>2 DEF Disconnect, Open, Teardown
<1>3. CASE SocketCloses
  BY <1>3 DEF SocketCloses, Teardown
<1>4. CASE UNCHANGED Connection
  BY <1>4 DEF Connection
<1>5. CASE ~(LaunchRequest \/ Disconnect \/ SocketCloses)
  <2>1. UNCHANGED Connection
    BY <1>5 DEF Next, Transact, Resolved, ResolveFails, ArgumentsFail, ConfigurationDone, Enter, SetBreakPoints,
         SetInstructionBreakpoints, StackTrace, Variables, Move, sessionVars, connectionVars, Connection
  <2> QED BY <2>1, <1>4
<1> QED BY <1>1, <1>2, <1>3, <1>5

\* However a connection ends, and whenever, its backend is disposed of once.
THEOREM ReleasedOnceAlways == Spec => []ReleasedOnce
<1>1. Init => ConnectionOK
  BY DEF Init, ConnectionOK, ReleasedOnce
<1>2. ConnectionOK /\ [Next]_sessionVars => ConnectionOK'
  BY ConnectionStep
<1>3. ConnectionOK => ReleasedOnce
  BY DEF ConnectionOK
<1> QED BY <1>1, <1>2, <1>3, PTL DEF Spec

-----------------------------------------------------------------------------
\* A trace is loaded exactly while the session is configured or runs.
LaunchOK == Loaded <=> launch \in {"configuring", "running"}

\* A model of a trace is not the absence of one.
LEMMA BuiltIsModel ==
    ASSUME NEW records, NEW starts, NEW source, NEW justMyCode
    PROVE  BuildStopModel(records, starts, source, justMyCode) # NoModel
<1>1. "raw" \in DOMAIN BuildStopModel(records, starts, source, justMyCode)
  BY DEF BuildStopModel
<1>2. "raw" \notin DOMAIN NoModel
  BY DEF NoModel
<1> QED BY <1>1, <1>2

\* A move leaves the stop model alone, and one that ends the session the cursor.
LEMMA MoveStep ==
    ASSUME Move
    PROVE  /\ Loaded /\ stops' = stops
           /\ last'.out = "terminated" => cursor' = cursor
<1> DEFINE Effect == /\ Loaded /\ stops' = stops
                     /\ last'.out = "terminated" => cursor' = cursor
<1>1. ASSUME NEW i, NEW kind, NEW gran, NEW out, NEW bps, Seek(i, kind, gran, out, bps), Loaded,
             out = "terminated" => i = cursor
      PROVE  Effect
  BY <1>1 DEF Seek
<1>2. ASSUME NEW kind, NEW gran, StepForward(kind, gran) PROVE Effect
  BY <1>1, <1>2 DEF StepForward
<1>3. ASSUME NEW gran, StepBackward(gran) PROVE Effect
  BY <1>1, <1>3 DEF StepBackward
<1>4. ASSUME NEW bps, RunForward(bps) \/ RunBackward(bps) PROVE Effect
  BY <1>1, <1>4 DEF RunForward, RunBackward
<1> QED BY <1>2, <1>3, <1>4 DEF Move

LEMMA LaunchStep ==
    ASSUME LaunchOK, Next \/ UNCHANGED sessionVars
    PROVE  /\ LaunchOK'
           /\ ~Resolved => stops' = stops /\ trace' = trace
<1> USE DEF LaunchOK, Loaded
<1>1. CASE Resolved
  BY <1>1, BuiltIsModel DEF Resolved
<1>2. CASE Move
  BY <1>2, MoveStep DEF Move
<1>3. CASE Next /\ ~Resolved /\ ~Move
  BY <1>3 DEF Next, LaunchRequest, Transact, ResolveFails, ArgumentsFail, ConfigurationDone, Enter, SetBreakPoints,
       SetInstructionBreakpoints, StackTrace, Variables, Disconnect, SocketCloses, cursorVars
<1>4. CASE UNCHANGED sessionVars
  BY <1>4 DEF sessionVars, cursorVars
<1> QED BY <1>1, <1>2, <1>3, <1>4

-----------------------------------------------------------------------------
\* What the client was told of each file, and of the addresses, is what the session
\* acts on once a trace is there; before, nothing was promised.
Agrees(what, wanted, verified) ==
    /\ told[what].asked \in {"never", "early", "loaded"}
    /\ told[what].asked = "never" => wanted = {} /\ told[what].verified = {}
    /\ told[what].asked = "early" => told[what].verified = {}
    /\ told[what].asked = "loaded" => Loaded /\ told[what].verified = verified

ToldOK ==
    /\ DOMAIN told = Files \union {"addresses"}
    /\ DOMAIN sourceBreakpoints = Files
    /\ \A f \in Files : Agrees(f, sourceBreakpoints[f], Verified(f, sourceBreakpoints[f]))
    /\ Agrees("addresses", addresses, VerifiedAddresses(addresses))

LEMMA NothingVerified ==
    ASSUME NEW f
    PROVE  Verified(f, {}) = {}
BY DEF Verified

LEMMA SetBreakPointsStep ==
    ASSUME ToldOK, SetBreakPoints
    PROVE  ToldOK'
<1>1. PICK p \in DOMAIN Normalize, wanted \in Requests.lines :
        /\ sourceBreakpoints' = Replaced(Normalize[p], wanted)
        /\ Answer(Normalize[p], IF Loaded THEN Verified(Normalize[p], wanted) ELSE {})
        /\ UNCHANGED <<stops, trace, addresses>>
  BY DEF SetBreakPoints, cursorVars
<1> DEFINE file == Normalize[p]
<1>2. file \in Files /\ file # "addresses"
  BY SessionAssumption DEF Files
<1>3. /\ sourceBreakpoints' = [sourceBreakpoints EXCEPT ![file] = wanted]
      /\ told' = [told EXCEPT ![file] = IF Loaded THEN [asked |-> "loaded", verified |-> Verified(file, wanted)]
                                                  ELSE [asked |-> "early", verified |-> {}]]
  BY <1>1 DEF Replaced, Answer
<1>4. /\ DOMAIN told' = Files \union {"addresses"}
      /\ DOMAIN sourceBreakpoints' = Files
      /\ Loaded' = Loaded
      /\ \A f, want : Verified(f, want)' = Verified(f, want)
      /\ VerifiedAddresses(addresses)' = VerifiedAddresses(addresses)
  BY <1>1, <1>3 DEF ToldOK, Loaded, Verified, ResolveBreakpoint, VerifiedAddresses
<1>5. ASSUME NEW f \in Files
      PROVE  Agrees(f, sourceBreakpoints[f], Verified(f, sourceBreakpoints[f]))'
  <2>1. CASE f = file
    BY <2>1, <1>2, <1>3, <1>4 DEF ToldOK, Agrees
  <2>2. CASE f # file
    BY <2>2, <1>2, <1>3, <1>4 DEF ToldOK, Agrees
  <2> QED BY <2>1, <2>2
<1>6. Agrees("addresses", addresses, VerifiedAddresses(addresses))'
  BY <1>1, <1>2, <1>3, <1>4 DEF ToldOK, Agrees
<1> QED BY <1>4, <1>5, <1>6 DEF ToldOK

LEMMA SetInstructionBreakpointsStep ==
    ASSUME ToldOK, SetInstructionBreakpoints
    PROVE  ToldOK'
<1>1. PICK wanted \in Requests.addresses :
        /\ addresses' = wanted
        /\ Answer("addresses", IF Loaded THEN VerifiedAddresses(wanted) ELSE {})
        /\ UNCHANGED <<stops, trace, sourceBreakpoints>>
  BY DEF SetInstructionBreakpoints, cursorVars
<1>2. "addresses" \notin Files
  BY SessionAssumption DEF Files
<1>3. told' = [told EXCEPT !["addresses"] = IF Loaded THEN [asked |-> "loaded", verified |-> VerifiedAddresses(wanted)]
                                                      ELSE [asked |-> "early", verified |-> {}]]
  BY <1>1 DEF Answer
<1>4. /\ DOMAIN told' = Files \union {"addresses"}
      /\ DOMAIN sourceBreakpoints' = Files
      /\ Loaded' = Loaded
      /\ \A f, want : Verified(f, want)' = Verified(f, want)
      /\ VerifiedAddresses(addresses)' = VerifiedAddresses(wanted)
  BY <1>1, <1>3 DEF ToldOK, Loaded, Verified, ResolveBreakpoint, VerifiedAddresses
<1>5. ASSUME NEW f \in Files
      PROVE  Agrees(f, sourceBreakpoints[f], Verified(f, sourceBreakpoints[f]))'
  BY <1>1, <1>2, <1>3, <1>4 DEF ToldOK, Agrees
<1>6. Agrees("addresses", addresses, VerifiedAddresses(addresses))'
  BY <1>1, <1>3, <1>4 DEF ToldOK, Agrees
<1> QED BY <1>4, <1>5, <1>6 DEF ToldOK

\* Where the trace and the requests stay as they are, so does what was told; and
\* when the trace arrives nothing had been promised.
LEMMA OtherToldStep ==
    ASSUME ToldOK, LaunchOK, Next \/ UNCHANGED sessionVars, ~SetBreakPoints, ~SetInstructionBreakpoints
    PROVE  ToldOK'
<1>1. UNCHANGED breakpointVars
  BY DEF Next, LaunchRequest, Transact, Resolved, ResolveFails, ArgumentsFail, ConfigurationDone, Enter, StackTrace,
     Variables, Move, Disconnect, SocketCloses, sessionVars
<1>2. CASE Resolved
  <2>1. ~Loaded
    BY <1>2 DEF Resolved, LaunchOK
  <2>2. \A what \in Files \union {"addresses"} : told[what].asked # "loaded"
    BY <2>1 DEF ToldOK, Agrees
  <2> QED BY <2>2, <1>1 DEF ToldOK, Agrees, breakpointVars
<1>3. CASE ~Resolved
  <2>1. stops' = stops /\ trace' = trace
    BY <1>3, LaunchStep
  <2>2. /\ Loaded' = Loaded
        /\ \A f \in Files : Verified(f, sourceBreakpoints[f])' = Verified(f, sourceBreakpoints[f])
        /\ VerifiedAddresses(addresses)' = VerifiedAddresses(addresses)
    BY <2>1, <1>1 DEF Loaded, Verified, ResolveBreakpoint, VerifiedAddresses, breakpointVars
  <2> QED BY <2>2, <1>1 DEF ToldOK, Agrees, breakpointVars
<1> QED BY <1>2, <1>3

LEMMA ToldAgrees ==
    ASSUME ToldOK
    PROVE  BreakpointsAgree
<1> SUFFICES ASSUME Loaded
             PROVE  /\ Promised \subseteq BreakpointIndices
                    /\ (\A what \in DOMAIN told : told[what].asked # "early") => Promised = BreakpointIndices
  BY DEF BreakpointsAgree
<1> DEFINE Lines == UNION {Verified(f, sourceBreakpoints[f]) : f \in Files}
           Positions == told["addresses"].verified
<1>1. \A f \in Files : told[f].verified \subseteq Verified(f, sourceBreakpoints[f])
  BY NothingVerified DEF ToldOK, Agrees
<1>2. VerifiedLines \subseteq Lines
  BY <1>1 DEF VerifiedLines
<1>3. Positions \subseteq addresses
  BY DEF ToldOK, Agrees, VerifiedAddresses
<1>4. Promised \subseteq BreakpointIndices
  BY <1>2, <1>3 DEF Promised, BreakpointIndices
<1>5. ASSUME \A what \in DOMAIN told : told[what].asked # "early"
      PROVE  Promised = BreakpointIndices
  <2>1. \A f \in Files : told[f].verified = Verified(f, sourceBreakpoints[f])
    BY <1>5, NothingVerified DEF ToldOK, Agrees
  <2>2. VerifiedLines = Lines
    BY <2>1 DEF VerifiedLines
  <2>3. \A i \in stops.visible : trace[i].pos \in Positions <=> trace[i].pos \in addresses
    BY <1>5 DEF ToldOK, Agrees, VerifiedAddresses
  <2> QED BY <2>2, <2>3 DEF Promised, BreakpointIndices
<1> QED BY <1>4, <1>5

LEMMA ToldStarts ==
    ASSUME Init
    PROVE  LaunchOK /\ ToldOK
<1>1. ~Loaded /\ launch = "none"
  BY DEF Init, CursorInit, Loaded
<1>2. /\ told = [f \in Files \union {"addresses"} |-> [asked |-> "never", verified |-> {}]]
      /\ sourceBreakpoints = [f \in Files |-> {}] /\ addresses = {}
  BY DEF Init
<1> QED BY <1>1, <1>2 DEF LaunchOK, ToldOK, Agrees

\* A run stops at what the client was told was verified, whenever it asked and
\* whatever it asked before.
THEOREM BreakpointsAgreeAlways == Spec => []BreakpointsAgree
<1>1. Init => LaunchOK /\ ToldOK
  BY ToldStarts
<1>2. LaunchOK /\ ToldOK /\ [Next]_sessionVars => LaunchOK' /\ ToldOK'
  BY LaunchStep, SetBreakPointsStep, SetInstructionBreakpointsStep, OtherToldStep
<1>3. LaunchOK /\ ToldOK => BreakpointsAgree
  BY ToldAgrees
<1> QED BY <1>1, <1>2, <1>3, PTL DEF Spec

-----------------------------------------------------------------------------
(***************************************************************************)
(* Verified breakpoints are hit.                                           *)
(***************************************************************************)

NoRuns == [runs |-> <<>>, starts |-> <<>>]

\* computeRunStarts after each record.
RunsOf(records) ==
    LET Runs[i \in 0..Len(records)] ==
            IF i = 0 THEN [runs |-> <<>>, starts |-> <<>>] ELSE RunStep(Runs[i - 1], i, records[i])
    IN  Runs

\* The loop is defined for as many records as there are.
LEMMA RunsExist ==
    ASSUME NEW records, NEW n \in Nat
    PROVE  \E f : f = [i \in 0..n |-> IF i = 0 THEN NoRuns ELSE RunStep(f[i - 1], i, records[i])]
<1> DEFINE Step(s, i) == RunStep(s, i, records[i])
           P(k) == \E f : f = [i \in 0..k |-> IF i = 0 THEN NoRuns ELSE Step(f[i - 1], i)]
           Bad == {k \in Nat : ~P(k)}
<1>1. SUFFICES ASSUME Bad # {} PROVE FALSE
  BY DEF P
<1>2. PICK k \in Bad : \A j \in Bad : k <= j
  <2> HIDE DEF P
  <2> QED BY <1>1, Smallest
<1>3. k # 0
  <2>1. [i \in 0..0 |-> NoRuns] = [i \in 0..0 |-> IF i = 0 THEN NoRuns ELSE Step([j \in 0..0 |-> NoRuns][i - 1], i)]
    <3> HIDE DEF Step
    <3> QED OBVIOUS
  <2> QED BY <2>1, <1>2
<1>4. P(k - 1)
  <2> HIDE DEF P
  <2> QED BY <1>2, <1>3
<1>5. PICK f : f = [i \in 0..(k - 1) |-> IF i = 0 THEN NoRuns ELSE Step(f[i - 1], i)]
  BY <1>4
<1> DEFINE g == [i \in 0..k |-> IF i = 0 THEN NoRuns ELSE Step(f[i - 1], i)]
<1> HIDE DEF Step
<1>6. \A i \in 0..k : i # 0 => g[i - 1] = f[i - 1]
  BY <1>2, <1>3, <1>5
<1>7. g = [i \in 0..k |-> IF i = 0 THEN NoRuns ELSE Step(g[i - 1], i)]
  BY <1>6
<1>8. P(k)
  BY <1>7
<1> QED BY <1>2, <1>8

LEMMA RunsSteps ==
    ASSUME NEW records, Len(records) \in Nat
    PROVE  /\ RunsOf(records)[0] = NoRuns
           /\ \A i \in 1..Len(records) : RunsOf(records)[i] = RunStep(RunsOf(records)[i - 1], i, records[i])
<1>1. \E f : f = [i \in 0..Len(records) |-> IF i = 0 THEN NoRuns ELSE RunStep(f[i - 1], i, records[i])]
  BY RunsExist
<1>2. RunsOf(records) = [i \in 0..Len(records) |->
                            IF i = 0 THEN NoRuns ELSE RunStep(RunsOf(records)[i - 1], i, records[i])]
  BY <1>1, Zenon DEF RunsOf, NoRuns
<1> DEFINE R == RunsOf(records)
           Step(i) == RunStep(R[i - 1], i, records[i])
<1>3. R = [i \in 0..Len(records) |-> IF i = 0 THEN NoRuns ELSE Step(i)]
  BY <1>2
<1>4. 0 \in 0..Len(records) /\ \A i \in 1..Len(records) : i \in 0..Len(records) /\ i # 0
  OBVIOUS
<1> HIDE DEF R, Step
<1>5. R[0] = NoRuns /\ \A i \in 1..Len(records) : R[i] = Step(i)
  BY <1>3, <1>4
<1> QED BY <1>5 DEF R, Step

\* A line of the records starts a run.
Starts(records, rs, line) == \E s \in ToSet(rs.starts) : s \in DOMAIN records /\ records[s].line = line

\* After k records every line that a run is in, or that was recorded, starts one; and
\* runs start at records with a position.
LinesStart(records, rs, k) ==
    /\ rs.starts \in Seq(1..Len(records))
    /\ \A s \in ToSet(rs.starts) : records[s].pos # NoPos
    /\ \A d \in DOMAIN rs.runs : rs.runs[d].key # NoLine => Starts(records, rs, rs.runs[d].key)
    /\ \A i \in 1..k : records[i].line # NoLine => Starts(records, rs, records[i].line)

\* One iteration keeps that up: it starts a run, or is in one that was started.
LEMMA LinesStartStep ==
    ASSUME NEW records, NEW rs, NEW k \in Nat, k + 1 \in 1..Len(records), LinesStart(records, rs, k),
           records \in Seq(ToSet(records)),
           records[k + 1].depth \in Nat, records[k + 1].pos = NoPos => records[k + 1].line = NoLine
    PROVE  LinesStart(records, RunStep(rs, k + 1, records[k + 1]), k + 1)
<1> DEFINE i == k + 1
           r == records[i]
           after == RunStep(rs, i, r)
           size == r.depth + 1
           kept == [d \in 1..size |-> IF d \in DOMAIN rs.runs THEN rs.runs[d] ELSE NoRun]
           extends == kept[size].key = r.line /\ r.pos \notin kept[size].offsets
           offsets == (IF extends THEN kept[size].offsets ELSE {}) \union {r.pos}
<1>1. CASE r.line = NoLine
  <2>1. after = rs
    BY <1>1 DEF RunStep
  <2>2. \A j \in 1..i : records[j].line # NoLine => Starts(records, rs, records[j].line)
    BY <1>1 DEF LinesStart
  <2> QED BY <2>1, <2>2 DEF LinesStart
<1>2. CASE r.line # NoLine
  <2>1. /\ after.runs = [kept EXCEPT ![size] = [key |-> r.line, offsets |-> offsets]]
        /\ after.starts = IF extends THEN rs.starts ELSE Append(rs.starts, i)
    BY <1>2 DEF RunStep
  <2>2. size \in 1..size
    OBVIOUS
  <2>3. /\ rs.starts \in Seq(1..Len(records)) /\ i \in 1..Len(records)
        /\ DOMAIN records = 1..Len(records)
    BY DEF LinesStart
  <2> HIDE DEF i, after, extends, offsets
  <2>4. /\ after.starts \in Seq(1..Len(records)) /\ ToSet(rs.starts) \subseteq ToSet(after.starts)
        /\ ToSet(after.starts) \subseteq ToSet(rs.starts) \union {i}
        /\ ~extends => i \in ToSet(after.starts)
    <3>1. CASE extends
      BY <2>1, <2>3, <3>1
    <3>2. CASE ~extends
      <4>1. /\ after.starts \in Seq(1..Len(records)) /\ Len(after.starts) = Len(rs.starts) + 1
            /\ \A j \in 1..Len(rs.starts) : after.starts[j] = rs.starts[j]
            /\ after.starts[Len(rs.starts) + 1] = i
            /\ Len(rs.starts) \in Nat
        BY <2>1, <2>3, <3>2, AppendProperties, LenProperties
      <4>2. /\ ToSet(after.starts) = {after.starts[j] : j \in 1..Len(after.starts)}
            /\ ToSet(rs.starts) = {rs.starts[j] : j \in 1..Len(rs.starts)}
        BY <2>3, <4>1, LenProperties DEF ToSet
      <4>3. ASSUME NEW x \in ToSet(rs.starts) PROVE x \in ToSet(after.starts)
        <5>1. PICK j \in 1..Len(rs.starts) : x = rs.starts[j]
          BY <4>2
        <5>2. j \in 1..Len(after.starts) /\ after.starts[j] = x
          BY <4>1, <5>1
        <5> QED BY <4>2, <5>2
      <4>4. i \in ToSet(after.starts)
        <5>1. Len(rs.starts) + 1 \in 1..Len(after.starts)
          BY <4>1
        <5> QED BY <4>1, <4>2, <5>1
      <4>5. ASSUME NEW x \in ToSet(after.starts) PROVE x \in ToSet(rs.starts) \union {i}
        <5>1. PICK j \in 1..Len(after.starts) : x = after.starts[j]
          BY <4>2
        <5>2. j \in 1..Len(rs.starts) \/ j = Len(rs.starts) + 1
          BY <4>1, <5>1
        <5> QED BY <4>1, <4>2, <5>1, <5>2
      <4> QED BY <4>1, <4>3, <4>4, <4>5
    <3> QED BY <3>1, <3>2
  <2>5. \A line : Starts(records, rs, line) => Starts(records, after, line)
    BY <2>4 DEF Starts
  <2>6. Starts(records, after, r.line)
    <3>1. CASE extends
      <4>1. kept[size].key = r.line
        BY <3>1 DEF extends
      <4>2. size \in DOMAIN rs.runs /\ rs.runs[size].key = r.line
        BY <4>1, <2>2, <1>2 DEF NoRun
      <4> QED BY <4>2, <2>5, <1>2 DEF LinesStart
    <3>2. CASE ~extends
      BY <3>2, <2>3, <2>4 DEF Starts
    <3> QED BY <3>1, <3>2
  <2>7. ASSUME NEW d \in DOMAIN after.runs, after.runs[d].key # NoLine
        PROVE  Starts(records, after, after.runs[d].key)
    <3>1. d \in 1..size
      BY <2>1
    <3>2. CASE d = size
      BY <2>1, <2>2, <2>6, <3>2
    <3>3. CASE d # size
      <4>1. after.runs[d] = kept[d]
        BY <2>1, <3>1, <3>3
      <4>2. d \in DOMAIN rs.runs /\ after.runs[d] = rs.runs[d]
        BY <4>1, <3>1, <2>7 DEF NoRun
      <4> QED BY <4>2, <2>5, <2>7 DEF LinesStart
    <3> QED BY <3>2, <3>3
  <2>8. ASSUME NEW j \in 1..i, records[j].line # NoLine
        PROVE  Starts(records, after, records[j].line)
    <3>1. CASE j = i
      BY <2>6, <3>1
    <3>2. CASE j # i
      <4>1. j \in 1..k
        BY <3>2 DEF i
      <4> QED BY <4>1, <2>5, <2>8 DEF LinesStart
    <3> QED BY <3>1, <3>2
  <2>9. \A s \in ToSet(after.starts) : records[s].pos # NoPos
    <3>1. records[i].pos # NoPos
      BY <1>2 DEF i
    <3> QED BY <2>4, <3>1 DEF LinesStart
  <2>10. LinesStart(records, after, i)
    BY <2>4, <2>7, <2>8, <2>9 DEF LinesStart
  <2> QED BY <2>10 DEF after, i
<1> QED BY <1>1, <1>2

\* computeRunStarts loses no line: every line of a recording starts a run.
LEMMA EveryLineStarts ==
    ASSUME NEW records, IsRecording(records)
    PROVE  LinesStart(records, RunsOf(records)[Len(records)], Len(records))
<1> DEFINE R(k) == RunsOf(records)[k]
           n == Len(records)
           Bad == {k \in 0..n : ~LinesStart(records, R(k), k)}
<1>1. records \in Seq(ToSet(records)) /\ n \in Nat
  BY LenProperties DEF IsRecording
<1>2. SUFFICES ASSUME Bad # {} PROVE FALSE
  BY <1>1
<1>3. PICK k \in Bad : \A j \in Bad : k <= j
  <2>1. Bad \subseteq Nat
    OBVIOUS
  <2> HIDE DEF Bad
  <2> QED BY <1>2, <2>1, Smallest
<1>4. R(0) = NoRuns /\ \A i \in 1..n : R(i) = RunStep(R(i - 1), i, records[i])
  BY <1>1, RunsSteps
<1>5. k # 0
  <2>1. LinesStart(records, NoRuns, 0)
    BY DEF LinesStart, NoRuns, ToSet
  <2> QED BY <1>3, <1>4, <2>1
<1>6. k - 1 \in Nat /\ k - 1 \in 0..n /\ (k - 1) + 1 = k /\ k \in 1..n
  BY <1>1, <1>3, <1>5
<1>7. LinesStart(records, R(k - 1), k - 1)
  <2>1. k - 1 \notin Bad
    BY <1>3, <1>6
  <2> QED BY <2>1, <1>6
<1>8. records[k].depth \in Nat /\ (records[k].pos = NoPos => records[k].line = NoLine)
  <2>1. records[k] \in ToSet(records)
    BY <1>1, <1>6, ElementOfSeq
  <2> QED BY <2>1 DEF IsRecording
<1>9. R(k) = RunStep(R(k - 1), k, records[k])
  BY <1>4, <1>6
<1> HIDE DEF R, Bad
<1>10. LinesStart(records, RunStep(R(k - 1), (k - 1) + 1, records[(k - 1) + 1]), (k - 1) + 1)
  BY <1>1, <1>6, <1>7, <1>8, LinesStartStep
<1>11. LinesStart(records, R(k), k)
  BY <1>6, <1>9, <1>10
<1> QED BY <1>3, <1>6, <1>11 DEF Bad

\* What is loaded is a trace of the chosen backend and the stop model of its records.
TraceLoaded ==
    /\ launch # "none" => backend \in {"file", "live"}
    /\ Loaded =>
        /\ IsRecording(trace)
        /\ \E justMyCode \in BOOLEAN : stops = BuildStopModel(trace, RunStarts(trace), Source, justMyCode)

LEMMA TraceLoadedStep ==
    ASSUME LaunchOK, TraceLoaded, Next \/ UNCHANGED sessionVars
    PROVE  TraceLoaded'
<1>1. CASE Resolved
  <2>1. backend \in {"file", "live"} /\ backend' = backend /\ ~Loaded /\ launch = "resolving"
    BY <1>1 DEF Resolved, TraceLoaded, LaunchOK
  <2>2. CASE UNCHANGED <<trace, stops>>
    BY <2>1, <2>2 DEF TraceLoaded, Loaded
  <2>3. CASE ~UNCHANGED <<trace, stops>>
    <3>1. PICK records \in Recordings[backend], justMyCode \in BOOLEAN :
            trace' = records /\ stops' = BuildStopModel(records, RunStarts(records), Source, justMyCode)
      BY <1>1, <2>3 DEF Resolved
    <3>2. IsRecording(records)
      BY <2>1, SessionAssumption
    <3>3. trace' = records /\ IsRecording(trace')
          /\ stops' = BuildStopModel(trace', RunStarts(trace'), Source, justMyCode)
      BY <3>1, <3>2
    <3> HIDE DEF IsRecording, BuildStopModel, RunStarts
    <3> QED BY <2>1, <3>3 DEF TraceLoaded
  <2> QED BY <2>2, <2>3
<1>2. CASE ~Resolved
  <2>1. stops' = stops /\ trace' = trace
    BY <1>2, LaunchStep
  <2>2. launch' # "none" => backend' \in {"file", "live"}
    BY <1>2 DEF TraceLoaded, Next, LaunchRequest, Transact, ResolveFails, ArgumentsFail, ConfigurationDone, Enter,
         SetBreakPoints, SetInstructionBreakpoints, StackTrace, Variables, Move, Disconnect, SocketCloses, sessionVars
  <2> QED BY <2>1, <2>2 DEF TraceLoaded, Loaded
<1> QED BY <1>1, <1>2

\* A line is verified if some record is on it, so some run starts on it; an address if
\* some record has it.
LEMMA VerifiedHit ==
    ASSUME TraceLoaded, ToldOK, Loaded
    PROVE  /\ \A l \in VerifiedLines : \E i \in Promised : trace[i].line = l
           /\ \A a \in told["addresses"].verified : \E i \in Promised : trace[i].pos = a
<1>1. IsRecording(trace) /\ stops.raw = ToSet(RunStarts(trace))
  <2>1. \A jmc : BuildStopModel(trace, RunStarts(trace), Source, jmc).raw = ToSet(RunStarts(trace))
    <3> HIDE DEF RunStarts
    <3> QED BY DEF BuildStopModel
  <2> QED BY <2>1 DEF TraceLoaded
<1>2. ASSUME NEW l \in VerifiedLines PROVE \E i \in Promised : trace[i].line = l
  <2>1. PICK f \in Files : l \in told[f].verified
    BY DEF VerifiedLines
  <2>2. l \in Verified(f, sourceBreakpoints[f])
    BY <2>1 DEF ToldOK, Agrees
  <2>3. PICK want \in sourceBreakpoints[f] : l \in ResolveBreakpoint(f, want)
    BY <2>2 DEF Verified
  <2> DEFINE lines == {trace[i].line : i \in DOMAIN trace} \ {NoLine}
             after == {x \in lines : Source[x].file = f /\ x >= want}
  <2>4. after # {} /\ l = Min(after)
    BY <2>3 DEF ResolveBreakpoint
  <2>5. after \subseteq Nat
    <3>1. \A i \in DOMAIN trace : trace[i].line \in Nat
      BY <1>1 DEF IsRecording, ToSet
    <3> QED BY <3>1
  <2>6. l \in lines
    <3>1. after \subseteq lines
      OBVIOUS
    <3> HIDE DEF after
    <3> QED BY <2>4, <2>5, <3>1, MinIsLeast
  <2>7. PICK i \in DOMAIN trace : trace[i].line = l
    BY <2>6
  <2>8. l # NoLine
    BY <2>6
  <2>9. i \in 1..Len(trace) /\ Len(trace) \in Nat
    BY <1>1, <2>7, LenProperties DEF IsRecording
  <2>10. Starts(trace, RunsOf(trace)[Len(trace)], l)
    BY <1>1, <2>7, <2>8, <2>9, EveryLineStarts DEF LinesStart
  <2>11. RunStarts(trace) = RunsOf(trace)[Len(trace)].starts
    BY DEF RunStarts, RunsOf
  <2>12. PICK s \in stops.raw : trace[s].line = l
    BY <1>1, <2>10, <2>11 DEF Starts
  <2> QED BY <2>12 DEF Promised
<1>3. ASSUME NEW a \in told["addresses"].verified PROVE \E i \in Promised : trace[i].pos = a
  BY DEF ToldOK, Agrees, VerifiedAddresses, Promised
<1> QED BY <1>2, <1>3

\* Every line and address that a client was told is a breakpoint is reached by some
\* record that a run stops at.
THEOREM VerifiedAreAlwaysHit == Spec => []VerifiedAreHit
<1>1. Init => LaunchOK /\ ToldOK /\ TraceLoaded
  BY ToldStarts DEF Init, CursorInit, Loaded, TraceLoaded
<1>2. LaunchOK /\ ToldOK /\ TraceLoaded /\ [Next]_sessionVars => LaunchOK' /\ ToldOK' /\ TraceLoaded'
  BY LaunchStep, SetBreakPointsStep, SetInstructionBreakpointsStep, OtherToldStep, TraceLoadedStep
<1>3. LaunchOK /\ ToldOK /\ TraceLoaded => VerifiedAreHit
  BY ToldAgrees, VerifiedHit DEF VerifiedAreHit
<1> QED BY <1>1, <1>2, <1>3, PTL DEF Spec

-----------------------------------------------------------------------------
\* What a request after a stop is answered from belongs to that stop: the cached frames are
\* the call stack of the record the session rests on, and every reference the client holds
\* leads to the container of the frame it was given for.
Stack == BuildCallStack(Info, trace, cursor)
Levels == {level \in DOMAIN Stack : Stack[level].kind # "contract"}
Container(level) == [record |-> Stack[level].at, memory |-> cursor]

ViewFresh ==
    stopped =>
        /\ frames # None => frames = <<Stack>>
        /\ \A k \in DOMAIN known : handles[known[k].reference] = Container(known[k].level)

ViewOK ==
    /\ stopped \in BOOLEAN
    /\ stopped => Loaded
    /\ frames # None /\ stopped => frames = <<Stack>>
    /\ ~stopped => handles = <<>> /\ known = <<>>
    /\ handles \in Seq({Container(level) : level \in Levels})
    /\ known \in Seq([reference : 1..Len(handles), level : Levels])
    /\ \A k \in 1..Len(known) : handles[known[k].reference] = Container(known[k].level)

\* A stop leaves nothing of the one before.
LEMMA ReportStopStep ==
    ASSUME ReportStop, Loaded'
    PROVE  ViewOK'
<1>1. frames' = None /\ handles' = <<>> /\ known' = <<>> /\ stopped' = TRUE
  BY DEF ReportStop
<1>2. handles' \in Seq({Container(level)' : level \in Levels'}) /\ Len(known') = 0
  BY <1>1
<1>3. known' \in Seq([reference : 1..Len(handles'), level : Levels'])
  BY <1>1
<1> QED BY <1>1, <1>2, <1>3 DEF ViewOK

\* The cache answers with what it would be rebuilt to.
LEMMA CachedFrames ==
    ASSUME ViewOK, stopped
    PROVE  CallFrames = Stack
BY DEF ViewOK, CallFrames, Stack

LEMMA StackTraceStep ==
    ASSUME ViewOK, StackTrace
    PROVE  ViewOK'
<1>1. /\ frames' = <<CallFrames>>
      /\ UNCHANGED <<stops, cursor, trace, handles, known, stopped>>
  BY DEF StackTrace, cursorVars
<1>2. Stack' = Stack /\ Levels' = Levels /\ Loaded' = Loaded /\ \A level : Container(level)' = Container(level)
  BY <1>1 DEF Stack, Levels, Container, Loaded
<1>3. stopped => frames' = <<Stack>>
  BY <1>1, CachedFrames
<1> QED BY <1>1, <1>2, <1>3 DEF ViewOK

LEMMA VariablesStep ==
    ASSUME ViewOK, Variables
    PROVE  ViewOK'
<1>1. stopped
  BY DEF Variables
<1>2. PICK level \in Levels :
        /\ frames' = <<Stack>>
        /\ handles' = Append(handles, Container(level))
        /\ known' = Append(known, [reference |-> Len(handles'), level |-> level])
        /\ UNCHANGED <<stops, cursor, trace, stopped>>
  BY <1>1, CachedFrames DEF Variables, cursorVars, Container, Levels
<1>3. Stack' = Stack /\ Levels' = Levels /\ Loaded' = Loaded /\ \A l : Container(l)' = Container(l)
  BY <1>2 DEF Stack, Levels, Container, Loaded
<1> DEFINE Containers == {Container(l) : l \in Levels}
           Known(h) == [reference : 1..Len(h), level : Levels]
           added == [reference |-> Len(handles'), level |-> level]
<1>4. /\ handles \in Seq(Containers) /\ Container(level) \in Containers
      /\ Len(handles) \in Nat /\ Len(known) \in Nat
      /\ known \in Seq(Known(handles))
  BY DEF ViewOK
<1>5. /\ handles' \in Seq(Containers)
      /\ Len(handles') = Len(handles) + 1
      /\ \A k \in 1..Len(handles) : handles'[k] = handles[k]
      /\ handles'[Len(handles) + 1] = Container(level)
  BY <1>2, <1>4, AppendProperties
<1>6. Known(handles) \subseteq Known(handles') /\ added \in Known(handles')
  BY <1>4, <1>5
<1>7. known \in Seq(Known(handles'))
  <2> HIDE DEF Known
  <2> QED BY <1>4, <1>6, SeqMonotonic
<1>8. /\ known' \in Seq(Known(handles'))
      /\ Len(known') = Len(known) + 1
      /\ \A k \in 1..Len(known) : known'[k] = known[k]
      /\ known'[Len(known) + 1] = added
  BY <1>2, <1>6, <1>7, AppendProperties
<1>9. ASSUME NEW k \in 1..Len(known')
      PROVE  handles'[known'[k].reference] = Container(known'[k].level)
  <2>1. CASE k \in 1..Len(known)
    <3>1. known[k] \in Known(handles)
      <4> HIDE DEF Known
      <4> QED BY <2>1, <1>4, ElementOfSeq
    <3>2. handles[known[k].reference] = Container(known[k].level)
      BY <2>1 DEF ViewOK
    <3> QED BY <3>1, <3>2, <2>1, <1>5, <1>8
  <2>2. CASE k = Len(known) + 1
    BY <2>2, <1>5, <1>8
  <2> QED BY <2>1, <2>2, <1>4, <1>8
<1> QED BY <1>1, <1>2, <1>3, <1>5, <1>8, <1>9 DEF ViewOK

LEMMA OtherViewStep ==
    ASSUME ViewOK, LaunchOK, Next \/ UNCHANGED sessionVars, ~StackTrace, ~Variables
    PROVE  ViewOK'
<1>1. CASE Resolved
  <2>1. ~Loaded /\ UNCHANGED viewVars
    BY <1>1 DEF Resolved, LaunchOK
  <2>2. ~stopped
    BY <2>1 DEF ViewOK
  <2>3. handles = <<>> /\ known = <<>> /\ stopped' = stopped /\ handles' = handles /\ known' = known
    BY <2>1, <2>2 DEF ViewOK, viewVars
  <2>4. handles' \in Seq({Container(level)' : level \in Levels'}) /\ Len(known') = 0
    BY <2>3
  <2>5. known' \in Seq([reference : 1..Len(handles'), level : Levels'])
    BY <2>3
  <2> QED BY <2>2, <2>3, <2>4, <2>5 DEF ViewOK
<1>2. CASE Enter
  <2>1. Loaded'
    BY <1>2 DEF Enter, LaunchOK, Loaded
  <2> QED BY <1>2, <2>1, ReportStopStep DEF Enter
<1>3. CASE Move
  <2>1. Loaded'
    BY <1>3, MoveStep DEF Loaded
  <2>2. CASE last'.out # "terminated"
    BY <1>3, <2>1, <2>2, ReportStopStep DEF Move
  <2>3. CASE last'.out = "terminated"
    <3>1. UNCHANGED <<stops, cursor, trace, frames, handles, known, stopped>>
      BY <1>3, <2>3, MoveStep DEF Move, viewVars
    <3> QED BY <3>1 DEF ViewOK, Stack, Levels, Container, Loaded
  <2> QED BY <2>2, <2>3
<1>4. CASE ~Resolved /\ ~Enter /\ ~Move
  <2>1. UNCHANGED <<stops, cursor, trace, frames, handles, known, stopped>>
    BY <1>4 DEF Next, LaunchRequest, Transact, ResolveFails, ArgumentsFail, ConfigurationDone, SetBreakPoints,
       SetInstructionBreakpoints, Disconnect, SocketCloses, sessionVars, cursorVars, viewVars
  <2> QED BY <2>1 DEF ViewOK, Stack, Levels, Container, Loaded
<1> QED BY <1>1, <1>2, <1>3, <1>4

LEMMA ViewStarts ==
    ASSUME Init
    PROVE  ViewOK
<1>1. stopped = FALSE /\ handles = <<>> /\ known = <<>>
  BY DEF Init
<1>2. /\ handles \in Seq({Container(level) : level \in Levels}) /\ Len(known) = 0
      /\ known \in Seq([reference : 1..Len(handles), level : Levels])
  BY <1>1
<1>3. stopped \in BOOLEAN /\ ~stopped
  BY <1>1
<1> QED BY <1>1, <1>2, <1>3 DEF ViewOK

LEMMA ViewStep ==
    ASSUME LaunchOK, ViewOK, Next \/ UNCHANGED sessionVars
    PROVE  ViewOK'
BY StackTraceStep, VariablesStep, OtherViewStep

\* Between two stops every request is answered from the first one's state, and
\* after the second from nothing older than it.
THEOREM ViewFreshAlways == Spec => []ViewFresh
<1>1. Init => LaunchOK /\ ViewOK
  BY ViewStarts DEF Init, CursorInit, Loaded, LaunchOK
<1>2. LaunchOK /\ ViewOK /\ [Next]_sessionVars => LaunchOK' /\ ViewOK'
  BY LaunchStep, ViewStep
<1>3. ViewOK => ViewFresh
  BY DEF ViewOK, ViewFresh
<1> QED BY <1>1, <1>2, <1>3, PTL DEF Spec

-----------------------------------------------------------------------------
(***************************************************************************)
(* The stack shown.  Standing(a) is the record that the a-th activation of *)
(* the cursor's record stands at: its call, or the cursor.                 *)
(***************************************************************************)
SourceFn(r) == IF r.stack = <<>> THEN <<>> ELSE Last(r.stack).fn
Standing(a) == IF a = Len(trace[cursor].true) THEN cursor ELSE trace[cursor].stack[a + 1].site

\* Frames that show what is described, under the right names and at the right lines.
Depict(A, T, m, at) ==
    /\ IsList(A, m) /\ IsList(T, m)
    /\ \A j \in 1..m : A[j].kind # "contract" /\ A[j].at = at /\ <<A[j].name.of, A[j].source>> = T[j]

InlinedAt(r) == Len(Info.inlines[r.pos]) + 1

\* An activation is shown as the compiler described the record it stands at.
LEMMA FramesDescribed ==
    ASSUME NEW records, NEW i \in Nat \ {0}, records[i].pos # NoPos, Len(Info.inlines[records[i].pos]) \in Nat,
           Last(records[i].true).frames = DescribedFrames(records[i])
    PROVE  /\ Depict(ActivationFrames(Info, records, SourceFn(records[i]), i),
                     Reverse(Last(records[i].true).frames), InlinedAt(records[i]), i)
           /\ DOMAIN Last(records[i].true).frames = 1..InlinedAt(records[i])
<1> DEFINE r == records[i]
           pos == r.pos
           inlines == Info.inlines[pos]
           L == Len(inlines)
           fn == SourceFn(r)
           D == DescribedFrames(r)
           sources == Chain(r.line, inlines)
           own == Last(sources)
           name(k) == IF k > 1 THEN inlines[k - 1].name ELSE IF Info.names[pos] # <<>> THEN Info.names[pos] ELSE fn
           A == ActivationFrames(Info, records, fn, i)
<1>1. PcAt(records, i) = pos
  <2> DEFINE placed == {x \in 1..i : records[x].pos # <<>>}
  <2>1. placed \subseteq 0..i /\ i \in placed
    BY DEF NoPos
  <2> HIDE DEF placed
  <2>2. Max(placed) \in placed /\ \A y \in placed : y <= Max(placed)
    BY <2>1, MaxIsLargest
  <2>3. Max(placed) = i
    <3> DEFINE greatest == Max(placed)
    <3>1. greatest \in 0..i /\ i <= greatest
      BY <2>1, <2>2
    <3> HIDE DEF greatest
    <3>2. greatest = i
      BY <3>1
    <3> QED BY <3>2 DEF greatest
  <2>4. placed # {}
    BY <2>1
  <2> QED BY <2>3, <2>4 DEF PcAt, placed
<1>2. L \in Nat /\ L + 1 \in Nat /\ InlinedAt(r) = L + 1
  BY DEF InlinedAt
<1>3. pos # <<>>
  BY DEF NoPos
<1>4. D = [k \in 1..(L + 1) |-> <<name(k), IF k <= L THEN inlines[k].callSite ELSE r.line>>]
  BY DEF DescribedFrames, SourceFn
<1>5. Len(D) = L + 1 /\ DOMAIN D = 1..(L + 1)
  <2>1. \A k \in 1..(L + 1) : D[k] \in ToSet(D)
    BY <1>4 DEF ToSet
  <2>2. IsList(D, L + 1)
    BY <1>4 DEF IsList
  <2> HIDE DEF D, L
  <2>3. DOMAIN D = 1..(L + 1)
    BY <2>2 DEF IsList
  <2> QED BY <1>2, <2>1, <2>2, <2>3, ListIsSeq
<1>6. sources = [k \in 1..(L + 1) |-> IF k = 1 THEN r.line ELSE inlines[L - k + 2].callSite]
  BY DEF Chain
<1>7. A = [k \in 1..(L + 1) |->
            IF k <= L THEN [kind |-> "inline", name |-> [of |-> inlines[L - k + 1].name, at |-> <<>>],
                            at |-> i, source |-> sources[k]]
            ELSE [kind |-> IF own = Unmapped THEN "wasm" ELSE "rust",
                  name |-> ActivationName(Info.names[pos], fn, pos, own), at |-> i, source |-> own]]
  BY <1>1, <1>3 DEF ActivationFrames
<1>8. own = sources[L + 1]
  <2>1. IsList(sources, L + 1)
    BY <1>6 DEF IsList
  <2>2. \A k \in 1..(L + 1) : sources[k] \in ToSet(sources)
    BY <1>6 DEF ToSet
  <2> HIDE DEF sources, L
  <2>3. Len(sources) = L + 1
    BY <1>2, <2>1, <2>2, ListIsSeq
  <2> QED BY <2>3 DEF Last, own
<1>9. ActivationName(Info.names[pos], fn, pos, own).of = name(1)
  BY DEF ActivationName
<1>10. Reverse(D) = [k \in 1..(L + 1) |-> D[(L + 1) - k + 1]]
  BY <1>5 DEF Reverse
<1> HIDE DEF A, D, L, sources, own, name
<1>11. ASSUME NEW k \in 1..(L + 1)
       PROVE  A[k].kind # "contract" /\ A[k].at = i /\ <<A[k].name.of, A[k].source>> = Reverse(D)[k]
  <2> DEFINE m == (L + 1) - k + 1
  <2>1. /\ m \in 1..(L + 1) /\ m = L - k + 2 /\ m - 1 = L - k + 1
        /\ m > 1 <=> k <= L
        /\ m <= L <=> k # 1
        /\ ~(m > 1) => m = 1 /\ k = L + 1
    BY <1>2
  <2>2. Reverse(D)[k] = <<name(m), IF m <= L THEN inlines[m].callSite ELSE r.line>>
    BY <1>4, <1>10, <2>1
  <2>3. sources[k] = IF m <= L THEN inlines[m].callSite ELSE r.line
    BY <1>6, <2>1
  <2>4. CASE k <= L
    <3>1. A[k] = [kind |-> "inline", name |-> [of |-> inlines[m - 1].name, at |-> <<>>], at |-> i, source |-> sources[k]]
      BY <1>7, <2>1, <2>4
    <3>2. name(m) = inlines[m - 1].name
      BY <2>1, <2>4 DEF name
    <3>3. A[k].kind = "inline" /\ A[k].name.of = inlines[m - 1].name /\ A[k].at = i /\ A[k].source = sources[k]
      BY <3>1
    <3> QED BY <2>2, <2>3, <3>2, <3>3
  <2>5. CASE ~(k <= L)
    <3>1. k = L + 1 /\ m = 1
      BY <2>1, <2>5
    <3>2. A[k] = [kind |-> IF own = Unmapped THEN "wasm" ELSE "rust",
                  name |-> ActivationName(Info.names[pos], fn, pos, own), at |-> i, source |-> own]
      BY <1>7, <2>5
    <3>3. A[k].name.of = name(m) /\ A[k].source = sources[k] /\ A[k].kind \in {"wasm", "rust"} /\ A[k].at = i
      BY <1>8, <1>9, <3>1, <3>2
    <3> QED BY <2>2, <2>3, <3>3
  <2> QED BY <2>4, <2>5
<1>12. IsList(A, L + 1) /\ IsList(Reverse(D), L + 1)
  BY <1>7, <1>10 DEF IsList
<1>13. Depict(A, Reverse(D), L + 1, i)
  BY <1>11, <1>12 DEF Depict
<1> QED BY <1>2, <1>5, <1>13 DEF A, D

\* The session rests on an instruction of a program that is described as it is.
RestsPlaced ==
    /\ IsRecording(trace) /\ Faithful(trace)
    /\ cursor \in DOMAIN trace /\ trace[cursor].pos # NoPos

DescribedAt(r) == Len(Info.inlines[r.pos]) \in Nat /\ Last(r.true).frames = DescribedFrames(r)

LEMMA CursorRecord ==
    ASSUME RestsPlaced
    PROVE  /\ cursor \in Nat \ {0} /\ 1..cursor \subseteq DOMAIN trace
           /\ trace[cursor].true \in Seq(ToSet(trace[cursor].true))
           /\ trace[cursor].stack \in Seq(ToSet(trace[cursor].stack))
           /\ trace[cursor].calls \in Seq(ToSet(trace[cursor].calls))
           /\ Len(trace[cursor].true) = IF trace[cursor].stack = <<>> THEN 1 ELSE Len(trace[cursor].stack)
           /\ Len(trace[cursor].true) \in Nat \ {0} /\ DOMAIN trace[cursor].true = 1..Len(trace[cursor].true)
           /\ \A i \in DOMAIN trace : trace[i].pos # NoPos => DescribedAt(trace[i])
<1> DEFINE r == trace[cursor]
<1>1. DOMAIN trace = 1..Len(trace) /\ Len(trace) \in Nat
  BY LenProperties DEF RestsPlaced, IsRecording
<1>2. cursor \in Nat \ {0} /\ 1..cursor \subseteq DOMAIN trace
  BY <1>1 DEF RestsPlaced
<1>3. /\ r.true \in Seq(ToSet(r.true)) /\ r.stack \in Seq(ToSet(r.stack)) /\ r.calls \in Seq(ToSet(r.calls))
      /\ Len(r.true) = IF r.stack = <<>> THEN 1 ELSE Len(r.stack)
  BY DEF RestsPlaced, Faithful
<1>4. \A i \in DOMAIN trace : trace[i].pos # NoPos => DescribedAt(trace[i])
  BY DEF RestsPlaced, Faithful, DescribedAt
<1> HIDE DEF r
<1>5. Len(r.true) \in Nat \ {0} /\ DOMAIN r.true = 1..Len(r.true)
  BY <1>3, EmptySeq, LenProperties
<1> QED BY <1>2, <1>3, <1>4, <1>5 DEF r

\* The activations below the innermost wait at the records of their calls, as they stood.
LEMMA StandingAt ==
    ASSUME RestsPlaced, NEW a \in 1..Len(trace[cursor].true)
    PROVE  /\ Standing(a) \in 1..cursor /\ trace[Standing(a)].pos # NoPos
           /\ Last(trace[Standing(a)].true) = trace[cursor].true[a]
           /\ SourceFn(trace[Standing(a)]) = IF trace[cursor].stack = <<>> THEN <<>> ELSE trace[cursor].stack[a].fn
           /\ \A j \in (Standing(a) + 1)..cursor : Last(trace[j].true).id # trace[cursor].true[a].id
<1> DEFINE r == trace[cursor]
           n == Len(r.true)
           site == r.stack[a + 1].site
<1>1. /\ cursor \in Nat \ {0} /\ n \in Nat \ {0} /\ n = IF r.stack = <<>> THEN 1 ELSE Len(r.stack)
      /\ r.true \in Seq(ToSet(r.true)) /\ r.stack \in Seq(ToSet(r.stack)) /\ r.pos # NoPos
  BY CursorRecord DEF RestsPlaced
<1>2. CASE a = n
  <2>1. Standing(a) = cursor
    BY <1>2 DEF Standing
  <2>2. Last(r.true) = r.true[n] /\ (r.stack # <<>> => Last(r.stack) = r.stack[n])
    BY <1>1 DEF Last
  <2>3. SourceFn(r) = IF r.stack = <<>> THEN <<>> ELSE r.stack[a].fn
    BY <1>2, <2>2 DEF SourceFn
  <2> HIDE DEF r, n
  <2> QED BY <1>1, <1>2, <2>1, <2>2, <2>3 DEF r
<1>3. CASE a # n
  <2>1. r.stack # <<>> /\ n = Len(r.stack) /\ a \in 1..(Len(r.stack) - 1) /\ a \in 0..n /\ a \in 0..Len(r.stack)
        /\ a # 0
    <3> HIDE DEF r
    <3> QED BY <1>1, <1>3 DEF r
  <2>2. Standing(a) = site
    BY <1>3 DEF Standing
  <2>3. /\ site \in 1..(cursor - 1) /\ trace[site].pos # NoPos
        /\ trace[site].stack = SubSeq(r.stack, 1, a)
        /\ trace[site].true = SubSeq(r.true, 1, a)
        /\ \A j \in (site + 1)..cursor : Last(trace[j].true).id # r.true[a].id
    BY <2>1 DEF RestsPlaced, Faithful
  <2> HIDE DEF r, n, site
  <2>4. Len(SubSeq(r.true, 1, a)) = a /\ SubSeq(r.true, 1, a)[a] = r.true[a]
    BY <1>1, <2>1, PrefixProperties DEF n
  <2>5. /\ Len(SubSeq(r.stack, 1, a)) = a /\ SubSeq(r.stack, 1, a)[a] = r.stack[a]
        /\ SubSeq(r.stack, 1, a) \in Seq(ToSet(r.stack))
    BY <1>1, <2>1, PrefixProperties
  <2>6. SubSeq(r.stack, 1, a) # <<>>
    BY <2>1, <2>5, EmptySeq
  <2>7. Last(trace[site].true) = r.true[a] /\ SourceFn(trace[site]) = r.stack[a].fn
    BY <2>3, <2>4, <2>5, <2>6 DEF Last, SourceFn
  <2>8. site \in 1..cursor
    BY <1>1, <2>3
  <2> QED BY <2>1, <2>2, <2>3, <2>7, <2>8 DEF r
<1> QED BY <1>2, <1>3

\* What is described of the activations of the cursor's record, innermost first.
Ath(k) == Len(trace[cursor].true) - k + 1
ShownBy(k) == ActivationFrames(Info, trace, SourceFn(trace[Standing(Ath(k))]), Standing(Ath(k)))
TrueOf(k) == Reverse(trace[cursor].true[Ath(k)].frames)
OwnerOf(k) == [j \in DOMAIN trace[cursor].true[Ath(k)].frames |-> trace[cursor].true[Ath(k)].id]
Boundary(call) == [kind |-> "contract", name |-> [of |-> call, at |-> <<>>], at |-> 0, source |-> Unmapped]

Shows == [k \in 1..Len(trace[cursor].true) |-> ShownBy(k)]
Trues == [k \in 1..Len(trace[cursor].true) |-> TrueOf(k)]
Owners == [k \in 1..Len(trace[cursor].true) |-> OwnerOf(k)]
Boundaries == [k \in DOMAIN trace[cursor].calls |-> Boundary(trace[cursor].calls[k])]

\* The stack is those frames, and the host's calls below them.
LEMMA StackParts ==
    ASSUME RestsPlaced
    PROVE  /\ Stack = FlattenSeq(Shows) \o Boundaries
           /\ TrueStack(cursor) = FlattenSeq(Trues)
           /\ \A level : Activation(level) = FlattenSeq(Owners)[level]
<1> DEFINE r == trace[cursor]
           n == Len(r.true)
           at(j) == IF j = Len(r.stack) THEN cursor ELSE r.stack[j + 1].site
           outer(j) == ActivationFrames(Info, trace, r.stack[j].fn, at(j))
           activations == IF r.stack = <<>> THEN <<ActivationFrames(Info, trace, <<>>, cursor)>>
                          ELSE [k \in DOMAIN r.stack |-> LET j == Len(r.stack) - k + 1 IN outer(j)]
<1>1. n \in Nat \ {0} /\ n = (IF r.stack = <<>> THEN 1 ELSE Len(r.stack)) /\ DOMAIN r.true = 1..n
      /\ r.stack \in Seq(ToSet(r.stack))
  BY CursorRecord
<1>2. Stack = FlattenSeq(activations) \o Boundaries
  BY DEF Stack, BuildCallStack, Boundaries, Boundary
<1>3. activations = Shows
  <2>1. CASE r.stack = <<>>
    <3>1. n = 1 /\ Standing(1) = cursor /\ 1 \in 1..n
      BY <1>1, <2>1 DEF Standing
    <3>2. SourceFn(trace[Standing(1)]) = <<>>
      BY <2>1, <3>1 DEF SourceFn
    <3>3. Ath(1) = 1
      BY <3>1 DEF Ath
    <3>4. ShownBy(1) = ActivationFrames(Info, trace, <<>>, cursor)
      BY <3>1, <3>2, <3>3 DEF ShownBy
    <3>5. Shows = [k \in 1..1 |-> ShownBy(k)]
      BY <3>1 DEF Shows
    <3>6. activations = <<ShownBy(1)>>
      BY <2>1, <3>4
    <3> HIDE DEF activations
    <3> QED BY <3>5, <3>6
  <2>2. CASE r.stack # <<>>
    <3>1. n = Len(r.stack) /\ DOMAIN r.stack = 1..n
      BY <1>1, <2>2, LenProperties
    <3>2. ASSUME NEW k \in 1..n PROVE outer(Len(r.stack) - k + 1) = ShownBy(k)
      <4> DEFINE a == Len(r.stack) - k + 1
      <4>1. a = Ath(k) /\ a \in 1..n
        BY <1>1, <3>1 DEF Ath
      <4>2. at(a) = Standing(a)
        BY <3>1 DEF Standing
      <4>3. SourceFn(trace[Standing(a)]) = r.stack[a].fn
        BY <2>2, <4>1, StandingAt
      <4> HIDE DEF a
      <4>4. outer(a) = ShownBy(k)
        BY <4>1, <4>2, <4>3 DEF ShownBy
      <4> QED BY <4>4 DEF a
    <3>3. activations = [k \in 1..n |-> outer(Len(r.stack) - k + 1)]
      BY <2>2, <3>1
    <3> HIDE DEF outer, activations
    <3>4. activations = [k \in 1..n |-> ShownBy(k)]
      BY <3>2, <3>3
    <3> QED BY <3>4 DEF Shows
  <2> QED BY <2>1, <2>2
<1>4. TrueStack(cursor) = FlattenSeq(Trues)
  BY <1>1 DEF TrueStack, Trues, TrueOf, Ath
<1>5. ASSUME NEW level PROVE Activation(level) = FlattenSeq(Owners)[level]
  BY <1>1 DEF Activation, Owners, OwnerOf, Ath
<1> HIDE DEF activations
<1> QED BY <1>2, <1>3, <1>4, <1>5

\* An activation's frames are those it was in, and they stand at its record.
LEMMA ActivationShown ==
    ASSUME RestsPlaced, NEW k \in 1..Len(trace[cursor].true)
    PROVE  /\ Ath(k) \in 1..Len(trace[cursor].true)
           /\ InlinedAt(trace[Standing(Ath(k))]) \in Nat
           /\ Depict(ShownBy(k), TrueOf(k), InlinedAt(trace[Standing(Ath(k))]), Standing(Ath(k)))
           /\ OwnerOf(k) = [j \in 1..InlinedAt(trace[Standing(Ath(k))]) |-> trace[cursor].true[Ath(k)].id]
<1> DEFINE n == Len(trace[cursor].true)
           a == Ath(k)
           i == Standing(a)
<1>1. a \in 1..n
  BY CursorRecord DEF Ath
<1> HIDE DEF a
<1>2. /\ i \in 1..cursor /\ trace[i].pos # NoPos
      /\ Last(trace[i].true) = trace[cursor].true[a]
  BY <1>1, StandingAt
<1>3. i \in Nat \ {0} /\ DescribedAt(trace[i])
  BY <1>2, CursorRecord
<1>4. Len(Info.inlines[trace[i].pos]) \in Nat /\ Last(trace[i].true).frames = DescribedFrames(trace[i])
  BY <1>3 DEF DescribedAt
<1> HIDE DEF i
<1>5. /\ Depict(ActivationFrames(Info, trace, SourceFn(trace[i]), i), Reverse(Last(trace[i].true).frames),
                InlinedAt(trace[i]), i)
      /\ DOMAIN Last(trace[i].true).frames = 1..InlinedAt(trace[i])
  BY <1>2, <1>3, <1>4, FramesDescribed
<1>6. Depict(ShownBy(k), TrueOf(k), InlinedAt(trace[i]), i)
  BY <1>2, <1>5 DEF ShownBy, TrueOf, a, i
<1>7. OwnerOf(k) = [j \in 1..InlinedAt(trace[i]) |-> trace[cursor].true[a].id]
  BY <1>2, <1>5 DEF OwnerOf, a
<1>8. InlinedAt(trace[i]) \in Nat
  <2> DEFINE count == Len(Info.inlines[trace[i].pos])
  <2>1. count \in Nat /\ InlinedAt(trace[i]) = count + 1
    BY <1>4 DEF InlinedAt
  <2> HIDE DEF count
  <2> QED BY <2>1
<1> QED BY <1>1, <1>6, <1>7, <1>8 DEF a, i

\* The frames on show are the true ones, frame by frame, each at its activation's record.
LEMMA StackShows ==
    ASSUME RestsPlaced
    PROVE  \E m \in Nat :
             /\ IsList(TrueStack(cursor), m)
             /\ {p \in DOMAIN Stack : Stack[p].kind # "contract"} = 1..m
             /\ \A p \in 1..m :
                  /\ <<Stack[p].name.of, Stack[p].source>> = TrueStack(cursor)[p]
                  /\ \E a \in 1..Len(trace[cursor].true) :
                        Stack[p].at = Standing(a) /\ Activation(p) = trace[cursor].true[a].id
<1> DEFINE n == Len(trace[cursor].true)
           At(k) == Standing(Ath(k))
           size(k) == InlinedAt(trace[At(k)])
           len == [k \in 1..n |-> size(k)]
           id(k) == trace[cursor].true[Ath(k)].id
           X == FlattenSeq(Shows)
           Y == Boundaries
<1>1. n \in Nat
  BY CursorRecord
<1>2. \A k \in 1..n : /\ Ath(k) \in 1..n /\ size(k) \in Nat /\ Depict(ShownBy(k), TrueOf(k), size(k), At(k))
                      /\ OwnerOf(k) = [j \in 1..size(k) |-> id(k)]
  BY ActivationShown
<1>3. /\ Shows = [k \in 1..n |-> ShownBy(k)] /\ Trues = [k \in 1..n |-> TrueOf(k)]
      /\ Owners = [k \in 1..n |-> OwnerOf(k)]
  BY DEF Shows, Trues, Owners
<1> HIDE DEF n, size, id, At
<1>4. len \in [1..n -> Nat] /\ \A k \in 1..n : len[k] = size(k)
  BY <1>2
<1> HIDE DEF len
<1>5. AreLists(Shows, n, len) /\ AreLists(Trues, n, len) /\ AreLists(Owners, n, len)
  <2>1. \A k \in 1..n : /\ Shows[k] = ShownBy(k) /\ Trues[k] = TrueOf(k) /\ Owners[k] = OwnerOf(k)
    BY <1>3
  <2>2. IsList(Shows, n) /\ IsList(Trues, n) /\ IsList(Owners, n)
    BY <1>3 DEF IsList
  <2>3. \A k \in 1..n : IsList(ShownBy(k), len[k]) /\ IsList(TrueOf(k), len[k])
    BY <1>2, <1>4 DEF Depict
  <2>4. ASSUME NEW k \in 1..n PROVE IsList(OwnerOf(k), len[k])
    BY <1>2, <1>4 DEF IsList
  <2> QED BY <2>1, <2>2, <2>3, <2>4 DEF AreLists
<1>6. PICK m \in Nat :
        /\ IsList(X, m) /\ IsList(FlattenSeq(Trues), m) /\ Len(X) = m
        /\ X \in Seq(Pooled(Shows, n))
        /\ \A p \in 1..m : \E k \in 1..n : \E j \in 1..len[k] : X[p] = Shows[k][j] /\ FlattenSeq(Trues)[p] = Trues[k][j]
  <2>1. PICK m \in Nat : JoinedAs(Shows, Trues, n, len, m)
    BY <1>1, <1>4, <1>5, ListsJoinAlike
  <2> QED BY <2>1 DEF JoinedAs
<1>7. \A p \in 1..m : \E k \in 1..n : \E j \in 1..len[k] : X[p] = Shows[k][j] /\ FlattenSeq(Owners)[p] = Owners[k][j]
  <2>1. PICK q \in Nat : JoinedAs(Shows, Owners, n, len, q)
    BY <1>1, <1>4, <1>5, ListsJoinAlike
  <2> QED BY <1>6, <2>1 DEF JoinedAs
<1>8. Stack = X \o Y /\ TrueStack(cursor) = FlattenSeq(Trues) /\ \A level : Activation(level) = FlattenSeq(Owners)[level]
  BY StackParts
<1> DEFINE c == Len(trace[cursor].calls)
<1>9. /\ c \in Nat /\ IsList(Y, c) /\ \A k \in 1..c : Y[k].kind = "contract"
  <2>1. c \in Nat /\ DOMAIN trace[cursor].calls = 1..c
    BY CursorRecord, LenProperties
  <2> HIDE DEF c
  <2>2. Y = [k \in 1..c |-> Boundary(trace[cursor].calls[k])]
    BY <2>1 DEF Boundaries
  <2> HIDE DEF Y
  <2> QED BY <2>1, <2>2 DEF IsList, Boundary
<1> HIDE DEF c, X, Y
<1>10. /\ DOMAIN (X \o Y) = 1..(m + c)
       /\ \A p \in 1..(m + c) : (X \o Y)[p] = IF p <= m THEN X[p] ELSE Y[p - m]
  <2> DEFINE S == Pooled(Shows, n) \union ToSet(Y)
  <2>1. X \in Seq(S)
    <3>1. Pooled(Shows, n) \subseteq S
      OBVIOUS
    <3> HIDE DEF S
    <3> QED BY <1>6, <3>1, SeqMonotonic
  <2>2. Y \in Seq(S) /\ Len(Y) = c
    <3>1. \A k \in 1..c : Y[k] \in S
      BY <1>9 DEF IsList, ToSet
    <3> HIDE DEF S
    <3> QED BY <1>9, <3>1, ListIsSeq
  <2> HIDE DEF S
  <2>3. /\ X \o Y \in Seq(S) /\ Len(X \o Y) = Len(X) + Len(Y)
        /\ \A p \in 1..(Len(X) + Len(Y)) : (X \o Y)[p] = IF p <= Len(X) THEN X[p] ELSE Y[p - Len(X)]
    BY <2>1, <2>2, ConcatProperties
  <2>4. DOMAIN (X \o Y) = 1..Len(X \o Y)
    BY <2>3, LenProperties
  <2>5. Len(X) = m /\ Len(Y) = c
    BY <1>6, <2>2
  <2> QED BY <2>3, <2>4, <2>5
<1>11. ASSUME NEW p \in 1..m
       PROVE  /\ p \in DOMAIN Stack /\ Stack[p].kind # "contract"
              /\ <<Stack[p].name.of, Stack[p].source>> = TrueStack(cursor)[p]
              /\ \E a \in 1..n : Stack[p].at = Standing(a) /\ Activation(p) = trace[cursor].true[a].id
  <2>1. p \in DOMAIN Stack /\ Stack[p] = X[p]
    BY <1>8, <1>9, <1>10
  <2> DEFINE T == FlattenSeq(Trues)
  <2>2. PICK k \in 1..n : \E j \in 1..len[k] : X[p] = ShownBy(k)[j] /\ TrueStack(cursor)[p] = TrueOf(k)[j]
    <3>1. PICK k \in 1..n : \E j \in 1..len[k] : X[p] = Shows[k][j] /\ T[p] = Trues[k][j]
      BY <1>6
    <3>2. Shows[k] = ShownBy(k) /\ Trues[k] = TrueOf(k)
      BY <1>3
    <3>3. TrueStack(cursor) = T
      BY <1>8
    <3> HIDE DEF T
    <3> QED BY <3>1, <3>2, <3>3
  <2>3. /\ X[p].kind # "contract" /\ X[p].at = At(k)
        /\ <<X[p].name.of, X[p].source>> = TrueStack(cursor)[p]
    BY <1>2, <1>4, <2>2 DEF Depict
  <2> DEFINE O == FlattenSeq(Owners)
  <2>4. PICK h \in 1..n : \E i \in 1..len[h] : X[p] = ShownBy(h)[i] /\ Activation(p) = OwnerOf(h)[i]
    <3>1. PICK h \in 1..n : \E i \in 1..len[h] : X[p] = Shows[h][i] /\ O[p] = Owners[h][i]
      BY <1>7
    <3>2. Shows[h] = ShownBy(h) /\ Owners[h] = OwnerOf(h)
      BY <1>3
    <3>3. Activation(p) = O[p]
      BY <1>8
    <3> HIDE DEF O
    <3> QED BY <3>1, <3>2, <3>3
  <2>5. X[p].at = At(h) /\ Activation(p) = id(h)
    BY <1>2, <1>4, <2>4 DEF Depict
  <2>6. Ath(h) \in 1..n /\ X[p].at = Standing(Ath(h)) /\ Activation(p) = trace[cursor].true[Ath(h)].id
    BY <1>2, <2>5 DEF At, id
  <2> QED BY <2>1, <2>3, <2>6
<1>12. {p \in DOMAIN Stack : Stack[p].kind # "contract"} = 1..m
  <2>1. ASSUME NEW p \in DOMAIN Stack, Stack[p].kind # "contract" PROVE p \in 1..m
    <3>1. p \in 1..(m + c) /\ (~(p <= m) => Stack[p] = Y[p - m] /\ p - m \in 1..c)
      BY <1>8, <1>9, <1>10
    <3>2. p <= m
      BY <1>9, <2>1, <3>1
    <3> QED BY <1>9, <3>1, <3>2
  <2> QED BY <1>11, <2>1
<1>13. IsList(TrueStack(cursor), m)
  BY <1>6, <1>8
<1> QED BY <1>11, <1>12, <1>13 DEF n

\* The stop points of the trace are records with a position, and there is such a record.
StopsPlaced ==
    /\ Len(trace) \in Nat /\ DOMAIN trace = 1..Len(trace)
    /\ stops.visible = {i \in DOMAIN trace : trace[i].pos # NoPos} /\ stops.visible # {}
    /\ stops.raw \subseteq stops.visible
    /\ stops.stops \subseteq stops.raw

LEMMA ModelPlaced ==
    ASSUME Loaded, TraceLoaded, Faithful(trace)
    PROVE  StopsPlaced
<1>1. PICK jmc \in BOOLEAN : stops = BuildStopModel(trace, RunStarts(trace), Source, jmc)
  BY DEF TraceLoaded
<1>2. trace \in Seq(ToSet(trace)) /\ Len(trace) \in Nat /\ DOMAIN trace = 1..Len(trace)
  BY LenProperties DEF TraceLoaded, IsRecording
<1> DEFINE starts == RunStarts(trace)
           depth == [i \in DOMAIN trace |-> trace[i].depth]
           raw == ToSet(starts)
           role == [i \in raw |-> Source[trace[i].line].role]
           statements == StatementStops(starts, depth, role)
           workspace == {i \in raw : Source[trace[i].line].workspace}
<1>3. raw \subseteq {i \in DOMAIN trace : trace[i].pos # NoPos}
  <2>1. LinesStart(trace, RunsOf(trace)[Len(trace)], Len(trace))
    BY EveryLineStarts DEF TraceLoaded
  <2>2. starts = RunsOf(trace)[Len(trace)].starts
    BY DEF RunStarts, RunsOf
  <2>3. starts \in Seq(1..Len(trace)) /\ \A s \in raw : trace[s].pos # NoPos
    BY <2>1, <2>2 DEF LinesStart
  <2> HIDE DEF starts
  <2>4. raw \subseteq 1..Len(trace)
    BY <2>3, LenProperties DEF ToSet
  <2> QED BY <1>2, <2>3, <2>4
<1> HIDE DEF starts
<1>4. /\ stops.visible = {i \in DOMAIN trace : trace[i].pos # NoPos} /\ stops.raw = raw
      /\ stops.stops = IF jmc THEN MyCodeStops(statements, workspace) ELSE statements
  BY <1>1 DEF BuildStopModel, starts
<1>5. statements \subseteq raw
  <2>1. \A p \in DOMAIN starts : starts[p] \in raw
    BY DEF ToSet
  <2> HIDE DEF depth, role, raw
  <2> QED BY <2>1 DEF StatementStops, OrAll, raw
<1> HIDE DEF statements, workspace, raw
<1>6. stops.stops \subseteq raw
  BY <1>4, <1>5 DEF MyCodeStops, OrAll
<1>7. stops.visible # {}
  BY <1>4 DEF Faithful
<1> QED BY <1>2, <1>3, <1>4, <1>6, <1>7 DEF StopsPlaced

\* A move that stops does so at one of them.
LEMMA MoveRests ==
    ASSUME StopsPlaced, Move, last'.out # "terminated"
    PROVE  cursor' \in stops.visible
<1> DEFINE n == Len(trace)
<1>1. n \in Nat /\ stops.visible \subseteq 0..n /\ stops.visible # {}
  BY DEF StopsPlaced
<1>2. \A gran : StopPoints(gran) \subseteq stops.visible /\ StopPoints(gran) # {}
  BY DEF StopsPlaced, StopPoints, HasStatementStops
<1> HIDE DEF n
<1>3. ASSUME NEW T, T \subseteq stops.visible, T # {}
      PROVE  Max(T) \in stops.visible /\ Min(T) \in stops.visible
  <2>1. T \subseteq 0..n
    BY <1>1, <1>3
  <2>2. Max(T) \in T
    BY <1>1, <1>3, <2>1, MaxIsLargest
  <2>3. T \subseteq Nat
    BY <1>1, <2>1
  <2>4. Min(T) \in T
    BY <1>3, <2>3, MinIsLeast
  <2> QED BY <1>3, <2>2, <2>4
<1>4. FirstStopPoint(stops) \in stops.visible /\ LastStopPoint(stops) \in stops.visible
  <2>1. stops.stops \subseteq stops.visible
    BY DEF StopsPlaced
  <2> QED BY <1>1, <1>3, <2>1 DEF FirstStopPoint, LastStopPoint
<1>5. BreakpointIndices \subseteq stops.visible
  BY DEF BreakpointIndices, StopsPlaced
<1>6. ASSUME NEW kind, NEW gran, StepForward(kind, gran) PROVE cursor' \in stops.visible
  <2>1. ForwardTargets(kind, gran) \subseteq stops.visible
    BY <1>2 DEF ForwardTargets
  <2>2. ASSUME ForwardTargets(kind, gran) # {} PROVE Min(ForwardTargets(kind, gran)) \in stops.visible
    BY <1>3, <2>1, <2>2
  <2>3. Max(StopPoints(gran)) \in stops.visible
    BY <1>2, <1>3
  <2> QED BY <1>2, <1>6, <2>2, <2>3 DEF StepForward, Seek, Clamped
<1>7. ASSUME NEW gran, StepBackward(gran) PROVE cursor' \in stops.visible
  <2>1. BackwardTargets(gran) \subseteq stops.visible
    BY <1>2 DEF BackwardTargets
  <2>2. ASSUME BackwardTargets(gran) # {} PROVE Max(BackwardTargets(gran)) \in stops.visible
    BY <1>3, <2>1, <2>2
  <2>3. Min(StopPoints(gran)) \in stops.visible
    BY <1>2, <1>3
  <2> QED BY <1>2, <1>7, <2>2, <2>3 DEF StepBackward, Seek, Clamped
<1>8. ASSUME RunForward(BreakpointIndices) PROVE cursor' \in stops.visible
  <2>1. BreakpointsAhead(BreakpointIndices) \subseteq stops.visible
    BY <1>5 DEF BreakpointsAhead
  <2>2. ASSUME BreakpointsAhead(BreakpointIndices) # {}
        PROVE  Min(BreakpointsAhead(BreakpointIndices)) \in stops.visible
    BY <1>3, <2>1, <2>2
  <2> QED BY <1>4, <1>8, <2>2 DEF RunForward, Seek
<1>9. ASSUME RunBackward(BreakpointIndices) PROVE cursor' \in stops.visible
  <2>1. BreakpointsBehind(BreakpointIndices) \subseteq stops.visible
    BY <1>5 DEF BreakpointsBehind
  <2>2. ASSUME BreakpointsBehind(BreakpointIndices) # {}
        PROVE  Max(BreakpointsBehind(BreakpointIndices)) \in stops.visible
    BY <1>3, <2>1, <2>2
  <2> QED BY <1>4, <1>9, <2>2 DEF RunBackward, Seek
<1> QED BY <1>6, <1>7, <1>8, <1>9 DEF Move

\* A session that has stopped rests on a record with a position of a trace that is
\* described as it is.
Placed ==
    /\ Loaded => Faithful(trace)
    /\ stopped => cursor \in stops.visible

LEMMA PlacedStep ==
    ASSUME RecordingsFaithful, LaunchOK, TraceLoaded, ViewOK, Placed, Next \/ UNCHANGED sessionVars
    PROVE  Placed'
<1>1. (Loaded => Faithful(trace))'
  <2>1. CASE UNCHANGED <<trace, stops>>
    BY <2>1 DEF Placed, Loaded
  <2>2. CASE ~UNCHANGED <<trace, stops>>
    <3>1. Resolved
      BY <2>2, LaunchStep
    <3>2. backend \in {"file", "live"}
      BY <3>1 DEF Resolved, TraceLoaded
    <3>3. trace' \in Recordings[backend]
      BY <2>2, <3>1 DEF Resolved
    <3>4. Faithful(trace')
      BY <3>2, <3>3, SessionAssumption DEF RecordingsFaithful
    <3> QED BY <3>4 DEF Faithful, DescribedFrames
  <2> QED BY <2>1, <2>2
<1>2. CASE Resolved
  <2>1. ~stopped /\ stopped' = stopped
    BY <1>2 DEF Resolved, LaunchOK, ViewOK, viewVars
  <2> QED BY <1>1, <2>1 DEF Placed
<1>3. CASE ~Resolved
  <2>1. stops' = stops /\ trace' = trace
    BY <1>3, LaunchStep
  <2>2. CASE Enter
    <3>1. StopsPlaced /\ cursor' = FirstStopPoint(stops)
      BY <2>2, ModelPlaced DEF Enter, LaunchOK, Placed
    <3>2. stops.visible \subseteq Nat /\ stops.stops \subseteq stops.visible /\ stops.visible # {}
      BY <3>1 DEF StopsPlaced
    <3>3. FirstStopPoint(stops) \in stops.visible
      <4>1. stops.stops \subseteq Nat
        BY <3>2
      <4>2. stops.stops # {} => Min(stops.stops) \in stops.stops
        BY <4>1, MinIsLeast
      <4>3. Min(stops.visible) \in stops.visible
        BY <3>2, MinIsLeast
      <4> QED BY <3>2, <4>2, <4>3 DEF FirstStopPoint
    <3> QED BY <1>1, <2>1, <3>1, <3>3 DEF Placed
  <2>3. CASE Move
    <3>1. Loaded
      BY <2>3, MoveStep
    <3>2. CASE last'.out = "terminated"
      <4>1. cursor' = cursor /\ stopped' = stopped
        BY <2>3, <3>2, MoveStep DEF Move, viewVars
      <4> QED BY <1>1, <2>1, <4>1 DEF Placed
    <3>3. CASE last'.out # "terminated"
      <4>1. cursor' \in stops.visible
        BY <2>3, <3>1, <3>3, ModelPlaced, MoveRests DEF Placed
      <4> QED BY <1>1, <2>1, <4>1 DEF Placed
    <3> QED BY <3>2, <3>3
  <2>4. CASE ~Enter /\ ~Move
    <3>1. UNCHANGED <<cursor, stopped>>
      BY <1>3, <2>4 DEF Next, LaunchRequest, Transact, ResolveFails, ArgumentsFail, ConfigurationDone, SetBreakPoints,
         SetInstructionBreakpoints, StackTrace, Variables, Disconnect, SocketCloses, sessionVars, cursorVars, viewVars
    <3> QED BY <1>1, <2>1, <3>1 DEF Placed
  <2> QED BY <2>2, <2>3, <2>4
<1> QED BY <1>2, <1>3

LEMMA StoppedRests ==
    ASSUME TraceLoaded, ViewOK, Placed, stopped
    PROVE  RestsPlaced
<1>1. Loaded /\ Faithful(trace) /\ cursor \in stops.visible
  BY DEF ViewOK, Placed
<1>2. StopsPlaced /\ IsRecording(trace)
  BY <1>1, ModelPlaced DEF TraceLoaded
<1> QED BY <1>1, <1>2 DEF StopsPlaced, RestsPlaced

\* So what a client is shown is exact.
LEMMA ShownExact ==
    ASSUME TraceLoaded, ViewOK, Placed
    PROVE  StackExact
<1>1. SUFFICES ASSUME stopped, frames # None PROVE StackExact
  BY DEF StackExact
<1>2. frames[1] = Stack /\ RestsPlaced
  BY <1>1, StoppedRests DEF ViewOK
<1>3. PICK m \in Nat :
        /\ IsList(TrueStack(cursor), m)
        /\ {p \in DOMAIN Stack : Stack[p].kind # "contract"} = 1..m
        /\ \A p \in 1..m :
              /\ <<Stack[p].name.of, Stack[p].source>> = TrueStack(cursor)[p]
              /\ \E a \in 1..Len(trace[cursor].true) :
                    Stack[p].at = Standing(a) /\ Activation(p) = trace[cursor].true[a].id
  BY <1>2, StackShows
<1>4. [p \in 1..m |-> <<Stack[p].name.of, Stack[p].source>>] = TrueStack(cursor)
  <2> DEFINE T == TrueStack(cursor)
  <2>1. T = [p \in 1..m |-> T[p]]
    BY <1>3 DEF IsList
  <2>2. \A p \in 1..m : <<Stack[p].name.of, Stack[p].source>> = T[p]
    BY <1>3
  <2> HIDE DEF T
  <2>3. [p \in 1..m |-> <<Stack[p].name.of, Stack[p].source>>] = T
    BY <2>1, <2>2
  <2> QED BY <2>3 DEF T
<1>5. ASSUME NEW p \in 1..m
      PROVE  Last(trace[Stack[p].at].true).id \in {trace[cursor].true[a].id : a \in DOMAIN trace[cursor].true}
  <2>1. PICK a \in 1..Len(trace[cursor].true) : Stack[p].at = Standing(a)
    BY <1>3
  <2>2. Last(trace[Stack[p].at].true) = trace[cursor].true[a] /\ a \in DOMAIN trace[cursor].true
    BY <1>2, <2>1, StandingAt, CursorRecord
  <2> QED BY <2>2
<1> QED BY <1>1, <1>2, <1>3, <1>4, <1>5 DEF StackExact

LEMMA GivenExact ==
    ASSUME TraceLoaded, ViewOK, Placed
    PROVE  ReferencesExact
<1>1. ASSUME NEW k \in DOMAIN known
      PROVE  handles[known[k].reference] =
                [record |-> Max({i \in 1..cursor : Last(trace[i].true).id = Activation(known[k].level)}),
                 memory |-> cursor]
  <2>1. stopped
    BY <1>1 DEF ViewOK
  <2>2. RestsPlaced
    BY <2>1, StoppedRests
  <2> DEFINE p == known[k].level
  <2>3. p \in Levels /\ handles[known[k].reference] = Container(p)
    <3>1. known \in Seq([reference : 1..Len(handles), level : Levels]) /\ k \in 1..Len(known)
      BY <1>1, LenProperties DEF ViewOK
    <3>2. known[k] \in [reference : 1..Len(handles), level : Levels]
      BY <3>1, ElementOfSeq
    <3>3. handles[known[k].reference] = Container(p)
      BY <3>1 DEF ViewOK
    <3> QED BY <3>2, <3>3
  <2> HIDE DEF p
  <2>4. PICK a \in 1..Len(trace[cursor].true) : Stack[p].at = Standing(a) /\ Activation(p) = trace[cursor].true[a].id
    BY <2>2, <2>3, StackShows DEF Levels
  <2> DEFINE wrote == {i \in 1..cursor : Last(trace[i].true).id = Activation(p)}
  <2>5. Standing(a) \in wrote
    BY <2>2, <2>4, StandingAt
  <2>6. \A j \in wrote : ~(j \in (Standing(a) + 1)..cursor)
    BY <2>2, <2>4, StandingAt
  <2>7. cursor \in Nat /\ wrote \subseteq 1..cursor
    BY <2>2, CursorRecord
  <2> HIDE DEF wrote
  <2>8. Max(wrote) \in wrote /\ \A y \in wrote : y <= Max(wrote)
    <3>1. wrote \subseteq 0..cursor /\ wrote # {}
      BY <2>5, <2>7
    <3> QED BY <2>7, <3>1, MaxIsLargest
  <2>9. Max(wrote) = Standing(a)
    <3> DEFINE greatest == Max(wrote)
    <3>1. greatest \in 1..cursor /\ Standing(a) \in 1..cursor /\ Standing(a) <= greatest
          /\ ~(greatest \in (Standing(a) + 1)..cursor)
      BY <2>5, <2>6, <2>7, <2>8
    <3> HIDE DEF greatest
    <3>2. greatest = Standing(a)
      BY <2>7, <3>1
    <3> QED BY <3>2 DEF greatest
  <2>10. Container(p) = [record |-> Max(wrote), memory |-> cursor]
    BY <2>4, <2>9 DEF Container
  <2> QED BY <2>3, <2>10 DEF p, wrote
<1> QED BY <1>1 DEF ReferencesExact

ShownOK == LaunchOK /\ TraceLoaded /\ ViewOK /\ Placed

LEMMA ShownStarts == ASSUME Init PROVE ShownOK
<1>1. ~Loaded /\ launch = "none"
  BY DEF Init, CursorInit, Loaded
<1>2. stopped = FALSE /\ ViewOK
  BY ViewStarts DEF Init
<1> QED BY <1>1, <1>2 DEF ShownOK, LaunchOK, TraceLoaded, Placed

LEMMA ShownStep ==
    ASSUME RecordingsFaithful, ShownOK, Next \/ UNCHANGED sessionVars
    PROVE  ShownOK'
BY LaunchStep, TraceLoadedStep, ViewStep, PlacedStep DEF ShownOK

\* Given recordings whose debug information describes the program that wrote them, the
\* stack a client is shown is the one the program had at the record the session rests
\* on, inlined calls included.
THEOREM StackAlwaysExact ==
    ASSUME RecordingsFaithful
    PROVE  Spec => []StackExact
<1>1. Init => ShownOK
  BY ShownStarts
<1>2. ShownOK /\ [Next]_sessionVars => ShownOK'
  BY ShownStep
<1>3. ShownOK => StackExact
  BY ShownExact DEF ShownOK
<1> QED BY <1>1, <1>2, <1>3, PTL DEF Spec

\* Given such recordings, a reference the client holds leads to the last record that
\* the activation of its frame wrote.
THEOREM ReferencesAlwaysExact ==
    ASSUME RecordingsFaithful
    PROVE  Spec => []ReferencesExact
<1>1. Init => ShownOK
  BY ShownStarts
<1>2. ShownOK /\ [Next]_sessionVars => ShownOK'
  BY ShownStep
<1>3. ShownOK => ReferencesExact
  BY GivenExact DEF ShownOK
<1> QED BY <1>1, <1>2, <1>3, PTL DEF Spec

-----------------------------------------------------------------------------
(***************************************************************************)
(* The transactions of a live launch.  Listed(c, k) is what configuration  *)
(* c describes up to its step k: Described is all of it.                   *)
(***************************************************************************)
CreateAccount == [op |-> "create_account"]
Later(c) == [i \in DOMAIN c.transactions |-> Bodies(c.transactions[i], i)]
Listed(c, k) == <<[step |-> 0, body |-> CreateAccount]>> \o Joining(Later(c))[k]

\* Everything c describes.
Items(c) ==
    {[step |-> 0, body |-> CreateAccount]} \union UNION {ToSet(Bodies(c.transactions[i], i)) : i \in DOMAIN c.transactions}

IsConfig(c) == c \in Configs /\ Normal(c)

LEMMA BodiesType ==
    ASSUME NEW step, NEW i, NEW S, ToSet(Bodies(step, i)) \subseteq S
    PROVE  /\ Bodies(step, i) \in Seq(S)
           /\ Len(Bodies(step, i)) = IF step.kind = "deploy" THEN 2 ELSE 1
<1> DEFINE upload == [step |-> 0, body |-> [op |-> "upload", wasm |-> step.wasm]]
           create == [step |-> i, body |-> [op |-> "create", wasm |-> step.wasm, salt |-> step.id]]
           invoke == [step |-> i, body |-> [op |-> "invoke", contract |-> <<"C", step.contract>>,
                                            function |-> step.function, args |-> {<<"C", id>> : id \in step.args}]]
<1>1. Bodies(step, i) = IF step.kind = "deploy" THEN <<upload, create>> ELSE <<invoke>>
  BY DEF Bodies
<1> HIDE DEF upload, create, invoke
<1>2. CASE step.kind = "deploy"
  <2>1. Bodies(step, i) = <<upload, create>>
    BY <1>1, <1>2
  <2>2. upload \in S /\ create \in S
    BY <2>1 DEF ToSet
  <2> QED BY <1>2, <2>1, <2>2
<1>3. CASE step.kind # "deploy"
  <2>1. Bodies(step, i) = <<invoke>>
    BY <1>1, <1>3
  <2>2. invoke \in S
    BY <2>1 DEF ToSet
  <2> QED BY <1>3, <2>1, <2>2
<1> QED BY <1>2, <1>3

LEMMA ConfigType ==
    ASSUME NEW c, IsConfig(c)
    PROVE  /\ c.transactions \in Seq(ToSet(c.transactions)) /\ Len(c.transactions) \in Nat \ {0}
           /\ DOMAIN c.transactions = 1..Len(c.transactions)
           /\ \A i \in 1..Len(c.transactions) : c.transactions[i].kind \in {"deploy", "invoke"}
           /\ Later(c) \in Seq(Seq(Items(c))) /\ Len(Later(c)) = Len(c.transactions)
           /\ \A i \in 1..Len(c.transactions) : Later(c)[i] = Bodies(c.transactions[i], i)
<1>1. c.transactions \in Seq(ToSet(c.transactions)) /\ c.transactions # <<>>
  BY ConfigsAssumption DEF IsConfig, Normal
<1>2. /\ Len(c.transactions) \in Nat \ {0}
      /\ DOMAIN c.transactions = 1..Len(c.transactions)
  BY <1>1, EmptySeq, LenProperties
<1>3. \A i \in 1..Len(c.transactions) : c.transactions[i].kind \in {"deploy", "invoke"}
  BY <1>2 DEF IsConfig, Normal, StepParses
<1> DEFINE n == Len(c.transactions)
<1>4. \A i \in 1..n : Later(c)[i] = Bodies(c.transactions[i], i)
  BY <1>2 DEF Later
<1>5. \A i \in 1..n : Bodies(c.transactions[i], i) \in Seq(Items(c))
  <2> TAKE i \in 1..n
  <2>1. ToSet(Bodies(c.transactions[i], i)) \subseteq Items(c)
    BY <1>2 DEF Items
  <2> QED BY <2>1, BodiesType
<1>6. Later(c) \in [1..n -> Seq(Items(c))]
  BY <1>2, <1>5 DEF Later
<1>7. Later(c) \in Seq(Seq(Items(c))) /\ Len(Later(c)) = n
  BY <1>2, <1>6, SeqDef, LenProperties
<1> QED BY <1>1, <1>2, <1>3, <1>4, <1>7

\* Joins of sequences may be regrouped.
LEMMA Regrouped ==
    ASSUME NEW S, NEW x \in Seq(S), NEW y \in Seq(S), NEW z \in Seq(S)
    PROVE  x \o (y \o z) = (x \o y) \o z
<1>1. (x \o y) \o z = x \o (y \o z)
  BY ConcatAssociative
<1> QED BY ONLY <1>1

\* A step adds its transactions, and what the whole configuration describes is what
\* its last step completes.
LEMMA ListedSteps ==
    ASSUME NEW c, IsConfig(c)
    PROVE  /\ \A k \in 0..Len(c.transactions) : Listed(c, k) \in Seq(Items(c))
           /\ Listed(c, 0) = <<[step |-> 0, body |-> CreateAccount]>>
           /\ \A k \in 1..Len(c.transactions) : Listed(c, k) = Listed(c, k - 1) \o Bodies(c.transactions[k], k)
           /\ config = c => Described = Listed(c, Len(c.transactions))
<1> DEFINE n == Len(c.transactions)
           J(k) == Joining(Later(c))[k]
           first == <<[step |-> 0, body |-> CreateAccount]>>
           B(k) == Bodies(c.transactions[k], k)
<1>1. /\ n \in Nat \ {0} /\ Later(c) \in Seq(Seq(Items(c))) /\ Len(Later(c)) = n
      /\ \A i \in 1..n : Later(c)[i] = B(i)
  BY ConfigType
<1>2. IsJoining(Joining(Later(c)), Later(c)) /\ \A k \in 0..n : J(k) \in Seq(Items(c))
  BY <1>1, FlattenJoins
<1>3. first \in Seq(Items(c))
  BY DEF Items
<1>4. \A k \in 1..n : B(k) \in Seq(Items(c))
  BY <1>1, ElementOfSeq
<1>5. J(0) = <<>> /\ (\A k \in 1..n : J(k) = J(k - 1) \o B(k)) /\ FlattenSeq(Later(c)) = J(n)
  BY <1>1, <1>2 DEF IsJoining
<1>6. config = c => Described = first \o J(n)
  BY <1>5 DEF Described, Later, CreateAccount
<1>7. \A k : Listed(c, k) = first \o J(k)
  BY DEF Listed
<1> HIDE DEF J, B, first, n
<1>8. \A k \in 0..n : Listed(c, k) \in Seq(Items(c))
  BY <1>2, <1>3, <1>7, ConcatProperties
<1>9. Listed(c, 0) = first
  BY <1>3, <1>5, <1>7, ConcatEmptySeq
<1>10. ASSUME NEW k \in 1..n PROVE Listed(c, k) = Listed(c, k - 1) \o B(k)
  <2>1. k - 1 \in 0..n
    BY <1>1
  <2>2. first \o (J(k - 1) \o B(k)) = (first \o J(k - 1)) \o B(k)
    <3>1. J(k - 1) \in Seq(Items(c)) /\ B(k) \in Seq(Items(c))
      BY <1>2, <1>4, <2>1
    <3> DEFINE S == Items(c)
               j == J(k - 1)
               b == B(k)
    <3>2. first \in Seq(S) /\ j \in Seq(S) /\ b \in Seq(S)
      BY <1>3, <3>1
    <3> HIDE DEF S, j, b
    <3>3. first \o (j \o b) = (first \o j) \o b
      BY ONLY <3>2, Regrouped
    <3> QED BY <3>3 DEF j, b
  <2> QED BY <1>5, <1>7, <2>2
<1> QED BY <1>6, <1>7, <1>8, <1>9, <1>10 DEF B, first, n

\* Which transactions are on the node after the ones of the steps before run.step and
\* perhaps the upload of that step: the ones described, in that order; and the hash kept
\* of a step is of one of its own.
Uploads(r) == IF r.uploaded THEN 1 ELSE 0

Performed(c, r, executed) ==
    LET done == Listed(c, r.step - 1)
    IN  /\ Len(executed) = Len(done) + Uploads(r)
        /\ \A i \in 1..Len(done) : executed[i].body = done[i].body
        /\ r.uploaded => /\ r.step <= Len(c.transactions) /\ c.transactions[r.step].kind = "deploy"
                         /\ executed[Len(done) + 1].body = [op |-> "upload", wasm |-> c.transactions[r.step].wasm]
        /\ Len(r.submitted) = r.step - 1
        /\ \A t \in 1..(r.step - 1) : \E i \in 1..Len(done) : done[i].step = t /\ executed[i] = r.submitted[t]

\* The contracts that are registered, one for every deploy before the current step.
Registered(c, r) ==
    \A j \in 1..(r.step - 1) :
        c.transactions[j].kind = "deploy" => \E d \in r.deployed : d.id = c.transactions[j].id

Contracts(c) ==
    {[id |-> t.id, contract |-> <<"C", t.id>>, wasm |-> t.wasm] : t \in ToSet(c.transactions)}
Envelopes(c) == [sequence : Nat, body : {item.body : item \in Items(c)}]

SequenceType(c, r, nd) ==
    /\ r \in [step : 0..(Len(c.transactions) + 1), uploaded : BOOLEAN, sequence : Nat,
              deployed : SUBSET Contracts(c), submitted : Seq(Envelopes(c))]
    /\ nd \in [executed : Seq(Envelopes(c)), receipts : SUBSET Envelopes(c)]

\* The node has seen no envelope with the sequence that comes next.
Fresh(r, nd) == \A e \in nd.receipts : e.sequence < r.sequence

SequenceOK ==
    /\ IsConfig(config)
    /\ SequenceType(config, run, node)
    /\ Fresh(run, node)
    /\ run.step = 0 => run = Started /\ node.executed = <<>>
    /\ run.step > 0 => Performed(config, run, node.executed) /\ Registered(config, run)

\* The node executes every envelope it gets.
LEMMA SubmitExecutes ==
    ASSUME SequenceOK, NEW body, NEW after, Submit(body, after), after.sequence = run.sequence,
           body \in {item.body : item \in Items(config)},
           after \in [step : 0..(Len(config.transactions) + 1), uploaded : BOOLEAN, sequence : Nat,
                      deployed : SUBSET Contracts(config), submitted : Seq(Envelopes(config))]
    PROVE  /\ SequenceType(config, run', node') /\ Fresh(run', node') /\ config' = config
           /\ Envelope(body) \in Envelopes(config)
           /\ node'.executed = Append(node.executed, Envelope(body))
           /\ run'.step = after.step /\ run'.uploaded = after.uploaded
           /\ run'.deployed = after.deployed /\ run'.submitted = after.submitted
<1> DEFINE e == Envelope(body)
<1>1. e \in Envelopes(config) /\ e.sequence = run.sequence
  BY DEF Envelope, Envelopes, SequenceOK, SequenceType
<1>2. e \notin node.receipts
  BY <1>1 DEF SequenceOK, SequenceType, Fresh
<1>3. /\ node' = [executed |-> Append(node.executed, e), receipts |-> node.receipts \union {e}]
      /\ run' = [after EXCEPT !.sequence = @ + 1] /\ config' = config
  BY <1>2 DEF Submit, Receive
<1> HIDE DEF e
<1>4. Append(node.executed, e) \in Seq(Envelopes(config))
  BY <1>1, AppendProperties DEF SequenceOK, SequenceType
<1>5. /\ SequenceType(config, run', node')
      /\ run'.sequence = run.sequence + 1
      /\ run'.step = after.step /\ run'.uploaded = after.uploaded
      /\ run'.deployed = after.deployed /\ run'.submitted = after.submitted
  <2>1. run' = [step |-> after.step, uploaded |-> after.uploaded, sequence |-> run.sequence + 1,
                deployed |-> after.deployed, submitted |-> after.submitted]
    BY <1>3
  <2>2. run.sequence + 1 \in Nat
    BY DEF SequenceOK, SequenceType
  <2>3. node' \in [executed : Seq(Envelopes(config)), receipts : SUBSET Envelopes(config)]
    BY <1>1, <1>3, <1>4 DEF SequenceOK, SequenceType
  <2> QED BY <2>1, <2>2, <2>3 DEF SequenceType
<1>6. \A x \in node.receipts : x.sequence \in Nat
  BY DEF SequenceOK, SequenceType, Envelopes
<1>7. Fresh(run', node')
  BY <1>1, <1>3, <1>5, <1>6 DEF SequenceOK, SequenceType, Fresh
<1> QED BY <1>1, <1>3, <1>5, <1>7 DEF e

\* A transaction that was submitted is the next one described.
LEMMA ExecutedNext ==
    ASSUME SequenceOK, NEW e \in Envelopes(config), node'.executed = Append(node.executed, e)
    PROVE  /\ Len(node'.executed) = Len(node.executed) + 1 /\ Len(node.executed) \in Nat
           /\ \A i \in 1..Len(node.executed) : node'.executed[i] = node.executed[i]
           /\ node'.executed[Len(node.executed) + 1] = e
<1>1. node.executed \in Seq(Envelopes(config))
  BY DEF SequenceOK, SequenceType
<1> QED BY <1>1, AppendProperties, LenProperties

\* What step k adds to the transactions of the steps before it.
ListsNext(c, k) ==
    LET before == Listed(c, k - 1)
        bodies == Bodies(c.transactions[k], k)
    IN  /\ before \in Seq(Items(c)) /\ Len(before) \in Nat
        /\ bodies \in Seq(Items(c)) /\ Len(bodies) = IF c.transactions[k].kind = "deploy" THEN 2 ELSE 1
        /\ Len(Listed(c, k)) = Len(before) + Len(bodies)
        /\ \A i \in 1..Len(before) : Listed(c, k)[i] = before[i]
        /\ \A j \in 1..Len(bodies) : Listed(c, k)[Len(before) + j] = bodies[j]

LEMMA ListedNext ==
    ASSUME NEW c, IsConfig(c), NEW k \in 1..Len(c.transactions)
    PROVE  ListsNext(c, k)
<1> DEFINE before == Listed(c, k - 1)
           bodies == Bodies(c.transactions[k], k)
<1>1. /\ before \in Seq(Items(c)) /\ Listed(c, k) = before \o bodies
  <2>1. k - 1 \in 0..Len(c.transactions)
    BY ConfigType
  <2> QED BY <2>1, ListedSteps
<1>2. ToSet(bodies) \subseteq Items(c)
  BY ConfigType DEF Items
<1>3. bodies \in Seq(Items(c)) /\ Len(bodies) = IF c.transactions[k].kind = "deploy" THEN 2 ELSE 1
  BY <1>2, BodiesType
<1> HIDE DEF before, bodies
<1>4. /\ Len(before) \in Nat /\ Len(bodies) \in Nat
      /\ Len(before \o bodies) = Len(before) + Len(bodies)
      /\ \A i \in 1..Len(before) + Len(bodies) :
            (before \o bodies)[i] = IF i <= Len(before) THEN before[i] ELSE bodies[i - Len(before)]
  BY <1>1, <1>3, ConcatProperties, LenProperties
<1>5. \A i \in 1..Len(before) : (before \o bodies)[i] = before[i]
  BY <1>4
<1>6. ASSUME NEW j \in 1..Len(bodies) PROVE (before \o bodies)[Len(before) + j] = bodies[j]
  <2>1. /\ Len(before) + j \in 1..Len(before) + Len(bodies) /\ ~(Len(before) + j <= Len(before))
        /\ (Len(before) + j) - Len(before) = j
    BY <1>4
  <2> QED BY <1>4, <2>1
<1> QED BY <1>1, <1>3, <1>4, <1>5, <1>6 DEF before, bodies, ListsNext

\* The transaction that ends a step is the last one described for it, and the only one
\* but for the upload.
LEMMA FinishPerforms ==
    ASSUME SequenceOK, run.step \in 1..Len(config.transactions),
           NEW body, Envelope(body) \in Envelopes(config),
           node'.executed = Append(node.executed, Envelope(body)), config' = config,
           run'.step = run.step + 1, run'.uploaded = FALSE,
           run'.submitted = Append(run.submitted, Envelope(body)),
           Len(Bodies(Current, run.step)) = Uploads(run) + 1,
           Bodies(Current, run.step)[Uploads(run) + 1] = [step |-> run.step, body |-> body],
           run.uploaded => Bodies(Current, run.step)[1].body = [op |-> "upload", wasm |-> Current.wasm]
    PROVE  Performed(config, run', node'.executed)
<1> DEFINE s == run.step
           u == Uploads(run)
           before == Listed(config, s - 1)
           after == Listed(config, s)
           bodies == Bodies(Current, s)
           e == Envelope(body)
<1>1. s \in 1..Len(config.transactions) /\ IsConfig(config) /\ u \in {0, 1} /\ (u = 1 <=> run.uploaded)
      /\ run.uploaded \in BOOLEAN
  BY DEF SequenceOK, SequenceType, Uploads
<1>2. /\ Len(before) \in Nat
      /\ Len(after) = Len(before) + Len(bodies)
      /\ \A i \in 1..Len(before) : after[i] = before[i]
      /\ \A j \in 1..Len(bodies) : after[Len(before) + j] = bodies[j]
  <2>1. ListsNext(config, run.step)
    BY <1>1, ListedNext
  <2> QED BY <2>1 DEF ListsNext, Current
<1>3. /\ Len(node.executed) = Len(before) + u
      /\ \A i \in 1..Len(before) : node.executed[i].body = before[i].body
      /\ run.uploaded => node.executed[Len(before) + 1].body = [op |-> "upload", wasm |-> Current.wasm]
      /\ Len(run.submitted) = s - 1
      /\ \A t \in 1..(s - 1) : \E i \in 1..Len(before) : before[i].step = t /\ node.executed[i] = run.submitted[t]
  BY <1>1 DEF SequenceOK, Performed, Current
<1>4. /\ Len(node'.executed) = Len(node.executed) + 1
      /\ \A i \in 1..Len(node.executed) : node'.executed[i] = node.executed[i]
      /\ node'.executed[Len(node.executed) + 1] = e
  BY ExecutedNext
<1>5. /\ Len(run'.submitted) = Len(run.submitted) + 1
      /\ \A i \in 1..Len(run.submitted) : run'.submitted[i] = run.submitted[i]
      /\ run'.submitted[Len(run.submitted) + 1] = e
  <2>1. run.submitted \in Seq(Envelopes(config))
    BY DEF SequenceOK, SequenceType
  <2> QED BY <2>1, AppendProperties
<1>6. e.body = body
  BY DEF Envelope
<1>7. Len(bodies) = u + 1 /\ bodies[u + 1] = [step |-> s, body |-> body]
      /\ (run.uploaded => bodies[1].body = [op |-> "upload", wasm |-> Current.wasm])
  OBVIOUS
<1> HIDE DEF s, u, before, after, bodies, e
<1>8. Len(node'.executed) = Len(after) + 0 /\ Len(after) = Len(before) + u + 1 /\ Len(after) \in Nat
  BY <1>1, <1>2, <1>3, <1>4, <1>7
<1>9. node'.executed[Len(after)] = e /\ after[Len(after)] = [step |-> s, body |-> body]
  <2>1. Len(after) = Len(node.executed) + 1
    BY <1>1, <1>3, <1>8
  <2>2. u + 1 \in 1..Len(bodies) /\ Len(after) = Len(before) + (u + 1)
    BY <1>1, <1>2, <1>7, <1>8
  <2> QED BY <1>2, <1>4, <1>7, <2>1, <2>2
<1>10. ASSUME NEW i \in 1..Len(after) PROVE node'.executed[i].body = after[i].body
  <2>1. CASE i <= Len(before)
    <3>1. i \in 1..Len(before) /\ i \in 1..Len(node.executed)
      BY <1>1, <1>3, <1>8, <2>1
    <3>2. node'.executed[i] = node.executed[i] /\ after[i] = before[i]
      BY <1>2, <1>4, <3>1
    <3> QED BY <1>3, <3>1, <3>2
  <2>2. CASE i = Len(after)
    BY <2>2, <1>6, <1>9
  <2>3. CASE i > Len(before) /\ i < Len(after)
    <3>1. u = 1 /\ i = Len(before) + 1
      <4>1. \A b, k \in Int : \A v \in {0, 1} : b < k /\ k < b + v + 1 => v = 1 /\ k = b + 1
        OBVIOUS
      <4>2. Len(before) < i /\ i < Len(before) + u + 1
        BY <2>3, <1>8
      <4>3. Len(before) \in Int /\ i \in Int /\ u \in {0, 1}
        BY <1>1, <1>2, <1>8
      <4> QED BY ONLY <4>1, <4>2, <4>3
    <3>2. node'.executed[i].body = [op |-> "upload", wasm |-> Current.wasm]
      BY <3>1, <1>1, <1>2, <1>3, <1>4
    <3>3. after[i] = bodies[1]
      BY <3>1, <1>2, <1>7
    <3> QED BY <3>1, <3>2, <3>3, <1>1, <1>7
  <2> QED BY <2>1, <2>2, <2>3, <1>2, <1>8
<1>11. ASSUME NEW t \in 1..s PROVE \E i \in 1..Len(after) : after[i].step = t /\ node'.executed[i] = run'.submitted[t]
  <2>1. CASE t = s
    <3>1. run'.submitted[t] = e
      BY <2>1, <1>1, <1>3, <1>5
    <3>2. Len(after) \in 1..Len(after)
      BY <1>1, <1>2, <1>8
    <3>3. after[Len(after)].step = t /\ node'.executed[Len(after)] = run'.submitted[t]
      BY <2>1, <3>1, <1>9
    <3> QED BY <3>2, <3>3
  <2>2. CASE t # s
    <3>1. t \in 1..(s - 1) /\ run'.submitted[t] = run.submitted[t]
      BY <2>2, <1>1, <1>3, <1>5
    <3>2. PICK i \in 1..Len(before) : before[i].step = t /\ node.executed[i] = run.submitted[t]
      BY <3>1, <1>3
    <3>3. i \in 1..Len(after) /\ after[i] = before[i] /\ node'.executed[i] = node.executed[i]
      BY <3>2, <1>1, <1>2, <1>3, <1>4, <1>8
    <3> QED BY <3>1, <3>2, <3>3
  <2> QED BY <2>1, <2>2
<1>12. /\ run'.step - 1 = s /\ Uploads(run)' = 0 /\ run'.uploaded = FALSE
       /\ Len(run'.submitted) = s
  BY <1>1, <1>3, <1>5 DEF s, Uploads
<1>13. Listed(config, run'.step - 1) = after /\ Uploads(run') = 0
  BY <1>12 DEF after, Uploads
<1> QED BY <1>8, <1>10, <1>11, <1>12, <1>13 DEF Performed

LEMMA RunType ==
    ASSUME SequenceOK
    PROVE  /\ run.step \in 0..(Len(config.transactions) + 1) /\ run.uploaded \in BOOLEAN
           /\ run.sequence \in Nat /\ run.deployed \subseteq Contracts(config)
           /\ run.submitted \in Seq(Envelopes(config))
           /\ run = [step |-> run.step, uploaded |-> run.uploaded, sequence |-> run.sequence,
                     deployed |-> run.deployed, submitted |-> run.submitted]
BY DEF SequenceOK, SequenceType

\* A run that changes in one component.
LEMMA RunUpdates ==
    ASSUME SequenceOK, NEW x
    PROVE  /\ [run EXCEPT !.step = x] = [step |-> x, uploaded |-> run.uploaded, sequence |-> run.sequence,
                                        deployed |-> run.deployed, submitted |-> run.submitted]
           /\ [run EXCEPT !.uploaded = x] = [step |-> run.step, uploaded |-> x, sequence |-> run.sequence,
                                            deployed |-> run.deployed, submitted |-> run.submitted]
BY DEF SequenceOK, SequenceType

\* The account is created first.
LEMMA SeedStep ==
    ASSUME SequenceOK, Seed
    PROVE  SequenceOK'
<1> DEFINE after == [run EXCEPT !.step = 1]
<1>1. run.step = 0 /\ run = Started /\ node.executed = <<>> /\ IsConfig(config)
  BY DEF SequenceOK, Seed
<1>2. CreateAccount \in {item.body : item \in Items(config)}
  <2>1. [step |-> 0, body |-> CreateAccount] \in Items(config)
    BY DEF Items
  <2> QED BY <2>1
<1>3. after = [step |-> 1, uploaded |-> FALSE, sequence |-> 0, deployed |-> {}, submitted |-> <<>>]
  <2>1. /\ run.uploaded = FALSE /\ run.sequence = 0 /\ run.deployed = {} /\ run.submitted = <<>>
    BY <1>1 DEF Started
  <2> QED BY <2>1, RunUpdates
<1>4. Submit(CreateAccount, after)
  BY DEF Seed, CreateAccount
<1>5. 1 \in 0..(Len(config.transactions) + 1)
  BY <1>1, ConfigType
<1>6. after \in [step : 0..(Len(config.transactions) + 1), uploaded : BOOLEAN, sequence : Nat,
                 deployed : SUBSET Contracts(config), submitted : Seq(Envelopes(config))]
  <2>1. <<>> \in Seq(Envelopes(config)) /\ {} \in SUBSET Contracts(config)
    OBVIOUS
  <2> HIDE DEF after
  <2> QED BY <1>3, <1>5, <2>1
<1>7. after.sequence = run.sequence /\ after.step = 1 /\ after.uploaded = FALSE /\ after.submitted = <<>>
  BY <1>1, <1>3 DEF Started
<1> HIDE DEF after
<1>8. /\ SequenceType(config, run', node') /\ Fresh(run', node') /\ config' = config
      /\ Envelope(CreateAccount) \in Envelopes(config)
      /\ node'.executed = Append(node.executed, Envelope(CreateAccount))
      /\ run'.step = 1 /\ run'.uploaded = FALSE /\ run'.submitted = <<>>
  BY <1>2, <1>4, <1>6, <1>7, SubmitExecutes
<1>9. Len(node'.executed) = 1 /\ node'.executed[1].body = CreateAccount
  <2>1. Len(node.executed) = 0
    BY <1>1
  <2>2. Len(node'.executed) = 0 + 1 /\ node'.executed[0 + 1] = Envelope(CreateAccount)
    BY <2>1, <1>8, ExecutedNext
  <2> QED BY <2>2 DEF Envelope
<1>10. Listed(config, 0) = <<[step |-> 0, body |-> CreateAccount]>>
  BY <1>1, ListedSteps
<1>11. Listed(config, run'.step - 1) = <<[step |-> 0, body |-> CreateAccount]>> /\ Uploads(run') = 0
  BY <1>8, <1>10 DEF Uploads
<1>12. Performed(config, run', node'.executed)
  BY <1>8, <1>9, <1>11 DEF Performed
<1>13. Registered(config, run')
  BY <1>8 DEF Registered
<1> QED BY <1>1, <1>8, <1>12, <1>13 DEF SequenceOK

LEMMA UploadStep ==
    ASSUME SequenceOK, Upload
    PROVE  SequenceOK'
<1> DEFINE after == [run EXCEPT !.uploaded = TRUE]
           body == [op |-> "upload", wasm |-> Current.wasm]
           s == run.step
<1>1. /\ IsConfig(config) /\ s \in 1..Len(config.transactions) /\ Current.kind = "deploy" /\ run.uploaded = FALSE
      /\ Len(config.transactions) \in Nat /\ Submit(body, after)
  BY RunType, ConfigType DEF Upload, Deploying, SequenceDone, SequenceOK
<1>2. Bodies(Current, s)[1].body = body /\ Len(Bodies(Current, s)) = 2
  BY <1>1 DEF Bodies
<1>3. body \in {item.body : item \in Items(config)}
  <2>1. ListsNext(config, s)
    BY <1>1, ListedNext
  <2>2. Bodies(Current, s)[1] \in Items(config)
    BY <2>1, <1>2, ElementOfSeq DEF ListsNext, Current
  <2> QED BY <2>2, <1>2
<1>4. after = [step |-> s, uploaded |-> TRUE, sequence |-> run.sequence, deployed |-> run.deployed,
               submitted |-> run.submitted]
  BY RunUpdates
<1>5. after \in [step : 0..(Len(config.transactions) + 1), uploaded : BOOLEAN, sequence : Nat,
                 deployed : SUBSET Contracts(config), submitted : Seq(Envelopes(config))]
  BY <1>4, RunType
<1>6. /\ after.sequence = run.sequence /\ after.step = s /\ after.uploaded = TRUE
      /\ after.submitted = run.submitted /\ after.deployed = run.deployed
  BY <1>4
<1>7. /\ Len(node.executed) = Len(Listed(config, s - 1)) /\ Len(run.submitted) = s - 1
      /\ \A i \in 1..Len(Listed(config, s - 1)) : node.executed[i].body = Listed(config, s - 1)[i].body
      /\ \A t \in 1..(s - 1) : \E i \in 1..Len(Listed(config, s - 1)) :
            Listed(config, s - 1)[i].step = t /\ node.executed[i] = run.submitted[t]
      /\ Registered(config, run) /\ Len(Listed(config, s - 1)) \in Nat
  <2>1. Performed(config, run, node.executed) /\ Registered(config, run) /\ Uploads(run) = 0
    BY <1>1 DEF SequenceOK, Uploads
  <2>2. ListsNext(config, s)
    BY <1>1, ListedNext
  <2> QED BY <1>1, <2>1, <2>2 DEF Performed, ListsNext
<1> HIDE DEF after
<1>8. /\ SequenceType(config, run', node') /\ Fresh(run', node') /\ config' = config
      /\ Envelope(body) \in Envelopes(config)
      /\ node'.executed = Append(node.executed, Envelope(body))
      /\ run'.step = s /\ run'.uploaded = TRUE
      /\ run'.submitted = run.submitted /\ run'.deployed = run.deployed
  BY <1>1, <1>3, <1>5, <1>6, SubmitExecutes
<1>9. /\ Len(node'.executed) = Len(node.executed) + 1
      /\ \A i \in 1..Len(node.executed) : node'.executed[i] = node.executed[i]
      /\ node'.executed[Len(node.executed) + 1].body = body
  BY <1>8, ExecutedNext DEF Envelope
<1>10. Performed(config, run', node'.executed)
  <2> DEFINE done == Listed(config, s - 1)
  <2>1. Listed(config, run'.step - 1) = done /\ Uploads(run') = 1
    BY <1>8 DEF Uploads
  <2>2. Len(node'.executed) = Len(done) + 1 /\ node'.executed[Len(done) + 1].body = body
    BY <1>7, <1>9
  <2>3. \A i \in 1..Len(done) : node'.executed[i] = node.executed[i]
    BY <1>7, <1>9
  <2>4. run'.step <= Len(config.transactions) /\ config.transactions[run'.step] = Current
    BY <1>1, <1>8 DEF Current
  <2> HIDE DEF done
  <2> QED BY <1>1, <1>7, <1>8, <2>1, <2>2, <2>3, <2>4 DEF Performed, done
<1>11. Registered(config, run')
  BY <1>7, <1>8 DEF Registered
<1> QED BY <1>1, <1>8, <1>10, <1>11 DEF SequenceOK

\* What a step's last transaction makes of the run.
Finished(body, deployed) ==
    [step |-> run.step + 1, uploaded |-> FALSE, sequence |-> run.sequence, deployed |-> deployed,
     submitted |-> Append(run.submitted, Envelope(body))]

LEMMA FinishStep ==
    ASSUME SequenceOK, run.step \in 1..Len(config.transactions),
           NEW body, NEW deployed, Submit(body, Finished(body, deployed)),
           deployed \subseteq Contracts(config), run.deployed \subseteq deployed,
           Current.kind = "deploy" => \E d \in deployed : d.id = Current.id,
           Len(Bodies(Current, run.step)) = Uploads(run) + 1,
           Bodies(Current, run.step)[Uploads(run) + 1] = [step |-> run.step, body |-> body],
           run.uploaded => Bodies(Current, run.step)[1].body = [op |-> "upload", wasm |-> Current.wasm]
    PROVE  SequenceOK'
<1> DEFINE s == run.step
           after == Finished(body, deployed)
<1>1. IsConfig(config) /\ Len(config.transactions) \in Nat /\ Uploads(run) \in {0, 1}
  BY ConfigType DEF SequenceOK, Uploads
<1>2. body \in {item.body : item \in Items(config)}
  <2>1. ListsNext(config, s)
    BY <1>1, ListedNext
  <2>2. Bodies(Current, s)[Uploads(run) + 1] \in Items(config)
    BY <2>1, <1>1, ElementOfSeq DEF ListsNext, Current
  <2> QED BY <2>2
<1>3. Envelope(body) \in Envelopes(config)
  BY <1>2, RunType DEF Envelope, Envelopes
<1>4. Append(run.submitted, Envelope(body)) \in Seq(Envelopes(config))
  BY <1>3, RunType, AppendProperties
<1>5. after \in [step : 0..(Len(config.transactions) + 1), uploaded : BOOLEAN, sequence : Nat,
                 deployed : SUBSET Contracts(config), submitted : Seq(Envelopes(config))]
  BY <1>1, <1>4, RunType DEF Finished
<1>6. /\ after.sequence = run.sequence /\ after.step = s + 1 /\ after.uploaded = FALSE
      /\ after.submitted = Append(run.submitted, Envelope(body)) /\ after.deployed = deployed
  BY DEF Finished
<1> HIDE DEF after
<1>7. /\ SequenceType(config, run', node') /\ Fresh(run', node') /\ config' = config
      /\ node'.executed = Append(node.executed, Envelope(body))
      /\ run'.step = s + 1 /\ run'.uploaded = FALSE
      /\ run'.submitted = Append(run.submitted, Envelope(body)) /\ run'.deployed = deployed
  BY <1>2, <1>5, <1>6, SubmitExecutes DEF after
<1>8. Performed(config, run', node'.executed)
  BY <1>3, <1>7, FinishPerforms
<1>9. Registered(config, run')
  <2> SUFFICES ASSUME NEW j \in 1..s, config.transactions[j].kind = "deploy"
               PROVE  \E d \in deployed : d.id = config.transactions[j].id
    BY <1>7 DEF Registered
  <2>1. CASE j = s
    BY <2>1 DEF Current
  <2>2. CASE j # s
    <3>1. j \in 1..(s - 1) /\ s > 0
      BY <2>2
    <3>2. \E d \in run.deployed : d.id = config.transactions[j].id
      BY <3>1 DEF SequenceOK, Registered
    <3> QED BY <3>2
  <2> QED BY <2>1, <2>2
<1> QED BY <1>1, <1>7, <1>8, <1>9 DEF SequenceOK

LEMMA RunOfParts ==
    ASSUME NEW A, NEW B, NEW C, NEW D, NEW E,
           NEW r \in [step : A, uploaded : B, sequence : C, deployed : D, submitted : E],
           NEW step, NEW uploaded, NEW deployed, NEW submitted
    PROVE  [r EXCEPT !.step = step, !.uploaded = uploaded, !.deployed = deployed, !.submitted = submitted]
                = [step |-> step, uploaded |-> uploaded, sequence |-> r.sequence, deployed |-> deployed,
                   submitted |-> submitted]
<1> DEFINE s == [r EXCEPT !.step = step]
           t == [s EXCEPT !.uploaded = uploaded]
<1>1. s = [step |-> step, uploaded |-> r.uploaded, sequence |-> r.sequence, deployed |-> r.deployed,
           submitted |-> r.submitted]
  OBVIOUS
<1> HIDE DEF s
<1>2. t = [step |-> step, uploaded |-> uploaded, sequence |-> r.sequence, deployed |-> r.deployed,
           submitted |-> r.submitted]
  BY <1>1
<1> DEFINE u == [t EXCEPT !.deployed = deployed]
<1> HIDE DEF t
<1>3. u = [step |-> step, uploaded |-> uploaded, sequence |-> r.sequence, deployed |-> deployed,
           submitted |-> r.submitted]
  BY <1>2
<1> HIDE DEF u
<1>4. [u EXCEPT !.submitted = submitted]
        = [step |-> step, uploaded |-> uploaded, sequence |-> r.sequence, deployed |-> deployed,
           submitted |-> submitted]
  BY <1>3
<1> QED BY <1>4 DEF u, t, s

LEMMA FinishIs ==
    ASSUME SequenceOK, NEW body, NEW deployed
    PROVE  Finish(body, deployed) = Finished(body, deployed)
<1> DEFINE submitted == Append(run.submitted, Envelope(body))
<1>1. Finish(body, deployed)
        = [run EXCEPT !.step = run.step + 1, !.uploaded = FALSE, !.deployed = deployed, !.submitted = submitted]
  BY DEF Finish
<1>2. Finished(body, deployed) = [step |-> run.step + 1, uploaded |-> FALSE, sequence |-> run.sequence,
                                  deployed |-> deployed, submitted |-> submitted]
  BY DEF Finished
<1>3. run \in [step : 0..(Len(config.transactions) + 1), uploaded : BOOLEAN, sequence : Nat,
               deployed : SUBSET Contracts(config), submitted : Seq(Envelopes(config))]
  BY DEF SequenceOK, SequenceType
<1> HIDE DEF submitted
<1> QED BY <1>1, <1>2, <1>3, RunOfParts

LEMMA CreateStep ==
    ASSUME SequenceOK, Create
    PROVE  SequenceOK'
<1> DEFINE body == [op |-> "create", wasm |-> Current.wasm, salt |-> Current.id]
           handle == [id |-> Current.id, contract |-> <<"C", Current.id>>, wasm |-> Current.wasm]
           deployed == run.deployed \union {handle}
           s == run.step
<1>1. /\ IsConfig(config) /\ s \in 1..Len(config.transactions) /\ Current.kind = "deploy" /\ run.uploaded
      /\ Uploads(run) = 1
  BY RunType, ConfigType DEF Create, Deploying, SequenceDone, SequenceOK, Uploads
<1>2. Submit(body, Finished(body, deployed))
  BY FinishIs DEF Create
<1>3. handle \in Contracts(config)
  <2>1. Current \in ToSet(config.transactions)
    BY <1>1, ConfigType DEF Current, ToSet
  <2> QED BY <2>1 DEF Contracts
<1>4. deployed \subseteq Contracts(config) /\ run.deployed \subseteq deployed /\ \E d \in deployed : d.id = Current.id
  BY <1>3, RunType
<1>5. /\ Len(Bodies(Current, s)) = 2
      /\ Bodies(Current, s)[1].body = [op |-> "upload", wasm |-> Current.wasm]
      /\ Bodies(Current, s)[2] = [step |-> s, body |-> body]
  BY <1>1 DEF Bodies
<1> HIDE DEF body, handle, deployed
<1> QED BY <1>1, <1>2, <1>4, <1>5, FinishStep

\* The addresses of a call are those of the contracts it names, which are deployed.
LEMMA InvokeStep ==
    ASSUME SequenceOK, Invoke
    PROVE  SequenceOK'
<1> DEFINE target == CHOOSE d \in run.deployed : d.id = Current.contract
           body == [op |-> "invoke", contract |-> target.contract, function |-> Current.function,
                    args |-> Addresses(Current.args)]
           s == run.step
           n == Len(config.transactions)
<1>1. /\ IsConfig(config) /\ s \in 1..n /\ n \in Nat /\ Current.kind = "invoke" /\ Current.args \subseteq Handles
      /\ DOMAIN config.transactions = 1..n
  BY RunType, ConfigType DEF Invoke, Invoking, UnknownHandle, SequenceDone, SequenceOK
<1>2. Submit(body, Finished(body, run.deployed))
  BY FinishIs DEF Invoke
<1>3. ~run.uploaded /\ Uploads(run) = 0
  <2>1. run.uploaded => Current.kind = "deploy"
    BY <1>1 DEF SequenceOK, Performed, Current
  <2> QED BY <1>1, <2>1 DEF Uploads
<1>4. target.contract = <<"C", Current.contract>>
  <2>1. PICK j \in 1..(s - 1) : config.transactions[j].kind = "deploy" /\ config.transactions[j].id = Current.contract
    BY <1>1 DEF IsConfig, Normal, HandlesValid, Current
  <2>2. \E d \in run.deployed : d.id = Current.contract
    BY <1>1, <2>1 DEF SequenceOK, Registered
  <2>3. target \in run.deployed /\ target.id = Current.contract
    BY <2>2
  <2>4. target \in Contracts(config)
    BY <2>3, RunType
  <2> HIDE DEF target
  <2> QED BY <2>3, <2>4 DEF Contracts
<1>5. Addresses(Current.args) = {<<"C", id>> : id \in Current.args}
  <2>1. \A d \in run.deployed : d.contract = <<"C", d.id>>
    BY RunType DEF Contracts
  <2>2. \A id \in Current.args : \E d \in run.deployed : d.id = id
    BY <1>1 DEF Handles
  <2> DEFINE deployed == run.deployed
             args == Current.args
  <2> HIDE DEF deployed, args
  <2>3. {d.contract : d \in {d \in deployed : d.id \in args}} = {<<"C", id>> : id \in args}
    <3>1. ASSUME NEW x \in {d.contract : d \in {d \in deployed : d.id \in args}}
          PROVE  x \in {<<"C", id>> : id \in args}
      <4>1. PICK d \in deployed : d.id \in args /\ x = d.contract
        OBVIOUS
      <4>2. x = <<"C", d.id>>
        BY <2>1, <4>1 DEF deployed
      <4> QED BY <4>1, <4>2
    <3>2. ASSUME NEW x \in {<<"C", id>> : id \in args}
          PROVE  x \in {d.contract : d \in {d \in deployed : d.id \in args}}
      <4>1. PICK id \in args : x = <<"C", id>>
        OBVIOUS
      <4>2. PICK d \in deployed : d.id = id
        BY <2>2 DEF deployed, args
      <4>3. d.contract = x
        BY <2>1, <4>1, <4>2 DEF deployed
      <4> QED BY <4>2, <4>3
    <3> QED BY <3>1, <3>2
  <2> QED BY <2>3 DEF Addresses, deployed, args
<1>6. Len(Bodies(Current, s)) = 1 /\ Bodies(Current, s)[1] = [step |-> s, body |-> body]
  BY <1>1, <1>4, <1>5 DEF Bodies
<1> HIDE DEF body, target
<1>7. run.deployed \subseteq Contracts(config) /\ Current.kind # "deploy"
  BY <1>1, RunType
<1> QED BY <1>1, <1>2, <1>3, <1>6, <1>7, FinishStep

LEMMA SequenceStepKeeps ==
    ASSUME SequenceOK, SequenceStep
    PROVE  SequenceOK'
BY SeedStep, UploadStep, CreateStep, InvokeStep DEF SequenceStep

\* The selector of a valid configuration resolves to a step it may mean.
LEMMA SelectorMeans ==
    ASSUME IsConfig(config)
    PROVE  LET step == ResolveTrace(config.trace, config.transactions)
           IN  step \in Meant /\ step \in 1..Len(config.transactions)
<1> DEFINE steps == config.transactions
           n == Len(steps)
           selector == config.trace
           step == ResolveTrace(selector, steps)
           named == {i \in DOMAIN steps : steps[i].id = selector.id}
<1>1. /\ n \in Nat \ {0} /\ DOMAIN steps = 1..n
      /\ selector.by \in {"none", "index", "string"} /\ selector.n \in Int /\ step # 0
  BY ConfigType, ConfigsAssumption DEF IsConfig, Normal
<1>2. CASE selector.by = "none"
  <2>1. step = n
    BY <1>2 DEF ResolveTrace
  <2>2. Meant = {n}
    BY <1>2 DEF Meant
  <2> QED BY <1>1, <2>1, <2>2
<1>3. CASE selector.by = "index"
  <2>1. step = IF selector.n >= 0 /\ selector.n < n THEN selector.n + 1 ELSE 0
    BY <1>3 DEF ResolveTrace
  <2>2. Meant = {selector.n + 1}
    BY <1>3 DEF Meant
  <2> QED BY <1>1, <2>1, <2>2
<1>4. CASE selector.by = "string"
  <2>1. CASE selector.id = "last"
    <3>1. step = n
      BY <1>4, <2>1 DEF ResolveTrace
    <3>2. Meant = {n}
      BY <1>4, <2>1 DEF Meant
    <3> QED BY <1>1, <3>1, <3>2
  <2>2. CASE selector.id # "last"
    <3>1. step = IF named = {} THEN 0 ELSE Min(named)
      BY <1>4, <2>2 DEF ResolveTrace
    <3>2. Meant = named
      BY <1>4, <2>2 DEF Meant
    <3>3. named # {} /\ named \subseteq Nat
      BY <1>1, <3>1
    <3>4. step = Min(named)
      BY <3>1, <3>3
    <3>5. Min(named) \in named
      <4> HIDE DEF named
      <4> QED BY <3>3, MinIsLeast
    <3> QED BY <1>1, <3>2, <3>4, <3>5
  <2> QED BY <2>1, <2>2
<1> QED BY <1>1, <1>2, <1>3, <1>4

LEMMA DoneIsExact ==
    ASSUME SequenceOK, SequenceDone
    PROVE  SequenceExact
<1> DEFINE n == Len(config.transactions)
           step == ResolveTrace(config.trace, config.transactions)
<1>1. IsConfig(config) /\ n \in Nat \ {0} /\ run.step = n + 1
  BY RunType, ConfigType DEF SequenceOK, SequenceDone
<1>2. Described = Listed(config, n) /\ Described \in Seq(Items(config))
  BY <1>1, ListedSteps
<1>3. ~run.uploaded /\ Uploads(run) = 0
  BY <1>1 DEF SequenceOK, Performed, Uploads
<1>4. /\ Len(node.executed) = Len(Described)
      /\ \A i \in 1..Len(Described) : node.executed[i].body = Described[i].body
      /\ \A t \in 1..n : \E i \in 1..Len(Described) : Described[i].step = t /\ node.executed[i] = run.submitted[t]
  <2>1. Performed(config, run, node.executed) /\ run.step - 1 = n /\ Len(Described) \in Nat
    BY <1>1, <1>2, LenProperties DEF SequenceOK
  <2> QED BY <1>2, <1>3, <2>1 DEF Performed
<1>5. DOMAIN node.executed = 1..Len(Described) /\ DOMAIN Described = 1..Len(Described)
  BY <1>2, <1>4, LenProperties DEF SequenceOK, SequenceType
<1>6. step \in Meant /\ step \in 1..n
  BY <1>1, SelectorMeans
<1>7. \E i \in DOMAIN Described : Described[i].step \in Meant /\ node.executed[i] = Traced
  BY <1>4, <1>5, <1>6 DEF Traced
<1>8. [i \in DOMAIN node.executed |-> node.executed[i].body] = [i \in DOMAIN Described |-> Described[i].body]
  BY <1>4, <1>5
<1> QED BY <1>7, <1>8 DEF SequenceExact

\* The sequence of a live launch is the one above until it is done, and done before
\* there is a trace.
NodeStarted == [executed |-> <<>>, receipts |-> {}]
LiveOK ==
    /\ launch = "none" => backend = "selector" /\ run = Started /\ node = NodeStarted
    /\ launch # "none" => backend \in {"file", "live"}
    /\ backend = "live" /\ launch \notin {"none", "failed"} => SequenceOK
    /\ backend = "live" /\ Loaded => SequenceDone

LEMMA SequenceStarts ==
    ASSUME NEW c, IsConfig(c)
    PROVE  SequenceType(c, Started, NodeStarted) /\ Fresh(Started, NodeStarted)
<1>1. 0 \in 0..(Len(c.transactions) + 1)
  BY ConfigType
<1>2. <<>> \in Seq(Envelopes(c)) /\ {} \in SUBSET Contracts(c) /\ {} \in SUBSET Envelopes(c)
  OBVIOUS
<1>3. SequenceType(c, Started, NodeStarted)
  BY <1>1, <1>2 DEF SequenceType, Started, NodeStarted
<1>4. Fresh(Started, NodeStarted)
  BY DEF Fresh, Started, NodeStarted
<1> QED BY <1>3, <1>4

LEMMA LiveStep ==
    ASSUME LaunchOK, LiveOK, Next \/ UNCHANGED sessionVars
    PROVE  LiveOK'
<1>1. CASE LaunchRequest
  <2>1. launch = "none" /\ run' = Started /\ node' = NodeStarted /\ ~Loaded /\ stops' = stops
    BY <1>1 DEF LaunchRequest, LiveOK, LaunchOK, cursorVars
  <2>2. launch' # "none" /\ backend' \in {"file", "live"}
        /\ (backend' = "live" /\ launch' # "failed" => IsConfig(config'))
    BY <1>1 DEF LaunchRequest, IsConfig
  <2>3. IsConfig(config)' = IsConfig(config') /\ ~Loaded'
    BY <2>1 DEF IsConfig, Loaded
  <2>4. ASSUME backend' = "live", launch' # "failed" PROVE SequenceOK'
    <3>1. IsConfig(config')
      BY <2>2, <2>4
    <3>2. SequenceType(config', Started, NodeStarted) /\ Fresh(Started, NodeStarted)
      BY <3>1, SequenceStarts
    <3>3. Started.step = 0 /\ NodeStarted.executed = <<>>
      BY DEF Started, NodeStarted
    <3>4. SequenceType(config, run, node)' /\ Fresh(run, node)'
      BY <2>1, <3>2 DEF SequenceType, Fresh, Envelopes, Items, Contracts
    <3> QED BY <2>1, <2>3, <3>1, <3>3, <3>4 DEF SequenceOK, Started
  <2> QED BY <2>1, <2>2, <2>3, <2>4 DEF LiveOK
<1>2. CASE Transact
  <2>1. launch = "resolving" /\ backend = "live" /\ ~Loaded /\ SequenceOK /\ SequenceStep
        /\ UNCHANGED <<launch, backend, stops>>
    BY <1>2 DEF Transact, LiveOK, LaunchOK, cursorVars
  <2>2. SequenceOK' /\ ~Loaded'
    BY <2>1, SequenceStepKeeps DEF Loaded
  <2> QED BY <2>1, <2>2 DEF LiveOK
<1>3. CASE ~LaunchRequest /\ ~Transact
  <2>1. UNCHANGED <<sequenceVars, backend>>
    BY <1>3 DEF Next, Resolved, ResolveFails, ArgumentsFail, ConfigurationDone, Enter, SetBreakPoints,
       SetInstructionBreakpoints, StackTrace, Variables, Move, Disconnect, SocketCloses, sessionVars
  <2>2. SequenceOK' = SequenceOK /\ SequenceDone' = SequenceDone
    BY <2>1 DEF sequenceVars, SequenceOK, SequenceDone, IsConfig, Normal, Performed, Registered
  <2>3. /\ launch' = "none" <=> launch = "none"
        /\ launch = "failed" => launch' = "failed"
        /\ Loaded' => Loaded \/ (backend = "live" => SequenceDone)
    <3>1. CASE Resolved
      BY <3>1 DEF Resolved
    <3>2. CASE ~Resolved
      <4>1. stops' = stops
        BY <3>2, LaunchStep
      <4>2. /\ launch' = "none" <=> launch = "none"
            /\ launch = "failed" => launch' = "failed"
        BY <1>3, <3>2 DEF Next, ResolveFails, ArgumentsFail, ConfigurationDone, Enter, SetBreakPoints,
           SetInstructionBreakpoints, StackTrace, Variables, Move, Disconnect, SocketCloses, sessionVars
      <4> QED BY <4>1, <4>2 DEF Loaded
    <3> QED BY <3>1, <3>2
  <2> QED BY <2>1, <2>2, <2>3 DEF LiveOK, sequenceVars
<1> QED BY <1>1, <1>2, <1>3

\* When a live session has a trace, the node executed the transactions of the
\* configuration once each and in order, and the trace is of the execution that the
\* selector names: for every configuration, of any length.
THEOREM TracedStepAlwaysExecuted == Spec => []TracedStepExecuted
<1>1. Init => LaunchOK /\ LiveOK
  BY ToldStarts DEF Init, SequenceInit, CursorInit, Loaded, LiveOK, NodeStarted
<1>2. LaunchOK /\ LiveOK /\ [Next]_sessionVars => LaunchOK' /\ LiveOK'
  BY LaunchStep, LiveStep
<1>3. LaunchOK /\ LiveOK => TracedStepExecuted
  <2> SUFFICES ASSUME LaunchOK, LiveOK, backend = "live", Loaded PROVE SequenceExact
    BY DEF TracedStepExecuted
  <2> QED BY DoneIsExact DEF LiveOK, LaunchOK
<1> QED BY <1>1, <1>2, <1>3, PTL DEF Spec

=============================================================================
