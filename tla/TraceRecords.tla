---------------------------- MODULE TraceRecords ----------------------------
(***************************************************************************)
(* komet/trace.ts and komet/traceEvents.ts: the lines of a trace read as    *)
(* records, and the typed event a record carries.                           *)
(*                                                                         *)
(* A JSON value is [t, v]: what shape it has and what it says.  A line is a  *)
(* JSON value, "text" when it is not JSON, "blank" when it is empty; an      *)
(* object's v is a function from its keys to JSON values.                    *)
(***************************************************************************)
EXTENDS Integers, Sequences, SequencesExt

Json(t, v) == [t |-> t, v |-> v]
Missing == Json("absent", "")
Get(obj, key) == IF key \in DOMAIN obj THEN obj[key] ELSE Missing

NoEvent == [kind |-> "none"]
Unchanged == <<>>       \* a record without a memory snapshot

----------------------------------------------------------------------------
\* What parseTraceEvent asks of the fields of each event: their names by type.
\* A list that is absent is empty; a result that is absent or null is void.
Lists == {"accounts", "contracts", "codes", "storage", "args"}
Fields(kind, obj) ==
    CASE kind = "ledger" -> {<<"sequence", "int">>, <<"timestamp", "int">>, <<"accounts", "accounts">>,
                             <<"contracts", "contracts">>, <<"codes", "codes">>}
      [] kind = "callContract" -> {<<"from", "address">>, <<"to", "address">>, <<"function", "string">>,
                                   <<"args", "scvals">>, <<"depth", "int">>, <<"storage", "entries">>}
      [] kind = "endWasm" -> {<<"success", "bool">>, <<"depth", "int">>, <<"result", "scval">>}
      [] kind = "contractData" -> {<<"durability", "durability">>, <<"contract", "address">>, <<"args", "scvals">>}
      [] kind = "contractTtl" ->
            {<<"liveUntil", "int">>} \cup
            CASE Get(obj, "target").v = "data" -> {<<"contract", "address">>, <<"durability", "durability">>, <<"key", "scval">>}
              [] Get(obj, "target").v = "instance" -> {<<"contract", "address">>}
              [] OTHER -> {<<"hash", "hex">>}
      [] kind = "contractCode" -> {<<"contract", "address">>, <<"wasmHash", "hex">>}
      [] kind = "deployContract" -> {<<"contract", "address">>, <<"wasmHash", "hex">>, <<"liveUntil", "int">>}
      [] kind = "account" -> {<<"account", "address">>, <<"balance", "int">>}
      [] kind = "ledgerInfo" -> {<<"sequence", "int">>, <<"timestamp", "int">>}
      [] OTHER -> {<<"index", "int">>, <<"value", "scval">>}

EventKinds == {"ledger", "callContract", "endWasm", "contractData", "contractTtl", "contractCode",
               "deployContract", "account", "ledgerInfo", "addObject"}

\* A storage read moves nothing, and neither does a target nobody knows.
Modelled(kind, obj) ==
    /\ kind \in EventKinds
    /\ kind = "contractData" => Get(obj, "operation").v \in {"put", "del"}
    /\ kind = "contractTtl" => Get(obj, "target").v \in {"data", "instance", "code"}

Fits(obj, key, type) ==
    \/ Get(obj, key).t = type
    \/ key \in Lists /\ Get(obj, key).t \in {"absent", "null"}
    \/ key = "result" /\ Get(obj, key).t \in {"absent", "null"}

\* A put needs a key and a value, a delete a key.
ArgsSuffice(kind, obj) ==
    kind = "contractData" =>
        /\ Get(obj, "args").t = "scvals"
        /\ Len(Get(obj, "args").v) >= IF Get(obj, "operation").v = "put" THEN 2 ELSE 1

\* parseTraceEvent under eventOf: an event that does not validate is no event.
EventOf(kind, obj) ==
    IF /\ Modelled(kind, obj)
       /\ \A field \in Fields(kind, obj) : Fits(obj, field[1], field[2])
       /\ ArgsSuffice(kind, obj)
    THEN [kind |-> kind, fields |-> [key \in {f[1] : f \in Fields(kind, obj)} |-> Get(obj, key).v]]
    ELSE NoEvent

----------------------------------------------------------------------------
\* toTraceRecord: the core fields, each of which rejects the trace when it does not
\* fit.  An absent or null position is none, absent or null slots are empty, null
\* memory is unchanged memory; only globals may not be null.
KindOf(obj) == Get(obj, "kind")
Named(obj) == KindOf(obj).t = "string" /\ KindOf(obj).v # ""
IsInstruction(obj) == KindOf(obj).v = "instr"

\* Variant: null globals are no globals.
AcceptedLoosely == [pos |-> {"absent", "null", "int"}, stack |-> {"absent", "null", "pairs"},
                    locals |-> {"absent", "null", "slots"}, globals |-> {"absent", "null", "slots"},
                    mem |-> {"absent", "null", "runs"}]

Accepted == [pos |-> {"absent", "null", "int"}, stack |-> {"absent", "null", "pairs"},
             locals |-> {"absent", "null", "slots"}, globals |-> {"absent", "slots"},
             mem |-> {"absent", "null", "runs"}]

CoreFits(obj) ==
    /\ \A key \in DOMAIN Accepted : Get(obj, key).t \in Accepted[key]
    /\ IsInstruction(obj) => "pos" \in DOMAIN obj /\ Get(obj, "instr").t = "instr"

\* A record of the time before records had a kind is told from a malformed one.
Fault(line) ==
    IF line.t # "object" THEN "malformed"
    ELSE IF ~Named(line.v) THEN IF {"instr", "pos"} \cap DOMAIN line.v # {} THEN "stale" ELSE "malformed"
    ELSE IF CoreFits(line.v) THEN "none" ELSE "malformed"

\* mem is the snapshot in a sequence of its own, so that an empty one can be told
\* from memory that did not change.
ToTraceRecord(obj) ==
    [pos |-> IF Get(obj, "pos").t = "int" THEN <<Get(obj, "pos").v>> ELSE <<>>,
     instr |-> IF IsInstruction(obj) THEN Get(obj, "instr").v ELSE KindOf(obj).v,
     mem |-> IF Get(obj, "mem").t = "runs" THEN <<Get(obj, "mem").v>> ELSE Unchanged,
     event |-> EventOf(KindOf(obj).v, obj)]

\* toTraceRecords and parseTraceJsonl: the first bad line ends the parse, and the
\* error names it by its place among all lines, blank ones included.
Parse(lines) ==
    LET parsed[i \in 0..Len(lines)] ==
            IF i = 0 THEN [records |-> <<>>, error |-> <<>>]
            ELSE LET before == parsed[i - 1]
                 IN  IF before.error # <<>> \/ lines[i].t = "blank" THEN before
                     ELSE IF Fault(lines[i]) # "none" THEN [before EXCEPT !.error = <<Fault(lines[i]), i>>]
                     ELSE [before EXCEPT !.records = Append(@, ToTraceRecord(lines[i].v))]
    IN  parsed[Len(lines)]

============================================================================
