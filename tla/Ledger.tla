------------------------------- MODULE Ledger -------------------------------
(***************************************************************************)
(* The ledger a replay cursor shows (src/debugAdapter/LedgerImage.ts),     *)
(* rebuilt from the event records of a trace, next to the ledger of the    *)
(* host that wrote them.                                                   *)
(*                                                                         *)
(* The host is the environment.  It logs an event BEFORE it acts on it,    *)
(* saves its world at every contract call and restores it when the call    *)
(* fails; its table of host objects is never rolled back.                  *)
(***************************************************************************)
EXTENDS Integers, SequencesExt

CONSTANTS
    Contracts,
    Cells,          \* what a world maps to entries: [kind, owner] records
    Values,
    Ttls,           \* the times to live that records state
    PutTtl,         \* the one a put gives, which no record restates
    Worlds,         \* the ledgers a transaction may start from
    MaxEvents,      \* bound: event records of a trace
    MaxDepth        \* bound: open contract calls

Kinds == {"data", "instance", "code", "scalar"}

(***************************************************************************)
(* A world is a function from the cells that exist to entries [val, ttl]:  *)
(* storage entries ("data"), contract instances, uploaded codes, and the   *)
(* accounts and ledger info ("scalar", whose ttl means nothing).  NoTtl is *)
(* the image's `?? 0`.                                                     *)
(***************************************************************************)
NoTtl == 0
Entry == [val : Values, ttl : Ttls \union {PutTtl, NoTtl}]
IsWorld(w) == DOMAIN w \subseteq Cells /\ \A c \in DOMAIN w : w[c] \in Entry

ASSUME LedgerAssumption ==
    /\ \A c \in Cells : c.kind \in Kinds /\ c.owner \in Contracts
    /\ NoTtl \notin Ttls \union {PutTtl} /\ PutTtl \notin Ttls
    /\ \A w \in Worlds : IsWorld(w)
    /\ MaxEvents \in Nat /\ MaxDepth \in Nat

VARIABLES
    host,       \* the true state: [world, calls, objects]
    hostSaved,  \* the worlds of its open calls
    image,      \* Scan.current, the version in effect from the next record on
    saved,      \* Scan.savedWorlds
    events,     \* event records so far
    actual,     \* history: the host when the last record was logged
    shown,      \* the version a cursor on the last record sees
    complete    \* history: the trace began with a ledger baseline

vars == <<host, hostSaved, image, saved, events, actual, shown, complete>>

NoWorld == [c \in {} |-> 0]
EmptyVersion == [world |-> NoWorld, calls |-> <<>>, objects |-> <<>>]

With(w, c, e) == [d \in DOMAIN w \union {c} |-> IF d = c THEN e ELSE w[d]]
Without(w, c) == [d \in DOMAIN w \ {c} |-> w[d]]
TtlIn(w, c) == IF c \in DOMAIN w THEN w[c].ttl ELSE NoTtl

\* The entries of `over` win.
Merge(w, over) == [d \in DOMAIN w \union DOMAIN over |-> IF d \in DOMAIN over THEN over[d] ELSE w[d]]

StorageOf(w, contract) ==
    [c \in {d \in DOMAIN w : d.kind = "data" /\ d.owner = contract} |-> w[c]]

(***************************************************************************)
(* applySnapshot: a version at its own record.                             *)
(***************************************************************************)
SnapshotLedger(v, baseline) == [v EXCEPT !.world = Merge(@, baseline)]

\* The callee's baseline is part of the world a failure rolls back to.
SnapshotCall(v, contract, storage) ==
    [v EXCEPT !.world = Merge(@, storage), !.calls = Append(@, contract)]

(***************************************************************************)
(* applyMutation: the version from the next record on.                     *)
(***************************************************************************)
\* Variant: a put takes the entry for a new one.
ApplyFreshPut(v, c, val) == [v EXCEPT !.world = With(@, c, [val |-> val, ttl |-> NoTtl])]

\* contractData put and contractCode: the value is replaced, the time to live
\* carried.
ApplyPut(v, c, val) == [v EXCEPT !.world = With(@, c, [val |-> val, ttl |-> TtlIn(v.world, c)])]

ApplyDel(v, c) == [v EXCEPT !.world = Without(@, c)]

\* contractTtl: ignored for what the image does not know.
ApplyTtl(v, c, ttl) ==
    IF c \in DOMAIN v.world THEN [v EXCEPT !.world[c].ttl = ttl] ELSE v

\* deployContract, account and ledgerInfo.
ApplySet(v, c, val, ttl) == [v EXCEPT !.world = With(@, c, [val |-> val, ttl |-> ttl])]

ApplyObject(v, val) == [v EXCEPT !.objects = Append(@, val)]

\* Variants of the end of a call: a failure is not undone, or undone in the
\* object table too; the saved world is left on its stack.
EndKeepsWorld(v, worlds, success) ==
    IF v.calls = <<>> THEN v ELSE [v EXCEPT !.calls = Front(@)]

EndDropsObjects(v, worlds, success) ==
    IF v.calls = <<>> THEN v
    ELSE IF success THEN [v EXCEPT !.calls = Front(@)]
    ELSE [world |-> Last(worlds), calls |-> Front(v.calls), objects |-> <<>>]

PeekWorlds(worlds) == worlds

\* endWasm: an exit with no open call changes nothing.
ApplyEnd(v, worlds, success) ==
    IF v.calls = <<>> THEN v
    ELSE [v EXCEPT !.world = IF ~success /\ worlds # <<>> THEN Last(worlds) ELSE @,
                   !.calls = Front(@)]

PopWorlds(worlds) == IF worlds = <<>> THEN <<>> ELSE Front(worlds)

-----------------------------------------------------------------------------
Init ==
    /\ host \in {[EmptyVersion EXCEPT !.world = w] : w \in Worlds}
    /\ hostSaved = <<>> /\ saved = <<>>
    /\ image = EmptyVersion /\ shown = EmptyVersion
    /\ events = 0
    /\ actual = host
    /\ complete = FALSE

\* Log an event: the cursor on it sees `version`, and the ledger is still what
\* the host, which has not acted on the event yet, holds.
Log(version, truth) ==
    /\ events < MaxEvents
    /\ events' = events + 1
    /\ shown' = version
    /\ actual' = truth

Executing == Last(host.calls)
MayTouch(c) == c.kind = "data" => host.calls # <<>> /\ c.owner = Executing

\* The `ledger` record, the first of a trace if there is one.
Baseline ==
    /\ events = 0
    /\ Log(SnapshotLedger(image, host.world), host)
    /\ image' = SnapshotLedger(image, host.world)
    /\ complete' = TRUE
    /\ UNCHANGED <<host, hostSaved, saved>>

\* A mutation event: the image and the host act on it, each in its own way.
Mutate(newImage, newWorld) ==
    /\ Log(image, host)
    /\ image' = newImage
    /\ host' = [host EXCEPT !.world = newWorld]
    /\ UNCHANGED <<hostSaved, saved, complete>>

Put(c, val) ==
    /\ c.kind = "data" /\ MayTouch(c)
    /\ Mutate(ApplyPut(image, c, val), With(host.world, c, [val |-> val, ttl |-> PutTtl]))

Del(c) ==
    /\ c.kind = "data" /\ MayTouch(c) /\ c \in DOMAIN host.world
    /\ Mutate(ApplyDel(image, c), Without(host.world, c))

ExtendTtl(c, ttl) ==
    /\ c.kind # "scalar" /\ MayTouch(c) /\ c \in DOMAIN host.world
    /\ Mutate(ApplyTtl(image, c, ttl), [host.world EXCEPT ![c].ttl = ttl])

Deploy(c, val, ttl) ==
    /\ c.kind = "instance" /\ c \notin DOMAIN host.world
    /\ Mutate(ApplySet(image, c, val, ttl), With(host.world, c, [val |-> val, ttl |-> ttl]))

\* contractCode: the host keeps the instance's time to live.
Upgrade(c, val) ==
    /\ c.kind = "instance" /\ c \in DOMAIN host.world
    /\ Mutate(ApplyPut(image, c, val), [host.world EXCEPT ![c].val = val])

SetScalar(c, val) ==
    /\ c.kind = "scalar"
    /\ Mutate(ApplySet(image, c, val, NoTtl), With(host.world, c, [val |-> val, ttl |-> NoTtl]))

AddObject(val) ==
    /\ Log(image, host)
    /\ image' = ApplyObject(image, val)
    /\ host' = [host EXCEPT !.objects = Append(@, val)]
    /\ UNCHANGED <<hostSaved, saved, complete>>

CallContract(contract) ==
    LET called == SnapshotCall(image, contract, StorageOf(host.world, contract))
    IN  /\ Len(host.calls) < MaxDepth
        /\ host' = [host EXCEPT !.calls = Append(@, contract)]
        /\ hostSaved' = Append(hostSaved, host.world)
        /\ Log(called, host')
        /\ image' = called
        /\ saved' = Append(saved, called.world)
        /\ UNCHANGED complete

\* A contract call ends; an exit record may also stand alone.
EndWasm(success) ==
    /\ Log(image, host)
    /\ image' = ApplyEnd(image, saved, success)
    /\ saved' = PopWorlds(saved)
    /\ IF host.calls = <<>> THEN UNCHANGED <<host, hostSaved>>
       ELSE /\ host' = [host EXCEPT !.world = IF success THEN @ ELSE Last(hostSaved),
                                    !.calls = Front(@)]
            /\ hostSaved' = Front(hostSaved)
    /\ UNCHANGED complete

Next ==
    \/ Baseline
    \/ \E c \in Cells :
        \/ \E val \in Values : Put(c, val) \/ Upgrade(c, val) \/ SetScalar(c, val)
        \/ \E val \in Values, ttl \in Ttls : Deploy(c, val, ttl)
        \/ \E ttl \in Ttls : ExtendTtl(c, ttl)
        \/ Del(c)
    \/ \E val \in Values : AddObject(val)
    \/ \E contract \in Contracts : CallContract(contract)
    \/ \E success \in BOOLEAN : EndWasm(success)

Spec == Init /\ [][Next]_vars

-----------------------------------------------------------------------------
(***************************************************************************)
(* Properties.                                                             *)
(***************************************************************************)

\* Type correctness; the scan saves one world per open call.
TypeOK ==
    /\ IsWorld(host.world) /\ IsWorld(image.world) /\ IsWorld(shown.world)
    /\ image.calls \in Seq(Contracts) /\ image.objects \in Seq(Values)
    /\ Len(saved) = Len(image.calls)
    /\ \A k \in DOMAIN saved : IsWorld(saved[k])
    /\ events \in 0..MaxEvents /\ complete \in BOOLEAN

\* A cursor shows nothing that is not in the ledger, shows the storage of every
\* contract on the call stack in full, and shows the whole ledger when the trace
\* states it: nested failures undo what they should and nothing else
\* (docs/state-inspection.md, L1 to L5, L8 to L10, L15).
LedgerExact ==
    LET right(c) == c \in DOMAIN actual.world /\ shown.world[c].val = actual.world[c].val
        stated(c) == complete \/ (c.kind = "data" /\ c.owner \in ToSet(actual.calls))
    IN  /\ \A c \in DOMAIN shown.world : right(c)
        /\ \A c \in DOMAIN actual.world : stated(c) => c \in DOMAIN shown.world

\* Times to live are the ledger's, but for those that a put renews without a
\* record, and for instances the trace never introduced (L7, L8).
TtlExact ==
    \A c \in DOMAIN shown.world \cap DOMAIN actual.world :
        /\ c.kind = "data" \/ (c.kind # "scalar" /\ complete)
        /\ actual.world[c].ttl # PutTtl
        => shown.world[c].ttl = actual.world[c].ttl

\* The open calls are the host's, and a failed call takes none of its host
\* objects with it (L6, L11).
TablesExact == shown.calls = actual.calls /\ shown.objects = actual.objects

=============================================================================
