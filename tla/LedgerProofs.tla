----------------------------- MODULE LedgerProofs -----------------------------
(***************************************************************************)
(* Proofs about the ledger a cursor shows, for every ledger, every trace    *)
(* and every nesting of contract calls.                                    *)
(***************************************************************************)
EXTENDS Ledger, ProofLemmas

(***************************************************************************)
(* An image agrees with a ledger when it has nothing that is not there, all *)
(* there is to know (everything, or the storage of some contracts), and the *)
(* times to live that records tell.                                        *)
(***************************************************************************)
Told(c, whole) == c.kind = "data" \/ (c.kind # "scalar" /\ whole)

Agree(w, h, owners, whole) ==
    /\ IsWorld(w) /\ IsWorld(h)
    /\ \A c \in DOMAIN w : c \in DOMAIN h /\ w[c].val = h[c].val
    /\ \A c \in DOMAIN h : whole \/ (c.kind = "data" /\ c.owner \in owners) => c \in DOMAIN w
    /\ \A c \in DOMAIN w : Told(c, whole) /\ h[c].ttl # PutTtl => w[c].ttl = h[c].ttl

LEMMA EntryFields ==
    ASSUME NEW w, IsWorld(w), NEW c \in DOMAIN w
    PROVE  /\ w[c] = [val |-> w[c].val, ttl |-> w[c].ttl]
           /\ w[c].val \in Values /\ w[c].ttl \in Ttls \union {PutTtl, NoTtl}
BY DEF IsWorld, Entry

LEMMA WithProperties ==
    ASSUME NEW w, IsWorld(w), NEW c \in Cells, NEW e \in Entry
    PROVE  /\ IsWorld(With(w, c, e))
           /\ DOMAIN With(w, c, e) = DOMAIN w \union {c}
           /\ With(w, c, e)[c] = e
           /\ \A d \in DOMAIN w : d # c => With(w, c, e)[d] = w[d]
BY DEF IsWorld, With

\* Both set a cell to the same value, and to the same time to live if it is told.
LEMMA AgreeWith ==
    ASSUME NEW w, NEW h, NEW owners, NEW whole, Agree(w, h, owners, whole),
           NEW c \in Cells, NEW e \in Entry, NEW f \in Entry,
           e.val = f.val,
           Told(c, whole) /\ f.ttl # PutTtl => e.ttl = f.ttl
    PROVE  Agree(With(w, c, e), With(h, c, f), owners, whole)
<1> DEFINE W == With(w, c, e)
           H == With(h, c, f)
<1>0. IsWorld(w) /\ IsWorld(h)
  BY DEF Agree
<1>1. /\ IsWorld(W) /\ DOMAIN W = DOMAIN w \union {c} /\ W[c] = e
      /\ \A d \in DOMAIN w : d # c => W[d] = w[d]
  <2>1. IsWorld(W) /\ DOMAIN W = DOMAIN w \union {c} /\ W[c] = e
    BY <1>0, WithProperties
  <2>2. \A d \in DOMAIN w : d # c => W[d] = w[d]
    BY DEF With
  <2> QED BY <2>1, <2>2
<1>2. /\ IsWorld(H) /\ DOMAIN H = DOMAIN h \union {c} /\ H[c] = f
      /\ \A d \in DOMAIN h : d # c => H[d] = h[d]
  <2>1. IsWorld(H)
    BY <1>0, WithProperties
  <2>2. DOMAIN H = DOMAIN h \union {c} /\ H[c] = f /\ \A d \in DOMAIN h : d # c => H[d] = h[d]
    BY DEF With
  <2> QED BY <2>1, <2>2
<1> HIDE DEF W, H
<1>3. \A d \in DOMAIN W : d \in DOMAIN H /\ W[d].val = H[d].val
  BY <1>1, <1>2 DEF Agree
<1>4. \A d \in DOMAIN H : whole \/ (d.kind = "data" /\ d.owner \in owners) => d \in DOMAIN W
  BY <1>1, <1>2 DEF Agree
<1>5. \A d \in DOMAIN W : Told(d, whole) /\ H[d].ttl # PutTtl => W[d].ttl = H[d].ttl
  BY <1>1, <1>2 DEF Agree
<1>6. Agree(W, H, owners, whole)
  BY <1>1, <1>2, <1>3, <1>4, <1>5 DEF Agree
<1> QED BY <1>6 DEF W, H

\* The ledger changes the time to live of a cell the image does not know.
LEMMA AgreeUnknown ==
    ASSUME NEW w, NEW h, NEW owners, NEW whole, Agree(w, h, owners, whole),
           NEW c \in DOMAIN h \ DOMAIN w, NEW f \in Entry
    PROVE  Agree(w, With(h, c, f), owners, whole)
<1>1. IsWorld(h) /\ c \in Cells
  BY DEF Agree, IsWorld
<1>2. /\ IsWorld(With(h, c, f)) /\ DOMAIN With(h, c, f) = DOMAIN h
      /\ \A d \in DOMAIN h : d # c => With(h, c, f)[d] = h[d]
  BY <1>1, WithProperties
<1> QED BY <1>2 DEF Agree

LEMMA AgreeWithout ==
    ASSUME NEW w, NEW h, NEW owners, NEW whole, Agree(w, h, owners, whole), NEW c
    PROVE  Agree(Without(w, c), Without(h, c), owners, whole)
<1>1. ASSUME NEW x, IsWorld(x)
      PROVE  /\ IsWorld(Without(x, c)) /\ DOMAIN Without(x, c) = DOMAIN x \ {c}
             /\ \A d \in DOMAIN x \ {c} : Without(x, c)[d] = x[d]
  BY <1>1 DEF IsWorld, Without
<1> DEFINE v == Without(w, c)
           g == Without(h, c)
<1>2. /\ IsWorld(v) /\ DOMAIN v = DOMAIN w \ {c} /\ \A d \in DOMAIN w \ {c} : v[d] = w[d]
      /\ IsWorld(g) /\ DOMAIN g = DOMAIN h \ {c} /\ \A d \in DOMAIN h \ {c} : g[d] = h[d]
  BY <1>1 DEF Agree
<1> HIDE DEF v, g
<1>3. Agree(v, g, owners, whole)
  BY <1>2 DEF Agree
<1> QED BY <1>3 DEF v, g

\* What a baseline tells is true, and after it there is more that is known.
LEMMA AgreeMerge ==
    ASSUME NEW w, NEW h, NEW owners, NEW whole, Agree(w, h, owners, whole),
           NEW b, DOMAIN b \subseteq DOMAIN h, \A c \in DOMAIN b : b[c] = h[c],
           NEW more, NEW all, all => whole \/ DOMAIN h \subseteq DOMAIN b,
           \A c \in DOMAIN h : c.kind = "data" /\ c.owner \in more => c.owner \in owners \/ c \in DOMAIN b
    PROVE  Agree(Merge(w, b), h, more, all)
<1> DEFINE W == Merge(w, b)
<1>1. /\ DOMAIN W = DOMAIN w \union DOMAIN b
      /\ \A d \in DOMAIN b : W[d] = h[d]
      /\ \A d \in DOMAIN w \ DOMAIN b : W[d] = w[d]
  BY DEF Merge
<1> HIDE DEF W
<1>2. IsWorld(W) /\ IsWorld(h)
  BY <1>1 DEF Agree, IsWorld
<1>3. \A d \in DOMAIN W : d \in DOMAIN h /\ W[d].val = h[d].val
  BY <1>1 DEF Agree
<1>4. \A d \in DOMAIN h : all \/ (d.kind = "data" /\ d.owner \in more) => d \in DOMAIN W
  BY <1>1 DEF Agree
<1>5. \A d \in DOMAIN W : Told(d, all) /\ h[d].ttl # PutTtl => W[d].ttl = h[d].ttl
  BY <1>1 DEF Agree, Told
<1>6. Agree(W, h, more, all)
  BY <1>2, <1>3, <1>4, <1>5 DEF Agree
<1> QED BY <1>6 DEF W

\* Fewer contracts to know about.
LEMMA AgreeFewer ==
    ASSUME NEW w, NEW h, NEW owners, NEW whole, Agree(w, h, owners, whole),
           NEW fewer, fewer \subseteq owners
    PROVE  Agree(w, h, fewer, whole)
BY DEF Agree

-----------------------------------------------------------------------------
(***************************************************************************)
(* The inductive invariant: the scan and the host are in step at the        *)
(* present and at every world they saved.                                  *)
(***************************************************************************)
IsVersion(v) == v = [world |-> v.world, calls |-> v.calls, objects |-> v.objects]
Owners(calls, k) == {calls[j] : j \in 1..k}
Open == Owners(host.calls, Len(host.calls))

InStep ==
    /\ IsVersion(host) /\ IsVersion(image)
    /\ image.calls = host.calls /\ image.objects = host.objects
    /\ host.calls \in Seq(Contracts) /\ host.objects \in Seq(Values)
    /\ Agree(image.world, host.world, Open, complete)

SavedInStep ==
    /\ \E S : saved \in Seq(S) /\ hostSaved \in Seq(S)
    /\ Len(saved) = Len(host.calls) /\ Len(hostSaved) = Len(host.calls)
    /\ \A k \in 1..Len(host.calls) : Agree(saved[k], hostSaved[k], Owners(host.calls, k - 1), complete)

Counted ==
    /\ events \in 0..MaxEvents /\ complete \in BOOLEAN
    /\ events = 0 => image.world = NoWorld /\ host.calls = <<>>

ScanInv == InStep /\ SavedInStep /\ Counted

\* What the cursor shows on the last record.
ShownOK == IsWorld(shown.world) /\ LedgerExact /\ TtlExact /\ TablesExact

LEMMA ShownAgrees ==
    ASSUME Agree(shown.world, actual.world, Owners(actual.calls, Len(actual.calls)), complete)',
           (actual.calls)' \in Seq(Contracts), TablesExact'
    PROVE  ShownOK'
<1>1. ToSet(actual.calls)' = Owners(actual.calls, Len(actual.calls))'
  BY LenProperties DEF ToSet, Owners
<1>2. LedgerExact'
  BY <1>1 DEF Agree, LedgerExact
<1>3. TtlExact'
  BY DEF Agree, Told, TtlExact
<1> QED BY <1>2, <1>3 DEF ShownOK, Agree

\* A record the scan and the host have not acted on shows what both hold.
LEMMA LogShows ==
    ASSUME InStep, Log(image, host), complete' = complete
    PROVE  ShownOK'
<1>1. shown' = image /\ actual' = host
  BY DEF Log
<1>2. Agree(shown.world, actual.world, Owners(actual.calls, Len(actual.calls)), complete)'
  BY <1>1 DEF InStep, Open
<1>3. (actual.calls)' \in Seq(Contracts) /\ TablesExact'
  BY <1>1 DEF InStep, TablesExact
<1> QED BY <1>2, <1>3, ShownAgrees

LEMMA LogCounts ==
    ASSUME Counted, NEW version, NEW truth, Log(version, truth)
    PROVE  events' \in 0..MaxEvents /\ events' # 0
BY LedgerAssumption DEF Counted, Log

LEMMA VersionWorld ==
    ASSUME NEW v, IsVersion(v), NEW w
    PROVE  [v EXCEPT !.world = w] = [world |-> w, calls |-> v.calls, objects |-> v.objects]
BY DEF IsVersion

LEMMA MutateStep ==
    ASSUME ScanInv, NEW newImage, NEW newWorld, Mutate(newImage, newWorld),
           NEW w, newImage = [world |-> w, calls |-> image.calls, objects |-> image.objects],
           Agree(w, newWorld, Open, complete)
    PROVE  ScanInv' /\ ShownOK'
<1>1. /\ image' = [world |-> w, calls |-> image.calls, objects |-> image.objects]
      /\ host' = [world |-> newWorld, calls |-> host.calls, objects |-> host.objects]
      /\ UNCHANGED <<hostSaved, saved, complete>>
      /\ Log(image, host)
  BY VersionWorld DEF Mutate, ScanInv, InStep
<1>2. InStep'
  BY <1>1 DEF ScanInv, InStep, IsVersion, Open
<1>3. SavedInStep'
  BY <1>1 DEF ScanInv, SavedInStep
<1>4. Counted'
  BY <1>1, LogCounts DEF ScanInv, Counted
<1>5. ShownOK'
  BY <1>1, LogShows DEF ScanInv
<1> QED BY <1>2, <1>3, <1>4, <1>5 DEF ScanInv

-----------------------------------------------------------------------------
(***************************************************************************)
(* One step per kind of record.                                             *)
(***************************************************************************)

\* A new entry carries the time to live the image has, or none.
LEMMA CarriedTtl ==
    ASSUME NEW w, IsWorld(w), NEW c, NEW val \in Values
    PROVE  [val |-> val, ttl |-> TtlIn(w, c)] \in Entry
BY EntryFields DEF TtlIn, Entry

LEMMA PutStep ==
    ASSUME ScanInv, NEW c \in Cells, NEW val \in Values, Put(c, val)
    PROVE  ScanInv' /\ ShownOK'
<1> DEFINE e == [val |-> val, ttl |-> TtlIn(image.world, c)]
           f == [val |-> val, ttl |-> PutTtl]
<1>1. IsVersion(image) /\ Agree(image.world, host.world, Open, complete) /\ IsWorld(image.world)
  BY DEF ScanInv, InStep, Agree
<1>2. e \in Entry /\ f \in Entry
  BY <1>1, CarriedTtl DEF Entry
<1>3. Agree(With(image.world, c, e), With(host.world, c, f), Open, complete)
  <2>1. e.val = f.val /\ f.ttl = PutTtl
    OBVIOUS
  <2> HIDE DEF e, f
  <2> QED BY <1>1, <1>2, <2>1, AgreeWith
<1>4. ApplyPut(image, c, val) = [world |-> With(image.world, c, e), calls |-> image.calls, objects |-> image.objects]
  BY <1>1, VersionWorld DEF ApplyPut
<1>5. Mutate(ApplyPut(image, c, val), With(host.world, c, f))
  BY DEF Put
<1> QED BY <1>3, <1>4, <1>5, MutateStep

LEMMA UpgradeStep ==
    ASSUME ScanInv, NEW c \in Cells, NEW val \in Values, Upgrade(c, val)
    PROVE  ScanInv' /\ ShownOK'
<1> DEFINE e == [val |-> val, ttl |-> TtlIn(image.world, c)]
           f == [val |-> val, ttl |-> host.world[c].ttl]
<1>1. /\ IsVersion(image) /\ Agree(image.world, host.world, Open, complete)
      /\ IsWorld(image.world) /\ IsWorld(host.world)
      /\ c \in DOMAIN host.world /\ c.kind = "instance"
  BY DEF ScanInv, InStep, Agree, Upgrade
<1>2. e \in Entry /\ f \in Entry
  BY <1>1, CarriedTtl, EntryFields DEF Entry
<1>3. Told(c, complete) /\ f.ttl # PutTtl => e.ttl = f.ttl
  BY <1>1 DEF Told, Agree, TtlIn
<1>4. Agree(With(image.world, c, e), With(host.world, c, f), Open, complete)
  <2>1. e.val = f.val
    OBVIOUS
  <2> HIDE DEF e, f
  <2> QED BY <1>1, <1>2, <1>3, <2>1, AgreeWith
<1>5. ApplyPut(image, c, val) = [world |-> With(image.world, c, e), calls |-> image.calls, objects |-> image.objects]
  BY <1>1, VersionWorld DEF ApplyPut
<1>6. Agree(With(image.world, c, e), [host.world EXCEPT ![c].val = val], Open, complete)
  <2>1. [host.world[c] EXCEPT !.val = val] = f
    BY <1>1, EntryFields
  <2> DEFINE h == [host.world EXCEPT ![c].val = val]
             g == With(host.world, c, f)
  <2>2. DOMAIN h = DOMAIN g /\ \A d \in DOMAIN h : h[d] = g[d]
    BY <1>1, <2>1 DEF With
  <2> HIDE DEF h, g, e, f
  <2>3. Agree(With(image.world, c, e), g, Open, complete)
    BY <1>4 DEF g
  <2>4. Agree(With(image.world, c, e), h, Open, complete)
    BY <2>2, <2>3 DEF Agree, IsWorld
  <2> QED BY <2>4 DEF h
<1>7. Mutate(ApplyPut(image, c, val), [host.world EXCEPT ![c].val = val])
  BY DEF Upgrade
<1> QED BY <1>5, <1>6, <1>7, MutateStep

LEMMA SetStep ==
    ASSUME ScanInv, NEW c \in Cells, NEW val \in Values, NEW ttl \in Ttls \union {NoTtl},
           Mutate(ApplySet(image, c, val, ttl), With(host.world, c, [val |-> val, ttl |-> ttl]))
    PROVE  ScanInv' /\ ShownOK'
<1> DEFINE e == [val |-> val, ttl |-> ttl]
<1>1. IsVersion(image) /\ Agree(image.world, host.world, Open, complete)
  BY DEF ScanInv, InStep
<1>2. e \in Entry
  BY DEF Entry
<1>3. Agree(With(image.world, c, e), With(host.world, c, e), Open, complete)
  <2> HIDE DEF e
  <2> QED BY <1>1, <1>2, AgreeWith
<1>4. ApplySet(image, c, val, ttl) = [world |-> With(image.world, c, e), calls |-> image.calls, objects |-> image.objects]
  BY <1>1, VersionWorld DEF ApplySet
<1> QED BY <1>3, <1>4, MutateStep

LEMMA DelStep ==
    ASSUME ScanInv, NEW c \in Cells, Del(c)
    PROVE  ScanInv' /\ ShownOK'
<1>1. IsVersion(image) /\ Agree(image.world, host.world, Open, complete)
  BY DEF ScanInv, InStep
<1>2. Agree(Without(image.world, c), Without(host.world, c), Open, complete)
  BY <1>1, AgreeWithout
<1>3. ApplyDel(image, c) = [world |-> Without(image.world, c), calls |-> image.calls, objects |-> image.objects]
  BY <1>1, VersionWorld DEF ApplyDel
<1>4. Mutate(ApplyDel(image, c), Without(host.world, c))
  BY DEF Del
<1> QED BY <1>2, <1>3, <1>4, MutateStep

LEMMA ExtendTtlStep ==
    ASSUME ScanInv, NEW c \in Cells, NEW ttl \in Ttls, ExtendTtl(c, ttl)
    PROVE  ScanInv' /\ ShownOK'
<1> DEFINE f == [val |-> host.world[c].val, ttl |-> ttl]
           h == [host.world EXCEPT ![c].ttl = ttl]
<1>1. /\ IsVersion(image) /\ Agree(image.world, host.world, Open, complete)
      /\ IsWorld(image.world) /\ IsWorld(host.world)
      /\ c \in DOMAIN host.world
      /\ Mutate(ApplyTtl(image, c, ttl), h)
  BY DEF ScanInv, InStep, Agree, ExtendTtl
<1>2. f \in Entry
  BY <1>1, EntryFields DEF Entry
<1>3. DOMAIN h = DOMAIN With(host.world, c, f) /\ \A d \in DOMAIN h : h[d] = With(host.world, c, f)[d]
  <2>1. [host.world[c] EXCEPT !.ttl = ttl] = f
    BY <1>1, EntryFields
  <2> QED BY <1>1, <2>1 DEF With
<1>4. ASSUME NEW w, Agree(w, With(host.world, c, f), Open, complete)
      PROVE  Agree(w, h, Open, complete)
  <2> HIDE DEF h, f
  <2> QED BY <1>3, <1>4 DEF Agree, IsWorld
<1>5. CASE c \notin DOMAIN image.world
  <2>1. ApplyTtl(image, c, ttl) = [world |-> image.world, calls |-> image.calls, objects |-> image.objects]
    BY <1>1, <1>5 DEF ApplyTtl, IsVersion
  <2>2. Agree(image.world, With(host.world, c, f), Open, complete)
    <3> HIDE DEF f
    <3> QED BY <1>1, <1>2, <1>5, AgreeUnknown
  <2>3. Agree(image.world, h, Open, complete)
    BY <1>4, <2>2
  <2> HIDE DEF h
  <2> QED BY <1>1, <2>1, <2>3, MutateStep
<1>6. CASE c \in DOMAIN image.world
  <2> DEFINE e == [val |-> image.world[c].val, ttl |-> ttl]
             w == [image.world EXCEPT ![c].ttl = ttl]
  <2>1. ApplyTtl(image, c, ttl) = [world |-> w, calls |-> image.calls, objects |-> image.objects]
    BY <1>1, <1>6 DEF ApplyTtl, IsVersion
  <2>2. e \in Entry /\ e.val = f.val /\ e.ttl = f.ttl
    BY <1>1, <1>6, EntryFields DEF Entry, Agree
  <2>3. Agree(With(image.world, c, e), With(host.world, c, f), Open, complete)
    <3> HIDE DEF e, f
    <3> QED BY <1>1, <1>2, <2>2, AgreeWith
  <2>4. DOMAIN w = DOMAIN With(image.world, c, e) /\ \A d \in DOMAIN w : w[d] = With(image.world, c, e)[d]
    <3>1. [image.world[c] EXCEPT !.ttl = ttl] = e
      BY <1>1, <1>6, EntryFields
    <3> QED BY <1>1, <1>6, <3>1 DEF With
  <2>5. Agree(With(image.world, c, e), h, Open, complete)
    BY <1>4, <2>3
  <2>6. Agree(w, h, Open, complete)
    <3> HIDE DEF w, h, e
    <3> QED BY <2>4, <2>5 DEF Agree, IsWorld
  <2> HIDE DEF w, h
  <2> QED BY <1>1, <2>1, <2>6, MutateStep
<1> QED BY <1>5, <1>6

LEMMA AddObjectStep ==
    ASSUME ScanInv, NEW val \in Values, AddObject(val)
    PROVE  ScanInv' /\ ShownOK'
<1>1. /\ IsVersion(image) /\ IsVersion(host) /\ image.objects = host.objects
      /\ host.objects \in Seq(Values)
      /\ UNCHANGED <<hostSaved, saved, complete>> /\ Log(image, host)
  BY DEF ScanInv, InStep, AddObject
<1>2. /\ image' = [world |-> image.world, calls |-> image.calls, objects |-> Append(image.objects, val)]
      /\ host' = [world |-> host.world, calls |-> host.calls, objects |-> Append(host.objects, val)]
  BY <1>1 DEF AddObject, ApplyObject, IsVersion
<1>3. Append(host.objects, val) \in Seq(Values)
  BY <1>1, AppendProperties
<1>4. InStep'
  BY <1>1, <1>2, <1>3 DEF ScanInv, InStep, IsVersion, Open
<1>5. SavedInStep'
  BY <1>1, <1>2 DEF ScanInv, SavedInStep
<1>6. Counted'
  BY <1>1, <1>2, LogCounts DEF ScanInv, Counted
<1>7. ShownOK'
  BY <1>1, LogShows DEF ScanInv
<1> QED BY <1>4, <1>5, <1>6, <1>7 DEF ScanInv

\* The ledger record tells everything.
LEMMA BaselineStep ==
    ASSUME ScanInv, Baseline
    PROVE  ScanInv' /\ ShownOK'
<1> DEFINE w == Merge(image.world, host.world)
<1>1. /\ IsVersion(image) /\ IsVersion(host)
      /\ Agree(image.world, host.world, Open, complete)
      /\ host.calls = <<>> /\ complete' = TRUE
      /\ UNCHANGED <<host, hostSaved, saved>>
      /\ Log(image', host)
  BY DEF ScanInv, InStep, Counted, Baseline
<1>2. image' = [world |-> w, calls |-> image.calls, objects |-> image.objects]
  BY <1>1, VersionWorld DEF Baseline, SnapshotLedger
<1>3. Agree(w, host.world, Open, TRUE)
  BY <1>1, AgreeMerge
<1> HIDE DEF w
<1>4. InStep'
  BY <1>1, <1>2, <1>3 DEF ScanInv, InStep, IsVersion, Open
<1>5. SavedInStep'
  <2>1. \A k : k \notin (1..Len(host.calls))'
    BY <1>1
  <2>2. UNCHANGED <<host, hostSaved, saved>>
    BY <1>1
  <2> QED BY <2>1, <2>2 DEF ScanInv, SavedInStep
<1>6. Counted'
  BY <1>1, LogCounts DEF ScanInv, Counted
<1>7. ShownOK'
  <2>1. shown' = image' /\ actual' = host'
    BY <1>1 DEF Log
  <2> QED BY <1>4, <2>1, ShownAgrees DEF InStep, Open, TablesExact
<1> QED BY <1>4, <1>5, <1>6, <1>7 DEF ScanInv

-----------------------------------------------------------------------------
(***************************************************************************)
(* Calls: both sides save their world, and take it back together.           *)
(***************************************************************************)
LEMMA CallStep ==
    ASSUME ScanInv, NEW contract \in Contracts, CallContract(contract)
    PROVE  ScanInv' /\ ShownOK'
<1> DEFINE b == StorageOf(host.world, contract)
           w == Merge(image.world, b)
           n == Len(host.calls)
<1>1. /\ IsVersion(image) /\ IsVersion(host)
      /\ image.calls = host.calls /\ image.objects = host.objects
      /\ host.calls \in Seq(Contracts) /\ host.objects \in Seq(Values)
      /\ Agree(image.world, host.world, Open, complete)
  BY DEF ScanInv, InStep
<1>2. /\ host' = [world |-> host.world, calls |-> Append(host.calls, contract), objects |-> host.objects]
      /\ image' = [world |-> w, calls |-> Append(image.calls, contract), objects |-> image.objects]
      /\ hostSaved' = Append(hostSaved, host.world) /\ saved' = Append(saved, w)
      /\ complete' = complete /\ Log(image', host')
  BY <1>1 DEF CallContract, SnapshotCall, IsVersion
<1>3. /\ Append(host.calls, contract) \in Seq(Contracts)
      /\ n \in Nat /\ Len(Append(host.calls, contract)) = n + 1
      /\ \A k \in 1..n : Append(host.calls, contract)[k] = host.calls[k]
      /\ Append(host.calls, contract)[n + 1] = contract
  BY <1>1, AppendProperties, LenProperties
<1>4. /\ Open' = Open \union {contract}
      /\ \A k \in 0..n : Owners(host.calls, k)' = Owners(host.calls, k)
  <2> DEFINE longer == Append(host.calls, contract)
  <2>1. host'.calls = longer
    BY <1>2
  <2>2. n \in Nat /\ Len(longer) = n + 1 /\ (\A k \in 1..n : longer[k] = host.calls[k]) /\ longer[n + 1] = contract
    BY <1>3
  <2> HIDE DEF longer
  <2>3. \A k \in 0..n : Owners(longer, k) = Owners(host.calls, k)
    <3> SUFFICES ASSUME NEW k \in 0..n PROVE Owners(longer, k) = Owners(host.calls, k)
      OBVIOUS
    <3>1. \A j \in 1..k : longer[j] = host.calls[j]
      BY <2>2
    <3> HIDE DEF n
    <3> QED BY <3>1 DEF Owners
  <2>4. Owners(longer, n + 1) = Owners(host.calls, n) \union {contract}
    <3>1. 1..(n + 1) = 1..n \union {n + 1}
      BY <2>2
    <3> HIDE DEF n
    <3> QED BY <2>2, <3>1 DEF Owners
  <2>5. Open' = Owners(longer, n + 1) /\ Open = Owners(host.calls, n)
    BY <2>1, <2>2 DEF Open
  <2>6. \A k \in 0..n : Owners(host.calls, k)' = Owners(longer, k)
    BY <2>1 DEF Owners
  <2> HIDE DEF n
  <2> QED BY <2>3, <2>4, <2>5, <2>6
<1>5. DOMAIN b \subseteq DOMAIN host.world /\ \A c \in DOMAIN b : b[c] = host.world[c]
  BY DEF StorageOf
<1>6. \A c \in DOMAIN host.world : c.kind = "data" /\ c.owner = contract => c \in DOMAIN b
  BY DEF StorageOf
<1> HIDE DEF b
<1>7. Agree(w, host.world, Open \union {contract}, complete) /\ Agree(w, host.world, Open, complete)
  BY <1>1, <1>5, <1>6, AgreeMerge
<1> HIDE DEF w
<1>8. InStep'
  BY <1>1, <1>2, <1>3, <1>4, <1>7 DEF InStep, IsVersion
<1>9. SavedInStep'
  <2>1. PICK S : saved \in Seq(S) /\ hostSaved \in Seq(S)
    BY DEF ScanInv, SavedInStep
  <2> DEFINE T == S \union {w, host.world}
  <2>2. saved \in Seq(T) /\ hostSaved \in Seq(T) /\ Len(saved) = n /\ Len(hostSaved) = n
    BY <2>1, SeqMonotonic DEF ScanInv, SavedInStep
  <2>3. /\ saved' \in Seq(T) /\ Len(saved') = n + 1 /\ saved'[n + 1] = w
        /\ \A k \in 1..n : saved'[k] = saved[k]
    BY <1>2, <2>2, AppendProperties
  <2>4. /\ hostSaved' \in Seq(T) /\ Len(hostSaved') = n + 1 /\ hostSaved'[n + 1] = host.world
        /\ \A k \in 1..n : hostSaved'[k] = hostSaved[k]
    BY <1>2, <2>2, AppendProperties
  <2>5. ASSUME NEW k \in 1..(n + 1)
        PROVE  Agree(saved'[k], hostSaved'[k], Owners(host.calls, k - 1)', complete')
    <3>1. CASE k \in 1..n
      <4>1. Owners(host.calls, k - 1)' = Owners(host.calls, k - 1)
        BY <3>1, <1>3, <1>4
      <4>2. Agree(saved[k], hostSaved[k], Owners(host.calls, k - 1), complete)
        BY <3>1 DEF ScanInv, SavedInStep
      <4> QED BY <4>1, <4>2, <3>1, <2>3, <2>4, <1>2
    <3>2. CASE k = n + 1
      <4>1. Owners(host.calls, k - 1)' = Open
        BY <3>2, <1>3, <1>4 DEF Open
      <4> QED BY <4>1, <3>2, <2>3, <2>4, <1>2, <1>7
    <3> QED BY <3>1, <3>2, <1>3
  <2>6. Len(host.calls)' = n + 1
    BY <1>2, <1>3
  <2> HIDE DEF n
  <2> QED BY <2>3, <2>4, <2>5, <2>6 DEF SavedInStep
<1>10. Counted'
  BY <1>2, LogCounts DEF ScanInv, Counted
<1>11. ShownOK'
  <2>1. shown' = image' /\ actual' = host'
    BY <1>2 DEF Log
  <2> QED BY <1>8, <2>1, ShownAgrees DEF InStep, Open, TablesExact
<1> QED BY <1>8, <1>9, <1>10, <1>11 DEF ScanInv

\* An exit record without an open call changes nothing.
LEMMA StrayEndStep ==
    ASSUME ScanInv, NEW success \in BOOLEAN, EndWasm(success), host.calls = <<>>
    PROVE  ScanInv' /\ ShownOK'
<1>1. saved = <<>>
  BY DEF ScanInv, SavedInStep
<1>2. UNCHANGED <<host, hostSaved, image, saved, complete>> /\ Log(image, host)
  BY <1>1 DEF EndWasm, ApplyEnd, PopWorlds, ScanInv, InStep
<1>3. InStep' /\ SavedInStep'
  BY <1>2 DEF ScanInv, InStep, SavedInStep, Open
<1>4. Counted'
  BY <1>2, LogCounts DEF ScanInv, Counted
<1>5. ShownOK'
  BY <1>2, LogShows DEF ScanInv
<1> QED BY <1>3, <1>4, <1>5 DEF ScanInv

LEMMA EndStep ==
    ASSUME ScanInv, NEW success \in BOOLEAN, EndWasm(success), host.calls # <<>>
    PROVE  ScanInv' /\ ShownOK'
<1> DEFINE n == Len(host.calls)
<1>1. /\ IsVersion(image) /\ IsVersion(host)
      /\ image.calls = host.calls /\ image.objects = host.objects
      /\ host.calls \in Seq(Contracts) /\ host.objects \in Seq(Values)
      /\ Agree(image.world, host.world, Open, complete)
  BY DEF ScanInv, InStep
<1>2. /\ Front(host.calls) \in Seq(Contracts) /\ n \in Nat \ {0} /\ Len(Front(host.calls)) = n - 1
      /\ \A k \in 1..(n - 1) : Front(host.calls)[k] = host.calls[k]
  BY <1>1, FrontProperties
<1>3. PICK S : saved \in Seq(S) /\ hostSaved \in Seq(S)
  BY DEF ScanInv, SavedInStep
<1>4. Len(saved) = n /\ Len(hostSaved) = n /\ saved # <<>> /\ hostSaved # <<>>
  BY <1>2, <1>3, EmptySeq DEF ScanInv, SavedInStep
<1>5. /\ Last(saved) = saved[n] /\ Front(saved) \in Seq(S) /\ Len(Front(saved)) = n - 1
      /\ \A k \in 1..(n - 1) : Front(saved)[k] = saved[k]
  BY <1>3, <1>4, FrontProperties
<1>6. /\ Last(hostSaved) = hostSaved[n] /\ Front(hostSaved) \in Seq(S) /\ Len(Front(hostSaved)) = n - 1
      /\ \A k \in 1..(n - 1) : Front(hostSaved)[k] = hostSaved[k]
  BY <1>3, <1>4, FrontProperties
<1> DEFINE w == IF success THEN image.world ELSE saved[n]
           h == IF success THEN host.world ELSE hostSaved[n]
<1>7. /\ host' = [world |-> h, calls |-> Front(host.calls), objects |-> host.objects]
      /\ image' = [world |-> w, calls |-> Front(image.calls), objects |-> image.objects]
      /\ hostSaved' = Front(hostSaved) /\ saved' = Front(saved)
      /\ complete' = complete /\ Log(image, host)
  BY <1>1, <1>4, <1>5, <1>6 DEF EndWasm, ApplyEnd, PopWorlds, IsVersion
<1>8. /\ Open' = Owners(host.calls, n - 1)
      /\ \A k \in 0..(n - 1) : Owners(host.calls, k)' = Owners(host.calls, k)
  <2>1. (host.calls)' = Front(host.calls) /\ Len((host.calls)') = n - 1
    BY <1>2, <1>7
  <2>2. ASSUME NEW k \in 0..(n - 1) PROVE Owners(host.calls, k)' = Owners(host.calls, k)
    <3>1. \A j \in 1..k : (host.calls)'[j] = host.calls[j]
      BY <1>2, <2>1
    <3> QED BY <3>1 DEF Owners
  <2>3. PICK m \in 0..(n - 1) : m = n - 1
    BY <1>2
  <2>4. Open' = Owners(host.calls, m)'
    BY <2>1, <2>3 DEF Open, Owners
  <2> QED BY <2>2, <2>3, <2>4
<1>9. Agree(w, h, Owners(host.calls, n - 1), complete)
  <2>1. CASE success
    <3>1. Owners(host.calls, n - 1) \subseteq Open
      BY <1>2 DEF Open, Owners
    <3> QED BY <2>1, <3>1, <1>1, AgreeFewer
  <2>2. CASE ~success
    <3>1. n \in 1..Len(host.calls)
      BY <1>2
    <3>2. Agree(saved[n], hostSaved[n], Owners(host.calls, n - 1), complete)
      BY <3>1 DEF ScanInv, SavedInStep
    <3> QED BY <2>2, <3>2
  <2> QED BY <2>1, <2>2
<1> HIDE DEF w, h
<1>10. InStep'
  BY <1>1, <1>2, <1>7, <1>8, <1>9 DEF InStep, IsVersion
<1>11. SavedInStep'
  <2>1. Len(host.calls)' = n - 1
    BY <1>2, <1>7
  <2>2. ASSUME NEW k \in 1..(n - 1)
        PROVE  Agree(saved'[k], hostSaved'[k], Owners(host.calls, k - 1)', complete')
    <3>1. k - 1 \in 0..(n - 1) /\ k \in 1..Len(host.calls)
      BY <1>2
    <3>2. Agree(saved[k], hostSaved[k], Owners(host.calls, k - 1), complete)
      BY <3>1 DEF ScanInv, SavedInStep
    <3>3. Owners(host.calls, k - 1)' = Owners(host.calls, k - 1)
      BY <3>1, <1>8
    <3> QED BY <3>2, <3>3, <1>5, <1>6, <1>7
  <2> HIDE DEF n
  <2> QED BY <2>1, <2>2, <1>5, <1>6, <1>7 DEF SavedInStep
<1>12. Counted'
  BY <1>7, LogCounts DEF ScanInv, Counted
<1>13. ShownOK'
  BY <1>7, LogShows DEF ScanInv
<1> QED BY <1>10, <1>11, <1>12, <1>13 DEF ScanInv

-----------------------------------------------------------------------------
LEMMA NextStep ==
    ASSUME ScanInv, Next
    PROVE  ScanInv' /\ ShownOK'
<1>1. CASE Baseline
  BY <1>1, BaselineStep
<1>2. ASSUME NEW c \in Cells, NEW val \in Values, Put(c, val) \/ Upgrade(c, val) \/ SetScalar(c, val)
      PROVE  ScanInv' /\ ShownOK'
  BY <1>2, PutStep, UpgradeStep, SetStep DEF SetScalar
<1>3. ASSUME NEW c \in Cells, NEW val \in Values, NEW ttl \in Ttls, Deploy(c, val, ttl)
      PROVE  ScanInv' /\ ShownOK'
  BY <1>3, SetStep DEF Deploy
<1>4. ASSUME NEW c \in Cells, NEW ttl \in Ttls, ExtendTtl(c, ttl)
      PROVE  ScanInv' /\ ShownOK'
  BY <1>4, ExtendTtlStep
<1>5. ASSUME NEW c \in Cells, Del(c)
      PROVE  ScanInv' /\ ShownOK'
  BY <1>5, DelStep
<1>6. ASSUME NEW val \in Values, AddObject(val)
      PROVE  ScanInv' /\ ShownOK'
  BY <1>6, AddObjectStep
<1>7. ASSUME NEW contract \in Contracts, CallContract(contract)
      PROVE  ScanInv' /\ ShownOK'
  BY <1>7, CallStep
<1>8. ASSUME NEW success \in BOOLEAN, EndWasm(success)
      PROVE  ScanInv' /\ ShownOK'
  BY <1>8, EndStep, StrayEndStep
<1> QED BY <1>1, <1>2, <1>3, <1>4, <1>5, <1>6, <1>7, <1>8 DEF Next

LEMMA EmptyWorld == IsWorld(NoWorld) /\ DOMAIN NoWorld = {}
BY DEF IsWorld, NoWorld

LEMMA InitStep ==
    ASSUME Init
    PROVE  ScanInv /\ ShownOK
<1>1. PICK w \in Worlds : host = [EmptyVersion EXCEPT !.world = w]
  BY DEF Init
<1>2. /\ host = [world |-> w, calls |-> <<>>, objects |-> <<>>]
      /\ image = [world |-> NoWorld, calls |-> <<>>, objects |-> <<>>]
      /\ IsWorld(w)
  BY <1>1, LedgerAssumption DEF Init, EmptyVersion
<1>3. /\ saved = <<>> /\ hostSaved = <<>> /\ complete = FALSE /\ events = 0
      /\ shown = image /\ actual = host
  BY DEF Init
<1>4. <<>> \in Seq(Contracts) /\ <<>> \in Seq(Values) /\ <<>> \in Seq({}) /\ Len(<<>>) = 0
  BY EmptySeq
<1>5. Agree(NoWorld, w, Open, complete)
  <2>1. Open = {}
    BY <1>2, <1>4 DEF Open, Owners
  <2> QED BY <2>1, <1>2, <1>3, EmptyWorld DEF Agree
<1>6. InStep
  BY <1>2, <1>4, <1>5 DEF InStep, IsVersion
<1>7. SavedInStep
  <2>1. \A k : k \notin 1..Len(host.calls)
    BY <1>2, <1>4
  <2> QED BY <2>1, <1>2, <1>3, <1>4 DEF SavedInStep
<1>8. Counted
  <2>1. events = 0 /\ MaxEvents \in Nat
    BY <1>3, LedgerAssumption
  <2>2. events \in 0..MaxEvents
    BY <2>1
  <2>3. complete \in BOOLEAN
    BY <1>3
  <2> QED BY <2>2, <2>3, <1>2 DEF Counted
<1>9. ShownOK
  <2>1. DOMAIN shown.world = {} /\ IsWorld(shown.world)
    BY <1>2, <1>3, EmptyWorld
  <2>2. ToSet(actual.calls) = {} /\ ~complete
    BY <1>2, <1>3 DEF ToSet
  <2>3. LedgerExact /\ TtlExact
    BY <2>1, <2>2 DEF LedgerExact, TtlExact
  <2>4. TablesExact
    BY <1>2, <1>3 DEF TablesExact
  <2> QED BY <2>1, <2>3, <2>4 DEF ShownOK
<1> QED BY <1>6, <1>7, <1>8, <1>9 DEF ScanInv

LEMMA ShownAlways == Spec => [](ScanInv /\ ShownOK)
<1>1. ScanInv /\ ShownOK /\ [Next]_vars => (ScanInv /\ ShownOK)'
  <2> SUFFICES ASSUME ScanInv /\ ShownOK, [Next]_vars PROVE (ScanInv /\ ShownOK)'
    OBVIOUS
  <2>1. CASE Next
    BY <2>1, NextStep
  <2>2. CASE UNCHANGED vars
    BY <2>2 DEF vars, ScanInv, InStep, SavedInStep, Counted, Open, ShownOK, LedgerExact, TtlExact, TablesExact
  <2> QED BY <2>1, <2>2
<1> QED BY <1>1, InitStep, PTL DEF Spec

\* Worlds are worlds, and the scan saves one for each open call.
THEOREM TypeCorrect == Spec => []TypeOK
<1>1. ScanInv /\ ShownOK => TypeOK
  <2> SUFFICES ASSUME ScanInv, ShownOK PROVE TypeOK
    OBVIOUS
  <2>1. IsWorld(host.world) /\ IsWorld(image.world) /\ IsWorld(shown.world)
    BY DEF ScanInv, InStep, Agree, ShownOK
  <2>2. \A k \in DOMAIN saved : IsWorld(saved[k])
    <3>1. PICK S : saved \in Seq(S)
      BY DEF ScanInv, SavedInStep
    <3>2. DOMAIN saved = 1..Len(host.calls)
      BY <3>1, LenProperties DEF ScanInv, SavedInStep
    <3> QED BY <3>2 DEF ScanInv, SavedInStep, Agree
  <2> QED BY <2>1, <2>2 DEF TypeOK, ScanInv, InStep, SavedInStep, Counted
<1> QED BY <1>1, ShownAlways, PTL

\* A cursor shows what the host held, after any nesting of calls that succeed and fail.
THEOREM LedgerAlwaysExact == Spec => []LedgerExact
<1>1. ShownOK => LedgerExact
  BY DEF ShownOK
<1> QED BY <1>1, ShownAlways, PTL

\* Every time to live that records tell is the host's.
THEOREM TtlAlwaysExact == Spec => []TtlExact
<1>1. ShownOK => TtlExact
  BY DEF ShownOK
<1> QED BY <1>1, ShownAlways, PTL

\* The open calls and the host objects are the host's.
THEOREM TablesAlwaysExact == Spec => []TablesExact
<1>1. ShownOK => TablesExact
  BY DEF ShownOK
<1> QED BY <1>1, ShownAlways, PTL

=============================================================================
