--------------------------- MODULE TraceGateProofs ---------------------------
(***************************************************************************)
(* Proofs about what a session loads of a trace: for every contract code,   *)
(* any length of trace, calls nested to any depth and every release.        *)
(***************************************************************************)
EXTENDS TraceGate, ProofLemmas, FiniteSetTheorems

-----------------------------------------------------------------------------
(***************************************************************************)
(* The disassembly.                                                        *)
(***************************************************************************)

\* A table in the order of its keys has all its indices, in that order.
LEMMA InOrderProperties ==
    ASSUME NEW key, IsFiniteSet(DOMAIN key), \A i \in DOMAIN key : key[i] \in Int,
           \A i, j \in DOMAIN key : key[i] = key[j] => i = j
    PROVE  LET n == Cardinality(DOMAIN key)
           IN  /\ n \in Nat
               /\ InOrder(key) \in [1..n -> DOMAIN key]
               /\ \A i \in DOMAIN key : \E k \in 1..n : InOrder(key)[k] = i
               /\ \A k, l \in 1..n : k < l => key[InOrder(key)[k]] < key[InOrder(key)[l]]
<1> DEFINE I == DOMAIN key
           Below(i) == {j \in I : key[j] < key[i]}
           n == Cardinality(I)
           before == [i \in I |-> Cardinality(Below(i))]
<1>1. n \in Nat
  BY FS_CardinalityType
<1>2. ASSUME NEW i \in I PROVE IsFiniteSet(Below(i)) /\ before[i] \in 0..(n - 1)
  <2>1. Below(i) \subseteq I /\ Below(i) \subseteq I \ {i} /\ key[i] \in Int
    OBVIOUS
  <2>2. IsFiniteSet(I \ {i}) /\ Cardinality(I \ {i}) = n - 1
    BY FS_RemoveElement
  <2>3. IsFiniteSet(Below(i)) /\ Cardinality(Below(i)) <= n - 1
    <3> HIDE DEF Below
    <3> QED BY <2>1, <2>2, FS_Subset
  <2>4. Cardinality(Below(i)) \in Nat
    BY <2>3, FS_CardinalityType
  <2> HIDE DEF n, Below
  <2> QED BY <1>1, <2>3, <2>4
<1>3. before \in [I -> 0..(n - 1)]
  BY <1>2
<1>4. ASSUME NEW i \in I, NEW j \in I, key[i] < key[j] PROVE before[i] < before[j]
  <2>1. Below(i) \union {i} \subseteq Below(j) /\ i \notin Below(i) /\ key[i] \in Int /\ key[j] \in Int
    BY <1>4
  <2>2. Cardinality(Below(i) \union {i}) = Cardinality(Below(i)) + 1
    <3> HIDE DEF Below
    <3> QED BY <1>2, <2>1, FS_AddElement
  <2>3. Cardinality(Below(i) \union {i}) <= Cardinality(Below(j))
    <3> HIDE DEF Below
    <3> QED BY <1>2, <2>1, FS_Subset
  <2>4. before[i] \in Nat /\ before[j] \in Nat
    <3> HIDE DEF before, n
    <3> QED BY <1>1, <1>3
  <2> QED BY <2>2, <2>3, <2>4
<1>7. InOrder(key) = [k \in 1..n |-> CHOOSE i \in I : before[i] = k - 1]
  BY DEF InOrder
<1> HIDE DEF Below
<1> HIDE DEF before
<1>5. \A i, j \in I : before[i] = before[j] => i = j
  <2> SUFFICES ASSUME NEW i \in I, NEW j \in I, before[i] = before[j], i # j PROVE FALSE
    OBVIOUS
  <2>1. key[i] \in Int /\ key[j] \in Int /\ key[i] # key[j]
    OBVIOUS
  <2>2. before[i] < before[j] \/ before[j] < before[i]
    BY <1>4, <2>1
  <2> QED BY <1>1, <1>3, <2>2
<1>6. \A k \in 0..(n - 1) : \E i \in I : before[i] = k
  <2>1. before \in Injection(I, 0..(n - 1))
    BY <1>3, <1>5 DEF Injection, IsInjective
  <2>2. IsFiniteSet(0..(n - 1)) /\ Cardinality(0..(n - 1)) = n
    <3>1. 0 \in Int /\ n - 1 \in Int /\ n \in Nat
      BY <1>1
    <3>2. IsFiniteSet(0..(n - 1)) /\ Cardinality(0..(n - 1)) = IF 0 > n - 1 THEN 0 ELSE (n - 1) - 0 + 1
      BY <3>1, FS_Interval
    <3> QED BY <3>1, <3>2
  <2>3. before \in Surjection(I, 0..(n - 1))
    BY <2>1, <2>2, FS_Injection
  <2> QED BY <2>3 DEF Surjection
<1> DEFINE o == InOrder(key)
<1>8. ASSUME NEW k \in 1..n PROVE o[k] \in I /\ before[o[k]] = k - 1
  <2>1. k - 1 \in 0..(n - 1)
    BY <1>1
  <2>2. \E i \in I : before[i] = k - 1
    BY <1>6, <2>1
  <2> QED BY <1>7, <2>2
<1>9. o \in [1..n -> I]
  BY <1>7, <1>8
<1> HIDE DEF o, n
<1>10. ASSUME NEW i \in I PROVE \E k \in 1..n : o[k] = i
  <2>1. before[i] \in Nat /\ before[i] + 1 \in 1..n /\ before[i] + 1 - 1 = before[i]
    BY <1>1, <1>3
  <2> DEFINE k == before[i] + 1
  <2>2. k \in 1..n /\ k - 1 = before[i]
    BY <2>1
  <2> HIDE DEF k
  <2>3. o[k] \in I /\ before[o[k]] = before[i]
    BY <1>8, <2>2
  <2> QED BY <1>5, <2>2, <2>3
<1>11. ASSUME NEW k \in 1..n, NEW l \in 1..n, k < l PROVE key[o[k]] < key[o[l]]
  <2>1. o[k] \in I /\ o[l] \in I /\ before[o[k]] < before[o[l]]
    BY <1>1, <1>8, <1>11
  <2>2. key[o[k]] \in Int /\ key[o[l]] \in Int
    BY <2>1
  <2>3. before[o[k]] \in Nat /\ before[o[l]] \in Nat
    BY <1>1, <1>3, <2>1
  <2>4. key[o[l]] < key[o[k]] => before[o[l]] < before[o[k]]
    BY <1>4, <2>1
  <2>5. key[o[l]] = key[o[k]] => before[o[l]] = before[o[k]]
    BY <2>1
  <2> QED BY <2>1, <2>2, <2>3, <2>4, <2>5
<1> QED BY <1>1, <1>9, <1>10, <1>11 DEF o, n, I

\* The constructor keeps what it is given, and lists it at increasing addresses.
Keeps(dis, listed) ==
    /\ dis.refused = FALSE
    /\ dis.instructions \in Seq({listed[i] : i \in DOMAIN listed})
    /\ \A i \in DOMAIN listed : \E k \in 1..Len(dis.instructions) : dis.instructions[k] = listed[i]
    /\ \A k, l \in 1..Len(dis.instructions) :
          k < l => dis.instructions[k].address < dis.instructions[l].address

LEMMA DisassembledKeeps ==
    ASSUME NEW listed, IsFiniteSet(DOMAIN listed), \A i \in DOMAIN listed : listed[i].address \in Int,
           \A i, j \in DOMAIN listed : listed[i].address = listed[j].address => i = j,
           NEW ranges
    PROVE  Keeps(Disassembled(listed, ranges), listed)
<1> DEFINE key == [i \in DOMAIN listed |-> listed[i].address]
           n == Cardinality(DOMAIN listed)
           order == InOrder(key)
           dis == Disassembled(listed, ranges)
<1>1. /\ n \in Nat
      /\ order \in [1..n -> DOMAIN listed]
      /\ \A i \in DOMAIN listed : \E k \in 1..n : order[k] = i
      /\ \A k, l \in 1..n : k < l => key[order[k]] < key[order[l]]
  <2>1. /\ DOMAIN key = DOMAIN listed
        /\ \A i \in DOMAIN key : key[i] \in Int
        /\ \A i, j \in DOMAIN key : key[i] = key[j] => i = j
    OBVIOUS
  <2> HIDE DEF key
  <2> QED BY <2>1, InOrderProperties
<1>2. /\ dis.refused = FALSE
      /\ dis.instructions = [k \in DOMAIN order |-> listed[order[k]]]
  BY DEF Disassembled
<1> HIDE DEF key, order, n, dis
<1>3. dis.instructions = [k \in 1..n |-> listed[order[k]]]
  BY <1>1, <1>2
<1>4. dis.instructions \in [1..n -> {listed[i] : i \in DOMAIN listed}]
  BY <1>1, <1>3
<1>5. dis.instructions \in Seq({listed[i] : i \in DOMAIN listed}) /\ Len(dis.instructions) = n
  BY <1>1, <1>4, SeqDef, LenProperties
<1>6. \A i \in DOMAIN listed : \E k \in 1..n : dis.instructions[k] = listed[i]
  BY <1>1, <1>3
<1>7. ASSUME NEW k \in 1..n PROVE key[order[k]] = dis.instructions[k].address
  BY <1>1, <1>3 DEF key
<1>8. \A k, l \in 1..n : k < l => dis.instructions[k].address < dis.instructions[l].address
  BY <1>1, <1>7
<1> QED BY <1>2, <1>5, <1>6, <1>8 DEF dis, Keeps

\* How many of the instructions start at an address or before it.
IsBound(dis, addr, c) ==
    /\ c \in 0..Len(dis.instructions)
    /\ \A k \in 1..Len(dis.instructions) : (dis.instructions[k].address <= addr) <=> (k <= c)

Increasing(dis) ==
    /\ \E S : dis.instructions \in Seq(S)
    /\ \A k \in 1..Len(dis.instructions) : dis.instructions[k].address \in Int
    /\ \A k, l \in 1..Len(dis.instructions) :
          k < l => dis.instructions[k].address < dis.instructions[l].address

LEMMA BoundExists ==
    ASSUME NEW dis, Increasing(dis), NEW addr \in Int
    PROVE  \E c : IsBound(dis, addr, c)
<1> DEFINE n == Len(dis.instructions)
           a(k) == dis.instructions[k].address
           T == {k \in 1..n : a(k) <= addr} \union {0}
<1>1. n \in Nat /\ \A k \in 1..n : a(k) \in Int
  BY LenProperties DEF Increasing
<1>2. \A k, l \in 1..n : k < l => a(k) < a(l)
  BY DEF Increasing
<1> HIDE DEF n, a
<1>3. T \subseteq 0..n /\ T # {}
  BY <1>1
<1>4. PICK c \in T : \A k \in T : k <= c
  <2> HIDE DEF T
  <2> QED BY <1>1, <1>3, Largest
<1>5. ASSUME NEW k \in 1..n, k <= c PROVE a(k) <= addr
  <2>1. c \in 1..n /\ a(c) <= addr
    BY <1>1, <1>4, <1>5
  <2> QED BY <1>1, <1>2, <1>5, <2>1
<1>6. ASSUME NEW k \in 1..n, a(k) <= addr PROVE k <= c
  BY <1>4, <1>6
<1> QED BY <1>3, <1>4, <1>5, <1>6 DEF IsBound, n, a

\* The function that the binary search is an application of, and what it comes to.
States(n) == [lo : 0..n, hi : -1..(n - 1), result : -1..(n - 1)]
SearchStep(f, dis, addr, s) ==
    LET mid == (s.lo + s.hi) \div 2
    IN  IF s.lo > s.hi THEN s.result
        ELSE IF dis.instructions[mid + 1].address <= addr
             THEN f[[lo |-> mid + 1, hi |-> s.hi, result |-> mid]]
             ELSE f[[lo |-> s.lo, hi |-> mid - 1, result |-> s.result]]
Found(c, s) == IF s.lo > s.hi \/ c <= s.lo THEN s.result ELSE IF c - 1 <= s.hi THEN c - 1 ELSE s.hi

\* One probe of the search does not change what it comes to.
LEMMA FoundStep ==
    ASSUME NEW dis, NEW addr, NEW c, IsBound(dis, addr, c), NEW n, n = Len(dis.instructions), n \in Nat,
           NEW s \in States(n), NEW f,
           s.lo <= s.hi =>
             \A t \in States(n) : t.hi - t.lo < s.hi - s.lo => f[t] = Found(c, t)
    PROVE  SearchStep(f, dis, addr, s) = Found(c, s)
<1> DEFINE mid == (s.lo + s.hi) \div 2
           up == [lo |-> mid + 1, hi |-> s.hi, result |-> mid]
           down == [lo |-> s.lo, hi |-> mid - 1, result |-> s.result]
<1>1. s.lo \in 0..n /\ s.hi \in -1..(n - 1) /\ s.result \in -1..(n - 1)
  BY DEF States
<1>2. CASE s.lo > s.hi
  BY <1>2 DEF SearchStep, Found
<1>3. CASE s.lo <= s.hi
  <2>1. mid \in s.lo..s.hi /\ mid + 1 \in 1..n
    <3>1. \A i \in Nat, j \in Int : i <= j => (i + j) \div 2 \in i..j
      OBVIOUS
    <3>2. mid \in s.lo..s.hi
      BY <1>1, <1>3, <3>1
    <3> HIDE DEF mid
    <3> QED BY <1>1, <3>2
  <2> HIDE DEF mid
  <2>2. up \in States(n) /\ down \in States(n)
    BY <1>1, <2>1 DEF States
  <2>3. up.hi - up.lo < s.hi - s.lo /\ down.hi - down.lo < s.hi - s.lo
    BY <1>1, <2>1
  <2>4. f[up] = Found(c, up) /\ f[down] = Found(c, down)
    <3> HIDE DEF up, down
    <3> QED BY <1>3, <2>2, <2>3
  <2>5. (dis.instructions[mid + 1].address <= addr) <=> (mid + 1 <= c)
    BY <2>1 DEF IsBound
  <2>6. c \in 0..n
    BY DEF IsBound
  <2>7. SearchStep(f, dis, addr, s) = IF mid + 1 <= c THEN f[up] ELSE f[down]
    BY <1>1, <1>3, <2>5 DEF SearchStep, mid
  <2>8. mid + 1 <= c => Found(c, up) = Found(c, s)
    BY <1>1, <1>3, <2>1, <2>6 DEF Found
  <2>9. ~(mid + 1 <= c) => Found(c, down) = Found(c, s)
    BY <1>1, <1>3, <2>1, <2>6 DEF Found
  <2> QED BY <2>4, <2>7, <2>8, <2>9
<1> QED BY <1>1, <1>2, <1>3

Searching(dis, addr) ==
    LET n == Len(dis.instructions)
        Search[s \in [lo : 0..n, hi : -1..(n - 1), result : -1..(n - 1)]] ==
            LET mid == (s.lo + s.hi) \div 2
            IN  IF s.lo > s.hi THEN s.result
                ELSE IF dis.instructions[mid + 1].address <= addr
                     THEN Search[[lo |-> mid + 1, hi |-> s.hi, result |-> mid]]
                     ELSE Search[[lo |-> s.lo, hi |-> mid - 1, result |-> s.result]]
    IN  Search

\* The binary search finds how many instructions start at the address or before it.
LEMMA IndexForAddressFinds ==
    ASSUME NEW dis, Increasing(dis), NEW addr \in Int
    PROVE  IsBound(dis, addr, IndexForAddress(dis, addr))
<1> DEFINE n == Len(dis.instructions)
           f == Searching(dis, addr)
           start == [lo |-> 0, hi |-> n - 1, result |-> -1]
<1>1. n \in Nat
  BY LenProperties DEF Increasing
<1>2. PICK c : IsBound(dis, addr, c)
  BY BoundExists
<1>3. IndexForAddress(dis, addr) = f[start] + 1
  BY DEF IndexForAddress, Searching
<1>4. f = [s \in States(n) |-> SearchStep(f, dis, addr, s)]
  <2> DEFINE g == [s \in States(n) |-> Found(c, s)]
  <2>1. \A s \in States(n) : SearchStep(g, dis, addr, s) = Found(c, s)
    <3>1. \A s \in States(n) : g[s] = Found(c, s)
      OBVIOUS
    <3> HIDE DEF g
    <3> QED BY <1>1, <1>2, <3>1, FoundStep
  <2>2. g = [s \in States(n) |-> SearchStep(g, dis, addr, s)]
    BY <2>1
  <2>3. \E h : h = [s \in States(n) |-> SearchStep(h, dis, addr, s)]
    BY <2>2
  <2> HIDE DEF g
  <2> QED BY <2>3, Zenon DEF Searching, States, SearchStep
<1> HIDE DEF f
<1> DEFINE Size(s) == IF s.lo > s.hi THEN 0 ELSE s.hi - s.lo + 1
           Wrong == {s \in States(n) : f[s] # Found(c, s)}
<1>5. ASSUME Wrong # {} PROVE FALSE
  <2> DEFINE Sizes == {Size(s) : s \in Wrong}
  <2>1. Sizes \subseteq Nat /\ Sizes # {}
    BY <1>1, <1>5 DEF States
  <2>2. PICK z \in Sizes : \A y \in Sizes : z <= y
    <3> HIDE DEF Sizes
    <3> QED BY <2>1, Smallest
  <2>3. PICK s \in Wrong : \A t \in Wrong : Size(s) <= Size(t)
    BY <2>2
  <2>4. s.lo <= s.hi => \A t \in States(n) : t.hi - t.lo < s.hi - s.lo => f[t] = Found(c, t)
    <3> SUFFICES ASSUME s.lo <= s.hi, NEW t \in States(n), t.hi - t.lo < s.hi - s.lo, t \in Wrong
                 PROVE  FALSE
      OBVIOUS
    <3>1. /\ s.lo \in Int /\ s.hi \in Int /\ t.lo \in Int /\ t.hi \in Int
      BY <1>1 DEF States
    <3>2. Size(s) <= Size(t)
      BY <2>3
    <3> QED BY <3>1, <3>2
  <2>5. SearchStep(f, dis, addr, s) = Found(c, s)
    BY <1>1, <1>2, <2>4, FoundStep
  <2> QED BY <1>4, <2>5
<1>6. start \in States(n)
  BY <1>1 DEF States
<1>7. f[start] = Found(c, start)
  BY <1>5, <1>6
<1>8. Found(c, start) + 1 = c
  BY <1>1, <1>2 DEF Found, IsBound
<1> QED BY <1>2, <1>3, <1>7, <1>8

\* So it stands on an instruction where, and only where, one starts at the address.
LEMMA IndexStands ==
    ASSUME NEW dis, Increasing(dis), NEW addr \in Int
    PROVE  LET at == IndexForAddress(dis, addr)
           IN  /\ at \in 0..Len(dis.instructions)
               /\ \A k \in 1..Len(dis.instructions) : dis.instructions[k].address = addr => at = k
<1> DEFINE at == IndexForAddress(dis, addr)
           n == Len(dis.instructions)
           a(k) == dis.instructions[k].address
<1>1. at \in 0..n /\ \A k \in 1..n : (a(k) <= addr) <=> (k <= at)
  BY IndexForAddressFinds DEF IsBound
<1>2. n \in Nat /\ \A k \in 1..n : a(k) \in Int
  BY LenProperties DEF Increasing
<1>3. \A k, l \in 1..n : k < l => a(k) < a(l)
  BY DEF Increasing
<1> HIDE DEF at, n, a
<1>4. ASSUME NEW k \in 1..n, a(k) = addr PROVE at = k
  <2>1. k <= at /\ at \in 1..n
    BY <1>1, <1>2, <1>4
  <2>2. a(at) <= addr
    BY <1>1, <1>2, <2>1
  <2> QED BY <1>2, <1>3, <1>4, <2>1, <2>2
<1> QED BY <1>1, <1>4 DEF at, n, a

\* A position, if a record has one, is an offset.
HasPositions(records) ==
    /\ \E S : records \in Seq(S)
    /\ \A i \in DOMAIN records : records[i].pos = <<>> \/ \E o \in Nat : records[i].pos = <<o>>

StartsAt(dis, pos) == \E k \in DOMAIN dis.instructions : dis.instructions[k].address = pos[1]

\* Without a wasm every position of a trace is listed, and the listing is accepted.
LEMMA FromTraceLists ==
    ASSUME NEW records, HasPositions(records)
    PROVE  /\ ~FromTrace(records).refused
           /\ \A i \in DOMAIN records : records[i].pos # <<>> => StartsAt(FromTrace(records), records[i].pos)
<1> DEFINE Same(i) == {j \in DOMAIN records : records[j].pos = records[i].pos}
           First == {i \in DOMAIN records :
                        records[i].pos # <<>> /\ \A j \in 1..(i - 1) : records[j].pos # records[i].pos}
           listed == [i \in First |-> [address |-> records[i].pos[1], text |-> records[i].instr, end |-> -1]]
           dis == FromTrace(records)
<1>1. DOMAIN records = 1..Len(records) /\ Len(records) \in Nat
  BY LenProperties DEF HasPositions
<1>2. \A i \in DOMAIN records : records[i].pos # <<>> => records[i].pos[1] \in Nat /\ records[i].pos = <<records[i].pos[1]>>
  BY DEF HasPositions
<1>3. IsFiniteSet(First)
  <2>1. IsFiniteSet(DOMAIN records) /\ First \subseteq DOMAIN records
    BY <1>1, FS_Interval
  <2> HIDE DEF First
  <2> QED BY <2>1, FS_Subset
<1>4. dis = Disassembled(listed, <<>>)
  BY DEF FromTrace, ListedFrom
<1>5. DOMAIN listed = First /\ \A i \in First : listed[i].address = records[i].pos[1]
  OBVIOUS
<1>6. \A i \in DOMAIN listed : listed[i].address \in Int
  BY <1>2, <1>5
<1>7. ASSUME NEW i \in First, NEW j \in First, records[i].pos[1] = records[j].pos[1] PROVE i = j
  <2>1. records[i].pos = records[j].pos
    BY <1>2, <1>7
  <2>2. i \in Nat /\ j \in Nat /\ i >= 1 /\ j >= 1
    BY <1>1
  <2>3. i \notin 1..(j - 1) /\ j \notin 1..(i - 1)
    BY <2>1
  <2> QED BY <2>2, <2>3
<1>8. \A i, j \in DOMAIN listed : listed[i].address = listed[j].address => i = j
  BY <1>5, <1>7
<1> HIDE DEF listed, dis
<1>9. /\ dis.refused = FALSE
      /\ dis.instructions \in Seq({listed[i] : i \in DOMAIN listed})
      /\ \A i \in First : \E k \in 1..Len(dis.instructions) : dis.instructions[k] = listed[i]
  <2>1. IsFiniteSet(DOMAIN listed)
    BY <1>3, <1>5
  <2>2. Keeps(Disassembled(listed, <<>>), listed)
    BY <1>6, <1>8, <2>1, DisassembledKeeps
  <2> QED BY <1>4, <1>5, <2>2 DEF Keeps
<1>10. DOMAIN dis.instructions = 1..Len(dis.instructions)
  BY <1>9, LenProperties
<1>11. ASSUME NEW i \in DOMAIN records, records[i].pos # <<>> PROVE StartsAt(dis, records[i].pos)
  <2>1. Same(i) \subseteq Nat /\ Same(i) # {}
    BY <1>1
  <2>2. PICK j \in Same(i) : \A l \in Same(i) : j <= l
    <3> HIDE DEF Same
    <3> QED BY <2>1, Smallest
  <2>3. j \in First
    <3>1. ASSUME NEW l \in 1..(j - 1) PROVE records[l].pos # records[j].pos
      <4>1. l \in DOMAIN records /\ l < j /\ l \in Nat /\ j \in Nat
        BY <1>1
      <4>2. l \notin Same(i)
        BY <2>2, <4>1
      <4> QED BY <4>1, <4>2
    <3> QED BY <1>11, <3>1
  <2>4. PICK k \in 1..Len(dis.instructions) : dis.instructions[k] = listed[j]
    BY <1>9, <2>3
  <2>5. dis.instructions[k].address = records[i].pos[1]
    BY <1>5, <2>3, <2>4
  <2> QED BY <1>10, <2>5 DEF StartsAt
<1> QED BY <1>9, <1>11 DEF dis

\* What the disassembly of the root's wasm is: its code and nothing else.
IsRootListing(dis) ==
    /\ ~dis.refused /\ Increasing(dis)
    /\ \A k \in 1..Len(dis.instructions) :
          /\ dis.instructions[k].address \in DOMAIN Code[Root]
          /\ dis.instructions[k].text = Code[Root][dis.instructions[k].address].op
    /\ \A offset \in DOMAIN Code[Root] :
          \E k \in 1..Len(dis.instructions) : dis.instructions[k].address = offset

LEMMA FromWasmLists ==
    ASSUME NEW wasm, ListsRoot(wasm)
    PROVE  IsRootListing(FromWasm(wasm))
<1> DEFINE I == InBodies(wasm)
           at(i) == wasm.listing[i].at
           dis == FromWasm(wasm)
<1>1. /\ IsFiniteSet(DOMAIN wasm.listing) /\ I \subseteq DOMAIN wasm.listing /\ wasm.payloadStart \in Nat
      /\ \A i \in I : at(i) \in Nat
      /\ \A i, j \in I : at(i) = at(j) => i = j
      /\ DOMAIN Code[Root] = {at(i) - wasm.payloadStart : i \in I}
      /\ \A i \in I : Code[Root][at(i) - wasm.payloadStart].op = wasm.listing[i].text
  BY DEF ListsRoot, InBodies
<1>2. IsFiniteSet(I)
  BY <1>1, FS_Subset
<1> DEFINE listed == Instructions(wasm)
           ranges == FunctionRanges(wasm)
<1>3. /\ dis = Disassembled(listed, ranges)
      /\ DOMAIN listed = I
      /\ \A i \in I : listed[i].address = at(i) - wasm.payloadStart /\ listed[i].text = wasm.listing[i].text
  <2>1. dis = Disassembled(listed, ranges)
    BY DEF FromWasm
  <2> QED BY <2>1, Zenon DEF Instructions
<1> HIDE DEF I, at, dis, listed, ranges
<1>4. \A i \in DOMAIN listed : listed[i].address \in Int
  BY <1>1, <1>3
<1>5. \A i, j \in DOMAIN listed : listed[i].address = listed[j].address => i = j
  BY <1>1, <1>3
<1>6. /\ dis.refused = FALSE
      /\ dis.instructions \in Seq({listed[i] : i \in DOMAIN listed})
      /\ \A i \in DOMAIN listed : \E k \in 1..Len(dis.instructions) : dis.instructions[k] = listed[i]
      /\ \A k, l \in 1..Len(dis.instructions) : k < l => dis.instructions[k].address < dis.instructions[l].address
  <2>1. Keeps(Disassembled(listed, ranges), listed)
    BY <1>2, <1>3, <1>4, <1>5, DisassembledKeeps
  <2> QED BY <1>3, <2>1 DEF Keeps
<1>7. \A k \in 1..Len(dis.instructions) : \E i \in I : dis.instructions[k] = listed[i]
  BY <1>3, <1>6, ElementOfSeq
<1>8. \A k \in 1..Len(dis.instructions) : dis.instructions[k].address \in Int
  BY <1>3, <1>4, <1>7
<1>9. Increasing(dis)
  BY <1>6, <1>8 DEF Increasing
<1>10. ASSUME NEW k \in 1..Len(dis.instructions)
       PROVE  /\ dis.instructions[k].address \in DOMAIN Code[Root]
              /\ dis.instructions[k].text = Code[Root][dis.instructions[k].address].op
  <2>1. PICK i \in I : dis.instructions[k] = listed[i]
    BY <1>7
  <2> QED BY <1>1, <1>3, <2>1
<1>11. ASSUME NEW offset \in DOMAIN Code[Root]
       PROVE  \E k \in 1..Len(dis.instructions) : dis.instructions[k].address = offset
  <2>1. PICK i \in I : offset = at(i) - wasm.payloadStart
    BY <1>1
  <2>2. PICK k \in 1..Len(dis.instructions) : dis.instructions[k] = listed[i]
    BY <1>3, <1>6
  <2> QED BY <1>3, <2>1, <2>2
<1> QED BY <1>6, <1>9, <1>10, <1>11 DEF IsRootListing, dis

-----------------------------------------------------------------------------
(***************************************************************************)
(* The records of the host, as the reader reads them.                      *)
(***************************************************************************)
CoreKeys == {"kind", "pos", "instr", "stack", "locals", "globals", "mem"}
HostEvents == {"ledger", "callContract", "contractData", "endWasm"}

LEMMA HostFields ==
    ASSUME NEW obj
    PROVE  /\ Fields("ledger", obj) = {<<"sequence", "int">>, <<"timestamp", "int">>, <<"accounts", "accounts">>,
                                       <<"contracts", "contracts">>, <<"codes", "codes">>}
           /\ Fields("callContract", obj) = {<<"from", "address">>, <<"to", "address">>, <<"function", "string">>,
                                   <<"args", "scvals">>, <<"depth", "int">>, <<"storage", "entries">>}
           /\ Fields("endWasm", obj) = {<<"success", "bool">>, <<"depth", "int">>, <<"result", "scval">>}
           /\ Fields("contractData", obj) = {<<"durability", "durability">>, <<"contract", "address">>, <<"args", "scvals">>}
BY DEF Fields

\* An object with the kind of an event and none of the fields of a record's core.
IsEventObject(obj, kind) ==
    /\ DOMAIN obj \intersect CoreKeys = {"kind"}
    /\ obj["kind"] = Json("string", kind)

LEMMA EventObjectReads ==
    ASSUME NEW kind \in HostEvents, NEW obj, IsEventObject(obj, kind)
    PROVE  /\ Fault(Json("object", obj)) = "none"
           /\ ToTraceRecord(obj).pos = <<>> /\ ToTraceRecord(obj).mem = Unchanged
           /\ ToTraceRecord(obj).event = EventOf(kind, obj)
           /\ ToTraceRecord(obj).event.kind \in {kind, "none"}
<1>1. \A key \in {"pos", "instr", "stack", "locals", "globals", "mem"} : Get(obj, key).t = "absent"
  BY DEF IsEventObject, CoreKeys, Get, Missing, Json
<1>2. KindOf(obj) = Json("string", kind)
  BY DEF IsEventObject, CoreKeys, KindOf, Get
<1>3. Named(obj) /\ ~IsInstruction(obj)
  <2>1. KindOf(obj).t = "string" /\ KindOf(obj).v = kind
    BY <1>2 DEF Json
  <2>2. kind # "" /\ kind # "instr"
    BY DEF HostEvents
  <2> QED BY <2>1, <2>2 DEF Named, IsInstruction
<1>4. CoreFits(obj)
  BY <1>1, <1>3 DEF CoreFits, Accepted
<1>5. Fault(Json("object", obj)) = "none"
  BY <1>3, <1>4 DEF Fault, Json
<1>6. ToTraceRecord(obj).pos = <<>> /\ ToTraceRecord(obj).mem = Unchanged
  BY <1>1 DEF ToTraceRecord
<1>7. ToTraceRecord(obj).event = EventOf(kind, obj)
  BY <1>2 DEF ToTraceRecord, Json
<1>8. EventOf(kind, obj).kind \in {kind, "none"}
  BY DEF EventOf, NoEvent
<1> QED BY <1>5, <1>6, <1>7, <1>8

\* The events of the host, field by field.
IsHostEvent(kind, said) ==
    \/ kind = "ledger" /\ DOMAIN said = {}
    \/ kind = "callContract" /\ DOMAIN said = {"to"} /\ said["to"].t = "address"
    \/ kind = "contractData" /\ DOMAIN said = {"operation", "args"}
    \/ kind = "endWasm" /\ DOMAIN said = {"success"} /\ said["success"].t = "bool"

LEMMA EventFields ==
    ASSUME NEW kind, NEW said, IsHostEvent(kind, said)
    PROVE  /\ kind \in HostEvents
           /\ IsEventObject(Event(kind, said), kind)
           /\ DOMAIN Event(kind, said) # {"kind"}
           /\ \A key \in DOMAIN said : Event(kind, said)[key] = said[key]
           /\ kind \in {"callContract", "endWasm"} =>
                 \A f \in Fields(kind, said) : f[1] \in DOMAIN Event(kind, said) /\ Event(kind, said)[f[1]].t = f[2]
<1> DEFINE fields == Fields(kind, said)
           K == {"kind"} \union DOMAIN said \union {f[1] : f \in fields}
           typeOf(key) == (CHOOSE f \in fields : f[1] = key)[2]
           obj == Event(kind, said)
<1>1. kind \in HostEvents
  BY DEF IsHostEvent, HostEvents
<1>2. obj = [key \in K |-> IF key = "kind" THEN Json("string", kind)
                           ELSE IF key \in DOMAIN said THEN said[key] ELSE Json(typeOf(key), <<>>)]
  BY DEF Event
<1>3. /\ DOMAIN said \intersect CoreKeys = {}
      /\ {f[1] : f \in fields} \intersect CoreKeys = {}
      /\ \E key \in {f[1] : f \in fields} : TRUE
  <2>1. DOMAIN said \intersect CoreKeys = {}
    BY DEF IsHostEvent, CoreKeys
  <2> HIDE DEF fields
  <2>2. (\A f \in fields : f[1] \notin CoreKeys) /\ fields # {}
    <3>1. CASE kind = "ledger"
      <4>1. fields = Fields("ledger", said)
        BY <3>1 DEF fields
      <4>2. fields # {}
        BY <4>1, HostFields
      <4>3. ASSUME NEW f \in fields PROVE f[1] \notin CoreKeys
        BY <4>1, HostFields DEF CoreKeys
      <4> QED BY <4>2, <4>3
    <3>2. CASE kind = "callContract"
      <4>1. fields = Fields("callContract", said)
        BY <3>2 DEF fields
      <4>2. fields # {}
        BY <4>1, HostFields
      <4>3. ASSUME NEW f \in fields PROVE f[1] \notin CoreKeys
        BY <4>1, HostFields DEF CoreKeys
      <4> QED BY <4>2, <4>3
    <3>3. CASE kind = "contractData"
      <4>1. fields = Fields("contractData", said)
        BY <3>3 DEF fields
      <4>2. fields # {}
        BY <4>1, HostFields
      <4>3. ASSUME NEW f \in fields PROVE f[1] \notin CoreKeys
        BY <4>1, HostFields DEF CoreKeys
      <4> QED BY <4>2, <4>3
    <3>4. CASE kind = "endWasm"
      <4>1. fields = Fields("endWasm", said)
        BY <3>4 DEF fields
      <4>2. fields # {}
        BY <4>1, HostFields
      <4>3. ASSUME NEW f \in fields PROVE f[1] \notin CoreKeys
        BY <4>1, HostFields DEF CoreKeys
      <4> QED BY <4>2, <4>3
    <3> QED BY <1>1, <3>1, <3>2, <3>3, <3>4 DEF HostEvents
  <2> QED BY <2>1, <2>2
<1>4. IsEventObject(obj, kind)
  BY <1>2, <1>3 DEF IsEventObject, CoreKeys
<1>5. DOMAIN obj # {"kind"}
  BY <1>2, <1>3 DEF CoreKeys
<1>6. \A key \in DOMAIN said : obj[key] = said[key]
  BY <1>2, <1>3 DEF CoreKeys
<1>7. ASSUME kind \in {"callContract", "endWasm"}, NEW f \in fields
      PROVE  f[1] \in DOMAIN obj /\ obj[f[1]].t = f[2]
  <2>1. f[1] \in K /\ f[1] # "kind"
    BY <1>3 DEF CoreKeys
  <2>2. \A g \in fields : g[1] = f[1] => g[2] = f[2]
    BY <1>7, HostFields
  <2>3. typeOf(f[1]) = f[2]
    BY <2>2
  <2>4. f[1] \in DOMAIN said => said[f[1]].t = f[2]
    BY <1>7, HostFields DEF IsHostEvent
  <2> HIDE DEF typeOf, K
  <2> QED BY <1>2, <2>1, <2>3, <2>4 DEF Json
<1> QED BY <1>1, <1>4, <1>5, <1>6, <1>7

\* An event that no release touched is read for what it says.
LEMMA EventRead ==
    ASSUME NEW kind \in {"callContract", "endWasm"}, NEW obj,
           \A f \in Fields(kind, obj) : f[1] \in DOMAIN obj /\ obj[f[1]].t = f[2]
    PROVE  /\ EventOf(kind, obj).kind = kind
           /\ \A f \in Fields(kind, obj) : EventOf(kind, obj).fields[f[1]] = obj[f[1]].v
<1>1. Modelled(kind, obj) /\ ArgsSuffice(kind, obj)
  BY DEF Modelled, EventKinds, ArgsSuffice
<1>2. \A f \in Fields(kind, obj) : Fits(obj, f[1], f[2])
  BY DEF Fits, Get
<1> DEFINE names == {f[1] : f \in Fields(kind, obj)}
<1>3. EventOf(kind, obj) = [kind |-> kind, fields |-> [key \in names |-> Get(obj, key).v]]
  BY <1>1, <1>2 DEF EventOf
<1>4. ASSUME NEW f \in Fields(kind, obj) PROVE EventOf(kind, obj).fields[f[1]] = obj[f[1]].v
  <2>1. f[1] \in names /\ Get(obj, f[1]) = obj[f[1]]
    BY DEF Get
  <2> HIDE DEF names
  <2> QED BY <1>3, <2>1
<1> QED BY <1>3, <1>4

\* What the reader makes of a line the host wrote an event on: sound, the core of a
\* record without position or memory, and the event, unless the release lost it.
ReadsEvent(s, fault, kind, said) ==
    /\ Fault(Json("object", s)) = fault
    /\ fault = "none" =>
          /\ ToTraceRecord(s).pos = <<>> /\ ToTraceRecord(s).mem = Unchanged
          /\ ToTraceRecord(s).event.kind \in {kind, "none"}
          /\ kind \in {"callContract", "endWasm"} /\ release # kind =>
                /\ ToTraceRecord(s).event.kind = kind
                /\ \A key \in DOMAIN said : ToTraceRecord(s).event.fields[key] = said[key].v

LEMMA ShapedEvent ==
    ASSUME NEW kind, NEW said, IsHostEvent(kind, said)
    PROVE  /\ Get(Event(kind, said), "mem").t # "runs"
           /\ ReadsEvent(Shaped(Event(kind, said)), FaultOf(Event(kind, said)), kind, said)
<1> DEFINE obj == Event(kind, said)
           s == Shaped(obj)
<1>1. /\ kind \in HostEvents
      /\ IsEventObject(obj, kind) /\ DOMAIN obj # {"kind"}
      /\ \A key \in DOMAIN said : obj[key] = said[key]
      /\ kind \in {"callContract", "endWasm"} =>
            \A f \in Fields(kind, said) : f[1] \in DOMAIN obj /\ obj[f[1]].t = f[2]
  BY EventFields
<1>2. /\ "kind" \in DOMAIN obj /\ obj["kind"] = Json("string", kind) /\ obj["kind"].v = kind
      /\ "mem" \notin DOMAIN obj /\ "globals" \notin DOMAIN obj /\ "pos" \notin DOMAIN obj /\ "instr" \notin DOMAIN obj
  BY <1>1 DEF IsEventObject, CoreKeys, Json
<1>3. Get(obj, "mem").t = "absent"
  BY <1>2 DEF Get, Missing, Json
<1>4. kind # "instr" /\ kind # "mem" /\ kind # "globals" /\ kind # "unkinded"
  BY <1>1 DEF HostEvents
<1>5. FaultOf(obj) = IF release = "unkinded" THEN "malformed" ELSE "none"
  BY <1>2, <1>3 DEF FaultOf
<1> DEFINE k == CHOOSE k \in DOMAIN obj : k # "kind"
<1>6. k \in DOMAIN obj /\ k # "kind"
  BY <1>1, <1>2
<1> HIDE DEF obj, k
<1>7. CASE release = kind
  <2>1. s = [obj EXCEPT ![k].t = "other"]
    BY <1>2, <1>4, <1>7 DEF Shaped, k
  <2>2. DOMAIN s = DOMAIN obj /\ s["kind"] = obj["kind"]
    BY <1>2, <1>6, <2>1
  <2>3. IsEventObject(s, kind)
    BY <1>1, <2>2 DEF IsEventObject
  <2> HIDE DEF s
  <2> QED BY <1>1, <1>3, <1>4, <1>5, <1>7, <2>3, EventObjectReads DEF ReadsEvent, obj, s
<1>8. CASE release = "unkinded"
  <2>1. s = [key \in DOMAIN obj \ {"kind"} |-> obj[key]]
    BY <1>2, <1>4, <1>8 DEF Shaped
  <2>2. DOMAIN s = DOMAIN obj \ {"kind"}
    BY <2>1
  <2>3. KindOf(s).t = "absent"
    BY <2>2 DEF KindOf, Get, Missing, Json
  <2>4. ~Named(s) /\ {"instr", "pos"} \intersect DOMAIN s = {}
    BY <1>2, <2>2, <2>3 DEF Named
  <2>5. Fault(Json("object", s)) = "malformed"
    BY <2>4 DEF Fault, Json
  <2> HIDE DEF s
  <2> QED BY <1>3, <1>5, <1>8, <2>5 DEF ReadsEvent, obj, s
<1>9. CASE release # kind /\ release # "unkinded"
  <2>1. s = obj
    BY <1>2, <1>3, <1>9 DEF Shaped
  <2>2. FaultOf(obj) = "none"
    BY <1>5, <1>9
  <2>3. /\ Fault(Json("object", obj)) = "none"
        /\ ToTraceRecord(obj).pos = <<>> /\ ToTraceRecord(obj).mem = Unchanged
        /\ ToTraceRecord(obj).event = EventOf(kind, obj)
        /\ ToTraceRecord(obj).event.kind \in {kind, "none"}
    BY <1>1, EventObjectReads
  <2>4. ASSUME kind \in {"callContract", "endWasm"}
        PROVE  /\ EventOf(kind, obj).kind = kind
               /\ \A key \in DOMAIN said : EventOf(kind, obj).fields[key] = said[key].v
    <3>1. Fields(kind, obj) = Fields(kind, said)
      BY <2>4, HostFields
    <3>2. /\ EventOf(kind, obj).kind = kind
          /\ \A f \in Fields(kind, obj) : EventOf(kind, obj).fields[f[1]] = obj[f[1]].v
      BY <1>1, <2>4, <3>1, EventRead
    <3>3. \A key \in DOMAIN said : \E f \in Fields(kind, obj) : f[1] = key
      <4>1. CASE kind = "callContract"
        <5>1. <<"to", "address">> \in Fields(kind, obj) /\ DOMAIN said = {"to"}
          BY <4>1, HostFields DEF IsHostEvent
        <5> QED BY <5>1
      <4>2. CASE kind = "endWasm"
        <5>1. <<"success", "bool">> \in Fields(kind, obj) /\ DOMAIN said = {"success"}
          BY <4>2, HostFields DEF IsHostEvent
        <5> QED BY <5>1
      <4> QED BY <2>4, <4>1, <4>2
    <3> QED BY <1>1, <3>2, <3>3
  <2> HIDE DEF s
  <2>5. ReadsEvent(obj, "none", kind, said)
    BY <2>3, <2>4 DEF ReadsEvent
  <2> QED BY <1>3, <2>1, <2>2, <2>5 DEF obj, s
<1> QED BY <1>7, <1>8, <1>9

\* What the reader makes of a line the host wrote an instruction on: sound, its
\* position, its name, no event, and a snapshot only of memory that changed.
ReadsInstr(s, fault, pos, op, memory) ==
    /\ Fault(Json("object", s)) = fault
    /\ fault = "none" =>
          /\ ToTraceRecord(s).pos = <<pos>> /\ ToTraceRecord(s).instr = op
          /\ ToTraceRecord(s).event.kind = "none"
          /\ ToTraceRecord(s).mem = IF memory = sent THEN Unchanged ELSE <<Snapshot(memory).v>>

LEMMA ShapedInstr ==
    ASSUME NEW pos, NEW op, NEW memory
    PROVE  /\ (Get(Instr(pos, op, memory), "mem").t = "runs") <=> (memory # sent)
           /\ ReadsInstr(Shaped(Instr(pos, op, memory)), FaultOf(Instr(pos, op, memory)), pos, op, memory)
<1> DEFINE obj == Instr(pos, op, memory)
           s == Shaped(obj)
           mem == IF memory = sent THEN Json("null", 0) ELSE Snapshot(memory)
<1>1. /\ DOMAIN obj = CoreKeys
      /\ obj["kind"] = Json("string", "instr") /\ obj["pos"] = Json("int", pos) /\ obj["instr"] = Json("instr", op)
      /\ obj["stack"] = Json("pairs", 0) /\ obj["locals"] = Json("slots", 0) /\ obj["globals"] = Json("slots", 0)
      /\ obj["mem"] = mem
  BY DEF Instr, CoreKeys
<1>2. mem.t = IF memory = sent THEN "null" ELSE "runs"
  BY DEF Json, Snapshot
<1> HIDE DEF obj, mem
<1>3. /\ Get(obj, "mem").t = (IF memory = sent THEN "null" ELSE "runs") /\ obj["kind"].v = "instr"
      /\ "pos" \in DOMAIN obj /\ "instr" \in DOMAIN obj /\ "mem" \in DOMAIN obj /\ "globals" \in DOMAIN obj
  BY <1>1, <1>2 DEF Get, CoreKeys, Json
<1>4. FaultOf(obj) = IF (release = "mem" /\ memory # sent) \/ release = "globals" THEN "malformed"
                     ELSE IF release = "unkinded" THEN "stale" ELSE "none"
  BY <1>3 DEF FaultOf
\* A record that keeps its kind, and but for one key, its core.
<1>5. ASSUME NEW r, DOMAIN r = CoreKeys, NEW key \in {"mem", "globals"}, r[key].t \notin Accepted[key],
             \A other \in CoreKeys \ {key} : r[other] = obj[other]
      PROVE  Fault(Json("object", r)) = "malformed"
  <2>1. ~CoreFits(r)
    BY <1>5 DEF CoreFits, Accepted, Get, CoreKeys
  <2>2. "kind" \in CoreKeys \ {key} /\ "kind" \in DOMAIN r
    BY <1>5 DEF CoreKeys
  <2>3. r["kind"] = Json("string", "instr") /\ KindOf(r) = r["kind"]
    BY <1>1, <1>5, <2>2 DEF KindOf, Get
  <2>4. KindOf(r).t = "string" /\ KindOf(r).v # ""
    BY <2>3 DEF Json
  <2> QED BY <2>1, <2>4 DEF Fault, Named, Json
<1>6. CASE release = "mem" /\ memory # sent
  <2>1. s = [obj EXCEPT !["mem"].t = "other"]
    BY <1>3, <1>6 DEF Shaped
  <2>2. DOMAIN s = CoreKeys /\ s["mem"].t = "other" /\ \A other \in CoreKeys \ {"mem"} : s[other] = obj[other]
    BY <1>1, <1>2, <1>3, <2>1 DEF Json, Snapshot, mem
  <2>3. "other" \notin Accepted["mem"]
    BY DEF Accepted
  <2> HIDE DEF s
  <2> QED BY <1>3, <1>4, <1>5, <1>6, <2>2, <2>3 DEF ReadsInstr, obj, s
<1>7. CASE release = "globals"
  <2>1. s = [obj EXCEPT !["globals"].t = "null"]
    BY <1>3, <1>7 DEF Shaped
  <2>2. DOMAIN s = CoreKeys /\ s["globals"].t = "null" /\ \A other \in CoreKeys \ {"globals"} : s[other] = obj[other]
    BY <1>1, <1>3, <2>1 DEF Json
  <2>3. "null" \notin Accepted["globals"]
    BY DEF Accepted
  <2> HIDE DEF s
  <2> QED BY <1>3, <1>4, <1>5, <1>7, <2>2, <2>3 DEF ReadsInstr, obj, s
<1>8. CASE release = "unkinded"
  <2>1. s = [key \in DOMAIN obj \ {"kind"} |-> obj[key]]
    BY <1>3, <1>8 DEF Shaped
  <2>2. DOMAIN s = CoreKeys \ {"kind"}
    BY <1>1, <2>1
  <2>3. KindOf(s).t = "absent"
    BY <2>2 DEF KindOf, Get, Missing, Json
  <2>4. ~Named(s) /\ "pos" \in DOMAIN s
    BY <2>2, <2>3 DEF Named, CoreKeys
  <2>5. Fault(Json("object", s)) = "stale"
    BY <2>4 DEF Fault, Json
  <2> HIDE DEF s
  <2> QED BY <1>3, <1>4, <1>8, <2>5 DEF ReadsInstr, obj, s
<1>9. CASE ~(release = "mem" /\ memory # sent) /\ release # "globals" /\ release # "unkinded"
  <2>1. s = obj
    BY <1>3, <1>9 DEF Shaped
  <2>2. FaultOf(obj) = "none"
    BY <1>4, <1>9
  <2>3. KindOf(obj).t = "string" /\ KindOf(obj).v = "instr"
    BY <1>1, <1>3 DEF KindOf, Get, CoreKeys, Json
  <2>4. Named(obj) /\ IsInstruction(obj)
    BY <2>3 DEF Named, IsInstruction
  <2>5. /\ Get(obj, "pos").t = "int" /\ Get(obj, "pos").v = pos
        /\ Get(obj, "instr").t = "instr" /\ Get(obj, "instr").v = op
        /\ Get(obj, "stack").t = "pairs" /\ Get(obj, "locals").t = "slots" /\ Get(obj, "globals").t = "slots"
        /\ Get(obj, "mem").t \in {"null", "runs"}
    BY <1>1, <1>3 DEF Get, CoreKeys, Json
  <2>6. CoreFits(obj)
    BY <1>3, <2>5 DEF CoreFits, Accepted
  <2>7. Fault(Json("object", obj)) = "none"
    BY <2>4, <2>6 DEF Fault, Json
  <2>8. ToTraceRecord(obj).pos = <<pos>> /\ ToTraceRecord(obj).instr = op
    BY <2>4, <2>5 DEF ToTraceRecord
  <2>9. ToTraceRecord(obj).event.kind = "none"
    BY <2>3 DEF ToTraceRecord, EventOf, NoEvent, Modelled, EventKinds
  <2>10. ToTraceRecord(obj).mem = IF memory = sent THEN Unchanged ELSE <<Snapshot(memory).v>>
    <3>1. memory # sent => Get(obj, "mem") = Snapshot(memory)
      BY <1>1, <1>3 DEF Get, mem
    <3> QED BY <1>3, <3>1 DEF ToTraceRecord
  <2>11. ReadsInstr(obj, "none", pos, op, memory)
    BY <2>7, <2>8, <2>9, <2>10 DEF ReadsInstr
  <2> QED BY <1>3, <2>1, <2>2, <2>11 DEF obj, s
<1> QED BY <1>6, <1>7, <1>8, <1>9

-----------------------------------------------------------------------------
(***************************************************************************)
(* Reading a trace: the parse and the open calls.                          *)
(***************************************************************************)
ParseStep(ls, before, i) ==
    IF before.error # <<>> \/ ls[i].t = "blank" THEN before
    ELSE IF Fault(ls[i]) # "none" THEN [before EXCEPT !.error = <<Fault(ls[i]), i>>]
    ELSE [before EXCEPT !.records = Append(@, ToTraceRecord(ls[i].v))]

Parsed(ls) ==
    LET parsed[i \in 0..Len(ls)] ==
            IF i = 0 THEN [records |-> <<>>, error |-> <<>>]
            ELSE LET before == parsed[i - 1]
                 IN  IF before.error # <<>> \/ ls[i].t = "blank" THEN before
                     ELSE IF Fault(ls[i]) # "none" THEN [before EXCEPT !.error = <<Fault(ls[i]), i>>]
                     ELSE [before EXCEPT !.records = Append(@, ToTraceRecord(ls[i].v))]
    IN  parsed

\* A parse adds the error of the first bad line, or the record of a good one.
LEMMA ParseStepFields ==
    ASSUME NEW ls, NEW i, NEW read, ls[i].t # "blank"
    PROVE  /\ Fault(ls[i]) # "none" =>
                 ParseStep(ls, [records |-> read, error |-> <<>>], i)
                     = [records |-> read, error |-> <<Fault(ls[i]), i>>]
           /\ Fault(ls[i]) = "none" =>
                 ParseStep(ls, [records |-> read, error |-> <<>>], i)
                     = [records |-> Append(read, ToTraceRecord(ls[i].v)), error |-> <<>>]
BY DEF ParseStep

\* The records of the first k lines after b blank ones.
RecordsOf(ls, b, k) == [j \in 1..k |-> ToTraceRecord(ls[j + b].v)]

LEMMA RecordsOfAppends ==
    ASSUME NEW ls, NEW b \in Nat, NEW k \in Nat
    PROVE  Append(RecordsOf(ls, b, k), ToTraceRecord(ls[k + 1 + b].v)) = RecordsOf(ls, b, k + 1)
<1> DEFINE S == {ToTraceRecord(ls[j + b].v) : j \in 1..(k + 1)}
           s == RecordsOf(ls, b, k)
           e == ToTraceRecord(ls[k + 1 + b].v)
<1>1. s \in [1..k -> S] /\ e \in S
  BY DEF RecordsOf
<1>2. s \in Seq(S) /\ Len(s) = k
  BY <1>1, SeqDef, LenProperties
<1>3. \A j \in 1..k : s[j] = ToTraceRecord(ls[j + b].v)
  BY DEF RecordsOf
<1>4. RecordsOf(ls, b, k + 1) = [j \in 1..(k + 1) |-> ToTraceRecord(ls[j + b].v)]
  BY DEF RecordsOf
<1> HIDE DEF s, e, S
<1>5. /\ Append(s, e) \in [1..(k + 1) -> S]
      /\ \A j \in 1..k : Append(s, e)[j] = s[j]
      /\ Append(s, e)[k + 1] = e
  <2>1. /\ Append(s, e) \in Seq(S) /\ Len(Append(s, e)) = Len(s) + 1
        /\ \A j \in 1..Len(s) : Append(s, e)[j] = s[j]
        /\ Append(s, e)[Len(s) + 1] = e
    BY <1>1, <1>2, AppendProperties
  <2>2. Append(s, e) \in [1..Len(Append(s, e)) -> S]
    BY <2>1, LenProperties
  <2> QED BY <1>2, <2>1, <2>2
<1>6. \A j \in 1..(k + 1) : Append(s, e)[j] = ToTraceRecord(ls[j + b].v)
  BY <1>3, <1>5 DEF e
<1> QED BY <1>4, <1>5, <1>6 DEF s, e

\* The parse of lines of which the first b are blank and no others, and the first bad
\* one is the m-th, or none when m is past the end.
LEMMA ParseFollows ==
    ASSUME NEW ls, NEW n \in Nat, n = Len(ls), NEW b \in 0..n,
           \A i \in 1..n : (ls[i].t = "blank") <=> (i <= b),
           NEW m \in (b + 1)..(n + 1),
           \A i \in (b + 1)..(m - 1) : Fault(ls[i]) = "none",
           m <= n => Fault(ls[m]) # "none"
    PROVE  /\ Parse(ls).error = IF m <= n THEN <<Fault(ls[m]), m>> ELSE <<>>
           /\ Parse(ls).records = RecordsOf(ls, b, m - 1 - b)
<1> DEFINE count(i) == IF i <= b THEN 0 ELSE IF i < m THEN i - b ELSE m - 1 - b
           error(i) == IF i < m THEN <<>> ELSE <<Fault(ls[m]), m>>
           g == [i \in 0..n |-> [records |-> RecordsOf(ls, b, count(i)), error |-> error(i)]]
           f == Parsed(ls)
           start == [records |-> <<>>, error |-> <<>>]
<1>1. Parse(ls) = f[n]
  BY DEF Parse, Parsed
<1>2. RecordsOf(ls, b, 0) = <<>>
  BY DEF RecordsOf
<1>3. g[0] = start
  BY <1>2
<1>4. ASSUME NEW i \in 1..n PROVE g[i] = ParseStep(ls, g[i - 1], i)
  <2>1. /\ g[i - 1] = [records |-> RecordsOf(ls, b, count(i - 1)), error |-> error(i - 1)]
        /\ g[i] = [records |-> RecordsOf(ls, b, count(i)), error |-> error(i)]
    OBVIOUS
  <2>2. CASE i <= b
    <3>1. count(i) = count(i - 1) /\ error(i) = error(i - 1) /\ ls[i].t = "blank"
      BY <2>2
    <3> HIDE DEF g, count, error
    <3> QED BY <2>1, <3>1 DEF ParseStep
  <2>3. CASE i > m
    <3>1. count(i) = count(i - 1) /\ error(i) = error(i - 1) /\ error(i - 1) # <<>>
      BY <2>3
    <3> HIDE DEF g, count, error
    <3> QED BY <2>1, <3>1 DEF ParseStep
  <2>4. CASE i = m
    <3>1. /\ count(i) = count(i - 1) /\ error(i - 1) = <<>> /\ error(i) = <<Fault(ls[i]), i>>
          /\ ls[i].t # "blank" /\ Fault(ls[i]) # "none"
      BY <2>4
    <3> DEFINE read == RecordsOf(ls, b, count(i - 1))
    <3>2. ParseStep(ls, [records |-> read, error |-> <<>>], i) = [records |-> read, error |-> <<Fault(ls[i]), i>>]
      <4> HIDE DEF g, count, error, read
      <4> QED BY <3>1, ParseStepFields
    <3> HIDE DEF g, count, error
    <3> QED BY <2>1, <3>1, <3>2
  <2>5. CASE b < i /\ i < m
    <3> HIDE DEF g
    <3>1. count(i - 1) = i - 1 - b /\ count(i) = i - b
      BY <2>5
    <3>2. error(i - 1) = <<>> /\ error(i) = <<>> /\ ls[i].t # "blank" /\ Fault(ls[i]) = "none"
      BY <2>5
    <3> HIDE DEF count, error
    <3> DEFINE k == i - 1 - b
    <3>3. k \in Nat /\ b \in Nat /\ k + 1 = i - b /\ k + 1 + b = i
      BY <2>5
    <3> HIDE DEF k
    <3>4. Append(RecordsOf(ls, b, k), ToTraceRecord(ls[k + 1 + b].v)) = RecordsOf(ls, b, k + 1)
      BY <3>3, RecordsOfAppends
    <3>5. /\ g[i - 1] = [records |-> RecordsOf(ls, b, k), error |-> <<>>]
          /\ g[i] = [records |-> Append(RecordsOf(ls, b, k), ToTraceRecord(ls[i].v)), error |-> <<>>]
      BY <2>1, <3>1, <3>2, <3>3, <3>4 DEF k
    <3> QED BY <3>2, <3>5, ParseStepFields
  <2> QED BY <2>2, <2>3, <2>4, <2>5
<1> HIDE DEF g
<1>5. g = [i \in 0..n |-> IF i = 0 THEN start ELSE ParseStep(ls, g[i - 1], i)]
  <2>1. DOMAIN g = 0..n /\ g = [i \in 0..n |-> g[i]]
    BY DEF g
  <2>2. \A i \in 0..n : g[i] = IF i = 0 THEN start ELSE ParseStep(ls, g[i - 1], i)
    BY <1>3, <1>4
  <2> HIDE DEF start
  <2> QED BY <2>1, <2>2
<1>6. f = [i \in 0..n |-> IF i = 0 THEN start ELSE ParseStep(ls, f[i - 1], i)]
  <2>1. \E h : h = [i \in 0..n |-> IF i = 0 THEN start ELSE ParseStep(ls, h[i - 1], i)]
    BY <1>5
  <2> QED BY <2>1, Zenon DEF Parsed, ParseStep
<1> HIDE DEF f
<1> DEFINE Wrong == {i \in 0..n : f[i] # g[i]}
<1>7. ASSUME Wrong # {} PROVE FALSE
  <2>1. Wrong \subseteq Nat
    OBVIOUS
  <2>2. PICK i \in Wrong : \A j \in Wrong : i <= j
    <3> HIDE DEF Wrong
    <3> QED BY <1>7, <2>1, Smallest
  <2>3. i # 0
    BY <1>3, <1>6, <2>2
  <2>4. i \in 1..n /\ i - 1 \in 0..n /\ i - 1 \notin Wrong
    BY <2>2, <2>3
  <2>5. f[i] = ParseStep(ls, f[i - 1], i) /\ g[i] = ParseStep(ls, g[i - 1], i)
    BY <1>4, <1>6, <2>4
  <2> QED BY <2>2, <2>4, <2>5
<1>8. Parse(ls) = g[n]
  BY <1>1, <1>7
<1>9. /\ Parse(ls).records = RecordsOf(ls, b, count(n)) /\ Parse(ls).error = error(n)
  BY <1>8 DEF g
<1>10. count(n) = m - 1 - b /\ error(n) = IF m <= n THEN <<Fault(ls[m]), m>> ELSE <<>>
  OBVIOUS
<1> QED BY <1>9, <1>10

\* The open calls during a record and after it.
During(open, event) == IF event.kind = "callContract" THEN Append(open, event.fields["to"]) ELSE open
AfterEvent(open, event) ==
    LET calls == During(open, event)
    IN  IF event.kind = "endWasm" /\ calls # <<>> THEN Front(calls) ELSE calls

OpenCalls(records) ==
    LET at(open, event) == IF event.kind = "callContract" THEN Append(open, event.fields["to"]) ELSE open
        after[i \in 0..Len(records)] ==
            IF i = 0 THEN <<>>
            ELSE LET calls == at(after[i - 1], records[i].event)
                 IN  IF records[i].event.kind = "endWasm" /\ calls # <<>> THEN Front(calls) ELSE calls
    IN  after

\* The calls found open are any that follow one another as the events of the trace say.
LEMMA CallsAtFollows ==
    ASSUME NEW records, NEW n \in Nat, n = Len(records), DOMAIN records = 1..n,
           NEW open, open[0] = <<>>,
           \A i \in 1..n : open[i] = AfterEvent(open[i - 1], records[i].event)
    PROVE  CallsAt(records) = [i \in 1..n |-> During(open[i - 1], records[i].event)]
<1> DEFINE f == OpenCalls(records)
           g == [i \in 0..n |-> open[i]]
<1>1. CallsAt(records) = [i \in DOMAIN records |-> During(f[i - 1], records[i].event)]
  BY Zenon DEF CallsAt, OpenCalls, During
<1>2. g = [i \in 0..n |-> IF i = 0 THEN <<>> ELSE AfterEvent(g[i - 1], records[i].event)]
  <2>1. \A i \in 0..n : g[i] = IF i = 0 THEN <<>> ELSE AfterEvent(g[i - 1], records[i].event)
    BY DEF g
  <2>2. DOMAIN g = 0..n /\ g = [i \in 0..n |-> g[i]]
    OBVIOUS
  <2> HIDE DEF g
  <2> QED BY <2>1, <2>2
<1>3. f = [i \in 0..n |-> IF i = 0 THEN <<>> ELSE AfterEvent(f[i - 1], records[i].event)]
  <2>1. \E h : h = [i \in 0..n |-> IF i = 0 THEN <<>> ELSE AfterEvent(h[i - 1], records[i].event)]
    <3> HIDE DEF g
    <3> QED BY <1>2
  <2> QED BY <2>1, Zenon DEF OpenCalls, AfterEvent, During
<1> HIDE DEF f
<1> DEFINE Wrong == {i \in 0..n : f[i] # open[i]}
<1>4. ASSUME Wrong # {} PROVE FALSE
  <2>1. Wrong \subseteq Nat
    OBVIOUS
  <2>2. PICK i \in Wrong : \A j \in Wrong : i <= j
    <3> HIDE DEF Wrong
    <3> QED BY <1>4, <2>1, Smallest
  <2>3. i # 0
    BY <1>3, <2>2
  <2>4. i \in 1..n /\ i - 1 \in 0..n /\ i - 1 \notin Wrong
    BY <2>2, <2>3
  <2>5. f[i] = AfterEvent(f[i - 1], records[i].event)
    BY <1>3, <2>4
  <2> QED BY <2>2, <2>4, <2>5
<1>5. \A i \in 1..n : f[i - 1] = open[i - 1]
  BY <1>4
<1> QED BY <1>1, <1>5

\* What the gate says of a record, in terms of the calls it ran in and of the listing.
GatedAs(records, dis, calls, i) ==
    LET pos == records[i].pos
        stands == \E k \in 1..Len(dis.instructions) :
                     /\ dis.instructions[k].address = pos[1]
                     /\ records[i].instr \in {"unknown", dis.instructions[k].text}
        inRoot == calls[i] = <<>> \/ Last(calls[i]) = Root
    IN  IF inRoot /\ pos # <<>> /\ stands THEN pos ELSE <<>>

\* The positions a session trusts of records that ran in those calls.
LEMMA PositionsFollow ==
    ASSUME NEW records, NEW n \in Nat, n = Len(records), DOMAIN records = 1..n,
           NEW calls, CallsAt(records) = [i \in 1..n |-> calls[i]],
           NEW dis, Increasing(dis), HasPositions(records),
           NEW first \in 1..n, calls[first] = <<Root>>, \A i \in 1..(first - 1) : calls[i] = <<>>,
           \A i \in 1..n : calls[i] # <<>> => Last(calls[i]) # "none",
           NEW i \in 1..n
    PROVE  ValidatedPositions(records, dis)[i] = GatedAs(records, dis, calls, i)
<1> DEFINE contracts == ContractsAt(records)
           known == {j \in 1..Len(contracts) : contracts[j] # "none"}
           root == contracts[IF known # {} THEN Min(known) ELSE 0]
           at == IndexForAddress(dis, records[i].pos[1])
           code == dis.instructions
           stands == /\ at > 0 /\ code[at].address = records[i].pos[1]
                     /\ records[i].instr \in {"unknown", code[at].text}
<1>1. contracts = [j \in 1..n |-> Executing(calls[j])] /\ Len(contracts) = n
  <2>0. contracts = [j \in 1..n |-> Executing(calls[j])]
    BY DEF ContractsAt
  <2>1. contracts \in [1..n -> {Executing(calls[j]) : j \in 1..n}]
    BY <2>0
  <2> HIDE DEF contracts
  <2> QED BY <2>0, <2>1, SeqDef, LenProperties
<1>2. Root # "none"
  BY GateAssumption
<1>3. Last(<<Root>>) = Root
  BY DEF Last
<1>4. \A j \in 1..n : contracts[j] = (IF calls[j] = <<>> THEN "none" ELSE Last(calls[j]))
  BY <1>1 DEF Executing
<1>5. contracts[first] = Root /\ \A j \in 1..(first - 1) : contracts[j] = "none"
  <2>1. <<Root>> # <<>> /\ \A j \in 1..(first - 1) : j \in 1..n
    OBVIOUS
  <2> QED BY <1>3, <1>4, <2>1
<1> HIDE DEF contracts
<1>6. known \subseteq Nat /\ first \in known /\ \A j \in known : first <= j
  <2>1. Len(contracts) = n
    BY <1>1
  <2>2. contracts[first] # "none"
    BY <1>2, <1>5
  <2>3. \A j \in 1..n : contracts[j] # "none" => first <= j
    <3> SUFFICES ASSUME NEW j \in 1..n, contracts[j] # "none", j < first PROVE FALSE
      OBVIOUS
    <3>1. j \in 1..(first - 1)
      OBVIOUS
    <3> QED BY <1>5, <3>1
  <2> QED BY <2>1, <2>2, <2>3
<1>7. Min(known) = first
  <2>1. Min(known) \in known /\ \A j \in known : Min(known) <= j
    <3> HIDE DEF known
    <3> QED BY <1>6, MinIsLeast
  <2>2. Min(known) \in Nat /\ first <= Min(known) /\ Min(known) <= first
    BY <1>6, <2>1
  <2> HIDE DEF known
  <2> QED BY <2>2
<1>8. root = Root
  BY <1>5, <1>6, <1>7
<1>9. ValidatedPositions(records, dis)[i] =
        IF (contracts[i] = "none" \/ contracts[i] = root) /\ records[i].pos # <<>> /\ stands
        THEN records[i].pos ELSE <<>>
  BY DEF ValidatedPositions, SelectInSeq, contracts
<1>10. (contracts[i] = "none" \/ contracts[i] = root) <=> (calls[i] = <<>> \/ Last(calls[i]) = Root)
  BY <1>4, <1>8
<1>11. ASSUME records[i].pos # <<>>
       PROVE  stands <=> \E k \in 1..Len(code) :
                            code[k].address = records[i].pos[1] /\ records[i].instr \in {"unknown", code[k].text}
  <2>1. records[i].pos[1] \in Int
    BY <1>11 DEF HasPositions
  <2>2. at \in 0..Len(code) /\ \A k \in 1..Len(code) : code[k].address = records[i].pos[1] => at = k
    BY <2>1, IndexStands
  <2> HIDE DEF at
  <2>3. Len(code) \in Nat
    BY LenProperties DEF Increasing
  <2> QED BY <2>2, <2>3
<1> HIDE DEF root, stands
<1> QED BY <1>9, <1>10, <1>11 DEF GatedAs, code

-----------------------------------------------------------------------------
(***************************************************************************)
(* The trace of a run of the host.                                         *)
(***************************************************************************)
IsSeq(s) == \E S : s \in Seq(S)

LEMMA IsSeqAppends ==
    ASSUME NEW s, IsSeq(s), NEW e
    PROVE  /\ Len(s) \in Nat /\ DOMAIN s = 1..Len(s)
           /\ IsSeq(Append(s, e)) /\ Len(Append(s, e)) = Len(s) + 1
           /\ DOMAIN Append(s, e) = 1..(Len(s) + 1)
           /\ \A i \in 1..Len(s) : Append(s, e)[i] = s[i]
           /\ Append(s, e)[Len(s) + 1] = e
<1>1. PICK S : s \in Seq(S)
  BY DEF IsSeq
<1> DEFINE T == S \union {e}
<1>2. s \in [1..Len(s) -> T] /\ Len(s) \in Nat
  BY <1>1, LenProperties
<1>3. s \in Seq(T) /\ e \in T
  BY <1>2, SeqDef
<1> HIDE DEF T
<1>4. /\ Append(s, e) \in Seq(T) /\ Len(Append(s, e)) = Len(s) + 1
      /\ \A i \in 1..Len(s) : Append(s, e)[i] = s[i]
      /\ Append(s, e)[Len(s) + 1] = e
  BY <1>3, AppendProperties
<1>5. DOMAIN s = 1..Len(s) /\ DOMAIN Append(s, e) = 1..Len(Append(s, e))
  BY <1>3, <1>4, LenProperties
<1> QED BY <1>2, <1>4, <1>5 DEF IsSeq

\* A blank line before the first one moves the others on by one.
LEMMA IsSeqShifts ==
    ASSUME NEW s, IsSeq(s), NEW e
    PROVE  /\ IsSeq(<<e>> \o s) /\ Len(<<e>> \o s) = Len(s) + 1
           /\ (<<e>> \o s)[1] = e
           /\ \A i \in 1..Len(s) : (<<e>> \o s)[i + 1] = s[i]
<1>1. PICK S : s \in Seq(S)
  BY DEF IsSeq
<1> DEFINE T == S \union {e}
<1>2. s \in [1..Len(s) -> T] /\ Len(s) \in Nat
  BY <1>1, LenProperties
<1>3. s \in Seq(T) /\ <<e>> \in Seq(T) /\ Len(<<e>>) = 1 /\ <<e>>[1] = e
  BY <1>2, SeqDef
<1> HIDE DEF T
<1>4. /\ <<e>> \o s \in Seq(T) /\ Len(<<e>> \o s) = 1 + Len(s)
      /\ \A i \in 1..(1 + Len(s)) : (<<e>> \o s)[i] = IF i <= 1 THEN <<e>>[i] ELSE s[i - 1]
  BY <1>3, ConcatProperties
<1> QED BY <1>2, <1>3, <1>4 DEF IsSeq

\* What the reader makes of a line, and what the host knew when it wrote it: an event
\* has no position and no memory, an instruction the ones it ran at.
Record(line) == ToTraceRecord(line.v)
InCode(record, t) ==
    \E offset \in DOMAIN Code[Last(t.calls)] :
        /\ t.at = <<"code", offset>> /\ record.pos = <<offset>>
        /\ record.instr = Code[Last(t.calls)][offset].traced
InGlobals(record, t) ==
    \E offset \in DOMAIN Initializers :
        /\ t.at = <<"globals", offset>> /\ record.pos = <<offset>>
        /\ record.instr = Initializers[offset]
ReadsAs(record, t) ==
    IF t.at = <<>> THEN record.pos = <<>> /\ record.mem = Unchanged
    ELSE /\ t.calls # <<>> /\ Last(t.calls) \in Contracts
         /\ record.event.kind = "none"
         /\ InCode(record, t) \/ InGlobals(record, t)
LineReads(line, t) ==
    /\ line.t = "object" /\ Fault(line) = t.fault
    /\ t.fault = "none" => ReadsAs(Record(line), t)

OpenCall == [contract : Contracts, memory : [Cells -> {0, 1}], fresh : BOOLEAN]

\* The host's calls start at the root, and every line reads as what was written.
TraceInv ==
    /\ IsSeq(lines) /\ IsSeq(truth) /\ Len(truth) = Len(lines)
    /\ \A k \in 1..Len(lines) : LineReads(lines[k], truth[k])
    /\ host \in Seq(OpenCall) /\ (host # <<>> => host[1].contract = Root)

\* What a write adds to a trace, on whatever host it is done.
LEMMA WriteAdds ==
    ASSUME IsSeq(lines) /\ IsSeq(truth) /\ Len(truth) = Len(lines), NEW obj, NEW calls, NEW at, NEW memory,
           Write(obj, calls, at, memory)
    PROVE  LET n == Len(lines)
           IN  /\ n \in Nat /\ DOMAIN lines = 1..n /\ DOMAIN truth = 1..n
               /\ IsSeq(lines') /\ IsSeq(truth') /\ Len(lines') = n + 1 /\ Len(truth') = n + 1
               /\ \A k \in 1..n : lines'[k] = lines[k] /\ truth'[k] = truth[k]
               /\ lines'[n + 1] = Json("object", Shaped(obj))
               /\ truth'[n + 1].calls = calls /\ truth'[n + 1].at = at
               /\ truth'[n + 1].memory = memory /\ truth'[n + 1].fault = FaultOf(obj)
<1> DEFINE t == [calls |-> calls, at |-> at, memory |-> memory, fault |-> FaultOf(obj)]
           line == Json("object", Shaped(obj))
<1>1. lines' = Append(lines, line) /\ truth' = Append(truth, t)
  BY DEF Write
<1>2. t.calls = calls /\ t.at = at /\ t.memory = memory /\ t.fault = FaultOf(obj)
  OBVIOUS
<1> HIDE DEF t, line
<1>3. /\ Len(lines) \in Nat /\ DOMAIN lines = 1..Len(lines)
      /\ IsSeq(lines') /\ Len(lines') = Len(lines) + 1
      /\ \A i \in 1..Len(lines) : lines'[i] = lines[i]
      /\ lines'[Len(lines) + 1] = line
  BY <1>1, IsSeqAppends
<1>4. /\ DOMAIN truth = 1..Len(truth)
      /\ IsSeq(truth') /\ Len(truth') = Len(truth) + 1
      /\ \A i \in 1..Len(truth) : truth'[i] = truth[i]
      /\ truth'[Len(truth) + 1] = t
  BY <1>1, IsSeqAppends
<1> QED BY <1>2, <1>3, <1>4 DEF line

\* Where a write of a line that reads as it should leaves the trace.
LEMMA WriteReads ==
    ASSUME TraceInv, NEW obj, NEW calls, NEW at, NEW memory, Write(obj, calls, at, memory),
           LineReads(Json("object", Shaped(obj)), [calls |-> calls, at |-> at, memory |-> memory, fault |-> FaultOf(obj)])
    PROVE  /\ IsSeq(lines)' /\ IsSeq(truth)' /\ Len(truth)' = Len(lines)'
           /\ \A k \in 1..Len(lines') : LineReads(lines'[k], truth'[k])
<1> DEFINE n == Len(lines)
           t == [calls |-> calls, at |-> at, memory |-> memory, fault |-> FaultOf(obj)]
<1>1. /\ n \in Nat
      /\ IsSeq(lines') /\ IsSeq(truth') /\ Len(lines') = n + 1 /\ Len(truth') = n + 1
      /\ \A k \in 1..n : lines'[k] = lines[k] /\ truth'[k] = truth[k]
      /\ lines'[n + 1] = Json("object", Shaped(obj))
      /\ truth'[n + 1].calls = calls /\ truth'[n + 1].at = at
      /\ truth'[n + 1].fault = FaultOf(obj)
  BY WriteAdds DEF TraceInv
<1>2. t.calls = calls /\ t.at = at /\ t.fault = FaultOf(obj)
  OBVIOUS
<1>3. LineReads(Json("object", Shaped(obj)), t)
  OBVIOUS
<1> HIDE DEF t
<1>4. LineReads(lines'[n + 1], truth'[n + 1])
  BY <1>1, <1>2, <1>3 DEF LineReads, ReadsAs, InCode, InGlobals
<1>5. \A k \in 1..n : LineReads(lines[k], truth[k])
  BY DEF TraceInv
<1> HIDE DEF n
<1> QED BY <1>1, <1>4, <1>5

\* A line of an event, and a line of an instruction, read as they should.
LEMMA EventLineReads ==
    ASSUME NEW kind, NEW said, IsHostEvent(kind, said), NEW calls, NEW memory
    PROVE  LineReads(Json("object", Shaped(Event(kind, said))),
                     [calls |-> calls, at |-> <<>>, memory |-> memory, fault |-> FaultOf(Event(kind, said))])
<1> DEFINE s == Shaped(Event(kind, said))
           fault == FaultOf(Event(kind, said))
           t == [calls |-> calls, at |-> <<>>, memory |-> memory, fault |-> fault]
<1>1. ReadsEvent(s, fault, kind, said)
  BY ShapedEvent
<1>2. t.at = <<>> /\ t.fault = fault
  OBVIOUS
<1> HIDE DEF s, fault, t
<1>3. Json("object", s).t = "object" /\ Json("object", s).v = s
  BY DEF Json
<1>4. LineReads(Json("object", s), t)
  BY <1>1, <1>2, <1>3 DEF ReadsEvent, LineReads, ReadsAs, Record
<1> QED BY <1>4 DEF t, s, fault

LEMMA InstrLineReads ==
    ASSUME NEW pos, NEW op, NEW memory, NEW calls, calls # <<>>, Last(calls) \in Contracts,
           NEW at,
           \/ at = <<"code", pos>> /\ pos \in DOMAIN Code[Last(calls)] /\ op = Code[Last(calls)][pos].traced
           \/ at = <<"globals", pos>> /\ pos \in DOMAIN Initializers /\ op = Initializers[pos]
    PROVE  LineReads(Json("object", Shaped(Instr(pos, op, memory))),
                     [calls |-> calls, at |-> at, memory |-> memory, fault |-> FaultOf(Instr(pos, op, memory))])
<1> DEFINE s == Shaped(Instr(pos, op, memory))
           fault == FaultOf(Instr(pos, op, memory))
           t == [calls |-> calls, at |-> at, memory |-> memory, fault |-> fault]
<1>1. ReadsInstr(s, fault, pos, op, memory)
  BY ShapedInstr
<1>2. t.calls = calls /\ t.at = at /\ t.fault = fault
  OBVIOUS
<1> HIDE DEF s, fault, t
<1>3. Json("object", s).t = "object" /\ Json("object", s).v = s
  BY DEF Json
<1>4. at # <<>>
  OBVIOUS
<1>5. fault = "none" => InCode(ToTraceRecord(s), t) \/ InGlobals(ToTraceRecord(s), t)
  BY <1>1, <1>2 DEF ReadsInstr, InCode, InGlobals
<1>6. LineReads(Json("object", s), t)
  BY <1>1, <1>2, <1>3, <1>4, <1>5 DEF ReadsInstr, LineReads, ReadsAs, Record
<1> QED BY <1>6 DEF t, s, fault

\* The open calls as the host knows them.
LEMMA CallsOfHost ==
    ASSUME host \in Seq(OpenCall)
    PROVE  /\ Calls \in Seq(Contracts) /\ Len(Calls) = Len(host)
           /\ \A k \in 1..Len(host) : Calls[k] = host[k].contract
           /\ host # <<>> => /\ Calls # <<>> /\ Len(host) \in Nat \ {0} /\ Last(host) \in OpenCall
                             /\ Last(host) = host[Len(host)]
                             /\ Last(Calls) = Last(host).contract /\ Last(Calls) \in Contracts
<1>1. DOMAIN host = 1..Len(host) /\ Len(host) \in Nat /\ \A k \in 1..Len(host) : host[k] \in OpenCall
  BY LenProperties, ElementOfSeq
<1>2. \A k \in 1..Len(host) : host[k].contract \in Contracts
  BY <1>1 DEF OpenCall
<1>3. Calls = [k \in 1..Len(host) |-> host[k].contract]
  BY <1>1 DEF Calls
<1>4. Calls \in [1..Len(host) -> Contracts]
  BY <1>2, <1>3
<1>5. Calls \in Seq(Contracts) /\ Len(Calls) = Len(host)
  <2> HIDE DEF Calls
  <2> QED BY <1>1, <1>4, SeqDef, LenProperties
<1>6. ASSUME host # <<>>
      PROVE  /\ Calls # <<>> /\ Len(host) \in Nat \ {0} /\ Last(host) \in OpenCall
             /\ Last(host) = host[Len(host)]
             /\ Last(Calls) = Last(host).contract /\ Last(Calls) \in Contracts
  <2>1. Len(host) # 0 /\ Last(host) = host[Len(host)]
    BY <1>6, EmptySeq, FrontProperties
  <2>2. Last(Calls) = Calls[Len(host)] /\ Calls # <<>>
    <3> HIDE DEF Calls
    <3> QED BY <1>1, <1>5, <2>1, EmptySeq DEF Last
  <2> QED BY <1>1, <1>2, <1>3, <2>1, <2>2
<1> QED BY <1>3, <1>5, <1>6

LEMMA TraceInit == Init => TraceInv
<1> SUFFICES ASSUME Init PROVE TraceInv
  OBVIOUS
<1>1. lines = <<>> /\ truth = <<>> /\ host = <<>>
  BY DEF Init
<1>2. IsSeq(<<>>)
  BY DEF IsSeq
<1> QED BY <1>1, <1>2 DEF TraceInv

\* The open calls stay calls that start at the root.
HostInv == host \in Seq(OpenCall) /\ (host # <<>> => host[1].contract = Root)

LEMMA HostSteps ==
    ASSUME HostInv
    PROVE  /\ \A contract \in Contracts : CallContract(contract) => HostInv'
           /\ \A offset : Execute(offset) => HostInv'
           /\ \A success \in BOOLEAN : EndWasm(success) => HostInv'
<1>1. ASSUME NEW contract \in Contracts, CallContract(contract) PROVE HostInv'
  <2> DEFINE call == [contract |-> contract, memory |-> Zeros, fresh |-> TRUE]
  <2>1. host' = Append(host, call) /\ (host = <<>> => contract = Root)
    BY <1>1 DEF CallContract
  <2>2. call \in OpenCall /\ call.contract = contract
    BY DEF OpenCall, Zeros
  <2> HIDE DEF call
  <2>3. /\ host' \in Seq(OpenCall) /\ Len(host) \in Nat
        /\ \A k \in 1..Len(host) : host'[k] = host[k]
        /\ host'[Len(host) + 1] = call
    BY <2>1, <2>2, AppendProperties, LenProperties DEF HostInv
  <2>4. host # <<>> => Len(host) # 0
    BY EmptySeq DEF HostInv
  <2>5. host = <<>> => Len(host) = 0
    BY EmptySeq
  <2>6. host'[1].contract = Root
    BY <2>1, <2>2, <2>3, <2>4, <2>5 DEF HostInv
  <2> QED BY <2>3, <2>6 DEF HostInv
<1>2. ASSUME NEW offset, Execute(offset) PROVE HostInv'
  <2> DEFINE top == Last(host)
             flips == Code[top.contract][offset].flips
             left == [top EXCEPT !.fresh = FALSE, !.memory = [c \in Cells |-> IF c \in flips THEN 1 - @[c] ELSE @[c]]]
  <2>1. host' = Append(Front(host), left) /\ host # <<>>
    BY <1>2 DEF Execute
  <2>2. top \in OpenCall /\ Len(host) \in Nat \ {0} /\ top = host[Len(host)]
    BY <2>1, FrontProperties DEF HostInv
  <2>3. left \in OpenCall /\ left.contract = top.contract
    <3> HIDE DEF top, flips
    <3>1. /\ top.contract \in Contracts /\ top.fresh \in BOOLEAN
          /\ top.memory \in [Cells -> {0, 1}]
      BY <2>2 DEF OpenCall
    <3> DEFINE memory == [c \in Cells |-> IF c \in flips THEN 1 - top.memory[c] ELSE top.memory[c]]
    <3>2. memory \in [Cells -> {0, 1}]
      BY <3>1
    <3>3. left = [top EXCEPT !.fresh = FALSE, !.memory = memory]
      OBVIOUS
    <3> HIDE DEF left, memory
    <3>4. left = [contract |-> top.contract, fresh |-> FALSE, memory |-> memory]
      BY <2>2, <3>3 DEF OpenCall
    <3> QED BY <3>1, <3>2, <3>4 DEF OpenCall
  <2> HIDE DEF left
  <2>4. /\ host' \in Seq(OpenCall) /\ Len(host') = Len(host)
        /\ \A k \in 1..(Len(host) - 1) : host'[k] = host[k]
        /\ host'[Len(host)] = left
    BY <2>1, <2>3, ReplaceLastProperties DEF HostInv
  <2>5. host'[1].contract = host[1].contract
    BY <2>2, <2>3, <2>4
  <2> QED BY <2>1, <2>4, <2>5 DEF HostInv
<1>3. ASSUME NEW success \in BOOLEAN, EndWasm(success) PROVE HostInv'
  <2>1. host' = Front(host) /\ host # <<>>
    BY <1>3 DEF EndWasm
  <2>2. /\ host' \in Seq(OpenCall) /\ Len(host') = Len(host) - 1 /\ Len(host) \in Nat
        /\ \A k \in 1..(Len(host) - 1) : host'[k] = host[k]
    BY <2>1, FrontProperties DEF HostInv
  <2>3. host' # <<>> => Len(host') # 0
    BY <2>2, EmptySeq
  <2>4. host' # <<>> => host'[1].contract = host[1].contract
    BY <2>2, <2>3
  <2> QED BY <2>1, <2>2, <2>4 DEF HostInv
<1> QED BY <1>1, <1>2, <1>3

LEMMA TraceNext == TraceInv /\ [Next]_vars => TraceInv'
<1> SUFFICES ASSUME TraceInv, [Next]_vars PROVE TraceInv'
  OBVIOUS
<1>1. HostInv /\ host \in Seq(OpenCall)
  BY DEF TraceInv, HostInv
<1>2. ASSUME NEW obj, NEW calls, NEW at, NEW memory, Write(obj, calls, at, memory),
             LineReads(Json("object", Shaped(obj)),
                       [calls |-> calls, at |-> at, memory |-> memory, fault |-> FaultOf(obj)]),
             HostInv'
      PROVE  TraceInv'
  BY <1>2, WriteReads DEF TraceInv, HostInv
<1>3. ASSUME UNCHANGED host PROVE HostInv'
  BY <1>1, <1>3 DEF HostInv
<1>4. ASSUME Baseline PROVE TraceInv'
  <2>1. Write(Event("ledger", <<>>), <<>>, <<>>, Quiet) /\ UNCHANGED host
    BY <1>4 DEF Baseline
  <2>2. IsHostEvent("ledger", <<>>)
    BY DEF IsHostEvent
  <2> QED BY <1>2, <1>3, <2>1, <2>2, EventLineReads
<1>5. ASSUME NEW contract \in Contracts, CallContract(contract) PROVE TraceInv'
  <2> DEFINE said == [to |-> Json("address", contract)]
  <2>1. Write(Event("callContract", said), Append(Calls, contract), <<>>, Quiet)
    BY <1>5 DEF CallContract
  <2>2. IsHostEvent("callContract", said)
    BY DEF IsHostEvent, Json
  <2>3. HostInv'
    BY <1>1, <1>5, HostSteps
  <2> HIDE DEF said
  <2> QED BY <1>2, <2>1, <2>2, <2>3, EventLineReads
<1>6. ASSUME NEW offset \in DOMAIN Initializers, Initialize(offset) PROVE TraceInv'
  <2> DEFINE op == Initializers[offset]
             memory == Last(host).memory
             at == <<"globals", offset>>
  <2>1. Write(Instr(offset, op, memory), Calls, at, memory) /\ UNCHANGED host /\ host # <<>>
    BY <1>6 DEF Initialize
  <2>2. Calls # <<>> /\ Last(Calls) \in Contracts
    BY <1>1, <2>1, CallsOfHost
  <2>3. at = <<"globals", offset>> /\ op = Initializers[offset]
    OBVIOUS
  <2> HIDE DEF op, memory, at
  <2>4. LineReads(Json("object", Shaped(Instr(offset, op, memory))),
                  [calls |-> Calls, at |-> at, memory |-> memory, fault |-> FaultOf(Instr(offset, op, memory))])
    BY <2>2, <2>3, InstrLineReads
  <2> QED BY <1>2, <1>3, <2>1, <2>4
<1>7. ASSUME NEW offset, Execute(offset) PROVE TraceInv'
  <2> DEFINE top == Last(host)
             op == Code[top.contract][offset].traced
             memory == top.memory
             at == <<"code", offset>>
  <2>1. Write(Instr(offset, op, memory), Calls, at, memory) /\ host # <<>> /\ offset \in DOMAIN Code[top.contract]
    BY <1>7 DEF Execute
  <2>2. Calls # <<>> /\ Last(Calls) \in Contracts /\ Last(Calls) = top.contract
    BY <1>1, <2>1, CallsOfHost
  <2>3. at = <<"code", offset>> /\ op = Code[Last(Calls)][offset].traced /\ offset \in DOMAIN Code[Last(Calls)]
    BY <2>1, <2>2
  <2>5. HostInv'
    BY <1>1, <1>7, HostSteps
  <2> HIDE DEF op, memory, at, top
  <2>4. LineReads(Json("object", Shaped(Instr(offset, op, memory))),
                  [calls |-> Calls, at |-> at, memory |-> memory, fault |-> FaultOf(Instr(offset, op, memory))])
    BY <2>2, <2>3, InstrLineReads
  <2> QED BY <1>2, <2>1, <2>4, <2>5
<1>8. ASSUME StorageEvent PROVE TraceInv'
  <2> DEFINE said == [operation |-> Json("string", "put"), args |-> Json("scvals", <<1, 2>>)]
  <2>1. Write(Event("contractData", said), Calls, <<>>, Quiet) /\ UNCHANGED host
    BY <1>8 DEF StorageEvent
  <2>2. IsHostEvent("contractData", said)
    BY DEF IsHostEvent
  <2> HIDE DEF said
  <2> QED BY <1>2, <1>3, <2>1, <2>2, EventLineReads
<1>9. ASSUME NEW success \in BOOLEAN, EndWasm(success) PROVE TraceInv'
  <2> DEFINE said == [success |-> Json("bool", success)]
  <2>1. Write(Event("endWasm", said), Calls, <<>>, Quiet)
    BY <1>9 DEF EndWasm
  <2>2. IsHostEvent("endWasm", said)
    BY DEF IsHostEvent, Json
  <2>3. HostInv'
    BY <1>1, <1>9, HostSteps
  <2> HIDE DEF said
  <2> QED BY <1>2, <2>1, <2>2, <2>3, EventLineReads
<1>10. ASSUME UNCHANGED <<host, lines, truth>> PROVE TraceInv'
  BY <1>10 DEF TraceInv, LineReads, ReadsAs, InCode, InGlobals
<1>11. ASSUME NEW form \in {"rpc", "file", "cut"}, NEW wasm \in Wasms, Load(form, wasm) PROVE TraceInv'
  BY <1>10, <1>11 DEF Load
<1>12. ASSUME UNCHANGED vars PROVE TraceInv'
  BY <1>10, <1>12 DEF vars
<1> QED BY <1>4, <1>5, <1>6, <1>7, <1>8, <1>9, <1>11, <1>12 DEF Next

-----------------------------------------------------------------------------
(***************************************************************************)
(* A session that loads the trace.                                         *)
(***************************************************************************)
Bad == {i \in DOMAIN truth : truth[i].fault # "none"}
Shift(form) == IF form = "file" THEN 1 ELSE 0
FirstBad == CHOOSE i \in Bad : \A j \in Bad : i <= j
Refusal(form) ==
    IF Bad # {} THEN <<truth[FirstBad].fault, FirstBad + Shift(form)>>
    ELSE IF form = "cut" THEN <<"malformed", Len(lines) + 1>> ELSE <<>>

\* What is read of a trace of which every line is sound.
Records == RecordsOf(lines, 0, Len(lines))

\* The lines received, and the ones among them that the host wrote.
LEMMA ReceivedLines ==
    ASSUME TraceInv, NEW form \in {"rpc", "file", "cut"}
    PROVE  LET n == Len(lines)
               b == Shift(form)
               received == Received(form)
           IN  /\ n \in Nat /\ b \in 0..1
               /\ Len(received) = n + b + (IF form = "cut" THEN 1 ELSE 0)
               /\ b = 1 => received[1].t = "blank"
               /\ \A k \in 1..n : received[k + b] = lines[k]
               /\ form = "cut" => received[n + 1].t = "text"
<1> DEFINE n == Len(lines)
<1>1. IsSeq(lines) /\ n \in Nat
  BY IsSeqAppends DEF TraceInv
<1>2. CASE form = "rpc"
  BY <1>1, <1>2 DEF Received, Shift
<1>3. CASE form = "file"
  <2> DEFINE e == Json("blank", 0)
  <2>1. Received(form) = <<e>> \o lines
    BY <1>3 DEF Received
  <2>2. e.t = "blank"
    BY DEF Json
  <2> HIDE DEF e
  <2>3. /\ Len(<<e>> \o lines) = n + 1 /\ (<<e>> \o lines)[1] = e
        /\ \A i \in 1..n : (<<e>> \o lines)[i + 1] = lines[i]
    BY <1>1, IsSeqShifts
  <2> QED BY <1>1, <1>3, <2>1, <2>2, <2>3 DEF Shift
<1>4. CASE form = "cut"
  <2> DEFINE e == Json("text", 0)
  <2>1. Received(form) = Append(lines, e)
    BY <1>4 DEF Received
  <2>2. e.t = "text"
    BY DEF Json
  <2> HIDE DEF e
  <2>3. /\ Len(Append(lines, e)) = n + 1 /\ Append(lines, e)[n + 1] = e
        /\ \A i \in 1..n : Append(lines, e)[i] = lines[i]
    BY <1>1, IsSeqAppends
  <2> QED BY <1>1, <1>4, <2>1, <2>2, <2>3 DEF Shift
<1> QED BY <1>2, <1>3, <1>4

LEMMA RecordsShift ==
    ASSUME NEW ls, NEW received, NEW b \in Nat, NEW n \in Nat, \A k \in 1..n : received[k + b] = ls[k]
    PROVE  RecordsOf(received, b, n) = RecordsOf(ls, 0, n)
BY DEF RecordsOf

\* The first bad line, in the order of the trace.
LEMMA FirstBadIsFirst ==
    ASSUME TraceInv, Bad # {}
    PROVE  /\ FirstBad \in 1..Len(lines) /\ truth[FirstBad].fault # "none"
           /\ \A i \in 1..(FirstBad - 1) : truth[i].fault = "none"
<1>1. DOMAIN truth = 1..Len(lines) /\ Len(lines) \in Nat
  BY IsSeqAppends DEF TraceInv
<1>2. Bad \subseteq Nat /\ Bad \subseteq 1..Len(lines)
  BY <1>1 DEF Bad
<1>3. \E i \in Bad : \A j \in Bad : i <= j
  BY <1>2, Smallest
<1>4. FirstBad \in Bad /\ \A j \in Bad : FirstBad <= j
  BY <1>3 DEF FirstBad
<1>5. ASSUME NEW i \in 1..(FirstBad - 1) PROVE truth[i].fault = "none"
  <2>1. i \notin Bad /\ i \in 1..Len(lines)
    BY <1>2, <1>4
  <2> QED BY <1>1, <2>1 DEF Bad
<1> QED BY <1>2, <1>4, <1>5 DEF Bad

\* The parse of what is received: refused for the first bad line, or read whole.
LEMMA ReceivedParses ==
    ASSUME TraceInv, NEW form \in {"rpc", "file", "cut"}
    PROVE  /\ Parse(Received(form)).error = Refusal(form)
           /\ Refusal(form) = <<>> => Bad = {} /\ Parse(Received(form)).records = Records
<1> DEFINE n == Len(lines)
           b == Shift(form)
           ls == Received(form)
           l == n + b + (IF form = "cut" THEN 1 ELSE 0)
           m == IF Bad # {} THEN FirstBad + b ELSE n + b + 1
<1>1. /\ n \in Nat /\ b \in 0..1 /\ Len(ls) = l
      /\ b = 1 => ls[1].t = "blank"
      /\ \A k \in 1..n : ls[k + b] = lines[k]
      /\ form = "cut" => ls[n + 1].t = "text"
  BY ReceivedLines
<1>2. form = "cut" => b = 0
  BY DEF Shift
<1>3. DOMAIN truth = 1..n
  BY IsSeqAppends DEF TraceInv
<1>4. Bad # {} => /\ FirstBad \in 1..n /\ truth[FirstBad].fault # "none"
                  /\ \A i \in 1..(FirstBad - 1) : truth[i].fault = "none"
  BY FirstBadIsFirst
<1>5. Bad = {} => \A i \in 1..n : truth[i].fault = "none"
  BY <1>3 DEF Bad
<1>6. \A k \in 1..n : lines[k].t = "object" /\ Fault(lines[k]) = truth[k].fault
  BY DEF TraceInv, LineReads
<1> HIDE DEF n, b, ls
<1>7. l \in Nat /\ b \in 0..l /\ m \in (b + 1)..(l + 1)
  <2>1. l \in Nat /\ b \in 0..l
    BY <1>1
  <2>2. m \in (b + 1)..(l + 1)
    BY <1>1, <1>4, <2>1
  <2> QED BY <2>1, <2>2
<1>8. ASSUME NEW i \in 1..l PROVE (ls[i].t = "blank") <=> (i <= b)
  <2>1. CASE i <= b
    <3>1. i = 1 /\ b = 1
      BY <1>1, <2>1
    <3> QED BY <1>1, <2>1, <3>1
  <2>2. CASE b < i /\ i <= n + b
    <3>1. i - b \in 1..n /\ i - b + b = i
      BY <1>1, <2>2
    <3>2. ls[i] = lines[i - b]
      BY <1>1, <3>1
    <3> QED BY <1>1, <1>6, <2>2, <3>1, <3>2
  <2>3. CASE i > n + b
    <3>1. form = "cut" /\ i = n + 1
      BY <1>1, <1>2, <2>3
    <3> QED BY <1>1, <2>3, <3>1
  <2> QED BY <1>1, <2>1, <2>2, <2>3
<1>9. ASSUME NEW i \in (b + 1)..(m - 1) PROVE Fault(ls[i]) = "none"
  <2>1. i - b \in 1..n /\ i - b + b = i /\ (Bad # {} => i - b \in 1..(FirstBad - 1))
    <3>1. b \in Nat /\ i \in Int /\ b + 1 <= i /\ i <= m - 1
      BY <1>1, <1>7
    <3>2. CASE Bad # {}
      <4>1. m = FirstBad + b /\ FirstBad \in Nat /\ FirstBad <= n
        BY <1>1, <1>4, <3>2
      <4> HIDE DEF m
      <4> QED BY <1>1, <3>1, <4>1
    <3>3. CASE Bad = {}
      BY <1>1, <3>1, <3>3
    <3> QED BY <3>2, <3>3
  <2>2. ls[i] = lines[i - b]
    BY <1>1, <2>1
  <2> QED BY <1>4, <1>5, <1>6, <2>1, <2>2
<1>10. ASSUME Bad # {}
       PROVE  m = FirstBad + b /\ m <= l /\ Fault(ls[m]) = truth[FirstBad].fault
  <2>1. m = FirstBad + b /\ FirstBad \in 1..n /\ b \in Nat
    BY <1>1, <1>4, <1>10
  <2>2. m <= l
    <3> HIDE DEF m
    <3> QED BY <1>1, <2>1
  <2>3. ls[m] = lines[FirstBad]
    BY <1>1, <2>1
  <2> HIDE DEF m
  <2> QED BY <1>6, <2>1, <2>2, <2>3
<1>11. Bad = {} /\ m <= l => form = "cut" /\ m = n + 1 /\ Fault(ls[m]) = "malformed"
  BY <1>1, <1>2 DEF Fault
<1>12. m <= l => Fault(ls[m]) # "none"
  BY <1>4, <1>10, <1>11
<1>13. /\ Parse(ls).error = IF m <= l THEN <<Fault(ls[m]), m>> ELSE <<>>
       /\ Parse(ls).records = RecordsOf(ls, b, m - 1 - b)
  <2> HIDE DEF l, m
  <2>1. l = Len(ls)
    BY <1>1 DEF l
  <2> QED BY <1>7, <1>8, <1>9, <1>12, <2>1, ParseFollows
<1>14. CASE Bad # {}
  <2>1. Refusal(form) = <<truth[FirstBad].fault, FirstBad + b>>
    BY <1>14 DEF Refusal, b
  <2> HIDE DEF l, m
  <2> QED BY <1>10, <1>13, <1>14, <2>1 DEF ls
<1>15. CASE Bad = {}
  <2>1. form = "cut" <=> m <= l
    BY <1>1, <1>15
  <2>2. Parse(ls).error = Refusal(form)
    BY <1>2, <1>11, <1>13, <1>15, <2>1 DEF Refusal, n
  <2>3. m - 1 - b = n
    BY <1>1, <1>15
  <2>4. RecordsOf(ls, b, n) = Records
    <3>1. RecordsOf(ls, b, n) = RecordsOf(lines, 0, n)
      <4>1. b \in Nat
        BY <1>1
      <4> QED BY <1>1, <4>1, RecordsShift
    <3> QED BY <3>1 DEF Records, n
  <2> QED BY <1>13, <1>15, <2>2, <2>3, <2>4 DEF ls
<1> QED BY <1>14, <1>15 DEF ls

Built(wasm) == IF wasm = <<>> THEN TraceDerived(Records) ELSE BuildArtifacts(wasm[1], Records)

LEMMA LoadSets ==
    ASSUME TraceInv, NEW form \in {"rpc", "file", "cut"}, NEW wasm \in Wasms, Load(form, wasm)
    PROVE  /\ view'.loaded /\ view'.form = form /\ view'.wasm = wasm /\ view'.error = Refusal(form)
           /\ UNCHANGED <<release, host, sent, lines, truth, outcome>>
           /\ view'.error = <<>> => Bad = {} /\ view'.records = Records /\ view'.built = Built(wasm)
           /\ outcome # "open" \/ Len(lines) = MaxRecords
<1> DEFINE parsed == Parse(Received(form))
           records == parsed.records
           built == IF parsed.error # <<>> THEN NothingBuilt
                    ELSE IF wasm = <<>> THEN TraceDerived(records) ELSE BuildArtifacts(wasm[1], records)
<1>1. /\ view' = [loaded |-> TRUE, form |-> form, wasm |-> wasm, error |-> parsed.error,
                  records |-> records, built |-> built]
      /\ UNCHANGED <<release, host, sent, lines, truth, outcome>>
      /\ outcome # "open" \/ Len(lines) = MaxRecords
  BY DEF Load
<1>2. parsed.error = Refusal(form) /\ (Refusal(form) = <<>> => Bad = {} /\ records = Records)
  BY ReceivedParses
<1>3. parsed.error = <<>> /\ records = Records => built = Built(wasm)
  BY DEF Built
<1> HIDE DEF built, parsed
<1> QED BY <1>1, <1>2, <1>3

\* A step of the host leaves a session that has nothing yet; nothing follows a load.
LEMMA NothingAfterLoad ==
    ASSUME [Next]_vars
    PROVE  \/ UNCHANGED vars
           \/ ~view'.loaded
           \/ \E form \in {"rpc", "file", "cut"}, wasm \in Wasms : Load(form, wasm)
<1>1. ASSUME NEW obj, NEW calls, NEW at, NEW memory, Write(obj, calls, at, memory) PROVE ~view'.loaded
  BY <1>1 DEF Write
<1> QED BY <1>1 DEF Next, Baseline, CallContract, Initialize, Execute, StorageEvent, EndWasm

LEMMA NotLoadedAtFirst == Init => ~view.loaded
BY DEF Init, NoView

\* A trace is refused for the core of a record and never for its event, whatever the
\* release of the host does to those; the error names the first line at fault, blank
\* lines counted (toTraceRecords, parseTraceJsonl).
THEOREM AlwaysRefusedForCoreOnly == Spec => []RefusedForCoreOnly
<1>1. Init => RefusedForCoreOnly
  BY NotLoadedAtFirst DEF RefusedForCoreOnly
<1>2. TraceInv /\ RefusedForCoreOnly /\ [Next]_vars => RefusedForCoreOnly'
  <2> SUFFICES ASSUME TraceInv, RefusedForCoreOnly, [Next]_vars PROVE RefusedForCoreOnly'
    OBVIOUS
  <2>1. ASSUME UNCHANGED vars PROVE RefusedForCoreOnly'
    BY <2>1 DEF vars, RefusedForCoreOnly
  <2>2. ASSUME ~view'.loaded PROVE RefusedForCoreOnly'
    BY <2>2 DEF RefusedForCoreOnly
  <2>3. ASSUME NEW form \in {"rpc", "file", "cut"}, NEW wasm \in Wasms, Load(form, wasm)
        PROVE  RefusedForCoreOnly'
    <3>1. /\ view'.form = form /\ view'.error = Refusal(form)
          /\ UNCHANGED <<lines, truth>>
      BY <2>3, LoadSets
    <3> QED BY <3>1 DEF RefusedForCoreOnly, Refusal, Bad, FirstBad, Shift
  <2> QED BY <2>1, <2>2, <2>3, NothingAfterLoad
<1> QED BY <1>1, <1>2, TraceInit, TraceNext, PTL DEF Spec

\* The records of a sound trace: one of every line.
LEMMA RecordsSound ==
    ASSUME TraceInv, Bad = {}
    PROVE  /\ Len(lines) \in Nat /\ Len(Records) = Len(lines)
           /\ DOMAIN Records = 1..Len(lines) /\ DOMAIN truth = 1..Len(lines)
           /\ \A k \in 1..Len(lines) :
                 /\ Records[k] = Record(lines[k]) /\ truth[k].fault = "none"
                 /\ ReadsAs(Records[k], truth[k])
           /\ HasPositions(Records)
<1> DEFINE n == Len(lines)
<1>1. n \in Nat /\ DOMAIN truth = 1..n
  BY IsSeqAppends DEF TraceInv
<1>2. Records = [k \in 1..n |-> Record(lines[k])]
  BY <1>1 DEF Records, RecordsOf, Record
<1>3. IsSeq(Records) /\ Len(Records) = n
  <2> DEFINE S == {Record(lines[k]) : k \in 1..n}
  <2>1. Records \in [1..n -> S]
    BY <1>2
  <2> HIDE DEF n, S
  <2>2. Records \in Seq(S)
    BY <1>1, <2>1, SeqDef
  <2> QED BY <1>1, <2>1, <2>2, LenProperties DEF IsSeq
<1>4. ASSUME NEW k \in 1..n
      PROVE  Records[k] = Record(lines[k]) /\ truth[k].fault = "none" /\ ReadsAs(Records[k], truth[k])
  <2>1. truth[k].fault = "none"
    BY <1>1 DEF Bad
  <2>2. LineReads(lines[k], truth[k])
    BY DEF TraceInv
  <2> QED BY <1>2, <2>1, <2>2 DEF LineReads
<1>5. ASSUME NEW k \in 1..n PROVE Records[k].pos = <<>> \/ \E o \in Nat : Records[k].pos = <<o>>
  <2>1. ReadsAs(Records[k], truth[k])
    BY <1>4
  <2>2. CASE truth[k].at = <<>>
    BY <2>1, <2>2 DEF ReadsAs
  <2>3. CASE InCode(Records[k], truth[k]) /\ Last(truth[k].calls) \in Contracts
    BY <2>3, CodeAssumption DEF InCode
  <2>4. CASE InGlobals(Records[k], truth[k])
    BY <2>4, CodeAssumption DEF InGlobals
  <2> QED BY <2>1, <2>2, <2>3, <2>4 DEF ReadsAs
<1>6. DOMAIN Records = 1..n
  BY <1>2
<1> HIDE DEF n
<1>7. HasPositions(Records)
  BY <1>3, <1>5, <1>6 DEF HasPositions, IsSeq
<1> QED BY <1>1, <1>3, <1>4, <1>6, <1>7 DEF n

\* What is made of the records: the positions of a readable wasm are gated, the others
\* are the trace's own.
LEMMA BuiltOf ==
    ASSUME NEW wasm \in Wasms
    PROVE  IF wasm # <<>> /\ wasm[1].readable
           THEN /\ IsRootListing(FromWasm(wasm[1]))
                /\ Built(wasm).dis = FromWasm(wasm[1])
                /\ Built(wasm).positions = ValidatedPositions(Records, FromWasm(wasm[1]))
           ELSE /\ Built(wasm).dis = FromTrace(Records)
                /\ Built(wasm).positions = [i \in DOMAIN Records |-> Records[i].pos]
<1>1. wasm # <<>> => wasm[1].readable \in BOOLEAN /\ (wasm[1].readable => ListsRoot(wasm[1]))
  BY WasmAssumption
<1>2. CASE wasm # <<>> /\ wasm[1].readable
  <2>1. IsRootListing(FromWasm(wasm[1]))
    BY <1>1, <1>2, FromWasmLists
  <2>2. ~FromWasm(wasm[1]).refused
    BY <2>1 DEF IsRootListing
  <2> QED BY <1>2, <2>1, <2>2 DEF Built, BuildArtifacts
<1>3. CASE ~(wasm # <<>> /\ wasm[1].readable)
  BY <1>3 DEF Built, BuildArtifacts, TraceDerived
<1> QED BY <1>2, <1>3

\* A position that is trusted has an instruction to stand on.
LEMMA ValidatedStands ==
    ASSUME NEW records, HasPositions(records), NEW dis, Increasing(dis)
    PROVE  /\ DOMAIN ValidatedPositions(records, dis) = DOMAIN records
           /\ \A i \in DOMAIN records :
                 LET pos == ValidatedPositions(records, dis)[i]
                 IN  pos # <<>> => StartsAt(dis, pos)
<1> DEFINE validated == ValidatedPositions(records, dis)
<1>1. DOMAIN validated = DOMAIN records
  BY Zenon DEF ValidatedPositions
<1>2. ASSUME NEW i \in DOMAIN records, validated[i] # <<>>
      PROVE  StartsAt(dis, validated[i])
  <2> DEFINE pos == records[i].pos
             at == IndexForAddress(dis, pos[1])
  <2>1. /\ validated[i] = pos /\ pos # <<>>
        /\ at > 0 /\ dis.instructions[at].address = pos[1]
    BY <1>2 DEF ValidatedPositions
  <2>2. pos[1] \in Int
    BY <2>1 DEF HasPositions
  <2>3. at \in 0..Len(dis.instructions)
    BY <2>2, IndexStands
  <2>4. DOMAIN dis.instructions = 1..Len(dis.instructions) /\ Len(dis.instructions) \in Nat
    BY LenProperties DEF Increasing
  <2> HIDE DEF at, validated, pos
  <2> QED BY <2>1, <2>3, <2>4 DEF StartsAt
<1> QED BY <1>1, <1>2

\* Every position a session trusts is the first byte of an instruction it lists, with
\* wasm and without (validatedPositions, Disassembly.fromTrace).
THEOREM PositionsAlwaysListed == Spec => []PositionsListed
<1>1. Init => PositionsListed
  BY NotLoadedAtFirst DEF PositionsListed, Loaded
<1>2. TraceInv /\ PositionsListed /\ [Next]_vars => PositionsListed'
  <2> SUFFICES ASSUME TraceInv, PositionsListed, [Next]_vars PROVE PositionsListed'
    OBVIOUS
  <2>1. ASSUME UNCHANGED vars PROVE PositionsListed'
    BY <2>1 DEF vars, PositionsListed, Loaded
  <2>2. ASSUME ~view'.loaded PROVE PositionsListed'
    BY <2>2 DEF PositionsListed, Loaded
  <2>3. ASSUME NEW form \in {"rpc", "file", "cut"}, NEW wasm \in Wasms, Load(form, wasm), Loaded'
        PROVE  /\ ~view'.built.dis.refused
               /\ \A i \in DOMAIN view'.built.positions :
                     view'.built.positions[i] # <<>> => StartsAt(view'.built.dis, view'.built.positions[i])
    <3>1. Bad = {} /\ view'.built = Built(wasm)
      BY <2>3, LoadSets DEF Loaded
    <3>2. HasPositions(Records)
      BY <3>1, RecordsSound
    <3> DEFINE built == Built(wasm)
    <3>3. CASE wasm # <<>> /\ wasm[1].readable
      <4>1. /\ IsRootListing(FromWasm(wasm[1]))
            /\ built.dis = FromWasm(wasm[1])
            /\ built.positions = ValidatedPositions(Records, FromWasm(wasm[1]))
        BY <3>3, BuiltOf
      <4>2. ~FromWasm(wasm[1]).refused /\ Increasing(FromWasm(wasm[1]))
        BY <4>1 DEF IsRootListing
      <4> HIDE DEF built
      <4> QED BY <3>1, <3>2, <4>1, <4>2, ValidatedStands DEF built
    <3>4. CASE ~(wasm # <<>> /\ wasm[1].readable)
      <4>1. /\ built.dis = FromTrace(Records)
            /\ built.positions = [i \in DOMAIN Records |-> Records[i].pos]
        BY <3>4, BuiltOf
      <4> HIDE DEF built
      <4> QED BY <3>1, <3>2, <4>1, FromTraceLists DEF built
    <3> QED BY <3>3, <3>4
  <2>4. ASSUME NEW form \in {"rpc", "file", "cut"}, NEW wasm \in Wasms, Load(form, wasm) PROVE PositionsListed'
    BY <2>3, <2>4 DEF PositionsListed, StartsAt
  <2> QED BY <2>1, <2>2, <2>4, NothingAfterLoad
<1> QED BY <1>1, <1>2, TraceInit, TraceNext, PTL DEF Spec

\* The last line of a transaction that ended is the end of its root call.
EndsAs(event, how) ==
    /\ event.kind = "endWasm"
    /\ how = "returned" => event.fields["success"] = TRUE
    /\ how = "trapped" => event.fields["success"] = FALSE

EndInv ==
    /\ outcome \in {"open", "returned", "trapped"}
    /\ outcome # "open" =>
          /\ Len(lines) \in Nat \ {0}
          /\ release # "endWasm" /\ truth[Len(lines)].fault = "none" =>
                EndsAs(Record(lines[Len(lines)]).event, outcome)

LEMMA EndInit == Init => EndInv
BY DEF Init, EndInv

LEMMA EndNext == TraceInv /\ EndInv /\ [Next]_vars => EndInv'
<1> SUFFICES ASSUME TraceInv, EndInv, [Next]_vars PROVE EndInv'
  OBVIOUS
<1>1. ASSUME outcome' = "open" PROVE EndInv'
  BY <1>1 DEF EndInv
<1>2. ASSUME UNCHANGED <<release, lines, truth, outcome>> PROVE EndInv'
  BY <1>2 DEF EndInv
<1>3. ASSUME NEW obj, NEW calls, NEW at, NEW memory, Write(obj, calls, at, memory), UNCHANGED outcome PROVE EndInv'
  BY <1>1, <1>3 DEF Write
<1>4. ASSUME NEW success \in BOOLEAN, EndWasm(success) PROVE EndInv'
  <2> DEFINE said == [success |-> Json("bool", success)]
             obj == Event("endWasm", said)
             n == Len(lines)
  <2>1. /\ Write(obj, Calls, <<>>, Quiet)
        /\ outcome' \in {"open", IF success THEN "returned" ELSE "trapped"}
    BY <1>4 DEF EndWasm
  <2>2. IsHostEvent("endWasm", said) /\ "success" \in DOMAIN said /\ said["success"].v = success
    BY DEF IsHostEvent, Json
  <2> HIDE DEF said
  <2>3. ReadsEvent(Shaped(obj), FaultOf(obj), "endWasm", said)
    BY <2>2, ShapedEvent
  <2> HIDE DEF obj
  <2>4. /\ n \in Nat /\ Len(lines') = n + 1
        /\ lines'[n + 1] = Json("object", Shaped(obj)) /\ truth'[n + 1].fault = FaultOf(obj)
    BY <2>1, WriteAdds DEF TraceInv
  <2>5. release' = release /\ Json("object", Shaped(obj)).v = Shaped(obj)
    BY <2>1 DEF Write, Json
  <2>6. Record(lines'[n + 1]) = ToTraceRecord(Shaped(obj))
    BY <2>4, <2>5 DEF Record
  <2> DEFINE event == ToTraceRecord(Shaped(obj)).event
  <2>7. release # "endWasm" /\ FaultOf(obj) = "none" => event.kind = "endWasm" /\ event.fields["success"] = success
    BY <2>2, <2>3 DEF ReadsEvent
  <2> HIDE DEF event
  <2>8. release # "endWasm" /\ FaultOf(obj) = "none" /\ outcome' # "open" => EndsAs(event, outcome')
    <3>1. CASE success = TRUE
      BY <2>1, <2>7, <3>1 DEF EndsAs
    <3>2. CASE success = FALSE
      BY <2>1, <2>7, <3>2 DEF EndsAs
    <3> QED BY <3>1, <3>2
  <2>9. outcome' \in {"open", "returned", "trapped"}
    BY <2>1
  <2>10. Len(lines') \in Nat \ {0}
    BY <2>4
  <2> HIDE DEF n
  <2> QED BY <2>4, <2>5, <2>6, <2>8, <2>9, <2>10 DEF EndInv, event
<1> QED BY <1>2, <1>3, <1>4 DEF Next, Baseline, CallContract, Initialize, Execute, StorageEvent, Load, vars

\* The result of the last call that ended is that of the last record.
LEMMA ReturnValueOfLast ==
    ASSUME NEW records, Len(records) \in Nat \ {0}, NEW how \in {"returned", "trapped"},
           EndsAs(records[Len(records)].event, how)
    PROVE  ReturnValue(records) = how
<1> DEFINE n == Len(records)
           ends == {i \in 1..n : records[i].event.kind = "endWasm"}
<1>1. ends \subseteq 0..n /\ n \in ends
  BY DEF EndsAs
<1>2. Max(ends) = n
  <2>1. Max(ends) \in ends /\ \A y \in ends : y <= Max(ends)
    <3> HIDE DEF ends
    <3> QED BY <1>1, MaxIsLargest
  <2>2. Max(ends) \in Int /\ Max(ends) <= n /\ n <= Max(ends)
    BY <1>1, <2>1
  <2> HIDE DEF ends
  <2> QED BY <2>2
<1>3. SelectLastInSeq(records, LAMBDA rec : rec.event.kind = "endWasm") = n
  <2>1. ends # {}
    BY <1>1
  <2> QED BY <1>2, <2>1 DEF SelectLastInSeq
<1>4. ReturnValue(records) = Outcome(records, n)
  BY <1>3 DEF ReturnValue
<1>5. Outcome(records, n) = IF records[n].event.fields["success"] THEN "returned" ELSE "trapped"
  BY DEF Outcome
<1>6. CASE how = "returned"
  BY <1>4, <1>5, <1>6 DEF EndsAs
<1>7. CASE how = "trapped"
  BY <1>4, <1>5, <1>7 DEF EndsAs
<1> QED BY <1>6, <1>7

\* The outcome a session reports is the root invocation's, not that of a call it made
\* (TraceModel.returnValue).
THEOREM OutcomeAlwaysExact == Spec => []OutcomeExact
<1>1. Init => OutcomeExact
  BY NotLoadedAtFirst DEF OutcomeExact, Loaded
<1>2. TraceInv /\ EndInv /\ OutcomeExact /\ [Next]_vars => OutcomeExact'
  <2> SUFFICES ASSUME TraceInv, EndInv, OutcomeExact, [Next]_vars PROVE OutcomeExact'
    OBVIOUS
  <2>1. ASSUME UNCHANGED vars PROVE OutcomeExact'
    BY <2>1 DEF vars, OutcomeExact, Loaded
  <2>2. ASSUME ~view'.loaded PROVE OutcomeExact'
    BY <2>2 DEF OutcomeExact, Loaded
  <2>3. ASSUME NEW form \in {"rpc", "file", "cut"}, NEW wasm \in Wasms, Load(form, wasm),
               Loaded', release' # "endWasm", outcome' # "open"
        PROVE  ReturnValue(view'.records) = outcome'
    <3> DEFINE n == Len(lines)
    <3>1. /\ Bad = {} /\ view'.records = Records
          /\ UNCHANGED <<release, lines, outcome>>
      BY <2>3, LoadSets DEF Loaded
    <3>2. n \in Nat \ {0} /\ outcome \in {"returned", "trapped"}
      BY <2>3, <3>1 DEF EndInv
    <3>3. Len(Records) = n /\ Records[n] = Record(lines[n]) /\ truth[n].fault = "none"
      BY <3>1, <3>2, RecordsSound
    <3>4. EndsAs(Record(lines[n]).event, outcome)
      BY <2>3, <3>1, <3>3 DEF EndInv
    <3> HIDE DEF n
    <3> QED BY <3>1, <3>2, <3>3, <3>4, ReturnValueOfLast
  <2>4. ASSUME NEW form \in {"rpc", "file", "cut"}, NEW wasm \in Wasms, Load(form, wasm) PROVE OutcomeExact'
    BY <2>3, <2>4 DEF OutcomeExact
  <2> QED BY <2>1, <2>2, <2>4, NothingAfterLoad
<1> QED BY <1>1, <1>2, TraceInit, TraceNext, EndInit, EndNext, PTL DEF Spec

-----------------------------------------------------------------------------
(***************************************************************************)
(* Linear memory.                                                          *)
(***************************************************************************)
Memory == [Cells -> {0, 1}]

\* A finite set as a sequence has every element.
LEMMA SetToSeqLists ==
    ASSUME NEW S, IsFiniteSet(S)
    PROVE  LET n == Cardinality(S)
               s == SetToSeq(S)
           IN  n \in Nat /\ s \in [1..n -> S] /\ \A e \in S : \E k \in 1..n : s[k] = e
<1> DEFINE n == Cardinality(S)
           s == SetToSeq(S)
<1>1. n \in Nat /\ ExistsBijection(1..n, S)
  BY FS_CardinalityType
<1>2. \E f \in [1..n -> S] : IsInjective(f)
  BY <1>1 DEF ExistsBijection, Bijection, Injection
<1>3. s \in [1..n -> S] /\ IsInjective(s)
  BY <1>2 DEF SetToSeq
<1> HIDE DEF s
<1>4. s \in Injection(1..n, S)
  BY <1>3 DEF Injection
<1>5. IsFiniteSet(1..n) /\ Cardinality(1..n) = Cardinality(S)
  BY <1>1, FS_Interval
<1>6. s \in Surjection(1..n, S)
  BY <1>4, <1>5, FS_Injection
<1> QED BY <1>1, <1>3, <1>6 DEF s, Surjection

\* Runs that give a memory: one for every cell that is not zero.
Gives(runs, memory) ==
    /\ Len(runs) \in Nat
    /\ \A k \in 1..Len(runs) : /\ runs[k].addr \in Cells /\ runs[k].bytes = <<memory[runs[k].addr]>>
    /\ \A c \in Cells : memory[c] # 0 => \E k \in 1..Len(runs) : runs[k].addr = c

LEMMA SnapshotGives ==
    ASSUME NEW memory \in Memory
    PROVE  Gives(Snapshot(memory).v, memory)
<1> DEFINE filled == {c \in Cells : memory[c] # 0}
           cells == SetToSeq(filled)
           n == Cardinality(filled)
           run(c) == [addr |-> c, bytes |-> <<memory[c]>>]
           runs == [k \in DOMAIN cells |-> [addr |-> cells[k], bytes |-> <<memory[cells[k]]>>]]
<1>1. Snapshot(memory).v = runs
  BY DEF Snapshot, Json
<1>2. IsFiniteSet(filled) /\ filled \subseteq Cells
  BY GateAssumption, FS_Subset
<1>3. n \in Nat /\ cells \in [1..n -> filled] /\ \A e \in filled : \E k \in 1..n : cells[k] = e
  <2> HIDE DEF filled
  <2> QED BY <1>2, SetToSeqLists
<1>4. \A c \in Cells : run(c).addr = c /\ run(c).bytes = <<memory[c]>>
  OBVIOUS
<1>5. runs = [k \in DOMAIN cells |-> run(cells[k])]
  OBVIOUS
<1>6. \A c \in Cells : memory[c] # 0 => c \in filled
  OBVIOUS
<1> HIDE DEF cells, n, run, runs, filled
<1>7. /\ runs \in [1..n -> {run(c) : c \in Cells}]
      /\ \A k \in 1..n : runs[k] = run(cells[k]) /\ cells[k] \in Cells
  BY <1>2, <1>3, <1>5
<1> DEFINE S == {run(c) : c \in Cells}
<1>8. Len(runs) = n
  <2> HIDE DEF S
  <2>1. runs \in Seq(S)
    BY <1>3, <1>7, SeqDef DEF S
  <2> QED BY <1>3, <1>7, <2>1, LenProperties
<1> HIDE DEF S
<1>9. \A k \in 1..n : runs[k].addr = cells[k] /\ runs[k].bytes = <<memory[cells[k]]>>
  BY <1>4, <1>7
<1>10. \A k \in 1..n : runs[k].addr \in Cells /\ runs[k].bytes = <<memory[runs[k].addr]>>
  BY <1>7, <1>9
<1>11. \A c \in Cells : memory[c] # 0 => \E k \in 1..n : runs[k].addr = c
  BY <1>3, <1>6, <1>9
<1> QED BY <1>1, <1>3, <1>8, <1>10, <1>11 DEF Gives

\* The byte that is read of runs at an address.
Byte(runs, a) ==
    LET last == SelectLastInSeq(runs, LAMBDA run : run.addr <= a /\ a < run.addr + Len(run.bytes))
    IN  IF last = 0 THEN 0 ELSE runs[last].bytes[a - runs[last].addr + 1]

LEMMA ByteReads ==
    ASSUME NEW memory \in Memory, NEW runs, Gives(runs, memory), NEW a \in Nat
    PROVE  Byte(runs, a) = IF a \in Cells THEN memory[a] ELSE 0
<1> DEFINE n == Len(runs)
           covers(k) == runs[k].addr <= a /\ a < runs[k].addr + Len(runs[k].bytes)
           I == {k \in 1..n : covers(k)}
           last == IF I # {} THEN Max(I) ELSE 0
<1>1. Byte(runs, a) = IF last = 0 THEN 0 ELSE runs[last].bytes[a - runs[last].addr + 1]
  BY DEF Byte, SelectLastInSeq
<1>2. n \in Nat /\ \A k \in 1..n : /\ runs[k].addr \in Nat /\ runs[k].addr \in Cells
                                   /\ runs[k].bytes = <<memory[runs[k].addr]>>
  BY GateAssumption DEF Gives
<1>3. ASSUME NEW x PROVE Len(<<x>>) = 1
  OBVIOUS
<1>4. ASSUME NEW k \in 1..n PROVE covers(k) <=> runs[k].addr = a
  <2>1. Len(runs[k].bytes) = 1
    BY <1>2, <1>3
  <2>2. runs[k].addr \in Nat
    BY <1>2
  <2> QED BY <2>1, <2>2
<1> HIDE DEF covers
<1>5. CASE I # {}
  <2>1. I \subseteq 0..n
    OBVIOUS
  <2>2. Max(I) \in I
    <3> HIDE DEF I
    <3> QED BY <1>2, <1>5, <2>1, MaxIsLargest
  <2>3. last \in 1..n /\ runs[last].addr = a
    BY <1>4, <1>5, <2>2
  <2> HIDE DEF last
  <2>4. a \in Cells /\ runs[last].bytes = <<memory[a]>> /\ last # 0 /\ a - runs[last].addr + 1 = 1
    BY <1>2, <2>3
  <2> QED BY <1>1, <2>4
<1>6. CASE I = {}
  <2>1. \A k \in 1..n : runs[k].addr # a
    BY <1>4, <1>6
  <2>2. a \in Cells => memory[a] = 0
    BY <2>1 DEF Gives
  <2> QED BY <1>1, <1>6, <2>2
<1> QED BY <1>5, <1>6

\* What a trace says that memory was at the k-th record: its last snapshot, or zero.
MemoryAt(records, k, memory) ==
    /\ memory \in Memory
    /\ \E m \in 0..k : /\ \A j \in (m + 1)..k : records[j].mem = Unchanged
                       /\ m = 0 => memory = Zeros
                       /\ m > 0 => records[m].mem = <<Snapshot(memory).v>>

LEMMA ReadMemoryReads ==
    ASSUME NEW records, NEW k \in Nat, NEW memory, MemoryAt(records, k, memory), NEW c \in Cells
    PROVE  ReadMemory(records, k, c, 2) =
             [b \in 1..2 |-> IF c + b - 1 \in Cells THEN memory[c + b - 1] ELSE 0]
<1>1. PICK m \in 0..k : /\ \A j \in (m + 1)..k : records[j].mem = Unchanged
                        /\ m = 0 => memory = Zeros
                        /\ m > 0 => records[m].mem = <<Snapshot(memory).v>>
  BY DEF MemoryAt
<1> DEFINE I == {j \in 1..k : records[j].mem # Unchanged}
           at == LastSnapshotAt(records, k)
           runs == IF at = 0 THEN <<>> ELSE records[at].mem[1]
<1>2. at = IF I # {} THEN Max(I) ELSE 0
  BY DEF LastSnapshotAt, SelectLastInSubSeq
<1>3. at = m
  <2>1. \A j \in I : j <= m
    BY <1>1
  <2>2. CASE m = 0
    BY <1>2, <2>1, <2>2
  <2>3. CASE m > 0
    <3>1. m \in I
      <4>1. records[m].mem = <<Snapshot(memory).v>>
        BY <1>1, <2>3
      <4>2. records[m].mem # Unchanged
        BY <4>1 DEF Unchanged
      <4> QED BY <2>3, <4>2
    <3>2. I \subseteq 0..k
      OBVIOUS
    <3> HIDE DEF I
    <3>3. Max(I) \in I /\ \A j \in I : j <= Max(I)
      BY <3>1, <3>2, MaxIsLargest
    <3>4. Max(I) <= m /\ m <= Max(I) /\ Max(I) \in Int /\ m \in Int
      <4>1. Max(I) \in 0..k
        BY <3>2, <3>3
      <4> QED BY <2>1, <3>1, <3>3, <4>1
    <3> QED BY <1>2, <3>1, <3>4
  <2> QED BY <1>1, <2>2, <2>3
<1> HIDE DEF at, I
<1>4. memory \in Memory
  BY DEF MemoryAt
<1>5. Gives(runs, memory)
  <2>1. CASE m = 0
    BY <1>1, <1>3, <2>1 DEF Gives, Zeros
  <2>2. CASE m > 0
    BY <1>1, <1>3, <1>4, <2>2, SnapshotGives
  <2> QED BY <2>1, <2>2
<1>6. c \in Nat
  BY GateAssumption
<1>7. ReadMemory(records, k, c, 2) = [b \in 1..2 |-> Byte(runs, c + b - 1)]
  <2>1. ~(2 <= 0 \/ c < 0)
    BY <1>6
  <2> QED BY <2>1, Zenon DEF ReadMemory, Byte, at
<1> HIDE DEF runs
<1>8. ASSUME NEW b \in 1..2 PROVE Byte(runs, c + b - 1) = IF c + b - 1 \in Cells THEN memory[c + b - 1] ELSE 0
  <2>1. c + b - 1 \in Nat
    BY <1>6
  <2> QED BY <1>4, <1>5, <2>1, ByteReads
<1> QED BY <1>7, <1>8

LEMMA MemoryAtKept ==
    ASSUME NEW r, NEW s, NEW k \in Nat, \A j \in 1..k : s[j] = r[j], NEW memory, MemoryAt(r, k, memory)
    PROVE  /\ MemoryAt(s, k, memory)
           /\ s[k + 1].mem = Unchanged => MemoryAt(s, k + 1, memory)
<1>1. PICK m \in 0..k : /\ \A j \in (m + 1)..k : r[j].mem = Unchanged
                        /\ m = 0 => memory = Zeros
                        /\ m > 0 => r[m].mem = <<Snapshot(memory).v>>
  BY DEF MemoryAt
<1>2. m > 0 => s[m].mem = <<Snapshot(memory).v>>
  <2>1. m > 0 => m \in 1..k
    OBVIOUS
  <2> QED BY <1>1, <2>1
<1>3. \A j \in (m + 1)..k : s[j].mem = Unchanged
  <2>1. \A j \in (m + 1)..k : j \in 1..k
    OBVIOUS
  <2> QED BY <1>1, <2>1
<1>4. memory \in Memory
  BY DEF MemoryAt
<1>5. MemoryAt(s, k, memory)
  BY <1>1, <1>2, <1>3, <1>4 DEF MemoryAt
<1>6. ASSUME s[k + 1].mem = Unchanged PROVE MemoryAt(s, k + 1, memory)
  <2>1. \A j \in (m + 1)..(k + 1) : s[j].mem = Unchanged
    <3>1. \A j \in (m + 1)..(k + 1) : j \in (m + 1)..k \/ j = k + 1
      OBVIOUS
    <3> QED BY <1>3, <1>6, <3>1
  <2>2. m \in 0..(k + 1)
    OBVIOUS
  <2> QED BY <1>1, <1>2, <1>4, <2>1, <2>2 DEF MemoryAt
<1> QED BY <1>5, <1>6

LEMMA MemoryAtSnapshot ==
    ASSUME NEW s, NEW k \in Nat, NEW memory \in Memory, s[k + 1].mem = <<Snapshot(memory).v>>
    PROVE  MemoryAt(s, k + 1, memory)
<1> DEFINE m == k + 1
<1>1. m \in 0..(k + 1) /\ m # 0 /\ \A j \in (m + 1)..(k + 1) : FALSE
  OBVIOUS
<1> QED BY <1>1 DEF MemoryAt

\* What the host last wrote of memory is what the trace says of it, and so was the
\* memory of every instruction when it was written.
MemInv ==
    /\ sent \in Memory
    /\ Bad = {} =>
          /\ MemoryAt(Records, Len(lines), sent)
          /\ \A k \in 1..Len(lines) : truth[k].at # <<>> => MemoryAt(Records, k, truth[k].memory)

LEMMA MemInit == Init => MemInv
<1> SUFFICES ASSUME Init PROVE MemInv
  OBVIOUS
<1>1. lines = <<>> /\ sent = Zeros /\ Zeros \in Memory
  BY DEF Init, Zeros, Memory
<1>2. Len(lines) = 0
  BY <1>1
<1>3. MemoryAt(Records, 0, sent)
  BY <1>1 DEF MemoryAt
<1> QED BY <1>1, <1>2, <1>3 DEF MemInv

\* A write keeps the records there are and adds one.
LEMMA RecordsGrow ==
    ASSUME TraceInv, NEW obj, NEW calls, NEW at, NEW memory, Write(obj, calls, at, memory)
    PROVE  LET n == Len(lines)
           IN  /\ n \in Nat /\ Len(lines') = n + 1
               /\ \A k \in 1..n : Records'[k] = Records[k] /\ truth'[k] = truth[k]
               /\ Records'[n + 1] = ToTraceRecord(Shaped(obj))
               /\ Bad' = {} => Bad = {} /\ FaultOf(obj) = "none"
<1> DEFINE n == Len(lines)
<1>1. /\ n \in Nat /\ DOMAIN truth = 1..n
      /\ IsSeq(truth') /\ Len(lines') = n + 1 /\ Len(truth') = n + 1
      /\ \A k \in 1..n : lines'[k] = lines[k] /\ truth'[k] = truth[k]
      /\ lines'[n + 1] = Json("object", Shaped(obj))
      /\ truth'[n + 1].fault = FaultOf(obj)
  BY WriteAdds DEF TraceInv
<1>2. /\ Records = [k \in 1..n |-> ToTraceRecord(lines[k].v)]
      /\ Records' = [k \in 1..(n + 1) |-> ToTraceRecord(lines'[k].v)]
  <2>1. /\ Records = [k \in 1..n |-> ToTraceRecord(lines[k + 0].v)]
        /\ Records' = [k \in 1..(n + 1) |-> ToTraceRecord(lines'[k + 0].v)]
    BY <1>1 DEF Records, RecordsOf
  <2>2. \A k \in 1..(n + 1) : k + 0 = k
    BY <1>1
  <2> HIDE DEF n
  <2> QED BY <1>1, <2>1, <2>2
<1>3. DOMAIN truth' = 1..(n + 1)
  BY <1>1, LenProperties DEF IsSeq
<1>4. Json("object", Shaped(obj)).v = Shaped(obj)
  BY DEF Json
<1> HIDE DEF n
<1>5. Records'[n + 1] = ToTraceRecord(Shaped(obj))
  BY <1>1, <1>2, <1>4
<1>6. \A k \in 1..n : Records'[k] = Records[k]
  BY <1>1, <1>2
<1>7. Bad' = {} => Bad = {} /\ FaultOf(obj) = "none"
  <2>1. Bad' = {k \in 1..(n + 1) : truth'[k].fault # "none"} /\ Bad = {k \in 1..n : truth[k].fault # "none"}
    BY <1>1, <1>3 DEF Bad
  <2> QED BY <1>1, <2>1
<1> QED BY <1>1, <1>5, <1>6, <1>7 DEF n

\* Where a write leaves memory: with a snapshot of what it was written at, or none
\* where that was known already or is of no matter.
LEMMA WriteRemembers ==
    ASSUME TraceInv, MemInv, NEW obj, NEW calls, NEW at, NEW memory, Write(obj, calls, at, memory),
           Get(obj, "mem").t = "runs" => memory \in Memory,
           Get(obj, "mem").t # "runs" /\ at # <<>> => memory = sent,
           FaultOf(obj) = "none" =>
              ToTraceRecord(Shaped(obj)).mem =
                 IF Get(obj, "mem").t = "runs" THEN <<Snapshot(memory).v>> ELSE Unchanged
    PROVE  MemInv'
<1> DEFINE n == Len(lines)
           record == ToTraceRecord(Shaped(obj))
           writes == Get(obj, "mem").t = "runs"
<1>1. sent' = (IF writes THEN memory ELSE sent)
  BY DEF Write
<1>2. /\ n \in Nat /\ Len(lines') = n + 1
      /\ \A k \in 1..n : Records'[k] = Records[k] /\ truth'[k] = truth[k]
      /\ Records'[n + 1] = record
      /\ Bad' = {} => Bad = {} /\ FaultOf(obj) = "none"
  BY RecordsGrow
<1>3. truth'[n + 1].at = at /\ truth'[n + 1].memory = memory
  BY WriteAdds DEF TraceInv
<1>4. /\ FaultOf(obj) = "none" => record.mem = IF writes THEN <<Snapshot(memory).v>> ELSE Unchanged
      /\ writes => memory \in Memory
      /\ ~writes /\ at # <<>> => memory = sent
  OBVIOUS
<1>5. sent \in Memory /\ (Bad = {} => MemoryAt(Records, n, sent)
                                      /\ \A k \in 1..n : truth[k].at # <<>> => MemoryAt(Records, k, truth[k].memory))
  BY DEF MemInv
<1> HIDE DEF n, record, writes
<1>6. sent' \in Memory
  BY <1>1, <1>4, <1>5
<1>7. ASSUME Bad' = {} PROVE MemoryAt(Records', n + 1, sent')
  <2>1. CASE writes
    <3>1. sent' = memory /\ memory \in Memory /\ Records'[n + 1].mem = <<Snapshot(memory).v>>
      BY <1>1, <1>2, <1>4, <1>7, <2>1
    <3> QED BY <1>2, <3>1, MemoryAtSnapshot
  <2>2. CASE ~writes
    <3>1. sent' = sent /\ Records'[n + 1].mem = Unchanged /\ MemoryAt(Records, n, sent)
      BY <1>1, <1>2, <1>4, <1>5, <1>7, <2>2
    <3>2. \A k \in 1..n : Records'[k] = Records[k]
      BY <1>2
    <3> QED BY <1>2, <3>1, <3>2, MemoryAtKept
  <2> QED BY <2>1, <2>2
<1>8. ASSUME Bad' = {}, NEW k \in 1..(n + 1), truth'[k].at # <<>> PROVE MemoryAt(Records', k, truth'[k].memory)
  <2>1. CASE k = n + 1
    <3>1. truth'[k].memory = memory /\ at # <<>>
      BY <1>3, <1>8, <2>1
    <3>2. memory = sent'
      BY <1>1, <1>4, <3>1
    <3> QED BY <1>7, <1>8, <2>1, <3>1, <3>2
  <2>2. CASE k # n + 1
    <3>1. k \in 1..n /\ k \in Nat
      BY <1>2, <2>2
    <3>2. truth'[k] = truth[k] /\ \A j \in 1..k : Records'[j] = Records[j]
      BY <1>2, <3>1
    <3>3. MemoryAt(Records, k, truth[k].memory)
      BY <1>2, <1>5, <1>8, <3>1, <3>2
    <3> QED BY <3>1, <3>2, <3>3, MemoryAtKept
  <2> QED BY <2>1, <2>2
<1> QED BY <1>2, <1>6, <1>7, <1>8 DEF MemInv

LEMMA MemNext == TraceInv /\ MemInv /\ [Next]_vars => MemInv'
<1> SUFFICES ASSUME TraceInv, MemInv, [Next]_vars PROVE MemInv'
  OBVIOUS
<1>1. ASSUME UNCHANGED <<sent, lines, truth>> PROVE MemInv'
  <2>1. Records' = Records /\ Bad' = Bad
    BY <1>1 DEF Records, Bad
  <2> QED BY <1>1, <2>1 DEF MemInv
<1>2. ASSUME NEW kind, NEW said, IsHostEvent(kind, said), NEW calls, NEW memory,
             Write(Event(kind, said), calls, <<>>, memory)
      PROVE  MemInv'
  <2> DEFINE obj == Event(kind, said)
  <2>1. Get(obj, "mem").t # "runs" /\ ReadsEvent(Shaped(obj), FaultOf(obj), kind, said)
    BY <1>2, ShapedEvent
  <2>2. Write(obj, calls, <<>>, memory)
    BY <1>2
  <2> HIDE DEF obj
  <2>3. FaultOf(obj) = "none" => ToTraceRecord(Shaped(obj)).mem = Unchanged
    BY <2>1 DEF ReadsEvent
  <2> QED BY <2>1, <2>2, <2>3, WriteRemembers
<1>3. ASSUME NEW pos, NEW op, NEW calls, NEW at, NEW memory \in Memory, Write(Instr(pos, op, memory), calls, at, memory)
      PROVE  MemInv'
  <2> DEFINE obj == Instr(pos, op, memory)
  <2>1. /\ (Get(obj, "mem").t = "runs") <=> (memory # sent)
        /\ ReadsInstr(Shaped(obj), FaultOf(obj), pos, op, memory)
    BY ShapedInstr
  <2>2. Write(obj, calls, at, memory)
    BY <1>3
  <2> HIDE DEF obj
  <2>3. FaultOf(obj) = "none" =>
          ToTraceRecord(Shaped(obj)).mem = IF Get(obj, "mem").t = "runs" THEN <<Snapshot(memory).v>> ELSE Unchanged
    BY <2>1 DEF ReadsInstr
  <2> QED BY <2>1, <2>2, <2>3, WriteRemembers
<1>4. host # <<>> => Last(host).memory \in Memory
  BY CallsOfHost DEF TraceInv, OpenCall, Memory
<1>5. CASE Baseline
  BY <1>2, <1>5 DEF Baseline, IsHostEvent
<1>6. ASSUME NEW contract \in Contracts, CallContract(contract) PROVE MemInv'
  <2> DEFINE said == [to |-> Json("address", contract)]
  <2>1. Write(Event("callContract", said), Append(Calls, contract), <<>>, Quiet)
    BY <1>6 DEF CallContract
  <2>2. IsHostEvent("callContract", said)
    BY DEF IsHostEvent, Json
  <2> HIDE DEF said
  <2> QED BY <1>2, <2>1, <2>2
<1>7. ASSUME NEW offset, Initialize(offset) PROVE MemInv'
  BY <1>3, <1>4, <1>7 DEF Initialize
<1>8. ASSUME NEW offset, Execute(offset) PROVE MemInv'
  BY <1>3, <1>4, <1>8 DEF Execute
<1>9. CASE StorageEvent
  <2> DEFINE said == [operation |-> Json("string", "put"), args |-> Json("scvals", <<1, 2>>)]
  <2>1. Write(Event("contractData", said), Calls, <<>>, Quiet)
    BY <1>9 DEF StorageEvent
  <2>2. IsHostEvent("contractData", said)
    BY DEF IsHostEvent
  <2> HIDE DEF said
  <2> QED BY <1>2, <2>1, <2>2
<1>10. ASSUME NEW success \in BOOLEAN, EndWasm(success) PROVE MemInv'
  <2> DEFINE said == [success |-> Json("bool", success)]
  <2>1. Write(Event("endWasm", said), Calls, <<>>, Quiet)
    BY <1>10 DEF EndWasm
  <2>2. IsHostEvent("endWasm", said)
    BY DEF IsHostEvent, Json
  <2> HIDE DEF said
  <2> QED BY <1>2, <2>1, <2>2
<1>11. ASSUME NEW form \in {"rpc", "file", "cut"}, NEW wasm \in Wasms, Load(form, wasm) PROVE MemInv'
  BY <1>1, <1>11 DEF Load
<1>12. ASSUME UNCHANGED vars PROVE MemInv'
  BY <1>1, <1>12 DEF vars
<1> QED BY <1>5, <1>6, <1>7, <1>8, <1>9, <1>10, <1>11, <1>12 DEF Next

\* Memory read at a cursor is the executing contract's memory when that record was
\* written, whatever calls ran in between and however much of it is zero again
\* (MemoryImage).
THEOREM MemoryAlwaysExact == Spec => []MemoryExact
<1>1. Init => MemoryExact
  BY NotLoadedAtFirst DEF MemoryExact, Loaded
<1>2. TraceInv /\ MemInv /\ MemoryExact /\ [Next]_vars => MemoryExact'
  <2> SUFFICES ASSUME TraceInv, MemInv, MemoryExact, [Next]_vars PROVE MemoryExact'
    OBVIOUS
  <2>1. ASSUME UNCHANGED vars PROVE MemoryExact'
    BY <2>1 DEF vars, MemoryExact, Loaded
  <2>2. ASSUME ~view'.loaded PROVE MemoryExact'
    BY <2>2 DEF MemoryExact, Loaded
  <2>3. ASSUME NEW form \in {"rpc", "file", "cut"}, NEW wasm \in Wasms, Load(form, wasm), Loaded',
               NEW i \in DOMAIN view'.records, truth'[i].at # <<>>, NEW c \in Cells
        PROVE  ReadMemory(view'.records, i, c, 2) =
                 [k \in 1..2 |-> IF c + k - 1 \in Cells THEN truth'[i].memory[c + k - 1] ELSE 0]
    <3>1. Bad = {} /\ view'.records = Records /\ truth' = truth
      BY <2>3, LoadSets DEF Loaded
    <3>2. i \in 1..Len(lines) /\ i \in Nat
      BY <2>3, <3>1, RecordsSound
    <3>3. MemoryAt(Records, i, truth[i].memory)
      BY <2>3, <3>1, <3>2 DEF MemInv
    <3> QED BY <3>1, <3>2, <3>3, ReadMemoryReads
  <2>4. ASSUME NEW form \in {"rpc", "file", "cut"}, NEW wasm \in Wasms, Load(form, wasm) PROVE MemoryExact'
    BY <2>3, <2>4 DEF MemoryExact
  <2> QED BY <2>1, <2>2, <2>4, NothingAfterLoad
<1> QED BY <1>1, <1>2, TraceInit, TraceNext, MemInit, MemNext, PTL DEF Spec

-----------------------------------------------------------------------------
(***************************************************************************)
(* Call boundaries and the gate.                                           *)
(***************************************************************************)
\* Open calls that follow one another as the events of n records say.
Chains(records, n, open, calls) ==
    /\ open[0] = <<>>
    /\ \A k \in 1..n : /\ calls[k] = During(open[k - 1], records[k].event)
                       /\ open[k] = AfterEvent(open[k - 1], records[k].event)

\* One record more, and its calls.
LEMMA ChainsExtend ==
    ASSUME NEW n \in Nat, NEW r, NEW s, NEW open, NEW c, NEW d, Chains(r, n, open, c),
           \A k \in 1..n : s[k] = r[k] /\ d[k] = c[k],
           d[n + 1] = During(open[n], s[n + 1].event)
    PROVE  \E more : /\ Chains(s, n + 1, more, d)
                     /\ more[n + 1] = AfterEvent(open[n], s[n + 1].event)
<1> DEFINE last == AfterEvent(open[n], s[n + 1].event)
           more == [k \in 0..(n + 1) |-> IF k = n + 1 THEN last ELSE open[k]]
<1>1. more[n + 1] = last /\ \A k \in 0..n : more[k] = open[k]
  OBVIOUS
<1> HIDE DEF more, last
<1>2. more[0] = <<>>
  BY <1>1 DEF Chains
<1>3. ASSUME NEW k \in 1..(n + 1)
      PROVE  d[k] = During(more[k - 1], s[k].event) /\ more[k] = AfterEvent(more[k - 1], s[k].event)
  <2>1. more[k - 1] = open[k - 1]
    <3>1. k - 1 \in 0..n
      OBVIOUS
    <3> QED BY <1>1, <3>1
  <2>2. CASE k = n + 1
    BY <1>1, <2>1, <2>2 DEF last
  <2>3. CASE k # n + 1
    <3>1. k \in 1..n /\ k \in 0..n
      BY <2>3
    <3>2. c[k] = During(open[k - 1], r[k].event) /\ open[k] = AfterEvent(open[k - 1], r[k].event)
      BY <3>1 DEF Chains
    <3> QED BY <1>1, <2>1, <3>1, <3>2
  <2> QED BY <2>2, <2>3
<1>4. Chains(s, n + 1, more, d)
  BY <1>2, <1>3 DEF Chains
<1> QED BY <1>1, <1>4 DEF last

CallsOf(t) == [k \in DOMAIN t |-> t[k].calls]

\* The calls a session finds open at every record are the host's, and those that are
\* left are still open.
CallsInv ==
    Bad = {} /\ BoundariesIntact =>
        \E open : Chains(Records, Len(lines), open, CallsOf(truth)) /\ open[Len(lines)] = Calls

LEMMA CallsInit == Init => CallsInv
<1> SUFFICES ASSUME Init PROVE CallsInv
  OBVIOUS
<1>1. lines = <<>> /\ host = <<>>
  BY DEF Init
<1>2. Len(lines) = 0 /\ Calls = <<>>
  BY <1>1 DEF Calls
<1> DEFINE open == [k \in {0} |-> <<>>]
<1>3. open[0] = <<>>
  OBVIOUS
<1> HIDE DEF open
<1>4. Chains(Records, 0, open, CallsOf(truth))
  BY <1>3 DEF Chains
<1> QED BY <1>2, <1>3, <1>4 DEF CallsInv

\* A write whose event says what the host does to its calls.
LEMMA WriteChains ==
    ASSUME TraceInv, CallsInv, NEW obj, NEW calls, NEW at, NEW memory, Write(obj, calls, at, memory),
           NEW event, event = ToTraceRecord(Shaped(obj)).event,
           BoundariesIntact /\ FaultOf(obj) = "none" =>
              calls = During(Calls, event) /\ Calls' = AfterEvent(Calls, event)
    PROVE  CallsInv'
<1> SUFFICES ASSUME Bad' = {}, BoundariesIntact'
             PROVE  \E open : Chains(Records', Len(lines'), open, CallsOf(truth)') /\ open[Len(lines')] = Calls'
  BY DEF CallsInv
<1> DEFINE n == Len(lines)
           c == CallsOf(truth)
           d == CallsOf(truth')
<1>1. /\ n \in Nat /\ Len(lines') = n + 1
      /\ \A k \in 1..n : Records'[k] = Records[k] /\ truth'[k] = truth[k]
      /\ Records'[n + 1] = ToTraceRecord(Shaped(obj))
      /\ Bad' = {} => Bad = {} /\ FaultOf(obj) = "none"
  BY RecordsGrow
<1>2. release' = release
  BY DEF Write
<1>3. BoundariesIntact /\ Bad = {} /\ FaultOf(obj) = "none"
  BY <1>1, <1>2 DEF BoundariesIntact
<1>4. PICK open : Chains(Records, n, open, c) /\ open[n] = Calls
  BY <1>3 DEF CallsInv
<1>5. /\ IsSeq(truth') /\ DOMAIN truth = 1..n /\ Len(truth') = n + 1 /\ truth'[n + 1].calls = calls
  BY WriteAdds DEF TraceInv
<1>6. DOMAIN truth' = 1..(n + 1)
  BY <1>5, LenProperties DEF IsSeq
<1>7. (\A k \in 1..n : d[k] = c[k]) /\ d[n + 1] = calls
  <2>1. \A k \in 1..n : k \in DOMAIN truth /\ k \in DOMAIN truth'
    BY <1>1, <1>5, <1>6
  <2>2. n + 1 \in DOMAIN truth'
    BY <1>1, <1>6
  <2> QED BY <1>1, <1>5, <2>1, <2>2 DEF CallsOf
<1>8. calls = During(open[n], Records'[n + 1].event) /\ Calls' = AfterEvent(open[n], Records'[n + 1].event)
  BY <1>1, <1>3, <1>4
<1> HIDE DEF n, c, d
<1>9. \E more : /\ Chains(Records', n + 1, more, d)
                /\ more[n + 1] = AfterEvent(open[n], Records'[n + 1].event)
  <2> DEFINE r == Records
             s == Records'
  <2>1. Chains(r, n, open, c) /\ n \in Nat
    BY <1>1, <1>4
  <2>2. \A k \in 1..n : s[k] = r[k] /\ d[k] = c[k]
    BY <1>1, <1>7
  <2>3. d[n + 1] = During(open[n], s[n + 1].event)
    BY <1>7, <1>8
  <2> HIDE DEF r, s
  <2>4. \E more : Chains(s, n + 1, more, d) /\ more[n + 1] = AfterEvent(open[n], s[n + 1].event)
    BY <2>1, <2>2, <2>3, ChainsExtend
  <2> QED BY <2>4 DEF s
<1> QED BY <1>1, <1>8, <1>9 DEF d, CallsOf

\* How the open calls of the host change.
LEMMA CallsChange ==
    ASSUME HostInv
    PROVE  /\ \A contract \in Contracts : CallContract(contract) => Calls' = Append(Calls, contract)
           /\ \A offset : Execute(offset) => Calls' = Calls
           /\ \A success : EndWasm(success) => Calls # <<>> /\ Calls' = Front(Calls)
<1>1. /\ Calls \in Seq(Contracts) /\ Len(Calls) = Len(host) /\ Len(host) \in Nat
      /\ \A k \in 1..Len(host) : Calls[k] = host[k].contract
  BY CallsOfHost, LenProperties DEF HostInv
<1>2. host \in Seq(OpenCall)
  BY DEF HostInv
<1>3. Calls' = [k \in DOMAIN host' |-> host'[k].contract]
  BY DEF Calls
<1>4. ASSUME NEW contract \in Contracts, CallContract(contract) PROVE Calls' = Append(Calls, contract)
  <2> DEFINE call == [contract |-> contract, memory |-> Zeros, fresh |-> TRUE]
  <2>1. host' = Append(host, call) /\ call.contract = contract /\ call \in OpenCall
    BY <1>4 DEF CallContract, OpenCall, Zeros
  <2> HIDE DEF call
  <2>2. /\ host' \in Seq(OpenCall) /\ Len(host') = Len(host) + 1
        /\ \A k \in 1..Len(host) : host'[k] = host[k]
        /\ host'[Len(host) + 1] = call
    BY <1>2, <2>1, AppendProperties
  <2>3. DOMAIN host' = 1..(Len(host) + 1)
    BY <2>2, LenProperties
  <2> HIDE DEF Calls
  <2> DEFINE more == Append(Calls, contract)
  <2>4. /\ more \in Seq(Contracts) /\ Len(more) = Len(host) + 1
        /\ \A k \in 1..Len(host) : more[k] = Calls[k]
        /\ more[Len(host) + 1] = contract
    BY <1>1, AppendProperties
  <2> HIDE DEF more
  <2>5. more = [k \in 1..(Len(host) + 1) |-> more[k]]
    BY <2>4, LenProperties
  <2>6. \A k \in 1..(Len(host) + 1) : more[k] = host'[k].contract
    BY <1>1, <2>1, <2>2, <2>4
  <2> QED BY <1>3, <2>3, <2>5, <2>6 DEF more
<1>5. ASSUME NEW offset, Execute(offset) PROVE Calls' = Calls
  <2> DEFINE top == Last(host)
             flips == Code[top.contract][offset].flips
             left == [top EXCEPT !.fresh = FALSE, !.memory = [c \in Cells |-> IF c \in flips THEN 1 - @[c] ELSE @[c]]]
  <2>1. host' = Append(Front(host), left) /\ host # <<>>
    BY <1>5 DEF Execute
  <2>2. top \in OpenCall /\ Len(host) \in Nat \ {0} /\ top = host[Len(host)] /\ host' \in Seq(OpenCall)
    BY <1>5, <2>1, FrontProperties, HostSteps DEF HostInv
  <2>3. left.contract = top.contract
    BY <2>2 DEF OpenCall
  <2>4. left \in OpenCall
    <3>1. Len(Front(host)) = Len(host) - 1 /\ Front(host) \in Seq(OpenCall)
      BY <1>2, <2>1, FrontProperties
    <3> DEFINE front == Front(host)
    <3> HIDE DEF left, front
    <3>2. host' \in Seq(OpenCall) /\ host' = Append(front, left) /\ front \in Seq(OpenCall)
      BY <2>1, <2>2, <3>1 DEF front
    <3>3. IsSeq(front)
      BY <3>2 DEF IsSeq
    <3>4. Len(host') = Len(front) + 1 /\ host'[Len(front) + 1] = left /\ Len(front) \in Nat
      BY <3>2, <3>3, IsSeqAppends
    <3>5. Len(front) + 1 \in 1..Len(host')
      BY <3>4
    <3> QED BY <3>2, <3>4, <3>5, ElementOfSeq
  <2> HIDE DEF left
  <2>5. /\ Len(host') = Len(host)
        /\ \A k \in 1..(Len(host) - 1) : host'[k] = host[k]
        /\ host'[Len(host)] = left
    BY <1>2, <2>1, <2>4, ReplaceLastProperties
  <2>6. DOMAIN host' = 1..Len(host) /\ DOMAIN host = 1..Len(host)
    BY <1>2, <2>2, <2>5, LenProperties
  <2>7. \A k \in 1..Len(host) : host'[k].contract = host[k].contract
    BY <2>2, <2>3, <2>5
  <2> QED BY <1>3, <2>6, <2>7 DEF Calls
<1>6. ASSUME NEW success, EndWasm(success) PROVE Calls # <<>> /\ Calls' = Front(Calls)
  <2>1. host' = Front(host) /\ host # <<>>
    BY <1>6 DEF EndWasm
  <2>2. /\ host' \in Seq(OpenCall) /\ Len(host') = Len(host) - 1 /\ Len(host) \in Nat \ {0}
        /\ \A k \in 1..(Len(host) - 1) : host'[k] = host[k]
    BY <1>2, <2>1, FrontProperties
  <2>3. DOMAIN host' = 1..(Len(host) - 1)
    BY <2>2, LenProperties
  <2> HIDE DEF Calls
  <2>4. Calls # <<>>
    BY <1>2, <2>1, CallsOfHost
  <2> DEFINE less == Front(Calls)
  <2>5. /\ less \in Seq(Contracts) /\ Len(less) = Len(host) - 1
        /\ \A k \in 1..(Len(host) - 1) : less[k] = Calls[k]
    BY <1>1, <2>4, FrontProperties
  <2> HIDE DEF less
  <2>6. less = [k \in 1..(Len(host) - 1) |-> less[k]]
    BY <2>5, LenProperties
  <2>7. \A k \in 1..(Len(host) - 1) : less[k] = host'[k].contract
    BY <1>1, <2>2, <2>5
  <2> QED BY <1>3, <2>3, <2>4, <2>6, <2>7 DEF less
<1> QED BY <1>4, <1>5, <1>6

LEMMA CallsNext == TraceInv /\ CallsInv /\ [Next]_vars => CallsInv'
<1> SUFFICES ASSUME TraceInv, CallsInv, [Next]_vars PROVE CallsInv'
  OBVIOUS
<1>1. HostInv
  BY DEF TraceInv, HostInv
<1>2. ASSUME UNCHANGED <<release, host, lines, truth>> PROVE CallsInv'
  <2>1. /\ Records' = Records /\ Bad' = Bad /\ Calls' = Calls /\ CallsOf(truth)' = CallsOf(truth)
        /\ BoundariesIntact' <=> BoundariesIntact
        /\ Len(lines)' = Len(lines)
    BY <1>2 DEF Records, Bad, Calls, CallsOf, BoundariesIntact
  <2> QED BY <2>1 DEF CallsInv
<1>3. ASSUME NEW event, event.kind \notin {"callContract", "endWasm"}, NEW open
      PROVE  During(open, event) = open /\ AfterEvent(open, event) = open
  BY <1>3 DEF During, AfterEvent
<1>4. ASSUME NEW kind \in {"ledger", "contractData"}, NEW said, IsHostEvent(kind, said), NEW memory,
             Write(Event(kind, said), Calls, <<>>, memory), UNCHANGED host
      PROVE  CallsInv'
  <2> DEFINE obj == Event(kind, said)
             event == ToTraceRecord(Shaped(obj)).event
  <2>1. ReadsEvent(Shaped(obj), FaultOf(obj), kind, said)
    BY <1>4, ShapedEvent
  <2>2. Write(obj, Calls, <<>>, memory) /\ Calls' = Calls
    BY <1>4 DEF Calls
  <2>3. FaultOf(obj) = "none" => event.kind \notin {"callContract", "endWasm"}
    <3> HIDE DEF obj
    <3> QED BY <2>1 DEF ReadsEvent
  <2>4. FaultOf(obj) = "none" => Calls = During(Calls, event) /\ Calls' = AfterEvent(Calls, event)
    <3> HIDE DEF event, obj
    <3> QED BY <1>3, <2>2, <2>3
  <2> HIDE DEF obj
  <2> QED BY <2>2, <2>4, WriteChains
<1>5. ASSUME NEW pos, NEW op, NEW at, NEW memory, Write(Instr(pos, op, memory), Calls, at, memory), Calls' = Calls
      PROVE  CallsInv'
  <2> DEFINE obj == Instr(pos, op, memory)
             event == ToTraceRecord(Shaped(obj)).event
  <2>1. ReadsInstr(Shaped(obj), FaultOf(obj), pos, op, memory)
    BY ShapedInstr
  <2>2. Write(obj, Calls, at, memory) /\ Calls' = Calls
    BY <1>5
  <2>3. FaultOf(obj) = "none" => event.kind \notin {"callContract", "endWasm"}
    <3> HIDE DEF obj
    <3> QED BY <2>1 DEF ReadsInstr
  <2>4. FaultOf(obj) = "none" => Calls = During(Calls, event) /\ Calls' = AfterEvent(Calls, event)
    <3> HIDE DEF event, obj
    <3> QED BY <1>3, <2>2, <2>3
  <2> HIDE DEF obj
  <2> QED BY <2>2, <2>4, WriteChains
<1>6. ASSUME Baseline PROVE CallsInv'
  <2>1. lines = <<>> /\ Write(Event("ledger", <<>>), <<>>, <<>>, Quiet) /\ UNCHANGED host
    BY <1>6 DEF Baseline
  <2>2. IsHostEvent("ledger", <<>>)
    BY DEF IsHostEvent
  <2>3. CASE Calls = <<>>
    BY <1>4, <2>1, <2>2, <2>3
  <2>4. CASE ~BoundariesIntact
    <3>1. release' = release
      BY <2>1 DEF Write
    <3> QED BY <2>4, <3>1 DEF CallsInv, BoundariesIntact
  <2>5. CASE BoundariesIntact
    <3>1. Len(lines) = 0 /\ DOMAIN truth = {}
      <4>1. Len(lines) = 0
        BY <2>1
      <4>2. DOMAIN truth = 1..0
        BY <4>1, LenProperties DEF TraceInv, IsSeq
      <4> QED BY <4>1, <4>2
    <3>2. Bad = {}
      BY <3>1 DEF Bad
    <3>3. PICK open : Chains(Records, 0, open, CallsOf(truth)) /\ open[0] = Calls
      BY <2>5, <3>1, <3>2 DEF CallsInv
    <3>4. Calls = <<>>
      BY <3>3 DEF Chains
    <3> QED BY <2>3, <3>4
  <2> QED BY <2>4, <2>5
<1>7. ASSUME NEW contract \in Contracts, CallContract(contract) PROVE CallsInv'
  <2> DEFINE said == [to |-> Json("address", contract)]
             obj == Event("callContract", said)
             event == ToTraceRecord(Shaped(obj)).event
  <2>1. Write(obj, Append(Calls, contract), <<>>, Quiet)
    BY <1>7 DEF CallContract
  <2>2. IsHostEvent("callContract", said) /\ "to" \in DOMAIN said /\ said["to"].v = contract
    BY DEF IsHostEvent, Json
  <2>3. Calls' = Append(Calls, contract)
    BY <1>1, <1>7, CallsChange
  <2> HIDE DEF said
  <2>4. ReadsEvent(Shaped(obj), FaultOf(obj), "callContract", said)
    BY <2>2, ShapedEvent
  <2>5. BoundariesIntact /\ FaultOf(obj) = "none" => event.kind = "callContract" /\ event.fields["to"] = contract
    <3> HIDE DEF obj
    <3> QED BY <2>2, <2>4 DEF ReadsEvent, BoundariesIntact
  <2>6. BoundariesIntact /\ FaultOf(obj) = "none" =>
          Append(Calls, contract) = During(Calls, event) /\ Calls' = AfterEvent(Calls, event)
    <3> HIDE DEF event, obj
    <3> QED BY <2>3, <2>5 DEF During, AfterEvent
  <2> HIDE DEF obj
  <2> QED BY <2>1, <2>6, WriteChains
<1>8. ASSUME NEW offset, Initialize(offset) PROVE CallsInv'
  <2>1. Calls' = Calls
    BY <1>8 DEF Initialize, Calls
  <2> QED BY <1>5, <1>8, <2>1 DEF Initialize
<1>9. ASSUME NEW offset, Execute(offset) PROVE CallsInv'
  <2>1. Calls' = Calls
    BY <1>1, <1>9, CallsChange
  <2> QED BY <1>5, <1>9, <2>1 DEF Execute
<1>10. ASSUME StorageEvent PROVE CallsInv'
  <2> DEFINE said == [operation |-> Json("string", "put"), args |-> Json("scvals", <<1, 2>>)]
  <2>1. Write(Event("contractData", said), Calls, <<>>, Quiet) /\ UNCHANGED host
    BY <1>10 DEF StorageEvent
  <2>2. IsHostEvent("contractData", said)
    BY DEF IsHostEvent
  <2> HIDE DEF said
  <2> QED BY <1>4, <2>1, <2>2
<1>11. ASSUME NEW success, success \in BOOLEAN, EndWasm(success) PROVE CallsInv'
  <2> DEFINE said == [success |-> Json("bool", success)]
             obj == Event("endWasm", said)
             event == ToTraceRecord(Shaped(obj)).event
  <2>1. Write(obj, Calls, <<>>, Quiet)
    BY <1>11 DEF EndWasm
  <2>2. IsHostEvent("endWasm", said)
    BY DEF IsHostEvent, Json
  <2>3. Calls # <<>> /\ Calls' = Front(Calls)
    BY <1>1, <1>11, CallsChange
  <2> HIDE DEF said
  <2>4. ReadsEvent(Shaped(obj), FaultOf(obj), "endWasm", said)
    BY <2>2, ShapedEvent
  <2>5. BoundariesIntact /\ FaultOf(obj) = "none" => event.kind = "endWasm"
    <3> HIDE DEF obj
    <3> QED BY <2>4 DEF ReadsEvent, BoundariesIntact
  <2>6. BoundariesIntact /\ FaultOf(obj) = "none" =>
          Calls = During(Calls, event) /\ Calls' = AfterEvent(Calls, event)
    <3> HIDE DEF event, obj
    <3> QED BY <2>3, <2>5 DEF During, AfterEvent
  <2> HIDE DEF obj
  <2> QED BY <2>1, <2>6, WriteChains
<1>12. ASSUME NEW form \in {"rpc", "file", "cut"}, NEW wasm \in Wasms, Load(form, wasm) PROVE CallsInv'
  BY <1>2, <1>12 DEF Load
<1>13. ASSUME UNCHANGED vars PROVE CallsInv'
  BY <1>2, <1>13 DEF vars
<1> QED BY <1>6, <1>7, <1>8, <1>9, <1>10, <1>11, <1>12, <1>13 DEF Next

\* A transaction starts with a call of its root contract, and nothing of another
\* contract comes before that; while it is open, no call means none yet.
EnteredAt(t, first) ==
    /\ first \in 1..Len(t) /\ t[first].calls = <<Root>>
    /\ \A k \in 1..(first - 1) : t[k].calls = <<>>

EnteredInv ==
    /\ \A k \in 1..Len(truth) : truth[k].calls \in Seq(Contracts)
    /\ host # <<>> => \E k \in 1..Len(truth) : truth[k].calls # <<>>
    /\ host = <<>> /\ outcome = "open" => \A k \in 1..Len(truth) : truth[k].calls = <<>>
    /\ (\E k \in 1..Len(truth) : truth[k].calls # <<>>) => \E first : EnteredAt(truth, first)

LEMMA EnteredInit == Init => EnteredInv
<1> SUFFICES ASSUME Init PROVE EnteredInv
  OBVIOUS
<1>1. truth = <<>> /\ host = <<>>
  BY DEF Init
<1>2. Len(truth) = 0
  BY <1>1
<1> QED BY <1>1, <1>2 DEF EnteredInv

LEMMA EnteredNext == TraceInv /\ EnteredInv /\ [Next]_vars => EnteredInv'
<1> SUFFICES ASSUME TraceInv, EnteredInv, [Next]_vars PROVE EnteredInv'
  OBVIOUS
<1> DEFINE n == Len(truth)
<1>1. HostInv /\ host \in Seq(OpenCall)
  BY DEF TraceInv, HostInv
<1>2. Calls \in Seq(Contracts) /\ (host # <<>> => Calls # <<>>) /\ (host = <<>> => Calls = <<>>)
  BY <1>1, CallsOfHost DEF Calls
<1>3. ASSUME NEW obj, NEW calls \in Seq(Contracts), NEW at, NEW memory, Write(obj, calls, at, memory),
             host = <<>> => calls \in {<<>>, <<Root>>},
             calls = <<>> => host = <<>> /\ host' = <<>>,
             calls # <<>> => host' # <<>> \/ outcome' # "open"
      PROVE  EnteredInv'
  <2>1. /\ n \in Nat /\ Len(truth') = n + 1
        /\ \A k \in 1..n : truth'[k] = truth[k]
        /\ truth'[n + 1].calls = calls
    BY <1>3, WriteAdds DEF TraceInv
  <2>2. outcome = "open"
    BY <1>3 DEF Write
  <2> HIDE DEF n
  <2>3. \A k \in 1..(n + 1) : truth'[k].calls \in Seq(Contracts)
    BY <1>3, <2>1 DEF EnteredInv, n
  <2>4. host' # <<>> => \E k \in 1..(n + 1) : truth'[k].calls # <<>>
    BY <1>3, <2>1
  <2>5. host' = <<>> /\ outcome' = "open" => \A k \in 1..(n + 1) : truth'[k].calls = <<>>
    <3>1. host = <<>> => \A k \in 1..n : truth[k].calls = <<>>
      BY <2>2 DEF EnteredInv, n
    <3> QED BY <1>3, <2>1, <3>1
  <2>6. ASSUME NEW k \in 1..(n + 1), truth'[k].calls # <<>> PROVE \E first : EnteredAt(truth', first)
    <3>1. CASE \E j \in 1..n : truth[j].calls # <<>>
      <4>1. PICK first : EnteredAt(truth, first)
        BY <3>1 DEF EnteredInv, n
      <4>2. first \in 1..n /\ truth[first].calls = <<Root>> /\ \A j \in 1..(first - 1) : truth[j].calls = <<>>
        BY <4>1 DEF EnteredAt, n
      <4>3. \A j \in 1..(first - 1) : j \in 1..n
        BY <2>1, <4>2
      <4>4. first \in 1..Len(truth')
        BY <2>1, <4>2
      <4> QED BY <2>1, <4>2, <4>3, <4>4 DEF EnteredAt
    <3>2. CASE \A j \in 1..n : truth[j].calls = <<>>
      <4>1. host = <<>>
        BY <3>2 DEF EnteredInv, n
      <4>2. k = n + 1 /\ calls # <<>>
        BY <2>1, <2>6, <3>2
      <4>3. calls = <<Root>>
        BY <1>3, <4>1, <4>2
      <4>4. \A j \in 1..n : truth'[j].calls = <<>>
        BY <2>1, <3>2
      <4>5. n + 1 \in 1..Len(truth') /\ n + 1 - 1 = n
        BY <2>1
      <4> QED BY <2>1, <4>3, <4>4, <4>5 DEF EnteredAt
    <3> QED BY <3>1, <3>2
  <2> QED BY <2>1, <2>3, <2>4, <2>5, <2>6 DEF EnteredInv
<1>4. ASSUME UNCHANGED <<host, truth, outcome>> PROVE EnteredInv'
  BY <1>4 DEF EnteredInv, EnteredAt
<1>5. ASSUME NEW obj, NEW at, NEW memory, Write(obj, Calls, at, memory), host # <<>>, host' # <<>> \/ outcome' # "open"
      PROVE  EnteredInv'
  BY <1>2, <1>3, <1>5
<1>6. ASSUME Baseline PROVE EnteredInv'
  <2>1. lines = <<>> /\ Write(Event("ledger", <<>>), <<>>, <<>>, Quiet) /\ UNCHANGED <<host, outcome>>
    BY <1>6 DEF Baseline
  <2>2. n = 0
    BY <2>1 DEF TraceInv
  <2>3. host = <<>>
    BY <2>2 DEF EnteredInv
  <2>4. <<>> \in Seq(Contracts)
    OBVIOUS
  <2> QED BY <1>3, <2>1, <2>3, <2>4
<1>7. ASSUME NEW contract \in Contracts, CallContract(contract) PROVE EnteredInv'
  <2> DEFINE calls == Append(Calls, contract)
             call == [contract |-> contract, memory |-> Zeros, fresh |-> TRUE]
  <2>1. /\ Write(Event("callContract", [to |-> Json("address", contract)]), calls, <<>>, Quiet)
        /\ host = <<>> => contract = Root
        /\ host' = Append(host, call)
    BY <1>7 DEF CallContract
  <2>2. calls \in Seq(Contracts) /\ Len(calls) = Len(Calls) + 1 /\ Len(Calls) \in Nat
    <3> HIDE DEF Calls
    <3> QED BY <1>2, AppendProperties, LenProperties
  <2>3. calls # <<>>
    <3> HIDE DEF calls
    <3>1. Len(calls) # 0
      BY <2>2
    <3> QED BY <3>1
  <2>4. host = <<>> => calls = <<Root>>
    <3> SUFFICES ASSUME host = <<>> PROVE calls = <<Root>>
      OBVIOUS
    <3>1. calls = Append(<<>>, Root)
      BY <1>2, <2>1
    <3> QED BY <3>1
  <2>5. host' # <<>>
    <3> HIDE DEF call
    <3>1. Len(host') = Len(host) + 1 /\ Len(host) \in Nat
      <4>1. IsSeq(host)
        BY <1>1 DEF IsSeq
      <4> QED BY <2>1, <4>1, IsSeqAppends
    <3>2. Len(host') # 0
      BY <3>1
    <3> QED BY <3>2
  <2> HIDE DEF calls
  <2> QED BY <1>3, <2>1, <2>2, <2>3, <2>4, <2>5
<1>8. ASSUME NEW offset, Initialize(offset) PROVE EnteredInv'
  BY <1>5, <1>8 DEF Initialize
<1>9. ASSUME NEW offset, Execute(offset) PROVE EnteredInv'
  <2>1. Calls' = Calls /\ HostInv'
    BY <1>1, <1>9, CallsChange, HostSteps
  <2>2. host # <<>>
    BY <1>9 DEF Execute
  <2>3. host' # <<>>
    <3>1. Calls' # <<>>
      BY <1>2, <2>1, <2>2
    <3> QED BY <3>1 DEF Calls
  <2> QED BY <1>5, <1>9, <2>2, <2>3 DEF Execute
<1>10. ASSUME StorageEvent PROVE EnteredInv'
  BY <1>5, <1>10 DEF StorageEvent
<1>11. ASSUME NEW success \in BOOLEAN, EndWasm(success) PROVE EnteredInv'
  <2>1. host # <<>> /\ host' = Front(host) /\ (Len(host) > 1 \/ outcome' # "open")
    BY <1>11 DEF EndWasm
  <2>2. Len(host) > 1 => host' # <<>>
    <3>1. Len(host') = Len(host) - 1 /\ Len(host) \in Nat
      BY <1>1, <2>1, FrontProperties
    <3>2. Len(host) > 1 => Len(host') # 0
      BY <3>1
    <3> QED BY <3>2
  <2> QED BY <1>5, <1>11, <2>1, <2>2 DEF EndWasm
<1>12. ASSUME NEW form \in {"rpc", "file", "cut"}, NEW wasm \in Wasms, Load(form, wasm) PROVE EnteredInv'
  BY <1>4, <1>12 DEF Load
<1>13. ASSUME UNCHANGED vars PROVE EnteredInv'
  BY <1>4, <1>13 DEF vars
<1> QED BY <1>6, <1>7, <1>8, <1>9, <1>10, <1>11, <1>12, <1>13 DEF Next

\* Where the root contract's own code ran, as the host knew it.
InRootCode(here) ==
    IF here.at = <<>> \/ Last(here.calls) # Root THEN <<>>
    ELSE IF here.at[1] = "code" THEN <<here.at[2]>>
    ELSE IF here.at[2] \in DOMAIN Code[Root] /\ Code[Root][here.at[2]].op = Initializers[here.at[2]]
         THEN <<here.at[2]>> ELSE <<>>

\* The positions of a trace whose call boundaries are intact, under the root's code.
LEMMA GatedPositions ==
    ASSUME TraceInv, CallsInv, EnteredInv, Bad = {}, BoundariesIntact, NEW dis, IsRootListing(dis),
           NEW i \in 1..Len(lines)
    PROVE  ValidatedPositions(Records, dis)[i] = InRootCode(truth[i])
<1> DEFINE n == Len(lines)
           calls == CallsOf(truth)
           here == truth[i]
           record == Records[i]
           validated == ValidatedPositions(Records, dis)
           stands == \E k \in 1..Len(dis.instructions) :
                        /\ dis.instructions[k].address = record.pos[1]
                        /\ record.instr \in {"unknown", dis.instructions[k].text}
           inRoot == calls[i] = <<>> \/ Last(calls[i]) = Root
<1>1. /\ n \in Nat /\ Len(Records) = n /\ DOMAIN Records = 1..n /\ DOMAIN truth = 1..n /\ Len(truth) = n
      /\ ReadsAs(record, here) /\ HasPositions(Records)
  BY RecordsSound DEF TraceInv
<1>2. Increasing(dis)
  BY DEF IsRootListing
<1>3. \A k \in 1..n : calls[k] = truth[k].calls
  BY <1>1 DEF CallsOf
<1>4. CASE here.at = <<>>
  <2>1. record.pos = <<>>
    BY <1>1, <1>4 DEF ReadsAs
  <2>2. validated[i] = <<>>
    <3>1. i \in DOMAIN Records
      BY <1>1
    <3> QED BY <2>1, <3>1 DEF ValidatedPositions
  <2> QED BY <1>4, <2>2 DEF InRootCode
<1>5. CASE here.at # <<>>
  <2>1. /\ here.calls # <<>> /\ (InCode(record, here) \/ InGlobals(record, here))
        /\ Last(here.calls) \in Contracts
    BY <1>1, <1>5 DEF ReadsAs
  <2>2. PICK first : EnteredAt(truth, first)
    <3>1. i \in 1..Len(truth)
      BY <1>1
    <3>2. truth[i].calls # <<>>
      BY <2>1
    <3> QED BY <3>1, <3>2 DEF EnteredInv
  <2>3. PICK open : Chains(Records, n, open, calls)
    BY DEF CallsInv
  <2>4. CallsAt(Records) = [k \in 1..n |-> calls[k]]
    <3> HIDE DEF n, calls
    <3>1. /\ open[0] = <<>> /\ \A k \in 1..n : open[k] = AfterEvent(open[k - 1], Records[k].event)
          /\ \A k \in 1..n : calls[k] = During(open[k - 1], Records[k].event)
      BY <2>3 DEF Chains
    <3>2. CallsAt(Records) = [k \in 1..n |-> During(open[k - 1], Records[k].event)]
      BY <1>1, <3>1, CallsAtFollows
    <3> QED BY <3>1, <3>2
  <2>5. first \in 1..n /\ calls[first] = <<Root>> /\ \A k \in 1..(first - 1) : calls[k] = <<>>
    <3>1. \A k \in 1..(first - 1) : k \in 1..n
      BY <1>1, <2>2 DEF EnteredAt
    <3> QED BY <1>1, <1>3, <2>2, <3>1 DEF EnteredAt
  <2>6. ASSUME NEW k \in 1..n, calls[k] # <<>> PROVE Last(calls[k]) # "none"
    <3>1. calls[k] \in Seq(Contracts)
      BY <1>1, <1>3 DEF EnteredInv
    <3> HIDE DEF calls
    <3>2. Last(calls[k]) \in Contracts
      BY <2>6, <3>1, FrontProperties
    <3> QED BY <3>2, GateAssumption
  <2>7. validated[i] = IF inRoot /\ record.pos # <<>> /\ stands THEN record.pos ELSE <<>>
    <3> HIDE DEF n, calls
    <3>1. i \in 1..n
      BY DEF n
    <3>2. ValidatedPositions(Records, dis)[i] = GatedAs(Records, dis, calls, i)
      BY <1>1, <1>2, <2>4, <2>5, <2>6, <3>1, PositionsFollow
    <3> QED BY <3>2 DEF GatedAs
  <2>8. inRoot <=> Last(here.calls) = Root
    <3>1. calls[i] = here.calls
      BY <1>3
    <3>2. here.calls # <<>>
      BY <2>1
    <3> HIDE DEF calls, here, record
    <3> QED BY <3>1, <3>2
  <2> HIDE DEF validated, inRoot, stands, here, record
  <2>9. CASE Last(here.calls) # Root
    BY <1>5, <2>7, <2>8, <2>9 DEF InRootCode, validated, here
  <2>10. CASE Last(here.calls) = Root /\ InCode(record, here)
    <3>1. PICK offset \in DOMAIN Code[Root] :
             here.at = <<"code", offset>> /\ record.pos = <<offset>> /\ record.instr = Code[Root][offset].traced
      BY <2>10 DEF InCode
    <3>2. record.instr \in {"unknown", Code[Root][offset].op}
      BY <3>1, CodeAssumption, GateAssumption
    <3>3. PICK k \in 1..Len(dis.instructions) : dis.instructions[k].address = offset
      BY DEF IsRootListing
    <3>4. dis.instructions[k].text = Code[Root][offset].op
      BY <3>3 DEF IsRootListing
    <3>5. stands
      BY <3>1, <3>2, <3>3, <3>4 DEF stands
    <3>6. validated[i] = <<offset>>
      BY <2>7, <2>8, <2>10, <3>1, <3>5
    <3> QED BY <1>5, <2>10, <3>1, <3>6 DEF InRootCode, validated, here
  <2>11. CASE Last(here.calls) = Root /\ InGlobals(record, here)
    <3>1. PICK offset \in DOMAIN Initializers :
             here.at = <<"globals", offset>> /\ record.pos = <<offset>> /\ record.instr = Initializers[offset]
      BY <2>11 DEF InGlobals
    <3>2. record.instr # "unknown"
      BY <3>1, CodeAssumption
    <3>3. stands <=> offset \in DOMAIN Code[Root] /\ Code[Root][offset].op = Initializers[offset]
      <4>1. ASSUME stands PROVE offset \in DOMAIN Code[Root] /\ Code[Root][offset].op = Initializers[offset]
        <5>1. PICK k \in 1..Len(dis.instructions) :
                 dis.instructions[k].address = offset /\ record.instr \in {"unknown", dis.instructions[k].text}
          BY <3>1, <4>1 DEF stands
        <5>2. offset \in DOMAIN Code[Root] /\ dis.instructions[k].text = Code[Root][offset].op
          BY <5>1 DEF IsRootListing
        <5> QED BY <3>1, <3>2, <5>1, <5>2
      <4>2. ASSUME offset \in DOMAIN Code[Root], Code[Root][offset].op = Initializers[offset] PROVE stands
        <5>1. PICK k \in 1..Len(dis.instructions) : dis.instructions[k].address = offset
          BY <4>2 DEF IsRootListing
        <5>2. dis.instructions[k].text = Code[Root][offset].op
          BY <5>1 DEF IsRootListing
        <5> QED BY <3>1, <4>2, <5>1, <5>2 DEF stands
      <4> QED BY <4>1, <4>2
    <3>4. validated[i] = IF stands THEN <<offset>> ELSE <<>>
      BY <2>7, <2>8, <2>11, <3>1
    <3>5. here.at[1] = "globals" /\ here.at[2] = offset
      BY <3>1
    <3>6. validated[i] =
            IF offset \in DOMAIN Code[Root] /\ Code[Root][offset].op = Initializers[offset] THEN <<offset>> ELSE <<>>
      BY <3>3, <3>4
    <3> QED BY <1>5, <2>11, <3>5, <3>6 DEF InRootCode, validated, here
  <2> QED BY <2>1, <2>9, <2>10, <2>11
<1> QED BY <1>4, <1>5

\* The position of a record is trusted when it ran the root contract's own code: that
\* of a callee never passes for it, at whatever depth and however it re-enters, and a
\* global initializer only where the code has the same instruction (validatedPositions).
THEOREM GateAlwaysExact == Spec => []GateExact
<1>1. Init => GateExact
  BY NotLoadedAtFirst DEF GateExact, Loaded
<1>2. TraceInv /\ CallsInv /\ EnteredInv /\ GateExact /\ [Next]_vars => GateExact'
  <2> SUFFICES ASSUME TraceInv, CallsInv, EnteredInv, GateExact, [Next]_vars PROVE GateExact'
    OBVIOUS
  <2>1. ASSUME UNCHANGED vars PROVE GateExact'
    BY <2>1 DEF vars, GateExact, Loaded, BoundariesIntact, WithWasm, PositionsExact
  <2>2. ASSUME ~view'.loaded PROVE GateExact'
    BY <2>2 DEF GateExact, Loaded
  <2>3. ASSUME NEW form \in {"rpc", "file", "cut"}, NEW wasm \in Wasms, Load(form, wasm),
               Loaded', BoundariesIntact', WithWasm'
        PROVE  PositionsExact'
    <3>1. Bad = {} /\ view'.built = Built(wasm) /\ view'.wasm = wasm /\ truth' = truth /\ release' = release
      BY <2>3, LoadSets DEF Loaded
    <3>2. BoundariesIntact /\ wasm # <<>> /\ wasm[1].readable
      BY <2>3, <3>1 DEF BoundariesIntact, WithWasm
    <3> DEFINE dis == FromWasm(wasm[1])
    <3>3. IsRootListing(dis) /\ Built(wasm).positions = ValidatedPositions(Records, dis)
      BY <3>2, BuiltOf
    <3>4. HasPositions(Records) /\ DOMAIN Records = 1..Len(lines) /\ Increasing(dis)
      BY <3>1, <3>3, RecordsSound DEF IsRootListing
    <3> HIDE DEF dis
    <3>5. DOMAIN view'.built.positions = 1..Len(lines) /\ view'.built.positions = ValidatedPositions(Records, dis)
      BY <3>1, <3>3, <3>4, ValidatedStands
    <3>6. ASSUME NEW i \in 1..Len(lines)
          PROVE  view'.built.positions[i] = InRootCode(truth[i])
      BY <3>1, <3>2, <3>3, <3>5, GatedPositions
    <3>7. PositionsExact' <=> \A i \in DOMAIN view'.built.positions : view'.built.positions[i] = InRootCode(truth'[i])
      BY DEF PositionsExact, InRootCode
    <3> QED BY <3>1, <3>5, <3>6, <3>7
  <2>4. ASSUME NEW form \in {"rpc", "file", "cut"}, NEW wasm \in Wasms, Load(form, wasm) PROVE GateExact'
    BY <2>3, <2>4 DEF GateExact
  <2> QED BY <2>1, <2>2, <2>4, NothingAfterLoad
<1> QED BY <1>1, <1>2, TraceInit, TraceNext, CallsInit, CallsNext, EnteredInit, EnteredNext, PTL DEF Spec

=============================================================================
