------------------------------ MODULE MCLedger ------------------------------
(***************************************************************************)
(* Two contracts: a storage entry of each, the instance of the second one  *)
(* and an account.                                                         *)
(***************************************************************************)
EXTENDS Ledger

CONSTANTS a, b

MCContracts == {a, b}
Cell(kind, owner) == [kind |-> kind, owner |-> owner]
MCCells == {Cell("data", a), Cell("data", b), Cell("instance", b), Cell("scalar", a)}
MCValues == {"v1", "v2"}
MCTtls == {1, 2}

MCWorlds == {
    NoWorld,
    [c \in MCCells |-> [val |-> "v1", ttl |-> IF c.kind = "scalar" THEN NoTtl ELSE 2]]}

=============================================================================
