----------------------- MODULE MCWarehouseConnections -----------------------
(***************************************************************************)
(* An instance of WarehouseConnections for TLC: a project whose settings   *)
(* name one of two databases behind one SSH server, or an account without  *)
(* a tunnel that has sizes and asks for personal credentials.              *)
(***************************************************************************)
EXTENDS WarehouseConnections

CONSTANTS p1, u1, u2, ann, bob, bastion, orders, stock, port1, port2, small, large

Through(server, address) ==
    [server |-> server, address |-> address, size |-> NoSize, override |-> FALSE,
     personal |-> FALSE]

SomeConnections ==
    {Through(bastion, orders), Through(bastion, stock),
     [Through(NoServer, orders) EXCEPT !.personal = TRUE, !.size = small]}
=============================================================================
