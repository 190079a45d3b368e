--------------------------- MODULE MCPacketRuntime ---------------------------
(* Model checking of PacketRuntime: routes of one and of two hops.           *)
EXTENDS PacketRuntime

SmallRoutes == {<<"station", "drone_1">>, <<"station", "drone_2", "drone_1">>}
SmallNodes  == {"station", "drone_1", "drone_2"}
=============================================================================
