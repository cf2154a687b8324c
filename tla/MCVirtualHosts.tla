--------------------------- MODULE MCVirtualHosts ---------------------------
(* Small configuration files for TLC. *)
EXTENDS VirtualHosts, TLC

SomePorts == {<<>>, <<80>>, <<80, 81>>, <<80, 80>>}
SomeNames == {<<>>, <<"a">>, <<"A">>, <<"a", "b">>}
SomeHeaders == {"a", "A", "b", "c"}
LowerCase == ("a" :> "a") @@ ("A" :> "a") @@ ("b" :> "b") @@ ("c" :> "c")
HostsAlike == Permutations(Hosts)
=============================================================================
