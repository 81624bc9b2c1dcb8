-------------------------- MODULE MCCheckUniverse --------------------------
(***************************************************************************)
(* CheckUniverse on three machines, two racks and three segments: the      *)
(* management VLAN, where the rack controllers are, and two VLANs of one   *)
(* data fabric.                                                            *)
(***************************************************************************)
EXTENDS CheckUniverse

Fabrics == <<"management", "data", "data">>
\* The second controller is on the management VLAN with a bridge only.
ControllersOn ==
  [c \in Controllers |-> IF c = 10 THEN <<"static", "none", "none">>
                        ELSE <<"bridge", "none", "none">>]

Wired(boot, links) == [boot |-> boot, on |-> links, loose |-> FALSE, modeless |-> FALSE]
SmallWirings == {
  Wired(1, <<"static", "static", "none">>),    \* data machine with a management interface
  Wired(2, <<"none", "static", "none">>),      \* data machine on one VLAN
  Wired(2, <<"none", "auto", "static">>),      \* ... on two, one address still to come
  Wired(1, <<"auto", "none", "static">>),      \* ... booting from a VLAN it has no address on
  Wired(1, <<"static", "none", "none">>),      \* management machine
  Wired(1, <<"link_up", "none", "none">>),     \* ... without a subnet
  Wired(1, <<"none", "none", "none">>),        \* nothing cabled
  Wired(1, <<"static", "bridge", "none">>),    \* data machine by a bridge only
  [Wired(2, <<"none", "static", "none">>) EXCEPT !.loose = TRUE],
  [Wired(3, <<"none", "none", "static">>) EXCEPT !.modeless = TRUE]}

\* One controller leads all, the data VLANs are led by another one, or the
\* management VLAN is led by none and the data VLANs by one each.
SmallPrimaries == {<<10, 10, 10>>, <<10, 20, 20>>, <<0, 10, 20>>}
=============================================================================
