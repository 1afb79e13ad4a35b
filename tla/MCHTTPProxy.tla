----------------------------- MODULE MCHTTPProxy -----------------------------
(* Instances of HTTPProxy for TLC.                                          *)
EXTENDS HTTPProxy

Config(section, enabled, needsAuth, routes, names) ==
  [section |-> section, enabled |-> enabled, auth |-> needsAuth, routes |-> routes, names |-> names]
RouteTo(hosts, allow, deny, cred) ==
  [hosts |-> hosts, allow |-> allow, deny |-> deny, cred |-> cred]

(* A denied path that is allowed too, and a second route behind the first.  *)
Guarded == <<RouteTo({"a"}, <<{"p", "q"}>>, <<{"q"}>>, "x"), RouteTo({"a", "b"}, <<>>, <<>>, "x")>>
(* Another credential, and no rules.                                        *)
Plain == <<RouteTo({"a"}, <<>>, <<>>, "y")>>

Absent == Config(FALSE, FALSE, TRUE, <<>>, {})
Off == Config(TRUE, FALSE, TRUE, <<>>, {})
AllConfigs == {Absent, Off, Config(TRUE, TRUE, TRUE, Guarded, {"x"}), Config(TRUE, TRUE, TRUE, Plain, {"y"}),
               Config(TRUE, TRUE, FALSE, Plain, {"x", "y"})}
=============================================================================
