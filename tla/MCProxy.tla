------------------------------ MODULE MCProxy ------------------------------
(* An instance of Proxy for TLC: one allowed domain; the host itself, a    *)
(* host below it, and a host it is below of.                               *)
EXTENDS Proxy

Domain == <<"pypi", "org">>
OneDomain == {Domain}

(* The last block of a range that is not public, and the first after one.  *)
TwoIps == {<<198, 19, 255, 255>>, <<100, 128, 0, 0>>}
ThreeHosts == {Domain, <<"files">> \o Domain, <<"org">>}
============================================================================
