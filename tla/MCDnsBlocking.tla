--------------------------- MODULE MCDnsBlocking ---------------------------
(* Forbidden domains on a small instance for TLC. *)
EXTENDS DnsBlocking

CONSTANTS site, host, plain     \* site.tld, host.site.tld, and a name without a dot

MCNames == {site, host, plain}
MCSub == {<<host, site>>}
MCBlockable == {site, host}
MCPatterns == {[of |-> site, wild |-> TRUE], [of |-> site, wild |-> FALSE],
               [of |-> plain, wild |-> FALSE]}

(* Reloads do not overlap: only the restart by start.sh runs beside one. *)
MCApart == {{"add"}, {"remove"}, {"domain"}, {"add", "remove"}, {"add", "domain"},
            {"remove", "domain"}}

MCBudgets == {[ops |-> 3, crashes |-> 0, faults |-> 1],
              [ops |-> 2, crashes |-> 2, faults |-> 1]}
=============================================================================
