------------------------------- MODULE MCRestore -------------------------------
(* Two targets, all configurations of which are imported into some of.        *)
EXTENDS Restore

CONSTANTS k1, k2, a, b

Of(theme, health, enabled, endpoint) ==
    [theme |-> theme, health |-> health, enabled |-> enabled, endpoint |-> endpoint]
Config(hosts, of) == [hosts |-> hosts, settings |-> of]

OneFile == {Config(<<Entry(k1, a, TRUE), Entry(k2, a, FALSE)>>, Of(a, a, TRUE, TRUE))}
TwoImports == {Config(<<Entry(k2, b, FALSE), Entry(k1, b, FALSE)>>, Of(b, b, TRUE, FALSE)),
               Config(<<Entry(k2, b, FALSE)>>, Of(b, b, FALSE, FALSE))}
================================================================================
